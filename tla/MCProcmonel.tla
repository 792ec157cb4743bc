------------------------------ MODULE MCProcmonel ------------------------------
(* An instance of Procmonel.                                               *)
EXTENDS Procmonel, TLC

CONSTANTS p1, t1, l1, l2

MCProcesses == {p1}
MCThreads   == {t1}
OnlyOwner   == (t1 :> p1)
MCListeners == {l1, l2}
ReadOnly    == {"READ"}
=============================================================================
