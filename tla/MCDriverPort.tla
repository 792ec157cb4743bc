----------------------------- MODULE MCDriverPort -----------------------------
(* A small instance of DriverPort for TLC.                                 *)
EXTENDS DriverPort

CONSTANTS c1, c2, c3, t1, t2

MCClients == {c1, c2, c3}
MCThreads == {t1, t2}
=============================================================================
