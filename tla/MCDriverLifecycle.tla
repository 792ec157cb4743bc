-------------------------- MODULE MCDriverLifecycle --------------------------
(***************************************************************************)
(* A small instance of DriverLifecycle for TLC.                            *)
(***************************************************************************)
EXTENDS DriverLifecycle

(* Every kernel call whose status the driver tests may fail.               *)
AllCalls == Calls
=============================================================================
