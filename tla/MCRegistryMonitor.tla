--------------------------- MODULE MCRegistryMonitor ---------------------------
(***************************************************************************)
(* Small instances of RegistryMonitor for TLC.                             *)
(***************************************************************************)
EXTENDS RegistryMonitor, TLC

CONSTANTS short, long

(* Two names of different length.                                          *)
TwoNames == {short, long}
Lengths  == (short :> 1) @@ (long :> 2)

(* A class for each way through RegistryCallback.                          *)
WaysThrough == {"CreateKeyEx", "DeleteKey", "SetValueKey", "QueryKey"}

(* The class that the look-up is about.                                    *)
SetValueOnly == {"SetValueKey"}

(* Threads and keys are interchangeable; names are not.                    *)
Symmetric == Permutations(Threads) \cup Permutations(Keys)
=============================================================================
