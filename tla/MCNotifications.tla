---------------------------- MODULE MCNotifications ----------------------------
(***************************************************************************)
(* Small instances of Notifications for TLC.                               *)
(***************************************************************************)
EXTENDS Notifications, TLC

CONSTANTS p0, p1, t0, t1, t2

(* One thread of the first process, two of a process that it may create.   *)
TwoProcesses == {p0, p1}
ThreeThreads == {t0, t1, t2}
OwnerOf == (t0 :> p0) @@ (t1 :> p1) @@ (t2 :> p1)

(* The two threads of one process are interchangeable (no liveness).       *)
SiblingSymmetry == Permutations({t1, t2})

(* A registration and a removal that fail half-way.                        *)
HalfWay == 
  {"PsSetCreateThreadNotifyRoutineEx", "PsRemoveLoadImageNotifyRoutine"}
=============================================================================
