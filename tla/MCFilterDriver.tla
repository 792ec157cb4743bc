---------------------------- MODULE MCFilterDriver ----------------------------
(***************************************************************************)
(* A small instance of FilterDriver for TLC.                               *)
(***************************************************************************)
EXTENDS FilterDriver, TLC

CONSTANTS p0, p1, t0, t1

(* A process that is there, and one that it may create.                    *)
MCProcesses == {p0, p1}
MCThreads   == {t0, t1}
OwnerOf     == (t0 :> p0) @@ (t1 :> p1)

(* A removal that fails half-way; the start of the filter fails.           *)
HalfWay == {"PsRemoveLoadImageNotifyRoutine", "FltStartFiltering"}

(* An operation that has a line, whatever its result.                      *)
ReadOnly == {"READ"}

(* A bound on what else happens: no images are loaded, and the first       *)
(* process, which creates the other one, stays.                            *)
FirstStays ==
  /\ life[t0] = "alive"
  /\ \A t \in Threads : event[t] = None \/ event[t].routine # "image"
=============================================================================
