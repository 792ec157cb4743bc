------------------------------- MODULE Monitor -------------------------------
(***************************************************************************)
(* What the user of Procmonel is promised about one line of the log,       *)
(* whatever kind of event it is about.                                     *)
(*                                                                         *)
(* An actor, a process or a thread, does something that the driver may     *)
(* see; when it is finished the actor gets a result.  The driver reports   *)
(* an event at most once, names the actor, and shows the result the actor  *)
(* gets.  The one exception is an event that loses its observer on the     *)
(* way, because the driver is unloaded: its report may show any result.    *)
(*                                                                         *)
(* FileFilter and RegistryMonitor implement this specification.            *)
(***************************************************************************)
CONSTANTS
  Slots,    (* The events that may be under way at a time.                 *)
  Actors,   (* Who causes events.                                          *)
  Outcomes, (* What may come of an event.                                  *)
  None      (* No actor, no report.                                        *)

VARIABLES
  status,   (* "idle", "underway", "torn" if under way without an          *)
            (* observer, or "late" if finished without one.                *)
  actor,    (* Who caused the event, None if nobody knows.                 *)
  result,   (* What came of it.                                            *)
  report    (* The report of the event, or None.                           *)

vars == <<status, actor, result, report>>

Reports == [actor : Actors, result : Outcomes]

Init ==
  /\ status = [s \in Slots |-> "idle"]
  /\ actor \in [Slots -> Actors \cup {None}]
  /\ result \in [Slots -> Outcomes]
  /\ report = [s \in Slots |-> None]

(* Something happens; nothing is said about it yet.                        *)
Occur(s) ==
  /\ status[s] \in {"idle", "late"}
  /\ status' = [status EXCEPT ![s] = "underway"]
  /\ \E a \in Actors \cup {None} : actor' = [actor EXCEPT ![s] = a]
  /\ \E r \in Outcomes : result' = [result EXCEPT ![s] = r]
  /\ report' = [report EXCEPT ![s] = None]

(* The result of an event under way is not settled before it is finished.  *)
Proceed(s) ==
  /\ status[s] = "underway"
  /\ \E r \in Outcomes : result' = [result EXCEPT ![s] = r]
  /\ UNCHANGED <<status, actor, report>>

(* The observer of the event is torn down.                                 *)
Tear(s) ==
  /\ status[s] = "underway"
  /\ status' = [status EXCEPT ![s] = "torn"]
  /\ \E r \in Outcomes : result' = [result EXCEPT ![s] = r]
  /\ UNCHANGED <<actor, report>>

IsAbout(line, s) == actor[s] \in {line.actor, None}

(* The event is finished, and reported with the result it has, or not.     *)
Finish(s) ==
  /\ status[s] = "underway"
  /\ status' = [status EXCEPT ![s] = "idle"]
  /\ \E r \in Outcomes :
       /\ result' = [result EXCEPT ![s] = r]
       /\ \/ UNCHANGED report
          \/ \E line \in Reports :
               /\ IsAbout(line, s)
               /\ line.result = r
               /\ report' = [report EXCEPT ![s] = line]
  /\ UNCHANGED actor

(* A torn event is reported before it is finished, or not at all.          *)
ReportTorn(s) ==
  /\ status[s] = "torn"
  /\ report[s] = None
  /\ \E line \in Reports :
       IsAbout(line, s) /\ report' = [report EXCEPT ![s] = line]
  /\ UNCHANGED <<status, actor, result>>

FinishTorn(s) ==
  /\ status[s] = "torn"
  /\ status' = [status EXCEPT ![s] = "late"]
  /\ \E r \in Outcomes : result' = [result EXCEPT ![s] = r]
  /\ UNCHANGED <<actor, report>>

Next ==
  \E s \in Slots :
    \/ Occur(s) \/ Proceed(s) \/ Tear(s) \/ Finish(s)
    \/ ReportTorn(s) \/ FinishTorn(s)

Spec == Init /\ [][Next]_vars

-----------------------------------------------------------------------------
(* What a reader of the log may rely on: a line names the actor, if it is  *)
(* known, and its result is the one the actor got, once the event is       *)
(* finished and unless it was torn (FileCallback and RegistryCallback are  *)
(* shown to implement Spec).                                               *)
ReportsAreTrue ==
  \A s \in Slots : report[s] # None =>
    /\ IsAbout(report[s], s)
    /\ status[s] = "idle" => report[s].result = result[s]
=============================================================================
