------------------------------ MODULE FileFilter ------------------------------
(***************************************************************************)
(* The file operations that pass through the minifilter.                   *)
(*                                                                         *)
(* The filter manager calls ProcMonelFilterPreOperation when a process     *)
(* issues an operation of a kind in the Callbacks table.  The routine      *)
(* allocates a FILE_EVENT, and a block of its own for the path, and hands  *)
(* them on as the completion context.  When the file system is done, at    *)
(* any later time and in the context of any process,                       *)
(* ProcMonelFilterPostOperation logs the event and frees both blocks.      *)
(*                                                                         *)
(* The filter has an instance on every volume.  An instance is torn down   *)
(* when it is detached or the filter is unregistered.  The filter manager  *)
(* does not wait for the file system then: it drains, that is it calls the *)
(* post-operation of every operation on the volume that is still below the *)
(* filter at once, when the operation has no result yet.                   *)
(*                                                                         *)
(* Between its two allocations the pre-operation asks for the name of the  *)
(* file, for the opened one if the normalized one cannot be had.  Either   *)
(* query may have to ask the file system and wait for the answer.  Else it *)
(* works on its own locals and on fresh blocks, in one action on each side *)
(* of a query.  What the path says ("UNKNOWN" if there is no name) is not  *)
(* modelled, nor are the time and the fields that no log line shows.       *)
(***************************************************************************)
EXTENDS Naturals

CONSTANTS
  Ops,          (* The operations that may be in flight at a time.         *)
  Processes,    (* The processes that issue them.                          *)
  Volumes,      (* The volumes that they are about.                        *)
  Majors,       (* The major function codes that they issue.               *)
  PoolMayFail,  (* Whether ExAllocatePoolWithTag may return NULL.          *)
  None          (* No operation, no thread, no context, no log line.       *)

ASSUME PoolAssumption == PoolMayFail \in BOOLEAN

(***************************************************************************)
(* The kinds the driver registers for.  The entries of the table that      *)
(* "#if 0" removes, IRP_MJ_SET_INFORMATION among them, are not in it.      *)
(***************************************************************************)
Callbacks ==
  {"CREATE", "CREATE_NAMED_PIPE", "CLOSE", "READ", "WRITE", "CLEANUP"}
AllMajors == Callbacks \cup {"SET_INFORMATION"}

ASSUME MajorsAssumption == Majors \subseteq AllMajors

(* IoStatus.Information of a create (wdm.h).  A create that fails leaves   *)
(* 0, which is also FILE_SUPERSEDED, or one of the last two values.        *)
FILE_SUPERSEDED     == 0
FILE_OPENED         == 1
FILE_CREATED        == 2
FILE_OVERWRITTEN    == 3
FILE_EXISTS         == 4
FILE_DOES_NOT_EXIST == 5

IoStatus == [status : {"pending", "success", "error"}, information : 0 .. 5]

(* The results the file system may give an operation.                      *)
Results(major) ==
  IF major \in {"CREATE", "CREATE_NAMED_PIPE"}
  THEN [status : {"success"}, information : FILE_SUPERSEDED .. FILE_OVERWRITTEN]
         \cup [status : {"error"},
               information : {0, FILE_EXISTS, FILE_DOES_NOT_EXIST}]
  ELSE [status : {"success", "error"}, information : {0}]

(* What it may say before that: anything.  One Information that            *)
(* FileCallback logs and one that it does not log stand for all.           *)
Undefined(major) ==
  {io \in IoStatus : io.information \in
     IF major \in {"CREATE", "CREATE_NAMED_PIPE"}
     THEN {FILE_SUPERSEDED, FILE_OPENED} ELSE {0}}

VARIABLES
  filter,    (* "off", "filtering", or "draining" in FltUnregisterFilter.  *)
  instance,  (* On each volume: "detached", "attached" or "draining".      *)
  stage,     (* Where each operation is; see Stages.                       *)
  request,   (* The callback data of each operation, None before its first *)
             (* use; thread is the issuing process, None if Data->Thread   *)
             (* is NULL; watched says if the volume had an instance then,  *)
             (* and memory has lasted for the event since.                *)
  ioStatus,  (* Data->IoStatus.                                            *)
  flags,     (* The Flags of the post-operation: "none" or "draining".     *)
  pool,      (* The blocks allocated with FILE_POOL_TAG.                   *)
  context,   (* The completion context: the FILE_EVENT, or None.           *)
  log        (* The line printed for each operation, or None.              *)

vars == <<filter, instance, stage, request, ioStatus, flags, pool, context, log>>

(* "pre" and "post": in our routine; "normalized" and "opened": in it,     *)
(* with a query of that name under way; "below": at the file system, to    *)
(* come back to us; "passing": at the file system, not to come back.       *)
Naming == {"normalized", "opened"}
Ours   == {"pre", "below", "post"} \cup Naming
Stages == {"idle", "passing"} \cup Ours
Blocks == {"path", "event"}

Requests == [major : Majors, thread : Processes \cup {None},
             volume : Volumes, watched : BOOLEAN]
Events   == [major : Majors, processId : Processes]
Lines    == [operation : {"FileCreated", "FileRead", "FileWrite",
                          "FileCleanup", "FileClose", "FileSetAttributes"},
             processId : Processes, result : {"pending", "success", "error"}]

(* None is none of the values it stands in for.                            *)
ASSUME NoneAssumption ==
  /\ None \notin Processes
  /\ None \notin Requests \cup Events \cup Lines

TypeOK ==
  /\ filter \in {"off", "filtering", "draining"}
  /\ instance \in [Volumes -> {"detached", "attached", "draining"}]
  /\ stage \in [Ops -> Stages]
  /\ request \in [Ops -> Requests \cup {None}]
  /\ ioStatus \in [Ops -> IoStatus]
  /\ flags \in [Ops -> {"none", "draining"}]
  /\ pool \subseteq Ops \X Blocks
  /\ context \in [Ops -> Events \cup {None}]
  /\ log \in [Ops -> Lines \cup {None}]

-----------------------------------------------------------------------------
Init ==
  /\ filter = "off"
  /\ instance = [v \in Volumes |-> "detached"]
  /\ stage = [o \in Ops |-> "idle"]
  /\ request = [o \in Ops |-> None]
  /\ ioStatus = [o \in Ops |-> [status |-> "pending", information |-> 0]]
  /\ flags = [o \in Ops |-> "none"]
  /\ pool = {}
  /\ context = [o \in Ops |-> None]
  /\ log = [o \in Ops |-> None]

(* Starting and ending to filter, and the instances; no operation moves.   *)
OperationsStay ==
  UNCHANGED <<stage, request, ioStatus, flags, pool, context, log>>

(* The last step of DriverEntry.                                           *)
StartFiltering ==
  /\ filter = "off"
  /\ filter' = "filtering"
  /\ UNCHANGED instance
  /\ OperationsStay

(* A volume is there: ProcMonelFilterInstanceSetup always attaches.        *)
InstanceSetup(v) ==
  /\ filter = "filtering"
  /\ instance[v] = "detached"
  /\ instance' = [instance EXCEPT ![v] = "attached"]
  /\ UNCHANGED filter
  /\ OperationsStay

(***************************************************************************)
(* An instance goes: somebody detaches it, which                           *)
(* ProcMonelFilterInstanceQueryTeardown never refuses, or the volume is    *)
(* dismounted, or the filter is unregistered.  ...TeardownStart does       *)
(* nothing about the operations that are under way.                        *)
(***************************************************************************)
InstanceTeardownStart(v) ==
  /\ instance[v] = "attached"
  /\ instance' = [instance EXCEPT ![v] = "draining"]
  /\ UNCHANGED filter
  /\ OperationsStay

Volume(o) == request[o].volume

(* The teardown is complete when none of its operations is in our hands.   *)
InstanceTeardownComplete(v) ==
  /\ instance[v] = "draining"
  /\ \A o \in Ops : stage[o] \in Ours => Volume(o) # v
  /\ instance' = [instance EXCEPT ![v] = "detached"]
  /\ UNCHANGED filter
  /\ OperationsStay

(* ProcMonelFilterUnload calls FltUnregisterFilter, which returns when all *)
(* instances are gone.                                                     *)
BeginUnregister ==
  /\ filter = "filtering"
  /\ filter' = "draining"
  /\ UNCHANGED instance
  /\ OperationsStay

EndUnregister ==
  /\ filter = "draining"
  /\ \A v \in Volumes : instance[v] = "detached"
  /\ filter' = "off"
  /\ UNCHANGED instance
  /\ OperationsStay

(* A process issues an operation; a slot is reused when the last operation *)
(* in it is complete.                                                      *)
Issue(o) ==
  /\ stage[o] = "idle"
  /\ \E major \in Majors, thread \in Processes \cup {None}, v \in Volumes :
       LET watched == instance[v] = "attached"
       IN  /\ request' = [request EXCEPT ![o] =
                [major |-> major, thread |-> thread,
                 volume |-> v, watched |-> watched]]
           /\ stage' = [stage EXCEPT ![o] =
                IF watched /\ major \in Callbacks THEN "pre" ELSE "passing"]
  /\ ioStatus' =
       [ioStatus EXCEPT ![o] = [status |-> "pending", information |-> 0]]
  /\ flags' = [flags EXCEPT ![o] = "none"]
  /\ log' = [log EXCEPT ![o] = None]
  /\ UNCHANGED <<filter, instance, pool, context>>

Allocated(o) == {<<o, kind>> : kind \in Blocks}

(* The operation passes unseen, without memory; it goes down with a        *)
(* context.                                                                *)
NoCallback(o) ==
  /\ PoolMayFail
  /\ request' = [request EXCEPT ![o].watched = FALSE]
  /\ stage' = [stage EXCEPT ![o] = "passing"]
  /\ UNCHANGED context

WithCallback(o, processId) ==
  /\ context' = [context EXCEPT ![o] =
       [major |-> request[o].major, processId |-> processId]]
  /\ pool' = pool \cup Allocated(o)
  /\ stage' = [stage EXCEPT ![o] = "below"]
  /\ UNCHANGED request

(***************************************************************************)
(* Without a path block the operation passes unseen, else the normalized   *)
(* name is asked for.  (The early return for file-system filter operations *)
(* is for kinds that are not in the Callbacks table, and all kinds in it   *)
(* have a file object.)                                                    *)
(***************************************************************************)
PreOperation(o) ==
  /\ stage[o] = "pre"
  /\ \/ NoCallback(o) /\ UNCHANGED pool
     \/ /\ pool' = pool \cup {<<o, "path">>}
        /\ stage' = [stage EXCEPT ![o] = "normalized"]
        /\ UNCHANGED <<request, context>>
  /\ UNCHANGED <<filter, instance, ioStatus, flags, log>>

(* There is no normalized name: the opened one is asked for.               *)
NormalizedNameFails(o) ==
  /\ stage[o] = "normalized"
  /\ stage' = [stage EXCEPT ![o] = "opened"]
  /\ UNCHANGED <<filter, instance, request, ioStatus, flags, pool, context, log>>

(* Slips: when the event cannot be allocated the path block is forgotten;  *)
(* the event always names the current process; it has no fallback for an   *)
(* operation without a thread.                                             *)
RecordEventLeaks(o) ==
  /\ stage[o] \in Naming
  /\ \/ NoCallback(o) /\ UNCHANGED pool
     \/ \E p \in Processes :
          request[o].thread \in {p, None} /\ WithCallback(o, p)
  /\ UNCHANGED <<filter, instance, ioStatus, flags, log>>

RecordEventCurrentProcess(o) ==
  /\ stage[o] \in Naming
  /\ \E p \in Processes : WithCallback(o, p)
  /\ UNCHANGED <<filter, instance, ioStatus, flags, log>>

RecordEventNoFallback(o) ==
  /\ stage[o] \in Naming
  /\ WithCallback(o, request[o].thread)
  /\ UNCHANGED <<filter, instance, ioStatus, flags, log>>

(***************************************************************************)
(* The query has been answered, with a name or without one for good.  If   *)
(* there is no memory for the event the path block is freed.  Else the     *)
(* event names the process of the issuing thread, or the current one,      *)
(* whichever that is, if the operation has no thread.  (The branch for     *)
(* IRP_MJ_SHUTDOWN is for a kind that is not in the Callbacks table.)      *)
(***************************************************************************)
RecordEvent(o) ==
  /\ stage[o] \in Naming
  /\ \/ NoCallback(o) /\ pool' = pool \ {<<o, "path">>}
     \/ \E p \in Processes :
          request[o].thread \in {p, None} /\ WithCallback(o, p)
  /\ UNCHANGED <<filter, instance, ioStatus, flags, log>>

(* The file system completes an operation: with a context it comes back.   *)
Complete(o) ==
  /\ stage[o] \in {"below", "passing"}
  /\ \E result \in Results(request[o].major) :
       ioStatus' = [ioStatus EXCEPT ![o] = result]
  /\ stage' = [stage EXCEPT ![o] = IF @ = "below" THEN "post" ELSE "idle"]
  /\ UNCHANGED <<filter, instance, request, flags, pool, context, log>>

(* The filter manager drains an operation that is below us: what its       *)
(* IoStatus says is not defined.                                           *)
Drain(o) ==
  /\ stage[o] = "below"
  /\ instance[Volume(o)] = "draining"
  /\ \E undefined \in Undefined(request[o].major) :
       ioStatus' = [ioStatus EXCEPT ![o] = undefined]
  /\ flags' = [flags EXCEPT ![o] = "draining"]
  /\ stage' = [stage EXCEPT ![o] = "post"]
  /\ UNCHANGED <<filter, instance, request, pool, context, log>>

(* The other kinds and their log lines.                                    *)
OperationOf ==
  [READ |-> "FileRead", WRITE |-> "FileWrite", CLEANUP |-> "FileCleanup",
   CLOSE |-> "FileClose", SET_INFORMATION |-> "FileSetAttributes"]

Line(event, io, operation) ==
  [operation |-> operation, processId |-> event.processId,
   result |-> io.status]

(* The line of an event, if a create with such an information is logged.   *)
LineFor(event, io, created) ==
  IF event.major = "CREATE" /\ io.information \in created
  THEN Line(event, io, "FileCreated")
  ELSE IF event.major \in DOMAIN OperationOf
  THEN Line(event, io, OperationOf[event.major])
  ELSE None

(* Slip: FILE_SUPERSEDED is forgotten.                                     *)
FileCallbackNoSupersede(event, io) ==
  LineFor(event, io, {FILE_CREATED, FILE_OVERWRITTEN})

(* Creates whose Information says that they made or replaced a file are    *)
(* logged, whatever their Status, named pipes never, the other kinds       *)
(* always.                                                                 *)
FileCallback(event, io) ==
  LineFor(event, io, {FILE_CREATED, FILE_OVERWRITTEN, FILE_SUPERSEDED})

(* Slips: a drained operation is skipped, its blocks included; or it is    *)
(* held back until it has a result.                                        *)
PostOperationSkipsDrained(o) ==
  /\ stage[o] = "post"
  /\ context' = [context EXCEPT ![o] = None]
  /\ IF flags[o] = "draining"
     THEN UNCHANGED <<log, pool>>
     ELSE /\ log' = [log EXCEPT ![o] = FileCallback(context[o], ioStatus[o])]
          /\ pool' = pool \ Allocated(o)
  /\ stage' = [stage EXCEPT ![o] =
                 IF flags[o] = "draining" THEN "passing" ELSE "idle"]
  /\ UNCHANGED <<filter, instance, request, ioStatus, flags>>

PostOperationAwaitsResult(o) ==
  /\ stage[o] = "post"
  /\ flags[o] = "none"
  /\ log' = [log EXCEPT ![o] = FileCallback(context[o], ioStatus[o])]
  /\ pool' = pool \ Allocated(o)
  /\ context' = [context EXCEPT ![o] = None]
  /\ stage' = [stage EXCEPT ![o] = "idle"]
  /\ UNCHANGED <<filter, instance, request, ioStatus, flags>>

(***************************************************************************)
(* The event gets the status that the callback data has now, is logged,    *)
(* and both blocks are freed; Flags is not looked at.  A drained operation *)
(* stays with the file system and completes without us.                    *)
(***************************************************************************)
PostOperation(o) ==
  /\ stage[o] = "post"
  /\ log' = [log EXCEPT ![o] = FileCallback(context[o], ioStatus[o])]
  /\ pool' = pool \ Allocated(o)
  /\ context' = [context EXCEPT ![o] = None]
  /\ stage' = [stage EXCEPT ![o] =
                 IF flags[o] = "draining" THEN "passing" ELSE "idle"]
  /\ UNCHANGED <<filter, instance, request, ioStatus, flags>>

Next ==
  \/ StartFiltering
  \/ BeginUnregister
  \/ EndUnregister
  \/ \E v \in Volumes : InstanceSetup(v) \/ InstanceTeardownStart(v)
                          \/ InstanceTeardownComplete(v)
  \/ \E o \in Ops :
       \/ Issue(o)
       \/ PreOperation(o) \/ NormalizedNameFails(o) \/ RecordEvent(o)
       \/ Complete(o) \/ Drain(o) \/ PostOperation(o)

(***************************************************************************)
(* Apart from the queries of names our routines are straight-line code,    *)
(* and the filter manager drains, and tears down every instance of a       *)
(* filter that is being unregistered.  The file system may keep an         *)
(* operation for ever, and a query of a name too.                          *)
(***************************************************************************)
Fairness ==
  /\ WF_vars(EndUnregister)
  /\ \A v \in Volumes :
       /\ WF_vars(filter = "draining" /\ InstanceTeardownStart(v))
       /\ WF_vars(InstanceTeardownComplete(v))
  /\ \A o \in Ops : WF_vars(PreOperation(o)) /\ WF_vars(PostOperation(o))
                      /\ WF_vars(Drain(o))

Spec     == Init /\ [][Next]_vars
FairSpec == Spec /\ Fairness

(* The same fairness with the guards of its actions in place of ENABLED:   *)
(* each of these actions can be taken when its guard holds.                *)
Drainable(o) == stage[o] = "below" /\ instance[Volume(o)] = "draining"

OperationFair(o) ==
  /\ []<>~(stage[o] = "pre") \/ []<><<PreOperation(o)>>_vars
  /\ []<>~(stage[o] = "post") \/ []<><<PostOperation(o)>>_vars
  /\ []<>~Drainable(o) \/ []<><<Drain(o)>>_vars

TeardownDue(v) == filter = "draining" /\ instance[v] = "attached"
TeardownDone(v) ==
  /\ instance[v] = "draining"
  /\ \A o \in Ops : stage[o] \in Ours => Volume(o) # v

VolumeFair(v) ==
  /\ []<>~TeardownDue(v) \/ []<><<InstanceTeardownStart(v)>>_vars
  /\ []<>~TeardownDone(v) \/ []<><<InstanceTeardownComplete(v)>>_vars

UnregisterDone ==
  filter = "draining" /\ \A v \in Volumes : instance[v] = "detached"
UnregisterFair == []<>~UnregisterDone \/ []<><<EndUnregister>>_vars

-----------------------------------------------------------------------------
(* The pool holds the path block of every operation whose name is being    *)
(* queried, the two blocks of every event whose post-operation is still to *)
(* come, and no other: nothing leaks on any path, and no context that the  *)
(* filter manager holds points to freed memory.                            *)
PoolMatchesContexts ==
  /\ pool = {block \in Ops \X Blocks :
               \/ context[block[1]] # None
               \/ block[2] = "path" /\ stage[block[1]] \in Naming}
  /\ \A o \in Ops : context[o] # None <=> stage[o] \in {"below", "post"}

(* Nobody will call us about a volume whose instance is gone, however many *)
(* operations are still with its file system; and when FltUnregisterFilter *)
(* has returned, and the image may go, this holds for all volumes and the  *)
(* memory of the driver is back in the pool.                               *)
UnloadedFilterIsForgotten ==
  /\ \A o \in Ops : stage[o] \in Ours => instance[Volume(o)] # "detached"
  /\ filter = "off" => pool = {} /\ \A o \in Ops : stage[o] \notin Ours

Drained(o)  == flags[o] = "draining"
Finished(o) == stage[o] = "idle" /\ request[o] # None

(* A line names the process that issued the operation, on whatever process *)
(* it completed and whatever other operations are in flight, unless the    *)
(* operation had no thread; and when the operation has finished it shows   *)
(* the result that the process got, unless the filter was unloaded before. *)
LineIsAboutTheOperation ==
  \A o \in Ops : log[o] # None =>
    /\ request[o].thread \in {log[o].processId, None}
    /\ Finished(o) /\ ~Drained(o) => log[o].result = ioStatus[o].status

(* A create that made or replaced a file; one that failed and left 0 in    *)
(* Information, which FileCallback takes for FILE_SUPERSEDED.              *)
ChangedFile(o) ==
  /\ ioStatus[o].status = "success"
  /\ ioStatus[o].information \in
       {FILE_SUPERSEDED, FILE_CREATED, FILE_OVERWRITTEN}
TakenForSuperseded(o) ==
  ioStatus[o].status = "error" /\ ioStatus[o].information = FILE_SUPERSEDED

(* The operations whose lines a reader of the log can count on.            *)
Reportable(o) ==
  \/ request[o].major \in {"READ", "WRITE", "CLEANUP", "CLOSE"}
  \/ request[o].major = "CREATE" /\ ChangedFile(o)

(* Of the operations of the registered kinds that were issued on a watched *)
(* volume, got their memory and were completed while the filter was on,    *)
(* all that are reportable have a line.  The others have none, except for  *)
(* failed creates that are taken for successful ones.                      *)
MonitoredOpsReported ==
  \A o \in Ops :
    /\ Finished(o)
    /\ ~Drained(o)
    /\ request[o].watched
    /\ request[o].major \in Callbacks
    => (log[o] # None <=>
          \/ Reportable(o)
          \/ request[o].major = "CREATE" /\ TakenForSuperseded(o))

(* Attributes that are set are in the log (README: "f. Set Attributes",    *)
(* and FileCallback has a branch for them).                                *)
AttributeChangesReported ==
  \A o \in Ops :
    /\ Finished(o)
    /\ ~Drained(o)
    /\ request[o].watched
    /\ request[o].major = "SET_INFORMATION"
    => log[o] # None

(* The line of an operation shows its result (README: "[Result]"), also if *)
(* the filter is unloaded while the operation is on its way.               *)
ResultIsFinal ==
  \A o \in Ops :
    Finished(o) /\ log[o] # None => log[o].result = ioStatus[o].status

(* The file system answers the queries for names, soon or late.            *)
QueriesAnswered == \A o \in Ops : []<>(stage[o] \notin Naming)

(* Liveness: a detach and the unload get through although the file system  *)
(* may sit on operations for ever, if only it answers queries for names:   *)
(* a pre-operation that waits for a name can not be drained.               *)
DetachFinishes ==
  \A v \in Volumes : instance[v] = "draining" ~> instance[v] = "detached"
UnregisterReturns == filter = "draining" ~> filter = "off"
TeardownsFinish   == QueriesAnswered => DetachFinishes /\ UnregisterReturns

-----------------------------------------------------------------------------
(***************************************************************************)
(* The filter as a monitor.  An operation is torn when its instance is     *)
(* drained; the events of operations that pass unseen have no report.      *)
(***************************************************************************)
MonitorStatus ==
  [o \in Ops |->
     IF Drained(o) THEN IF stage[o] = "idle" THEN "late" ELSE "torn"
     ELSE IF stage[o] = "idle" THEN "idle" ELSE "underway"]

MonitorReport ==
  [o \in Ops |->
     IF log[o] = None THEN None
     ELSE [actor |-> log[o].processId, result |-> log[o].result]]

M == INSTANCE Monitor WITH
       Slots    <- Ops,
       Actors   <- Processes,
       Outcomes <- {"pending", "success", "error"},
       status   <- MonitorStatus,
       actor    <- [o \in Ops |-> IF request[o] = None
                                 THEN None ELSE request[o].thread],
       result   <- [o \in Ops |-> ioStatus[o].status],
       report   <- MonitorReport

(* One report per operation at most, about the process that issued it and  *)
(* with the result it gets, except for those that a teardown cuts off: the *)
(* pre- and post-operation keep the promise of Monitor.                    *)
ImplementsMonitor == M!Spec
=============================================================================
