---------------------------- MODULE ProcmonelProofs ----------------------------
(***************************************************************************)
(* Proofs about the whole system: the driver with file operations that     *)
(* pass through it, and the console beside it, for any threads, processes, *)
(* operations, volumes, listeners and failures (threads, operations and    *)
(* volumes of limited number where progress is concerned).                 *)
(*                                                                         *)
(* The composed driver implements Notifications and, with Filtering for    *)
(* filter, FileFilter.  So it inherits what is proved about either, and    *)
(* what links them follows from the two invariants together.               *)
(***************************************************************************)
EXTENDS Procmonel, NotificationsProofs

FP == INSTANCE FileFilterProofs WITH filter <- Filtering

-----------------------------------------------------------------------------
(* F and FP are the same specification; the lemmas about it are FP's.      *)
LEMMA FilesFit ==
  FP!PoolAssumption /\ FP!MajorsAssumption /\ FP!NoneAssumption
<1>1. FP!PoolAssumption
  BY FilesAssumption DEF F!PoolAssumption, FP!PoolAssumption
<1>2. FP!MajorsAssumption
  BY FilesAssumption DEF F!MajorsAssumption, FP!MajorsAssumption,
     F!AllMajors, FP!AllMajors, F!Callbacks, FP!Callbacks
<1>3. FP!NoneAssumption
  BY FilesAssumption DEF F!NoneAssumption, FP!NoneAssumption, F!Requests,
     FP!Requests, F!Events, FP!Events, F!Lines, FP!Lines
<1>. QED
  BY <1>1, <1>2, <1>3

LEMMA SameInit == F!Init <=> FP!Init
BY DEF F!Init, FP!Init

LEMMA SameInstance ==
  ASSUME NEW v
  PROVE  /\ F!InstanceSetup(v) <=> FP!InstanceSetup(v)
         /\ F!InstanceTeardownStart(v) <=> FP!InstanceTeardownStart(v)
         /\ F!InstanceTeardownComplete(v) <=> FP!InstanceTeardownComplete(v)
BY DEF F!InstanceSetup, FP!InstanceSetup, F!InstanceTeardownStart,
   FP!InstanceTeardownStart, F!InstanceTeardownComplete,
   FP!InstanceTeardownComplete, F!OperationsStay, FP!OperationsStay, F!Ours,
   FP!Ours, F!Naming, FP!Naming, F!Volume, FP!Volume

LEMMA SameOperation ==
  ASSUME NEW o
  PROVE  /\ F!Issue(o) <=> FP!Issue(o)
         /\ F!PreOperation(o) <=> FP!PreOperation(o)
         /\ F!NormalizedNameFails(o) <=> FP!NormalizedNameFails(o)
         /\ F!RecordEvent(o) <=> FP!RecordEvent(o)
         /\ F!Complete(o) <=> FP!Complete(o)
         /\ F!Drain(o) <=> FP!Drain(o)
         /\ F!PostOperation(o) <=> FP!PostOperation(o)
<1>1. F!Issue(o) <=> FP!Issue(o)
  BY DEF F!Issue, FP!Issue, F!Callbacks, FP!Callbacks
<1>2. /\ F!PreOperation(o) <=> FP!PreOperation(o)
      /\ F!NormalizedNameFails(o) <=> FP!NormalizedNameFails(o)
      /\ F!RecordEvent(o) <=> FP!RecordEvent(o)
  BY DEF F!PreOperation, FP!PreOperation, F!NormalizedNameFails,
     FP!NormalizedNameFails, F!RecordEvent, FP!RecordEvent, F!NoCallback,
     FP!NoCallback, F!WithCallback, FP!WithCallback, F!Allocated, FP!Allocated,
     F!Blocks, FP!Blocks, F!Naming, FP!Naming
<1>3. /\ F!Results(request[o].major) = FP!Results(request[o].major)
      /\ F!Undefined(request[o].major) = FP!Undefined(request[o].major)
  BY DEF F!Results, FP!Results, F!Undefined, FP!Undefined, F!IoStatus,
     FP!IoStatus, F!FILE_SUPERSEDED, FP!FILE_SUPERSEDED, F!FILE_OVERWRITTEN,
     FP!FILE_OVERWRITTEN, F!FILE_EXISTS, FP!FILE_EXISTS,
     F!FILE_DOES_NOT_EXIST, FP!FILE_DOES_NOT_EXIST, F!FILE_OPENED,
     FP!FILE_OPENED
<1>4. F!Complete(o) <=> FP!Complete(o)
  BY <1>3 DEF F!Complete, FP!Complete
<1>5. F!Drain(o) <=> FP!Drain(o)
  BY <1>3 DEF F!Drain, FP!Drain, F!Volume, FP!Volume
<1>6. F!FileCallback(context[o], ioStatus[o])
        = FP!FileCallback(context[o], ioStatus[o])
  BY DEF F!FileCallback, FP!FileCallback, F!LineFor, FP!LineFor, F!Line,
     FP!Line, F!OperationOf, FP!OperationOf, F!FILE_SUPERSEDED,
     FP!FILE_SUPERSEDED, F!FILE_CREATED, FP!FILE_CREATED,
     F!FILE_OVERWRITTEN, FP!FILE_OVERWRITTEN
<1>7. F!PostOperation(o) <=> FP!PostOperation(o)
  BY <1>6 DEF F!PostOperation, FP!PostOperation, F!Allocated, FP!Allocated,
     F!Blocks, FP!Blocks
<1>. QED
  BY <1>1, <1>2, <1>4, <1>5, <1>7

-----------------------------------------------------------------------------
(* The driver with files implements the driver without.                    *)
LEMMA StepIsNotified == [DNext]_dvars => [NNext]_nvars
BY DEF DNext, LoadOrUnload, Notice, Instance, Issue, Record, Finish, dvars,
   NNext

THEOREM ImplementsNotifications == DSpec => NSpec
<1>1. DInit => NInit
  BY DEF DInit
<1>. QED
  BY <1>1, StepIsNotified, PTL DEF DSpec, NSpec

(* Only the control thread starts, drains and stops the filter.            *)
LEMMA KernelKeepsControl ==
  ASSUME NTypeOK, NEW t \in Threads, Kernel(t)
  PROVE  UNCHANGED <<pc, filter, registered, old>>
<1>1. CASE Notify(t)
  BY <1>1 DEF Notify, LeaveRoutine
<1>2. CASE Start(t)
  BY <1>2, StartIsEvent DEF Happens
<1>3. CASE Done(t)
  BY <1>3 DEF Done, vars
<1>4. CASE \E u \in Threads : CreateThread(t, u)
  BY <1>4 DEF CreateThread, vars
<1>. QED
  BY <1>1, <1>2, <1>3, <1>4 DEF Kernel, Start

(* What a step of the control thread is to the filter manager.             *)
LEMMA FilteringMoves ==
  ASSUME IInv, DriverEntry \/ ProcMonelFilterUnload \/ Control
  PROVE  \/ UNCHANGED Filtering
         \/ Filtering = "off" /\ Filtering' = "filtering"
         \/ Filtering = "filtering" /\ Filtering' = "draining"
         \/ /\ Filtering = "draining" /\ Filtering' = "off"
            /\ pc = "FltUnregisterFilter"
<1>. USE DEF IInv, FilterAt, RegisterCalls, At, Filtering
<1>1. CASE \/ DriverEntry \/ ProcMonelFilterUnload \/ FltRegisterFilter
           \/ FltStartFiltering \/ FltUnregisterFilter \/ ImageUnmapped
  BY <1>1 DEF DriverEntry, ProcMonelFilterUnload, FltRegisterFilter,
     FltStartFiltering, FltUnregisterFilter, ImageUnmapped
<1>2. CASE ProcMonFltInitialize
  BY <1>2 DEF ProcMonFltInitialize, Register,
     PsSetCreateProcessNotifyRoutineEx, PsSetCreateThreadNotifyRoutineEx,
     PsSetLoadImageNotifyRoutine, CreateRegisterCallback
<1>3. CASE ProcMonFltUninitialize
  BY <1>3 DEF ProcMonFltUninitialize, Remove, CmUnRegisterCallback,
     PsRemoveLoadImageNotifyRoutine, PsRemoveCreateThreadNotifyRoutine,
     PsRemoveCreateProcessNotifyRoutine
<1>. QED
  BY <1>1, <1>2, <1>3 DEF Control

LEMMA StepIsFiltered ==
  ASSUME EventInv, IInv, [DNext]_dvars
  PROVE  [FP!Next]_FP!vars
<1>1. CASE LoadOrUnload
  <2>1. FP!OperationsStay /\ UNCHANGED instance
    BY <1>1 DEF LoadOrUnload, files, FP!OperationsStay
  <2>2. CASE UNCHANGED Filtering
    BY <2>1, <2>2 DEF FP!OperationsStay, FP!vars
  <2>3. CASE Filtering = "off" /\ Filtering' = "filtering"
    BY <2>1, <2>3 DEF FP!StartFiltering, FP!Next
  <2>4. CASE Filtering = "filtering" /\ Filtering' = "draining"
    BY <2>1, <2>4 DEF FP!BeginUnregister, FP!Next
  <2>5. CASE /\ Filtering = "draining" /\ Filtering' = "off"
             /\ pc = "FltUnregisterFilter"
    <3>1. \A v \in Volumes : instance[v] = "detached"
      BY <1>1, <2>5 DEF LoadOrUnload, MayReturn
    <3>. QED
      BY <2>1, <2>5, <3>1 DEF FP!EndUnregister, FP!Next
  <2>. QED
    BY <1>1, <2>2, <2>3, <2>4, <2>5, FilteringMoves DEF LoadOrUnload, Driver
<1>2. ASSUME NEW t \in Threads, Notice(t)
      PROVE  [FP!Next]_FP!vars
  <2>1. UNCHANGED Filtering
    BY <1>2, KernelKeepsControl DEF Notice, EventInv, Filtering
  <2>. QED
    BY <1>2, <2>1 DEF Notice, files, FP!vars
<1>3. ASSUME NEW v \in Volumes, Instance(v)
      PROVE  FP!Next
  BY <1>3, SameInstance DEF Instance, FP!Next
<1>4. ASSUME NEW o \in Ops, Issue(o) \/ Record(o) \/ Finish(o)
      PROVE  FP!Next
  BY <1>4, SameOperation DEF Issue, Record, Finish, FP!Next
<1>5. CASE UNCHANGED dvars
  BY <1>5 DEF dvars, nvars, vars, files, FP!vars, Filtering
<1>. QED
  BY <1>1, <1>2, <1>3, <1>4, <1>5 DEF DNext

(* The file operations pass through the driver as they pass through        *)
(* FileFilter: the calls of DriverEntry and Unload start and end the       *)
(* filter only in the order that FileFilter takes for granted.             *)
THEOREM ImplementsFileFilter == DSpec => FP!Spec
<1>1. DInit => FP!Init
  BY SameInit DEF DInit
<1>2. EventInv /\ IInv /\ [DNext]_dvars => [FP!Next]_FP!vars
  BY StepIsFiltered
<1>. QED
  BY <1>1, <1>2, ImplementsNotifications, EventInvariance, PTL
     DEF DSpec, FP!Spec

(* The invariants of both sides.                                           *)
LEMMA BothInvariant == DSpec => [](Base /\ Introduced /\ FP!IInv)
BY FilesFit, ImplementsNotifications, ImplementsFileFilter, BaseInvariance,
   IntroducedAlways, FP!Invariance, PTL

-----------------------------------------------------------------------------
(* The unmapped driver is forgotten by the file system, on every path of   *)
(* DriverEntry and Unload and whatever failed.                             *)
THEOREM ImageIsForgotten == DSpec => []UnmappedImageIsForgotten
<1>1. Base /\ FP!IInv => UnmappedImageIsForgotten
  <2>. SUFFICES ASSUME Base, FP!IInv, pc = "Absent"
                PROVE  pool = {} /\ \A o \in Ops : stage[o] \notin F!Ours
    BY DEF UnmappedImageIsForgotten
  <2>1. Filtering = "off"
    BY DEF Base, IInv, FilterAt, Filtering
  <2>. QED
    BY <2>1 DEF FP!IInv, FP!UnloadedFilterIsForgotten, F!Ours, FP!Ours,
       F!Naming, FP!Naming
<1>. QED
  BY <1>1, BothInvariant, PTL

-----------------------------------------------------------------------------
(***************************************************************************)
(* The lines about files are of introduced processes.  That the log has a  *)
(* line depends on an event that was created long before, when other       *)
(* routines may have been registered: so what has to be kept is that the   *)
(* process of every event is known, from the pre-operation on.             *)
(***************************************************************************)
Known(p) == p \in old \/ Created(p) \in lines

EventsAreKnown ==
  \A o \in Ops \ late :
    /\ context[o] # None => Known(context[o].processId)
    /\ log[o] # None => Known(log[o].processId)

(* Nobody becomes unknown.                                                 *)
LEMMA KnownStaysKnown ==
  ASSUME NTypeOK, [NNext]_nvars, NEW p, Known(p)
  PROVE  Known(p)'
<1>1. old \subseteq old' /\ lines \subseteq lines'
  <2>1. CASE Driver
    BY <2>1 DEF Driver
  <2>2. ASSUME NEW t \in Threads, Notify(t)
        PROVE  old \subseteq old' /\ lines \subseteq lines'
    BY <2>2 DEF Notify
  <2>3. ASSUME NEW t \in Threads, Start(t)
        PROVE  old \subseteq old' /\ lines \subseteq lines'
    BY <2>3, StartIsEvent DEF Happens
  <2>4. ASSUME NEW t \in Threads,
               Done(t) \/ \E u \in Threads : CreateThread(t, u)
        PROVE  old \subseteq old' /\ lines \subseteq lines'
    BY <2>4 DEF Done, CreateThread
  <2>5. CASE UNCHANGED nvars
    BY <2>5 DEF nvars
  <2>. QED
    BY <2>1, <2>2, <2>3, <2>4, <2>5, NNextSplits
<1>. QED
  BY <1>1 DEF Known, Created, Line

(* While the filter is filtering processes are watched: it starts after    *)
(* the process routine is registered, and ends before that is removed or   *)
(* stays drained.                                                          *)
LEMMA FilteringIsWatched ==
  ASSUME Base, Introduced, Filtering = "filtering",
         NEW p \in Processes, proc[p] \in {"running", "gone"}
  PROVE  Known(p)
<1>1. filter = "filtering" /\ pc # "FltUnregisterFilter"
  BY DEF Filtering
<1>2. pc \in RemoveCalls \cup {"Running"}
  BY <1>1 DEF Base, IInv, TypeOK, FilterAt, Calls, RegisterCalls
<1>3. "process" \in registered
  BY <1>2 DEF Base, IInv, RegisteredAt, RemoveCalls, NotifyRoutines
<1>. QED
  BY <1>3 DEF Introduced, Watched, Known

(* The event names a process that is there.                                *)
LEMMA RecordKeepsKnown ==
  ASSUME Base, Introduced, FP!IInv, EventsAreKnown, NEW o \in Ops, Record(o)
  PROVE  EventsAreKnown'
<1>. USE DEF Record
<1>1. /\ FP!PreOperation(o) \/ FP!NormalizedNameFails(o) \/ FP!RecordEvent(o)
      /\ UNCHANGED <<old, lines, log>>
  BY SameOperation
     DEF nvars, FP!PreOperation, FP!NormalizedNameFails, FP!RecordEvent
<1>2. stage[o] = "pre" \/ stage[o] \in FP!Naming
  BY <1>1 DEF FP!PreOperation, FP!NormalizedNameFails, FP!RecordEvent, FP!Naming
<1>3. /\ log[o] = None /\ context[o] = None /\ Filtering # "off"
      /\ request[o] \in FP!Requests
      /\ context \in [Ops -> FP!Events \cup {None}]
  BY <1>2, FilesFit, FP!NoEventYet
     DEF FP!IInv, FP!TypeOK, FP!Ours, FP!UnloadedFilterIsForgotten
<1>4. \/ context' = context
      \/ \E p \in Processes : FP!WithCallback(o, p)
  BY <1>1 DEF FP!PreOperation, FP!NormalizedNameFails, FP!RecordEvent,
     FP!NoCallback
<1>5. CASE context' = context
  BY <1>1, <1>3, <1>5 DEF EventsAreKnown, Known, Created, Line
<1>6. ASSUME NEW p \in Processes, FP!WithCallback(o, p)
      PROVE  EventsAreKnown'
  <2>1. context' = [context EXCEPT ![o] =
                      [major |-> request[o].major, processId |-> p]]
    BY <1>6 DEF FP!WithCallback
  <2>2. CASE Filtering = "draining"
    BY <1>1, <1>3, <2>1, <2>2 DEF EventsAreKnown, Known, Created, Line
  <2>3. CASE Filtering = "filtering"
    <3>1. late' = late \ {o}
      BY <2>3
    <3>2. context'[o].processId = p
      BY <1>3, <2>1
    <3>3. [major |-> request[o].major, processId |-> p] # None
      BY <1>3, FilesFit DEF FP!NoneAssumption, FP!Events, FP!Requests
    <3>4. context'[o] # None
      BY <1>3, <2>1, <3>3
    <3>5. Known(p)
      BY <2>3, <3>2, <3>4, FilteringIsWatched
    <3>. QED
      BY <1>1, <1>3, <2>1, <3>1, <3>2, <3>5
         DEF EventsAreKnown, Known, Created, Line
  <2>. QED
    BY <1>3, <2>2, <2>3 DEF Filtering
<1>. QED
  BY <1>4, <1>5, <1>6

(* The line names the process of the event.                                *)
LEMMA FinishKeepsKnown ==
  ASSUME FP!IInv, EventsAreKnown, NEW o \in Ops, Finish(o)
  PROVE  EventsAreKnown'
<1>. USE DEF Finish
<1>1. UNCHANGED <<old, lines, late>>
  BY DEF nvars
<1>2. CASE FP!Complete(o) \/ FP!Drain(o)
  BY <1>1, <1>2
     DEF FP!Complete, FP!Drain, EventsAreKnown, Known, Created, Line
<1>3. CASE FP!PostOperation(o)
  <2>1. context[o] \in FP!Events /\ context[o] # None
    BY <1>3 DEF FP!PostOperation, FP!IInv, FP!TypeOK, FP!PoolMatchesContexts
  <2>2. ioStatus[o] \in FP!IoStatus
    BY DEF FP!IInv, FP!TypeOK
  <2>3. log' = [log EXCEPT ![o] = FP!FileCallback(context[o], ioStatus[o])]
    BY <1>3 DEF FP!PostOperation
  <2>4. log'[o] # None => log'[o].processId = context[o].processId
    BY <2>1, <2>2, <2>3, FilesFit, FP!FileCallbackLine DEF FP!IInv, FP!TypeOK
  <2>5. context' = [context EXCEPT ![o] = None]
    BY <1>3 DEF FP!PostOperation
  <2>6. \A i \in Ops \ {o} : log'[i] = log[i] /\ context'[i] = context[i]
    BY <2>3, <2>5 DEF FP!IInv, FP!TypeOK
  <2>7. context'[o] = None
    BY <2>5 DEF FP!IInv, FP!TypeOK
  <2>8. ASSUME NEW i \in Ops \ late, i # o
        PROVE  /\ context'[i] # None => Known(context'[i].processId)
               /\ log'[i] # None => Known(log'[i].processId)
    BY <2>6, <2>8 DEF EventsAreKnown
  <2>9. o \notin late /\ log'[o] # None => Known(log'[o].processId)
    BY <2>1, <2>4 DEF EventsAreKnown
  <2>10. \A i \in Ops \ late :
           /\ context'[i] # None => Known(context'[i].processId)
           /\ log'[i] # None => Known(log'[i].processId)
    BY <2>7, <2>8, <2>9
  <2>. QED
    BY <1>1, <2>10 DEF EventsAreKnown, Known, Created, Line
<1>. QED
  BY <1>2, <1>3, SameOperation

LEMMA NextKeepsKnown ==
  Base /\ Introduced /\ FP!IInv /\ EventsAreKnown /\ [DNext]_dvars
    => EventsAreKnown'
<1>. SUFFICES ASSUME Base, Introduced, FP!IInv, EventsAreKnown, [DNext]_dvars
              PROVE  EventsAreKnown'
  OBVIOUS
<1>1. CASE UNCHANGED <<context, log, late>>
  <2>1. \A p : Known(p) => Known(p)'
    BY StepIsNotified, KnownStaysKnown DEF Base, EventInv
  <2>. QED
    BY <1>1, <2>1 DEF EventsAreKnown
<1>2. ASSUME NEW o \in Ops, Issue(o)
      PROVE  EventsAreKnown'
  <2>1. /\ UNCHANGED <<old, lines, late, context>>
        /\ log' = [log EXCEPT ![o] = None]
    BY <1>2, SameOperation DEF Issue, nvars, FP!Issue
  <2>. QED
    BY <2>1 DEF FP!IInv, FP!TypeOK, EventsAreKnown, Known, Created, Line
<1>3. ASSUME NEW v \in Volumes, Instance(v)
      PROVE  UNCHANGED <<context, log, late>>
  BY <1>3, SameInstance DEF Instance, FP!InstanceSetup,
     FP!InstanceTeardownStart, FP!InstanceTeardownComplete, FP!OperationsStay
<1>. QED
  BY <1>1, <1>2, <1>3, RecordKeepsKnown, FinishKeepsKnown
     DEF DNext, LoadOrUnload, Notice, files, dvars

LEMMA EventsKnown == DSpec => []EventsAreKnown
<1>1. DInit => EventsAreKnown
  BY DEF DInit, F!Init, EventsAreKnown
<1>. QED
  BY <1>1, NextKeepsKnown, BothInvariant, PTL DEF DSpec

(* Nobody reads or writes in the log before his creation is in it, or he   *)
(* is older than the driver: the four notifications enclose the filter.    *)
THEOREM FileContextKnown == DSpec => []FileContextIsKnown
<1>1. EventsAreKnown => FileContextIsKnown
  <2>. SUFFICES ASSUME EventsAreKnown, NEW o \in Ops \ late, log[o] # None,
                       log[o].processId \notin old
                PROVE  "Process Created" \in Operations(log[o].processId)
    BY DEF FileContextIsKnown
  <2>. DEFINE p == log[o].processId
  <2>1. Created(p) \in lines
    BY DEF EventsAreKnown, Known
  <2>2. Created(p).process = p /\ Created(p).operation = "Process Created"
    BY DEF Created, Line
  <2>. HIDE DEF p
  <2>3. "Process Created" \in Operations(p)
    BY <2>1, <2>2 DEF Operations
  <2>. QED
    BY <2>3 DEF p
<1>. QED
  BY <1>1, EventsKnown, PTL

-----------------------------------------------------------------------------
(***************************************************************************)
(* Progress, from DFair, in which the guards of the fair actions are spelt *)
(* out, as the provers have no rule for ENABLED.  First the filter: what   *)
(* is fair here is fair in FileFilter, so that its instances are torn down *)
(* while FltUnregisterFilter waits.                                        *)
(***************************************************************************)
LEMMA InstanceFairImplements ==
  ASSUME NEW v \in Volumes
  PROVE  DSpec => (InstanceFair(v) => FP!VolumeFair(v))
<1>1. /\ F!TeardownDue(v) <=> FP!TeardownDue(v)
      /\ F!TeardownDone(v) <=> FP!TeardownDone(v)
  BY DEF F!TeardownDue, FP!TeardownDue, F!TeardownDone, FP!TeardownDone,
     F!Ours, FP!Ours, F!Naming, FP!Naming, F!Volume, FP!Volume
<1>2. ASSUME FP!IInv, <<Instance(v) /\ F!InstanceTeardownStart(v)>>_dvars
      PROVE  <<FP!InstanceTeardownStart(v)>>_FP!vars
  <2>1. FP!InstanceTeardownStart(v)
    BY <1>2, SameInstance
  <2>2. instance'[v] # instance[v]
    BY <1>2, <2>1 DEF FP!InstanceTeardownStart, FP!IInv, FP!TypeOK
  <2>. QED
    BY <2>1, <2>2 DEF FP!vars
<1>3. ASSUME FP!IInv, <<Instance(v) /\ F!InstanceTeardownComplete(v)>>_dvars
      PROVE  <<FP!InstanceTeardownComplete(v)>>_FP!vars
  <2>1. FP!InstanceTeardownComplete(v)
    BY <1>3, SameInstance
  <2>2. instance'[v] # instance[v]
    BY <1>3, <2>1 DEF FP!InstanceTeardownComplete, FP!IInv, FP!TypeOK
  <2>. QED
    BY <2>1, <2>2 DEF FP!vars
<1>. QED
  BY <1>1, <1>2, <1>3, BothInvariant, PTL DEF InstanceFair, FP!VolumeFair

LEMMA FileFairImplements ==
  ASSUME NEW o \in Ops
  PROVE  DSpec => (FileFair(o) => FP!OperationFair(o))
<1>1. F!Drainable(o) <=> FP!Drainable(o)
  BY DEF F!Drainable, FP!Drainable, F!Volume, FP!Volume
<1>2. ASSUME FP!IInv, <<Record(o) /\ F!PreOperation(o)>>_dvars
      PROVE  <<FP!PreOperation(o)>>_FP!vars
  <2>1. FP!PreOperation(o)
    BY <1>2, SameOperation
  <2>2. stage'[o] # stage[o]
    BY <1>2, <2>1 DEF FP!PreOperation, FP!NoCallback, FP!IInv, FP!TypeOK
  <2>. QED
    BY <2>1, <2>2 DEF FP!vars
<1>3. ASSUME FP!IInv, <<Finish(o) /\ F!PostOperation(o)>>_dvars
      PROVE  <<FP!PostOperation(o)>>_FP!vars
  <2>1. FP!PostOperation(o)
    BY <1>3, SameOperation
  <2>2. stage'[o] # stage[o]
    BY <1>3, <2>1 DEF FP!PostOperation, FP!IInv, FP!TypeOK
  <2>. QED
    BY <2>1, <2>2 DEF FP!vars
<1>4. ASSUME FP!IInv, <<Finish(o) /\ F!Drain(o)>>_dvars
      PROVE  <<FP!Drain(o)>>_FP!vars
  <2>1. FP!Drain(o)
    BY <1>4, SameOperation
  <2>2. stage'[o] # stage[o]
    BY <1>4, <2>1 DEF FP!Drain, FP!IInv, FP!TypeOK
  <2>. QED
    BY <2>1, <2>2 DEF FP!vars
<1>. QED
  BY <1>1, <1>2, <1>3, <1>4, BothInvariant, PTL
     DEF FileFair, FP!OperationFair

(* As in FileFilter the file systems have to answer queries for names.     *)
DFairAnswered == DFair /\ FP!QueriesAnswered

LEMMA SameQueries == F!QueriesAnswered <=> FP!QueriesAnswered
BY DEF F!QueriesAnswered, FP!QueriesAnswered, F!Naming, FP!Naming

LEMMA TeardownFairImplements == DSpec /\ DFairAnswered => FP!TeardownFair
<1>1. ASSUME NEW v \in Volumes
      PROVE  DSpec /\ DFairAnswered => FP!VolumeFair(v)
  <2>1. DFairAnswered => InstanceFair(v)
    BY DEF DFairAnswered, DFair
  <2>. QED
    BY <2>1, InstanceFairImplements, PTL
<1>2. ASSUME NEW o \in Ops
      PROVE  DSpec /\ DFairAnswered => FP!OperationFair(o)
  <2>1. DFairAnswered => FileFair(o)
    BY DEF DFairAnswered, DFair
  <2>. QED
    BY <2>1, FileFairImplements, PTL
<1>3. DSpec /\ DFairAnswered => \A v \in Volumes : FP!VolumeFair(v)
  BY <1>1
<1>4. DSpec /\ DFairAnswered => \A o \in Ops : FP!OperationFair(o)
  BY <1>2
<1>. QED
  BY <1>3, <1>4 DEF FP!TeardownFair, DFairAnswered

(* A thread leaves a routine here as it does in Notifications.             *)
LEMMA NoticeFairImplements ==
  ASSUME NEW t \in Threads
  PROVE  DSpec => (NoticeFair(t) => NotifyFair(t))
<1>1. ASSUME Base, <<Notice(t) /\ Notify(t)>>_dvars
      PROVE  <<Notify(t)>>_nvars
  BY <1>1 DEF Notify, LeaveRoutine, Base, IInv, TypeOK, nvars, vars
<1>. QED
  BY <1>1, BothInvariant, PTL DEF NoticeFair, NotifyFair

(* The control thread waits for instances in FltUnregisterFilter only, and *)
(* there it stays until it takes its step.                                 *)
Unloading == pc = "FltUnregisterFilter" /\ Filtering = "draining"

LEMMA ControlChangesPc ==
  ASSUME IInv, Driver, Control
  PROVE  pc' # pc
<1>1. pc \in Busy
  BY DEF Control, FltRegisterFilter, ProcMonFltInitialize,
     FltStartFiltering, ProcMonFltUninitialize, FltUnregisterFilter,
     ImageUnmapped, At, PsSetCreateProcessNotifyRoutineEx,
     PsSetCreateThreadNotifyRoutineEx, PsSetLoadImageNotifyRoutine,
     CreateRegisterCallback, Register, CmUnRegisterCallback,
     PsRemoveLoadImageNotifyRoutine, PsRemoveCreateThreadNotifyRoutine,
     PsRemoveCreateProcessNotifyRoutine, Remove, Busy, Calls, RegisterCalls,
     RemoveCalls
<1>. QED
  BY <1>1, CallWaits DEF Next

LEMMA UnloadingStays ==
  ASSUME EventInv, IInv, Unloading, [DNext]_dvars
  PROVE  \/ Unloading' /\ Filtering' = Filtering
         \/ <<Driver /\ Control>>_nvars
<1>1. CASE LoadOrUnload
  <2>1. Driver /\ Control
    BY <1>1 DEF LoadOrUnload, Driver, DriverEntry, ProcMonelFilterUnload, At,
       Unloading
  <2>. QED
    BY <2>1, ControlChangesPc DEF nvars, vars
<1>2. CASE \E t \in Threads : Notice(t)
  BY <1>2, KernelKeepsControl DEF Notice, EventInv, Unloading, Filtering
<1>3. CASE UNCHANGED nvars
  BY <1>3 DEF nvars, vars, Unloading, Filtering
<1>. QED
  BY <1>1, <1>2, <1>3 DEF DNext, Instance, Issue, Record, Finish, dvars

LEMMA LoadFairImplements ==
  ASSUME FP!Few(Ops), FP!Few(Volumes)
  PROVE  DSpec /\ DFairAnswered => DriverFair
<1>. DEFINE Inv  == EventInv /\ IInv /\ FP!IInv
            Gone == FP!Detached(Volumes)
            Step == <<Driver /\ Control>>_nvars
<1>1. DSpec => []Inv
  BY BothInvariant, PTL DEF Base
<1>2. Inv /\ ~MayReturn => Unloading
  BY DEF MayReturn, Unloading, Filtering, FP!IInv, FP!OffIsDetached
<1>3. Inv /\ Unloading /\ [DNext]_dvars => Unloading' \/ Step
  BY UnloadingStays
<1>4. Inv /\ Unloading /\ Gone /\ [DNext]_dvars
        => (Unloading /\ Gone)' \/ Step
  <2>. SUFFICES ASSUME Inv, Unloading, Gone, [DNext]_dvars, ~Step
                PROVE  Unloading' /\ Gone'
    OBVIOUS
  <2>1. Unloading' /\ Filtering' = Filtering
    BY UnloadingStays
  <2>2. [FP!Next]_FP!vars
    BY StepIsFiltered
  <2>3. FP!Unregistering /\ FP!Unregistering'
    BY <2>1 DEF FP!Unregistering, Unloading
  <2>4. FP!Torn(Volumes)'
    BY <2>2, <2>3, FilesFit, FP!DetachedStays
  <2>. QED
    BY <2>1, <2>3, <2>4 DEF FP!Torn
<1>5. Unloading => FP!Unregistering
  BY DEF FP!Unregistering, Unloading
<1>6. Gone => MayReturn
  BY DEF MayReturn, FP!Detached
<1>7. ASSUME Inv, <<LoadOrUnload /\ Control>>_dvars
      PROVE  Step
  BY <1>7, ControlChangesPc DEF LoadOrUnload, nvars, vars
<1>8. ControlReady /\ MayReturn => DriverReady
  BY DEF DriverReady
<1>9. FP!TearsDown(Volumes)
  BY FilesFit, FP!VolumesTearDown
<1>10. DSpec /\ DFairAnswered => (FP!Unregistering ~> FP!Torn(Volumes))
  BY <1>9, ImplementsFileFilter, TeardownFairImplements, PTL
     DEF FP!TearsDown
<1>11. FP!Torn(Volumes) => ~FP!Unregistering \/ Gone
  BY DEF FP!Torn
<1>. HIDE DEF Inv, Gone
<1>. QED
  BY <1>1, <1>2, <1>3, <1>4, <1>5, <1>6, <1>7, <1>8, <1>10, <1>11, PTL
     DEF DSpec, DFairAnswered, DFair, LoadFair, DriverFair

LEMMA DFairImplements ==
  ASSUME FP!Few(Ops), FP!Few(Volumes)
  PROVE  DSpec /\ DFairAnswered => NFair
<1>1. ASSUME NEW t \in Threads
      PROVE  DSpec /\ DFairAnswered => NotifyFair(t)
  <2>1. DFairAnswered => NoticeFair(t)
    BY DEF DFairAnswered, DFair
  <2>. QED
    BY <2>1, NoticeFairImplements, PTL
<1>2. DSpec /\ DFairAnswered => \A t \in Threads : NotifyFair(t)
  BY <1>1
<1>. QED
  BY <1>2, LoadFairImplements, PTL DEF NFair

(* An unload ends although file systems may keep operations for ever and   *)
(* events keep coming in, if they answer queries for names:                *)
(* FltUnregisterFilter waits for the routines and for the instances, these *)
(* for pre-operations, and these for a name.                               *)
THEOREM DriverProgresses ==
  ASSUME FewThreads, FP!Few(Ops), FP!Few(Volumes)
  PROVE  DSpec /\ DFair => (F!QueriesAnswered => LoadAndUnloadEnd)
BY DFairImplements, SameQueries, ImplementsNotifications, LifecycleProgresses,
   PTL DEF DFairAnswered

(* And the file system loses sight of the driver for good: every instance  *)
(* that goes is gone in the end, one by one or with the unload, again if   *)
(* queries for names are answered.                                         *)
THEOREM TeardownsProgress ==
  ASSUME FewThreads, FP!Few(Ops), FP!Few(Volumes)
  PROVE  DSpec /\ DFair => FP!TeardownsFinish
<1>1. DSpec /\ DFairAnswered => FP!DetachFinishes
  <2>1. ASSUME NEW v \in Volumes
        PROVE  DSpec /\ DFairAnswered => FP!Detaches(v)
    <3>1. FP!Spec /\ FP!TeardownFair => FP!Detaches(v)
      BY FilesFit, FP!VolumeDetaches
    <3>. QED
      BY <3>1, ImplementsFileFilter, TeardownFairImplements, PTL
  <2>2. DSpec /\ DFairAnswered => \A v \in Volumes : FP!Detaches(v)
    BY <2>1
  <2>. QED
    BY <2>2 DEF FP!DetachFinishes, FP!Detaches, FP!Draining
<1>2. DSpec /\ DFairAnswered => FP!UnregisterReturns
  <2>. DEFINE call == "FltUnregisterFilter"
  <2>1. Spec /\ AllFair => (pc = call ~> Past(call))
    <3>1. Returns(call)
      BY ThreadsDrain, CallReturns DEF Busy
    <3>. QED
      BY <3>1 DEF Returns
  <2>2. Filtering = "draining" => pc = call
    BY DEF Filtering
  <2>3. IInv /\ Past(call) => Filtering = "off"
    BY DEF Past, After, Filtering, IInv, FilterAt
  <2>4. DSpec => []IInv
    BY BothInvariant, PTL DEF Base
  <2>. QED
    BY <2>1, <2>2, <2>3, <2>4, DFairImplements, FairImplements,
       ImplementsNotifications, ImplementsLifecycle, PTL
       DEF FP!UnregisterReturns
<1>. QED
  BY <1>1, <1>2, PTL DEF FP!TeardownsFinish, DFairAnswered

-----------------------------------------------------------------------------
(***************************************************************************)
(* QueriesAnswered says that operations do not stay with a query for a     *)
(* name.  The file system can see to that: to go on the pre-operation only *)
(* needs a process that the event can name, and there always is one.  An   *)
(* operation is issued by a process that runs, one that has run stays      *)
(* nameable, and First is there for the operations without a thread.       *)
(***************************************************************************)
Nameable(p) == proc[p] \in {"running", "gone"}

CanName(o, p) == request[o].thread \in {p, None} /\ Nameable(p)

Unnamed(o) == stage[o] \in {"pre"} \cup F!Naming

IssuersAreThere ==
  /\ Nameable(First)
  /\ \A o \in Ops :
       Unnamed(o) /\ request[o].thread # None =>
         Nameable(request[o].thread)

LEMMA NameableStays ==
  ASSUME NTypeOK, [NNext]_nvars, NEW p \in Processes, Nameable(p)
  PROVE  Nameable(p)'
<1>1. CASE Driver
  BY <1>1 DEF Driver, kernel, Nameable
<1>2. ASSUME NEW t \in Threads,
             \/ Notify(t) \/ StartThread(t) \/ LoadImage(t) \/ ExitThread(t)
             \/ ExitProcess(t) \/ \E u \in Threads : CreateThread(t, u)
      PROVE  Nameable(p)'
  BY <1>2 DEF Notify, StartThread, LoadImage, ExitThread, ExitProcess,
     CreateThread, kernel, Nameable
<1>3. ASSUME NEW t \in Threads, NEW q \in Processes, CreateProcess(t, q)
      PROVE  Nameable(p)'
  BY <1>3 DEF CreateProcess, NTypeOK, Nameable
<1>4. ASSUME NEW t \in Threads, Done(t)
      PROVE  Nameable(p)'
  <2>. DEFINE e == event[t]
  <2>1. Effect(t, e)
    BY <1>4 DEF Done
  <2>. HIDE DEF e
  <2>2. \/ UNCHANGED proc
        \/ proc' = [proc EXCEPT ![e.process] = "gone"]
        \/ proc' = [proc EXCEPT ![e.process] = "running"]
    BY <2>1 DEF Effect, kernel
  <2>. QED
    BY <2>2 DEF NTypeOK, Nameable
<1>5. CASE UNCHANGED nvars
  BY <1>5 DEF nvars, Nameable
<1>. QED
  BY <1>1, <1>2, <1>3, <1>4, <1>5 DEF NNext, Kernel

LEMMA NextKeepsIssuers ==
  Base /\ FP!IInv /\ IssuersAreThere /\ [DNext]_dvars => IssuersAreThere'
<1>. SUFFICES ASSUME Base, FP!IInv, IssuersAreThere, [DNext]_dvars
              PROVE  IssuersAreThere'
  OBVIOUS
<1>1. \A p \in Processes : Nameable(p) => Nameable(p)'
  BY StepIsNotified, NameableStays DEF Base, EventInv
<1>2. Nameable(First)'
  BY <1>1, NotificationsAssumption DEF IssuersAreThere
<1>3. CASE UNCHANGED <<stage, request>>
  <2>1. \A o \in Ops : Unnamed(o) =>
          request[o].thread \in Processes \cup {None}
    BY DEF Unnamed, F!Naming, FP!IInv, FP!TypeOK, FP!ContextIsAboutRequest,
       FP!Requests
  <2>. QED
    BY <1>1, <1>2, <1>3, <2>1 DEF IssuersAreThere, Unnamed
<1>4. ASSUME NEW o \in Ops, Issue(o)
      PROVE  IssuersAreThere'
  <2>1. /\ FP!Issue(o)
        /\ UNCHANGED proc
        /\ request'[o].thread # None => proc[request'[o].thread] = "running"
    BY <1>4, SameOperation DEF Issue, nvars
  <2>2. /\ request \in [Ops -> FP!Requests \cup {None}]
        /\ stage \in [Ops -> FP!Stages]
    BY DEF FP!IInv, FP!TypeOK
  <2>3. PICK r : request' = [request EXCEPT ![o] = r]
    BY <2>1 DEF FP!Issue
  <2>4. \A i \in Ops \ {o} : stage'[i] = stage[i] /\ request'[i] = request[i]
    BY <2>1, <2>2, <2>3 DEF FP!Issue
  <2>5. request'[o] = r
    BY <2>2, <2>3
  <2>. QED
    BY <1>2, <2>1, <2>3, <2>4, <2>5 DEF IssuersAreThere, Unnamed, Nameable
<1>5. ASSUME NEW o \in Ops, Record(o) \/ Finish(o)
      PROVE  IssuersAreThere'
  <2>1. UNCHANGED proc
    BY <1>5 DEF Record, Finish, nvars
  <2>2. \A i \in Ops : Unnamed(i)' => Unnamed(i) /\ UNCHANGED request[i]
    BY <1>5, SameOperation DEF Record, Finish, FP!PreOperation,
       FP!NormalizedNameFails, FP!RecordEvent, FP!Naming, FP!NoCallback,
       FP!WithCallback, FP!Complete, FP!Drain, FP!PostOperation, FP!IInv,
       FP!TypeOK, Unnamed, F!Naming
  <2>. QED
    BY <1>2, <2>1, <2>2 DEF IssuersAreThere, Nameable
<1>6. ASSUME NEW v \in Volumes, Instance(v)
      PROVE  UNCHANGED <<stage, request>>
  BY <1>6, SameInstance DEF Instance, FP!InstanceSetup,
     FP!InstanceTeardownStart, FP!InstanceTeardownComplete, FP!OperationsStay
<1>. QED
  BY <1>3, <1>4, <1>5, <1>6 DEF DNext, LoadOrUnload, Notice, files, dvars

(* So a pre-operation waits for nothing but the name: there is a process   *)
(* that it can record, and with that process it takes a step.              *)
Records(o, p) ==
  /\ F!WithCallback(o, p)
  /\ UNCHANGED <<nvars, instance, request, ioStatus, flags, log>>
  /\ late' = IF Filtering = "draining" THEN late \cup {o} ELSE late \ {o}

SomebodyIsNamed ==
  \A o \in Ops : Unnamed(o) => \E p \in Processes : CanName(o, p)

THEOREM SomebodyNamed == DSpec => []SomebodyIsNamed
<1>1. DInit => IssuersAreThere
  BY NotificationsAssumption
     DEF DInit, NInit, F!Init, IssuersAreThere, Unnamed, F!Naming, Nameable
<1>2. FP!IInv /\ IssuersAreThere => SomebodyIsNamed
  BY NotificationsAssumption
     DEF IssuersAreThere, SomebodyIsNamed, CanName, Unnamed, F!Naming,
     FP!IInv, FP!TypeOK, FP!ContextIsAboutRequest, FP!Requests
<1>. QED
  BY <1>1, <1>2, NextKeepsIssuers, BothInvariant, PTL DEF DSpec

THEOREM RecordIsEnabled ==
  ASSUME FP!IInv, NEW o \in Ops, NEW p \in Processes,
         stage[o] \in F!Naming, CanName(o, p), Records(o, p)
  PROVE  <<Record(o)>>_dvars
<1>1. stage' = [stage EXCEPT ![o] = "below"]
  BY DEF Records, F!WithCallback
<1>2. stage' # stage
  BY <1>1 DEF FP!IInv, FP!TypeOK, F!Naming
<1>3. context' = [context EXCEPT ![o] =
                    [major |-> request[o].major, processId |-> p]]
  BY DEF Records, F!WithCallback
<1>4. context'[o] = [major |-> request[o].major, processId |-> p]
  BY <1>3 DEF FP!IInv, FP!TypeOK
<1>5. UNCHANGED Filtering
  BY DEF Records, nvars, vars, Filtering
<1>6. F!RecordEvent(o)
  BY <1>5 DEF Records, CanName, F!RecordEvent
<1>. QED
  BY <1>2, <1>4, <1>6 DEF Record, Records, CanName, Nameable, dvars, files

-----------------------------------------------------------------------------
(***************************************************************************)
(* What becomes of the console beside a driver that creates no port.       *)
(*                                                                         *)
(* TLC finds one behaviour in which the console is not connected to a      *)
(* driver that runs.  The proofs say that there is no other kind: server   *)
(* is "down" for ever, and everything else follows from Connect.           *)
(***************************************************************************)

(* The console never has a port, nor a listener, nor gets to its prompt.   *)
NeverConnected ==
  /\ main \in {"connect", "failed"}
  /\ gDriverPort # "handle"
  /\ \A t \in Listeners : step[t] = "none"

Alone ==
  /\ NeverConnected
  /\ server = "down"
  /\ port = "closed"
  /\ refusedAt = "never" <=> main = "connect"

(* All that the console can do is fail to connect.                         *)
LEMMA OnlyConnect ==
  ASSUME Alone, C!Next
  PROVE  /\ C!Connect
         /\ main = "connect" /\ main' = "failed"
         /\ gDriverPort' = "invalid"
         /\ UNCHANGED <<step, port, server>>
<1>1. CASE C!Connect
  BY <1>1 DEF Alone, NeverConnected, C!Connect, C!Main
<1>2. ~(C!CreateTerminationEvent \/ C!CreateListener \/ C!AllCreated \/ C!Exit)
  BY DEF Alone, NeverConnected, C!CreateTerminationEvent, C!CreateListener,
     C!AllCreated, C!Exit, C!Main
<1>3. ~C!UninitCommunication
  BY DEF Alone, NeverConnected, C!UninitCommunication, C!CloseDriverPort,
     C!ClearDriverPort, C!SetTerminationEvent, C!JoinListeners, C!Main
<1>4. ASSUME NEW t \in Listeners
      PROVE  ~C!CommpMessageListner(t)
  <2>1. \A at \in C!Steps \ {"none"} : ~C!At(t, at)
    BY DEF Alone, NeverConnected, C!At
  <2>2. ~(C!StartListener(t) \/ C!CheckTermination(t) \/ C!FilterGetMessage(t))
    BY <2>1 DEF C!StartListener, C!CheckTermination, C!FilterGetMessage,
       C!GetMessageNow, C!GetMessagePending, C!GetMessageInvalidHandle,
       C!GetMessageUnexpected, C!Steps
  <2>3. ~(C!WaitTermination(t) \/ C!WaitMessage(t) \/ C!WaitFailed(t))
    BY <2>1 DEF C!WaitTermination, C!WaitMessage, C!WaitFailed, C!Steps
  <2>4. ~(C!HandleMessage(t) \/ C!Cancel(t) \/ C!Free(t))
    BY <2>1 DEF C!HandleMessage, C!Cancel, C!Free, C!Steps
  <2>. QED
    BY <2>2, <2>3, <2>4 DEF C!CommpMessageListner
<1>5. ~(C!Send \/ C!ServerGone \/ \E t \in Listeners : C!RequestFails(t))
  BY DEF Alone, C!Send, C!ServerGone, C!RequestFails
<1>. QED
  BY <1>1, <1>2, <1>3, <1>4, <1>5 DEF C!Next, C!InitCommunication

(* The driver is as it is without a console.                               *)
LEMMA DriverIsItself == PSpec => DSpec
<1>1. PInit => DInit
  BY DEF PInit
<1>2. [PNext]_pvars => [DNext]_dvars
  BY DEF PNext, DriverSteps, ConsoleSteps, pvars
<1>. QED
  BY <1>1, <1>2, PTL DEF PSpec, DSpec

(* Its control locations are none of them "never".                         *)
LEMMA NextKeepsAlone == TypeOK /\ Alone /\ [PNext]_pvars => Alone'
<1>. SUFFICES ASSUME TypeOK, Alone, [PNext]_pvars PROVE Alone'
  OBVIOUS
<1>1. CASE DriverSteps
  BY <1>1 DEF DriverSteps, console, Alone, NeverConnected
<1>2. CASE ConsoleSteps
  <2>1. pc # "never"
    BY DEF TypeOK, Calls, RegisterCalls, RemoveCalls
  <2>. QED
    BY <1>2, <2>1, OnlyConnect DEF ConsoleSteps, Alone, NeverConnected
<1>3. CASE UNCHANGED pvars
  BY <1>3 DEF pvars, console, Alone, NeverConnected
<1>. QED
  BY <1>1, <1>2, <1>3 DEF PNext

LEMMA AlwaysAlone == PSpec => []Alone
<1>1. PInit => Alone
  BY DEF PInit, C!Init, Alone, NeverConnected
<1>2. PSpec => []TypeOK
  BY DriverIsItself, ImplementsNotifications, ImplementsLifecycle,
     TypeCorrect, PTL
<1>. QED
  BY <1>1, <1>2, NextKeepsAlone, PTL DEF PSpec

-----------------------------------------------------------------------------
(* In no behaviour of this build does the console get through to the       *)
(* driver, whether that runs or not, and whatever fails.                   *)
THEOREM NeverConnects == PSpec => []NeverConnected
<1>1. Alone => NeverConnected
  BY DEF Alone
<1>. QED
  BY <1>1, AlwaysAlone, PTL

(* And it does not wait for it either: main returns, for good, once it is  *)
(* scheduled.                                                              *)
ConnectFair == []<>~(main = "connect") \/ []<><<ConsoleSteps>>_pvars

THEOREM ConsoleGivesUp == PSpec /\ ConnectFair => <>[](main = "failed")
<1>1. Alone => main = "connect" \/ main = "failed"
  BY DEF Alone, NeverConnected
<1>2. Alone /\ <<ConsoleSteps>>_pvars => (main = "failed")'
  BY OnlyConnect DEF ConsoleSteps
<1>3. Alone /\ main = "failed" /\ [PNext]_pvars => (main = "failed")'
  <2>1. Alone /\ main = "failed" => ~ConsoleSteps
    BY OnlyConnect DEF ConsoleSteps
  <2>. QED
    BY <2>1 DEF PNext, DriverSteps, pvars, console
<1>4. main = "failed" => ~(main = "connect")
  OBVIOUS
<1>. QED
  BY <1>1, <1>2, <1>3, <1>4, AlwaysAlone, PTL DEF PSpec, ConnectFair

(* Side by side the two parts are what they are alone: the driver is that  *)
(* of FilterDriver and the console that of Console, so that each keeps its *)
(* proved properties here.                                                 *)
THEOREM PartsAreThemselves == PSpec => DSpec /\ C!Spec
<1>1. PInit => C!Init
  BY DEF PInit
<1>2. [PNext]_pvars => [C!Next]_C!vars
  BY DEF PNext, DriverSteps, ConsoleSteps, pvars, console, C!vars
<1>. QED
  BY <1>1, <1>2, DriverIsItself, PTL DEF PSpec, C!Spec
=============================================================================
