--------------------------- MODULE FileFilterProofs ---------------------------
(***************************************************************************)
(* Proofs of the properties of FileFilter, for any number of operations in *)
(* flight and any processes and volumes (of limited size where progress is *)
(* concerned).                                                             *)
(*                                                                         *)
(* PoolMatchesContexts speaks of memory, LineIsAboutTheOperation and       *)
(* MonitoredOpsReported of the log.  The link between them is the event in *)
(* between: IInv adds that the context of an operation describes the       *)
(* operation it was created for, and where an operation with a line, or    *)
(* one that must still get its line, can be.                               *)
(***************************************************************************)
EXTENDS FileFilter, TLAPS

(* Every operation under way has a request, and its event is about it.     *)
ContextIsAboutRequest ==
  \A o \in Ops :
    /\ stage[o] # "idle" => request[o] # None
    /\ stage[o] \in Ours => request[o].major \in Callbacks
    /\ context[o] # None =>
         /\ context[o].major = request[o].major
         /\ request[o].thread \in {context[o].processId, None}

(* A line is printed last, except for an operation that was drained.       *)
LogAt ==
  \A o \in Ops :
    /\ log[o] # None => stage[o] \in {"idle", "passing"}
    /\ log[o] # None /\ stage[o] = "passing" => Drained(o)

(* Of the watched operations only drained ones escape us.                  *)
EscapedAt ==
  \A o \in Ops :
    /\ stage[o] = "passing"
    /\ request[o].watched
    /\ request[o].major \in Callbacks
    => Drained(o)

(* What the post-operation reads is the result, unless the operation was   *)
(* drained.                                                                *)
ResultAt ==
  \A o \in Ops :
    stage[o] = "post" /\ ~Drained(o) => ioStatus[o] \in Results(request[o].major)

(* A filter that is off has no instances.                                  *)
OffIsDetached ==
  filter = "off" => \A v \in Volumes : instance[v] = "detached"

IInv ==
  /\ TypeOK
  /\ OffIsDetached
  /\ PoolMatchesContexts
  /\ UnloadedFilterIsForgotten
  /\ ContextIsAboutRequest
  /\ LogAt
  /\ EscapedAt
  /\ ResultAt
  /\ LineIsAboutTheOperation
  /\ MonitoredOpsReported

-----------------------------------------------------------------------------
(* A filter that was never loaded.                                         *)
LEMMA InitIInv == Init => IInv
<1>. SUFFICES ASSUME Init PROVE IInv
  OBVIOUS
<1>1. TypeOK
  BY DEF Init, TypeOK, Stages, IoStatus
<1>2. PoolMatchesContexts
  BY DEF Init, PoolMatchesContexts, Naming
<1>. QED
  BY <1>1, <1>2 DEF Init, IInv, OffIsDetached, UnloadedFilterIsForgotten, Ours,
     Naming, ContextIsAboutRequest, LogAt, EscapedAt, ResultAt,
     LineIsAboutTheOperation, MonitoredOpsReported, Finished

(* Every kind but a create and a named pipe has a line of its own.         *)
LEMMA OperationOfType ==
  /\ DOMAIN OperationOf =
       {"READ", "WRITE", "CLEANUP", "CLOSE", "SET_INFORMATION"}
  /\ \A major \in DOMAIN OperationOf :
       OperationOf[major] \in {"FileRead", "FileWrite", "FileCleanup",
                               "FileClose", "FileSetAttributes"}
BY DEF OperationOf

(* FileCallback prints the process of the event and the status it is given *)
(* or nothing, and of the registered kinds nothing exactly for named pipes *)
(* and for creates whose Information does not say that they made a file.   *)
LEMMA FileCallbackLine ==
  ASSUME NEW event \in Events, NEW io \in IoStatus
  PROVE  LET line == FileCallback(event, io)
         IN  /\ line \in Lines \cup {None}
             /\ line # None => /\ line.processId = event.processId
                               /\ line.result = io.status
             /\ event.major \in Callbacks =>
                  (line = None <=>
                     \/ event.major = "CREATE_NAMED_PIPE"
                     \/ /\ event.major = "CREATE"
                        /\ io.information \notin
                             {FILE_SUPERSEDED, FILE_CREATED, FILE_OVERWRITTEN})
<1>1. event.major \in AllMajors /\ event.processId \in Processes
  BY MajorsAssumption DEF Events
<1>2. io.status \in {"pending", "success", "error"}
  BY DEF IoStatus
<1>3. \A operation \in {"FileCreated", "FileRead", "FileWrite", "FileCleanup",
                        "FileClose", "FileSetAttributes"} :
        /\ Line(event, io, operation) \in Lines
        /\ Line(event, io, operation) # None
        /\ Line(event, io, operation).processId = event.processId
        /\ Line(event, io, operation).result = io.status
        /\ Line(event, io, operation).operation = operation
  BY <1>1, <1>2, NoneAssumption DEF Line, Lines
<1>. QED
  BY <1>1, <1>3, OperationOfType
     DEF FileCallback, LineFor, AllMajors, Callbacks

(* What a callback data says is well-formed, with a result and without.    *)
LEMMA ResultsType ==
  \A major : /\ Results(major) \subseteq IoStatus
             /\ Undefined(major) \subseteq IoStatus
BY DEF Results, Undefined, IoStatus, FILE_SUPERSEDED, FILE_OVERWRITTEN,
       FILE_EXISTS, FILE_DOES_NOT_EXIST

-----------------------------------------------------------------------------
(* Start and end of filtering, and the instances.  A teardown waits for    *)
(* our operations on the volume, and the end of filtering for all of them: *)
(* then no context is left, and so no memory.                              *)
LEMMA FilterKeepsIInv ==
  ASSUME IInv,
         \/ StartFiltering \/ BeginUnregister \/ EndUnregister
         \/ \E v \in Volumes : \/ InstanceSetup(v)
                               \/ InstanceTeardownStart(v)
                               \/ InstanceTeardownComplete(v)
  PROVE  IInv'
<1>. USE DEF OperationsStay
<1>1. UNCHANGED <<stage, request, ioStatus, flags, pool, context, log>>
  BY DEF StartFiltering, BeginUnregister, EndUnregister, InstanceSetup,
         InstanceTeardownStart, InstanceTeardownComplete
<1>2. TypeOK' /\ OffIsDetached'
  BY <1>1 DEF IInv, TypeOK, OffIsDetached, StartFiltering, BeginUnregister,
              EndUnregister, InstanceSetup, InstanceTeardownStart,
              InstanceTeardownComplete
<1>3. PoolMatchesContexts'
  BY <1>1 DEF IInv, PoolMatchesContexts
<1>4. \A o \in Ops : stage[o] \in Ours => Volume(o) \in Volumes
  BY NoneAssumption
     DEF IInv, TypeOK, ContextIsAboutRequest, Ours, Naming, Volume, Requests
<1>5. \A o \in Ops : stage[o] \in Ours => instance'[Volume(o)] # "detached"
  BY <1>4 DEF IInv, TypeOK, UnloadedFilterIsForgotten, StartFiltering,
              BeginUnregister, EndUnregister, InstanceSetup,
              InstanceTeardownStart, InstanceTeardownComplete
<1>6. UnloadedFilterIsForgotten'
  <2>1. CASE EndUnregister
    <3>1. \A o \in Ops : stage[o] \notin Ours
      BY <1>4, <2>1 DEF EndUnregister, IInv, UnloadedFilterIsForgotten
    <3>2. \A o \in Ops : context[o] = None
      BY <3>1 DEF IInv, PoolMatchesContexts, Ours, Naming
    <3>3. \A o \in Ops : stage[o] \notin Naming
      BY <3>1 DEF Ours, Naming
    <3>4. pool = {}
      BY <3>2, <3>3 DEF IInv, PoolMatchesContexts
    <3>. QED
      BY <1>1, <3>1, <3>4 DEF UnloadedFilterIsForgotten
  <2>2. CASE ~EndUnregister
    BY <1>1, <1>5, <2>2
       DEF IInv, UnloadedFilterIsForgotten, Volume, StartFiltering,
           BeginUnregister, InstanceSetup, InstanceTeardownStart,
           InstanceTeardownComplete
  <2>. QED
    BY <2>1, <2>2
<1>7. /\ ContextIsAboutRequest' /\ LogAt' /\ EscapedAt' /\ ResultAt'
      /\ LineIsAboutTheOperation' /\ MonitoredOpsReported'
  BY <1>1 DEF IInv, ContextIsAboutRequest, LogAt, EscapedAt, ResultAt, Drained,
     LineIsAboutTheOperation, MonitoredOpsReported, Finished, Reportable,
     ChangedFile, TakenForSuperseded
<1>. QED
  BY <1>2, <1>3, <1>6, <1>7 DEF IInv

(* A new operation starts without an event and without a line.             *)
LEMMA IssueKeepsIInv ==
  ASSUME IInv, NEW o \in Ops, Issue(o)
  PROVE  IInv'
<1>1. PICK major \in Majors, thread \in Processes \cup {None}, v \in Volumes :
        LET watched == instance[v] = "attached"
        IN  /\ request' = [request EXCEPT ![o] =
                 [major |-> major, thread |-> thread,
                  volume |-> v, watched |-> watched]]
            /\ stage' = [stage EXCEPT ![o] =
                 IF watched /\ major \in Callbacks THEN "pre" ELSE "passing"]
  BY DEF Issue
<1>2. [major |-> major, thread |-> thread,
       volume |-> v, watched |-> instance[v] = "attached"] \in Requests
  BY DEF Requests
<1>3. TypeOK' /\ OffIsDetached'
  BY <1>1, <1>2 DEF Issue, IInv, TypeOK, OffIsDetached, Stages, Ours, IoStatus
<1>4. PoolMatchesContexts' /\ UnloadedFilterIsForgotten'
  BY <1>1 DEF Issue, IInv, TypeOK, OffIsDetached, PoolMatchesContexts,
              UnloadedFilterIsForgotten, Ours, Naming, Volume
<1>5. ContextIsAboutRequest'
  BY <1>1, <1>2, NoneAssumption
     DEF Issue, IInv, TypeOK, PoolMatchesContexts, ContextIsAboutRequest, Ours,
         Naming
<1>6. EscapedAt' /\ ResultAt'
  BY <1>1 DEF Issue, IInv, TypeOK, EscapedAt, ResultAt, Drained
<1>7. LogAt' /\ LineIsAboutTheOperation' /\ MonitoredOpsReported'
  BY <1>1 DEF Issue, IInv, TypeOK, LogAt, LineIsAboutTheOperation,
              MonitoredOpsReported, Finished, Drained, Reportable, ChangedFile,
              TakenForSuperseded
<1>. QED
  BY <1>3, <1>4, <1>5, <1>6, <1>7 DEF IInv

(* Up to the event an operation has no line, and no context.               *)
LEMMA NoEventYet ==
  ASSUME IInv, NEW o \in Ops, stage[o] = "pre" \/ stage[o] \in Naming
  PROVE  request[o] \in Requests /\ log[o] = None /\ context[o] = None
BY DEF IInv, TypeOK, ContextIsAboutRequest, LogAt, PoolMatchesContexts, Naming

LEMMA UnwatchedRequest ==
  ASSUME NEW r \in Requests
  PROVE  LET unwatched == [r EXCEPT !.watched = FALSE]
         IN  /\ unwatched \in Requests
             /\ unwatched.major = r.major
             /\ unwatched.thread = r.thread
             /\ unwatched.volume = r.volume
             /\ unwatched.watched = FALSE
BY DEF Requests

(* The operation passes unseen, when the path block is not there (any      *)
(* more).                                                                  *)
LEMMA NoCallbackKeepsIInv ==
  ASSUME IInv, NEW o \in Ops, stage[o] = "pre" \/ stage[o] \in Naming,
         NoCallback(o), pool' = pool \ {<<o, "path">>},
         UNCHANGED <<filter, instance, ioStatus, flags, log>>
  PROVE  IInv'
<1>. USE DEF NoCallback
<1>1. request[o] \in Requests /\ log[o] = None /\ context[o] = None
  BY NoEventYet
<1>2. request' = [request EXCEPT ![o] = request'[o]]
      /\ request'[o] = [request[o] EXCEPT !.watched = FALSE]
  BY DEF IInv, TypeOK
<1>3. /\ request'[o] \in Requests
      /\ request'[o].major = request[o].major
      /\ request'[o].thread = request[o].thread
      /\ request'[o].volume = request[o].volume
      /\ request'[o].watched = FALSE
  BY <1>1, <1>2, UnwatchedRequest
<1>4. request'[o] # None
  BY <1>3, NoneAssumption
<1>5. \A i \in Ops : i # o => stage'[i] = stage[i] /\ request'[i] = request[i]
  BY DEF IInv, TypeOK
<1>6. stage'[o] = "passing"
  BY DEF IInv, TypeOK
<1>7. TypeOK' /\ OffIsDetached'
  BY <1>2, <1>3 DEF IInv, TypeOK, OffIsDetached, Stages
<1>8. PoolMatchesContexts'
  BY <1>1, <1>5, <1>6 DEF IInv, TypeOK, PoolMatchesContexts, Naming, Blocks
<1>9. UnloadedFilterIsForgotten'
  BY <1>5, <1>6 DEF IInv, TypeOK, UnloadedFilterIsForgotten, Ours, Naming, Volume
<1>10. ContextIsAboutRequest'
  BY <1>1, <1>4, <1>5, <1>6 DEF IInv, TypeOK, ContextIsAboutRequest, Ours, Naming
<1>11. EscapedAt' /\ ResultAt' /\ LogAt'
  BY <1>1, <1>3, <1>5, <1>6
     DEF IInv, TypeOK, EscapedAt, ResultAt, LogAt, Drained
<1>12. LineIsAboutTheOperation' /\ MonitoredOpsReported'
  BY <1>1, <1>5, <1>6
     DEF IInv, TypeOK, LineIsAboutTheOperation, MonitoredOpsReported, Finished,
         Drained, Reportable, ChangedFile, TakenForSuperseded
<1>. QED
  BY <1>7, <1>8, <1>9, <1>10, <1>11, <1>12 DEF IInv

(* An operation that is still on its way into the driver gets a name.      *)
LEMMA NamingKeepsIInv ==
  ASSUME IInv, NEW o \in Ops, PreOperation(o) \/ NormalizedNameFails(o)
  PROVE  IInv'
<1>1. CASE PreOperation(o) /\ NoCallback(o) /\ UNCHANGED pool
  <2>1. <<o, "path">> \notin pool
    BY <1>1, NoEventYet
       DEF PreOperation, IInv, PoolMatchesContexts, Naming
  <2>2. pool' = pool \ {<<o, "path">>}
    BY <1>1, <2>1
  <2>. QED
    BY <1>1, <2>2, NoCallbackKeepsIInv DEF PreOperation
<1>2. CASE \/ NormalizedNameFails(o)
           \/ PreOperation(o) /\ pool' = pool \cup {<<o, "path">>}
                              /\ stage' = [stage EXCEPT ![o] = "normalized"]
                              /\ UNCHANGED <<request, context>>
  <2>1. /\ request[o] \in Requests /\ log[o] = None /\ context[o] = None
        /\ stage[o] = "pre" \/ stage[o] \in Naming
    BY <1>2, NoEventYet DEF PreOperation, NormalizedNameFails, Naming
  <2>2. UNCHANGED <<filter, instance, request, ioStatus, flags, context, log>>
    BY <1>2 DEF PreOperation, NormalizedNameFails
  <2>3. /\ stage'[o] \in Naming
        /\ stage' = [stage EXCEPT ![o] = stage'[o]]
        /\ \A i \in Ops : i # o => stage'[i] = stage[i]
    BY <1>2 DEF IInv, TypeOK, PreOperation, NormalizedNameFails, Naming
  <2>4. pool' = pool \cup {<<o, "path">>}
    BY <1>2, <2>1
       DEF NormalizedNameFails, IInv, PoolMatchesContexts, Naming, Blocks
  <2>5. TypeOK' /\ OffIsDetached'
    BY <2>2, <2>3, <2>4
       DEF IInv, TypeOK, OffIsDetached, Stages, Ours, Naming, Blocks
  <2>6. PoolMatchesContexts'
    BY <2>1, <2>2, <2>3, <2>4
       DEF IInv, TypeOK, PoolMatchesContexts, Naming, Blocks
  <2>7. UnloadedFilterIsForgotten'
    BY <2>1, <2>2, <2>3
       DEF IInv, TypeOK, OffIsDetached, UnloadedFilterIsForgotten, Ours, Naming,
           Volume, Requests
  <2>8. ContextIsAboutRequest'
    BY <2>1, <2>2, <2>3, NoneAssumption
       DEF IInv, TypeOK, ContextIsAboutRequest, Ours, Naming
  <2>9. EscapedAt' /\ ResultAt' /\ LogAt'
    BY <2>1, <2>2, <2>3
       DEF IInv, TypeOK, EscapedAt, ResultAt, LogAt, Drained, Naming
  <2>10. LineIsAboutTheOperation' /\ MonitoredOpsReported'
    BY <2>1, <2>2, <2>3
       DEF IInv, TypeOK, LineIsAboutTheOperation, MonitoredOpsReported,
           Finished, Drained, Reportable, ChangedFile, TakenForSuperseded,
           Naming
  <2>. QED
    BY <2>5, <2>6, <2>7, <2>8, <2>9, <2>10 DEF IInv
<1>. QED
  BY <1>1, <1>2 DEF PreOperation

(* The pre-operation leaves both blocks and a context about the request,   *)
(* or nothing.                                                             *)
LEMMA RecordEventKeepsIInv ==
  ASSUME IInv, NEW o \in Ops, RecordEvent(o)
  PROVE  IInv'
<1>1. CASE NoCallback(o) /\ pool' = pool \ {<<o, "path">>}
  BY <1>1, NoCallbackKeepsIInv DEF RecordEvent
<1>2. ASSUME NEW p \in Processes,
             request[o].thread \in {p, None}, WithCallback(o, p)
      PROVE  IInv'
  <2>. USE <1>2 DEF RecordEvent, WithCallback
  <2>1. request[o] \in Requests /\ log[o] = None /\ context[o] = None
    BY NoEventYet
  <2>2. /\ [major |-> request[o].major, processId |-> p] \in Events
        /\ [major |-> request[o].major, processId |-> p] # None
    BY <2>1, NoneAssumption DEF Requests, Events
  <2>3. TypeOK' /\ OffIsDetached'
    BY <2>2 DEF IInv, TypeOK, OffIsDetached, Stages, Ours, Allocated
  <2>4. PoolMatchesContexts'
    <3>1. \A i \in Ops : context'[i] # None <=> context[i] # None \/ i = o
      BY <2>2 DEF IInv, TypeOK
    <3>2. \A i \in Ops : stage'[i] = IF i = o THEN "below" ELSE stage[i]
      BY DEF IInv, TypeOK
    <3>3. pool' = {block \in Ops \X Blocks :
                     \/ context'[block[1]] # None
                     \/ block[2] = "path" /\ stage'[block[1]] \in Naming}
      BY <3>1, <3>2 DEF IInv, PoolMatchesContexts, Allocated, Naming
    <3>. QED
      BY <3>1, <3>2, <3>3 DEF IInv, PoolMatchesContexts, Naming
  <2>5. UnloadedFilterIsForgotten'
    BY DEF IInv, TypeOK, UnloadedFilterIsForgotten, Ours, Volume
  <2>6. ContextIsAboutRequest'
    BY <2>1, <2>2, NoneAssumption
       DEF IInv, TypeOK, ContextIsAboutRequest, Ours
  <2>7. EscapedAt' /\ ResultAt' /\ LogAt'
    BY <2>1 DEF IInv, TypeOK, EscapedAt, ResultAt, LogAt, Drained
  <2>8. LineIsAboutTheOperation' /\ MonitoredOpsReported'
    BY <2>1 DEF IInv, TypeOK, LineIsAboutTheOperation, MonitoredOpsReported,
                Finished, Drained, Reportable, ChangedFile, TakenForSuperseded
  <2>. QED
    BY <2>3, <2>4, <2>5, <2>6, <2>7, <2>8 DEF IInv
<1>. QED
  BY <1>1, <1>2 DEF RecordEvent

(* The file system changes the result of operations without a line only,   *)
(* and of drained ones.                                                    *)
LEMMA CompletionKeepsIInv ==
  ASSUME IInv, NEW o \in Ops, Complete(o) \/ Drain(o)
  PROVE  IInv'
<1>1. TypeOK' /\ OffIsDetached'
  BY ResultsType DEF IInv, TypeOK, OffIsDetached, Stages, Ours, Complete, Drain
<1>2. PoolMatchesContexts' /\ UnloadedFilterIsForgotten'
  BY DEF IInv, TypeOK, PoolMatchesContexts, UnloadedFilterIsForgotten, Ours,
         Naming, Volume, Complete, Drain
<1>3. ContextIsAboutRequest' /\ LogAt' /\ EscapedAt' /\ ResultAt'
  BY DEF IInv, TypeOK, ContextIsAboutRequest, LogAt, EscapedAt, ResultAt,
         Drained, Complete, Drain, Ours, Naming
<1>4. LineIsAboutTheOperation'
  BY DEF IInv, TypeOK, LineIsAboutTheOperation, LogAt, Drained, Finished,
         Complete, Drain
<1>5. MonitoredOpsReported'
  <2>1. ~Finished(o)' \/ Drained(o)' \/ ~request[o].watched
          \/ request[o].major \notin Callbacks
    BY DEF IInv, TypeOK, EscapedAt, Drained, Finished, Complete, Drain
  <2>2. \A i \in Ops : i # o => /\ stage'[i] = stage[i]
                                /\ ioStatus'[i] = ioStatus[i]
                                /\ flags'[i] = flags[i]
    BY DEF Complete, Drain, IInv, TypeOK
  <2>3. UNCHANGED <<request, log>>
    BY DEF Complete, Drain
  <2>. QED
    BY <2>1, <2>2, <2>3
       DEF IInv, MonitoredOpsReported, Drained, Finished, Reportable,
           ChangedFile, TakenForSuperseded
<1>. QED
  BY <1>1, <1>2, <1>3, <1>4, <1>5 DEF IInv

(* The post-operation prints the line and gives back the memory.           *)
LEMMA PostOperationKeepsIInv ==
  ASSUME IInv, NEW o \in Ops, PostOperation(o)
  PROVE  IInv'
<1>. USE DEF PostOperation
<1>. DEFINE line == FileCallback(context[o], ioStatus[o])
<1>1. context[o] \in Events /\ ioStatus[o] \in IoStatus /\ request[o] # None
  BY DEF IInv, TypeOK, PoolMatchesContexts, ContextIsAboutRequest
<1>2. /\ line \in Lines \cup {None}
      /\ line # None => /\ line.processId = context[o].processId
                        /\ line.result = ioStatus[o].status
      /\ context[o].major \in Callbacks =>
           (line = None <=>
              \/ context[o].major = "CREATE_NAMED_PIPE"
              \/ /\ context[o].major = "CREATE"
                 /\ ioStatus[o].information \notin
                      {FILE_SUPERSEDED, FILE_CREATED, FILE_OVERWRITTEN})
  BY <1>1, FileCallbackLine
<1>3. /\ context[o].major = request[o].major
      /\ context[o].major \in Callbacks
      /\ request[o].thread \in {context[o].processId, None}
  BY <1>1, NoneAssumption DEF IInv, ContextIsAboutRequest, Ours
<1>4. log' = [log EXCEPT ![o] = line]
  OBVIOUS
<1>. HIDE DEF line
<1>5. TypeOK' /\ OffIsDetached'
  BY <1>2, <1>4 DEF IInv, TypeOK, OffIsDetached, Stages
<1>6. PoolMatchesContexts'
  BY DEF IInv, TypeOK, PoolMatchesContexts, Allocated, Naming
<1>7. UnloadedFilterIsForgotten'
  BY DEF IInv, TypeOK, UnloadedFilterIsForgotten, Ours, Naming, Volume
<1>8. ContextIsAboutRequest' /\ EscapedAt' /\ ResultAt'
  BY <1>1 DEF IInv, TypeOK, ContextIsAboutRequest, EscapedAt, ResultAt, Drained,
              Ours, Naming
<1>9. LogAt' /\ LineIsAboutTheOperation'
  BY <1>2, <1>3, <1>4
     DEF IInv, TypeOK, LogAt, LineIsAboutTheOperation, Drained, Finished
<1>10. MonitoredOpsReported'
  <2>1. CASE ~Drained(o)
    <3>1. ioStatus[o] \in Results(request[o].major)
      BY <2>1 DEF IInv, ResultAt
    <3>2. request[o].major = "CREATE" =>
            /\ ioStatus[o].status \in {"success", "error"}
            /\ /\ ioStatus[o].status = "error"
               /\ ioStatus[o].information \in
                    {FILE_SUPERSEDED, FILE_CREATED, FILE_OVERWRITTEN}
               => ioStatus[o].information = FILE_SUPERSEDED
      BY <3>1 DEF Results, FILE_SUPERSEDED, FILE_CREATED, FILE_OVERWRITTEN,
                  FILE_EXISTS, FILE_DOES_NOT_EXIST
    <3>3. line # None <=>
            \/ Reportable(o)
            \/ request[o].major = "CREATE" /\ TakenForSuperseded(o)
      BY <1>2, <1>3, <3>2
         DEF Reportable, ChangedFile, TakenForSuperseded, Callbacks
    <3>. QED
      BY <1>4, <3>3
         DEF IInv, TypeOK, MonitoredOpsReported, Drained, Finished,
             Reportable, ChangedFile, TakenForSuperseded
  <2>2. CASE Drained(o)
    BY <1>4, <2>2
       DEF IInv, TypeOK, MonitoredOpsReported, Drained, Finished, Reportable,
           ChangedFile, TakenForSuperseded
  <2>. QED
    BY <2>1, <2>2
<1>. QED
  BY <1>5, <1>6, <1>7, <1>8, <1>9, <1>10 DEF IInv

(* Every step of the filter, its callers and the file system.              *)
LEMMA NextKeepsIInv == IInv /\ [Next]_vars => IInv'
<1>. SUFFICES ASSUME IInv, [Next]_vars PROVE IInv'
  OBVIOUS
<1>1. CASE Next
  BY <1>1, FilterKeepsIInv, IssueKeepsIInv, NamingKeepsIInv,
     RecordEventKeepsIInv, CompletionKeepsIInv, PostOperationKeepsIInv DEF Next
<1>2. CASE UNCHANGED vars
  BY <1>2 DEF vars, IInv, TypeOK, OffIsDetached, PoolMatchesContexts,
     UnloadedFilterIsForgotten, Volume, ContextIsAboutRequest, LogAt, EscapedAt,
     ResultAt, LineIsAboutTheOperation, MonitoredOpsReported, Drained, Finished,
     Reportable, ChangedFile, TakenForSuperseded
<1>. QED
  BY <1>1, <1>2

(* IInv is an invariant of the filter.                                     *)
THEOREM Invariance == Spec => []IInv
BY InitIInv, NextKeepsIInv, PTL DEF Spec

-----------------------------------------------------------------------------
(* No variable of the filter ever leaves its type; in particular every     *)
(* event names a process, also if the operation has no thread.             *)
THEOREM TypeCorrect == Spec => []TypeOK
<1>1. IInv => TypeOK
  BY DEF IInv
<1>. QED
  BY <1>1, Invariance, PTL

(* The pre- and post-operation neither leak a block nor use a freed one,   *)
(* on any path, for any number of operations in flight.                    *)
THEOREM MemorySafe == Spec => []PoolMatchesContexts
<1>1. IInv => PoolMatchesContexts
  BY DEF IInv
<1>. QED
  BY <1>1, Invariance, PTL

(* An unloaded filter has given back all its memory.                       *)
THEOREM UnloadForgets == Spec => []UnloadedFilterIsForgotten
<1>1. IInv => UnloadedFilterIsForgotten
  BY DEF IInv
<1>. QED
  BY <1>1, Invariance, PTL

(* A line tells the issuer and the result of its own operation.            *)
THEOREM LinesTrue == Spec => []LineIsAboutTheOperation
<1>1. IInv => LineIsAboutTheOperation
  BY DEF IInv
<1>. QED
  BY <1>1, Invariance, PTL

(* Of the watched operations of registered kinds exactly the reportable    *)
(* ones have a line, and the failed creates that left 0 in Information.    *)
THEOREM LogComplete == Spec => []MonitoredOpsReported
<1>1. IInv => MonitoredOpsReported
  BY DEF IInv
<1>. QED
  BY <1>1, Invariance, PTL

-----------------------------------------------------------------------------
(***************************************************************************)
(* The refinement: every step of the filter is a step of the abstract      *)
(* monitor about one operation, or none.                                   *)
(***************************************************************************)

(* The filter manager drains an operation once, while it is below us.      *)
DrainedAt ==
  \A o \in Ops : Drained(o) => stage[o] \in {"post", "passing", "idle"}

LEMMA NextKeepsDrainedAt ==
  IInv /\ DrainedAt /\ [Next]_vars => DrainedAt'
<1>. SUFFICES ASSUME IInv, DrainedAt, [Next]_vars PROVE DrainedAt'
  OBVIOUS
<1>. USE DEF IInv, TypeOK, DrainedAt, Drained
<1>1. ASSUME NEW o \in Ops,
             \/ Issue(o) \/ PreOperation(o) \/ NormalizedNameFails(o)
             \/ RecordEvent(o) \/ Complete(o) \/ Drain(o) \/ PostOperation(o)
      PROVE  DrainedAt'
  BY <1>1 DEF Issue, PreOperation, NormalizedNameFails, RecordEvent, NoCallback,
              WithCallback, Naming, Complete, Drain, PostOperation
<1>2. CASE UNCHANGED <<stage, flags>>
  BY <1>2
<1>. QED
  BY <1>1, <1>2 DEF Next, vars, StartFiltering, BeginUnregister,
     EndUnregister, InstanceSetup, InstanceTeardownStart,
     InstanceTeardownComplete, OperationsStay

LEMMA InitRefines == Init => M!Init
<1>. SUFFICES ASSUME Init PROVE M!Init
  OBVIOUS
<1>1. MonitorStatus = [o \in Ops |-> "idle"]
  BY DEF Init, MonitorStatus, Drained
<1>2. MonitorReport = [o \in Ops |-> None]
  BY DEF Init, MonitorReport
<1>. QED
  BY <1>1, <1>2 DEF Init, M!Init

(* A new operation is a new event.                                         *)
LEMMA IssueRefines ==
  ASSUME IInv, IInv', NEW o \in Ops, Issue(o)
  PROVE  M!Occur(o)
<1>1. PICK major \in Majors, thread \in Processes \cup {None}, v \in Volumes :
        /\ request' = [request EXCEPT ![o] =
             [major |-> major, thread |-> thread,
              volume |-> v, watched |-> instance[v] = "attached"]]
        /\ stage' = [stage EXCEPT ![o] =
             IF instance[v] = "attached" /\ major \in Callbacks
             THEN "pre" ELSE "passing"]
  BY DEF Issue
<1>2. request'[o] # None /\ request'[o].thread = thread
  BY <1>1, NoneAssumption DEF IInv, TypeOK, ContextIsAboutRequest, Issue
<1>3. MonitorStatus[o] \in {"idle", "late"}
  BY DEF Issue, MonitorStatus
<1>4. MonitorStatus' = [MonitorStatus EXCEPT ![o] = "underway"]
  BY <1>1 DEF IInv, TypeOK, Issue, MonitorStatus, Drained
<1>5. MonitorReport' = [MonitorReport EXCEPT ![o] = None]
  BY DEF IInv, TypeOK, Issue, MonitorReport
<1>6. [i \in Ops |-> IF request'[i] = None THEN None ELSE request'[i].thread]
        = [[i \in Ops |-> IF request[i] = None THEN None ELSE request[i].thread]
             EXCEPT ![o] = thread]
  BY <1>1, <1>2 DEF IInv, TypeOK
<1>7. [i \in Ops |-> ioStatus'[i].status]
        = [[i \in Ops |-> ioStatus[i].status] EXCEPT ![o] = "pending"]
  BY DEF IInv, TypeOK, Issue
<1>. QED
  BY <1>3, <1>4, <1>5, <1>6, <1>7 DEF M!Occur

(* The file system, and the filter manager at a teardown, go on with it.   *)
LEMMA CompletionRefines ==
  ASSUME IInv, DrainedAt, NEW o \in Ops, Complete(o) \/ Drain(o)
  PROVE  M!Proceed(o) \/ M!Finish(o) \/ M!Tear(o) \/ M!FinishTorn(o)
<1>. USE DEF IInv, TypeOK
<1>1. UNCHANGED <<request, log>> /\ MonitorReport' = MonitorReport
  BY DEF Complete, Drain, MonitorReport
<1>2. PICK r \in IoStatus : ioStatus' = [ioStatus EXCEPT ![o] = r]
  BY ResultsType DEF Complete, Drain
<1>3. r.status \in {"pending", "success", "error"}
  BY DEF IoStatus
<1>4. [i \in Ops |-> ioStatus'[i].status]
        = [[i \in Ops |-> ioStatus[i].status] EXCEPT ![o] = r.status]
  BY <1>2
<1>5. CASE Complete(o) /\ stage[o] = "below"
  <2>1. MonitorStatus' = MonitorStatus /\ MonitorStatus[o] = "underway"
    BY <1>5 DEF Complete, MonitorStatus, Drained, DrainedAt
  <2>. QED
    BY <1>1, <1>3, <1>4, <2>1 DEF M!Proceed
<1>6. CASE Complete(o) /\ stage[o] = "passing" /\ ~Drained(o)
  <2>1. MonitorStatus[o] = "underway"
    BY <1>6 DEF MonitorStatus
  <2>2. MonitorStatus' = [MonitorStatus EXCEPT ![o] = "idle"]
    BY <1>6 DEF Complete, MonitorStatus, Drained
  <2>. QED
    BY <1>1, <1>3, <1>4, <2>1, <2>2 DEF M!Finish
<1>7. CASE Complete(o) /\ stage[o] = "passing" /\ Drained(o)
  <2>1. MonitorStatus[o] = "torn"
    BY <1>7 DEF MonitorStatus
  <2>2. MonitorStatus' = [MonitorStatus EXCEPT ![o] = "late"]
    BY <1>7 DEF Complete, MonitorStatus, Drained
  <2>. QED
    BY <1>1, <1>3, <1>4, <2>1, <2>2 DEF M!FinishTorn
<1>8. CASE Drain(o)
  <2>1. MonitorStatus[o] = "underway"
    BY <1>8 DEF Drain, MonitorStatus, Drained, DrainedAt
  <2>2. MonitorStatus' = [MonitorStatus EXCEPT ![o] = "torn"]
    BY <1>8 DEF Drain, MonitorStatus, Drained
  <2>. QED
    BY <1>1, <1>3, <1>4, <2>1, <2>2 DEF M!Tear
<1>. QED
  BY <1>5, <1>6, <1>7, <1>8 DEF Complete

(* The post-operation finishes the event with its report, or reports one   *)
(* that was torn; it may also have nothing to say about it.                *)
LEMMA PostOperationRefines ==
  ASSUME IInv, NEW o \in Ops, PostOperation(o)
  PROVE  M!Finish(o) \/ M!ReportTorn(o) \/ UNCHANGED M!vars
<1>. DEFINE line == FileCallback(context[o], ioStatus[o])
            told == [actor |-> line.processId, result |-> line.result]
<1>1. /\ context[o] \in Events
      /\ ioStatus[o] \in IoStatus
      /\ request[o] \in Requests
      /\ request[o] # None
      /\ log[o] = None
  BY DEF PostOperation, IInv, TypeOK, PoolMatchesContexts,
         ContextIsAboutRequest, LogAt
<1>2. /\ line \in Lines \cup {None}
      /\ line # None => /\ line.processId = context[o].processId
                        /\ line.result = ioStatus[o].status
  BY <1>1, FileCallbackLine
<1>3. request[o].thread \in {context[o].processId, None}
  BY <1>1, NoneAssumption DEF IInv, ContextIsAboutRequest
<1>4. /\ log' = [log EXCEPT ![o] = line]
      /\ UNCHANGED <<request, ioStatus, flags>>
  BY DEF PostOperation
<1>. HIDE DEF line
<1>5. line # None =>
        /\ told \in M!Reports
        /\ M!IsAbout(told, o)
        /\ told.result = ioStatus[o].status
  BY <1>1, <1>2, <1>3 DEF Lines, M!Reports, M!IsAbout
<1>6. MonitorReport' =
        IF line = None THEN MonitorReport
        ELSE [MonitorReport EXCEPT ![o] = told]
  BY <1>1, <1>4 DEF IInv, TypeOK, MonitorReport
<1>. HIDE DEF told
<1>7. ioStatus[o].status \in {"pending", "success", "error"}
  BY <1>1 DEF IoStatus
<1>8. MonitorReport[o] = None
  BY <1>1 DEF MonitorReport
<1>9. CASE Drained(o)
  <2>1. MonitorStatus[o] = "torn" /\ MonitorStatus' = MonitorStatus
    BY <1>4, <1>9 DEF PostOperation, IInv, TypeOK, MonitorStatus, Drained
  <2>. QED
    BY <1>4, <1>5, <1>6, <1>8, <2>1 DEF M!ReportTorn, M!vars
<1>10. CASE ~Drained(o)
  <2>1. MonitorStatus[o] = "underway"
    BY <1>10 DEF PostOperation, MonitorStatus
  <2>2. MonitorStatus' = [MonitorStatus EXCEPT ![o] = "idle"]
    BY <1>4, <1>10 DEF PostOperation, IInv, TypeOK, MonitorStatus, Drained
  <2>3. [i \in Ops |-> ioStatus'[i].status]
          = [[i \in Ops |-> ioStatus[i].status] EXCEPT ![o] = ioStatus[o].status]
    BY <1>4
  <2>. QED
    BY <1>4, <1>5, <1>6, <1>7, <2>1, <2>2, <2>3 DEF M!Finish
<1>. QED
  BY <1>9, <1>10

LEMMA NextRefines ==
  ASSUME IInv, IInv', DrainedAt, [Next]_vars
  PROVE  [M!Next]_M!vars
<1>1. ASSUME NEW o \in Ops, Issue(o) PROVE M!Next
  BY <1>1, IssueRefines DEF M!Next
<1>2. ASSUME NEW o \in Ops, Complete(o) \/ Drain(o) PROVE M!Next
  BY <1>2, CompletionRefines DEF M!Next
<1>3. ASSUME NEW o \in Ops, PostOperation(o) PROVE [M!Next]_M!vars
  BY <1>3, PostOperationRefines DEF M!Next
<1>4. ASSUME NEW o \in Ops,
             PreOperation(o) \/ NormalizedNameFails(o) \/ RecordEvent(o)
      PROVE  UNCHANGED M!vars
  <2>. USE DEF PreOperation, NormalizedNameFails, RecordEvent, NoCallback,
               WithCallback, Naming
  <2>1. MonitorStatus' = MonitorStatus
    BY <1>4 DEF IInv, TypeOK, MonitorStatus, Drained
  <2>2. request[o] \in Requests /\ request[o] # None
    BY <1>4, NoneAssumption DEF IInv, TypeOK, ContextIsAboutRequest
  <2>3. /\ request'[o] # None
        /\ request'[o].thread = request[o].thread
        /\ \A i \in Ops : i # o => request'[i] = request[i]
    <3>1. CASE NoCallback(o)
      <4>1. request'[o] = [request[o] EXCEPT !.watched = FALSE]
        BY <3>1 DEF IInv, TypeOK
      <4>. QED
        BY <2>2, <3>1, <4>1, UnwatchedRequest, NoneAssumption DEF IInv, TypeOK
    <3>2. CASE UNCHANGED request
      BY <2>2, <3>2
    <3>. QED
      BY <1>4, <3>1, <3>2
  <2>4. UNCHANGED <<ioStatus, log>>
    BY <1>4
  <2>5. [i \in Ops |-> IF request'[i] = None THEN None ELSE request'[i].thread]
          = [i \in Ops |-> IF request[i] = None THEN None ELSE request[i].thread]
    BY <2>2, <2>3
  <2>. QED
    BY <2>1, <2>4, <2>5 DEF MonitorReport, M!vars
<1>5. CASE UNCHANGED <<stage, request, ioStatus, flags, log>>
  BY <1>5 DEF M!vars, MonitorStatus, MonitorReport, Drained
<1>. QED
  BY <1>1, <1>2, <1>3, <1>4, <1>5 DEF Next, vars, StartFiltering,
     BeginUnregister, EndUnregister, InstanceSetup, InstanceTeardownStart,
     InstanceTeardownComplete, OperationsStay

(* The filter keeps the promise of the abstract monitor: one report for an *)
(* operation at most, about its issuer and with the result it gets, unless *)
(* the operation was cut off by a teardown.                                *)
THEOREM FilterImplementsMonitor == Spec => ImplementsMonitor
<1>1. Init => DrainedAt
  BY DEF Init, DrainedAt, Drained
<1>2. IInv /\ IInv' /\ DrainedAt /\ [Next]_vars => [M!Next]_M!vars
  BY NextRefines
<1>. QED
  BY <1>1, <1>2, InitRefines, NextKeepsDrainedAt, Invariance, PTL
     DEF Spec, ImplementsMonitor, M!Spec

(* The promise itself, inherited from the monitor.                         *)
MP == INSTANCE MonitorProofs WITH
        Slots    <- Ops,
        Actors   <- Processes,
        Outcomes <- {"pending", "success", "error"},
        status   <- MonitorStatus,
        actor    <- [o \in Ops |-> IF request[o] = None
                                  THEN None ELSE request[o].thread],
        result   <- [o \in Ops |-> ioStatus[o].status],
        report   <- MonitorReport

LEMMA MonitorIsThePromised == M!Spec => MP!Spec
<1>1. M!Init => MP!Init
  BY DEF M!Init, MP!Init
<1>2. [M!Next]_M!vars => [MP!Next]_MP!vars
  BY DEF M!Next, M!vars, M!Occur, M!Proceed, M!Tear, M!Finish, M!ReportTorn,
     M!FinishTorn, M!IsAbout, M!Reports, MP!Next, MP!vars, MP!Occur,
     MP!Proceed, MP!Tear, MP!Finish, MP!ReportTorn, MP!FinishTorn, MP!IsAbout,
     MP!Reports
<1>. QED
  BY <1>1, <1>2, PTL DEF M!Spec, MP!Spec

(* A line about a file operation names who issued it and, once it is       *)
(* finished, shows what came of it, unless a teardown cut it off.          *)
THEOREM FileLinesKeepThePromise == Spec => []M!ReportsAreTrue
<1>1. MP!ReportsAreTrue => M!ReportsAreTrue
  BY DEF M!ReportsAreTrue, MP!ReportsAreTrue, M!IsAbout, MP!IsAbout
<1>. QED
  BY <1>1, FilterImplementsMonitor, MonitorIsThePromised, MP!ReportsTrue, PTL
     DEF ImplementsMonitor
-----------------------------------------------------------------------------
(***************************************************************************)
(* Progress.  The provers have no rule for ENABLED, so that these theorems *)
(* assume OperationFair, VolumeFair and UnregisterFair, which have the     *)
(* guards of the fair actions spelt out.  That the file system answers     *)
(* queries for names is not among them (AllFair): it is a hypothesis of    *)
(* the theorems, with the others in TeardownFair for the lemmas.           *)
(***************************************************************************)
AllFair ==
  /\ \A o \in Ops : OperationFair(o)
  /\ \A v \in Volumes : VolumeFair(v)
  /\ UnregisterFair

TeardownFair ==
  /\ \A o \in Ops : OperationFair(o)
  /\ \A v \in Volumes : VolumeFair(v)
  /\ QueriesAnswered

(* An operation that the teardown of an instance has to wait for.          *)
Draining(v)   == instance[v] = "draining"
Held(o, s, v) == Draining(v) /\ stage[o] = s /\ Volume(o) = v

(* None of a set of operations on the volume is in our hands.              *)
Away(S, v)    == \A o \in S : stage[o] \in Ours => Volume(o) # v
Emptied(S, v) == ~Draining(v) \/ (Draining(v) /\ Away(S, v))

(* A draining instance is drained until the teardown is complete.          *)
LEMMA DrainingEnds ==
  ASSUME IInv, NEW v \in Volumes, Draining(v), [Next]_vars
  PROVE  /\ Draining(v)' \/ instance'[v] = "detached"
         /\ <<InstanceTeardownComplete(v)>>_vars => instance'[v] = "detached"
<1>. USE DEF IInv, TypeOK, Draining
<1>1. CASE \E o \in Ops : \/ Issue(o) \/ PreOperation(o)
                          \/ NormalizedNameFails(o) \/ RecordEvent(o)
                          \/ Complete(o) \/ Drain(o) \/ PostOperation(o)
  <2>1. UNCHANGED instance
    BY <1>1 DEF Issue, PreOperation, NormalizedNameFails, RecordEvent, Complete,
                Drain, PostOperation
  <2>2. ~InstanceTeardownComplete(v)
    BY <2>1 DEF InstanceTeardownComplete
  <2>. QED
    BY <2>1, <2>2
<1>2. CASE StartFiltering \/ BeginUnregister \/ EndUnregister
  BY <1>2 DEF StartFiltering, BeginUnregister, EndUnregister,
     InstanceTeardownComplete
<1>3. CASE \E w \in Volumes : InstanceSetup(w) \/ InstanceTeardownStart(w)
                                \/ InstanceTeardownComplete(w)
  BY <1>3 DEF InstanceSetup, InstanceTeardownStart, InstanceTeardownComplete
<1>4. CASE UNCHANGED vars
  BY <1>4 DEF vars, InstanceTeardownComplete
<1>. QED
  BY <1>1, <1>2, <1>3, <1>4 DEF Next

(* An operation stays where it is on its way through the driver, or moves  *)
(* on by one stage; while the instance is drained no other one comes.      *)
LEMMA OperationMoves ==
  ASSUME IInv, NEW v \in Volumes, Draining(v), NEW o \in Ops, [Next]_vars
  PROVE  \/ UNCHANGED <<stage[o], Volume(o)>>
         \/ PreOperation(o) /\ stage'[o] \in {"normalized", "passing"}
                            /\ UNCHANGED Volume(o)
         \/ stage[o] \in Naming /\ stage'[o] \in {"opened", "below", "passing"}
                               /\ UNCHANGED Volume(o)
         \/ Complete(o) /\ stage'[o] = (IF stage[o] = "below" THEN "post" ELSE "idle")
                        /\ UNCHANGED Volume(o)
         \/ Drain(o) /\ stage'[o] = "post" /\ UNCHANGED Volume(o)
         \/ PostOperation(o) /\ stage'[o] \in {"idle", "passing"}
         \/ stage[o] = "idle" /\ (stage'[o] \in Ours => Volume(o)' # v)
<1>. USE DEF IInv, TypeOK, Draining
<1>1. CASE UNCHANGED <<stage, request>>
  BY <1>1 DEF Volume
<1>2. ASSUME NEW p \in Ops, Issue(p)
      PROVE  \/ UNCHANGED <<stage[o], Volume(o)>>
             \/ stage[o] = "idle" /\ (stage'[o] \in Ours => Volume(o)' # v)
  <2>1. CASE p # o
    BY <1>2, <2>1 DEF Issue, Volume
  <2>2. CASE p = o
    BY <1>2, <2>2 DEF Issue, Volume, Ours, Naming
  <2>. QED
    BY <2>1, <2>2
<1>3. ASSUME NEW p \in Ops,
             PreOperation(p) \/ NormalizedNameFails(p) \/ RecordEvent(p)
      PROVE  \/ UNCHANGED <<stage[o], Volume(o)>>
             \/ /\ PreOperation(o)
                /\ stage'[o] \in {"normalized", "passing"}
                /\ UNCHANGED Volume(o)
             \/ /\ stage[o] \in Naming
                /\ stage'[o] \in {"opened", "below", "passing"}
                /\ UNCHANGED Volume(o)
  <2>. USE DEF PreOperation, NormalizedNameFails, RecordEvent, NoCallback,
               WithCallback, Naming
  <2>1. Volume(o)' = Volume(o)
    <3>1. CASE NoCallback(p) /\ p = o
      <4>1. request[o] \in Requests
        BY <1>3, <3>1, NoEventYet
      <4>2. request'[o] = [request[o] EXCEPT !.watched = FALSE]
        BY <3>1
      <4>. QED
        BY <4>1, <4>2, UnwatchedRequest DEF Volume
    <3>2. CASE request'[o] = request[o]
      BY <3>2 DEF Volume
    <3>. QED
      BY <1>3, <3>1, <3>2
  <2>2. p # o => stage'[o] = stage[o]
    BY <1>3
  <2>3. p = o /\ PreOperation(o) => stage'[o] \in {"normalized", "passing"}
    OBVIOUS
  <2>4. p = o /\ (NormalizedNameFails(o) \/ RecordEvent(o))
          => /\ stage[o] \in Naming
             /\ stage'[o] \in {"opened", "below", "passing"}
    OBVIOUS
  <2>. QED
    BY <1>3, <2>1, <2>2, <2>3, <2>4
<1>4. ASSUME NEW p \in Ops, Complete(p)
      PROVE  \/ UNCHANGED <<stage[o], Volume(o)>>
             \/ /\ Complete(o)
                /\ stage'[o] = (IF stage[o] = "below" THEN "post" ELSE "idle")
                /\ UNCHANGED Volume(o)
  BY <1>4 DEF Complete, Volume
<1>5. ASSUME NEW p \in Ops, Drain(p)
      PROVE  \/ UNCHANGED <<stage[o], Volume(o)>>
             \/ Drain(o) /\ stage'[o] = "post" /\ UNCHANGED Volume(o)
  BY <1>5 DEF Drain, Volume
<1>6. ASSUME NEW p \in Ops, PostOperation(p)
      PROVE  \/ UNCHANGED <<stage[o], Volume(o)>>
             \/ PostOperation(o) /\ stage'[o] \in {"idle", "passing"}
  BY <1>6 DEF PostOperation, Volume
<1>7. \/ UNCHANGED <<stage, request>>
      \/ \E p \in Ops : \/ Issue(p) \/ PreOperation(p)
                       \/ NormalizedNameFails(p) \/ RecordEvent(p)
                       \/ Complete(p) \/ Drain(p) \/ PostOperation(p)
  BY DEF Next, StartFiltering, BeginUnregister, EndUnregister, InstanceSetup,
     InstanceTeardownStart, InstanceTeardownComplete, OperationsStay, vars
<1>. QED
  BY <1>1, <1>2, <1>3, <1>4, <1>5, <1>6, <1>7

(* Operations that are away from a draining instance stay away.            *)
LEMMA AwayStaysAway ==
  ASSUME IInv, NEW v \in Volumes, Draining(v), [Next]_vars,
         NEW S \in SUBSET Ops, Away(S, v)
  PROVE  Emptied(S, v)'
<1>1. ASSUME NEW o \in S
      PROVE  stage'[o] \in Ours => Volume(o)' # v
  BY OperationMoves DEF Away, Ours, Naming, PreOperation, Complete, Drain,
     PostOperation
<1>. QED
  BY <1>1 DEF Emptied, Away

Empties(S, v) == Spec /\ TeardownFair => (Draining(v) ~> Emptied(S, v))

(* One operation goes through the driver, or is drained, whatever the file *)
(* system does.                                                            *)
LEMMA OneEmpties ==
  ASSUME NEW v \in Volumes, NEW o \in Ops
  PROVE  Empties({o}, v)
<1>. DEFINE Named == Draining(v) /\ stage[o] \in Naming /\ Volume(o) = v
<1>. USE DEF Held, Emptied, Away, Ours, Naming
<1>1. Draining(v) => \/ Held(o, "pre", v) \/ Named \/ Held(o, "below", v)
                     \/ Held(o, "post", v) \/ Emptied({o}, v)
  OBVIOUS
<1>2. IInv /\ Held(o, "pre", v) /\ [Next]_vars
        => (Held(o, "pre", v) \/ Named \/ Emptied({o}, v))'
  BY OperationMoves DEF Complete, Drain, PostOperation
<1>3. IInv /\ Held(o, "pre", v) /\ [Next]_vars /\ <<PreOperation(o)>>_vars
        => (Named \/ Emptied({o}, v))'
  BY OperationMoves DEF IInv, TypeOK, PreOperation, NoCallback, Complete, Drain,
                        PostOperation
<1>4. IInv /\ Named /\ [Next]_vars
        => (Named \/ Held(o, "below", v) \/ Emptied({o}, v))'
  BY OperationMoves DEF PreOperation, Complete, Drain, PostOperation
<1>5. IInv /\ Held(o, "below", v) /\ [Next]_vars
        => (Held(o, "below", v) \/ Held(o, "post", v) \/ Emptied({o}, v))'
  BY OperationMoves DEF PreOperation, PostOperation
<1>6. IInv /\ Held(o, "below", v) /\ [Next]_vars /\ <<Drain(o)>>_vars
        => (Held(o, "post", v) \/ Emptied({o}, v))'
  BY DEF IInv, TypeOK, Drain, Draining, Volume
<1>7. IInv /\ Held(o, "post", v) /\ [Next]_vars
        => (Held(o, "post", v) \/ Emptied({o}, v))'
  BY OperationMoves DEF PreOperation, Complete, Drain
<1>8. IInv /\ Held(o, "post", v) /\ [Next]_vars /\ <<PostOperation(o)>>_vars
        => Emptied({o}, v)'
  BY DEF IInv, TypeOK, PostOperation, Draining
<1>9. /\ Held(o, "pre", v) => stage[o] = "pre"
      /\ Named => ~(stage[o] \notin Naming)
      /\ Held(o, "below", v) => Drainable(o)
      /\ Held(o, "post", v) => stage[o] = "post"
  BY DEF Drainable, Draining
<1>10. TeardownFair => OperationFair(o) /\ []<>(stage[o] \notin Naming)
  BY DEF TeardownFair, QueriesAnswered
<1>. HIDE DEF Held, Emptied, Named, Naming
<1>. QED
  BY <1>1, <1>2, <1>3, <1>4, <1>5, <1>6, <1>7, <1>8, <1>9, <1>10, Invariance,
     PTL DEF Spec, OperationFair, Empties

(* Two sets of operations go away together.                                *)
LEMMA TwoEmpty ==
  ASSUME NEW v \in Volumes, NEW S \in SUBSET Ops, NEW T \in SUBSET Ops
  PROVE  Empties(S, v) /\ Empties(T, v) => Empties(S \cup T, v)
<1>1. IInv /\ Draining(v) /\ Away(S, v) /\ [Next]_vars => Emptied(S, v)'
  BY AwayStaysAway
<1>2. IInv /\ Draining(v) /\ Away(T, v) /\ [Next]_vars => Emptied(T, v)'
  BY AwayStaysAway
<1>3. Away(S, v) /\ Away(T, v) => Away(S \cup T, v)
  BY DEF Away
<1>. QED
  BY <1>1, <1>2, <1>3, Invariance, PTL DEF Spec, Empties, Emptied

(* The provers have no induction over temporal formulas, but a step that   *)
(* doubles a number can be taken sixteen times.  So a set has at most      *)
(* MaxSize elements here, which one more line of the proofs doubles.       *)
MaxSize == 65536

Few(S) == \E f : S = {f[k] : k \in 1 .. MaxSize}

(* What is enumerated by the double of n is enumerated in two halves.      *)
LEMMA Halves ==
  ASSUME NEW n \in Nat, NEW m \in Nat, m = n + n,
         NEW f, NEW g, \A k \in 1 .. n : g[k] = f[n + k]
  PROVE  {f[k] : k \in 1 .. m} = {f[k] : k \in 1 .. n} \cup {g[k] : k \in 1 .. n}
<1>. DEFINE S == {f[k] : k \in 1 .. n}
            T == {g[k] : k \in 1 .. n}
<1>1. S \cup T \subseteq {f[k] : k \in 1 .. m}
  OBVIOUS
<1>2. ASSUME NEW k \in 1 .. m
      PROVE  f[k] \in S \cup T
  <2>1. CASE k <= n
    BY <2>1
  <2>2. CASE k > n
    <3>1. k - n \in 1 .. n /\ f[k] = g[k - n]
      BY <2>2
    <3>. QED
      BY <3>1
  <2>. QED
    BY <2>1, <2>2
<1>. QED
  BY <1>1, <1>2

(* Any n operations go away from a draining instance; so do twice as many. *)
ManyEmpty(v, n) ==
  \A f : (\A k \in 1 .. n : f[k] \in Ops)
           => Empties({f[k] : k \in 1 .. n}, v)

LEMMA TwiceAsManyEmpty ==
  ASSUME NEW v \in Volumes, NEW n \in Nat, NEW m \in Nat, m = n + n,
         ManyEmpty(v, n)
  PROVE  ManyEmpty(v, m)
<1>. SUFFICES ASSUME NEW f, \A k \in 1 .. m : f[k] \in Ops
              PROVE  Empties({f[k] : k \in 1 .. m}, v)
  BY DEF ManyEmpty
<1>. DEFINE g == [k \in 1 .. n |-> f[n + k]]
            S == {f[k] : k \in 1 .. n}
            T == {g[k] : k \in 1 .. n}
<1>1. \A k \in 1 .. n : f[k] \in Ops /\ g[k] \in Ops
  OBVIOUS
<1>2. {f[k] : k \in 1 .. m} = S \cup T
  <2>1. \A k \in 1 .. n : g[k] = f[n + k]
    OBVIOUS
  <2>. HIDE DEF g
  <2>. QED
    BY <2>1, Halves
<1>3. Empties(S, v) /\ Empties(T, v)
  BY <1>1 DEF ManyEmpty
<1>4. S \in SUBSET Ops /\ T \in SUBSET Ops
  BY <1>1
<1>. HIDE DEF S, T
<1>. QED
  BY <1>2, <1>3, <1>4, TwoEmpty

LEMMA OpsEmpty ==
  ASSUME NEW v \in Volumes, Few(Ops)
  PROVE  Empties(Ops, v)
<1>1. PICK f : Ops = {f[k] : k \in 1 .. MaxSize}
  BY DEF Few
<1>. DEFINE D(n) == ManyEmpty(v, n)
<1>2. D(1)
  <2>. SUFFICES ASSUME NEW g, \A k \in 1 .. 1 : g[k] \in Ops
                PROVE  Empties({g[k] : k \in 1 .. 1}, v)
    BY DEF ManyEmpty
  <2>1. {g[k] : k \in 1 .. 1} = {g[1]}
    OBVIOUS
  <2>. QED
    BY <2>1, OneEmpties
<1>3. \A n \in Nat, m \in Nat : m = n + n /\ D(n) => D(m)
  BY TwiceAsManyEmpty
<1>. HIDE DEF D
<1>4. D(2)       BY <1>2, <1>3, SMT
<1>5. D(4)       BY <1>4, <1>3, SMT
<1>6. D(8)       BY <1>5, <1>3, SMT
<1>7. D(16)      BY <1>6, <1>3, SMT
<1>8. D(32)      BY <1>7, <1>3, SMT
<1>9. D(64)      BY <1>8, <1>3, SMT
<1>10. D(128)    BY <1>9, <1>3, SMT
<1>11. D(256)    BY <1>10, <1>3, SMT
<1>12. D(512)    BY <1>11, <1>3, SMT
<1>13. D(1024)   BY <1>12, <1>3, SMT
<1>14. D(2048)   BY <1>13, <1>3, SMT
<1>15. D(4096)   BY <1>14, <1>3, SMT
<1>16. D(8192)   BY <1>15, <1>3, SMT
<1>17. D(16384)  BY <1>16, <1>3, SMT
<1>18. D(32768)  BY <1>17, <1>3, SMT
<1>19. D(65536)  BY <1>18, <1>3, SMT
<1>20. D(MaxSize)
  BY <1>19, SMT DEF MaxSize
<1>21. \A k \in 1 .. MaxSize : f[k] \in Ops
  BY <1>1
<1>. QED
  BY <1>1, <1>20, <1>21 DEF D, ManyEmpty

(* The teardown of an instance.                                            *)
Detached(S) == \A v \in S : instance[v] = "detached"

Detaches(v) == Draining(v) ~> instance[v] = "detached"

LEMMA VolumeDetaches ==
  ASSUME NEW v \in Volumes, Few(Ops)
  PROVE  Spec /\ TeardownFair => Detaches(v)
<1>1. Empties(Ops, v)
  BY OpsEmpty
<1>2. IInv /\ Draining(v) /\ [Next]_vars
        => Draining(v)' \/ (instance[v] = "detached")'
  BY DrainingEnds
<1>3. IInv /\ Draining(v) /\ [Next]_vars
           /\ <<InstanceTeardownComplete(v)>>_vars
        => (instance[v] = "detached")'
  BY DrainingEnds
<1>4. IInv /\ Draining(v) /\ Away(Ops, v) /\ [Next]_vars => Emptied(Ops, v)'
  BY AwayStaysAway
<1>5. Draining(v) /\ Away(Ops, v) => TeardownDone(v)
  BY DEF Draining, Away, TeardownDone
<1>6. TeardownFair => VolumeFair(v)
  BY DEF TeardownFair
<1>. QED
  BY <1>1, <1>2, <1>3, <1>4, <1>5, <1>6, Invariance, PTL
     DEF Spec, Empties, Emptied, VolumeFair, Detaches

(* A detach gets through although the file system may keep operations for  *)
(* ever, if it answers queries for names.                                  *)
THEOREM DetachEnds ==
  ASSUME Few(Ops)
  PROVE  Spec /\ AllFair => (QueriesAnswered => DetachFinishes)
<1>1. ASSUME NEW v \in Volumes
      PROVE  Spec /\ TeardownFair => Detaches(v)
  BY VolumeDetaches
<1>2. AllFair /\ QueriesAnswered => TeardownFair
  BY DEF AllFair, TeardownFair
<1>. QED
  BY <1>1, <1>2 DEF DetachFinishes, Detaches, Draining

-----------------------------------------------------------------------------
(* The unload: no volume gets an instance any more, so that volumes can be *)
(* counted off like the operations above.                                  *)
Unregistering == filter = "draining"
Torn(S)       == ~Unregistering \/ (Unregistering /\ Detached(S))
TearsDown(S)  == Spec /\ TeardownFair => (Unregistering ~> Torn(S))

(* While the filter is unregistered its instances can only go.             *)
LEMMA InstancesGo ==
  ASSUME IInv, Unregistering, [Next]_vars
  PROVE  /\ Unregistering' \/ filter' = "off"
         /\ \A v \in Volumes :
              \/ UNCHANGED instance[v]
              \/ instance[v] = "attached" /\ instance'[v] = "draining"
              \/ instance[v] = "draining" /\ instance'[v] = "detached"
<1>. USE DEF IInv, TypeOK, Unregistering
<1>1. CASE \E o \in Ops : \/ Issue(o) \/ PreOperation(o)
                          \/ NormalizedNameFails(o) \/ RecordEvent(o)
                          \/ Complete(o) \/ Drain(o) \/ PostOperation(o)
  BY <1>1 DEF Issue, PreOperation, NormalizedNameFails, RecordEvent, Complete,
              Drain, PostOperation
<1>2. CASE \/ StartFiltering \/ BeginUnregister \/ EndUnregister
           \/ UNCHANGED vars
  BY <1>2 DEF StartFiltering, BeginUnregister, EndUnregister, vars
<1>3. CASE \E w \in Volumes : InstanceSetup(w) \/ InstanceTeardownStart(w)
                                \/ InstanceTeardownComplete(w)
  BY <1>3 DEF InstanceSetup, InstanceTeardownStart, InstanceTeardownComplete
<1>. QED
  BY <1>1, <1>2, <1>3 DEF Next

LEMMA DetachedStays ==
  ASSUME IInv, Unregistering, [Next]_vars, NEW S \in SUBSET Volumes, Detached(S)
  PROVE  Torn(S)'
BY InstancesGo DEF Torn, Detached

(* One instance is torn down, from wherever it is.                         *)
LEMMA OneTearsDown ==
  ASSUME NEW v \in Volumes, Few(Ops)
  PROVE  TearsDown({v})
<1>. DEFINE Attached == Unregistering /\ instance[v] = "attached"
            Gone     == instance[v] = "detached"
<1>1. IInv /\ Unregistering => Attached \/ Draining(v) \/ Gone
  BY DEF IInv, TypeOK, Draining
<1>2. IInv /\ Attached /\ [Next]_vars
        => (Attached \/ Draining(v) \/ ~Unregistering)'
  BY InstancesGo DEF Draining
<1>3. IInv /\ Attached /\ [Next]_vars /\ <<InstanceTeardownStart(v)>>_vars
        => Draining(v)'
  BY DEF InstanceTeardownStart, IInv, TypeOK, Draining
<1>4. Attached => TeardownDue(v)
  BY DEF TeardownDue, Unregistering
<1>5. Spec /\ TeardownFair => Detaches(v)
  BY VolumeDetaches
<1>6. Gone => Detached({v})
  BY DEF Detached
<1>7. TeardownFair => VolumeFair(v)
  BY DEF TeardownFair
<1>. QED
  BY <1>1, <1>2, <1>3, <1>4, <1>5, <1>6, <1>7, Invariance, PTL
     DEF Spec, VolumeFair, Detaches, Torn, TearsDown

LEMMA TwoTearDown ==
  ASSUME NEW S \in SUBSET Volumes, NEW T \in SUBSET Volumes
  PROVE  TearsDown(S) /\ TearsDown(T) => TearsDown(S \cup T)
<1>1. IInv /\ Unregistering /\ Detached(S) /\ [Next]_vars => Torn(S)'
  BY DetachedStays
<1>2. IInv /\ Unregistering /\ Detached(T) /\ [Next]_vars => Torn(T)'
  BY DetachedStays
<1>3. Detached(S) /\ Detached(T) => Detached(S \cup T)
  BY DEF Detached
<1>. QED
  BY <1>1, <1>2, <1>3, Invariance, PTL DEF Spec, TearsDown, Torn

(* Any n volumes, and twice as many.                                       *)
ManyTearDown(n) ==
  \A f : (\A k \in 1 .. n : f[k] \in Volumes)
           => TearsDown({f[k] : k \in 1 .. n})

LEMMA TwiceAsManyTearDown ==
  ASSUME NEW n \in Nat, NEW m \in Nat, m = n + n, ManyTearDown(n)
  PROVE  ManyTearDown(m)
<1>. SUFFICES ASSUME NEW f, \A k \in 1 .. m : f[k] \in Volumes
              PROVE  TearsDown({f[k] : k \in 1 .. m})
  BY DEF ManyTearDown
<1>. DEFINE g == [k \in 1 .. n |-> f[n + k]]
            S == {f[k] : k \in 1 .. n}
            T == {g[k] : k \in 1 .. n}
<1>1. \A k \in 1 .. n : f[k] \in Volumes /\ g[k] \in Volumes
  OBVIOUS
<1>2. {f[k] : k \in 1 .. m} = S \cup T
  <2>1. \A k \in 1 .. n : g[k] = f[n + k]
    OBVIOUS
  <2>. HIDE DEF g
  <2>. QED
    BY <2>1, Halves
<1>3. TearsDown(S) /\ TearsDown(T)
  BY <1>1 DEF ManyTearDown
<1>4. S \in SUBSET Volumes /\ T \in SUBSET Volumes
  BY <1>1
<1>. HIDE DEF S, T
<1>. QED
  BY <1>2, <1>3, <1>4, TwoTearDown

LEMMA VolumesTearDown ==
  ASSUME Few(Ops), Few(Volumes)
  PROVE  TearsDown(Volumes)
<1>1. PICK f : Volumes = {f[k] : k \in 1 .. MaxSize}
  BY DEF Few
<1>. DEFINE D(n) == ManyTearDown(n)
<1>2. D(1)
  <2>. SUFFICES ASSUME NEW g, \A k \in 1 .. 1 : g[k] \in Volumes
                PROVE  TearsDown({g[k] : k \in 1 .. 1})
    BY DEF ManyTearDown
  <2>1. {g[k] : k \in 1 .. 1} = {g[1]}
    OBVIOUS
  <2>. QED
    BY <2>1, OneTearsDown
<1>3. \A n \in Nat, m \in Nat : m = n + n /\ D(n) => D(m)
  BY TwiceAsManyTearDown
<1>. HIDE DEF D
<1>4. D(2)       BY <1>2, <1>3, SMT
<1>5. D(4)       BY <1>4, <1>3, SMT
<1>6. D(8)       BY <1>5, <1>3, SMT
<1>7. D(16)      BY <1>6, <1>3, SMT
<1>8. D(32)      BY <1>7, <1>3, SMT
<1>9. D(64)      BY <1>8, <1>3, SMT
<1>10. D(128)    BY <1>9, <1>3, SMT
<1>11. D(256)    BY <1>10, <1>3, SMT
<1>12. D(512)    BY <1>11, <1>3, SMT
<1>13. D(1024)   BY <1>12, <1>3, SMT
<1>14. D(2048)   BY <1>13, <1>3, SMT
<1>15. D(4096)   BY <1>14, <1>3, SMT
<1>16. D(8192)   BY <1>15, <1>3, SMT
<1>17. D(16384)  BY <1>16, <1>3, SMT
<1>18. D(32768)  BY <1>17, <1>3, SMT
<1>19. D(65536)  BY <1>18, <1>3, SMT
<1>20. D(MaxSize)
  BY <1>19, SMT DEF MaxSize
<1>21. \A k \in 1 .. MaxSize : f[k] \in Volumes
  BY <1>1
<1>. QED
  BY <1>1, <1>20, <1>21 DEF D, ManyTearDown

(* FltUnregisterFilter returns, on however many volumes the filter is, if  *)
(* their file systems answer queries for names, and whatever else they do. *)
THEOREM UnregisterEnds ==
  ASSUME Few(Ops), Few(Volumes)
  PROVE  Spec /\ AllFair => (QueriesAnswered => UnregisterReturns)
<1>1. TearsDown(Volumes)
  BY VolumesTearDown
<1>2. IInv /\ Unregistering /\ [Next]_vars => Unregistering' \/ (filter = "off")'
  BY InstancesGo
<1>3. IInv /\ Unregistering /\ Detached(Volumes) /\ [Next]_vars
        => Torn(Volumes)'
  BY DetachedStays
<1>4. <<EndUnregister>>_vars => (filter = "off")'
  BY DEF EndUnregister
<1>5. Unregistering /\ Detached(Volumes) => UnregisterDone
  BY DEF Unregistering, Detached, UnregisterDone
<1>6. Unregistering <=> filter = "draining"
  BY DEF Unregistering
<1>7. AllFair /\ QueriesAnswered => TeardownFair
  BY DEF AllFair, TeardownFair
<1>8. AllFair => UnregisterFair
  BY DEF AllFair
<1>. QED
  BY <1>1, <1>2, <1>3, <1>4, <1>5, <1>6, <1>7, <1>8, Invariance, PTL
     DEF Spec, UnregisterFair, TearsDown, Torn, UnregisterReturns

(* No teardown hangs, of one volume or of all of them, unless a query for  *)
(* a name does.                                                            *)
THEOREM TeardownsEnd ==
  ASSUME Few(Ops), Few(Volumes)
  PROVE  Spec /\ AllFair => TeardownsFinish
BY DetachEnds, UnregisterEnds, PTL DEF TeardownsFinish
=============================================================================
