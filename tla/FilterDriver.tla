------------------------------ MODULE FilterDriver ------------------------------
(***************************************************************************)
(* The driver with the file operations that pass through it.               *)
(*                                                                         *)
(* Notifications is the driver as the processes and threads of the system  *)
(* see it, FileFilter the driver as file operations see it.  Here they are *)
(* one: the processes that issue operations are the ones that come and go, *)
(* the filter starts, drains and stops where the control thread says so,   *)
(* and FltUnregisterFilter, which Notifications lets return at any time,   *)
(* keeps ProcMonelFilterUnload waiting for every instance.                 *)
(***************************************************************************)
EXTENDS Notifications

CONSTANTS Ops, Volumes, Majors, PoolMayFail   (* As in FileFilter.         *)

VARIABLES
  instance, stage, request, ioStatus, flags, pool, context, log,
           (* Those of FileFilter; its filter is Filtering.                *)
  late     (* History: the operations that were recorded when              *)
           (* FltUnregisterFilter had been called.                         *)

files == <<instance, stage, request, ioStatus, flags, pool, context, log>>
dvars == <<nvars, files, late>>

(* What the control thread and gDrv.FilterHandle mean to the filter        *)
(* manager: from its call on the filter is being unregistered.             *)
Filtering ==
  IF filter # "filtering" THEN "off"
  ELSE IF pc = "FltUnregisterFilter" THEN "draining" ELSE "filtering"

F == INSTANCE FileFilter WITH filter <- Filtering

ASSUME FilesAssumption ==
  F!PoolAssumption /\ F!MajorsAssumption /\ F!NoneAssumption

DInit == NInit /\ F!Init /\ late = {}

-----------------------------------------------------------------------------
(* FltUnregisterFilter waits until the filter has no instance any more.    *)
MayReturn ==
  pc = "FltUnregisterFilter" => \A v \in Volumes : instance[v] = "detached"

LoadOrUnload == Driver /\ MayReturn /\ UNCHANGED <<files, late>>

(* The processes and threads, and the routines about them.                 *)
Notice(t) == Kernel(t) /\ UNCHANGED <<files, late>>

Instance(v) ==
  /\ UNCHANGED <<nvars, late>>
  /\ \/ F!InstanceSetup(v)
     \/ F!InstanceTeardownStart(v)
     \/ F!InstanceTeardownComplete(v)

(* An operation is issued by a process that runs.                          *)
Issue(o) ==
  /\ UNCHANGED <<nvars, late>>
  /\ F!Issue(o)
  /\ request'[o].thread # None => proc[request'[o].thread] = "running"

(* The parts of the pre-operation.  The event names that process, or one   *)
(* that is current for an operation without a thread.                      *)
Record(o) ==
  /\ UNCHANGED nvars
  /\ F!PreOperation(o) \/ F!NormalizedNameFails(o) \/ F!RecordEvent(o)
  /\ context'[o] # None =>
       proc[context'[o].processId] \in {"running", "gone"}
  /\ late' = IF Filtering = "draining" THEN late \cup {o} ELSE late \ {o}

(* The file system, the filter manager and the post-operation.             *)
Finish(o) ==
  /\ UNCHANGED <<nvars, late>>
  /\ F!Complete(o) \/ F!Drain(o) \/ F!PostOperation(o)

DNext ==
  \/ LoadOrUnload
  \/ \E t \in Threads : Notice(t)
  \/ \E v \in Volumes : Instance(v)
  \/ \E o \in Ops : Issue(o) \/ Record(o) \/ Finish(o)

DSpec == DInit /\ [][DNext]_dvars

(* The fairness of the parts.  That a call returns when it need not wait   *)
(* for anybody any more is now also about instances.  As in FileFilter the *)
(* queries for names need not be answered.                                 *)
DFairness ==
  /\ WF_dvars(LoadOrUnload /\ Control)
  /\ \A t \in Threads : WF_dvars(Notice(t) /\ Notify(t))
  /\ \A v \in Volumes :
       /\ WF_dvars(Filtering = "draining" /\ Instance(v)
                     /\ F!InstanceTeardownStart(v))
       /\ WF_dvars(Instance(v) /\ F!InstanceTeardownComplete(v))
  /\ \A o \in Ops :
       /\ WF_dvars(Record(o) /\ F!PreOperation(o))
       /\ WF_dvars(Finish(o) /\ F!PostOperation(o))
       /\ WF_dvars(Finish(o) /\ F!Drain(o))

FairDSpec == DSpec /\ DFairness

(* The same fairness with the guards of its actions in place of ENABLED.   *)
DriverReady == ControlReady /\ MayReturn
LoadFair    == []<>~DriverReady \/ []<><<LoadOrUnload /\ Control>>_dvars

NoticeFair(t) ==
  []<>~Inside(t) \/ []<><<Notice(t) /\ Notify(t)>>_dvars

InstanceFair(v) ==
  /\ \/ []<>~F!TeardownDue(v)
     \/ []<><<Instance(v) /\ F!InstanceTeardownStart(v)>>_dvars
  /\ \/ []<>~F!TeardownDone(v)
     \/ []<><<Instance(v) /\ F!InstanceTeardownComplete(v)>>_dvars

FileFair(o) ==
  /\ []<>~(stage[o] = "pre")  \/ []<><<Record(o) /\ F!PreOperation(o)>>_dvars
  /\ []<>~(stage[o] = "post") \/ []<><<Finish(o) /\ F!PostOperation(o)>>_dvars
  /\ []<>~F!Drainable(o)      \/ []<><<Finish(o) /\ F!Drain(o)>>_dvars

DFair ==
  /\ LoadFair
  /\ \A t \in Threads : NoticeFair(t)
  /\ \A v \in Volumes : InstanceFair(v)
  /\ \A o \in Ops : FileFair(o)

-----------------------------------------------------------------------------
(* When the image is unmapped the driver is gone for the file system too:  *)
(* no operation is inside its callbacks or will come back to them, and all *)
(* its memory is back in the pool.  That takes FltUnregisterFilter on      *)
(* every path of DriverEntry and Unload on which filtering was started.    *)
UnmappedImageIsForgotten ==
  pc = "Absent" => pool = {} /\ \A o \in Ops : stage[o] \notin F!Ours

(* Every process with a line about a file is introduced, by its creation   *)
(* or by having been there before, as it is for the other lines.  Only     *)
(* between the removal of the process routine and the end of the instances *)
(* operations of a process that nobody told of are still recorded.         *)
FileContextIsKnown ==
  \A o \in Ops \ late :
    log[o] # None =>
      \/ log[o].processId \in old
      \/ "Process Created" \in Operations(log[o].processId)
=============================================================================
