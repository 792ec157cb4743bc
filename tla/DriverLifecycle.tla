--------------------------- MODULE DriverLifecycle ---------------------------
(***************************************************************************)
(* Loading and unloading of the ProcMonelFilter minifilter driver.         *)
(*                                                                         *)
(* One control thread runs DriverEntry and, later, ProcMonelFilterUnload.  *)
(* Both register or remove callback routines with one kernel call after    *)
(* the other, and each of those calls may fail.  Meanwhile the kernel      *)
(* calls every routine that is registered, on any thread, at any time:     *)
(* also between two calls of DriverEntry and while Unload is running.      *)
(*                                                                         *)
(* The control location is the name of the kernel call that the driver is  *)
(* about to make, so there is one action per kernel call.                  *)
(***************************************************************************)
CONSTANTS
  Threads,   (* Kernel threads that may call into the driver.              *)
  Failable   (* The kernel calls that may return an error status.          *)

(***************************************************************************)
(* The notification routines of ProcMonel.c.  "file" stands for the pre-   *)
(* and post-operation callbacks, which the filter manager calls as long as *)
(* the filter is filtering.                                                *)
(***************************************************************************)
NotifyRoutines == {"process", "thread", "image", "registry"}
Routines       == NotifyRoutines \cup {"file"}

RegisterCalls ==
  {"FltRegisterFilter", "PsSetCreateProcessNotifyRoutineEx",
   "PsSetCreateThreadNotifyRoutineEx", "PsSetLoadImageNotifyRoutine",
   "CmRegisterCallbackEx", "FltStartFiltering"}

RemoveCalls ==
  {"CmUnRegisterCallback", "PsRemoveLoadImageNotifyRoutine",
   "PsRemoveCreateThreadNotifyRoutine",
   "PsSetCreateProcessNotifyRoutineEx(Remove)"}

Calls == RegisterCalls \cup RemoveCalls

ASSUME FailableAssumption == Failable \subseteq Calls

VARIABLES
  pc,          (* The next kernel call of the driver, or where it rests.   *)
  filter,      (* gDrv.FilterHandle: "none", "registered" or "filtering".  *)
  registered,  (* The notification routines the kernel knows.              *)
  running,     (* The routine of the driver that each thread is executing. *)
  failed       (* The calls that failed since the driver was loaded.       *)

vars == <<pc, filter, registered, running, failed>>

TypeOK ==
  /\ pc \in Calls \cup {"Absent", "Running", "FltUnregisterFilter", "Return"}
  /\ filter \in {"none", "registered", "filtering"}
  /\ registered \subseteq NotifyRoutines
  /\ running \in [Threads -> Routines \cup {"idle"}]
  /\ failed \subseteq Calls

(* What the kernel may call now.                                           *)
Callable == registered \cup (IF filter = "filtering" THEN {"file"} ELSE {})

(***************************************************************************)
(* The kernel calls that remove a routine, and FltUnregisterFilter, return *)
(* only when no thread is inside the routine any more.  So the driver      *)
(* takes its next step only when every running routine is still callable.  *)
(***************************************************************************)
Returned == \A t \in Threads : running[t] \in Callable \cup {"idle"}

At(call)      == pc = call /\ Returned /\ UNCHANGED running
Succeeds      == UNCHANGED failed
Fails(call)   == call \in Failable /\ failed' = failed \cup {call}

-----------------------------------------------------------------------------
Init ==
  /\ pc = "Absent"
  /\ filter = "none"
  /\ registered = {}
  /\ running = [t \in Threads |-> "idle"]
  /\ failed = {}

(***************************************************************************)
(* The image is mapped and DriverEntry starts.  A system on which a        *)
(* routine of an unmapped image is still registered faults at the next     *)
(* event, so that nothing is modelled after such a removal.                *)
(***************************************************************************)
DriverEntry ==
  /\ At("Absent")
  /\ registered = {}
  /\ pc' = "FltRegisterFilter"
  /\ failed' = {}
  /\ UNCHANGED <<filter, registered>>

(* Slip: the status of FltRegisterFilter is only asserted, not tested.     *)
FltRegisterFilterUnchecked ==
  /\ At("FltRegisterFilter")
  /\ \/ Succeeds /\ filter' = "registered"
     \/ Fails("FltRegisterFilter") /\ UNCHANGED filter
  /\ pc' = "PsSetCreateProcessNotifyRoutineEx"
  /\ UNCHANGED registered

(* Registration with the filter manager; on failure DriverEntry returns.   *)
FltRegisterFilter ==
  /\ At("FltRegisterFilter")
  /\ \/ /\ Succeeds
        /\ filter' = "registered"
        /\ pc' = "PsSetCreateProcessNotifyRoutineEx"
     \/ /\ Fails("FltRegisterFilter")
        /\ pc' = "Return"
        /\ UNCHANGED filter
  /\ UNCHANGED registered

(* Slip: an error of one registration is logged and then ignored.          *)
RegisterIgnoringErrors(call, routine, next) ==
  /\ At(call)
  /\ \/ Succeeds /\ registered' = registered \cup {routine}
     \/ Fails(call) /\ UNCHANGED registered
  /\ pc' = next
  /\ UNCHANGED filter

(***************************************************************************)
(* The steps of ProcMonFltInitialize: on the first error it jumps to Exit  *)
(* and DriverEntry unregisters the filter, but nothing else.               *)
(***************************************************************************)
Register(call, routine, next) ==
  /\ At(call)
  /\ \/ /\ Succeeds
        /\ registered' = registered \cup {routine}
        /\ pc' = next
     \/ /\ Fails(call)
        /\ pc' = "FltUnregisterFilter"
        /\ UNCHANGED registered
  /\ UNCHANGED filter

PsSetCreateProcessNotifyRoutineEx ==
  Register("PsSetCreateProcessNotifyRoutineEx", "process",
           "PsSetCreateThreadNotifyRoutineEx")
PsSetCreateThreadNotifyRoutineEx ==
  Register("PsSetCreateThreadNotifyRoutineEx", "thread",
           "PsSetLoadImageNotifyRoutine")
PsSetLoadImageNotifyRoutine ==
  Register("PsSetLoadImageNotifyRoutine", "image", "CmRegisterCallbackEx")
CreateRegisterCallback ==
  Register("CmRegisterCallbackEx", "registry", "FltStartFiltering")

(* Slip: a failed start only unregisters the filter.                       *)
FltStartFilteringNoUndo ==
  /\ At("FltStartFiltering")
  /\ \/ Succeeds /\ filter' = "filtering" /\ pc' = "Running"
     \/ /\ Fails("FltStartFiltering")
        /\ pc' = "FltUnregisterFilter"
        /\ UNCHANGED filter
  /\ UNCHANGED registered

(* On failure of the last step of DriverEntry everything is taken back.    *)
FltStartFiltering ==
  /\ At("FltStartFiltering")
  /\ \/ /\ Succeeds
        /\ filter' = "filtering"
        /\ pc' = "Running"
     \/ /\ Fails("FltStartFiltering")
        /\ pc' = "CmUnRegisterCallback"
        /\ UNCHANGED filter
  /\ UNCHANGED registered

(* The filter manager asks the driver to unload.                           *)
ProcMonelFilterUnload ==
  /\ At("Running")
  /\ pc' = "CmUnRegisterCallback"
  /\ UNCHANGED <<filter, registered, failed>>

(***************************************************************************)
(* The steps of ProcMonFltUninitialize: it too stops at the first error,   *)
(* and both its callers ignore the status it returns.                      *)
(***************************************************************************)
Remove(call, routine, next) ==
  /\ At(call)
  /\ \/ /\ Succeeds
        /\ registered' = registered \ {routine}
        /\ pc' = next
     \/ /\ Fails(call)
        /\ pc' = "FltUnregisterFilter"
        /\ UNCHANGED registered
  /\ UNCHANGED filter

(* Slip: removal in the order of registration, processes first.            *)
RemoveProcessFirst ==
  Remove("CmUnRegisterCallback", "process", "PsRemoveLoadImageNotifyRoutine")
CmUnRegisterCallback ==
  Remove("CmUnRegisterCallback", "registry", "PsRemoveLoadImageNotifyRoutine")
(* Slip: the thread routine is removed in place of the image routine.      *)
RemoveWrongRoutine ==
  Remove("PsRemoveLoadImageNotifyRoutine", "thread",
         "PsRemoveCreateThreadNotifyRoutine")
PsRemoveLoadImageNotifyRoutine ==
  Remove("PsRemoveLoadImageNotifyRoutine", "image",
         "PsRemoveCreateThreadNotifyRoutine")
PsRemoveCreateThreadNotifyRoutine ==
  Remove("PsRemoveCreateThreadNotifyRoutine", "thread",
         "PsSetCreateProcessNotifyRoutineEx(Remove)")
(* Slip: ProcMonelFilterUnload forgets to unregister the filter.           *)
UnloadKeepsFilter ==
  Remove("PsSetCreateProcessNotifyRoutineEx(Remove)", "process", "Return")
PsRemoveCreateProcessNotifyRoutine ==
  Remove("PsSetCreateProcessNotifyRoutineEx(Remove)", "process",
         "FltUnregisterFilter")

FltUnregisterFilter ==
  /\ At("FltUnregisterFilter")
  /\ filter' = "none"
  /\ pc' = "Return"
  /\ UNCHANGED <<registered, failed>>

(***************************************************************************)
(* DriverEntry returns an error, or Unload returns STATUS_SUCCESS whatever *)
(* happened: the system unmaps the image in both cases.                    *)
(***************************************************************************)
ImageUnmapped ==
  /\ At("Return")
  /\ pc' = "Absent"
  /\ UNCHANGED <<filter, registered, failed>>

(* Any thread calls, and returns from, a routine of the driver.            *)
EnterRoutine(t) ==
  /\ pc # "Absent"
  /\ running[t] = "idle"
  /\ \E r \in Callable : running' = [running EXCEPT ![t] = r]
  /\ UNCHANGED <<pc, filter, registered, failed>>

(* Slip: a routine waits for something that the unload has torn down.      *)
LeaveOnlyWhileServed(t) ==
  /\ pc # "Absent"
  /\ running[t] \in Callable
  /\ running' = [running EXCEPT ![t] = "idle"]
  /\ UNCHANGED <<pc, filter, registered, failed>>

LeaveRoutine(t) ==
  /\ pc # "Absent"
  /\ running[t] # "idle"
  /\ running' = [running EXCEPT ![t] = "idle"]
  /\ UNCHANGED <<pc, filter, registered, failed>>

ProcMonFltInitialize ==
  \/ PsSetCreateProcessNotifyRoutineEx
  \/ PsSetCreateThreadNotifyRoutineEx
  \/ PsSetLoadImageNotifyRoutine
  \/ CreateRegisterCallback

ProcMonFltUninitialize ==
  \/ CmUnRegisterCallback
  \/ PsRemoveLoadImageNotifyRoutine
  \/ PsRemoveCreateThreadNotifyRoutine
  \/ PsRemoveCreateProcessNotifyRoutine

(* What the control thread does once DriverEntry or Unload was called.     *)
Control ==
  \/ FltRegisterFilter
  \/ ProcMonFltInitialize
  \/ FltStartFiltering
  \/ ProcMonFltUninitialize
  \/ FltUnregisterFilter
  \/ ImageUnmapped

Next ==
  \/ DriverEntry
  \/ ProcMonelFilterUnload
  \/ Control
  \/ \E t \in Threads : EnterRoutine(t) \/ LeaveRoutine(t)

(***************************************************************************)
(* The control thread and every thread inside a routine are scheduled: the *)
(* routines are straight-line code.  Nobody has to load or unload the      *)
(* driver, and no event has to happen.                                     *)
(***************************************************************************)
Fairness ==
  /\ WF_vars(Control)
  /\ \A t \in Threads : WF_vars(LeaveRoutine(t))

Spec     == Init /\ [][Next]_vars
FairSpec == Spec /\ Fairness

(* The same fairness with the conditions of its actions in place of        *)
(* ENABLED: the control thread waits for nothing but threads inside a      *)
(* routine that is no longer callable, and these for nothing.              *)
ControlReady ==
  pc \in Calls \cup {"FltUnregisterFilter", "Return"} /\ Returned

Inside(t) == pc # "Absent" /\ running[t] # "idle"

ControlFair    == []<>~ControlReady \/ []<><<Control>>_vars
RoutineFair(t) == []<>~Inside(t) \/ []<><<LeaveRoutine(t)>>_vars

-----------------------------------------------------------------------------
(***************************************************************************)
(* Safety.                                                                 *)
(***************************************************************************)

(* The routines come and go like a stack, on the error paths too: a later  *)
(* kind is never delivered while an earlier kind is not, so that a log     *)
(* with thread or image records always had process records switched on     *)
(* (ProcMonFltInitialize against the reverse order of                      *)
(* ProcMonFltUninitialize).                                                *)
StackDiscipline ==
  /\ "registry" \in registered => "image"   \in registered
  /\ "image"    \in registered => "thread"  \in registered
  /\ "thread"   \in registered => "process" \in registered

(* A loaded driver delivers everything or is on its way out: file          *)
(* operations are never filtered before all four notifications are on, and *)
(* while the driver rests nothing is missing.                              *)
MonitoringIsComplete ==
  /\ pc = "Running" => Callable = Routines
  /\ filter = "filtering" /\ registered # NotifyRoutines
       => pc \in RemoveCalls \cup {"FltUnregisterFilter"}

(* The kernel only gives out the filter handle between a successful        *)
(* FltRegisterFilter and FltUnregisterFilter: every path that uses it      *)
(* (start, unregister, on success and on failure) has it.                  *)
FilterHandleIsValid ==
  pc \in (Calls \ {"FltRegisterFilter"}) \cup {"Running", "FltUnregisterFilter"}
    <=> filter # "none"

(* The calls whose failure leaves routines behind: neither                 *)
(* ProcMonFltInitialize nor ProcMonFltUninitialize undoes what is left     *)
(* when it gives up half-way.  An error of FltRegisterFilter, of the first *)
(* registration or of FltStartFiltering is recovered from.                 *)
Unrecovered ==
  Calls \ {"FltRegisterFilter", "PsSetCreateProcessNotifyRoutineEx",
           "FltStartFiltering"}

(* When the image is unmapped the kernel has forgotten all its routines    *)
(* exactly if none of the unrecovered calls failed during this load.       *)
UnmappedCleanIffRecovered ==
  [][pc' = "Absent" /\ pc # "Absent"
       => (registered = {} <=> failed \cap Unrecovered = {})]_vars

(* No thread executes code of an unmapped image, except inside a routine   *)
(* that such a failure left registered.                                    *)
NoThreadInUnmappedImage ==
  pc = "Absent" =>
    \A t \in Threads : running[t] # "idle" =>
      running[t] \in registered /\ failed \cap Unrecovered # {}

(* Liveness: DriverEntry returns, and an unload is never held up for ever  *)
(* by events that keep coming in.                                          *)
EntryReturns   == pc \in RegisterCalls ~> pc \in {"Running", "Absent"}
UnloadFinishes == pc \in RemoveCalls ~> pc = "Absent"

(* Both, for this module as for the compositions in which the last call of *)
(* the unload waits for more than the routines.                            *)
LoadAndUnloadEnd == EntryReturns /\ UnloadFinishes
=============================================================================
