------------------------ MODULE DriverLifecycleProofs ------------------------
(***************************************************************************)
(* Proofs of the properties of DriverLifecycle, for any set of threads (of *)
(* limited size where progress is concerned) and any set of calls that may *)
(* fail.                                                                   *)
(*                                                                         *)
(* None of the safety properties is inductive: that no thread is in an     *)
(* unmapped image depends on what is still registered then, which depends  *)
(* on the call that failed, which depends on how far the driver had come.  *)
(* IInv adds the missing link: what is registered, what the filter handle  *)
(* is and what can have failed, at every control location.                 *)
(***************************************************************************)
EXTENDS DriverLifecycle, Naturals, TLAPS

(* The routines registered while the driver is about to make a call.       *)
RegisteredAt ==
  /\ pc \in {"FltRegisterFilter", "PsSetCreateProcessNotifyRoutineEx"}
       => registered = {}
  /\ pc \in {"PsSetCreateThreadNotifyRoutineEx",
             "PsSetCreateProcessNotifyRoutineEx(Remove)"}
       => registered = {"process"}
  /\ pc \in {"PsSetLoadImageNotifyRoutine",
             "PsRemoveCreateThreadNotifyRoutine"}
       => registered = {"process", "thread"}
  /\ pc \in {"CmRegisterCallbackEx", "PsRemoveLoadImageNotifyRoutine"}
       => registered = {"process", "thread", "image"}
  /\ pc \in {"FltStartFiltering", "Running", "CmUnRegisterCallback"}
       => registered = NotifyRoutines

(* The filter handle at every control location.                            *)
FilterAt ==
  /\ pc \in {"Absent", "FltRegisterFilter", "Return"} <=> filter = "none"
  /\ pc \in RegisterCalls \ {"FltRegisterFilter"} => filter = "registered"
  /\ pc = "Running" => filter = "filtering"

(* A call that failed is on the way out, and which one it was tells        *)
(* whether something is left registered.                                   *)
FailedAt ==
  /\ pc \in RegisterCalls \cup {"Running"} => failed = {}
  /\ pc \in RemoveCalls => failed \subseteq {"FltStartFiltering"}
  /\ pc \in {"FltUnregisterFilter", "Return", "Absent"}
       => (registered = {} <=> failed \cap Unrecovered = {})

(* Once the image is gone, threads are only inside what is registered.     *)
RunningAt ==
  pc = "Absent" => \A t \in Threads : running[t] \in registered \cup {"idle"}

IInv ==
  /\ TypeOK
  /\ RegisteredAt
  /\ FilterAt
  /\ FailedAt
  /\ StackDiscipline
  /\ RunningAt

-----------------------------------------------------------------------------
(* The invariant holds when the driver was never loaded.                   *)
LEMMA InitIInv == Init => IInv
BY DEF Init, IInv, TypeOK, RegisteredAt, FilterAt, FailedAt, StackDiscipline,
       RunningAt, Calls, RegisterCalls, RemoveCalls, NotifyRoutines, Routines

(* DriverEntry, from its first statement to the start of filtering, keeps  *)
(* the invariant whichever call fails.                                     *)
LEMMA EntryKeepsIInv ==
  ASSUME IInv,
         DriverEntry \/ FltRegisterFilter \/ ProcMonFltInitialize
           \/ FltStartFiltering
  PROVE  IInv'
<1>. USE DEF IInv, TypeOK, RegisteredAt, FilterAt, FailedAt, StackDiscipline,
             RunningAt, Calls, RegisterCalls, RemoveCalls, NotifyRoutines,
             At, Succeeds, Fails, Register, Unrecovered
<1>1. CASE DriverEntry
  BY <1>1 DEF DriverEntry
<1>2. CASE FltRegisterFilter
  BY <1>2 DEF FltRegisterFilter
<1>3. CASE PsSetCreateProcessNotifyRoutineEx
  BY <1>3 DEF PsSetCreateProcessNotifyRoutineEx
<1>4. CASE PsSetCreateThreadNotifyRoutineEx
  BY <1>4 DEF PsSetCreateThreadNotifyRoutineEx
<1>5. CASE PsSetLoadImageNotifyRoutine
  BY <1>5 DEF PsSetLoadImageNotifyRoutine
<1>6. CASE CreateRegisterCallback
  BY <1>6 DEF CreateRegisterCallback
<1>7. CASE FltStartFiltering
  BY <1>7 DEF FltStartFiltering
<1>. QED
  BY <1>1, <1>2, <1>3, <1>4, <1>5, <1>6, <1>7 DEF ProcMonFltInitialize

(* So does the way out, of an unload and of a failed DriverEntry alike.    *)
LEMMA UnloadKeepsIInv ==
  ASSUME IInv,
         ProcMonelFilterUnload \/ ProcMonFltUninitialize
           \/ FltUnregisterFilter
  PROVE  IInv'
<1>. USE DEF IInv, TypeOK, RegisteredAt, FilterAt, FailedAt, StackDiscipline,
             RunningAt, Calls, RegisterCalls, RemoveCalls, NotifyRoutines,
             At, Succeeds, Fails, Remove, Unrecovered
<1>1. CASE ProcMonelFilterUnload
  BY <1>1 DEF ProcMonelFilterUnload
<1>2. CASE CmUnRegisterCallback
  BY <1>2 DEF CmUnRegisterCallback
<1>3. CASE PsRemoveLoadImageNotifyRoutine
  BY <1>3 DEF PsRemoveLoadImageNotifyRoutine
<1>4. CASE PsRemoveCreateThreadNotifyRoutine
  BY <1>4 DEF PsRemoveCreateThreadNotifyRoutine
<1>5. CASE PsRemoveCreateProcessNotifyRoutine
  BY <1>5 DEF PsRemoveCreateProcessNotifyRoutine
<1>6. CASE FltUnregisterFilter
  BY <1>6 DEF FltUnregisterFilter
<1>. QED
  BY <1>1, <1>2, <1>3, <1>4, <1>5, <1>6 DEF ProcMonFltUninitialize

(* Unmapping happens only when no thread is left in a removed routine.     *)
LEMMA UnmapKeepsIInv ==
  ASSUME IInv, ImageUnmapped
  PROVE  IInv'
<1>1. Callable = registered
  BY DEF ImageUnmapped, At, IInv, FilterAt, Callable
<1>2. \A t \in Threads : running[t] \in registered \cup {"idle"}
  BY <1>1 DEF ImageUnmapped, At, Returned
<1>3. TypeOK' /\ RegisteredAt' /\ FilterAt' /\ FailedAt' /\ StackDiscipline'
  BY DEF ImageUnmapped, At, IInv, TypeOK, RegisteredAt, FilterAt, FailedAt,
         StackDiscipline, Calls, RegisterCalls, RemoveCalls
<1>4. RunningAt'
  BY <1>2 DEF ImageUnmapped, At, RunningAt
<1>. QED
  BY <1>3, <1>4 DEF IInv

(* The calls of the kernel into the driver disturb neither of its lists.   *)
LEMMA RoutinesKeepIInv ==
  ASSUME IInv, NEW t \in Threads, EnterRoutine(t) \/ LeaveRoutine(t)
  PROVE  IInv'
<1>1. Callable \subseteq Routines
  BY DEF Callable, Routines, NotifyRoutines, IInv, TypeOK
<1>2. running' \in [Threads -> Routines \cup {"idle"}]
  BY <1>1 DEF IInv, TypeOK, EnterRoutine, LeaveRoutine
<1>3. pc # "Absent" /\ UNCHANGED <<pc, filter, registered, failed>>
  BY DEF EnterRoutine, LeaveRoutine
<1>. QED
  BY <1>2, <1>3 DEF IInv, TypeOK, RegisteredAt, FilterAt, FailedAt,
                    StackDiscipline, RunningAt

(* Every step of the system keeps the invariant.                           *)
LEMMA NextKeepsIInv == IInv /\ [Next]_vars => IInv'
<1>. SUFFICES ASSUME IInv, [Next]_vars PROVE IInv'
  OBVIOUS
<1>1. CASE Next
  <2>1. CASE Control
    BY <2>1, EntryKeepsIInv, UnloadKeepsIInv, UnmapKeepsIInv DEF Control
  <2>2. CASE DriverEntry \/ ProcMonelFilterUnload
    BY <2>2, EntryKeepsIInv, UnloadKeepsIInv
  <2>3. CASE \E t \in Threads : EnterRoutine(t) \/ LeaveRoutine(t)
    BY <2>3, RoutinesKeepIInv
  <2>. QED
    BY <1>1, <2>1, <2>2, <2>3 DEF Next
<1>2. CASE UNCHANGED vars
  BY <1>2 DEF vars, IInv, TypeOK, RegisteredAt, FilterAt, FailedAt,
              StackDiscipline, RunningAt
<1>. QED
  BY <1>1, <1>2

(* IInv is an invariant of the driver.                                     *)
THEOREM Invariance == Spec => []IInv
BY InitIInv, NextKeepsIInv, PTL DEF Spec

-----------------------------------------------------------------------------
(* The driver is always at one of its kernel calls, and a thread is only   *)
(* ever inside a routine that the driver has.                              *)
THEOREM TypeCorrect == Spec => []TypeOK
<1>1. IInv => TypeOK
  BY DEF IInv
<1>. QED
  BY <1>1, Invariance, PTL

(* Thread, image and registry events are never delivered without the kinds *)
(* registered before them, on no path of load and unload.                  *)
THEOREM StackDisciplined == Spec => []StackDiscipline
<1>1. IInv => StackDiscipline
  BY DEF IInv
<1>. QED
  BY <1>1, Invariance, PTL

(* A loaded driver monitors everything it has routines for, and file       *)
(* operations are not filtered while a notification is still missing.      *)
THEOREM MonitoringComplete == Spec => []MonitoringIsComplete
<1>1. IInv => MonitoringIsComplete
  BY DEF IInv, TypeOK, RegisteredAt, FilterAt, MonitoringIsComplete, Callable,
         Routines, NotifyRoutines, Calls, RegisterCalls, RemoveCalls
<1>. QED
  BY <1>1, Invariance, PTL

(* Every path that starts or unregisters the filter has a filter handle.   *)
THEOREM FilterHandleValid == Spec => []FilterHandleIsValid
<1>1. IInv => FilterHandleIsValid
  BY DEF IInv, TypeOK, FilterAt, FilterHandleIsValid, Calls, RegisterCalls,
         RemoveCalls
<1>. QED
  BY <1>1, Invariance, PTL

(* No thread executes an unmapped image unless a call failed half-way      *)
(* through the registrations or the removals.                              *)
THEOREM UnmappedImageIsEmpty == Spec => []NoThreadInUnmappedImage
<1>1. IInv => NoThreadInUnmappedImage
  BY DEF IInv, FailedAt, RunningAt, NoThreadInUnmappedImage
<1>. QED
  BY <1>1, Invariance, PTL

(* The unmapped image leaves nothing behind in the kernel, exactly if all  *)
(* failures of this load were ones the driver recovers from.               *)
THEOREM UnmappedClean == Spec => UnmappedCleanIffRecovered
<1>1. ASSUME IInv, [Next]_vars
      PROVE  [pc' = "Absent" /\ pc # "Absent"
                => (registered = {} <=> failed \cap Unrecovered = {})]_vars
  <2>. SUFFICES ASSUME Next, pc' = "Absent", pc # "Absent"
                PROVE  registered = {} <=> failed \cap Unrecovered = {}
    BY <1>1
  <2>1. pc = "Return"
    BY <1>1 DEF Next, DriverEntry, ProcMonelFilterUnload, Control,
       FltRegisterFilter, ProcMonFltInitialize, FltStartFiltering,
       ProcMonFltUninitialize, FltUnregisterFilter, ImageUnmapped, At,
       PsSetCreateProcessNotifyRoutineEx, PsSetCreateThreadNotifyRoutineEx,
       PsSetLoadImageNotifyRoutine, CreateRegisterCallback, Register,
       CmUnRegisterCallback, PsRemoveLoadImageNotifyRoutine,
       PsRemoveCreateThreadNotifyRoutine, PsRemoveCreateProcessNotifyRoutine,
       Remove, EnterRoutine, LeaveRoutine
  <2>. QED
    BY <1>1, <2>1 DEF IInv, FailedAt
<1>. QED
  BY <1>1, Invariance, PTL DEF Spec, UnmappedCleanIffRecovered
-----------------------------------------------------------------------------
(***************************************************************************)
(* Progress.  The provers have no rule for ENABLED, so that these theorems *)
(* assume ControlFair and RoutineFair, which have the conditions of the    *)
(* fair actions spelt out; ControlReadyIsEnabled, at the end, says that    *)
(* the first is the enabling condition of the control thread, and the      *)
(* second is the guard of LeaveRoutine.                                    *)
(***************************************************************************)
Busy == Calls \cup {"FltUnregisterFilter", "Return"}

(* Where the control thread can be after a call, success or failure.       *)
After(call) ==
  CASE call = "FltRegisterFilter" ->
         {"PsSetCreateProcessNotifyRoutineEx", "Return"}
    [] call = "PsSetCreateProcessNotifyRoutineEx" ->
         {"PsSetCreateThreadNotifyRoutineEx", "FltUnregisterFilter"}
    [] call = "PsSetCreateThreadNotifyRoutineEx" ->
         {"PsSetLoadImageNotifyRoutine", "FltUnregisterFilter"}
    [] call = "PsSetLoadImageNotifyRoutine" ->
         {"CmRegisterCallbackEx", "FltUnregisterFilter"}
    [] call = "CmRegisterCallbackEx" ->
         {"FltStartFiltering", "FltUnregisterFilter"}
    [] call = "FltStartFiltering" ->
         {"Running", "CmUnRegisterCallback"}
    [] call = "CmUnRegisterCallback" ->
         {"PsRemoveLoadImageNotifyRoutine", "FltUnregisterFilter"}
    [] call = "PsRemoveLoadImageNotifyRoutine" ->
         {"PsRemoveCreateThreadNotifyRoutine", "FltUnregisterFilter"}
    [] call = "PsRemoveCreateThreadNotifyRoutine" ->
         {"PsSetCreateProcessNotifyRoutineEx(Remove)", "FltUnregisterFilter"}
    [] call = "PsSetCreateProcessNotifyRoutineEx(Remove)" ->
         {"FltUnregisterFilter"}
    [] call = "FltUnregisterFilter" -> {"Return"}
    [] call = "Return"              -> {"Absent"}

(* The threads of a set are in no routine that was removed.                *)
Clear(S) == \A t \in S : running[t] \in Callable \cup {"idle"}

(* While a call waits the list of routines stays as it is: threads that    *)
(* are clear stay so, and any other one is clear with its next step.       *)
LEMMA CallWaits ==
  ASSUME NEW call \in Busy, pc = call, [Next]_vars
  PROVE  \/ Control /\ pc' \in After(call) \ {call}
         \/ /\ pc' = call
            /\ ~Control
            /\ Callable' = Callable
            /\ \/ UNCHANGED vars
               \/ \E t \in Threads : EnterRoutine(t) \/ LeaveRoutine(t)
<1>. USE DEF Busy, Calls, RegisterCalls, RemoveCalls, At
<1>1. CASE DriverEntry \/ ProcMonelFilterUnload
  BY <1>1 DEF DriverEntry, ProcMonelFilterUnload
<1>2. CASE Control
  BY <1>2 DEF Control, FltRegisterFilter, ProcMonFltInitialize,
     FltStartFiltering, ProcMonFltUninitialize, FltUnregisterFilter,
     ImageUnmapped, PsSetCreateProcessNotifyRoutineEx,
     PsSetCreateThreadNotifyRoutineEx, PsSetLoadImageNotifyRoutine,
     CreateRegisterCallback, Register, CmUnRegisterCallback,
     PsRemoveLoadImageNotifyRoutine, PsRemoveCreateThreadNotifyRoutine,
     PsRemoveCreateProcessNotifyRoutine, Remove, After
<1>3. CASE \/ UNCHANGED vars
           \/ \E t \in Threads : EnterRoutine(t) \/ LeaveRoutine(t)
  BY <1>2, <1>3 DEF vars, EnterRoutine, LeaveRoutine, Callable
<1>. QED
  BY <1>1, <1>2, <1>3 DEF Next

AllFair == ControlFair /\ \A t \in Threads : RoutineFair(t)

Drains(call, S) ==
  Spec /\ AllFair => (pc = call ~> ~(pc = call) \/ (pc = call /\ Clear(S)))

(* Threads that are clear stay clear.                                      *)
LEMMA ClearStaysClear ==
  ASSUME NEW call \in Busy, pc = call, [Next]_vars, IInv,
         NEW S \in SUBSET Threads, Clear(S)
  PROVE  (~(pc = call) \/ (pc = call /\ Clear(S)))'
<1>1. CASE pc' # call
  BY <1>1
<1>2. CASE UNCHANGED vars
  BY <1>2 DEF vars, Clear, Callable
<1>3. ASSUME Callable' = Callable, pc' = call,
             NEW t \in Threads, EnterRoutine(t) \/ LeaveRoutine(t)
      PROVE  Clear(S)'
  BY <1>3 DEF EnterRoutine, LeaveRoutine, Clear, IInv, TypeOK
<1>4. pc' # call \/ UNCHANGED vars
      \/ /\ Callable' = Callable
         /\ \E t \in Threads : EnterRoutine(t) \/ LeaveRoutine(t)
  BY CallWaits
<1>. QED
  BY <1>1, <1>2, <1>3, <1>4

(* One thread leaves a removed routine and does not come back to it.       *)
LEMMA OneDrains ==
  ASSUME NEW call \in Busy, NEW t \in Threads
  PROVE  Drains(call, {t})
<1>. call # "Absent"
  BY DEF Busy, Calls, RegisterCalls, RemoveCalls
<1>1. ASSUME IInv, pc = call, ~Clear({t}), [Next]_vars
      PROVE  (pc = call)' \/ (~(pc = call) \/ (pc = call /\ Clear({t})))'
  OBVIOUS
<1>2. ASSUME IInv, pc = call, ~Clear({t}), <<LeaveRoutine(t)>>_vars
      PROVE  (~(pc = call) \/ (pc = call /\ Clear({t})))'
  BY <1>2 DEF LeaveRoutine, Clear, IInv, TypeOK
<1>3. pc = call /\ ~Clear({t}) => Inside(t)
  BY DEF Clear, Inside
<1>4. AllFair => RoutineFair(t)
  BY DEF AllFair
<1>. QED
  BY <1>1, <1>2, <1>3, <1>4, Invariance, PTL DEF Spec, RoutineFair, Drains

(* Two sets of threads drain together: the induction over the threads.     *)
LEMMA TwoDrain ==
  ASSUME NEW call \in Busy,
         NEW S \in SUBSET Threads, NEW T \in SUBSET Threads
  PROVE  Drains(call, S) /\ Drains(call, T) => Drains(call, S \cup T)
<1>1. IInv /\ pc = call /\ Clear(S) /\ [Next]_vars
        => (~(pc = call) \/ (pc = call /\ Clear(S)))'
  BY ClearStaysClear
<1>2. IInv /\ pc = call /\ Clear(T) /\ [Next]_vars
        => (~(pc = call) \/ (pc = call /\ Clear(T)))'
  BY ClearStaysClear
<1>3. Clear(S) /\ Clear(T) => Clear(S \cup T)
  BY DEF Clear
<1>. QED
  BY <1>1, <1>2, <1>3, Invariance, PTL DEF Spec, Drains

(* Any n threads drain; so do twice as many.                               *)
ManyDrain(call, n) ==
  \A f : (\A k \in 1 .. n : f[k] \in Threads)
           => Drains(call, {f[k] : k \in 1 .. n})

LEMMA TwiceAsManyDrain ==
  ASSUME NEW call \in Busy, NEW n \in Nat, NEW m \in Nat, m = n + n,
         ManyDrain(call, n)
  PROVE  ManyDrain(call, m)
<1>. SUFFICES ASSUME NEW f, \A k \in 1 .. m : f[k] \in Threads
              PROVE  Drains(call, {f[k] : k \in 1 .. m})
  BY DEF ManyDrain
<1>. DEFINE g == [k \in 1 .. n |-> f[n + k]]
            S == {f[k] : k \in 1 .. n}
            T == {g[k] : k \in 1 .. n}
<1>1. \A k \in 1 .. n : f[k] \in Threads /\ g[k] \in Threads
  OBVIOUS
<1>2. {f[k] : k \in 1 .. m} = S \cup T
  <2>1. S \cup T \subseteq {f[k] : k \in 1 .. m}
    OBVIOUS
  <2>2. ASSUME NEW k \in 1 .. m
        PROVE  f[k] \in S \cup T
    <3>1. CASE k <= n
      BY <3>1
    <3>2. CASE k > n
      <4>1. k - n \in 1 .. n /\ f[k] = g[k - n]
        BY <3>2
      <4>. QED
        BY <4>1
    <3>. QED
      BY <3>1, <3>2
  <2>. QED
    BY <2>1, <2>2
<1>3. Drains(call, S) /\ Drains(call, T)
  BY <1>1 DEF ManyDrain
<1>4. S \in SUBSET Threads /\ T \in SUBSET Threads
  BY <1>1
<1>. HIDE DEF S, T
<1>. QED
  BY <1>2, <1>3, <1>4, TwoDrain

(* Threads is a set of at most MaxThreads, a number that one more line of  *)
(* the proof doubles.                                                      *)
MaxThreads == 65536

FewThreads == \E f : Threads = {f[k] : k \in 1 .. MaxThreads}

LEMMA ThreadsDrain ==
  ASSUME NEW call \in Busy, FewThreads
  PROVE  Drains(call, Threads)
<1>1. PICK f : Threads = {f[k] : k \in 1 .. MaxThreads}
  BY DEF FewThreads
<1>. DEFINE D(n) == ManyDrain(call, n)
<1>2. D(1)
  <2>. SUFFICES ASSUME NEW g, \A k \in 1 .. 1 : g[k] \in Threads
                PROVE  Drains(call, {g[k] : k \in 1 .. 1})
    BY DEF ManyDrain
  <2>1. {g[k] : k \in 1 .. 1} = {g[1]}
    OBVIOUS
  <2>. QED
    BY <2>1, OneDrains
<1>3. \A n \in Nat, m \in Nat : m = n + n /\ D(n) => D(m)
  BY TwiceAsManyDrain
<1>. HIDE DEF D
<1>4. D(2)       BY <1>2, <1>3, SMT
<1>5. D(4)       BY <1>4, <1>3, SMT
<1>6. D(8)       BY <1>5, <1>3, SMT
<1>7. D(16)      BY <1>6, <1>3, SMT
<1>8. D(32)      BY <1>7, <1>3, SMT
<1>9. D(64)      BY <1>8, <1>3, SMT
<1>10. D(128)    BY <1>9, <1>3, SMT
<1>11. D(256)    BY <1>10, <1>3, SMT
<1>12. D(512)    BY <1>11, <1>3, SMT
<1>13. D(1024)   BY <1>12, <1>3, SMT
<1>14. D(2048)   BY <1>13, <1>3, SMT
<1>15. D(4096)   BY <1>14, <1>3, SMT
<1>16. D(8192)   BY <1>15, <1>3, SMT
<1>17. D(16384)  BY <1>16, <1>3, SMT
<1>18. D(32768)  BY <1>17, <1>3, SMT
<1>19. D(65536)  BY <1>18, <1>3, SMT
<1>20. D(MaxThreads)
  BY <1>19, SMT DEF MaxThreads
<1>21. \A k \in 1 .. MaxThreads : f[k] \in Threads
  BY <1>1
<1>. QED
  BY <1>1, <1>20, <1>21 DEF D, ManyDrain

(* Every kernel call of the driver returns and the driver goes on.         *)
Past(call) == pc \in After(call)

Returns(call) == Spec /\ AllFair => (pc = call ~> Past(call))

LEMMA CallReturns ==
  ASSUME NEW call \in Busy
  PROVE  Drains(call, Threads) => Returns(call)
<1>1. IInv /\ pc = call /\ Clear(Threads) /\ [Next]_vars
        => (~(pc = call) \/ (pc = call /\ Clear(Threads)))'
  BY ClearStaysClear
<1>2. pc = call /\ [Next]_vars => (pc = call)' \/ Past(call)'
  BY CallWaits DEF Past
<1>3. pc = call /\ <<Control>>_vars /\ [Next]_vars => Past(call)'
  BY CallWaits DEF Past
<1>4. pc = call /\ Clear(Threads) => ControlReady
  BY DEF Busy, Clear, ControlReady, Returned
<1>. QED
  BY <1>1, <1>2, <1>3, <1>4, Invariance, PTL
     DEF Spec, AllFair, ControlFair, Drains, Returns

(* The way out, whichever call fails on it.                                *)
LEMMA WayOut ==
  ASSUME FewThreads
  PROVE  Spec /\ AllFair
           => (pc \in RemoveCalls \cup {"FltUnregisterFilter", "Return"}
                 ~> pc = "Absent")
<1>1. \A call \in Busy : Returns(call)
  BY CallReturns, ThreadsDrain
<1>2. /\ Returns("CmUnRegisterCallback")
      /\ Returns("PsRemoveLoadImageNotifyRoutine")
      /\ Returns("PsRemoveCreateThreadNotifyRoutine")
      /\ Returns("PsSetCreateProcessNotifyRoutineEx(Remove)")
      /\ Returns("FltUnregisterFilter")
      /\ Returns("Return")
  BY <1>1 DEF Busy, Calls, RemoveCalls
<1>3. pc \in RemoveCalls \cup {"FltUnregisterFilter", "Return"}
      <=> \/ pc = "CmUnRegisterCallback"
          \/ pc = "PsRemoveLoadImageNotifyRoutine"
          \/ pc = "PsRemoveCreateThreadNotifyRoutine"
          \/ pc = "PsSetCreateProcessNotifyRoutineEx(Remove)"
          \/ pc = "FltUnregisterFilter"
          \/ pc = "Return"
  BY DEF RemoveCalls
<1>4. /\ Past("CmUnRegisterCallback")
           => \/ pc = "PsRemoveLoadImageNotifyRoutine"
              \/ pc = "FltUnregisterFilter"
      /\ Past("PsRemoveLoadImageNotifyRoutine")
           => \/ pc = "PsRemoveCreateThreadNotifyRoutine"
              \/ pc = "FltUnregisterFilter"
      /\ Past("PsRemoveCreateThreadNotifyRoutine")
           => \/ pc = "PsSetCreateProcessNotifyRoutineEx(Remove)"
              \/ pc = "FltUnregisterFilter"
      /\ Past("PsSetCreateProcessNotifyRoutineEx(Remove)")
           => pc = "FltUnregisterFilter"
      /\ Past("FltUnregisterFilter") => pc = "Return"
      /\ Past("Return") => pc = "Absent"
  BY DEF Past, After
<1>. QED
  BY <1>2, <1>3, <1>4, PTL DEF Returns

(* An unload is never held up: whichever removal fails, and however many   *)
(* events come in meanwhile, the image is unmapped.                        *)
THEOREM UnloadEnds ==
  ASSUME FewThreads
  PROVE  Spec /\ AllFair => UnloadFinishes
<1>1. pc \in RemoveCalls
        => pc \in RemoveCalls \cup {"FltUnregisterFilter", "Return"}
  OBVIOUS
<1>. QED
  BY <1>1, WayOut, PTL DEF UnloadFinishes

(* DriverEntry returns: with a driver that runs, or after the way out.     *)
THEOREM EntryEnds ==
  ASSUME FewThreads
  PROVE  Spec /\ AllFair => EntryReturns
<1>1. \A call \in Busy : Returns(call)
  BY CallReturns, ThreadsDrain
<1>2. /\ Returns("FltRegisterFilter")
      /\ Returns("PsSetCreateProcessNotifyRoutineEx")
      /\ Returns("PsSetCreateThreadNotifyRoutineEx")
      /\ Returns("PsSetLoadImageNotifyRoutine")
      /\ Returns("CmRegisterCallbackEx")
      /\ Returns("FltStartFiltering")
  BY <1>1 DEF Busy, Calls, RegisterCalls
<1>. DEFINE Out == pc \in RemoveCalls \cup {"FltUnregisterFilter", "Return"}
<1>3. pc \in RegisterCalls
      <=> \/ pc = "FltRegisterFilter"
          \/ pc = "PsSetCreateProcessNotifyRoutineEx"
          \/ pc = "PsSetCreateThreadNotifyRoutineEx"
          \/ pc = "PsSetLoadImageNotifyRoutine"
          \/ pc = "CmRegisterCallbackEx"
          \/ pc = "FltStartFiltering"
  BY DEF RegisterCalls
<1>4. /\ Past("FltRegisterFilter")
           => pc = "PsSetCreateProcessNotifyRoutineEx" \/ Out
      /\ Past("PsSetCreateProcessNotifyRoutineEx")
           => pc = "PsSetCreateThreadNotifyRoutineEx" \/ Out
      /\ Past("PsSetCreateThreadNotifyRoutineEx")
           => pc = "PsSetLoadImageNotifyRoutine" \/ Out
      /\ Past("PsSetLoadImageNotifyRoutine")
           => pc = "CmRegisterCallbackEx" \/ Out
      /\ Past("CmRegisterCallbackEx") => pc = "FltStartFiltering" \/ Out
      /\ Past("FltStartFiltering") => pc = "Running" \/ Out
  BY DEF Past, After, RemoveCalls
<1>5. pc = "Running" \/ pc = "Absent" => pc \in {"Running", "Absent"}
  OBVIOUS
<1>. QED
  BY <1>2, <1>3, <1>4, <1>5, WayOut, PTL DEF Returns, EntryReturns

(* The control thread gets to the end of whatever it was called for.       *)
THEOREM ControlEnds ==
  ASSUME FewThreads
  PROVE  Spec /\ AllFair => LoadAndUnloadEnd
BY UnloadEnds, EntryEnds, PTL DEF LoadAndUnloadEnd

(* That the conditions of the fair actions are when they can be taken,     *)
(* with the next state of a step in place of ENABLED: the control thread   *)
(* has none but when it is ready, and when it is it can go on as if its    *)
(* call succeeds, to the one next state that GoesOn spells out.            *)
GoesOn ==
  /\ pc' =
       CASE pc = "FltRegisterFilter" -> "PsSetCreateProcessNotifyRoutineEx"
         [] pc = "PsSetCreateProcessNotifyRoutineEx" ->
              "PsSetCreateThreadNotifyRoutineEx"
         [] pc = "PsSetCreateThreadNotifyRoutineEx" ->
              "PsSetLoadImageNotifyRoutine"
         [] pc = "PsSetLoadImageNotifyRoutine" -> "CmRegisterCallbackEx"
         [] pc = "CmRegisterCallbackEx" -> "FltStartFiltering"
         [] pc = "FltStartFiltering" -> "Running"
         [] pc = "CmUnRegisterCallback" -> "PsRemoveLoadImageNotifyRoutine"
         [] pc = "PsRemoveLoadImageNotifyRoutine" ->
              "PsRemoveCreateThreadNotifyRoutine"
         [] pc = "PsRemoveCreateThreadNotifyRoutine" ->
              "PsSetCreateProcessNotifyRoutineEx(Remove)"
         [] pc = "PsSetCreateProcessNotifyRoutineEx(Remove)" ->
              "FltUnregisterFilter"
         [] pc = "FltUnregisterFilter" -> "Return"
         [] OTHER -> "Absent"
  /\ filter' =
       CASE pc = "FltRegisterFilter"   -> "registered"
         [] pc = "FltStartFiltering"   -> "filtering"
         [] pc = "FltUnregisterFilter" -> "none"
         [] OTHER                      -> filter
  /\ registered' =
       CASE pc = "PsSetCreateProcessNotifyRoutineEx" ->
              registered \cup {"process"}
         [] pc = "PsSetCreateThreadNotifyRoutineEx" ->
              registered \cup {"thread"}
         [] pc = "PsSetLoadImageNotifyRoutine" -> registered \cup {"image"}
         [] pc = "CmRegisterCallbackEx" -> registered \cup {"registry"}
         [] pc = "CmUnRegisterCallback" -> registered \ {"registry"}
         [] pc = "PsRemoveLoadImageNotifyRoutine" -> registered \ {"image"}
         [] pc = "PsRemoveCreateThreadNotifyRoutine" ->
              registered \ {"thread"}
         [] pc = "PsSetCreateProcessNotifyRoutineEx(Remove)" ->
              registered \ {"process"}
         [] OTHER -> registered
  /\ UNCHANGED <<running, failed>>

(* The control thread can go on exactly when ControlReady says so,         *)
(* whatever failed before.                                                 *)
THEOREM ControlReadyIsEnabled ==
  /\ Control => ControlReady
  /\ ControlReady /\ GoesOn => <<Control>>_vars
<1>. USE DEF At, Succeeds, ControlReady, Calls, RegisterCalls, RemoveCalls
<1>1. Control => ControlReady
  BY DEF Control, FltRegisterFilter, ProcMonFltInitialize,
     FltStartFiltering, ProcMonFltUninitialize, FltUnregisterFilter,
     ImageUnmapped, PsSetCreateProcessNotifyRoutineEx,
     PsSetCreateThreadNotifyRoutineEx, PsSetLoadImageNotifyRoutine,
     CreateRegisterCallback, Register, CmUnRegisterCallback,
     PsRemoveLoadImageNotifyRoutine, PsRemoveCreateThreadNotifyRoutine,
     PsRemoveCreateProcessNotifyRoutine, Remove
<1>2. ASSUME ControlReady, GoesOn
      PROVE  pc' # pc
  BY <1>2 DEF GoesOn
<1>3. ASSUME ControlReady, GoesOn
      PROVE  Control
  <2>. USE <1>3 DEF GoesOn
  <2>1. CASE pc = "FltRegisterFilter"
    BY <2>1 DEF FltRegisterFilter, Control
  <2>2. CASE pc \in RegisterCalls \ {"FltRegisterFilter", "FltStartFiltering"}
    BY <2>2 DEF ProcMonFltInitialize, PsSetCreateProcessNotifyRoutineEx,
       PsSetCreateThreadNotifyRoutineEx, PsSetLoadImageNotifyRoutine,
       CreateRegisterCallback, Register, Control
  <2>3. CASE pc = "FltStartFiltering"
    BY <2>3 DEF FltStartFiltering, Control
  <2>4. CASE pc \in RemoveCalls
    BY <2>4 DEF ProcMonFltUninitialize, CmUnRegisterCallback,
       PsRemoveLoadImageNotifyRoutine, PsRemoveCreateThreadNotifyRoutine,
       PsRemoveCreateProcessNotifyRoutine, Remove, Control
  <2>5. CASE pc \in {"FltUnregisterFilter", "Return"}
    BY <2>5 DEF FltUnregisterFilter, ImageUnmapped, Control
  <2>. QED
    BY <2>1, <2>2, <2>3, <2>4, <2>5
<1>. QED
  BY <1>1, <1>2, <1>3 DEF vars
=============================================================================
