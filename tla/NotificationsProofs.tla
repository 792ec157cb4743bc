-------------------------- MODULE NotificationsProofs --------------------------
(***************************************************************************)
(* Proofs of the properties of Notifications, for any processes and        *)
(* threads, any number of loads and unloads, and any kernel calls failing. *)
(*                                                                         *)
(* The argument is in four layers, each an invariant that uses the ones    *)
(* before it: a routine runs for the event of its thread, so that the      *)
(* composed system implements DriverLifecycle and has its properties; the  *)
(* kernel's events follow the life of a process (Causality); a process     *)
(* that the driver watches, or prints about, is introduced (Introduced);   *)
(* and a process whose end is printed has nothing left to say (Closed).    *)
(***************************************************************************)
EXTENDS Notifications, DriverLifecycleProofs

Creates(t, p) ==
  /\ event[t] # None
  /\ event[t].routine = "process"
  /\ event[t].what = "create"
  /\ event[t].process = p

Exits(t, p) ==
  /\ event[t] # None
  /\ event[t].routine = "process"
  /\ event[t].what = "exit"
  /\ event[t].process = p

(* A thread is inside a routine only for its event, and it is the event's. *)
EventMatches ==
  \A t \in Threads :
    running[t] # "idle" => event[t] # None /\ running[t] = event[t].routine

EventInv == NTypeOK /\ EventMatches

-----------------------------------------------------------------------------
(* What the fields of an event are.                                        *)
LEMMA EventFields ==
  ASSUME NEW e \in Events
  PROVE  /\ e # None
         /\ e.routine \in {"process", "thread", "image"}
         /\ e.routine \in {"process", "thread"} =>
              e.process \in Processes /\ e.what \in {"create", "exit"}
         /\ e.routine = "image" => e.process \in Processes \cup {None}
BY NoneAssumption DEF Events

(* Every routine prints lines about the process of its event.              *)
LEMMA PrintedIsLines ==
  ASSUME EventInv, NEW t \in Threads, running[t] # "idle",
         NEW l \in Printed(t)
  PROVE  /\ l \in Lines
         /\ l.process = event[t].process
         /\ running[t] = "process" =>
              l = Line(IF event[t].what = "create" THEN "Process Created"
                       ELSE "Process Terminated", event[t].process, None)
         /\ l.operation = "Process Terminated" => Exits(t, l.process)
<1>1. event[t] # None /\ event[t] \in Events /\ running[t] = event[t].routine
  BY DEF EventInv, NTypeOK, EventMatches
<1>2. /\ running[t] \in {"process", "thread", "image"}
      /\ running[t] # "image" => event[t].process \in Processes
                               /\ event[t].what \in {"create", "exit"}
      /\ running[t] = "image" => event[t].process \in Processes \cup {None}
  BY <1>1, EventFields
<1>3. CASE running[t] = "process"
  <2>1. Printed(t) = CreateProcessNotifyRoutine(event[t])
    BY <1>3 DEF Printed
  <2>2. l = Line(IF event[t].what = "create" THEN "Process Created"
                 ELSE "Process Terminated", event[t].process, None)
    BY <2>1 DEF CreateProcessNotifyRoutine
  <2>3. CASE event[t].what = "create"
    <3>1. l = Line("Process Created", event[t].process, None)
      BY <2>2, <2>3
    <3>2. /\ l.process = event[t].process /\ l \in Lines
          /\ l.operation = "Process Created"
      BY <1>2, <1>3, <3>1 DEF Line, Lines
    <3>. QED
      BY <2>2, <3>2
  <2>4. CASE event[t].what = "exit"
    <3>1. l = Line("Process Terminated", event[t].process, None)
      BY <2>2, <2>4
    <3>2. l.process = event[t].process /\ l \in Lines
      BY <1>2, <1>3, <3>1 DEF Line, Lines
    <3>. QED
      BY <1>1, <1>3, <2>2, <2>4, <3>2 DEF Exits
  <2>. QED
    BY <1>2, <1>3, <2>3, <2>4
<1>4. CASE running[t] = "thread"
  <2>1. Printed(t) = CreateThreadNotifyRoutine(event[t], t)
    BY <1>4 DEF Printed
  <2>2. l = Line(IF event[t].what = "create" THEN "Thread Created"
                 ELSE "Thread Terminated", event[t].process, t)
    BY <2>1 DEF CreateThreadNotifyRoutine
  <2>3. CASE event[t].what = "create"
    <3>1. l = Line("Thread Created", event[t].process, t)
      BY <2>2, <2>3
    <3>. QED
      BY <1>2, <1>4, <3>1 DEF Line, Lines
  <2>4. CASE event[t].what = "exit"
    <3>1. l = Line("Thread Terminated", event[t].process, t)
      BY <2>2, <2>4
    <3>. QED
      BY <1>2, <1>4, <3>1 DEF Line, Lines
  <2>. QED
    BY <1>2, <1>4, <2>3, <2>4
<1>5. CASE running[t] = "image"
  <2>1. Printed(t) = LoadImageNotifyRoutine(event[t])
    BY <1>5 DEF Printed
  <2>2. l = Line("Image Loaded", event[t].process, None)
        /\ event[t].process # None
    BY <2>1 DEF LoadImageNotifyRoutine
  <2>3. event[t].process \in Processes
    BY <1>2, <1>5, <2>2
  <2>. QED
    BY <1>5, <2>2, <2>3 DEF Line, Lines
<1>. QED
  BY <1>2, <1>3, <1>4, <1>5

(* What the process routine prints.                                        *)
LEMMA ProcessIsPrinted ==
  ASSUME NEW t \in Threads, running[t] = "process"
  PROVE  Line(IF event[t].what = "create" THEN "Process Created"
              ELSE "Process Terminated", event[t].process, None) \in Printed(t)
<1>1. Printed(t) = CreateProcessNotifyRoutine(event[t])
  BY DEF Printed
<1>. QED
  BY <1>1 DEF CreateProcessNotifyRoutine

-----------------------------------------------------------------------------
(* The events of the kernel start in one of these ways.                    *)
Start(t) ==
  \/ StartThread(t) \/ LoadImage(t) \/ ExitThread(t) \/ ExitProcess(t)
  \/ \E p \in Processes : CreateProcess(t, p)

(* An event that starts is one of the kernel's, and calls its routine if   *)
(* that is registered.                                                     *)
LEMMA StartIsEvent ==
  ASSUME NTypeOK, NEW t \in Threads, Start(t)
  PROVE  /\ \E e \in Events : Happens(t, e)
         /\ UNCHANGED life \/ life' = [life EXCEPT ![t] = "exiting"]
         /\ \/ UNCHANGED proc
            \/ \E p \in Processes : proc' = [proc EXCEPT ![p] = "creating"]
<1>1. Owner[t] \in Processes
  BY NotificationsAssumption
<1>2. CASE StartThread(t)
  BY <1>1, <1>2 DEF StartThread, Events, kernel
<1>3. CASE LoadImage(t)
  BY <1>1, <1>3 DEF LoadImage, Events, kernel
<1>4. CASE ExitThread(t)
  BY <1>1, <1>4 DEF ExitThread, Events
<1>5. CASE ExitProcess(t)
  BY <1>1, <1>5 DEF ExitProcess, Events, kernel
<1>6. ASSUME NEW p \in Processes, CreateProcess(t, p)
      PROVE  /\ \E e \in Events : Happens(t, e)
             /\ UNCHANGED life
             /\ proc' = [proc EXCEPT ![p] = "creating"]
  BY <1>6 DEF CreateProcess, Events
<1>. QED
  BY <1>2, <1>3, <1>4, <1>5, <1>6 DEF Start

(* The five kinds of step of the composed system.                          *)
LEMMA NNextSplits ==
  ASSUME NNext
  PROVE  \/ Driver
         \/ \E t \in Threads :
              \/ Notify(t) \/ Start(t) \/ Done(t)
              \/ \E u \in Threads : CreateThread(t, u)
BY DEF NNext, Kernel, Start

(* Every step of the composed system is one of the driver, or none.        *)
LEMMA StepIsDriverStep ==
  ASSUME EventInv, NNext
  PROVE  [Next]_vars
<1>1. CASE Driver
  BY <1>1 DEF Driver, Next
<1>2. ASSUME NEW t \in Threads, Notify(t)
      PROVE  [Next]_vars
  BY <1>2 DEF Notify, Next
<1>3. ASSUME NEW t \in Threads, Start(t)
      PROVE  [Next]_vars
  <2>1. PICK e \in Events : Happens(t, e)
    BY <1>3, StartIsEvent DEF EventInv
  <2>2. running[t] = "idle"
    BY <2>1 DEF Happens, EventInv, EventMatches
  <2>3. CASE e.routine \in registered
    <3>1. EnterRoutine(t)
      BY <2>1, <2>2, <2>3 DEF Happens, EnterRoutine, Callable
    <3>. QED
      BY <3>1 DEF Next
  <2>4. CASE e.routine \notin registered
    BY <2>1, <2>4 DEF Happens, vars
  <2>. QED
    BY <2>3, <2>4
<1>4. ASSUME NEW t \in Threads, Done(t)
      PROVE  [Next]_vars
  BY <1>4 DEF Done
<1>5. ASSUME NEW t \in Threads, NEW u \in Threads, CreateThread(t, u)
      PROVE  [Next]_vars
  BY <1>5 DEF CreateThread
<1>. QED
  BY <1>1, <1>2, <1>3, <1>4, <1>5, NNextSplits

-----------------------------------------------------------------------------
(* Each kind of step keeps the types and the match of events.              *)
LEMMA DriverKeepsEventInv ==
  ASSUME EventInv, TypeOK', Driver
  PROVE  EventInv'
<1>1. UNCHANGED running
  BY DEF Driver, DriverEntry, ProcMonelFilterUnload, Control,
     FltRegisterFilter, ProcMonFltInitialize, FltStartFiltering,
     ProcMonFltUninitialize, FltUnregisterFilter, ImageUnmapped, At,
     PsSetCreateProcessNotifyRoutineEx, PsSetCreateThreadNotifyRoutineEx,
     PsSetLoadImageNotifyRoutine, CreateRegisterCallback, Register,
     CmUnRegisterCallback, PsRemoveLoadImageNotifyRoutine,
     PsRemoveCreateThreadNotifyRoutine, PsRemoveCreateProcessNotifyRoutine,
     Remove
<1>. QED
  BY <1>1 DEF Driver, EventInv, NTypeOK, EventMatches, kernel

LEMMA NotifyKeepsEventInv ==
  ASSUME EventInv, TypeOK', NEW t \in Threads, Notify(t)
  PROVE  EventInv'
<1>1. Printed(t) \subseteq Lines
  BY PrintedIsLines DEF Notify, LeaveRoutine
<1>2. running' = [running EXCEPT ![t] = "idle"]
  BY DEF Notify, LeaveRoutine
<1>. QED
  BY <1>1, <1>2 DEF Notify, EventInv, NTypeOK, EventMatches, kernel, TypeOK

LEMMA StartKeepsEventInv ==
  ASSUME EventInv, TypeOK', NEW t \in Threads, Start(t)
  PROVE  EventInv'
<1>1. PICK e \in Events : Happens(t, e)
  BY StartIsEvent DEF EventInv
<1>2. /\ event' \in [Threads -> Events \cup {None}]
      /\ event' = [event EXCEPT ![t] = e] /\ UNCHANGED <<lines, old>>
  BY <1>1 DEF Happens, EventInv, NTypeOK
<1>3. /\ life' \in [Threads -> {"none", "starting", "alive", "exiting", "gone"}]
      /\ proc' \in [Processes -> {"none", "creating", "running", "gone"}]
  BY StartIsEvent DEF EventInv, NTypeOK
<1>4. EventMatches'
  BY <1>1, <1>2, EventFields DEF Happens, EventInv, NTypeOK, EventMatches,
     TypeOK
<1>. QED
  BY <1>2, <1>3, <1>4 DEF EventInv, NTypeOK

LEMMA DoneKeepsEventInv ==
  ASSUME EventInv, TypeOK', NEW t \in Threads, Done(t)
  PROVE  EventInv'
<1>1. event[t] \in Events
  BY DEF Done, EventInv, NTypeOK
<1>2. Effect(t, event[t])
  BY DEF Done
<1>3. /\ proc' \in [Processes -> {"none", "creating", "running", "gone"}]
      /\ life' \in [Threads -> {"none", "starting", "alive", "exiting", "gone"}]
  BY <1>1, <1>2, EventFields DEF Effect, EventInv, NTypeOK, kernel
<1>. QED
  BY <1>3 DEF Done, EventInv, NTypeOK, EventMatches, vars

LEMMA CreateThreadKeepsEventInv ==
  ASSUME EventInv, TypeOK', NEW t \in Threads, NEW u \in Threads,
         CreateThread(t, u)
  PROVE  EventInv'
BY DEF CreateThread, EventInv, NTypeOK, EventMatches, vars

LEMMA NextKeepsEventInv ==
  ASSUME EventInv, TypeOK', NNext
  PROVE  EventInv'
BY NNextSplits, DriverKeepsEventInv, NotifyKeepsEventInv, StartKeepsEventInv,
   DoneKeepsEventInv, CreateThreadKeepsEventInv

LEMMA InitEventInv == NInit => EventInv /\ IInv
<1>. SUFFICES ASSUME NInit PROVE EventInv /\ IInv
  OBVIOUS
<1>1. IInv
  BY InitIInv DEF NInit
<1>2. NTypeOK
  BY <1>1, NotificationsAssumption DEF IInv, NInit, NTypeOK
<1>3. EventMatches
  BY DEF NInit, Init, EventMatches
<1>. QED
  BY <1>1, <1>2, <1>3 DEF EventInv

(* The driver is that of DriverLifecycle, and events match.                *)
LEMMA NextKeepsBoth ==
  EventInv /\ IInv /\ [NNext]_nvars => (EventInv /\ IInv)'
<1>. SUFFICES ASSUME EventInv, IInv, [NNext]_nvars PROVE (EventInv /\ IInv)'
  OBVIOUS
<1>1. CASE NNext
  <2>1. IInv'
    BY <1>1, StepIsDriverStep, NextKeepsIInv
  <2>. QED
    BY <1>1, <2>1, NextKeepsEventInv DEF IInv
<1>2. CASE UNCHANGED nvars
  BY <1>2, NextKeepsIInv DEF nvars, vars, EventInv, NTypeOK, TypeOK,
     EventMatches
<1>. QED
  BY <1>1, <1>2

LEMMA EventInvariance == NSpec => [](EventInv /\ IInv)
BY InitEventInv, NextKeepsBoth, PTL DEF NSpec

-----------------------------------------------------------------------------
(* Threads, events and lines are what they are meant to be: no routine     *)
(* prints a line about process 0.                                          *)
THEOREM NTypeCorrect == NSpec => []NTypeOK
<1>1. EventInv => NTypeOK
  BY DEF EventInv
<1>. QED
  BY <1>1, EventInvariance, PTL

(* The composed system implements the driver: an event that calls a        *)
(* routine is EnterRoutine, its return LeaveRoutine.  So every property    *)
(* of DriverLifecycle's Spec is one of the composition.                    *)
THEOREM ImplementsLifecycle == NSpec => Spec
<1>1. NInit => Init
  BY DEF NInit
<1>2. EventInv /\ [NNext]_nvars => [Next]_vars
  BY StepIsDriverStep DEF nvars
<1>. QED
  BY <1>1, <1>2, EventInvariance, PTL DEF NSpec, Spec

-----------------------------------------------------------------------------
(***************************************************************************)
(* The kernel's side: what happens to the threads of a process happens     *)
(* between its creation and its exit, and both of these happen once.       *)
(***************************************************************************)
LivesInRunning ==
  \A t \in Threads :
    life[t] \in {"starting", "alive", "exiting"} => proc[Owner[t]] = "running"

CreatesOnce ==
  \A p \in Processes, t \in Threads :
    Creates(t, p) =>
      /\ proc[p] = "creating"
      /\ \A u \in Threads : Creates(u, p) => u = t

ExitsLast ==
  \A p \in Processes, t \in Threads :
    Exits(t, p) =>
      /\ p = Owner[t]
      /\ proc[p] = "running"
      /\ \A u \in Threads : Owner[u] = p =>
           life[u] \in {"none", "gone"} /\ (u = t \/ event[u] = None)

ThreadFits ==
  \A t \in Threads :
    event[t] # None /\ event[t].routine = "thread" =>
      event[t].process = Owner[t] /\ life[t] \in {"starting", "exiting"}

ImageFits ==
  \A t \in Threads :
    event[t] # None /\ event[t].routine = "image" =>
      event[t].process \in {Owner[t], None} /\ life[t] = "alive"

Causality ==
  /\ LivesInRunning
  /\ CreatesOnce
  /\ ExitsLast
  /\ ThreadFits
  /\ ImageFits

(* An event that starts is added to those under way.                       *)
LEMMA HappensAdds ==
  ASSUME EventInv, NEW t \in Threads, NEW e, Happens(t, e)
  PROVE  /\ event[t] = None
         /\ event'[t] = e
         /\ \A u \in Threads : u # t => event'[u] = event[u]
BY DEF Happens, EventInv, NTypeOK

LEMMA StartKeepsCausality ==
  ASSUME EventInv, Causality, NEW t \in Threads, Start(t)
  PROVE  Causality'
<1>. USE DEF Causality, LivesInRunning, CreatesOnce, ExitsLast, ThreadFits,
             ImageFits, Creates, Exits
<1>0. /\ \A u \in Threads : Owner[u] \in Processes
      /\ proc \in [Processes -> {"none", "creating", "running", "gone"}]
      /\ life \in [Threads -> {"none", "starting", "alive", "exiting", "gone"}]
  BY NotificationsAssumption DEF EventInv, NTypeOK
<1>1. CASE StartThread(t)
  BY <1>0, <1>1, HappensAdds DEF StartThread, kernel
<1>2. CASE LoadImage(t)
  BY <1>0, <1>2, HappensAdds DEF LoadImage, kernel
<1>3. CASE ExitThread(t)
  BY <1>0, <1>3, HappensAdds DEF ExitThread
<1>4. CASE ExitProcess(t)
  BY <1>0, <1>4, HappensAdds DEF ExitProcess, kernel
<1>5. ASSUME NEW p \in Processes, CreateProcess(t, p)
      PROVE  Causality'
  BY <1>0, <1>5, HappensAdds DEF CreateProcess
<1>. QED
  BY <1>1, <1>2, <1>3, <1>4, <1>5 DEF Start

(* What an event does when it is done, by its kind.                        *)
LEMMA EffectByKind ==
  ASSUME EventInv, NEW t \in Threads, Done(t)
  PROVE  \/ \E p \in Processes :
              /\ Creates(t, p)
              /\ \/ proc' = [proc EXCEPT ![p] = "gone"] /\ UNCHANGED life
                 \/ /\ proc' = [proc EXCEPT ![p] = "running"]
                    /\ \E u \in Threads :
                         /\ Owner[u] = p
                         /\ life' = [life EXCEPT ![u] = "starting"]
         \/ \E p \in Processes :
              /\ Exits(t, p)
              /\ proc' = [proc EXCEPT ![p] = "gone"] /\ UNCHANGED life
         \/ /\ event[t].routine = "thread"
            /\ \E to \in {"alive", "gone"} : life' = [life EXCEPT ![t] = to]
            /\ UNCHANGED proc
         \/ event[t].routine = "image" /\ UNCHANGED kernel
<1>1. event[t] # None /\ event[t] \in Events /\ Effect(t, event[t])
  BY DEF Done, EventInv, NTypeOK
<1>2. /\ event[t].routine \in {"process", "thread", "image"}
      /\ event[t].routine = "process" =>
           /\ event[t].process \in Processes
           /\ event[t].what \in {"create", "exit"}
  BY <1>1, EventFields
<1>3. CASE event[t].routine = "process" /\ event[t].what = "create"
  <2>1. IF event[t].info = "refused"
        THEN proc' = [proc EXCEPT ![event[t].process] = "gone"]
             /\ UNCHANGED life
        ELSE /\ proc' = [proc EXCEPT ![event[t].process] = "running"]
             /\ \E u \in Threads :
                  /\ Owner[u] = event[t].process
                  /\ life' = [life EXCEPT ![u] = "starting"]
    BY <1>1, <1>3 DEF Effect
  <2>. QED
    BY <1>1, <1>2, <1>3, <2>1 DEF Creates
<1>4. CASE event[t].routine = "process" /\ event[t].what = "exit"
  <2>1. proc' = [proc EXCEPT ![event[t].process] = "gone"] /\ UNCHANGED life
    BY <1>1, <1>4 DEF Effect
  <2>. QED
    BY <1>1, <1>2, <1>4, <2>1 DEF Exits
<1>5. CASE event[t].routine = "thread"
  <2>1. /\ life' = [life EXCEPT ![t] =
              IF event[t].what = "create" THEN "alive" ELSE "gone"]
        /\ UNCHANGED proc
    BY <1>1, <1>5 DEF Effect
  <2>. QED
    BY <1>5, <2>1
<1>6. CASE event[t].routine = "image"
  BY <1>1, <1>6 DEF Effect
<1>. QED
  BY <1>2, <1>3, <1>4, <1>5, <1>6

(* An event that is done is taken from those under way.                    *)
LEMMA DoneRemoves ==
  ASSUME EventInv, NEW t \in Threads, Done(t)
  PROVE  /\ event[t] # None
         /\ event'[t] = None
         /\ \A u \in Threads : u # t => event'[u] = event[u]
         /\ running[t] = "idle"
<1>1. /\ event \in [Threads -> Events \cup {None}]
      /\ event' = [event EXCEPT ![t] = None]
      /\ event[t] # None
      /\ running[t] = "idle"
  BY DEF EventInv, NTypeOK, Done
<1>. QED
  BY <1>1

LEMMA DoneKeepsCausality ==
  ASSUME EventInv, Causality, NEW t \in Threads, Done(t)
  PROVE  Causality'
<1>. USE DEF Causality, LivesInRunning, CreatesOnce, ExitsLast, ThreadFits,
             ImageFits, Creates, Exits
<1>0. /\ \A u \in Threads : Owner[u] \in Processes
      /\ proc \in [Processes -> {"none", "creating", "running", "gone"}]
      /\ life \in [Threads -> {"none", "starting", "alive", "exiting", "gone"}]
  BY NotificationsAssumption DEF EventInv, NTypeOK
<1>e. /\ event[t] # None
      /\ event'[t] = None
      /\ \A u \in Threads : u # t => event'[u] = event[u]
  BY DoneRemoves
<1>1. ASSUME NEW p \in Processes, Creates(t, p),
             proc' = [proc EXCEPT ![p] = "gone"], UNCHANGED life
      PROVE  Causality'
  BY <1>0, <1>e, <1>1
<1>2. ASSUME NEW p \in Processes, Creates(t, p),
             proc' = [proc EXCEPT ![p] = "running"],
             NEW u \in Threads, Owner[u] = p,
             life' = [life EXCEPT ![u] = "starting"]
      PROVE  Causality'
  BY <1>0, <1>e, <1>2
<1>3. ASSUME NEW p \in Processes, Exits(t, p),
             proc' = [proc EXCEPT ![p] = "gone"], UNCHANGED life
      PROVE  Causality'
  BY <1>0, <1>e, <1>3
<1>4. ASSUME event[t].routine = "thread", NEW to \in {"alive", "gone"},
             life' = [life EXCEPT ![t] = to], UNCHANGED proc
      PROVE  Causality'
  BY <1>0, <1>e, <1>4
<1>5. CASE event[t].routine = "image" /\ UNCHANGED kernel
  BY <1>0, <1>e, <1>5 DEF kernel
<1>. QED
  BY <1>1, <1>2, <1>3, <1>4, <1>5, EffectByKind

LEMMA CreateThreadKeepsCausality ==
  ASSUME EventInv, Causality, NEW t \in Threads, NEW u \in Threads,
         CreateThread(t, u)
  PROVE  Causality'
<1>1. /\ UNCHANGED <<proc, event>>
      /\ life[t] = "alive" /\ life[u] = "none" /\ Owner[u] = Owner[t]
      /\ life'[u] = "starting"
      /\ \A v \in Threads : v # u => life'[v] = life[v]
  BY DEF CreateThread, EventInv, NTypeOK
<1>2. LivesInRunning' /\ ThreadFits' /\ ImageFits'
  BY <1>1 DEF Causality, LivesInRunning, ThreadFits, ImageFits
<1>3. CreatesOnce'
  BY <1>1 DEF Causality, CreatesOnce, Creates
<1>4. ExitsLast'
  BY <1>1 DEF Causality, ExitsLast, Exits
<1>. QED
  BY <1>2, <1>3, <1>4 DEF Causality

LEMMA NextKeepsCausality ==
  EventInv /\ Causality /\ [NNext]_nvars => Causality'
<1>. SUFFICES ASSUME EventInv, Causality, [NNext]_nvars PROVE Causality'
  OBVIOUS
<1>1. CASE Driver \/ (\E t \in Threads : Notify(t)) \/ UNCHANGED nvars
  BY <1>1 DEF Driver, Notify, kernel, nvars, Causality, LivesInRunning,
     CreatesOnce, ExitsLast, ThreadFits, ImageFits, Creates, Exits
<1>. QED
  BY <1>1, NNextSplits, StartKeepsCausality, DoneKeepsCausality,
     CreateThreadKeepsCausality

LEMMA InitCausality == NInit => Causality
BY NotificationsAssumption DEF NInit, Causality, LivesInRunning, CreatesOnce,
   ExitsLast, ThreadFits, ImageFits, Creates, Exits

(* The composition's invariant so far.                                     *)
Base == EventInv /\ IInv /\ Causality

LEMMA BaseInvariance == NSpec => []Base
<1>1. EventInv /\ Causality /\ [NNext]_nvars => Causality'
  BY NextKeepsCausality
<1>. QED
  BY <1>1, EventInvariance, InitCausality, PTL DEF NSpec, Base

-----------------------------------------------------------------------------
(***************************************************************************)
(* The log's side: processes are introduced.                               *)
(***************************************************************************)
Created(p) == Line("Process Created", p, None)

(* While the driver watches processes, every one that is there is old, or  *)
(* its creation is printed or being printed.                               *)
Watched ==
  "process" \in registered =>
    \A p \in Processes \ old :
      /\ proc[p] \in {"running", "gone"} => Created(p) \in lines
      /\ \A t \in Threads :
           Creates(t, p) => Created(p) \in lines \/ running[t] = "process"

(* So is every process that a routine is about to print a line about, if   *)
(* the line is not its creation.                                           *)
BeingPrinted ==
  \A p \in Processes \ old, t \in Threads :
    running[t] # "idle" /\ event[t].process = p /\ ~Creates(t, p) =>
      Created(p) \in lines

Printed0 == \A l \in lines : l.process \in old \/ Created(l.process) \in lines

Introduced == Watched /\ BeingPrinted /\ Printed0

(* The processes that the driver does not know when it begins to watch     *)
(* are old.                                                                *)
LEMMA DriverKeepsIntroduced ==
  ASSUME Base, Introduced, Driver
  PROVE  Introduced'
<1>1. UNCHANGED <<running, proc, event, lines>>
  BY DEF Driver, kernel, DriverEntry, ProcMonelFilterUnload, Control,
     FltRegisterFilter, ProcMonFltInitialize, FltStartFiltering,
     ProcMonFltUninitialize, FltUnregisterFilter, ImageUnmapped, At,
     PsSetCreateProcessNotifyRoutineEx, PsSetCreateThreadNotifyRoutineEx,
     PsSetLoadImageNotifyRoutine, CreateRegisterCallback, Register,
     CmUnRegisterCallback, PsRemoveLoadImageNotifyRoutine,
     PsRemoveCreateThreadNotifyRoutine, PsRemoveCreateProcessNotifyRoutine,
     Remove
<1>2. /\ old \subseteq old'
      /\ "process" \in registered' /\ "process" \notin registered =>
           old' = old \cup {p \in Processes : proc[p] # "none"}
  BY DEF Driver
<1>3. Watched'
  <2>1. CASE "process" \in registered
    BY <1>1, <1>2, <2>1 DEF Introduced, Watched, Creates, Created
  <2>2. CASE "process" \notin registered /\ "process" \in registered'
    BY <1>1, <1>2, <2>2
       DEF Base, Causality, CreatesOnce, Watched, Creates, Created
  <2>. QED
    BY <2>1, <2>2 DEF Watched
<1>4. BeingPrinted' /\ Printed0'
  BY <1>1, <1>2
     DEF Introduced, BeingPrinted, Printed0, Creates, Created
<1>. QED
  BY <1>3, <1>4 DEF Introduced

LEMMA NotifyKeepsIntroduced ==
  ASSUME Base, Introduced, NEW t \in Threads, Notify(t)
  PROVE  Introduced'
<1>1. /\ UNCHANGED <<registered, proc, event, old>>
      /\ lines' = lines \cup Printed(t)
      /\ event[t] # None
      /\ running[t] # "idle"
      /\ running'[t] = "idle"
      /\ \A u \in Threads : u # t => running'[u] = running[u]
      /\ running[t] = event[t].routine
  BY DEF Notify, kernel, LeaveRoutine, Base, EventInv, NTypeOK, TypeOK,
         EventMatches
<1>2. ASSUME NEW p \in Processes, Creates(t, p)
      PROVE  Created(p) \in lines'
  BY <1>1, <1>2, ProcessIsPrinted DEF Creates, Created
<1>3. Watched'
  BY <1>1, <1>2 DEF Introduced, Watched, Creates, Created
<1>4. BeingPrinted'
  BY <1>1 DEF Introduced, BeingPrinted, Creates, Created
<1>5. Printed0'
  <2>. SUFFICES ASSUME NEW l \in Printed(t), l.process \notin old
                PROVE  Created(l.process) \in lines'
    BY <1>1 DEF Introduced, Printed0, Created
  <2>1. l \in Lines /\ l.process = event[t].process
    BY <1>1, PrintedIsLines DEF Base
  <2>2. l.process \in Processes
    BY <2>1 DEF Lines
  <2>3. CASE Creates(t, l.process)
    BY <1>2, <2>2, <2>3
  <2>4. CASE ~Creates(t, l.process)
    BY <1>1, <2>1, <2>2, <2>4 DEF Introduced, BeingPrinted, Created
  <2>. QED
    BY <2>3, <2>4
<1>. QED
  BY <1>3, <1>4, <1>5 DEF Introduced

(* Whatever happens in a process happens when it runs; the thread and      *)
(* image routines are only called while processes are watched.             *)
LEMMA StartKeepsIntroduced ==
  ASSUME Base, Introduced, NEW t \in Threads, Start(t)
  PROVE  Introduced'
<1>1. PICK e \in Events :
        /\ Happens(t, e)
        /\ e.process = None \/ proc[e.process] = "running"
           \/ (e.routine = "process" /\ e.what = "create")
        /\ \/ UNCHANGED proc
           \/ \E p \in Processes : proc' = [proc EXCEPT ![p] = "creating"]
  <2>0. Owner[t] \in Processes
    BY NotificationsAssumption
  <2>1. CASE StartThread(t)
    BY <2>0, <2>1
       DEF StartThread, Events, kernel, Base, Causality, LivesInRunning
  <2>2. CASE LoadImage(t)
    BY <2>0, <2>2
       DEF LoadImage, Events, kernel, Base, Causality, LivesInRunning
  <2>3. CASE ExitThread(t)
    BY <2>0, <2>3 DEF ExitThread, Events, Base, Causality, LivesInRunning
  <2>4. CASE ExitProcess(t)
    BY <2>0, <2>4 DEF ExitProcess, Events, kernel
  <2>5. ASSUME NEW p \in Processes, CreateProcess(t, p)
        PROVE  \E e \in Events :
                 /\ Happens(t, e)
                 /\ e.routine = "process" /\ e.what = "create"
                 /\ proc' = [proc EXCEPT ![p] = "creating"]
    BY <2>5 DEF CreateProcess, Events
  <2>. QED
    BY <2>1, <2>2, <2>3, <2>4, <2>5 DEF Start
<1>2. /\ event[t] = None /\ event'[t] = e
      /\ \A u \in Threads : u # t => event'[u] = event[u]
      /\ UNCHANGED <<registered, lines, old>>
  BY <1>1, HappensAdds DEF Base, Happens
<1>3. /\ running[t] = "idle"
      /\ \A u \in Threads : u # t => running'[u] = running[u]
      /\ IF e.routine \in registered THEN running'[t] = e.routine
         ELSE running'[t] = "idle"
  BY <1>1, <1>2 DEF Happens, Base, EventInv, NTypeOK, TypeOK, EventMatches
<1>4. \A p \in Processes : proc'[p] \in {"running", "gone"} => proc'[p] = proc[p]
  BY <1>1 DEF Base, EventInv, NTypeOK
<1>5. Watched'
  <2>. SUFFICES ASSUME "process" \in registered, NEW p \in Processes \ old
                PROVE  /\ proc'[p] \in {"running", "gone"} => Created(p) \in lines
                       /\ \A u \in Threads :
                            Creates(u, p)' =>
                              Created(p) \in lines \/ running'[u] = "process"
    BY <1>2 DEF Watched, Created
  <2>1. proc'[p] \in {"running", "gone"} => Created(p) \in lines
    BY <1>4 DEF Introduced, Watched
  <2>2. ASSUME NEW u \in Threads, u # t, Creates(u, p)'
        PROVE  Created(p) \in lines \/ running'[u] = "process"
    BY <1>2, <1>3, <2>2 DEF Introduced, Watched, Creates
  <2>3. ASSUME Creates(t, p)'
        PROVE  running'[t] = "process"
    BY <1>2, <1>3, <2>3 DEF Creates
  <2>. QED
    BY <2>1, <2>2, <2>3
<1>6. e.routine \in registered => "process" \in registered
  BY <1>1, EventFields DEF Base, IInv, StackDiscipline
<1>7. BeingPrinted'
  <2>. SUFFICES ASSUME NEW p \in Processes \ old', NEW u \in Threads,
                       running'[u] # "idle", event'[u].process = p,
                       ~Creates(u, p)'
                PROVE  Created(p) \in lines
    BY <1>2 DEF BeingPrinted, Created
  <2>1. CASE u # t
    BY <1>2, <1>3, <2>1 DEF Introduced, BeingPrinted, Creates
  <2>2. CASE u = t
    <3>1. "process" \in registered
      BY <1>3, <1>6, <2>2
    <3>2. proc[p] = "running"
      BY <1>1, <1>2, <2>2, NotificationsAssumption, EventFields DEF Creates
    <3>. QED
      BY <1>2, <3>1, <3>2 DEF Introduced, Watched
  <2>. QED
    BY <2>1, <2>2
<1>8. Printed0'
  BY <1>2 DEF Introduced, Printed0, Created
<1>. QED
  BY <1>5, <1>7, <1>8 DEF Introduced

LEMMA DoneKeepsIntroduced ==
  ASSUME Base, Introduced, NEW t \in Threads, Done(t)
  PROVE  Introduced'
<1>1. /\ UNCHANGED <<registered, running, lines, old>>
      /\ running[t] = "idle"
      /\ event[t] # None
      /\ event'[t] = None
      /\ \A u \in Threads : u # t => event'[u] = event[u]
  BY DoneRemoves DEF Done, vars, Base
<1>2. \A p \in Processes :
        proc'[p] \in {"running", "gone"} =>
          proc[p] \in {"running", "gone"} \/ Creates(t, p)
  BY EffectByKind DEF Base, EventInv, NTypeOK, Causality, ExitsLast, kernel
<1>3. Watched'
  <2>. SUFFICES ASSUME "process" \in registered, NEW p \in Processes \ old
                PROVE  /\ proc'[p] \in {"running", "gone"} => Created(p) \in lines
                       /\ \A u \in Threads :
                            Creates(u, p)' =>
                              Created(p) \in lines \/ running[u] = "process"
    BY <1>1 DEF Watched, Created
  <2>1. /\ proc[p] \in {"running", "gone"} => Created(p) \in lines
        /\ \A u \in Threads :
             Creates(u, p) => Created(p) \in lines \/ running[u] = "process"
    BY DEF Introduced, Watched
  <2>2. proc'[p] \in {"running", "gone"} => Created(p) \in lines
    BY <1>1, <1>2, <2>1
  <2>3. ASSUME NEW u \in Threads, Creates(u, p)'
        PROVE  Creates(u, p)
    BY <1>1, <2>3 DEF Creates
  <2>. QED
    BY <2>1, <2>2, <2>3
<1>4. BeingPrinted' /\ Printed0'
  BY <1>1 DEF Introduced, BeingPrinted, Printed0, Creates, Created
<1>. QED
  BY <1>3, <1>4 DEF Introduced

LEMMA NextKeepsIntroduced ==
  Base /\ Introduced /\ [NNext]_nvars => Introduced'
<1>. SUFFICES ASSUME Base, Introduced, [NNext]_nvars PROVE Introduced'
  OBVIOUS
<1>1. ASSUME NEW t \in Threads, NEW u \in Threads, CreateThread(t, u)
      PROVE  Introduced'
  BY <1>1 DEF CreateThread, vars, Introduced, Watched, BeingPrinted, Printed0,
     Creates, Created
<1>2. CASE UNCHANGED nvars
  BY <1>2 DEF nvars, vars, Introduced, Watched, BeingPrinted, Printed0,
     Creates, Created
<1>. QED
  BY <1>1, <1>2, NNextSplits, DriverKeepsIntroduced, NotifyKeepsIntroduced,
     StartKeepsIntroduced, DoneKeepsIntroduced

LEMMA InitIntroduced == NInit => Introduced
BY DEF NInit, Init, Introduced, Watched, BeingPrinted, Printed0

LEMMA IntroducedAlways == NSpec => []Introduced
<1>1. Base /\ Introduced /\ [NNext]_nvars => Introduced'
  BY NextKeepsIntroduced
<1>. QED
  BY <1>1, BaseInvariance, InitIntroduced, PTL DEF NSpec

(* Every process in the log was created in it, or is old: however load and *)
(* unload, with any errors, fall between the events.                       *)
THEOREM ContextKnown == NSpec => []ContextIsKnown
<1>1. Introduced => ContextIsKnown
  <2>. SUFFICES ASSUME Introduced, NEW p \in Processes \ old,
                       NEW l \in lines, l.process = p
                PROVE  "Process Created" \in Operations(p)
    BY DEF ContextIsKnown, Operations
  <2>1. Created(p) \in lines
    BY DEF Introduced, Printed0
  <2>2. Created(p).process = p /\ Created(p).operation = "Process Created"
    BY DEF Created, Line
  <2>. QED
    BY <2>1, <2>2 DEF Operations
<1>. QED
  BY <1>1, IntroducedAlways, PTL

-----------------------------------------------------------------------------
(***************************************************************************)
(* The other end of the log: a process whose termination is printed.       *)
(***************************************************************************)
Terminated(p) ==
  \E l \in lines : l.process = p /\ l.operation = "Process Terminated"

(* It is gone, or its exit is all that is left of it.                      *)
Closed ==
  \A p \in Processes :
    Terminated(p) =>
      \/ proc[p] = "gone"
      \/ \E t \in Threads : Exits(t, p) /\ running[t] = "idle"

(* No routine that still runs has anything to print about it.              *)
LEMMA NothingLeftToPrint ==
  ASSUME Base, Closed, NEW p \in Processes, Terminated(p),
         NEW t \in Threads, running[t] # "idle", event[t].process = p
  PROVE  FALSE
<1>1. event[t] \in Events /\ event[t] # None
  BY DEF Base, EventInv, NTypeOK, EventMatches
<1>2. /\ event[t].routine \in {"process", "thread", "image"}
      /\ event[t].routine = "process" => event[t].what \in {"create", "exit"}
  BY <1>1, EventFields
<1>3. proc[p] \in {"creating", "running"}
  BY <1>1, <1>2, NotificationsAssumption
     DEF Base, Causality, LivesInRunning, CreatesOnce, ExitsLast, ThreadFits,
         ImageFits, Creates, Exits
<1>4. PICK u \in Threads : Exits(u, p) /\ running[u] = "idle"
  BY <1>3 DEF Closed
<1>5. /\ proc[p] = "running"
      /\ u # t
      /\ Owner[t] = p => life[t] \in {"none", "gone"} /\ event[t] = None
  BY <1>4 DEF Base, Causality, ExitsLast
<1>6. Owner[t] # p
  BY <1>1, <1>5
<1>7. ~Creates(t, p)
  BY <1>5 DEF Base, Causality, CreatesOnce
<1>8. ~Exits(t, p)
  BY <1>6 DEF Base, Causality, ExitsLast
<1>. QED
  BY <1>1, <1>2, <1>6, <1>7, <1>8, NotificationsAssumption
     DEF Base, Causality, ThreadFits, ImageFits, Creates, Exits

LEMMA NotifyKeepsClosed ==
  ASSUME Base, Closed, NEW t \in Threads, Notify(t)
  PROVE  Closed'
<1>1. /\ UNCHANGED <<proc, event>>
      /\ lines' = lines \cup Printed(t)
      /\ running[t] # "idle"
      /\ running'[t] = "idle"
      /\ \A u \in Threads : u # t => running'[u] = running[u]
  BY DEF Notify, kernel, LeaveRoutine, Base, EventInv, NTypeOK, TypeOK
<1>. SUFFICES ASSUME NEW p \in Processes, Terminated(p)'
              PROVE  \/ proc[p] = "gone"
                     \/ \E u \in Threads : Exits(u, p) /\ running'[u] = "idle"
  BY <1>1 DEF Closed, Exits
<1>2. CASE Terminated(p)
  BY <1>1, <1>2 DEF Closed
<1>3. CASE ~Terminated(p)
  <2>1. PICK l \in Printed(t) :
          l.process = p /\ l.operation = "Process Terminated"
    BY <1>1, <1>3 DEF Terminated
  <2>2. Exits(t, p)
    BY <1>1, <2>1, PrintedIsLines DEF Base
  <2>. QED
    BY <1>1, <2>2
<1>. QED
  BY <1>2, <1>3

LEMMA StartKeepsClosed ==
  ASSUME Base, Closed, NEW t \in Threads, Start(t)
  PROVE  Closed'
<1>1. PICK e \in Events : Happens(t, e)
  BY StartIsEvent DEF Base, EventInv
<1>2. /\ event[t] = None
      /\ \A u \in Threads : u # t => event'[u] = event[u]
      /\ UNCHANGED lines
  BY <1>1, HappensAdds DEF Base, Happens
<1>3. \A u \in Threads : u # t => running'[u] = running[u]
  BY <1>1 DEF Happens, Base, EventInv, NTypeOK, TypeOK
<1>4. \A p \in Processes : proc[p] = "gone" => proc'[p] = "gone"
  BY DEF Start, StartThread, LoadImage, ExitThread, ExitProcess,
         CreateProcess, kernel, Base, EventInv, NTypeOK
<1>. SUFFICES ASSUME NEW p \in Processes, Terminated(p)
              PROVE  \/ proc'[p] = "gone"
                     \/ \E u \in Threads : Exits(u, p)' /\ running'[u] = "idle"
  BY <1>2 DEF Closed, Terminated
<1>5. CASE proc[p] = "gone"
  BY <1>4, <1>5
<1>6. ASSUME NEW u \in Threads, Exits(u, p), running[u] = "idle"
      PROVE  proc'[p] = "gone" \/ (Exits(u, p)' /\ running'[u] = "idle")
  BY <1>2, <1>3, <1>4, <1>6 DEF Exits
<1>. QED
  BY <1>5, <1>6 DEF Closed

LEMMA DoneKeepsClosed ==
  ASSUME Base, Closed, NEW t \in Threads, Done(t)
  PROVE  Closed'
<1>1. /\ UNCHANGED <<running, lines>>
      /\ \A u \in Threads : u # t => event'[u] = event[u]
  BY DoneRemoves DEF Done, vars, Base
<1>2. \A p \in Processes :
        /\ proc[p] = "gone" => proc'[p] = "gone"
        /\ Exits(t, p) => proc'[p] = "gone"
  BY EffectByKind DEF Base, EventInv, NTypeOK, Causality, CreatesOnce,
     ExitsLast, Creates, Exits, kernel
<1>. SUFFICES ASSUME NEW p \in Processes, Terminated(p)
              PROVE  \/ proc'[p] = "gone"
                     \/ \E u \in Threads : Exits(u, p)' /\ running'[u] = "idle"
  BY <1>1 DEF Closed, Terminated
<1>5. CASE proc[p] = "gone"
  BY <1>2, <1>5
<1>6. ASSUME NEW u \in Threads, Exits(u, p), running[u] = "idle"
      PROVE  proc'[p] = "gone" \/ (Exits(u, p)' /\ running'[u] = "idle")
  BY <1>1, <1>2, <1>6 DEF Exits
<1>. QED
  BY <1>5, <1>6 DEF Closed

LEMMA NextKeepsClosed == Base /\ Closed /\ [NNext]_nvars => Closed'
<1>. SUFFICES ASSUME Base, Closed, [NNext]_nvars PROVE Closed'
  OBVIOUS
<1>1. CASE Driver
  <2>1. UNCHANGED running
    BY <1>1 DEF Driver, DriverEntry, ProcMonelFilterUnload, Control,
     FltRegisterFilter, ProcMonFltInitialize, FltStartFiltering,
     ProcMonFltUninitialize, FltUnregisterFilter, ImageUnmapped, At,
     PsSetCreateProcessNotifyRoutineEx, PsSetCreateThreadNotifyRoutineEx,
     PsSetLoadImageNotifyRoutine, CreateRegisterCallback, Register,
     CmUnRegisterCallback, PsRemoveLoadImageNotifyRoutine,
     PsRemoveCreateThreadNotifyRoutine, PsRemoveCreateProcessNotifyRoutine,
     Remove
  <2>. QED
    BY <1>1, <2>1 DEF Driver, kernel, Closed, Terminated, Exits
<1>2. ASSUME NEW t \in Threads, NEW u \in Threads, CreateThread(t, u)
      PROVE  Closed'
  BY <1>2 DEF CreateThread, vars, Closed, Terminated, Exits
<1>3. CASE UNCHANGED nvars
  BY <1>3 DEF nvars, vars, Closed, Terminated, Exits
<1>. QED
  BY <1>1, <1>2, <1>3, NNextSplits, NotifyKeepsClosed, StartKeepsClosed,
     DoneKeepsClosed

LEMMA InitClosed == NInit => Closed
BY DEF NInit, Closed, Terminated

LEMMA ClosedAlways == NSpec => []Closed
<1>1. Base /\ Closed /\ [NNext]_nvars => Closed'
  BY NextKeepsClosed
<1>. QED
  BY <1>1, BaseInvariance, InitClosed, PTL DEF NSpec

(* Nothing is printed about a process after its termination.               *)
THEOREM TerminatedLast == NSpec => TerminatedIsLast
<1>1. ASSUME Base, Closed, [NNext]_nvars
      PROVE  [\A p \in Processes :
                "Process Terminated" \in Operations(p)
                  => Operations(p)' = Operations(p)]_nvars
  <2>. SUFFICES ASSUME NNext, NEW p \in Processes,
                       "Process Terminated" \in Operations(p)
                PROVE  Operations(p)' = Operations(p)
    BY <1>1
  <2>1. Terminated(p)
    BY DEF Operations, Terminated
  <2>2. CASE UNCHANGED lines
    BY <2>2 DEF Operations
  <2>3. ASSUME NEW t \in Threads, Notify(t)
        PROVE  Operations(p)' = Operations(p)
    <3>1. lines' = lines \cup Printed(t) /\ running[t] # "idle"
      BY <2>3 DEF Notify, LeaveRoutine
    <3>2. event[t].process # p
      BY <1>1, <2>1, <3>1, NothingLeftToPrint
    <3>3. \A l \in Printed(t) : l.process # p
      BY <1>1, <3>1, <3>2, PrintedIsLines DEF Base
    <3>. QED
      BY <3>1, <3>3 DEF Operations
  <2>4. ASSUME NEW t \in Threads, Start(t)
        PROVE  UNCHANGED lines
    BY <1>1, <2>4, StartIsEvent DEF Happens, Base, EventInv
  <2>. QED
    BY <2>2, <2>3, <2>4, NNextSplits DEF Driver, Done, CreateThread
<1>. QED
  BY <1>1, BaseInvariance, ClosedAlways, PTL DEF NSpec, TerminatedIsLast
-----------------------------------------------------------------------------
(***************************************************************************)
(* The whole of a life: the creation is in the log by Watched.  For the    *)
(* termination, an exit is printed before it takes effect, and a process   *)
(* that was refused never had a thread.                                    *)
(***************************************************************************)
Unborn ==
  \A t \in Threads : proc[Owner[t]] \in {"none", "creating"} => life[t] = "none"

Ended ==
  "process" \in registered =>
    \A p \in Processes \ old :
      /\ proc[p] = "gone" /\ HasLived(p) => Terminated(p)
      /\ \A t \in Threads :
           Exits(t, p) => Terminated(p) \/ running[t] = "process"

(* Threads come to be only in a process that runs.                         *)
LEMMA NextKeepsUnborn == Base /\ Unborn /\ [NNext]_nvars => Unborn'
<1>. SUFFICES ASSUME Base, Unborn, [NNext]_nvars PROVE Unborn'
  OBVIOUS
<1>. USE NotificationsAssumption DEF Unborn
<1>0. /\ \A u \in Threads : Owner[u] \in Processes
      /\ proc \in [Processes -> {"none", "creating", "running", "gone"}]
      /\ life \in [Threads -> {"none", "starting", "alive", "exiting", "gone"}]
      /\ LivesInRunning /\ CreatesOnce /\ ExitsLast /\ ThreadFits
  BY DEF Base, EventInv, NTypeOK, Causality
<1>1. ASSUME NEW t \in Threads, Start(t)
      PROVE  Unborn'
  <2>1. CASE StartThread(t) \/ LoadImage(t) \/ ExitProcess(t)
    BY <2>1 DEF StartThread, LoadImage, ExitProcess, kernel
  <2>2. CASE ExitThread(t)
    BY <1>0, <2>2 DEF ExitThread, LivesInRunning
  <2>3. ASSUME NEW p \in Processes, CreateProcess(t, p)
        PROVE  Unborn'
    BY <1>0, <2>3 DEF CreateProcess
  <2>. QED
    BY <1>1, <2>1, <2>2, <2>3 DEF Start
<1>2. ASSUME NEW t \in Threads, Done(t)
      PROVE  Unborn'
  <2>. USE <1>0 DEF CreatesOnce, ExitsLast, ThreadFits, LivesInRunning
  <2>1. ASSUME NEW p \in Processes, Creates(t, p) \/ Exits(t, p),
               proc' = [proc EXCEPT ![p] = "gone"], UNCHANGED life
        PROVE  Unborn'
    BY <2>1
  <2>2. ASSUME NEW p \in Processes, Creates(t, p),
               proc' = [proc EXCEPT ![p] = "running"],
               NEW u \in Threads, Owner[u] = p,
               life' = [life EXCEPT ![u] = "starting"]
        PROVE  Unborn'
    BY <2>2
  <2>3. ASSUME event[t].routine = "thread", NEW to \in {"alive", "gone"},
               life' = [life EXCEPT ![t] = to], UNCHANGED proc
        PROVE  Unborn'
    <3>1. life[t] \in {"starting", "exiting"}
      BY <1>2, <2>3, DoneRemoves DEF Base
    <3>. QED
      BY <2>3, <3>1
  <2>4. CASE UNCHANGED kernel
    BY <2>4 DEF kernel
  <2>. QED
    BY <1>2, <2>1, <2>2, <2>3, <2>4, EffectByKind DEF Base
<1>3. ASSUME NEW t \in Threads, NEW u \in Threads, CreateThread(t, u)
      PROVE  Unborn'
  BY <1>0, <1>3 DEF CreateThread, LivesInRunning
<1>4. CASE Driver \/ (\E t \in Threads : Notify(t)) \/ UNCHANGED nvars
  BY <1>4 DEF Driver, Notify, kernel, nvars
<1>. QED
  BY <1>1, <1>2, <1>3, <1>4, NNextSplits

(* When the driver begins to watch, whoever is there is old.               *)
LEMMA DriverKeepsEnded ==
  ASSUME Base, Ended, Driver
  PROVE  Ended'
<1>1. UNCHANGED <<running, kernel, event, lines>>
  BY DEF Driver, DriverEntry, ProcMonelFilterUnload, Control,
     FltRegisterFilter, ProcMonFltInitialize, FltStartFiltering,
     ProcMonFltUninitialize, FltUnregisterFilter, ImageUnmapped, At,
     PsSetCreateProcessNotifyRoutineEx, PsSetCreateThreadNotifyRoutineEx,
     PsSetLoadImageNotifyRoutine, CreateRegisterCallback, Register,
     CmUnRegisterCallback, PsRemoveLoadImageNotifyRoutine,
     PsRemoveCreateThreadNotifyRoutine, PsRemoveCreateProcessNotifyRoutine,
     Remove
<1>2. /\ old \subseteq old'
      /\ "process" \in registered' /\ "process" \notin registered =>
           old' = old \cup {p \in Processes : proc[p] # "none"}
  BY DEF Driver
<1>3. CASE "process" \in registered
  BY <1>1, <1>2, <1>3 DEF Ended, Exits, Terminated, HasLived, kernel
<1>4. CASE "process" \notin registered /\ "process" \in registered'
  BY <1>1, <1>2, <1>4
     DEF Base, Causality, ExitsLast, Ended, Exits, Terminated, HasLived, kernel
<1>. QED
  BY <1>3, <1>4 DEF Ended

(* The routine prints the termination before it returns.                   *)
LEMMA NotifyKeepsEnded ==
  ASSUME Base, Ended, NEW t \in Threads, Notify(t)
  PROVE  Ended'
<1>1. /\ UNCHANGED <<registered, kernel, event, old>>
      /\ lines' = lines \cup Printed(t)
      /\ running[t] # "idle"
      /\ \A u \in Threads : u # t => running'[u] = running[u]
      /\ running[t] = event[t].routine
  BY DEF Notify, kernel, LeaveRoutine, Base, EventInv, NTypeOK, TypeOK,
         EventMatches
<1>2. ASSUME NEW p \in Processes, Exits(t, p)
      PROVE  Terminated(p)'
  <2>1. Line("Process Terminated", p, None) \in Printed(t)
    BY <1>1, <1>2, ProcessIsPrinted DEF Exits
  <2>2. /\ Line("Process Terminated", p, None).process = p
        /\ Line("Process Terminated", p, None).operation = "Process Terminated"
    BY DEF Line
  <2>. QED
    BY <1>1, <2>1, <2>2 DEF Terminated
<1>3. \A p \in Processes : Terminated(p) => Terminated(p)'
  BY <1>1 DEF Terminated
<1>. QED
  BY <1>1, <1>2, <1>3 DEF Ended, Exits, HasLived, kernel

(* An exit that is watched is one whose routine is called.                 *)
LEMMA StartKeepsEnded ==
  ASSUME Base, Unborn, Ended, NEW t \in Threads, Start(t)
  PROVE  Ended'
<1>1. PICK e \in Events : Happens(t, e)
  BY StartIsEvent DEF Base, EventInv
<1>2. /\ event[t] = None /\ event'[t] = e
      /\ \A u \in Threads : u # t => event'[u] = event[u]
      /\ UNCHANGED <<registered, lines, old>>
      /\ \A u \in Threads : u # t => running'[u] = running[u]
      /\ e.routine \in registered => running'[t] = e.routine
  BY <1>1, HappensAdds DEF Happens, Base, EventInv, NTypeOK, TypeOK
<1>3. /\ \A p \in Processes : proc'[p] = "gone" => proc[p] = "gone"
      /\ \A u \in Threads : life'[u] # "none" => life[u] # "none"
  BY DEF Start, StartThread, LoadImage, ExitThread, ExitProcess,
         CreateProcess, kernel, Base, EventInv, NTypeOK
<1>4. ASSUME NEW p \in Processes, Exits(t, p)'
      PROVE  "process" \in registered => running'[t] = "process"
  BY <1>2, <1>4 DEF Exits
<1>5. ASSUME NEW p \in Processes, NEW u \in Threads, u # t, Exits(u, p)'
      PROVE  Exits(u, p) /\ running'[u] = running[u]
  BY <1>2, <1>5 DEF Exits
<1>6. \A p \in Processes : HasLived(p)' => HasLived(p)
  BY <1>3 DEF HasLived
<1>7. \A p \in Processes : Terminated(p)' <=> Terminated(p)
  BY <1>2 DEF Terminated
<1>. QED
  BY <1>2, <1>3, <1>4, <1>5, <1>6, <1>7 DEF Ended

(* An exit takes effect when it was printed; a refusal is no exit.         *)
LEMMA DoneKeepsEnded ==
  ASSUME Base, Unborn, Ended, NEW t \in Threads, Done(t)
  PROVE  Ended'
<1>1. /\ UNCHANGED <<registered, running, lines, old>>
      /\ running[t] = "idle"
      /\ event'[t] = None
      /\ \A u \in Threads : u # t => event'[u] = event[u]
  BY DoneRemoves DEF Done, vars, Base
<1>2. /\ \A u \in Threads : Owner[u] \in Processes
      /\ proc \in [Processes -> {"none", "creating", "running", "gone"}]
      /\ life \in [Threads -> {"none", "starting", "alive", "exiting", "gone"}]
      /\ LivesInRunning /\ CreatesOnce /\ ThreadFits
  BY NotificationsAssumption DEF Base, EventInv, NTypeOK, Causality
<1>3. ASSUME NEW p \in Processes, proc'[p] = "gone", HasLived(p)'
      PROVE  Exits(t, p) \/ (proc[p] = "gone" /\ HasLived(p))
  <2>. USE <1>2, <1>3 DEF HasLived
  <2>1. ASSUME NEW q \in Processes, Creates(t, q),
               proc' = [proc EXCEPT ![q] = "gone"], UNCHANGED life
        PROVE  proc[p] = "gone" /\ HasLived(p)
    BY <2>1 DEF CreatesOnce, Unborn
  <2>2. ASSUME NEW q \in Processes, Creates(t, q),
               proc' = [proc EXCEPT ![q] = "running"],
               NEW u \in Threads, Owner[u] = q,
               life' = [life EXCEPT ![u] = "starting"]
        PROVE  proc[p] = "gone" /\ HasLived(p)
    BY <2>2
  <2>3. ASSUME NEW q \in Processes, Exits(t, q),
               proc' = [proc EXCEPT ![q] = "gone"], UNCHANGED life
        PROVE  Exits(t, p) \/ (proc[p] = "gone" /\ HasLived(p))
    BY <2>3
  <2>4. ASSUME event[t].routine = "thread", NEW to \in {"alive", "gone"},
               life' = [life EXCEPT ![t] = to], UNCHANGED proc
        PROVE  proc[p] = "gone" /\ HasLived(p)
    <3>1. life[t] \in {"starting", "exiting"}
      BY <2>4, DoneRemoves DEF Base, ThreadFits
    <3>. QED
      BY <2>4, <3>1
  <2>5. UNCHANGED kernel => proc[p] = "gone" /\ HasLived(p)
    BY DEF kernel
  <2>. QED
    BY <2>1, <2>2, <2>3, <2>4, <2>5, EffectByKind DEF Base
<1>4. \A p \in Processes, u \in Threads : Exits(u, p)' => Exits(u, p)
  BY <1>1 DEF Exits
<1>. QED
  BY <1>1, <1>3, <1>4 DEF Ended, Terminated

LEMMA NextKeepsEnded == Base /\ Unborn /\ Ended /\ [NNext]_nvars => Ended'
<1>. SUFFICES ASSUME Base, Unborn, Ended, [NNext]_nvars PROVE Ended'
  OBVIOUS
<1>1. ASSUME NEW t \in Threads, NEW u \in Threads, CreateThread(t, u)
      PROVE  Ended'
  <2>1. /\ UNCHANGED <<vars, proc, event, lines, old>>
        /\ proc[Owner[u]] = "running"
        /\ \A v \in Threads : v # u => life'[v] = life[v]
    BY <1>1 DEF CreateThread, Base, EventInv, NTypeOK, Causality,
                LivesInRunning
  <2>2. ASSUME NEW p \in Processes, proc[p] = "gone", HasLived(p)'
        PROVE  HasLived(p)
    BY <2>1, <2>2 DEF HasLived
  <2>. QED
    BY <2>1, <2>2 DEF Ended, Terminated, Exits, vars
<1>2. CASE UNCHANGED nvars
  BY <1>2 DEF nvars, vars, Ended, Terminated, Exits, HasLived
<1>. QED
  BY <1>1, <1>2, NNextSplits, DriverKeepsEnded, NotifyKeepsEnded,
     StartKeepsEnded, DoneKeepsEnded

LEMMA InitEnded == NInit => Unborn /\ Ended
BY NotificationsAssumption DEF NInit, Init, Unborn, Ended

LEMMA EndedAlways == NSpec => []Ended
<1>1. Base /\ Unborn /\ [NNext]_nvars => Unborn'
  BY NextKeepsUnborn
<1>2. Base /\ Unborn /\ Ended /\ [NNext]_nvars => Ended'
  BY NextKeepsEnded
<1>. QED
  BY <1>1, <1>2, BaseInvariance, InitEnded, PTL DEF NSpec

(* Who came after the registration has both ends of its life in the log.   *)
THEOREM LivesLogged == NSpec => []LivesAreLogged
<1>1. Introduced /\ Ended => LivesAreLogged
  <2>1. ASSUME NEW p \in Processes, Created(p) \in lines
        PROVE  "Process Created" \in Operations(p)
    <3>1. Created(p).process = p /\ Created(p).operation = "Process Created"
      BY DEF Created, Line
    <3>. QED
      BY <2>1, <3>1 DEF Operations
  <2>2. ASSUME NEW p \in Processes, Terminated(p)
        PROVE  "Process Terminated" \in Operations(p)
    BY <2>2 DEF Operations, Terminated
  <2>. QED
    BY <2>1, <2>2 DEF Introduced, Watched, Ended, LivesAreLogged
<1>. QED
  BY <1>1, IntroducedAlways, EndedAlways, PTL
-----------------------------------------------------------------------------
(***************************************************************************)
(* Progress.  What DriverLifecycle has to assume, that a thread inside a   *)
(* routine leaves it, is here a matter of Notify: the composition          *)
(* implements the fair lifecycle, and inherits its progress.               *)
(***************************************************************************)
NotifyFair(t) == []<>~Inside(t) \/ []<><<Notify(t)>>_nvars
DriverFair    == []<>~ControlReady \/ []<><<Driver /\ Control>>_nvars
NFair         == DriverFair /\ \A t \in Threads : NotifyFair(t)

LEMMA NotifyFairImplements ==
  ASSUME NEW t \in Threads
  PROVE  NSpec => (NotifyFair(t) => RoutineFair(t))
<1>1. ASSUME EventInv, IInv, <<Notify(t)>>_nvars
      PROVE  <<LeaveRoutine(t)>>_vars
  BY <1>1 DEF Notify, LeaveRoutine, IInv, TypeOK, vars
<1>. QED
  BY <1>1, EventInvariance, PTL DEF NotifyFair, RoutineFair

LEMMA DriverFairImplements == NSpec => (DriverFair => ControlFair)
<1>1. ASSUME IInv, <<Driver /\ Control>>_nvars
      PROVE  <<Control>>_vars
  <2>1. pc \in Busy
    BY <1>1 DEF Control, FltRegisterFilter, ProcMonFltInitialize,
       FltStartFiltering, ProcMonFltUninitialize, FltUnregisterFilter,
       ImageUnmapped, At, PsSetCreateProcessNotifyRoutineEx,
       PsSetCreateThreadNotifyRoutineEx, PsSetLoadImageNotifyRoutine,
       CreateRegisterCallback, Register, CmUnRegisterCallback,
       PsRemoveLoadImageNotifyRoutine, PsRemoveCreateThreadNotifyRoutine,
       PsRemoveCreateProcessNotifyRoutine, Remove, Busy, Calls, RegisterCalls,
       RemoveCalls
  <2>2. pc' # pc
    BY <1>1, <2>1, CallWaits DEF Next
  <2>. QED
    BY <1>1, <2>2 DEF vars
<1>. QED
  BY <1>1, EventInvariance, PTL DEF DriverFair, ControlFair

LEMMA FairImplements == NSpec /\ NFair => AllFair
<1>1. ASSUME NEW t \in Threads
      PROVE  NSpec /\ NFair => RoutineFair(t)
  <2>1. NFair => NotifyFair(t)
    BY DEF NFair
  <2>. QED
    BY <2>1, NotifyFairImplements, PTL
<1>2. NSpec /\ NFair => \A t \in Threads : RoutineFair(t)
  BY <1>1
<1>. QED
  BY <1>2, DriverFairImplements, PTL DEF NFair, AllFair

(* DriverEntry returns and an unload ends while processes and threads come *)
(* and go and every event that the driver is told of runs through its      *)
(* routine.                                                                *)
THEOREM LifecycleProgresses ==
  ASSUME FewThreads
  PROVE  NSpec /\ NFair => LoadAndUnloadEnd
BY FairImplements, ImplementsLifecycle, ControlEnds, PTL
=============================================================================
