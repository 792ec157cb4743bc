----------------------------- MODULE Notifications -----------------------------
(***************************************************************************)
(* The process, thread and image routines, while the driver is loaded and  *)
(* unloaded around them.                                                   *)
(*                                                                         *)
(* This composes DriverLifecycle with a kernel on which threads create     *)
(* processes and threads, load images and exit.  The kernel calls the      *)
(* routine for such an event on the thread that it happens to (for the     *)
(* creation of a process, on the creator) if it is registered then, and    *)
(* goes on with the event when the routine returns.  The routine prints a  *)
(* line, or none.                                                          *)
(*                                                                         *)
(* Threads are non-system threads, the only ones that                      *)
(* PsCreateThreadNotifyNonSystem asks for.  Each process and each thread   *)
(* exists once: identifiers that are used again are not modelled.          *)
(***************************************************************************)
EXTENDS DriverLifecycle

CONSTANTS
  Processes,  (* The processes.                                            *)
  Owner,      (* The process of each thread.                               *)
  First,      (* The process that is there before the driver.              *)
  None        (* No event, no line; process 0; no thread.                  *)

ASSUME NotificationsAssumption ==
  /\ Owner \in [Threads -> Processes]
  /\ First \in Processes
  /\ None \notin Processes \cup Threads

VARIABLES
  proc,    (* "none", "creating", "running" or "gone".                     *)
  life,    (* "none", "starting", "alive", "exiting" or "gone".            *)
  event,   (* What happens to each thread, or None.                        *)
  lines,   (* The lines printed.                                           *)
  old      (* History: the processes that were there at some registration  *)
           (* of the process routine.                                      *)

kernel == <<proc, life>>
nvars  == <<vars, proc, life, event, lines, old>>

(* The arguments of the three routines: for a created process, what        *)
(* CreateInfo->CreationStatus says; for an image, whether it has a         *)
(* FullImageName and is no SystemModeImage.                                *)
Events ==
  [routine : {"process"}, what : {"create"}, process : Processes,
   info : {"success", "refused"}]
  \cup [routine : {"process", "thread"}, what : {"create", "exit"},
        process : Processes, info : {"success"}]
  \cup [routine : {"image"}, what : {"load"}, process : Processes \cup {None},
        info : {"named", "unnamed", "systemMode"}]

Lines ==
  [operation : {"Process Created", "Process Terminated", "Thread Created",
                "Thread Terminated", "Image Loaded"},
   process : Processes, thread : Threads \cup {None}, result : {"success"}]

ASSUME NoneAssumption == None \notin Events \cup Lines

NTypeOK ==
  /\ TypeOK
  /\ proc \in [Processes -> {"none", "creating", "running", "gone"}]
  /\ life \in [Threads -> {"none", "starting", "alive", "exiting", "gone"}]
  /\ event \in [Threads -> Events \cup {None}]
  /\ lines \subseteq Lines
  /\ old \subseteq Processes

NInit ==
  /\ Init
  /\ proc = [p \in Processes |-> IF p = First THEN "running" ELSE "none"]
  /\ life = [t \in Threads |-> IF Owner[t] = First THEN "alive" ELSE "none"]
  /\ event = [t \in Threads |-> None]
  /\ lines = {}
  /\ old = {}

-----------------------------------------------------------------------------
(* The routines.                                                           *)

(* "Success" is part of the format of the line.                            *)
Line(operation, p, t) ==
  [operation |-> operation, process |-> p, thread |-> t, result |-> "success"]

(* Slip: CreateInfo is tested the wrong way round.                         *)
CreateProcessNotifySwapped(e) ==
  {Line(IF e.what = "exit" THEN "Process Created" ELSE "Process Terminated",
        e.process, None)}

(* Slip: a call without CreateInfo is passed over.                         *)
CreateProcessNotifyNoExit(e) ==
  IF e.what = "exit" THEN {} ELSE {Line("Process Created", e.process, None)}

CreateProcessNotifyRoutine(e) ==
  {Line(IF e.what = "create" THEN "Process Created" ELSE "Process Terminated",
        e.process, None)}

CreateThreadNotifyRoutine(e, t) ==
  {Line(IF e.what = "create" THEN "Thread Created" ELSE "Thread Terminated",
        e.process, t)}

(* Slip: images of drivers are not left out.                               *)
LoadImageNotifyAny(e) ==
  IF e.info = "unnamed" THEN {} ELSE {Line("Image Loaded", e.process, None)}

(* An image without a name, and one of a driver, is not reported.          *)
LoadImageNotifyRoutine(e) ==
  IF e.info = "unnamed" \/ e.process = None \/ e.info = "systemMode"
  THEN {}
  ELSE {Line("Image Loaded", e.process, None)}

Printed(t) ==
  CASE running[t] = "process" -> CreateProcessNotifyRoutine(event[t])
    [] running[t] = "thread"  -> CreateThreadNotifyRoutine(event[t], t)
    [] running[t] = "image"   -> LoadImageNotifyRoutine(event[t])

(* A routine prints its line and returns.                                  *)
Notify(t) ==
  /\ event[t] # None
  /\ LeaveRoutine(t)
  /\ lines' = lines \cup Printed(t)
  /\ UNCHANGED <<kernel, event, old>>

-----------------------------------------------------------------------------
(* Something happens to a thread: the kernel calls the routine for it if   *)
(* there is one.                                                           *)
Happens(t, e) ==
  /\ event[t] = None
  /\ event' = [event EXCEPT ![t] = e]
  /\ IF e.routine \in registered
     THEN pc # "Absent" /\ running' = [running EXCEPT ![t] = e.routine]
     ELSE UNCHANGED running
  /\ UNCHANGED <<pc, filter, registered, failed, lines, old>>

(* A thread creates a process; another driver may refuse it.               *)
CreateProcess(t, p) ==
  /\ life[t] = "alive"
  /\ proc[p] = "none"
  /\ \E info \in {"success", "refused"} :
       Happens(t, [routine |-> "process", what |-> "create",
                   process |-> p, info |-> info])
  /\ proc' = [proc EXCEPT ![p] = "creating"]
  /\ UNCHANGED life

(* A thread starts to run.                                                 *)
StartThread(t) ==
  /\ life[t] = "starting"
  /\ Happens(t, [routine |-> "thread", what |-> "create",
                 process |-> Owner[t], info |-> "success"])
  /\ UNCHANGED kernel

(* A thread maps an image: into its process, or a driver.                  *)
LoadImage(t) ==
  /\ life[t] = "alive"
  /\ \E p \in {Owner[t], None}, info \in {"named", "unnamed", "systemMode"} :
       /\ p = None <=> info = "systemMode"
       /\ Happens(t, [routine |-> "image", what |-> "load",
                      process |-> p, info |-> info])
  /\ UNCHANGED kernel

ExitThread(t) ==
  /\ life[t] = "alive"
  /\ Happens(t, [routine |-> "thread", what |-> "exit",
                 process |-> Owner[t], info |-> "success"])
  /\ life' = [life EXCEPT ![t] = "exiting"]
  /\ UNCHANGED proc

(* The last thread of a process takes the process with it.                 *)
ExitProcess(t) ==
  /\ life[t] = "gone"
  /\ proc[Owner[t]] = "running"
  /\ \A u \in Threads : Owner[u] = Owner[t] =>
       life[u] \in {"none", "gone"} /\ event[u] = None
  /\ Happens(t, [routine |-> "process", what |-> "exit",
                 process |-> Owner[t], info |-> "success"])
  /\ UNCHANGED kernel

(* The routine, if any, has returned: the event takes its effect.          *)
Effect(t, e) ==
  CASE e.routine = "process" /\ e.what = "create" ->
         IF e.info = "refused"
         THEN proc' = [proc EXCEPT ![e.process] = "gone"] /\ UNCHANGED life
         ELSE /\ proc' = [proc EXCEPT ![e.process] = "running"]
              /\ \E u \in Threads :
                   /\ Owner[u] = e.process
                   /\ life' = [life EXCEPT ![u] = "starting"]
    [] e.routine = "process" /\ e.what = "exit" ->
         proc' = [proc EXCEPT ![e.process] = "gone"] /\ UNCHANGED life
    [] e.routine = "thread" ->
         /\ life' = [life EXCEPT ![t] =
              IF e.what = "create" THEN "alive" ELSE "gone"]
         /\ UNCHANGED proc
    [] OTHER -> UNCHANGED kernel

Done(t) ==
  /\ event[t] # None
  /\ running[t] = "idle"
  /\ Effect(t, event[t])
  /\ event' = [event EXCEPT ![t] = None]
  /\ UNCHANGED <<vars, lines, old>>

(* A thread makes another one in its process.                              *)
CreateThread(t, u) ==
  /\ life[t] = "alive"
  /\ event[t] = None
  /\ Owner[u] = Owner[t]
  /\ life[u] = "none"
  /\ life' = [life EXCEPT ![u] = "starting"]
  /\ UNCHANGED <<vars, proc, event, lines, old>>

(* The driver moves; the history notes who is there when it registers.     *)
Driver ==
  /\ DriverEntry \/ ProcMonelFilterUnload \/ Control
  /\ old' = IF "process" \in registered' \ registered
            THEN old \cup {p \in Processes : proc[p] # "none"} ELSE old
  /\ UNCHANGED <<kernel, event, lines>>

(* What a thread does, and the routine that is called for it.              *)
Kernel(t) ==
  \/ Notify(t)
  \/ StartThread(t) \/ LoadImage(t) \/ ExitThread(t) \/ ExitProcess(t)
  \/ Done(t)
  \/ \E p \in Processes : CreateProcess(t, p)
  \/ \E u \in Threads : CreateThread(t, u)

NNext == Driver \/ \E t \in Threads : Kernel(t)

NSpec == NInit /\ [][NNext]_nvars

-----------------------------------------------------------------------------
Operations(p) == {line.operation : line \in {l \in lines : l.process = p}}

(* Every process in the log is introduced: its first line is its creation, *)
(* unless it was there before the driver watched processes.  So the driver *)
(* has to watch processes before, and as long as, it watches what they do, *)
(* however load and unload interleave with it.                             *)
ContextIsKnown ==
  \A p \in Processes \ old :
    Operations(p) # {} => "Process Created" \in Operations(p)

(* The log of a process is closed: nothing follows its termination.        *)
TerminatedIsLast ==
  [][\A p \in Processes :
       "Process Terminated" \in Operations(p)
         => Operations(p)' = Operations(p)]_nvars

(* A process whose first thread has come to be, in contrast to one that    *)
(* another driver refused.                                                 *)
HasLived(p) == \E t \in Threads : Owner[t] = p /\ life[t] # "none"

(* No life goes unseen: while the process routine is registered, a process *)
(* that no registration has found there already has its creation in the    *)
(* log as soon as it runs and its termination as soon as it is gone.  The  *)
(* events take several steps, so that a registration or a removal may fall *)
(* between the call of the routine and the effect of the event, and calls  *)
(* may have failed before.                                                 *)
LivesAreLogged ==
  "process" \in registered =>
    \A p \in Processes \ old :
      /\ proc[p] \in {"running", "gone"} =>
           "Process Created" \in Operations(p)
      /\ proc[p] = "gone" /\ HasLived(p) =>
           "Process Terminated" \in Operations(p)

(* The result in the line about a creation (README: "[Result]") is that of *)
(* the creation.                                                           *)
CreatedResultIsTrue ==
  \A t \in Threads :
    /\ event[t] # None
    /\ event[t].info = "refused"
    => Line("Process Created", event[t].process, None) \notin lines
=============================================================================
