# A TLA+ model of Procmonel

Procmonel is a `Procmon`-like monitor for Windows: a minifilter driver
(`src/ProcMonelFilter/ProcMonelFilter`) that registers for process, thread,
image, registry and file events and prints one line for each, and a console
application (`src/ProcMonelFilter/ConsoleApplication`) that connects to a
communication port of the driver and listens for messages.

This directory holds TLA+ modules of its core, TLC configurations that check
them, and proofs of their properties: safety for every value of their constants,
progress for sets of bounded size (see *Proofs*).
`PROJECT.json` lists the runs, the lines of C that each definition translates,
the hazards and the theorems.

## Inventory

| component | code | state | operations | hard behaviour | what makes it correct |
|---|---|---|---|---|---|
| driver load and unload | `ProcMonelFilter.c` `DriverEntry`, `ProcMonelFilterUnload`; `ProcMonel.c` `ProcMonFltInitialize`, `ProcMonFltUninitialize` | `gDrv.FilterHandle`, `Cookie`; the kernel's lists of routines | register / remove four notify routines, register / start / unregister the filter | any call may fail; routines run on other threads from the first registration to the last removal | nothing stays registered in, and no thread inside, an unmapped image; everything is monitored while loaded |
| file operations | `ProcMonelFilter.c` `Callbacks`, `ProcMonelFilterPreOperation`, `ProcMonelFilterPostOperation`; `ProcMonel.c` `FileCallback`; `Callbacks.c` `File*` | one `FILE_EVENT` and one path block per operation, handed over as completion context | pre-operation, post-operation | completion at any time in any process, failed allocations, draining at unload, queries of names that wait for the file system | no leak, no use after free, the right line for every operation |
| registry notifications | `ProcMonel.c` `RegistryCallback`; `Callbacks.c` `Registry*`, `GetRegistryObjectCompleteName` | pool blocks local to a handler | four handlers | unchecked allocations, a name that changes between two queries, queries that fail, handlers on many threads | every block freed once, a line for every operation, with a name of its own key |
| process, thread, image notifications | `ProcMonel.c`, `Callbacks.c` | none | three routines | they run while the driver is loaded and unloaded one routine at a time | a process is introduced by its creation, nothing follows its termination, neither is missing while the routine is registered |
| kernel end of the port | `Communication.c` | `gDrv.Communication.ServerPort`, `ClientPort` | connect, disconnect, message, send, init, uninit | a new client connects while the old one is torn down, 60 s timeout, reply that never comes | the driver knows the client that is connected, a client that leaves makes room, a sender goes on |
| console | `Main.c`, `ComDriver.c` | `gDriverPort`, `gTerminationEvent`, `gListenerThreads`; a buffer, an `OVERLAPPED` and an event per listener | connect, start listeners, `exit`, join; the listener loop | overlapped I/O owns memory of the listeners, globals shared without a lock, failures at start-up and of requests that were pending | the kernel never owns freed memory, the exit ends, listeners persist |
| instance callbacks | `ProcMonelFilter.c` 381-533 | none | attach, allow a detach, do nothing at teardown | operations are under way when an instance goes | the filter keeps nothing of a detached instance |
| operation-status path | `ProcMonelFilter.c` 784-836, 900-994 | none | - | registered only inside `#if 0` | - |

How they interact: the kernel calls the routines of the driver on arbitrary
threads; the filter manager passes the completion context from a pre-operation
to its post-operation; `DriverEntry` and `Unload` turn all of that on and off;
console and driver share a port, by messages from the driver to pending
requests of the listeners. In the code as it is `DriverEntry` does not create
that port (the call at `ProcMonelFilter.c:588` is commented out) and the lines
go to the kernel debugger by `DbgPrintEx`.

## Modules

### DriverLifecycle

One control thread runs `DriverEntry` and later `ProcMonelFilterUnload`. `pc`
is the kernel call it is about to make, so that there is one action per call and
events can come in between any two. Each call in `Failable` may fail, and then
control goes where the `goto Exit` and the return-status tests of the code take
it: a failed registration unregisters the filter only, a failed
`FltStartFiltering` takes everything back, a failed removal skips the removals
after it. `registered` and `filter` are what the kernel remembers; `running` is
the routine each thread is inside of. The kernel's own part (`Callable`,
`Returned`, `EnterRoutine`, `ImageUnmapped`) is external: it calls what is
registered, and removing a routine returns only when no thread is in it.

`failed` is a history of the calls that failed during this load, so that a
property can say *which* failures do harm.

### FileFilter

`Ops` operations may be in flight. `request` and `ioStatus` are the callback
data, `context` is the completion context, `pool` the blocks with
`FILE_POOL_TAG`, `log` the line printed. `Issue`, `Complete`, `Drain` and
`EndUnregister` are processes, file system and filter manager. `PostOperation` is
one action because it touches only its locals and blocks nobody else has. The
pre-operation is three, cut at its calls of `FltGetFileNameInformation`, which may
ask the file system and wait for the answer: `PreOperation` allocates the path
block and asks for the normalized name, `NormalizedNameFails` asks for the opened
one, `RecordEvent` goes on when a query has been answered. While a query is under
way (`Naming`) the operation can neither complete nor be drained. Not modelled: the text of the path
(normalized name, else opened name, else `UNKNOWN`), the time, and the fields of
the event no line shows. Unreachable for the kinds in the table and left out:
the early return for file-system filter operations, the `IRP_MJ_SHUTDOWN`
branch, a null file object.

The result that a drained operation seems to have is undefined, hence any.

`instance[v]` is our instance on volume `v`. The driver attaches to every volume
(`InstanceSetup`) and never refuses a detach, so that `InstanceTeardownStart` is
possible at any time; a teardown, and with it an unload, is complete when no
operation of the instance is in our hands. Operations whose post-operation is
due are drained by the filter manager.

### Monitor

The abstract specification: what a reader of the log is promised about one
event. An event is reported at most once and only when it is finished, with its
actor and its result; an event that is torn from its observer by a detach or an
unload may show any result, or none. `FileFilter` and `RegistryMonitor` each
define `ImplementsMonitor` by an `INSTANCE Monitor WITH` their refinement
mapping. `status` is read off the stage of an operation, `actor` off its request,
`report` off the line printed. An operation whose filter context says that it was
drained is "torn".

### RegistryMonitor

The post-notification of an operation runs `RegistryCallback` on the thread that
made it. A step of a handler ends where it looks at the registry: the empty path
with its block (`AllocatePath`), the query for the length with the second block
(`QueryLength`), the query for the name with the copy and the free (`QueryName`),
the line and the other free (`Report`). Between any two of them other threads
operate, and `Rename` and deletes change what there is to see. Allocations may
return `NULL` (`PoolMayFail`); they are not tested in the code, the copy into or
out of a missing block fails with a status that is tested, and the free of a null
pointer brings the system down (`system = "crashed"`). Either query may be refused
(`QueryRefused`), because the key is deleted or, when memory is short, for want of
resources; the code tests for success only. `since` is a history of the
names the key had between the operation and its line, `refused` of the threads whose
query was refused for want of resources. External: `Operate`,
`Rename`, `Effect`, `Seen`, `QueryRefused`. The name of a value, which some lines add to the path
or show in its place, is abstracted.

### Notifications

`DriverLifecycle` composed with a kernel on which threads create processes and
threads, load images and exit. `Happens` calls the routine of an event if it is
registered at that moment, on the thread it happens to; the event takes its effect
(`Done`) when the routine has returned, as a process does not run before its
creation was notified. `CreateProcessNotifyRoutine`, `CreateThreadNotifyRoutine`
and `LoadImageNotifyRoutine` are functions from the arguments to the lines
printed. Every step is a step of `DriverLifecycle` or leaves it alone, so that its
theorems hold here too.

### DriverPort

`Communication.c`: initialisation with its `__finally`, the three statements of
`CommUninitializeCommunication`, the connect and disconnect callbacks on the
threads of the clients, and `CommSendMessage` on kernel threads. `ClientPort` is
shared by all of them without a lock. Assumed of the filter manager (external):
one connection at a time, counted until `FltCloseClientPort`; that call clears the
pointer it is given; a send fails when either end of its connection is closed, and
times out otherwise, for the console never replies. `CbMessageNotify` changes no
state and the console never sends (its `CommSendMessage` is not called), so that
neither is an action. The driver of this build calls none of these functions: the
module is about the component as it is written, with the calls where the
commented-out ones are.

### FilterDriver

`Notifications` and `FileFilter` as one system, the whole driver. `Filtering` maps what
`DriverEntry` and `ProcMonelFilterUnload` do with `gDrv.FilterHandle` to the state that
`FileFilter` knows: off, filtering, or draining while `FltUnregisterFilter` is under
way. That call has two parts that the components abstract from each other, and both hold
here: it waits for the routines (`Returned`) and for every instance (`MayReturn`).
The processes that issue operations (`Issue`), and those that an event names (`Record`),
are the ones that the kernel of `Notifications` creates and ends. `late` is a history of
the operations that were recorded while the filter was being unregistered.
`FilterDriver` needs no new routine of the driver: `Record` is the pre-operation with its
queries, `Finish` the post-operation, `Notice` the three notify routines, `Instance` the
four instance callbacks, and each is a step of the component that models it.
It has no registry operations: their callback shares no state with the files.

### Procmonel

`FilterDriver` beside `Console` with a server that is "down" for good, since no
function of this driver creates the port.

### Console

`main` and `pc[t]` are the next steps of the main thread and of each listener.
`gDriverPort` is the value of the global, `port` the state of that handle in the
kernel: the two differ between `CloseHandle` and the assignment of `NULL`.
`io[t]` is the request that `FilterGetMessage` left with the kernel, `buffer[t]`
and `hEvent[t]` the resources it uses. External are `Send`, `ServerGone`,
`Aborted` (closing either end of the port completes the pending requests with an
error) and `RequestFails` (a pending request may fail for any other reason, with
both ends open). `WaitMessage` ends the listener in either case, as the code does
after any failure of `GetOverlappedResult`. `MayFail` switches on every failure the
code has a path for: `malloc`, `CreateEvent` (both), `CreateThread`, unexpected results
of `FilterGetMessage`, and `RequestFails`. The commands other than `exit` do nothing and are left out.

### Wrong variants

The operators after a comment that begins with "Slip" are plausible mistakes in
the definition that follows them (a forgotten free, a swapped order, a dropped
test). They are not part of the specifications. `PROJECT.json` pairs each
property with one of them under which it fails.

## Runs

| run | instance | what it shows |
|---|---|---|
| `lifecycle` | 3 threads, every call may fail, load and unload over and over | the unmapped image is clean exactly if none of the *unrecovered* calls failed (all but `FltRegisterFilter`, the first registration and `FltStartFiltering`); no thread is in it otherwise; events of a kind never come without the kinds registered before; `DriverEntry` returns and an unload ends although events keep coming |
| `file_filter` | 2 operations, 2 processes, 1 volume, creates, allocations and queries of names may fail | memory and log are right under all interleavings of the two, with detaches, unloads and reloads; exactly the successful creates that changed a file and the failed ones that look like it have a line; `FileFilter` implements `Monitor`; `FltUnregisterFilter` returns, and a detached instance goes, if queries of names are answered, though the file system keeps operations for ever; with deadlock check |
| `file_set_attributes` | 1 operation that sets attributes | **finding**: it has no line, although the README of the repository lists the kind |
| `file_drained_result` | 1 operation | **finding**: a drained operation is logged with a result it does not have |
| `console` | 3 listeners, queue of 2, everything may fail | freed memory, join, persistence; `exit` ends the program; a full queue is relieved as long as somebody listens, that is, got its event and has not lost a request, and unexpected results do not go on for ever; no listener gets stuck between two steps |
| `registry` | 2 threads, 1 key, a short and a long name, a class for each way through the callback, allocations and queries of names may fail | blocks, crashes, paths and lines; `RegistryMonitor` implements `Monitor` |
| `registry_path` | 1 thread, memory enough | **finding**: a renamed key is logged without a path |
| `notifications` | a process that is there, one with 2 threads that may be created; a registration and a removal may fail | the lines of a process begin with its creation and end with its termination, and both are there for every process that the registered routine did not find there |
| `notifications_result` | the same, nothing fails | **finding**: a refused creation is logged as a success |
| `driver` | a process that is there and one that it may create, 1 operation, 1 volume, one removal and `FltStartFiltering` may fail | the whole driver: an unmapped image has no operation to come back and no memory; who has a line about a file is known, but for operations recorded while the filter is being unregistered |
| `port` | 3 clients, 2 sending threads | which clients are forgotten, which place is lost, what initialisation and unload leave; a sender goes on |
| `procmonel` | the driver with 1 process and 1 operation, 2 listeners, nothing fails | **finding**: the console cannot reach a driver that runs |

Why the bounds are enough. The actions of one thread, operation or listener look
at the others only through a quantifier ("no thread is inside", "all are gone",
"one has a pending request") and through the shared variables; with two or three
of them every combination of those conditions occurs, and the proofs below cover
any number. Two names of different length make a rename that lengthens, shortens
and keeps a name; three clients make one that leaves while another comes and a
third is waiting. A slot of `FileFilter` is reused, so a leak of one operation shows
in the next. `QueueLimit` is a bound of the model: the kernel's queue is limited
by memory; the properties only need empty, non-empty and full. One key is enough in `registry`, as handlers look at
no key but their own; a name that one of them takes from elsewhere is one the key
did not have then. Creates are the kind of operation whose line depends on its result
as well; the other kinds, and several volumes, go the same ways through the filter and are
covered by the theorems, which are about any set of kinds and volumes.
The run `driver` has the constraint
`FirstStays`: no images are loaded, and the first process, which creates the other one,
does not exit; both happen in `notifications`, and the theorems do without. Symmetry is used in safety runs only. `CHECK_DEADLOCK FALSE` is set where the system may stop:
when the console has returned, when the port is down, when all processes of the
instance are used up, when the system has crashed, and when a routine is left registered in an
unmapped image, which faults at the next event and is not followed further.

Fairness. The control thread, the routines, the listeners and the callbacks of
the port are scheduled and their code has no loop without a kernel call, hence
weak fairness of their steps. The filter manager drains and returns, and the
timer of 60 seconds that `CommSendMessage` passes expires (external). The
pre-operation is the one routine that waits: for its queries of a name, which are the file
system's to answer and have no fairness. `TeardownsFinish` and the theorems about the
progress of the whole driver therefore have the hypothesis `QueriesAnswered`, that no
operation stays in a query for ever: without it neither a detach nor the unload would end, as
an operation that has not left the pre-operation cannot be drained. An operation below us
needs no such hypothesis. Nobody has to load,
unload, issue or complete an operation, send a message, type `exit`, or make the
driver go away, connect, disconnect, read a message, or detach an instance: none of
these has fairness. The fairness of `FilterDriver` is that of its parts, with the
return of `FltUnregisterFilter` now depending on the instances as well.

## What the model says about the code

- `ResultIsFinal` fails: `ProcMonelFilterPostOperation` ignores `Flags`.
- `AttributeChangesReported` fails: changes of attributes are never reported, although
  the README of the repository lists them ("f. Set Attributes", `src/README.md:30`) and
  `FileCallback` has a branch for them: `IRP_MJ_SET_INFORMATION` is in the `#if 0`
  block. `MonitoredOpsReported` is about the kinds that are registered. Among these,
  named pipes have an entry in the table and no line.
- A detach, and the unload, wait for the file system in one case: when it does not answer
  a query of a name that a pre-operation has made (`ProcMonelFilter.c:696`, `719`).
- `UnmappedCleanIffRecovered` holds in both directions: if the second, third or
  fourth registration, or any removal, fails, routines do stay registered.
- A failed create leaves 0 in `Information`, which is `FILE_SUPERSEDED`: it is
  logged as `FileCreated`, with its error as result. Failed creates that leave
  another value are not logged. `MonitoredOpsReported` names these lines
  (`TakenForSuperseded`) as what they are, lines of creates that changed nothing; they are
  the only ones beyond those a reader counts on (`Reportable`).
- `PathIsShown` fails: the look-up of a key's name is not retried when the name
  has grown between its two queries, nor when a query is refused.
- `CreatedResultIsTrue` fails: "Success" is part of the text of the line.
- `RunningDriverIsReached` fails: the port is never created.
- A failed allocation in a registry handler always brings the system down, and
  nothing else in the handlers does: the copy fails cleanly, the free does not.
- A process has lines without its creation only if it was there before the driver
  watched processes, also after half-way failures: processes are registered first
  and removed last.
- `Unload` removes the notify routines before it unregisters the filter. Until that call
  has taken the filter off its last volume, operations are recorded. A process that is
  created in between is not announced, and may have lines about files. That is why
  `FileContextIsKnown` excepts `late` operations: TLC finds such a behaviour if it does
  not. Nothing recorded before needs the exception: as long as the process routine is
  registered whoever is recorded is known, and its removal is the last step before that
  call (the moment between the two is part of the location `FltUnregisterFilter`).
- If `Communication.c` is put to use: a client that connects between
  `FltCloseClientPort` and `ClientPort = NULL`, of a disconnect or of the unload,
  is forgotten. It gets no messages, and as its end is never closed when it leaves
  the one connection is taken for good. No other interleaving does harm to a
  client of a loaded driver. This rests on the assumption that the place is free
  from `FltCloseClientPort` on. The unload may leave a client that connects between
  closing the client's port and the server's. The assignment of `NULL` is never
  needed.
- Closing the port alone stops every listener: those that wait see their request
  fail, the others get `ERROR_INVALID_HANDLE`. It is also the only thing that
  gives the buffers back, since `CancelIo` may see `NULL`.
- A request that fails at once is made again, one that fails after it was pending ends its
  listener for good, whatever the reason and with the port open. Nobody starts
  another one: when the last listener has gone so, the queue is never served again, while
  `main` goes on prompting.

## Proofs

Eight modules, `DriverLifecycleProofs`, `FileFilterProofs`, `ConsoleProofs`,
`RegistryMonitorProofs`, `NotificationsProofs`, `DriverPortProofs`,
`ProcmonelProofs` and `MonitorProofs`, prove, for all values of the constants, every
safety property of the passing runs above except `NobodyHangs` of the console,
refinements included, and, under the bounds and hypotheses named below, their liveness
properties too. For what `NobodyHangs` says there are theorems without `ENABLED`
(*Guards*).

### Safety

Each module has an inductive invariant `IInv` or several layers of one, a lemma
per group of actions, and a theorem per property.

- *Driver*: what is registered, what the handle is and what can have failed, at
  every control location. Without it nothing connects the failed call to what it
  left behind. Assumes `FailableAssumption`.
- *Filter*: the context of an operation describes the operation it was made for,
  and where an operation with a line, or without one, can be; an operation whose name is
  being queried has its path block and no context. It links the memory to the log. Assumes `MajorsAssumption`, `PoolAssumption` and
  `NoneAssumption` (`None` is none of the values it stands in for).
- *Console*: a pending request implies an open port, the termination event is
  set only after the port was closed, and a request is aborted only with its port (one
  that failed by itself is told apart from it).
  Assumes `ConsoleAssumption`.
- *Registry*: a handler's blocks and path at each of its steps; the path is in
  `since`, and the length it asked for is that of a name in `since`, which is what
  links an empty path to a rename, if no query was refused. Assumes `RegistryAssumption`.
- *Notifications*: in layers. `ImplementsLifecycle` gives the invariant of the
  driver. On it rest what an event under way says about its process and thread, and
  then what the lines say: while the thread or image routine can be called the
  process routine is registered, and a process that was created under it is in the
  log (`Watched`). For `LivesLogged` two more: threads are born only in a process that
  runs (`Unborn`), and a thread whose exit takes its process with it has the termination in
  the log or is still inside the routine (`Ended`). Assumes `NotificationsAssumption` and `NoneAssumption`.
- *Port*: `ClientIsKnown` says nothing while somebody is between
  `FltCloseClientPort` and the assignment; the invariant adds what is true there
  (whoever is connected then is in `amid`) and that one end is open at most. Assumes
  `PortAssumption`.
- *Refinement*: `FilterImplementsMonitor` and `RegistryImplementsMonitor` map initial
  states to initial states and every step to a step or a stutter of `Monitor`;
  `ReportsTrue`, which `FileLinesKeepThePromise` and `RegistryLinesKeepThePromise`
  carry over to file operations and registry operations, is what they inherit.
- *Whole driver*: `ImplementsNotifications` is immediate, as every step that is not one of
  files is one of `Notifications`. `ImplementsFileFilter` is not: a step of the control
  thread is, for the files, a start or a stop of the filter or nothing, and which one
  follows from where the control thread can be with which handle, that is from the
  invariant of the driver (`FilteringMoves`, `StepIsFiltered`); the return of
  `FltUnregisterFilter` is the end of an unregistration because of `MayReturn`. All
  theorems about the two components hold of the whole driver from there on.
  `ImageIsForgotten` combines the two invariants. `FileContextKnown` needs one of its own:
  a line depends on an event that was made long before, so `EventsAreKnown` says of
  every outstanding event that its process is known. It is made while the
  process routine is registered (`FilteringIsWatched`: the filter is on only inside of the
  four notifications), and nobody becomes unknown (`KnownStaysKnown`). Assumes
  `FilesAssumption` and what `Notifications` assumes.
- *System*: `NeverConnects` turns the counterexample of the run `procmonel` into a
  statement about every behaviour: in this build the console never gets a port, a
  listener or its prompt, whatever the driver does; `ConsoleGivesUp` adds that `main`
  returns. `PartsAreThemselves` says that neither part disturbs the other: the whole
  driver implements `FilterDriver` and the console `Console`, so that what is proved
  of either holds side by side.

`TypeOK` of `DriverLifecycle` is checked in the run `notifications`, as a part of
`NTypeOK`. The inductive invariants, that of the console's progress (`ReadyInv`)
included, were checked by TLC on the instances of the runs as well.

### Progress

The provers have no rule for `ENABLED`, and so none for `WF_vars(A)`. Each module
therefore states its fairness a second time, with the condition of each fair action
spelt out: `[]<>~Guard \/ []<><<A>>_vars` (`ControlFair`, `RoutineFair`,
`OperationFair`, `VolumeFair`, `UnregisterFair`, `ListenerFair`, `MainFair`,
`SendFair`, and the conjuncts of `DFair`). The theorems assume this form.

| theorem | property | argument |
|---|---|---|
| `ControlEnds` (`EntryEnds`, `UnloadEnds`) | `LoadAndUnloadEnd` of the driver by itself | while a call waits, the set of callable routines does not change, so that a thread that has left a removed routine cannot be in it again (`ClearStaysClear`); when all threads are clear the call returns (`CallReturns`); the calls form a path to the end |
| `LifecycleProgresses` | `LoadAndUnloadEnd`, with processes and threads | a routine that runs through its `Notify` is one that is left (`FairImplements`): the composition refines the lifecycle with its fairness |
| `DriverProgresses` | `LoadAndUnloadEnd` of the whole driver | while the control thread waits in `FltUnregisterFilter` the filter is draining; by the theorems of `FileFilter` its instances, if queries are answered, are all gone in the end and stay so, and from then on the wait is the one of `Notifications` (`LoadFairImplements`) |
| `TeardownsProgress` | `TeardownsFinish`, in the whole driver | a query that is answered here is answered in `FileFilter` (`SameQueries`), and what is fair here is fair there; that the filter is off in the end is `DriverProgresses` again, as the return is the control thread's |
| `TeardownsEnd` (`DetachEnds`, `UnregisterEnds`) | `TeardownsFinish` | with `QueriesAnswered`, an operation above or below us on a draining volume moves on by one stage (`OperationMoves`) and no other one comes (`AwayStaysAway`); instances go one by one and do not come back (`InstancesGo`) |
| `ExitFinishesForTen` | `ExitFinishes` | `main` reaches the join; from then on the event is set and the port is closed, so that each listener is a bounded number of steps from its end (`JoinRunsDown`) |
| `QueueIsServedForTen` | `QueueIsServed` | with a full queue no request is pending and the port is served (`FullIsBusy`), so that one that listens is at most four steps from taking a message (`ToServe`), unless unexpected results never end |
| `SendsReturn` | `SendReturns` | the timer |

The sets over which these arguments count are finite, and how large they may be is an
assumption, because the provers have no induction over temporal formulas. The console
has the ten listeners of `COMM_NUMBER_OF_LISTENER_THREADS` (`ComDriver.c:6`), taken one
after the other. Threads in the driver, operations in flight and volumes are at most
65,536 each (`FewThreads`, `Few`): that two sets which come to rest do so together
(`TwoDrain`, `TwoEmpty`, `TwoTearDown`) doubles a number, and sixteen doublings are
written out. A seventeenth line would make it 131,072; nothing depends on the number.

### Guards

That the two forms say the same is a matter of each guard being the enabling condition.
In `FileFilter` and `DriverPort` the guard is the one the action is written with, and so
it is for `LeaveRoutine`, that of a thread inside a routine. For the control thread of
`DriverLifecycle` and in `Console` it sums up a dozen actions. For the console the
invariant `NobodyHangs` says that it is exactly their enabling condition. It
is a property of its own: a listener whose next step waits for something that need not
happen violates it. TLC checks it with `ENABLED`; proved is what takes the place of
`ENABLED` by its definition, for every value of the constants: the action implies its
guard, and under the guard one next state, given by a value for each variable, makes
it a step that changes something.

| theorem | action | next state | when |
|---|---|---|---|
| `ControlReadyIsEnabled` | `Control` of the driver | `GoesOn`: the call succeeds | always |
| `RunnableIsEnabled` | `CommpMessageListner(t)` | `ListenerGoes(t)`: nothing runs short | in well-typed states |
| `MainRunnableIsEnabled` | `UninitCommunication` | `MainGoes` | always |
| `RecordIsEnabled`, `SomebodyNamed` | the pre-operation in the whole driver, when its query has been answered | `Records(o, p)`, for a `p` that it can name | in reachable states: whoever issued an operation stays nameable, and the first process is there for operations without a thread |

No run has the fairness of `FilterDriver`: its progress is the theorem
`DriverProgresses`, from `LoadAndUnloadEnd` and `TeardownsFinish` that the runs
`lifecycle` and `file_filter` check of its parts.

The step from these theorems to the formula with `ENABLED` is the definition of the
operator, and is left to the reader.

### Model-checked only

`NobodyHangs` of the console as the formula that it is, with `ENABLED`: proved are the
theorems under *Guards*. Progress for more than the numbers above is not claimed. The runs
that expect a violation are findings: `NeverConnects` is the theorem for one of them, the
others are about single behaviours, for which TLC's trace is the proof.

## Not modelled

- Path texts, names of values, time stamps and layout of the lines: no property is
  about them.
- The operation-status path (`ProcMonelFilterPreOperationNoPostOperation`,
  `ProcMonelFilterOperationStatusCallback`,
  `ProcMonelFilterDoRequestOperationStatus`): named only inside `#if 0` or by one
  another, nothing runs it.
- The end of standard input, where `main` prompts for ever: the prompt is modelled
  without its input, as nothing in the repository says what should happen then.
- The commented-out calls as such: `DriverPort` models the functions they would
  reach, not their wiring into `DriverEntry`.
- Identifiers of processes and threads that are used again.
- Project, resource and installation files.

## State

Every component with state is modelled, and every safety property that a passing
run checks is proved, except those that speak of `ENABLED`; so is every liveness
property, for sets of the sizes given. `FilterDriver` is
the whole driver and `Procmonel` all of it with the console. If the port is put to use,
`DriverPort` is to be composed with `FilterDriver` and `Console` in `Procmonel` along the
calls that are commented out today.
