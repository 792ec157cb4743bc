---------------------------- MODULE RegistryMonitor ----------------------------
(***************************************************************************)
(* The handlers of RegistryCallback.                                       *)
(*                                                                         *)
(* When a registry operation is finished the configuration manager calls   *)
(* RegistryCallback on the thread that made it.  The handlers for set      *)
(* value, delete key and delete value look up the name of the key: they    *)
(* ask for its length, allocate that much, and ask for the name.  None of  *)
(* the allocations is checked.  Other threads rename and delete the key    *)
(* meanwhile.                                                              *)
(*                                                                         *)
(* A step of a handler ends where it looks at the registry: what it does   *)
(* from there to the next look is local to it.  The registry itself is     *)
(* external.                                                               *)
(***************************************************************************)
EXTENDS Naturals

CONSTANTS
  Threads,      (* The threads that use the registry.                      *)
  Keys,         (* The keys.                                               *)
  Names,        (* The complete names that a key may have.                 *)
  Size,         (* The length of each name.                                *)
  Classes,      (* The kinds of operations that are made.                  *)
  PoolMayFail,  (* Whether resources run short: ExAllocatePoolWithTag may  *)
                (* return NULL, ObQueryNameString may fail for any key.    *)
  None          (* No operation, no line; as a path, the empty string.     *)

(* The notify classes with a handler, and one for all the others.          *)
Handled    == {"CreateKeyEx", "SetValueKey", "DeleteKey", "DeleteValueKey"}
AllClasses == Handled \cup {"QueryKey"}

Statuses == {"success", "error"}

Requests == [class : Classes, key : Keys, status : Statuses, asked : Names]
Lines    == [operation : Handled, thread : Threads,
             path : Names \cup {None}, result : Statuses]

ASSUME RegistryAssumption ==
  /\ Size \in [Names -> Nat]
  /\ Classes \subseteq AllClasses
  /\ PoolMayFail \in BOOLEAN
  /\ None \notin Names \cup Requests \cup Lines

VARIABLES
  name,      (* The complete name of each key, or its last one.            *)
  deleted,   (* The keys that are deleted.                                 *)
  system,    (* "up", or "crashed" by freeing a null pointer.              *)
  pc,        (* The next step of each thread.                              *)
  request,   (* The operation each thread made last, or None: its class,   *)
             (* key and status, and the name that a create asked for.      *)
  path,      (* What registryPath of the handler says.                     *)
  buffers,   (* registryPath.Buffer and ObjectName of each handler.        *)
  length,    (* returnedLength of each handler.                            *)
  pool,      (* The blocks allocated with REGISTRY_POOL_TAG.               *)
  log,       (* The line printed about each request, or None.              *)
  since,     (* History: the names the key had since the request was made, *)
             (* and None if it was deleted then.                           *)
  refused    (* History: the threads whose last look-up failed for want of *)
             (* resources.                                                 *)

registry == <<name, deleted>>
vars == <<name, deleted, system, pc, request, path, buffers, length, pool,
          log, since, refused>>

Blocks == {"registryPath", "ObjectName"}
Steps  == {"idle", "callback", "queryLength", "queryName", "report"}

TypeOK ==
  /\ name \in [Keys -> Names]
  /\ deleted \subseteq Keys
  /\ system \in {"up", "crashed"}
  /\ pc \in [Threads -> Steps]
  /\ request \in [Threads -> Requests \cup {None}]
  /\ path \in [Threads -> Names \cup {None}]
  /\ buffers \in [Threads -> [Blocks -> {"unset", "NULL", "block"}]]
  /\ length \in [Threads -> Nat]
  /\ pool \subseteq Threads \X Blocks
  /\ log \in [Threads -> Lines \cup {None}]
  /\ since \in [Threads -> SUBSET (Names \cup {None})]
  /\ refused \subseteq Threads

-----------------------------------------------------------------------------
Unset == [b \in Blocks |-> "unset"]

Init ==
  /\ name \in [Keys -> Names]
  /\ deleted \in SUBSET Keys
  /\ system = "up"
  /\ pc = [t \in Threads |-> "idle"]
  /\ request = [t \in Threads |-> None]
  /\ path = [t \in Threads |-> None]
  /\ buffers = [t \in Threads |-> Unset]
  /\ length = [t \in Threads |-> 0]
  /\ pool = {}
  /\ log = [t \in Threads |-> None]
  /\ since = [t \in Threads |-> {}]
  /\ refused = {}

(* The thread is in an operation on the key.                               *)
Uses(t, k) == pc[t] # "idle" /\ request[t].key = k

(* What an operation does to the registry.  A create opens the key that    *)
(* has the name, or makes a new one.                                       *)
Effect(class, k, status, n) ==
  \/ status = "error" /\ UNCHANGED registry
  \/ /\ status = "success"
     /\ k \notin deleted
     /\ n = name[k]
     /\ deleted' = IF class = "DeleteKey" THEN deleted \cup {k} ELSE deleted
     /\ UNCHANGED name
  \/ /\ status = "success"
     /\ class = "CreateKeyEx"
     /\ k \in deleted
     /\ \A t \in Threads : ~Uses(t, k)
     /\ name' = [name EXCEPT ![k] = n]
     /\ deleted' = deleted \ {k}

(* What there is to see of the key after that; a create does not look.     *)
Seen(class, k, status) ==
  {n \in {name[k], None} :
     n = None => k \in deleted \/ (class = "DeleteKey" /\ status = "success")}

(* A thread makes an operation; its post-notification is to come.          *)
Operate(t) ==
  /\ system = "up"
  /\ pc[t] = "idle"
  /\ \E class \in Classes, k \in Keys, status \in Statuses, n \in Names :
       /\ Effect(class, k, status, n)
       /\ request' = [request EXCEPT ![t] =
            [class |-> class, key |-> k, status |-> status, asked |-> n]]
       /\ since' = [u \in Threads |->
            IF u = t THEN Seen(class, k, status)
            ELSE IF Uses(u, k) THEN since[u] \cup Seen(class, k, status)
            ELSE since[u]]
  /\ pc' = [pc EXCEPT ![t] = "callback"]
  /\ log' = [log EXCEPT ![t] = None]
  /\ refused' = refused \ {t}
  /\ UNCHANGED <<system, path, buffers, length, pool>>

(* Somebody renames a key, or a key above it.                              *)
Rename(k) ==
  /\ system = "up"
  /\ k \notin deleted
  /\ \E n \in Names :
       /\ name' = [name EXCEPT ![k] = n]
       /\ since' = [t \in Threads |->
            IF Uses(t, k) THEN since[t] \cup {n} ELSE since[t]]
  /\ UNCHANGED <<deleted, system, pc, request, path, buffers, length, pool,
                 log, refused>>

-----------------------------------------------------------------------------
(* ExAllocatePoolWithTag, into a local variable and without a test.        *)
Allocate(t, b) ==
  \/ /\ buffers' = [buffers EXCEPT ![t][b] = "block"]
     /\ pool' = pool \cup {<<t, b>>}
  \/ /\ PoolMayFail
     /\ buffers' = [buffers EXCEPT ![t][b] = "NULL"]
     /\ UNCHANGED pool

(* ExFreePoolWithTag: with a null pointer it brings the system down.       *)
Free(t, b) ==
  \/ /\ buffers[t][b] = "block"
     /\ pool' = pool \ {<<t, b>>}
     /\ buffers' = [buffers EXCEPT ![t][b] = "unset"]
     /\ UNCHANGED system
  \/ /\ buffers[t][b] # "block"
     /\ system' = "crashed"
     /\ UNCHANGED <<pool, buffers>>

(* Slip: the line always says "Success", as those about processes do.      *)
LineSuccess(t, p) ==
  [operation |-> request[t].class, thread |-> t, path |-> p,
   result |-> "success"]

(* The line about a request, with the process of the current thread.       *)
Line(t, p) ==
  [operation |-> request[t].class, thread |-> t, path |-> p,
   result |-> request[t].status]

At(t, step)   == system = "up" /\ pc[t] = step /\ UNCHANGED <<registry, since>>
Goto(t, step) == pc' = [pc EXCEPT ![t] = step] /\ UNCHANGED request

(* Classes without a handler are ignored.                                  *)
Ignore(t) ==
  /\ At(t, "callback")
  /\ request[t].class \notin Handled
  /\ Goto(t, "idle")
  /\ UNCHANGED <<system, path, buffers, length, pool, log, refused>>

(* Slip: a failed operation is not worth a line.                           *)
ReportOnlyCreated(t) ==
  /\ At(t, "callback")
  /\ request[t].class \in Handled
  /\ request[t].status = "error" \/ request[t].class = "CreateKeyEx"
  /\ log' = [log EXCEPT ![t] = IF request[t].status = "success"
                               THEN Line(t, request[t].asked) ELSE None]
  /\ Goto(t, "idle")
  /\ UNCHANGED <<system, path, buffers, length, pool, refused>>

(* Slip: a class without a handler falls through to the line.              *)
ReportAnyClass(t) ==
  /\ At(t, "callback")
  /\ request[t].status = "error" \/ request[t].class = "CreateKeyEx"
  /\ log' = [log EXCEPT ![t] =
       Line(t, IF request[t].class = "CreateKeyEx"
               THEN request[t].asked ELSE None)]
  /\ Goto(t, "idle")
  /\ UNCHANGED <<system, path, buffers, length, pool, refused>>

(* A create is reported with the name it was given, a failure of one of    *)
(* the others without the name of the key.                                 *)
ReportAtOnce(t) ==
  /\ At(t, "callback")
  /\ request[t].class \in Handled
  /\ request[t].status = "error" \/ request[t].class = "CreateKeyEx"
  /\ log' = [log EXCEPT ![t] =
       Line(t, IF request[t].class = "CreateKeyEx"
               THEN request[t].asked ELSE None)]
  /\ Goto(t, "idle")
  /\ UNCHANGED <<system, path, buffers, length, pool, refused>>

(* Slip: the path is that of the last call, registryPath.Length is not     *)
(* set to 0 again.                                                         *)
AllocatePathStale(t) ==
  /\ At(t, "callback")
  /\ request[t].class \in Handled \ {"CreateKeyEx"}
  /\ request[t].status = "success"
  /\ Allocate(t, "registryPath")
  /\ Goto(t, "queryLength")
  /\ UNCHANGED <<system, path, length, log, refused>>

(* The handlers of the other three: an empty path with 64 KB to grow into. *)
AllocatePath(t) ==
  /\ At(t, "callback")
  /\ request[t].class \in Handled \ {"CreateKeyEx"}
  /\ request[t].status = "success"
  /\ path' = [path EXCEPT ![t] = None]
  /\ Allocate(t, "registryPath")
  /\ Goto(t, "queryLength")
  /\ UNCHANGED <<system, length, log, refused>>

-----------------------------------------------------------------------------
(* GetRegistryObjectCompleteName.                                          *)

(* ObQueryNameString may fail if the key is deleted, or if the system is   *)
(* short of resources.                                                     *)
QueryRefused(t) ==
  \/ request[t].key \in deleted /\ UNCHANGED refused
  \/ PoolMayFail /\ refused' = refused \cup {t}

(* Without a length nothing is looked up.                                  *)
QueryLengthRefused(t) ==
  /\ At(t, "queryLength")
  /\ QueryRefused(t)
  /\ Goto(t, "report")
  /\ UNCHANGED <<system, path, buffers, length, pool, log>>

(* Slip: the terminating character is not counted, or forgotten.           *)
QueryLengthOffByOne(t) ==
  /\ At(t, "queryLength")
  /\ length' = [length EXCEPT ![t] = Size[name[request[t].key]] - 1]
  /\ Allocate(t, "ObjectName")
  /\ Goto(t, "queryName")
  /\ UNCHANGED <<system, path, log, refused>>

QueryLength(t) ==
  /\ At(t, "queryLength")
  /\ length' = [length EXCEPT ![t] = Size[name[request[t].key]]]
  /\ Allocate(t, "ObjectName")
  /\ Goto(t, "queryName")
  /\ UNCHANGED <<system, path, log, refused>>

(* The second query succeeds, and its answer can be copied: the name has   *)
(* not become longer, and both blocks are there.                           *)
CanCopy(t) ==
  /\ Size[name[request[t].key]] <= length[t]
  /\ buffers[t] = [b \in Blocks |-> "block"]

(* Slip: the block is only freed after a copy.                             *)
QueryNameLeaks(t) ==
  /\ At(t, "queryName")
  /\ \/ CanCopy(t) /\ path' = [path EXCEPT ![t] = name[request[t].key]]
                   /\ Free(t, "ObjectName")
     \/ ~CanCopy(t) /\ UNCHANGED <<system, path, pool, buffers>>
  /\ Goto(t, "report")
  /\ UNCHANGED <<length, log, refused>>

QueryName(t) ==
  /\ At(t, "queryName")
  /\ \/ /\ CanCopy(t)
        /\ path' = [path EXCEPT ![t] = name[request[t].key]]
        /\ UNCHANGED refused
     \/ ~CanCopy(t) /\ UNCHANGED <<path, refused>>
     \/ QueryRefused(t) /\ UNCHANGED path
  /\ Free(t, "ObjectName")
  /\ Goto(t, "report")
  /\ UNCHANGED <<length, log>>

GetRegistryObjectCompleteName(t) ==
  QueryLengthRefused(t) \/ QueryLength(t) \/ QueryName(t)

-----------------------------------------------------------------------------
(* Slip: both blocks are freed at the end, allocated or not.               *)
ReportFreesBoth(t) ==
  /\ At(t, "report")
  /\ log' = [log EXCEPT ![t] = Line(t, path[t])]
  /\ pool' = pool \ ({t} \X Blocks)
  /\ system' = IF buffers[t] = [b \in Blocks |-> "block"] THEN "up" ELSE "crashed"
  /\ buffers' = [buffers EXCEPT ![t] = Unset]
  /\ Goto(t, "idle")
  /\ UNCHANGED <<path, length, refused>>

(* The end of the three handlers: the line, and the free.                  *)
Report(t) ==
  /\ At(t, "report")
  /\ log' = [log EXCEPT ![t] = Line(t, path[t])]
  /\ Free(t, "registryPath")
  /\ Goto(t, "idle")
  /\ UNCHANGED <<path, length, refused>>

RegistryCallback(t) ==
  \/ Ignore(t)
  \/ ReportAtOnce(t)
  \/ AllocatePath(t)
  \/ GetRegistryObjectCompleteName(t)
  \/ Report(t)

Next ==
  \/ \E k \in Keys : Rename(k)
  \/ \E t \in Threads : Operate(t) \/ RegistryCallback(t)

Spec == Init /\ [][Next]_vars

-----------------------------------------------------------------------------
(* On every path through the handlers a block is freed exactly once: the   *)
(* pool holds what the running handlers hold, and a handler that returned  *)
(* holds nothing.                                                          *)
HandlersFreeTheirBlocks ==
  /\ pool = {block \in Threads \X Blocks : buffers[block[1]][block[2]] = "block"}
  /\ \A t \in Threads : pc[t] \in {"idle", "callback"} =>
       \A b \in Blocks : buffers[t][b] # "block"

(* What a failed allocation comes to: the system goes down exactly when a  *)
(* handler frees the block that it did not get; no such handler returns    *)
(* alive, and nothing else brings the system down.                         *)
CrashIffAllocationFailed ==
  /\ system = "crashed" => \E t \in Threads, b \in Blocks : buffers[t][b] = "NULL"
  /\ \A t \in Threads : pc[t] \in {"idle", "callback"} /\ system = "up" =>
       buffers[t] = Unset

Reported(t) == pc[t] = "idle" /\ log[t] # None

(* A path in a line, however the handlers interleave with one another and  *)
(* with renames, is a name that this very key had between the operation    *)
(* and the line.                                                           *)
PathIsOfTheKey ==
  \A t \in Threads :
    Reported(t) /\ log[t].path # None /\ request[t].class # "CreateKeyEx"
      => log[t].path \in since[t]

(* A line without a path is about a failure, or the key was deleted, or it *)
(* got a longer name between the two queries, or one of these failed for   *)
(* want of resources, or it is the last line of a system that goes down.   *)
EmptyPathHasAReason ==
  \A t \in Threads :
    Reported(t) /\ log[t].path = None /\ log[t].result = "success"
      => \/ None \in since[t]
         \/ \E m, n \in since[t] \ {None} : Size[m] < Size[n]
         \/ t \in refused
         \/ system = "crashed"

(* Every operation of a handled class has its line when its callback has   *)
(* returned.                                                               *)
HandledOpsReported ==
  \A t \in Threads :
    /\ pc[t] = "idle"
    /\ request[t] # None
    => (log[t] # None <=> request[t].class \in Handled)

(* The line about a successful change of a value shows the path of the key *)
(* (README: "[Path]"; Callbacks.c: "Retrieves RegistryKey Name") if the    *)
(* key is still there and memory lasts.                                    *)
PathIsShown ==
  ~PoolMayFail =>
    \A t \in Threads :
      /\ Reported(t)
      /\ log[t].result = "success"
      /\ None \notin since[t]
      => log[t].path # None

-----------------------------------------------------------------------------
(* The handlers as a monitor: a thread is the actor of its own operations, *)
(* and nothing is torn.                                                    *)
M == INSTANCE Monitor WITH
       Slots    <- Threads,
       Actors   <- Threads,
       Outcomes <- Statuses,
       status   <- [t \in Threads |->
                      IF pc[t] = "idle" THEN "idle" ELSE "underway"],
       actor    <- [t \in Threads |-> IF request[t] = None THEN None ELSE t],
       result   <- [t \in Threads |-> IF request[t] = None
                                     THEN "success" ELSE request[t].status],
       report   <- [t \in Threads |->
                      IF log[t] = None THEN None
                      ELSE [actor |-> log[t].thread, result |-> log[t].result]]

(* At most one report about every registry operation, about the thread     *)
(* that made it and with its status: the callback keeps the promise of     *)
(* Monitor.                                                                *)
ImplementsMonitor == M!Spec
=============================================================================
