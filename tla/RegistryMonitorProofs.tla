------------------------- MODULE RegistryMonitorProofs -------------------------
(***************************************************************************)
(* Proofs about RegistryMonitor, for any number of threads, keys and       *)
(* names: its safety properties, and that it implements Monitor.           *)
(*                                                                         *)
(* A handler is local but for the registry, so that IInv says of each      *)
(* thread what it holds (HoldsAt), what it knows of the key (KnowsAt) and, *)
(* when it has returned, what its line is like (LineAt); the history since *)
(* ties the first two to what the other threads do to the key.             *)
(***************************************************************************)
EXTENDS RegistryMonitor, TLAPS

Looking == {"queryLength", "queryName", "report"}

(* The blocks of each handler.  After a crash one of them is missing.      *)
HoldsAt ==
  /\ pool = {block \in Threads \X Blocks : buffers[block[1]][block[2]] = "block"}
  /\ \A t \in Threads :
       /\ pc[t] \in {"idle", "callback"} =>
            \A b \in Blocks : buffers[t][b] # "block"
       /\ system = "up" =>
            /\ pc[t] \in {"idle", "callback"} => buffers[t] = Unset
            /\ pc[t] \in Looking => buffers[t]["registryPath"] # "unset"
            /\ pc[t] \in {"queryLength", "report"} =>
                 buffers[t]["ObjectName"] = "unset"
            /\ pc[t] = "queryName" => buffers[t]["ObjectName"] # "unset"
  /\ system = "crashed" => \E t \in Threads, b \in Blocks : buffers[t][b] = "NULL"

(* What a handler knows of its key, whatever others do to the key.         *)
Named(t) == since[t] \ {None}
KnowsOf(t) ==
  /\ pc[t] # "idle" =>
       /\ request[t] # None
       /\ request[t].class # "CreateKeyEx" => name[request[t].key] \in since[t]
       /\ request[t].key \in deleted => None \in since[t]
  /\ pc[t] \in Looking =>
       /\ request[t].class \in Handled \ {"CreateKeyEx"}
       /\ request[t].status = "success"
       /\ path[t] \in since[t] \cup {None}
  /\ pc[t] = "queryName" => \E m \in Named(t) : length[t] = Size[m]
  /\ pc[t] = "report" /\ path[t] = None /\ system = "up" =>
       \/ None \in since[t]
       \/ \E m, n \in Named(t) : Size[m] < Size[n]
       \/ t \in refused
       \/ buffers[t]["registryPath"] = "NULL"
KnowsAt == \A t \in Threads : KnowsOf(t)

(* What the line of a finished operation is like.                          *)
LineOf(t) ==
  /\ request[t] = None => log[t] = None
  /\ pc[t] # "idle" => log[t] = None
  /\ log[t] # None =>
       log[t].thread = t /\ log[t].result = request[t].status
  /\ Reported(t) /\ log[t].path # None /\ request[t].class # "CreateKeyEx"
       => log[t].path \in since[t]
  /\ Reported(t) /\ log[t].path = None /\ log[t].result = "success"
       => \/ None \in since[t]
          \/ \E m, n \in since[t] \ {None} : Size[m] < Size[n]
          \/ t \in refused
          \/ system = "crashed"
  /\ pc[t] = "idle" /\ request[t] # None
       => (log[t] # None <=> request[t].class \in Handled)
LineAt == \A t \in Threads : LineOf(t)

IInv ==
  /\ TypeOK
  /\ HoldsAt
  /\ KnowsAt
  /\ LineAt

(* A request is one; names are names.                                      *)
LEMMA NoneIsNone ==
  None \notin Names /\ None \notin Requests /\ None \notin Lines
BY RegistryAssumption

-----------------------------------------------------------------------------
LEMMA InitIInv == Init => IInv
BY NoneIsNone, RegistryAssumption
   DEF Init, IInv, TypeOK, HoldsAt, KnowsAt, KnowsOf, LineAt, LineOf, Reported, Unset, Steps,
       Looking

(* The environment: what is new to see of a key is recorded.               *)
LEMMA OperateKeepsIInv ==
  ASSUME IInv, NEW t \in Threads, Operate(t)
  PROVE  IInv'
<1>. USE DEF IInv
<1>1. PICK class \in Classes, k \in Keys, status \in Statuses, n \in Names :
        /\ Effect(class, k, status, n)
        /\ request' = [request EXCEPT ![t] =
             [class |-> class, key |-> k, status |-> status, asked |-> n]]
        /\ since' = [u \in Threads |->
             IF u = t THEN Seen(class, k, status)
             ELSE IF Uses(u, k) THEN since[u] \cup Seen(class, k, status)
             ELSE since[u]]
  BY DEF Operate
<1>2. request'[t] = [class |-> class, key |-> k, status |-> status, asked |-> n]
      /\ request'[t] \in Requests
  BY <1>1 DEF TypeOK, Requests
<1>3. TypeOK'
  <2>1. name' \in [Keys -> Names] /\ deleted' \subseteq Keys
    BY <1>1 DEF TypeOK, Effect, registry
  <2>2. Seen(class, k, status) \subseteq Names \cup {None}
    BY DEF TypeOK, Seen
  <2>3. since' \in [Threads -> SUBSET (Names \cup {None})]
    BY <1>1, <2>2 DEF TypeOK
  <2>. QED
    BY <1>1, <1>2, <2>1, <2>3 DEF TypeOK, Operate, Steps
<1>4. HoldsAt'
  BY <1>1 DEF TypeOK, HoldsAt, Operate, Looking, Blocks
<1>5. KnowsAt'
  <2>. SUFFICES ASSUME NEW u \in Threads
                PROVE  KnowsOf(u)'
    BY DEF KnowsAt
  <2>1. CASE u = t
    BY <1>1, <1>2, <2>1, NoneIsNone
       DEF TypeOK, Operate, Effect, registry, Seen, Looking, KnowsOf
  <2>2. CASE u # t /\ Uses(u, k)
    <3>1. pc'[u] = pc[u] /\ request'[u] = request[u] /\ path'[u] = path[u]
          /\ length'[u] = length[u] /\ buffers'[u] = buffers[u]
          /\ since'[u] = since[u] \cup Seen(class, k, status)
      BY <1>1, <2>2 DEF TypeOK, Operate
    <3>2. deleted' \subseteq deleted \/ None \in Seen(class, k, status)
      BY <1>1 DEF Effect, registry, Seen
    <3>3. name' = name
      BY <1>1, <2>2 DEF Effect, registry
    <3>. QED
      BY <2>2, <3>1, <3>2, <3>3, NoneIsNone
         DEF TypeOK, KnowsAt, KnowsOf, Operate, Uses, Named, Effect
  <2>3. CASE u # t /\ ~Uses(u, k)
    <3>1. pc'[u] = pc[u] /\ request'[u] = request[u] /\ path'[u] = path[u]
          /\ length'[u] = length[u] /\ buffers'[u] = buffers[u]
          /\ since'[u] = since[u]
      BY <1>1, <2>3 DEF TypeOK, Operate
    <3>2. pc[u] # "idle" =>
            /\ name'[request[u].key] = name[request[u].key]
            /\ request[u].key \in deleted' => request[u].key \in deleted
      BY <1>1, <2>3, NoneIsNone
         DEF TypeOK, KnowsAt, KnowsOf, Effect, registry, Uses, Requests
    <3>. QED
      BY <3>1, <3>2 DEF TypeOK, KnowsAt, KnowsOf, Operate, Named
  <2>. QED
    BY <2>1, <2>2, <2>3
<1>6. LineAt'
  BY <1>1, <1>2, NoneIsNone
     DEF TypeOK, LineAt, LineOf, Operate, Reported, Uses
<1>. QED
  BY <1>3, <1>4, <1>5, <1>6

(* A new name is one more name that was seen.                              *)
LEMMA RenameKeepsIInv ==
  ASSUME IInv, NEW k \in Keys, Rename(k)
  PROVE  IInv'
<1>. USE DEF IInv
<1>1. PICK n \in Names :
        /\ name' = [name EXCEPT ![k] = n]
        /\ since' = [t \in Threads |->
             IF Uses(t, k) THEN since[t] \cup {n} ELSE since[t]]
  BY DEF Rename
<1>2. \A t \in Threads :
        /\ since[t] \subseteq since'[t]
        /\ pc[t] = "idle" => since'[t] = since[t]
  BY <1>1 DEF Uses
<1>3. TypeOK'
  BY <1>1 DEF TypeOK, Rename
<1>4. HoldsAt' /\ LineAt'
  BY <1>2 DEF TypeOK, HoldsAt, LineAt, LineOf, Reported, Rename
<1>5. KnowsAt'
  <2>. SUFFICES ASSUME NEW t \in Threads
                PROVE  KnowsOf(t)'
    BY DEF KnowsAt
  <2>1. pc[t] # "idle" /\ request[t].class # "CreateKeyEx"
          => name'[request[t].key] \in since'[t]
    BY <1>1, <1>2, NoneIsNone
       DEF TypeOK, KnowsAt, KnowsOf, Uses, Requests
  <2>. QED
    BY <1>2, <2>1 DEF KnowsAt, KnowsOf, Named, Rename
<1>. QED
  BY <1>3, <1>4, <1>5

-----------------------------------------------------------------------------
(* What the steps of a handler leave alone.                                *)
LEMMA HandlersAreLocal ==
  ASSUME TypeOK, NEW t \in Threads, RegistryCallback(t)
  PROVE  /\ system = "up"
         /\ pc[t] # "idle"
         /\ UNCHANGED <<name, deleted, request, since>>
         /\ \A u \in Threads \ {t} :
              /\ pc'[u] = pc[u]
              /\ path'[u] = path[u]
              /\ buffers'[u] = buffers[u]
              /\ length'[u] = length[u]
              /\ log'[u] = log[u]
              /\ u \in refused' <=> u \in refused
BY DEF TypeOK, RegistryCallback, GetRegistryObjectCompleteName, Ignore,
       ReportAtOnce, AllocatePath, QueryRefused, QueryLengthRefused,
       QueryLength, QueryName, Report, At, Goto, Allocate, Free, registry

(* The allocator and the local variables agree on what is allocated.       *)
Held == {block \in Threads \X Blocks : buffers[block[1]][block[2]] = "block"}
BuffersOK == buffers \in [Threads -> [Blocks -> {"unset", "NULL", "block"}]]

LEMMA AllocateHolds ==
  ASSUME BuffersOK, pool = Held, NEW t \in Threads, NEW b \in Blocks,
         Allocate(t, b), buffers[t][b] # "block"
  PROVE  /\ BuffersOK'
         /\ pool' = Held'
         /\ buffers'[t][b] \in {"NULL", "block"}
         /\ \A c \in Blocks \ {b} : buffers'[t][c] = buffers[t][c]
         /\ \A u \in Threads \ {t} : buffers'[u] = buffers[u]
<1>. USE DEF BuffersOK, Held
<1>1. CASE /\ buffers' = [buffers EXCEPT ![t][b] = "block"]
           /\ pool' = pool \cup {<<t, b>>}
  BY <1>1
<1>2. CASE /\ buffers' = [buffers EXCEPT ![t][b] = "NULL"]
           /\ UNCHANGED pool
  BY <1>2
<1>. QED
  BY <1>1, <1>2 DEF Allocate

LEMMA FreeHolds ==
  ASSUME BuffersOK, pool = Held, NEW t \in Threads, NEW b \in Blocks,
         Free(t, b), system = "up"
  PROVE  /\ BuffersOK'
         /\ pool' = Held'
         /\ system' \in {"up", "crashed"}
         /\ system' = "up" => buffers'[t][b] = "unset"
         /\ system' = "crashed" =>
              buffers[t][b] # "block" /\ UNCHANGED buffers
         /\ \A c \in Blocks \ {b} : buffers'[t][c] = buffers[t][c]
         /\ \A u \in Threads \ {t} : buffers'[u] = buffers[u]
<1>. USE DEF BuffersOK, Held
<1>1. CASE buffers[t][b] = "block"
  <2>1. /\ pool' = pool \ {<<t, b>>}
        /\ buffers' = [buffers EXCEPT ![t][b] = "unset"]
        /\ system' = system
    BY <1>1 DEF Free
  <2>. QED
    BY <2>1
<1>2. CASE buffers[t][b] # "block"
  BY <1>2 DEF Free
<1>. QED
  BY <1>1, <1>2

LEMMA CallbackKeepsTypeOK ==
  ASSUME IInv, NEW t \in Threads, RegistryCallback(t)
  PROVE  TypeOK'
<1>. USE DEF IInv, TypeOK, At, Goto, registry, Steps
<1>0. BuffersOK /\ pool = Held
  BY DEF BuffersOK, Held, HoldsAt
<1>1. CASE Ignore(t)
  BY <1>1 DEF Ignore
<1>2. CASE ReportAtOnce(t)
  <2>1. request[t] \in Requests
    BY <1>2 DEF ReportAtOnce, KnowsAt, KnowsOf
  <2>2. log' \in [Threads -> Lines \cup {None}]
    BY <1>2, <2>1 DEF ReportAtOnce, Line, Lines, Requests
  <2>. QED
    BY <1>2, <2>2 DEF ReportAtOnce
<1>3. CASE AllocatePath(t)
  <2>1. buffers[t]["registryPath"] # "block"
    BY <1>3 DEF AllocatePath, HoldsAt, Blocks
  <2>2. BuffersOK' /\ pool' = Held'
    BY <1>0, <1>3, <2>1, AllocateHolds DEF AllocatePath, Blocks
  <2>. QED
    BY <1>3, <2>2 DEF AllocatePath, BuffersOK, Held
<1>4. CASE QueryLengthRefused(t)
  BY <1>4 DEF QueryLengthRefused, QueryRefused
<1>5. CASE QueryLength(t)
  <2>1. request[t] \in Requests
    BY <1>5 DEF QueryLength, KnowsAt, KnowsOf
  <2>2. Size[name[request[t].key]] \in Nat
    BY <2>1, RegistryAssumption DEF Requests
  <2>3. buffers[t]["ObjectName"] # "block"
    BY <1>5 DEF QueryLength, HoldsAt, Blocks
  <2>4. BuffersOK' /\ pool' = Held'
    BY <1>0, <1>5, <2>3, AllocateHolds DEF QueryLength, Blocks
  <2>. QED
    BY <1>5, <2>2, <2>4 DEF QueryLength, BuffersOK, Held
<1>6. CASE QueryName(t)
  <2>1. request[t] \in Requests
    BY <1>6 DEF QueryName, KnowsAt, KnowsOf
  <2>2. path' \in [Threads -> Names \cup {None}]
    BY <1>6, <2>1 DEF QueryName, QueryRefused, Requests
  <2>3. BuffersOK' /\ pool' = Held' /\ system' \in {"up", "crashed"}
    BY <1>0, <1>6, FreeHolds DEF QueryName, Blocks
  <2>4. refused' \subseteq Threads
    BY <1>6 DEF QueryName, QueryRefused
  <2>. QED
    BY <1>6, <2>2, <2>3, <2>4 DEF QueryName, BuffersOK, Held
<1>7. CASE Report(t)
  <2>1. request[t] \in Requests
    BY <1>7 DEF Report, KnowsAt, KnowsOf
  <2>2. request[t].class \in Handled
    BY <1>7 DEF Report, KnowsAt, KnowsOf, Looking
  <2>3. log' \in [Threads -> Lines \cup {None}]
    BY <1>7, <2>1, <2>2 DEF Report, Line, Lines, Requests
  <2>4. BuffersOK' /\ pool' = Held' /\ system' \in {"up", "crashed"}
    BY <1>0, <1>7, FreeHolds DEF Report, Blocks
  <2>. QED
    BY <1>7, <2>3, <2>4 DEF Report, BuffersOK, Held
<1>. QED
  BY <1>1, <1>2, <1>3, <1>4, <1>5, <1>6, <1>7
     DEF RegistryCallback, GetRegistryObjectCompleteName

(* A handler gives back what it took, or goes down with the system.        *)
LEMMA CallbackKeepsHoldsAt ==
  ASSUME IInv, NEW t \in Threads, RegistryCallback(t)
  PROVE  HoldsAt'
<1>. USE DEF IInv, TypeOK, HoldsAt, At, Goto, Looking
<1>0. BuffersOK /\ pool = Held
  BY DEF BuffersOK, Held
<1>1. CASE Ignore(t)
  BY <1>1 DEF Ignore
<1>2. CASE ReportAtOnce(t)
  BY <1>2 DEF ReportAtOnce
<1>3. CASE AllocatePath(t)
  <2>1. buffers[t] = Unset
    BY <1>3 DEF AllocatePath
  <2>. DEFINE b == "registryPath"
  <2>2. /\ pool' = Held'
        /\ buffers'[t][b] \in {"NULL", "block"}
        /\ \A c \in Blocks \ {b} : buffers'[t][c] = buffers[t][c]
        /\ \A u \in Threads \ {t} : buffers'[u] = buffers[u]
    BY <1>0, <1>3, <2>1, AllocateHolds DEF AllocatePath, Blocks, Unset
  <2>. QED
    BY <1>3, <2>1, <2>2 DEF AllocatePath, Held, Blocks, Unset
<1>4. CASE QueryLengthRefused(t)
  BY <1>4 DEF QueryLengthRefused
<1>5. CASE QueryLength(t)
  <2>. DEFINE b == "ObjectName"
  <2>1. /\ pool' = Held'
        /\ buffers'[t][b] \in {"NULL", "block"}
        /\ \A c \in Blocks \ {b} : buffers'[t][c] = buffers[t][c]
        /\ \A u \in Threads \ {t} : buffers'[u] = buffers[u]
    BY <1>0, <1>5, AllocateHolds DEF QueryLength, Blocks
  <2>. QED
    BY <1>5, <2>1 DEF QueryLength, Held, Blocks
<1>6. CASE QueryName(t)
  <2>. DEFINE b == "ObjectName"
  <2>1. /\ pool' = Held'
        /\ system' = "up" => buffers'[t][b] = "unset"
        /\ system' = "crashed" =>
             buffers[t][b] # "block" /\ UNCHANGED buffers
        /\ \A c \in Blocks \ {b} : buffers'[t][c] = buffers[t][c]
        /\ \A u \in Threads \ {t} : buffers'[u] = buffers[u]
    BY <1>0, <1>6, FreeHolds DEF QueryName, Blocks
  <2>. QED
    BY <1>6, <2>1 DEF QueryName, Held, Blocks
<1>7. CASE Report(t)
  <2>. DEFINE b == "registryPath"
  <2>1. /\ pool' = Held'
        /\ system' = "up" => buffers'[t][b] = "unset"
        /\ system' = "crashed" =>
             buffers[t][b] # "block" /\ UNCHANGED buffers
        /\ \A c \in Blocks \ {b} : buffers'[t][c] = buffers[t][c]
        /\ \A u \in Threads \ {t} : buffers'[u] = buffers[u]
    BY <1>0, <1>7, FreeHolds DEF Report, Blocks
  <2>2. buffers[t]["ObjectName"] = "unset" /\ buffers[t][b] # "unset"
    BY <1>7 DEF Report
  <2>3. BuffersOK' /\ system' \in {"up", "crashed"}
    BY <1>0, <1>7, FreeHolds DEF Report, Blocks
  <2>4. system' = "up" => buffers'[t] = Unset
    BY <2>1, <2>2, <2>3 DEF Unset, Blocks, BuffersOK
  <2>5. system' = "crashed" => buffers[t][b] = "NULL"
    BY <1>0, <2>1, <2>2 DEF BuffersOK, Blocks
  <2>6. \A c \in Blocks : buffers'[t][c] # "block"
    BY <2>1, <2>2, <2>3, <2>5, <1>0 DEF Blocks, BuffersOK
  <2>7. pc' = [pc EXCEPT ![t] = "idle"]
    BY <1>7 DEF Report
  <2>8. system' = "crashed" => buffers'[t][b] = "NULL"
    BY <2>1, <2>5
  <2>9. b \in Blocks
    BY DEF Blocks
  <2>. HIDE DEF b
  <2>. QED
    BY <1>7, <2>1, <2>4, <2>6, <2>7, <2>8, <2>9 DEF Report, Held
<1>. QED
  BY <1>1, <1>2, <1>3, <1>4, <1>5, <1>6, <1>7
     DEF RegistryCallback, GetRegistryObjectCompleteName

(* What a handler knows comes from the two queries.                        *)
LEMMA CallbackKeepsKnowsAt ==
  ASSUME IInv, NEW t \in Threads, RegistryCallback(t)
  PROVE  KnowsAt'
<1>. USE DEF IInv
<1>1. \A u \in Threads \ {t} : KnowsOf(u)'
  BY HandlersAreLocal DEF KnowsAt, KnowsOf, Named
<1>2. KnowsOf(t)'
  <2>. USE DEF TypeOK, At, Goto, Looking, KnowsOf, KnowsAt, Named, registry
  <2>1. CASE Ignore(t)
    BY <2>1 DEF Ignore
  <2>2. CASE ReportAtOnce(t)
    BY <2>2 DEF ReportAtOnce
  <2>3. CASE AllocatePath(t)
    BY <2>3 DEF AllocatePath
  <2>4. CASE QueryLengthRefused(t)
    BY <2>4 DEF QueryLengthRefused, QueryRefused
  <2>5. CASE QueryLength(t)
    <3>1. name[request[t].key] \in Named(t)
      BY <2>5, NoneIsNone DEF QueryLength, Requests
    <3>. QED
      BY <2>5, <3>1 DEF QueryLength
  <2>6. CASE QueryName(t)
    <3>1. PICK m \in Named(t) : length[t] = Size[m]
      BY <2>6 DEF QueryName
    <3>2. name[request[t].key] \in Named(t)
      BY <2>6, NoneIsNone DEF QueryName, Requests
    <3>3. length[t] < Size[name[request[t].key]]
            \/ Size[name[request[t].key]] <= length[t]
      BY <3>2, RegistryAssumption
    <3>4. CASE CanCopy(t) /\ path' = [path EXCEPT ![t] = name[request[t].key]]
      BY <2>6, <3>2, <3>4 DEF QueryName
    <3>5. CASE ~CanCopy(t) /\ UNCHANGED <<path, refused>>
      <4>1. CASE length[t] < Size[name[request[t].key]]
        BY <2>6, <3>1, <3>2, <3>5, <4>1 DEF QueryName
      <4>2. CASE buffers[t] # [b \in Blocks |-> "block"]
        <5>1. CASE buffers[t]["ObjectName"] # "block"
          BY <2>6, <3>5, <5>1 DEF QueryName, Free
        <5>2. CASE buffers[t]["registryPath"] # "block"
          <6>1. buffers[t]["registryPath"] = "NULL"
            BY <2>6, <5>2 DEF QueryName, HoldsAt, Blocks
          <6>2. buffers'[t]["registryPath"] = "NULL"
            BY <2>6, <6>1 DEF QueryName, Free, Blocks
          <6>. QED
            BY <2>6, <3>5, <6>2 DEF QueryName
        <5>. QED
          BY <4>2, <5>1, <5>2 DEF Blocks
      <4>. QED
        BY <3>3, <3>5, <4>1, <4>2 DEF CanCopy
    <3>6. CASE QueryRefused(t) /\ UNCHANGED path
      BY <2>6, <3>6 DEF QueryName, QueryRefused
    <3>. QED
      BY <2>6, <3>4, <3>5, <3>6 DEF QueryName
  <2>7. CASE Report(t)
    BY <2>7 DEF Report
  <2>. QED
    BY <2>1, <2>2, <2>3, <2>4, <2>5, <2>6, <2>7
       DEF RegistryCallback, GetRegistryObjectCompleteName
<1>. QED
  BY <1>1, <1>2 DEF KnowsAt

(* The line, and what it says.                                             *)
LEMMA CallbackKeepsLineAt ==
  ASSUME IInv, NEW t \in Threads, RegistryCallback(t)
  PROVE  LineAt'
<1>. USE DEF IInv
<1>1. \A u \in Threads \ {t} : LineOf(u)'
  BY HandlersAreLocal DEF LineAt, LineOf, Reported
<1>2. LineOf(t)'
  <2>. USE DEF At, Goto, Reported, registry
  <2>0. t \in DOMAIN pc /\ t \in DOMAIN log /\ LineOf(t) /\ KnowsOf(t)
    BY DEF TypeOK, LineAt, KnowsAt
  <2>1. CASE Ignore(t)
    BY <2>0, <2>1 DEF Ignore, LineOf
  <2>2. CASE ReportAtOnce(t)
    <3>1. PICK p : log' = [log EXCEPT ![t] = Line(t, p)]
                   /\ p = IF request[t].class = "CreateKeyEx"
                          THEN request[t].asked ELSE None
      BY <2>2 DEF ReportAtOnce
    <3>2. log'[t] = Line(t, p) /\ log'[t] # None /\ pc'[t] = "idle"
      BY <2>0, <2>2, <3>1, CallbackKeepsTypeOK, NoneIsNone
         DEF ReportAtOnce, Line, Lines, Requests, KnowsOf, TypeOK
    <3>3. request[t] # None /\ request' = request /\ since' = since
      BY <2>0, <2>2 DEF ReportAtOnce, KnowsOf
    <3>4. request[t].class = "CreateKeyEx" => request[t].asked # None
      BY <3>3, NoneIsNone DEF TypeOK, Requests
    <3>5. request[t].class # "CreateKeyEx" => request[t].status = "error"
      BY <2>2 DEF ReportAtOnce
    <3>6. request[t].class \in Handled
      BY <2>2 DEF ReportAtOnce
    <3>. QED
      BY <3>1, <3>2, <3>3, <3>4, <3>5, <3>6 DEF Line, LineOf
  <2>3. CASE pc'[t] # "idle" /\ UNCHANGED log
    BY <2>0, <2>3, HandlersAreLocal DEF LineOf, KnowsOf
  <2>4. CASE Report(t)
    <3>1. log'[t] = Line(t, path[t]) /\ log'[t] # None /\ pc'[t] = "idle"
      BY <2>0, <2>4, NoneIsNone
         DEF Report, Line, Lines, Requests, KnowsOf, TypeOK, Looking
    <3>2. request[t] # None /\ request' = request /\ since' = since
          /\ request[t].class \in Handled \ {"CreateKeyEx"}
          /\ request[t].status = "success"
          /\ path[t] \in since[t] \cup {None}
      BY <2>0, <2>4 DEF Report, KnowsOf, Looking
    <3>3. path[t] = None =>
            \/ None \in since[t]
            \/ \E m, n \in since[t] \ {None} : Size[m] < Size[n]
            \/ t \in refused'
            \/ system' = "crashed"
      BY <2>0, <2>4 DEF Report, Free, KnowsOf, Named
    <3>. QED
      BY <3>1, <3>2, <3>3 DEF Line, LineOf
  <2>. QED
    BY <2>0, <2>1, <2>2, <2>3, <2>4
       DEF TypeOK, RegistryCallback, GetRegistryObjectCompleteName,
           AllocatePath, QueryLengthRefused, QueryLength, QueryName
<1>. QED
  BY <1>1, <1>2 DEF LineAt

LEMMA Invariance == Spec => []IInv
<1>1. IInv /\ [Next]_vars => IInv'
  <2>. SUFFICES ASSUME IInv, [Next]_vars PROVE IInv'
    OBVIOUS
  <2>1. ASSUME NEW k \in Keys, Rename(k) PROVE IInv'
    BY <2>1, RenameKeepsIInv
  <2>2. ASSUME NEW t \in Threads, Operate(t) PROVE IInv'
    BY <2>2, OperateKeepsIInv
  <2>3. ASSUME NEW t \in Threads, RegistryCallback(t) PROVE IInv'
    BY <2>3, CallbackKeepsTypeOK, CallbackKeepsHoldsAt, CallbackKeepsKnowsAt,
       CallbackKeepsLineAt DEF IInv
  <2>4. CASE UNCHANGED vars
    BY <2>4 DEF vars, IInv, TypeOK, HoldsAt, KnowsAt, KnowsOf, Named, LineAt,
                LineOf, Reported
  <2>. QED
    BY <2>1, <2>2, <2>3, <2>4 DEF Next
<1>. QED
  BY <1>1, InitIInv, PTL DEF Spec

-----------------------------------------------------------------------------
(* Type correctness of the handlers.                                       *)
THEOREM TypeCorrect == Spec => []TypeOK
BY Invariance, PTL DEF IInv

(* Every block of RegistryValueKeySet and its siblings is freed once.      *)
THEOREM BlocksFreed == Spec => []HandlersFreeTheirBlocks
<1>1. IInv => HandlersFreeTheirBlocks
  BY DEF IInv, HoldsAt, HandlersFreeTheirBlocks
<1>. QED
  BY <1>1, Invariance, PTL

(* The unchecked allocations are what crashes the system, and all they do. *)
THEOREM CrashesExplained == Spec => []CrashIffAllocationFailed
<1>1. IInv => CrashIffAllocationFailed
  BY DEF IInv, HoldsAt, CrashIffAllocationFailed
<1>. QED
  BY <1>1, Invariance, PTL

(* The look-up finds a name of the right key, whoever renames it.          *)
THEOREM PathsTrue == Spec => []PathIsOfTheKey
<1>1. IInv => PathIsOfTheKey
  BY DEF IInv, LineAt, LineOf, PathIsOfTheKey
<1>. QED
  BY <1>1, Invariance, PTL

(* The only ways for a line to have no path.                               *)
THEOREM EmptyPathsExplained == Spec => []EmptyPathHasAReason
<1>1. IInv => EmptyPathHasAReason
  BY DEF IInv, LineAt, LineOf, EmptyPathHasAReason
<1>. QED
  BY <1>1, Invariance, PTL

(* The dispatch of RegistryCallback misses nothing it has a handler for.   *)
THEOREM AllReported == Spec => []HandledOpsReported
<1>1. IInv => HandledOpsReported
  BY DEF IInv, LineAt, LineOf, HandledOpsReported
<1>. QED
  BY <1>1, Invariance, PTL

-----------------------------------------------------------------------------
(* The refinement: Operate is Occur, the last step of a handler is Finish, *)
(* and all others are stutters.                                            *)
Status == [t \in Threads |-> IF pc[t] = "idle" THEN "idle" ELSE "underway"]
Actor  == [t \in Threads |-> IF request[t] = None THEN None ELSE t]
Result == [t \in Threads |-> IF request[t] = None
                             THEN "success" ELSE request[t].status]
Shown  == [t \in Threads |->
             IF log[t] = None THEN None
             ELSE [actor |-> log[t].thread, result |-> log[t].result]]

LEMMA InitRefines == Init => M!Init
BY DEF Init, M!Init, Statuses

LEMMA OperateRefines ==
  ASSUME IInv, NEW t \in Threads, Operate(t)
  PROVE  M!Occur(t)
<1>1. PICK class \in Classes, k \in Keys, status \in Statuses, n \in Names :
        request' = [request EXCEPT ![t] =
          [class |-> class, key |-> k, status |-> status, asked |-> n]]
  BY DEF Operate
<1>2. request'[t].status \in Statuses /\ request'[t] # None
  BY <1>1, NoneIsNone DEF IInv, TypeOK, Requests
<1>3. Status[t] = "idle" /\ Status' = [Status EXCEPT ![t] = "underway"]
  BY DEF IInv, TypeOK, Operate, Status
<1>4. Actor' = [Actor EXCEPT ![t] = t]
  BY <1>1, <1>2 DEF IInv, TypeOK, Actor
<1>5. Result' = [Result EXCEPT ![t] = request'[t].status]
  BY <1>1, <1>2 DEF IInv, TypeOK, Result
<1>6. Shown' = [Shown EXCEPT ![t] = None]
  BY DEF IInv, TypeOK, Operate, Shown
<1>. QED
  BY <1>2, <1>3, <1>4, <1>5, <1>6
     DEF M!Occur, Status, Actor, Result, Shown

LEMMA CallbackRefines ==
  ASSUME IInv, NEW t \in Threads, RegistryCallback(t)
  PROVE  M!Finish(t) \/ UNCHANGED <<Status, Actor, Result, Shown>>
<1>. USE DEF IInv
<1>1. request' = request /\ pc[t] # "idle" /\ log[t] = None /\ request[t] # None
  BY HandlersAreLocal DEF LineAt, LineOf, KnowsAt, KnowsOf
<1>2. UNCHANGED <<Actor, Result>>
  BY <1>1 DEF Actor, Result
<1>3. CASE pc'[t] # "idle"
  <2>1. UNCHANGED log
    BY <1>3 DEF TypeOK, RegistryCallback, GetRegistryObjectCompleteName,
                Ignore, ReportAtOnce, AllocatePath, QueryLengthRefused,
                QueryLength, QueryName, Report, At, Goto
  <2>2. Status' = Status
    BY <1>1, <1>3, HandlersAreLocal DEF Status
  <2>3. Shown' = Shown
    BY <2>1 DEF Shown
  <2>. QED
    BY <1>2, <2>2, <2>3
<1>4. CASE pc'[t] = "idle"
  <2>1. Status' = [Status EXCEPT ![t] = "idle"] /\ Status[t] = "underway"
    BY <1>1, <1>4, HandlersAreLocal DEF Status
  <2>2. \A u \in Threads \ {t} : log'[u] = log[u]
    BY HandlersAreLocal
  <2>3. TypeOK' /\ LineOf(t)'
    BY CallbackKeepsTypeOK, CallbackKeepsLineAt DEF LineAt
  <2>4. Result[t] = request[t].status /\ request[t].status \in Statuses
    BY <1>1 DEF Result, TypeOK, Requests
  <2>7. Result' = [Result EXCEPT ![t] = request[t].status]
    BY <1>1, <2>4 DEF Result
  <2>8. CASE log'[t] = None
    <3>1. Shown' = Shown
      BY <1>1, <2>2, <2>8 DEF Shown
    <3>. QED
      BY <1>2, <2>1, <2>4, <2>7, <3>1
         DEF M!Finish, Status, Actor, Result, Shown
  <2>9. CASE log'[t] # None
    <3>. DEFINE line == [actor |-> t, result |-> request[t].status]
    <3>1. Shown' = [Shown EXCEPT ![t] = line]
      BY <1>1, <2>2, <2>3, <2>9 DEF Shown, LineOf
    <3>2. line \in M!Reports
      BY <2>4 DEF M!Reports
    <3>3. M!IsAbout(line, t)
      BY <1>1 DEF M!IsAbout
    <3>. HIDE DEF line
    <3>4. line.result = request[t].status
      BY DEF line
    <3>. QED
      BY <1>2, <2>1, <2>4, <2>7, <3>1, <3>2, <3>3, <3>4
         DEF M!Finish, Status, Actor, Result, Shown
  <2>. QED
    BY <2>8, <2>9
<1>. QED
  BY <1>3, <1>4

(* The handlers of RegistryCallback keep the promise of Monitor.           *)
THEOREM RegistryImplementsMonitor == Spec => ImplementsMonitor
<1>1. IInv /\ [Next]_vars => [M!Next]_(M!vars)
  <2>. SUFFICES ASSUME IInv, [Next]_vars PROVE [M!Next]_(M!vars)
    OBVIOUS
  <2>. USE DEF M!vars, Status, Actor, Result, Shown
  <2>1. ASSUME NEW k \in Keys, Rename(k) PROVE UNCHANGED M!vars
    BY <2>1 DEF Rename
  <2>2. ASSUME NEW t \in Threads, Operate(t) PROVE M!Next
    BY <2>2, OperateRefines DEF M!Next
  <2>3. ASSUME NEW t \in Threads, RegistryCallback(t) PROVE [M!Next]_(M!vars)
    BY <2>3, CallbackRefines DEF M!Next
  <2>4. CASE UNCHANGED vars
    BY <2>4 DEF vars
  <2>. QED
    BY <2>1, <2>2, <2>3, <2>4 DEF Next
<1>. QED
  BY <1>1, InitRefines, Invariance, PTL DEF Spec, M!Spec, ImplementsMonitor

(* The promise itself, inherited from the monitor.                         *)
MP == INSTANCE MonitorProofs WITH
        Slots    <- Threads,
        Actors   <- Threads,
        Outcomes <- Statuses,
        status   <- [t \in Threads |->
                       IF pc[t] = "idle" THEN "idle" ELSE "underway"],
        actor    <- [t \in Threads |-> IF request[t] = None THEN None ELSE t],
        result   <- [t \in Threads |-> IF request[t] = None
                                      THEN "success" ELSE request[t].status],
        report   <- [t \in Threads |->
                       IF log[t] = None THEN None
                       ELSE [actor |-> log[t].thread, result |-> log[t].result]]

LEMMA MonitorIsThePromised == M!Spec => MP!Spec
<1>1. M!Init => MP!Init
  BY DEF M!Init, MP!Init
<1>2. [M!Next]_M!vars => [MP!Next]_MP!vars
  BY DEF M!Next, M!vars, M!Occur, M!Proceed, M!Tear, M!Finish, M!ReportTorn,
     M!FinishTorn, M!IsAbout, M!Reports, MP!Next, MP!vars, MP!Occur,
     MP!Proceed, MP!Tear, MP!Finish, MP!ReportTorn, MP!FinishTorn, MP!IsAbout,
     MP!Reports
<1>. QED
  BY <1>1, <1>2, PTL DEF M!Spec, MP!Spec

(* A line about a registry operation names the thread that asked for it    *)
(* and shows the status that the thread gets.                              *)
THEOREM RegistryLinesKeepThePromise == Spec => []M!ReportsAreTrue
<1>1. MP!ReportsAreTrue => M!ReportsAreTrue
  BY DEF M!ReportsAreTrue, MP!ReportsAreTrue, M!IsAbout, MP!IsAbout
<1>. QED
  BY <1>1, RegistryImplementsMonitor, MonitorIsThePromised, MP!ReportsTrue, PTL
     DEF ImplementsMonitor
=============================================================================
