---------------------------- MODULE ConsoleProofs ----------------------------
(***************************************************************************)
(* Proofs of the safety properties of Console, for any number of listener  *)
(* threads, and of its progress for the ten that the code starts.          *)
(*                                                                         *)
(* The order of UninitCommunication is what they rest on: the port is      *)
(* closed before the global is cleared and before the event is set.  So    *)
(* IInv ties the handle to main (PortAt), a pending request to an open     *)
(* port (PendingAt), and every reason to stop to a closed one (StopAt) or  *)
(* to the listener's own request, which failed.                            *)
(***************************************************************************)
EXTENDS Console, TLAPS

(* The port is open at most from the connection to UninitCommunication,    *)
(* with its handle in the global; the event is there before the listeners  *)
(* and is set after the port was closed.                                   *)
PortAt ==
  /\ port = "open" => gDriverPort = "handle"
  /\ main \in {"connect", "clearPort", "setEvent", "join", "done"}
       => port = "closed"
  /\ main = "createThreads" => gTerminationEvent # "NULL"
  /\ gTerminationEvent = "set" => main \in {"join", "done"}

(* What every listener has at each of its steps.                           *)
ListenerAt ==
  \A t \in Listeners :
    /\ main \in {"connect", "createEvent"} => pc[t] = "none"
    /\ pc[t] # "none" => gTerminationEvent # "NULL"
    /\ pc[t] \in {"none", "start"} => hEvent[t] = "none"
    /\ buffer[t] = "allocated" <=>
         pc[t] \in {"check", "get", "wait", "handle", "cancel", "free"}

(* A pending request has a thread that waits or gives up, and a port.      *)
PendingAt ==
  \A t \in Listeners :
    io[t] = "pending" => pc[t] \in {"wait", "cancel"} /\ port = "open"

(* A request is aborted only with the port.                                *)
StopAt ==
  \A t \in Listeners :
    io[t] = "error" =>
      pc[t] # "none" /\ (port = "closed" \/ server = "down")

IInv ==
  /\ TypeOK
  /\ PortAt
  /\ ListenerAt
  /\ PendingAt
  /\ StopAt
  /\ ListenersPersist
  /\ main = "done" => \A t \in Listeners : pc[t] = "gone"

-----------------------------------------------------------------------------
(* Before the console has connected.                                       *)
LEMMA InitIInv == Init => IInv
BY ConsoleAssumption
   DEF Init, IInv, TypeOK, PortAt, ListenerAt, PendingAt, StopAt,
       ListenersPersist, MainSteps, Steps

(* Starting up: the listeners come last.                                   *)
LEMMA InitCommunicationKeepsIInv ==
  ASSUME IInv, InitCommunication
  PROVE  IInv'
<1>. USE DEF IInv, TypeOK, PortAt, ListenerAt, PendingAt, StopAt,
             ListenersPersist, MainSteps, Steps, local,
             handles, Main
<1>1. CASE Connect
  BY <1>1 DEF Connect
<1>2. CASE CreateTerminationEvent
  BY <1>2 DEF CreateTerminationEvent
<1>3. CASE CreateListener
  BY <1>3 DEF CreateListener
<1>4. CASE AllCreated
  BY <1>4 DEF AllCreated
<1>. QED
  BY <1>1, <1>2, <1>3, <1>4 DEF InitCommunication

(* Closing down: the port goes before anything that depends on it.         *)
LEMMA UninitCommunicationKeepsIInv ==
  ASSUME IInv, Exit \/ UninitCommunication
  PROVE  IInv'
<1>. USE DEF IInv, TypeOK, PortAt, ListenerAt, PendingAt, StopAt,
             ListenersPersist, MainSteps, local, handles, Main
<1>1. CASE Exit
  BY <1>1 DEF Exit
<1>2. CASE CloseDriverPort
  BY <1>2, ConsoleAssumption DEF CloseDriverPort, Aborted
<1>3. CASE ClearDriverPort
  BY <1>3 DEF ClearDriverPort
<1>4. CASE SetTerminationEvent
  BY <1>4 DEF SetTerminationEvent
<1>5. CASE JoinListeners
  BY <1>5 DEF JoinListeners
<1>. QED
  BY <1>1, <1>2, <1>3, <1>4, <1>5 DEF UninitCommunication

(* A listener, up to and including FilterGetMessage.                       *)
LEMMA GettingKeepsIInv ==
  ASSUME IInv, NEW t \in Listeners,
         StartListener(t) \/ CheckTermination(t) \/ FilterGetMessage(t)
  PROVE  IInv'
<1>. USE DEF IInv, TypeOK, PortAt, ListenerAt, PendingAt, StopAt,
             ListenersPersist, Steps, local, handles, At, Goto, Alive,
             PortUsable
<1>1. CASE StartListener(t)
  BY <1>1 DEF StartListener
<1>2. CASE CheckTermination(t)
  BY <1>2 DEF CheckTermination
<1>3. CASE GetMessageNow(t)
  BY <1>3, ConsoleAssumption DEF GetMessageNow
<1>4. CASE GetMessagePending(t)
  BY <1>4 DEF GetMessagePending
<1>5. CASE GetMessageInvalidHandle(t)
  BY <1>5 DEF GetMessageInvalidHandle
<1>6. CASE GetMessageUnexpected(t)
  BY <1>6 DEF GetMessageUnexpected
<1>. QED
  BY <1>1, <1>2, <1>3, <1>4, <1>5, <1>6 DEF FilterGetMessage

(* A listener, from its wait to its end.                                   *)
LEMMA WaitingKeepsIInv ==
  ASSUME IInv, NEW t \in Listeners,
         \/ WaitTermination(t) \/ WaitMessage(t) \/ WaitFailed(t)
         \/ HandleMessage(t) \/ Cancel(t) \/ Free(t)
  PROVE  IInv'
<1>. USE DEF IInv, TypeOK, PortAt, ListenerAt, PendingAt, StopAt,
             ListenersPersist, Steps, local, handles, At, Goto, Alive,
             HandlesValid
<1>1. CASE WaitTermination(t)
  BY <1>1 DEF WaitTermination
<1>2. CASE WaitMessage(t)
  BY <1>2 DEF WaitMessage
<1>3. CASE WaitFailed(t)
  BY <1>3 DEF WaitFailed
<1>4. CASE HandleMessage(t)
  BY <1>4 DEF HandleMessage
<1>5. CASE Cancel(t)
  BY <1>5 DEF Cancel
<1>6. CASE Free(t)
  BY <1>6 DEF Free
<1>. QED
  BY <1>1, <1>2, <1>3, <1>4, <1>5, <1>6

(* Requests are completed only while the port is open.                     *)
LEMMA ServerKeepsIInv ==
  ASSUME IInv,
         Send \/ ServerGone \/ \E t \in Listeners : RequestFails(t)
  PROVE  IInv'
<1>. USE DEF IInv, TypeOK, PortAt, ListenerAt, PendingAt, StopAt,
             ListenersPersist, local, handles, Alive
<1>1. CASE Send
  BY <1>1, ConsoleAssumption DEF Send
<1>2. CASE ServerGone
  BY <1>2, ConsoleAssumption DEF ServerGone, Aborted
<1>3. ASSUME NEW t \in Listeners, RequestFails(t)
      PROVE  IInv'
  BY <1>3 DEF RequestFails
<1>. QED
  BY <1>1, <1>2, <1>3

(* Every step of the console and of the driver at the other end.           *)
LEMMA NextKeepsIInv == IInv /\ [Next]_vars => IInv'
<1>. SUFFICES ASSUME IInv, [Next]_vars PROVE IInv'
  OBVIOUS
<1>1. CASE Next
  BY <1>1, InitCommunicationKeepsIInv, UninitCommunicationKeepsIInv,
     GettingKeepsIInv, WaitingKeepsIInv, ServerKeepsIInv
     DEF Next, CommpMessageListner
<1>2. CASE UNCHANGED vars
  BY <1>2 DEF vars, IInv, TypeOK, PortAt, ListenerAt, PendingAt, StopAt,
              ListenersPersist
<1>. QED
  BY <1>1, <1>2

(* IInv is an invariant of the console.                                    *)
THEOREM Invariance == Spec => []IInv
BY InitIInv, NextKeepsIInv, PTL DEF Spec

-----------------------------------------------------------------------------
(* No variable of the console ever leaves its type.                        *)
THEOREM TypeCorrect == Spec => []TypeOK
<1>1. IInv => TypeOK
  BY DEF IInv
<1>. QED
  BY <1>1, Invariance, PTL

(* The kernel never writes to memory a listener has given up.              *)
THEOREM NoWriteAfterFree == Spec => []BufferOutlivesRequest
<1>1. IInv => BufferOutlivesRequest
  BY DEF IInv, ListenerAt, PendingAt, BufferOutlivesRequest
<1>. QED
  BY <1>1, Invariance, PTL

(* Nothing of a listener is left when main returns.                        *)
THEOREM JoinComplete == Spec => []JoinIsComplete
<1>1. IInv => JoinIsComplete
  BY DEF IInv, ListenerAt, PendingAt, JoinIsComplete
<1>. QED
  BY <1>1, Invariance, PTL

(* A listener with its resources stops only with the port, or after a      *)
(* request it waited for came back without a message.                      *)
THEOREM Persistent == Spec => []ListenersPersist
<1>1. IInv => ListenersPersist
  BY DEF IInv
<1>. QED
  BY <1>1, Invariance, PTL
-----------------------------------------------------------------------------
(***************************************************************************)
(* Progress.  The provers have no rule for ENABLED, so that these theorems *)
(* assume ListenerFair and MainFair, which have the conditions of the fair *)
(* actions spelt out; NobodyHangs says that these are their enabling       *)
(* conditions.  ReadyInv is what the arguments need to know of a state.    *)
(***************************************************************************)
ReadyInv ==
  /\ main = "join" => gTerminationEvent = "set"
  /\ main \in {"createEvent", "createThreads", "prompt"} => port = "open"
  /\ main \in {"prompt", "closePort", "clearPort", "setEvent", "join"}
       => \A t \in Listeners : pc[t] # "none"
  /\ queue > 0 => /\ port = "open"
                  /\ server = "up"
                  /\ \A t \in Listeners : io[t] # "pending"
  /\ \A t \in Listeners : pc[t] = "wait" => io[t] # "none"

(* Messages wait only at a port that is served and where nobody asked.     *)
LEMMA InitReady == Init => ReadyInv
BY DEF Init, ReadyInv

LEMMA MainKeepsReady ==
  ASSUME IInv, ReadyInv, InitCommunication \/ Exit \/ UninitCommunication
  PROVE  ReadyInv'
<1>. USE DEF ReadyInv, IInv, TypeOK, PortAt, PendingAt, Main, local, handles
<1>1. CASE Connect
  BY <1>1 DEF Connect
<1>2. CASE CreateTerminationEvent
  BY <1>2 DEF CreateTerminationEvent
<1>3. CASE CreateListener
  BY <1>3 DEF CreateListener
<1>4. CASE AllCreated \/ Exit
  BY <1>4 DEF AllCreated, Exit
<1>5. CASE CloseDriverPort
  BY <1>5 DEF CloseDriverPort, Aborted
<1>6. CASE ClearDriverPort \/ SetTerminationEvent \/ JoinListeners
  BY <1>6 DEF ClearDriverPort, SetTerminationEvent, JoinListeners
<1>. QED
  BY <1>1, <1>2, <1>3, <1>4, <1>5, <1>6
     DEF InitCommunication, UninitCommunication

LEMMA ListenerKeepsReady ==
  ASSUME IInv, ReadyInv, NEW t \in Listeners, CommpMessageListner(t)
  PROVE  ReadyInv'
<1>. USE DEF ReadyInv, IInv, TypeOK, Goto, At, local, handles, Steps
<1>1. CASE FilterGetMessage(t)
  BY <1>1 DEF FilterGetMessage, GetMessageNow, GetMessagePending, PortUsable,
              GetMessageInvalidHandle, GetMessageUnexpected
<1>2. CASE WaitTermination(t) \/ WaitMessage(t) \/ WaitFailed(t)
  BY <1>2 DEF WaitTermination, WaitMessage, WaitFailed
<1>3. CASE StartListener(t) \/ CheckTermination(t) \/ HandleMessage(t)
  BY <1>3 DEF StartListener, CheckTermination, HandleMessage
<1>4. CASE Cancel(t) \/ Free(t)
  BY <1>4 DEF Cancel, Free
<1>. QED
  BY <1>1, <1>2, <1>3, <1>4 DEF CommpMessageListner

LEMMA NextKeepsReady == IInv /\ ReadyInv /\ [Next]_vars => ReadyInv'
<1>. SUFFICES ASSUME IInv, ReadyInv, [Next]_vars PROVE ReadyInv'
  OBVIOUS
<1>1. CASE Send
  BY <1>1 DEF Send, ReadyInv, IInv, TypeOK, StopAt, local, handles
<1>2. CASE ServerGone
  BY <1>2 DEF ServerGone, ReadyInv, IInv, TypeOK, local, handles, Aborted
<1>3. ASSUME NEW t \in Listeners, RequestFails(t)
      PROVE  ReadyInv'
  BY <1>3 DEF RequestFails, ReadyInv, IInv, TypeOK, handles
<1>4. CASE UNCHANGED vars
  BY <1>4 DEF vars, ReadyInv
<1>. QED
  BY <1>1, <1>2, <1>3, <1>4, MainKeepsReady, ListenerKeepsReady DEF Next

THEOREM Readiness == Spec => [](IInv /\ ReadyInv)
BY InitIInv, NextKeepsIInv, InitReady, NextKeepsReady, PTL DEF Spec

-----------------------------------------------------------------------------
(* How many steps a listener is from its end once main waits for it: the   *)
(* port is closed and the event set, so that it cannot start over.         *)
ToGo == [gone |-> 0, free |-> 1, cancel |-> 2, check |-> 3, get |-> 3,
         wait |-> 3, start |-> 4, handle |-> 4]

Within(t, n) == main = "join" /\ ToGo[pc[t]] <= n

(* While main waits nobody is set back, and each step of a listener counts.*)
LEMMA JoinRunsDown ==
  ASSUME IInv, ReadyInv, main = "join", [Next]_vars, NEW t \in Listeners
  PROVE  /\ main' \in {"join", "done"}
         /\ ToGo[pc[t]] \in 0 .. 4 /\ ToGo[pc'[t]] \in 0 .. 4
         /\ ToGo[pc'[t]] <= ToGo[pc[t]]
         /\ CommpMessageListner(t) => ToGo[pc'[t]] < ToGo[pc[t]]
         /\ pc[t] = "gone" => pc'[t] = "gone"
<1>. USE DEF ToGo
<1>1. /\ pc[t] \in Steps \ {"none"}
      /\ gTerminationEvent = "set"
      /\ port = "closed"
      /\ io[t] # "pending"
  BY DEF IInv, ReadyInv, TypeOK, PortAt, PendingAt
<1>2. CASE CommpMessageListner(t)
  <2>. USE <1>1, <1>2 DEF IInv, TypeOK, Goto, At
  <2>1. CASE FilterGetMessage(t)
    BY <2>1 DEF FilterGetMessage, GetMessageNow, GetMessagePending, PortUsable,
                GetMessageInvalidHandle, GetMessageUnexpected, handles
  <2>2. CASE WaitTermination(t) \/ WaitMessage(t) \/ WaitFailed(t)
    BY <2>2 DEF WaitTermination, WaitMessage, WaitFailed
  <2>3. CASE StartListener(t) \/ CheckTermination(t) \/ HandleMessage(t)
    BY <2>3 DEF StartListener, CheckTermination, HandleMessage
  <2>4. CASE Cancel(t) \/ Free(t)
    BY <2>4 DEF Cancel, Free
  <2>. QED
    BY <2>1, <2>2, <2>3, <2>4 DEF CommpMessageListner
<1>3. ASSUME NEW u \in Listeners, u # t, CommpMessageListner(u)
      PROVE  main' = "join" /\ pc'[t] = pc[t]
  BY <1>3 DEF IInv, TypeOK, Goto, CommpMessageListner, FilterGetMessage,
     GetMessageNow, GetMessagePending, GetMessageInvalidHandle,
     GetMessageUnexpected, WaitTermination, WaitMessage, WaitFailed,
     StartListener, CheckTermination, HandleMessage, Cancel, Free
<1>4. CASE InitCommunication \/ Exit \/ UninitCommunication
  <2>1. main' = "done" /\ pc' = pc
    BY <1>4 DEF Exit, InitCommunication, Connect, CreateTerminationEvent,
       CreateListener, AllCreated, Main, UninitCommunication, CloseDriverPort,
       ClearDriverPort, SetTerminationEvent, JoinListeners
  <2>. QED
    BY <1>1, <2>1, <1>2 DEF Steps
<1>5. CASE \/ Send \/ ServerGone \/ UNCHANGED vars
           \/ \E u \in Listeners : RequestFails(u)
  BY <1>1, <1>2, <1>5 DEF Send, ServerGone, RequestFails, vars, Steps
<1>6. CASE \E u \in Listeners : CommpMessageListner(u)
  BY <1>1, <1>2, <1>3, <1>6 DEF Steps
<1>. QED
  BY <1>4, <1>5, <1>6 DEF Next

(* ToGo falls by one as long as main waits.                                *)
Falls(t, m, n) ==
  Spec /\ ListenerFair(t) => (Within(t, m) ~> main = "done" \/ Within(t, n))

LEMMA OneStepNearer ==
  ASSUME NEW t \in Listeners, NEW m \in 1 .. 4, NEW n \in 0 .. 3, m = n + 1
  PROVE  Falls(t, m, n)
<1>1. ASSUME IInv, ReadyInv, Within(t, m), ~Within(t, n), [Next]_vars
      PROVE  Within(t, m)' \/ (main = "done" \/ Within(t, n))'
  BY <1>1, JoinRunsDown DEF Within
<1>2. ASSUME IInv, ReadyInv, Within(t, m), ~Within(t, n),
             <<CommpMessageListner(t)>>_vars, [Next]_vars
      PROVE  (main = "done" \/ Within(t, n))'
  <2>1. /\ main' \in {"join", "done"}
        /\ ToGo[pc[t]] \in 0 .. 4 /\ ToGo[pc'[t]] \in 0 .. 4
        /\ ToGo[pc'[t]] < ToGo[pc[t]]
    BY <1>2, JoinRunsDown DEF Within
  <2>. QED
    BY <1>2, <2>1 DEF Within
<1>3. ASSUME IInv, ReadyInv, Within(t, m), ~Within(t, n)
      PROVE  Runnable(t)
  <2>1. pc[t] \in Steps \ {"none", "gone"} /\ gTerminationEvent = "set"
    BY <1>3 DEF Within, ToGo, IInv, TypeOK, ReadyInv, Steps
  <2>. QED
    BY <1>3, <2>1 DEF Within, Runnable, Alive
<1>. QED
  BY <1>1, <1>2, <1>3, Readiness, PTL DEF Spec, ListenerFair, Falls

(* Every listener, wherever it is, comes to its end while main waits.      *)
Ends(t) ==
  Spec /\ ListenerFair(t) => (main = "join" ~> main = "done" \/ Within(t, 0))

LEMMA ListenerEnds ==
  ASSUME NEW t \in Listeners
  PROVE  Ends(t)
<1>1. IInv /\ ReadyInv /\ main = "join" => Within(t, 4)
  BY DEF Within, ToGo, IInv, ReadyInv, TypeOK, Steps
<1>2. Falls(t, 4, 3) /\ Falls(t, 3, 2) /\ Falls(t, 2, 1) /\ Falls(t, 1, 0)
  BY OneStepNearer
<1>. QED
  BY <1>1, <1>2, Readiness, PTL DEF Falls, Ends

(* Main itself waits for nothing before it joins.                          *)
LEMMA MainReachesJoin ==
  Spec /\ MainFair => (main = "closePort" ~> main = "join")
<1>. USE DEF Main, UninitCommunication, CloseDriverPort, ClearDriverPort,
             SetTerminationEvent, JoinListeners
<1>1. ASSUME main \in {"closePort", "clearPort", "setEvent"}, [Next]_vars
      PROVE  UninitCommunication \/ main' = main
  BY <1>1 DEF Next, InitCommunication, Connect, CreateTerminationEvent,
     CreateListener, AllCreated, Exit, CommpMessageListner, FilterGetMessage,
     GetMessageNow, GetMessagePending, GetMessageInvalidHandle,
     GetMessageUnexpected, WaitTermination, WaitMessage, WaitFailed, Goto,
     StartListener, CheckTermination, HandleMessage, Cancel, Free, Send,
     RequestFails, ServerGone, vars
<1>2. main = "closePort" /\ UninitCommunication => main' = "clearPort"
  OBVIOUS
<1>3. main = "clearPort" /\ UninitCommunication => main' = "setEvent"
  OBVIOUS
<1>4. main = "setEvent" /\ UninitCommunication => main' = "join"
  OBVIOUS
<1>5. main = "closePort" /\ [Next]_vars => main' \in {"closePort", "clearPort"}
  BY <1>1, <1>2
<1>6. main = "clearPort" /\ [Next]_vars => main' \in {"clearPort", "setEvent"}
  BY <1>1, <1>3
<1>7. main = "setEvent" /\ [Next]_vars => main' \in {"setEvent", "join"}
  BY <1>1, <1>4
<1>8. main \in {"closePort", "clearPort", "setEvent"} => MainRunnable
  BY DEF MainRunnable
<1>9. Spec /\ MainFair => (main = "closePort" ~> main = "clearPort")
  <2>1. main = "closePort" /\ [Next]_vars
          => (main = "closePort")' \/ (main = "clearPort")'
    BY <1>5
  <2>2. main = "closePort" /\ <<UninitCommunication>>_vars
          => (main = "clearPort")'
    BY <1>2
  <2>3. main = "closePort" => MainRunnable
    BY <1>8
  <2>. QED
    BY <2>1, <2>2, <2>3, PTL DEF Spec, MainFair
<1>10. Spec /\ MainFair => (main = "clearPort" ~> main = "setEvent")
  <2>1. main = "clearPort" /\ [Next]_vars
          => (main = "clearPort")' \/ (main = "setEvent")'
    BY <1>6
  <2>2. main = "clearPort" /\ <<UninitCommunication>>_vars
          => (main = "setEvent")'
    BY <1>3
  <2>3. main = "clearPort" => MainRunnable
    BY <1>8
  <2>. QED
    BY <2>1, <2>2, <2>3, PTL DEF Spec, MainFair
<1>11. Spec /\ MainFair => (main = "setEvent" ~> main = "join")
  <2>1. main = "setEvent" /\ [Next]_vars
          => (main = "setEvent")' \/ (main = "join")'
    BY <1>7
  <2>2. main = "setEvent" /\ <<UninitCommunication>>_vars
          => (main = "join")'
    BY <1>4
  <2>3. main = "setEvent" => MainRunnable
    BY <1>8
  <2>. QED
    BY <2>1, <2>2, <2>3, PTL DEF Spec, MainFair
<1>. QED
  BY <1>9, <1>10, <1>11, PTL

(* The listeners of a set have all ended, and main still waits.            *)
AllGone(S) == main = "join" /\ \A u \in S : pc[u] = "gone"

AllFair == MainFair /\ \A t \in Listeners : ListenerFair(t)

Joined(S) ==
  Spec /\ AllFair => (main = "join" ~> main = "done" \/ AllGone(S))

(* The induction over the listeners: nothing to wait for at first, and one *)
(* listener more at each step, since those that have ended stay so.        *)
LEMMA JoinedNone == Joined({})
<1>1. main = "join" => AllGone({})
  BY DEF AllGone
<1>. QED
  BY <1>1, PTL DEF Joined

LEMMA JoinedOneMore ==
  ASSUME NEW S \in SUBSET Listeners, NEW t \in Listeners
  PROVE  Joined(S) => Joined(S \cup {t})
<1>1. ASSUME IInv, ReadyInv, AllGone(S), [Next]_vars
      PROVE  (main = "done" \/ AllGone(S))'
  BY <1>1, JoinRunsDown DEF AllGone
<1>2. IInv /\ ReadyInv /\ AllGone(S) /\ Within(t, 0) => AllGone(S \cup {t})
  BY DEF AllGone, Within, ToGo, IInv, TypeOK, Steps, ReadyInv
<1>3. AllGone(S) => main = "join"
  BY DEF AllGone
<1>4. Ends(t)
  BY ListenerEnds
<1>5. AllFair => ListenerFair(t)
  BY DEF AllFair
<1>. QED
  BY <1>1, <1>2, <1>3, <1>4, <1>5, Readiness, PTL DEF Joined, Ends, Spec

(* The first n threads of the array gListenerThreads.                      *)
First(gListenerThreads, n) == {gListenerThreads[k] : k \in 1 .. n}

LEMMA JoinedUpTo ==
  ASSUME NEW gListenerThreads, NEW n \in 0 .. 9, NEW m \in 1 .. 10, m = n + 1,
         Listeners = First(gListenerThreads, 10)
  PROVE  Joined(First(gListenerThreads, n))
           => Joined(First(gListenerThreads, m))
<1>1. First(gListenerThreads, n) \in SUBSET Listeners
  BY DEF First
<1>2. gListenerThreads[m] \in Listeners
  BY DEF First
<1>3. First(gListenerThreads, m)
        = First(gListenerThreads, n) \cup {gListenerThreads[m]}
  BY DEF First
<1>. QED
  BY <1>1, <1>2, <1>3, JoinedOneMore

(* With COMM_NUMBER_OF_LISTENER_THREADS listeners "exit" ends the program: *)
(* main reaches its join, the listeners end one and all, wherever they are *)
(* and whatever failed for them, and main returns.                         *)
THEOREM ExitFinishesForTen ==
  ASSUME NEW gListenerThreads, Listeners = First(gListenerThreads, 10)
  PROVE  Spec /\ AllFair => ExitFinishes
<1>. DEFINE J(n) == Joined(First(gListenerThreads, n))
<1>1. J(0)
  <2>1. First(gListenerThreads, 0) = {}
    BY DEF First
  <2>. QED
    BY <2>1, JoinedNone
<1>2. \A n \in 0 .. 9, m \in 1 .. 10 : m = n + 1 /\ J(n) => J(m)
  BY JoinedUpTo
<1>. HIDE DEF J
<1>3. J(5)
  BY <1>1, <1>2
<1>4. J(10)
  BY <1>2, <1>3
<1>5. AllGone(Listeners) => MainRunnable
  BY DEF AllGone, MainRunnable
<1>6. ASSUME IInv, ReadyInv, AllGone(Listeners), [Next]_vars
      PROVE  (main = "done" \/ AllGone(Listeners))'
  <2>1. gListenerThreads[1] \in Listeners
    BY DEF First
  <2>. QED
    BY <1>6, <2>1, JoinRunsDown DEF AllGone
<1>7. AllGone(Listeners) /\ UninitCommunication => (main = "done")'
  BY DEF AllGone, UninitCommunication, CloseDriverPort, ClearDriverPort,
         SetTerminationEvent, JoinListeners, Main
<1>8. Joined(Listeners)
  BY <1>4 DEF J
<1>. QED
  BY <1>5, <1>6, <1>7, <1>8, MainReachesJoin, Readiness, PTL
     DEF Spec, AllFair, MainFair, Joined, ExitFinishes
-----------------------------------------------------------------------------
(* A full queue, and a listener that got what it needs.                    *)
Relieved   == queue < QueueLimit \/ main # "prompt"
Full(t)    == queue = QueueLimit /\ main = "prompt" /\ Listening(t)

(* How many steps this listener is from taking a message.                  *)
ToServe == [get |-> 1, check |-> 2, handle |-> 3, wait |-> 4]

Near(t, n) == Full(t) /\ ToServe[pc[t]] <= n

(* At a full queue no request is pending and the port is served, so that a *)
(* listener is not waiting for the driver.                                 *)
LEMMA FullIsBusy ==
  ASSUME IInv, ReadyInv, NEW t \in Listeners, Full(t)
  PROVE  /\ pc[t] \in {"get", "check", "handle", "wait"}
         /\ ToServe[pc[t]] \in 1 .. 4
         /\ PortUsable /\ HandlesValid(t) /\ gTerminationEvent = "unset"
         /\ pc[t] = "wait" => io[t] = "message"
         /\ Runnable(t)
<1>1. /\ queue > 0 /\ port = "open" /\ server = "up"
      /\ io[t] # "pending" /\ pc[t] \notin {"none", "start"}
  BY ConsoleAssumption DEF Full, Listening, ReadyInv, IInv, ListenerAt
<1>2. pc[t] \in {"get", "check", "handle", "wait"}
  BY <1>1 DEF Full, Listening, IInv, ListenersPersist, TypeOK, Steps
<1>3. PortUsable /\ HandlesValid(t) /\ gTerminationEvent = "unset"
  BY <1>1, <1>2 DEF Full, Listening, IInv, TypeOK, PortAt, ListenerAt,
                    PortUsable, HandlesValid
<1>4. pc[t] = "wait" => io[t] = "message"
  BY <1>1 DEF Full, Listening, IInv, TypeOK, StopAt, ReadyInv
<1>. QED
  BY <1>2, <1>3, <1>4 DEF ToServe, Full, Runnable, Alive

(* It comes nearer with each of its steps, except after an unexpected      *)
(* result, and what others do leaves it where it is or relieves the queue. *)
LEMMA FullRunsDown ==
  ASSUME IInv, ReadyInv, [Next]_vars, NEW t \in Listeners, Full(t)
  PROVE  \/ Relieved'
         \/ /\ Full(t)'
            /\ \/ Unexpected
               \/ pc'[t] = pc[t] /\ ~CommpMessageListner(t)
               \/ /\ pc'[t] \in {"get", "check", "handle"}
                  /\ ToServe[pc'[t]] < ToServe[pc[t]]
<1>. USE DEF Full, Listening, Relieved
<1>1. CASE CommpMessageListner(t)
  <2>1. /\ pc[t] \in {"get", "check", "handle", "wait"}
        /\ PortUsable /\ HandlesValid(t) /\ gTerminationEvent = "unset"
        /\ pc[t] = "wait" => io[t] = "message"
    BY FullIsBusy
  <2>. USE <1>1, <2>1 DEF At, Goto, ToServe, IInv, TypeOK, local
  <2>2. CASE FilterGetMessage(t)
    <3>1. CASE GetMessageUnexpected(t)
      BY <3>1 DEF GetMessageUnexpected, Unexpected
    <3>2. CASE GetMessageNow(t)
      BY <3>2, ConsoleAssumption DEF GetMessageNow
    <3>. QED
      BY <2>2, <3>1, <3>2, ConsoleAssumption
         DEF FilterGetMessage, GetMessagePending, GetMessageInvalidHandle
  <2>3. CASE WaitTermination(t) \/ WaitMessage(t) \/ WaitFailed(t)
    BY <2>3 DEF WaitTermination, WaitMessage, WaitFailed
  <2>4. CASE StartListener(t) \/ CheckTermination(t) \/ HandleMessage(t)
    BY <2>4 DEF StartListener, CheckTermination, HandleMessage
  <2>5. CASE Cancel(t) \/ Free(t)
    BY <2>5 DEF Cancel, Free
  <2>. QED
    BY <2>2, <2>3, <2>4, <2>5 DEF CommpMessageListner
<1>2. ASSUME NEW u \in Listeners, u # t, CommpMessageListner(u)
      PROVE  Relieved' \/ (Full(t)' /\ pc'[t] = pc[t])
  BY <1>2 DEF IInv, TypeOK, Goto, local, CommpMessageListner,
     FilterGetMessage, GetMessageNow, GetMessagePending,
     GetMessageInvalidHandle, GetMessageUnexpected, WaitTermination,
     WaitMessage, WaitFailed, StartListener, CheckTermination, HandleMessage,
     Cancel, Free
<1>3. CASE InitCommunication \/ Exit \/ UninitCommunication
  BY <1>3 DEF Exit, InitCommunication, Connect, CreateTerminationEvent,
     CreateListener, AllCreated, Main, UninitCommunication, CloseDriverPort,
     ClearDriverPort, SetTerminationEvent, JoinListeners
<1>4. CASE Send \/ ServerGone
  BY <1>4, ConsoleAssumption DEF Send, ServerGone, local, ReadyInv, IInv,
                                 TypeOK
<1>5. CASE \E u \in Listeners : RequestFails(u)
  BY <1>1, <1>5, ConsoleAssumption DEF RequestFails, local, ReadyInv, IInv,
                                       TypeOK
<1>6. CASE UNCHANGED vars
  BY <1>1, <1>6 DEF vars
<1>. QED
  BY <1>1, <1>2, <1>3, <1>4, <1>5, <1>6 DEF Next

(* Once unexpected results have stopped, ToServe falls until the queue is  *)
(* relieved.                                                               *)
Nears(t, m, n) ==
  Spec /\ ListenerFair(t) /\ ~UnexpectedForEver
    => <>[](Near(t, m) => <>(Relieved \/ Near(t, n)))

LEMMA OneStepToServe ==
  ASSUME NEW t \in Listeners, NEW m \in 1 .. 4, NEW n \in 0 .. 3, m = n + 1
  PROVE  Nears(t, m, n)
<1>1. ASSUME IInv, ReadyInv, Near(t, m), ~Near(t, n), [Next]_vars,
             ~<<Unexpected>>_vars
      PROVE  Relieved' \/ Near(t, m)'
  <2>1. CASE UNCHANGED vars
    BY <1>1, <2>1 DEF vars, Near, Full, Listening
  <2>2. CASE ~Unexpected
    BY <1>1, <2>2, FullIsBusy, FullRunsDown DEF Near, ToServe
  <2>. QED
    BY <1>1, <2>1, <2>2
<1>2. ASSUME IInv, ReadyInv, Near(t, m), ~Near(t, n), [Next]_vars,
             ~<<Unexpected>>_vars, <<CommpMessageListner(t)>>_vars
      PROVE  Relieved' \/ Near(t, n)'
  <2>1. ~Unexpected
    BY <1>2
  <2>. QED
    BY <1>2, <2>1, FullIsBusy, FullRunsDown DEF Near, ToServe
<1>3. ASSUME IInv, ReadyInv, Near(t, m)
      PROVE  Runnable(t)
  BY <1>3, FullIsBusy DEF Near
<1>. QED
  BY <1>1, <1>2, <1>3, Readiness, PTL
     DEF Spec, ListenerFair, Nears, UnexpectedForEver

(* A listener that can listen relieves a full queue by itself, if no       *)
(* other one does.                                                         *)
Serves(t) ==
  Spec /\ ListenerFair(t) /\ ~UnexpectedForEver => (Full(t) ~> Relieved)

LEMMA ListenerServes ==
  ASSUME NEW t \in Listeners
  PROVE  Serves(t)
<1>1. IInv /\ ReadyInv /\ Full(t) => Near(t, 4)
  BY FullIsBusy DEF Near, ToServe
<1>2. IInv /\ ReadyInv => ~Near(t, 0)
  BY FullIsBusy DEF Near
<1>3. IInv /\ ReadyInv /\ Full(t) /\ [Next]_vars => Relieved' \/ Full(t)'
  BY FullRunsDown
<1>4. Nears(t, 4, 3) /\ Nears(t, 3, 2) /\ Nears(t, 2, 1) /\ Nears(t, 1, 0)
  BY OneStepToServe
<1>. QED
  BY <1>1, <1>2, <1>3, <1>4, Readiness, PTL DEF Nears, Serves, Spec

(* So a full queue is relieved if any one listener of a set can listen.    *)
FullFor(S) ==
  queue = QueueLimit /\ main = "prompt" /\ \E t \in S : Listening(t)

Served(S) ==
  Spec /\ AllFair /\ ~UnexpectedForEver => (FullFor(S) ~> Relieved)

LEMMA ServedNone == Served({})
<1>1. ~FullFor({})
  BY DEF FullFor
<1>. QED
  BY <1>1, PTL DEF Served

LEMMA ServedOneMore ==
  ASSUME NEW S \in SUBSET Listeners, NEW t \in Listeners
  PROVE  Served(S) => Served(S \cup {t})
<1>1. FullFor(S \cup {t}) => FullFor(S) \/ Full(t)
  BY DEF FullFor, Full
<1>2. Serves(t)
  BY ListenerServes
<1>3. AllFair => ListenerFair(t)
  BY DEF AllFair
<1>. QED
  BY <1>1, <1>2, <1>3, PTL DEF Served, Serves

LEMMA ServedUpTo ==
  ASSUME NEW gListenerThreads, NEW n \in 0 .. 9, NEW m \in 1 .. 10, m = n + 1,
         Listeners = First(gListenerThreads, 10)
  PROVE  Served(First(gListenerThreads, n))
           => Served(First(gListenerThreads, m))
<1>1. First(gListenerThreads, n) \in SUBSET Listeners
  BY DEF First
<1>2. gListenerThreads[m] \in Listeners
  BY DEF First
<1>3. First(gListenerThreads, m)
        = First(gListenerThreads, n) \cup {gListenerThreads[m]}
  BY DEF First
<1>. QED
  BY <1>1, <1>2, <1>3, ServedOneMore

(* With COMM_NUMBER_OF_LISTENER_THREADS listeners a full queue is relieved *)
(* as long as one of them could be set up and had no request fail that it  *)
(* waited for, and unexpected results do not go on for ever.               *)
THEOREM QueueIsServedForTen ==
  ASSUME NEW gListenerThreads, Listeners = First(gListenerThreads, 10)
  PROVE  Spec /\ AllFair => QueueIsServed
<1>. DEFINE J(n) == Served(First(gListenerThreads, n))
<1>1. J(0)
  <2>1. First(gListenerThreads, 0) = {}
    BY DEF First
  <2>. QED
    BY <2>1, ServedNone
<1>2. \A n \in 0 .. 9, m \in 1 .. 10 : m = n + 1 /\ J(n) => J(m)
  BY ServedUpTo
<1>. HIDE DEF J
<1>3. J(5)
  BY <1>1, <1>2
<1>4. J(10)
  BY <1>2, <1>3
<1>5. Served(Listeners)
  BY <1>4 DEF J
<1>6. /\ queue = QueueLimit
      /\ main = "prompt"
      /\ \E t \in Listeners : Listening(t)
      <=> FullFor(Listeners)
  BY DEF FullFor
<1>7. Relieved <=> queue < QueueLimit \/ main # "prompt"
  BY DEF Relieved
<1>. QED
  BY <1>5, <1>6, <1>7, PTL DEF Served, QueueIsServed
-----------------------------------------------------------------------------
(* NobodyHangs speaks of ENABLED, for which the provers have no rule.  But *)
(* an action is enabled exactly under its guard if it implies the guard    *)
(* and if, under the guard, one next state that can be written down makes  *)
(* it a step.  For a listener that state is the one where nothing runs     *)
(* short and FilterGetMessage does what the port lets it.                  *)
Usual(t) ==
  CASE pc[t] = "start"  -> "check"
    [] pc[t] = "check"  -> IF gTerminationEvent = "set" THEN "cancel" ELSE "get"
    [] pc[t] = "get"    -> IF ~PortUsable THEN "cancel"
                           ELSE IF queue > 0 THEN "handle" ELSE "wait"
    [] pc[t] = "wait"   -> IF /\ HandlesValid(t)
                              /\ gTerminationEvent # "set"
                              /\ io[t] = "message"
                           THEN "handle" ELSE "cancel"
    [] pc[t] = "handle" -> "check"
    [] pc[t] = "cancel" -> "free"
    [] OTHER            -> "gone"

UsualRequest(t) ==
  CASE pc[t] = "get" /\ PortUsable /\ queue = 0 -> "pending"
    [] /\ pc[t] = "wait"
       /\ HandlesValid(t)
       /\ gTerminationEvent # "set"
       /\ io[t] = "message" -> "none"
    [] /\ pc[t] = "cancel"
       /\ gDriverPort = "handle"
       /\ port = "open"
       /\ io[t] = "pending" -> "none"
    [] OTHER -> io[t]

ListenerGoes(t) ==
  /\ pc' = [pc EXCEPT ![t] = Usual(t)]
  /\ buffer' = CASE pc[t] = "start" -> [buffer EXCEPT ![t] = "allocated"]
                 [] pc[t] = "free"  -> [buffer EXCEPT ![t] = "freed"]
                 [] OTHER           -> buffer
  /\ hEvent' = IF pc[t] = "start" THEN [hEvent EXCEPT ![t] = "valid"] ELSE hEvent
  /\ io' = [io EXCEPT ![t] = UsualRequest(t)]
  /\ queue' = IF pc[t] = "get" /\ PortUsable /\ queue > 0
              THEN queue - 1 ELSE queue
  /\ UNCHANGED <<main, handles, server>>

(* A listener has a next step exactly when Runnable says so: it waits for  *)
(* nothing but the driver, also after failed calls.                        *)
THEOREM RunnableIsEnabled ==
  ASSUME TypeOK, NEW t \in Listeners
  PROVE  /\ CommpMessageListner(t) => Runnable(t)
         /\ Runnable(t) /\ ListenerGoes(t) => <<CommpMessageListner(t)>>_vars
<1>. USE DEF At, Runnable
<1>1. CommpMessageListner(t) => Runnable(t)
  BY DEF CommpMessageListner, StartListener, CheckTermination,
     FilterGetMessage, GetMessageNow, GetMessagePending,
     GetMessageInvalidHandle, GetMessageUnexpected, WaitTermination,
     WaitMessage, WaitFailed, HandleMessage, Cancel, Free
<1>2. ASSUME Runnable(t), ListenerGoes(t)
      PROVE  CommpMessageListner(t) /\ pc' # pc
  <2>. USE <1>2 DEF ListenerGoes, Goto, local, handles
  <2>1. pc[t] \in {"start", "check", "get", "wait", "handle", "cancel", "free"}
    BY DEF TypeOK, Steps
  <2>2. pc' # pc
    <3>1. Usual(t) # pc[t]
      BY <2>1 DEF Usual
    <3>. QED
      BY <3>1 DEF TypeOK
  <2>3. UsualRequest(t) = io[t] => io' = io
    BY DEF TypeOK
  <2>4. CASE pc[t] = "start"
    <3>1. Usual(t) = "check" /\ UsualRequest(t) = io[t]
      BY <2>4 DEF Usual, UsualRequest
    <3>. QED
      BY <2>2, <2>3, <2>4, <3>1 DEF StartListener, CommpMessageListner
  <2>5. CASE pc[t] = "check"
    <3>1. /\ Usual(t) = IF gTerminationEvent = "set" THEN "cancel" ELSE "get"
          /\ UsualRequest(t) = io[t]
      BY <2>5 DEF Usual, UsualRequest
    <3>. QED
      BY <2>2, <2>3, <2>5, <3>1 DEF CheckTermination, CommpMessageListner
  <2>6. CASE pc[t] = "get"
    <3>1. CASE ~PortUsable
      <4>1. Usual(t) = "cancel" /\ UsualRequest(t) = io[t]
        BY <2>6, <3>1 DEF Usual, UsualRequest
      <4>. QED
        BY <2>2, <2>3, <2>6, <3>1, <4>1 DEF GetMessageInvalidHandle,
           FilterGetMessage, CommpMessageListner
    <3>2. CASE PortUsable /\ queue > 0
      <4>1. queue # 0
        BY <3>2 DEF TypeOK
      <4>2. Usual(t) = "handle" /\ UsualRequest(t) = io[t]
        BY <2>6, <3>2, <4>1 DEF Usual, UsualRequest
      <4>. QED
        BY <2>2, <2>3, <2>6, <3>2, <4>2 DEF GetMessageNow, FilterGetMessage,
           CommpMessageListner
    <3>3. CASE PortUsable /\ ~(queue > 0)
      <4>1. queue = 0
        BY <3>3 DEF TypeOK
      <4>2. Usual(t) = "wait" /\ UsualRequest(t) = "pending"
        BY <2>6, <3>3, <4>1 DEF Usual, UsualRequest
      <4>. QED
        BY <2>2, <2>6, <3>3, <4>1, <4>2 DEF GetMessagePending, FilterGetMessage,
           CommpMessageListner
    <3>. QED
      BY <3>1, <3>2, <3>3
  <2>7. CASE pc[t] = "wait"
    <3>1. CASE ~HandlesValid(t)
      <4>1. Usual(t) = "cancel" /\ UsualRequest(t) = io[t]
        BY <2>7, <3>1 DEF Usual, UsualRequest
      <4>. QED
        BY <2>2, <2>3, <2>7, <3>1, <4>1 DEF WaitFailed, CommpMessageListner
    <3>2. CASE HandlesValid(t) /\ gTerminationEvent = "set"
      <4>1. Usual(t) = "cancel" /\ UsualRequest(t) = io[t]
        BY <2>7, <3>2 DEF Usual, UsualRequest
      <4>. QED
        BY <2>2, <2>3, <2>7, <3>2, <4>1 DEF WaitTermination, CommpMessageListner
    <3>3. CASE HandlesValid(t) /\ gTerminationEvent # "set"
      <4>1. IF io[t] = "message"
            THEN Usual(t) = "handle" /\ UsualRequest(t) = "none"
            ELSE Usual(t) = "cancel" /\ UsualRequest(t) = io[t]
        BY <2>7, <3>3 DEF Usual, UsualRequest
      <4>. QED
        BY <2>2, <2>3, <2>7, <3>3, <4>1 DEF WaitMessage, CommpMessageListner
    <3>. QED
      BY <3>1, <3>2, <3>3
  <2>8. CASE pc[t] = "handle"
    <3>1. Usual(t) = "check" /\ UsualRequest(t) = io[t]
      BY <2>8 DEF Usual, UsualRequest
    <3>. QED
      BY <2>2, <2>3, <2>8, <3>1 DEF HandleMessage, CommpMessageListner
  <2>9. CASE pc[t] = "cancel"
    <3>1. /\ Usual(t) = "free"
          /\ UsualRequest(t) = IF /\ gDriverPort = "handle"
                                  /\ port = "open"
                                  /\ io[t] = "pending"
                               THEN "none" ELSE io[t]
      BY <2>9 DEF Usual, UsualRequest
    <3>. QED
      BY <2>2, <2>3, <2>9, <3>1 DEF Cancel, CommpMessageListner
  <2>10. CASE pc[t] = "free"
    <3>1. Usual(t) = "gone" /\ UsualRequest(t) = io[t]
      BY <2>10 DEF Usual, UsualRequest
    <3>. QED
      BY <2>2, <2>3, <2>10, <3>1 DEF Free, CommpMessageListner
  <2>. QED
    BY <2>1, <2>2, <2>4, <2>5, <2>6, <2>7, <2>8, <2>9, <2>10
<1>. QED
  BY <1>1, <1>2 DEF vars

(* The same of main: on its way out it waits for listeners only.           *)
MainGoes ==
  /\ main' = CASE main = "closePort" -> "clearPort"
               [] main = "clearPort" -> "setEvent"
               [] main = "setEvent"  -> "join"
               [] OTHER              -> "done"
  /\ gDriverPort' = IF main = "clearPort" THEN "NULL" ELSE gDriverPort
  /\ port' = IF main = "closePort" THEN "closed" ELSE port
  /\ gTerminationEvent' =
       IF main = "setEvent" THEN "set" ELSE gTerminationEvent
  /\ io' = IF main = "closePort" THEN Aborted ELSE io
  /\ queue' = IF main = "closePort" THEN 0 ELSE queue
  /\ UNCHANGED <<pc, local, server>>

THEOREM MainRunnableIsEnabled ==
  /\ UninitCommunication => MainRunnable
  /\ MainRunnable /\ MainGoes => <<UninitCommunication>>_vars
BY DEF UninitCommunication, MainRunnable, MainGoes, CloseDriverPort,
   ClearDriverPort, SetTerminationEvent, JoinListeners, Main, handles, vars
=============================================================================
