------------------------------- MODULE Console -------------------------------
(***************************************************************************)
(* The console application: the main thread connects to the port of the    *)
(* driver, starts the listener threads, reads commands, and on "exit"      *)
(* closes the port, sets the termination event and joins the listeners.    *)
(*                                                                         *)
(* A listener asks for a message with overlapped I/O: while the request is *)
(* pending the kernel owns the listener's heap buffer and the OVERLAPPED   *)
(* on its stack.  Listeners and main share gDriverPort without a lock.     *)
(***************************************************************************)
EXTENDS Naturals

CONSTANTS
  Listeners,   (* The listener threads (the code starts ten).              *)
  MayFail,     (* Whether memory, events, threads and calls may run short. *)
  QueueLimit   (* Bound of the model on the messages that wait for a       *)
               (* listener.                                                *)

ASSUME ConsoleAssumption == MayFail \in BOOLEAN /\ QueueLimit \in Nat \ {0}

VARIABLES
  main,               (* The next step of the main thread.                 *)
  pc,                 (* The next step of each listener.                   *)
  gDriverPort,        (* The value of the global: "handle", "NULL" or      *)
                      (* "invalid".                                        *)
  port,               (* That handle in the kernel: "open" or "closed".    *)
  gTerminationEvent,  (* "NULL", "unset" or "set"; it is manual-reset.     *)
  buffer,             (* pInputBuffer of each listener.                    *)
  hEvent,             (* overlapped.hEvent of each listener.               *)
  io,                 (* The last request of each listener in the kernel:  *)
                      (* pending, or what it came to: "error" because an   *)
                      (* end of the port went, "failed" of anything else.  *)
  server,             (* Whether the driver serves its port: "up", "down". *)
  queue               (* How many messages wait at the port.               *)

local   == <<buffer, hEvent>>
handles == <<gDriverPort, port, gTerminationEvent>>
vars    == <<main, pc, gDriverPort, port, gTerminationEvent, buffer, hEvent,
             io, server, queue>>

MainSteps == {"connect", "createEvent", "createThreads", "prompt", "closePort",
              "clearPort", "setEvent", "join", "done", "failed"}
Steps     == {"none", "start", "check", "get", "wait", "handle", "cancel",
              "free", "gone"}

TypeOK ==
  /\ main \in MainSteps
  /\ pc \in [Listeners -> Steps]
  /\ gDriverPort \in {"invalid", "handle", "NULL"}
  /\ port \in {"open", "closed"}
  /\ gTerminationEvent \in {"NULL", "unset", "set"}
  /\ buffer \in [Listeners -> {"none", "allocated", "freed"}]
  /\ hEvent \in [Listeners -> {"none", "valid", "NULL"}]
  /\ io \in [Listeners -> {"none", "pending", "message", "error", "failed"}]
  /\ server \in {"up", "down"}
  /\ queue \in 0 .. QueueLimit

(* The process is there as long as main has not returned.                  *)
Alive == main \notin {"done", "failed"}

(* A message can be had through gDriverPort.                               *)
PortUsable == gDriverPort = "handle" /\ port = "open" /\ server = "up"

(* What becomes of the pending requests when one end of the port goes.     *)
Aborted == [t \in Listeners |-> IF io[t] = "pending" THEN "error" ELSE io[t]]

-----------------------------------------------------------------------------
Init ==
  /\ main = "connect"
  /\ pc = [t \in Listeners |-> "none"]
  /\ gDriverPort = "NULL"
  /\ port = "closed"
  /\ gTerminationEvent = "NULL"
  /\ buffer = [t \in Listeners |-> "none"]
  /\ hEvent = [t \in Listeners |-> "none"]
  /\ io = [t \in Listeners |-> "none"]
  /\ server \in {"up", "down"}
  /\ queue = 0

(* A step of the main thread; the listeners stay as they are.              *)
Main(from, to) ==
  main = from /\ main' = to /\ UNCHANGED <<pc, local, server>>

(* InitCommunication: FilterConnectCommunicationPort.                      *)
Connect ==
  /\ \/ /\ server = "up"
        /\ Main("connect", "createEvent")
        /\ gDriverPort' = "handle"
        /\ port' = "open"
     \/ /\ server = "down"
        /\ Main("connect", "failed")
        /\ gDriverPort' = "invalid"
        /\ UNCHANGED port
  /\ UNCHANGED <<gTerminationEvent, io, queue>>

(* Slip: the listeners are started without an event to watch.              *)
NoTerminationEvent ==
  Main("createEvent", "createThreads") /\ UNCHANGED <<handles, io, queue>>

CreateTerminationEvent ==
  /\ \/ Main("createEvent", "createThreads") /\ gTerminationEvent' = "unset"
     \/ /\ MayFail
        /\ Main("createEvent", "failed")
        /\ UNCHANGED gTerminationEvent
  /\ UNCHANGED <<gDriverPort, port, io, queue>>

(* One turn of the loop that starts the listeners.  If a thread cannot be  *)
(* created main returns, and the listeners end with the process.           *)
CreateListener ==
  /\ main = "createThreads"
  /\ \E t \in Listeners :
       /\ pc[t] = "none"
       /\ \/ pc' = [pc EXCEPT ![t] = "start"] /\ UNCHANGED main
          \/ MayFail /\ main' = "failed" /\ UNCHANGED pc
  /\ UNCHANGED <<handles, local, io, server, queue>>

AllCreated ==
  /\ Main("createThreads", "prompt")
  /\ \A t \in Listeners : pc[t] # "none"
  /\ UNCHANGED <<handles, io, queue>>

(* The command loop of main ends with "exit"; other commands do nothing.   *)
Exit == Main("prompt", "closePort") /\ UNCHANGED <<handles, io, queue>>

(* Slip: the handle is dropped without being closed.                       *)
ForgetDriverPort ==
  Main("closePort", "clearPort") /\ UNCHANGED <<handles, io, queue>>

(* UninitCommunication, step by step.  Closing the only handle of the port *)
(* makes the kernel complete what is pending on it.                        *)
CloseDriverPort ==
  /\ Main("closePort", "clearPort")
  /\ port' = "closed"
  /\ io' = Aborted
  /\ queue' = 0
  /\ UNCHANGED <<gDriverPort, gTerminationEvent>>

ClearDriverPort ==
  /\ Main("clearPort", "setEvent")
  /\ gDriverPort' = "NULL"
  /\ UNCHANGED <<port, gTerminationEvent, io, queue>>

SetTerminationEvent ==
  /\ Main("setEvent", "join")
  /\ gTerminationEvent' = "set"
  /\ UNCHANGED <<gDriverPort, port, io, queue>>

(* Slip: main waits for one of the listeners, not for all.                 *)
JoinAny ==
  /\ Main("join", "done")
  /\ \E t \in Listeners : pc[t] = "gone"
  /\ UNCHANGED <<handles, io, queue>>

(* Main waits for the listeners one after the other and returns.           *)
JoinListeners ==
  /\ Main("join", "done")
  /\ \A t \in Listeners : pc[t] = "gone"
  /\ UNCHANGED <<handles, io, queue>>

-----------------------------------------------------------------------------
(* The listeners share the shape: one thread moves, main and the handles   *)
(* stay as they are.                                                       *)
At(t, step)   == Alive /\ pc[t] = step
Goto(t, step) ==
  /\ pc' = [pc EXCEPT ![t] = step]
  /\ UNCHANGED <<main, handles, server>>

(* Without a buffer the thread ends at once; without an event it goes on.  *)
StartListener(t) ==
  /\ At(t, "start")
  /\ \/ /\ buffer' = [buffer EXCEPT ![t] = "allocated"]
        /\ \E event \in {"valid"} \cup (IF MayFail THEN {"NULL"} ELSE {}) :
             hEvent' = [hEvent EXCEPT ![t] = event]
        /\ Goto(t, "check")
     \/ MayFail /\ Goto(t, "gone") /\ UNCHANGED local
  /\ UNCHANGED <<io, queue>>

CheckTermination(t) ==
  /\ At(t, "check")
  /\ Goto(t, IF gTerminationEvent = "set" THEN "cancel" ELSE "get")
  /\ UNCHANGED <<local, io, queue>>

(* FilterGetMessage: a message is there, or the request stays pending, or  *)
(* one end of the port is gone, or anything else happened.                 *)
GetMessageUnchecked(t) ==   (* Slip: any result counts as a message.       *)
  /\ At(t, "get")
  /\ queue' = queue - 1
  /\ Goto(t, "handle")
  /\ UNCHANGED <<local, io>>

GetMessageNow(t) ==
  /\ At(t, "get")
  /\ PortUsable
  /\ queue > 0
  /\ queue' = queue - 1
  /\ Goto(t, "handle")
  /\ UNCHANGED <<local, io>>

GetMessagePending(t) ==
  /\ At(t, "get")
  /\ PortUsable
  /\ queue = 0
  /\ io' = [io EXCEPT ![t] = "pending"]
  /\ Goto(t, "wait")
  /\ UNCHANGED <<local, queue>>

GetMessageInvalidHandle(t) ==
  /\ At(t, "get")
  /\ ~PortUsable
  /\ Goto(t, "cancel")
  /\ UNCHANGED <<local, io, queue>>

GetMessageGivesUp(t) ==   (* Slip: an unexpected result ends the listener. *)
  /\ At(t, "get")
  /\ MayFail
  /\ PortUsable
  /\ Goto(t, "cancel")
  /\ UNCHANGED <<local, io, queue>>

GetMessageUnexpected(t) ==
  /\ At(t, "get")
  /\ MayFail
  /\ PortUsable
  /\ Goto(t, "check")
  /\ UNCHANGED <<local, io, queue>>

FilterGetMessage(t) ==
  \/ GetMessageNow(t)
  \/ GetMessagePending(t)
  \/ GetMessageInvalidHandle(t)
  \/ GetMessageUnexpected(t)

(* WaitForMultipleObjects, with the termination event first: it fails if   *)
(* one of the two handles is NULL.                                         *)
HandlesValid(t) == hEvent[t] = "valid" /\ gTerminationEvent # "NULL"

WaitTermination(t) ==
  /\ At(t, "wait")
  /\ HandlesValid(t)
  /\ gTerminationEvent = "set"
  /\ Goto(t, "cancel")
  /\ UNCHANGED <<local, io, queue>>

(* Slip: the listener waits for all its events, not for any of them.       *)
WaitForAll(t) ==
  /\ At(t, "wait")
  /\ HandlesValid(t)
  /\ gTerminationEvent = "set"
  /\ io[t] \in {"message", "error", "failed"}
  /\ Goto(t, "handle")
  /\ io' = [io EXCEPT ![t] = "none"]
  /\ UNCHANGED <<local, queue>>

(* The request is complete.  GetOverlappedResult tells how, and whatever   *)
(* the reason, a listener whose request brought no message ends.           *)
WaitMessage(t) ==
  /\ At(t, "wait")
  /\ HandlesValid(t)
  /\ gTerminationEvent # "set"
  /\ \/ io[t] = "message" /\ Goto(t, "handle") /\ io' = [io EXCEPT ![t] = "none"]
     \/ io[t] \in {"error", "failed"} /\ Goto(t, "cancel") /\ UNCHANGED io
  /\ UNCHANGED <<local, queue>>

WaitFailed(t) ==
  /\ At(t, "wait")
  /\ ~HandlesValid(t)
  /\ Goto(t, "cancel")
  /\ UNCHANGED <<local, io, queue>>

(* The message is looked at and nothing is done about it.                  *)
HandleMessage(t) ==
  /\ At(t, "handle")
  /\ Goto(t, "check")
  /\ UNCHANGED <<local, io, queue>>

(* Slip: the listener waits until its last request was aborted.            *)
CancelAndAwait(t) ==
  /\ At(t, "cancel")
  /\ io[t] = "error" \/ PortUsable
  /\ io' = [io EXCEPT ![t] = "none"]
  /\ Goto(t, "free")
  /\ UNCHANGED <<local, queue>>

(* CancelIo(gDriverPort) takes back the request of this thread, provided   *)
(* that the global is still an open handle.                                *)
Cancel(t) ==
  /\ At(t, "cancel")
  /\ io' = IF gDriverPort = "handle" /\ port = "open" /\ io[t] = "pending"
           THEN [io EXCEPT ![t] = "none"] ELSE io
  /\ Goto(t, "free")
  /\ UNCHANGED <<local, queue>>

Free(t) ==
  /\ At(t, "free")
  /\ buffer' = [buffer EXCEPT ![t] = "freed"]
  /\ Goto(t, "gone")
  /\ UNCHANGED <<hEvent, io, queue>>

CommpMessageListner(t) ==
  \/ StartListener(t)
  \/ CheckTermination(t)
  \/ FilterGetMessage(t)
  \/ WaitTermination(t)
  \/ WaitMessage(t)
  \/ WaitFailed(t)
  \/ HandleMessage(t)
  \/ Cancel(t)
  \/ Free(t)

-----------------------------------------------------------------------------
(* The driver sends a message: to a pending request if there is one.       *)
Send ==
  /\ Alive
  /\ port = "open"
  /\ server = "up"
  /\ \/ /\ \E t \in Listeners :
             io[t] = "pending" /\ io' = [io EXCEPT ![t] = "message"]
        /\ UNCHANGED queue
     \/ /\ \A t \in Listeners : io[t] # "pending"
        /\ queue < QueueLimit
        /\ queue' = queue + 1
        /\ UNCHANGED io
  /\ UNCHANGED <<main, pc, handles, local, server>>

(* The kernel completes a request without a message although both ends of  *)
(* the port are there.                                                     *)
RequestFails(t) ==
  /\ MayFail
  /\ Alive
  /\ port = "open"
  /\ server = "up"
  /\ io[t] = "pending"
  /\ io' = [io EXCEPT ![t] = "failed"]
  /\ UNCHANGED <<main, pc, handles, local, server, queue>>

(* The driver goes away under the console.                                 *)
ServerGone ==
  /\ Alive
  /\ server = "up"
  /\ server' = "down"
  /\ io' = Aborted
  /\ queue' = 0
  /\ UNCHANGED <<main, pc, handles, local>>

UninitCommunication ==
  \/ CloseDriverPort
  \/ ClearDriverPort
  \/ SetTerminationEvent
  \/ JoinListeners

InitCommunication ==
  \/ Connect
  \/ CreateTerminationEvent
  \/ CreateListener
  \/ AllCreated

Next ==
  \/ InitCommunication
  \/ Exit
  \/ UninitCommunication
  \/ \E t \in Listeners : CommpMessageListner(t) \/ RequestFails(t)
  \/ Send
  \/ ServerGone

(* All threads are scheduled; nobody has to type "exit" and the driver has *)
(* neither to send anything nor to go away.                                *)
Fairness ==
  /\ WF_vars(InitCommunication)
  /\ WF_vars(UninitCommunication)
  /\ \A t \in Listeners : WF_vars(CommpMessageListner(t))

Spec     == Init /\ [][Next]_vars
FairSpec == Spec /\ Fairness

(* The same fairness with the conditions of its actions in place of        *)
(* ENABLED: a listener can go on unless it waits for the driver, and main  *)
(* can unless it waits for a listener.                                     *)
Runnable(t) ==
  /\ Alive
  /\ pc[t] \notin {"none", "gone"}
  /\ pc[t] = "wait" =>
       \/ ~HandlesValid(t)
       \/ gTerminationEvent = "set"
       \/ io[t] \in {"message", "error", "failed"}

MainRunnable ==
  \/ main \in {"closePort", "clearPort", "setEvent"}
  \/ main = "join" /\ \A t \in Listeners : pc[t] = "gone"

ListenerFair(t) ==
  []<>~Runnable(t) \/ []<><<CommpMessageListner(t)>>_vars
MainFair == []<>~MainRunnable \/ []<><<UninitCommunication>>_vars

-----------------------------------------------------------------------------
(* The kernel never writes to memory that a listener has given up: while a *)
(* request is pending the thread that made it is there, with its           *)
(* OVERLAPPED on the stack, and has not freed the buffer.  CancelIo cannot *)
(* be relied upon for it: main may have cleared gDriverPort before.        *)
BufferOutlivesRequest ==
  \A t \in Listeners :
    io[t] = "pending" => buffer[t] = "allocated" /\ pc[t] # "gone"

(* When main returns from UninitCommunication no listener is left that     *)
(* would run while the C runtime is torn down, and none leaked its buffer  *)
(* or left a request behind.                                               *)
JoinIsComplete ==
  main = "done" =>
    \A t \in Listeners :
      /\ pc[t] = "gone"
      /\ buffer[t] # "allocated"
      /\ io[t] # "pending"

(* A listener that got its buffer and its event stops for two reasons      *)
(* only: the port was closed at one of its two ends, or a request it had   *)
(* to wait for came back without a message.  What FilterGetMessage returns *)
(* at once, be it unexpected, never stops it.                              *)
ListenersPersist ==
  \A t \in Listeners :
    /\ pc[t] \in {"cancel", "free", "gone"}
    /\ hEvent[t] = "valid"
    => port = "closed" \/ server = "down" \/ io[t] = "failed"

(* Nobody hangs: whatever result a call had, a listener that does not wait *)
(* for the driver has a next step, and one that waits has it as soon as    *)
(* its request is complete, the event is set or a handle is not valid;     *)
(* main waits for nothing but listeners.                                   *)
NobodyHangs ==
  /\ \A t \in Listeners :
       Runnable(t) <=> ENABLED <<CommpMessageListner(t)>>_vars
  /\ MainRunnable <=> ENABLED <<UninitCommunication>>_vars

(* Liveness: "exit" ends the program, at whatever point the listeners are  *)
(* and whatever resources they did not get.                                *)
ExitFinishes == main = "closePort" ~> main = "done"

(* No message is left lying while somebody listens: a full queue is        *)
(* relieved, although the listeners share it with new messages and make    *)
(* their requests again after unexpected results, as long as these do not  *)
(* go on for ever.  It takes one listener that was set up and none of      *)
(* whose pending requests has failed: such a failure ends it for good, and *)
(* no other listener takes its place.                                      *)
Listening(t)      == hEvent[t] = "valid" /\ io[t] # "failed"
Unexpected        == \E t \in Listeners : GetMessageUnexpected(t)
UnexpectedForEver == []<><<Unexpected>>_vars

QueueIsServed ==
  \/ UnexpectedForEver
  \/ /\ queue = QueueLimit
     /\ main = "prompt"
     /\ \E t \in Listeners : Listening(t)
     ~> queue < QueueLimit \/ main # "prompt"
=============================================================================
