------------------------------ MODULE DriverPort ------------------------------
(***************************************************************************)
(* The driver's end of the communication port (Communication.c).           *)
(*                                                                         *)
(* The driver creates a server port for one connection at a time.  The     *)
(* filter manager calls CbConnectNotify on the thread of a client that     *)
(* connects and CbDisconnectNotify on the thread that closes the client's  *)
(* handle; kernel threads send messages meanwhile, and an unload takes the *)
(* port down.  None of them takes a lock: they share                       *)
(* gDrv.Communication.ClientPort.                                          *)
(*                                                                         *)
(* Nothing in DriverEntry or ProcMonelFilterUnload calls these functions   *)
(* in the code as it is; they are modelled as the component they are       *)
(* written to be, with the order of calls that their names and the         *)
(* commented-out calls imply.                                              *)
(***************************************************************************)
CONSTANTS
  Clients,   (* Instances of the console, started again and again.         *)
  Threads,   (* Kernel threads that send messages.                         *)
  None       (* NULL; no client.                                           *)

ASSUME PortAssumption == None \notin Clients

VARIABLES
  driver,      (* The next step of the driver's control thread.            *)
  descriptor,  (* pSecurityDescriptor: "none", "built" or "freed".         *)
  ServerPort,  (* "none", "open" or "closed".                              *)
  ClientPort,  (* gDrv.Communication.ClientPort.                           *)
  client,      (* Each client, or the callback that runs for it.           *)
  end,         (* The driver's end of each client's connection.            *)
  send,        (* Each thread's FltSendMessage.                            *)
  to,          (* The client that it sends to.                             *)
  amid, late   (* History: the clients that were connected between         *)
               (* FltCloseClientPort and the assignment after it; those    *)
               (* that were connected after the unload had closed.         *)

control == <<driver, descriptor, ServerPort>>
sending == <<send, to>>
history == <<amid, late>>
vars    == <<driver, descriptor, ServerPort, ClientPort, client, end, send, to,
             amid, late>>

TypeOK ==
  /\ driver \in {"build", "create", "free", "serving", "closeClient", "clear",
                 "closeServer", "done", "failed"}
  /\ descriptor \in {"none", "built", "freed"}
  /\ ServerPort \in {"none", "open", "closed"}
  /\ ClientPort \in Clients \cup {None}
  /\ client \in [Clients -> {"out", "connecting", "in", "close", "clear"}]
  /\ end \in [Clients -> {"open", "closed"}]
  /\ send \in [Threads -> {"idle", "waiting", "read", "aborted"}]
  /\ to \in [Threads -> Clients \cup {None}]
  /\ \A t \in Threads : to[t] = None <=> send[t] = "idle"
  /\ amid \subseteq Clients
  /\ late \subseteq Clients

Init ==
  /\ driver = "build"
  /\ descriptor = "none"
  /\ ServerPort = "none"
  /\ ClientPort = None
  /\ client = [c \in Clients |-> "out"]
  /\ end = [c \in Clients |-> "closed"]
  /\ send = [t \in Threads |-> "idle"]
  /\ to = [t \in Threads |-> None]
  /\ amid = {}
  /\ late = {}

(* What becomes of the messages under way to a client whose connection is  *)
(* closed at either end.                                                   *)
Aborted(c) ==
  [t \in Threads |->
     IF to[t] = c /\ send[t] \in {"waiting", "read"} THEN "aborted" ELSE send[t]]

(***************************************************************************)
(* FltCloseClientPort(gDrv.FilterHandle, &gDrv.Communication.ClientPort)   *)
(* closes the driver's end of whatever connection ClientPort holds, and    *)
(* clears it; there is nothing to close if it is NULL.  Only now another   *)
(* client may connect: CbConnectNotify relies on that, as it stores the    *)
(* new port without closing an old one.                                    *)
(***************************************************************************)
FltCloseClientPort ==
  /\ ClientPort' = None
  /\ end' = [c \in Clients |-> IF c = ClientPort THEN "closed" ELSE end[c]]
  /\ send' = IF ClientPort = None THEN send ELSE Aborted(ClientPort)
  /\ UNCHANGED to

-----------------------------------------------------------------------------
(* CommInitializeCommunication.                                            *)
BuildDescriptor ==
  /\ driver = "build"
  /\ \/ driver' = "create" /\ descriptor' = "built"
     \/ driver' = "failed" /\ UNCHANGED descriptor
  /\ UNCHANGED <<ServerPort, ClientPort, client, end, sending, history>>

(* FltCreateCommunicationPort; clients may connect as soon as it is there. *)
CreatePort ==
  /\ driver = "create"
  /\ driver' = "free"
  /\ ServerPort' \in {"open", "none"}
  /\ UNCHANGED <<descriptor, ClientPort, client, end, sending, history>>

(* __finally: with and without the port.                                   *)
FreeDescriptor ==
  /\ driver = "free"
  /\ driver' = IF ServerPort = "open" THEN "serving" ELSE "failed"
  /\ descriptor' = "freed"
  /\ UNCHANGED <<ServerPort, ClientPort, client, end, sending, history>>

-----------------------------------------------------------------------------
(* CommUninitializeCommunication: the client's port before the server's.   *)
Uninitialize ==
  /\ driver = "serving"
  /\ driver' = "closeClient"
  /\ UNCHANGED <<descriptor, ServerPort, ClientPort, client, end, sending,
                 history>>

(* Slip: the client's port is forgotten, not closed.                       *)
ForgetClient ==
  /\ driver = "closeClient"
  /\ driver' = "clear"
  /\ UNCHANGED <<descriptor, ServerPort, ClientPort, client, end, sending,
                 history>>

CloseClient ==
  /\ driver = "closeClient"
  /\ driver' = "clear"
  /\ FltCloseClientPort
  /\ UNCHANGED <<descriptor, ServerPort, client, history>>

ClearClient ==
  /\ driver = "clear"
  /\ driver' = "closeServer"
  /\ ClientPort' = None
  /\ UNCHANGED <<descriptor, ServerPort, client, end, sending, history>>

(* Nobody can connect any more; connections that are there stay.           *)
CloseServer ==
  /\ driver = "closeServer"
  /\ driver' = "done"
  /\ ServerPort' = "closed"
  /\ UNCHANGED <<descriptor, ClientPort, client, end, sending, history>>

-----------------------------------------------------------------------------
(* A client connects, if nobody else is connected, and the filter manager  *)
(* calls the driver.                                                       *)
Connect(c) ==
  /\ ServerPort = "open"
  /\ client[c] = "out"
  /\ \A d \in Clients : end[d] = "closed"
  /\ client' = [client EXCEPT ![c] = "connecting"]
  /\ end' = [end EXCEPT ![c] = "open"]
  /\ amid' = amid \ {c}
  /\ late' = late \ {c}
  /\ UNCHANGED <<control, ClientPort, sending>>

(* A thread that has called FltCloseClientPort and not assigned NULL yet.  *)
BetweenCloseAndClear ==
  driver = "clear" \/ \E d \in Clients : client[d] = "clear"

(* Slip: the port of a client is only kept if there was none.              *)
CbConnectNotifyUnserved(c) ==
  /\ client[c] = "connecting"
  /\ client' = [client EXCEPT ![c] = "in"]
  /\ ClientPort' = IF driver = "serving" THEN c ELSE ClientPort
  /\ amid' = IF BetweenCloseAndClear THEN amid \cup {c} ELSE amid
  /\ late' = IF driver \in {"clear", "closeServer", "done"}
             THEN late \cup {c} ELSE late
  /\ UNCHANGED <<control, end, sending>>

CbConnectNotify(c) ==
  /\ client[c] = "connecting"
  /\ client' = [client EXCEPT ![c] = "in"]
  /\ ClientPort' = c
  /\ amid' = IF BetweenCloseAndClear THEN amid \cup {c} ELSE amid
  /\ late' = IF driver \in {"clear", "closeServer", "done"}
             THEN late \cup {c} ELSE late
  /\ UNCHANGED <<control, end, sending>>

(* The client closes its handle, or dies; nothing is delivered to it.      *)
Disconnect(c) ==
  /\ client[c] = "in"
  /\ client' = [client EXCEPT ![c] = "close"]
  /\ send' = Aborted(c)
  /\ UNCHANGED <<control, ClientPort, end, to, history>>

(* Slip: the driver's end is not closed; ClientPort = NULL is enough.      *)
DisconnectOnlyClears(c) ==
  /\ client[c] = "close"
  /\ client' = [client EXCEPT ![c] = "clear"]
  /\ UNCHANGED <<control, ClientPort, end, sending, history>>

(* CbDisconnectNotify, its two statements.  Both are about ClientPort,     *)
(* whoever's it is.                                                        *)
CbDisconnectCloses(c) ==
  /\ client[c] = "close"
  /\ client' = [client EXCEPT ![c] = "clear"]
  /\ FltCloseClientPort
  /\ UNCHANGED <<control, history>>

CbDisconnectClears(c) ==
  /\ client[c] = "clear"
  /\ client' = [client EXCEPT ![c] = "out"]
  /\ ClientPort' = None
  /\ UNCHANGED <<control, end, sending, history>>

-----------------------------------------------------------------------------
(* Slip: the message is sent whether or not there is a client.             *)
SendMessageUnchecked(t) ==
  /\ send[t] = "idle"
  /\ send' = [send EXCEPT ![t] = "waiting"]
  /\ to' = [to EXCEPT ![t] = ClientPort]
  /\ UNCHANGED <<control, ClientPort, client, end, history>>

(* CommSendMessage.  If there is no client, or the other end is closed     *)
(* already, FltSendMessage fails at once, which changes nothing; else it   *)
(* waits for a reply, up to 60 seconds.                                    *)
SendMessage(t) ==
  /\ send[t] = "idle"
  /\ ClientPort # None /\ client[ClientPort] = "in"
  /\ send' = [send EXCEPT ![t] = "waiting"]
  /\ to' = [to EXCEPT ![t] = ClientPort]
  /\ UNCHANGED <<control, ClientPort, client, end, history>>

(* A listener of the client reads the message.  It never replies.          *)
Read(t) ==
  /\ send[t] = "waiting"
  /\ client[to[t]] = "in"
  /\ send' = [send EXCEPT ![t] = "read"]
  /\ UNCHANGED <<control, ClientPort, client, end, to, history>>

Returns(t) ==
  /\ send' = [send EXCEPT ![t] = "idle"]
  /\ to' = [to EXCEPT ![t] = None]
  /\ UNCHANGED <<control, ClientPort, client, end, history>>

(* Slip: no timeout is given.                                              *)
NoTimeout(t) == FALSE /\ Returns(t)

(* STATUS_TIMEOUT, which CommSendMessage turns into STATUS_MESSAGE_LOST.   *)
MessageLost(t) == send[t] \in {"waiting", "read"} /\ Returns(t)

(* An error status, which CommSendMessage returns as it is.                *)
SendFailed(t) == send[t] = "aborted" /\ Returns(t)

-----------------------------------------------------------------------------
CommInitializeCommunication ==
  BuildDescriptor \/ CreatePort \/ FreeDescriptor

CommUninitializeCommunication ==
  CloseClient \/ ClearClient \/ CloseServer

Callback(c) ==
  CbConnectNotify(c) \/ CbDisconnectCloses(c) \/ CbDisconnectClears(c)

CommSendMessageReturns(t) == MessageLost(t) \/ SendFailed(t)

Next ==
  \/ CommInitializeCommunication
  \/ Uninitialize
  \/ CommUninitializeCommunication
  \/ \E c \in Clients : Connect(c) \/ Disconnect(c) \/ Callback(c)
  \/ \E t \in Threads :
       SendMessage(t) \/ Read(t) \/ CommSendMessageReturns(t)

(* The control thread, the callbacks and the timer go on; no client has to *)
(* connect, to disconnect or to read.                                      *)
Fairness ==
  /\ WF_vars(CommInitializeCommunication)
  /\ WF_vars(CommUninitializeCommunication)
  /\ \A c \in Clients : WF_vars(Callback(c))
  /\ \A t \in Threads : WF_vars(CommSendMessageReturns(t))

Spec     == Init /\ [][Next]_vars
FairSpec == Spec /\ Fairness

(* The same fairness for a thread that sends, with the guard of its        *)
(* actions in place of ENABLED.                                            *)
Sending(t) == ~(send[t] = "idle")

SendFair(t) ==
  []<>~Sending(t) \/ []<><<CommSendMessageReturns(t)>>_vars

-----------------------------------------------------------------------------
Connected(c) == client[c] = "in" /\ end[c] = "open"

(* The driver knows the client that is connected to it, and knows no other *)
(* one, exactly if it was not connected between FltCloseClientPort and     *)
(* ClientPort = NULL of a callback or of the unload: those forget it.      *)
ClientIsKnown ==
  ~BetweenCloseAndClear =>
    \A c \in Clients : Connected(c) => (ClientPort = c <=> c \notin amid)

(* A client that has left has left its place to the next one, except one   *)
(* that was forgotten so: no client can ever connect after it.             *)
PlaceIsReturned ==
  \A c \in Clients : client[c] = "out" /\ end[c] = "open" => c \in amid

(* After the unload nobody is connected whose connection was complete when *)
(* it closed the client port: only such as came before the server port was *)
(* closed too, and those that were forgotten.                              *)
UnloadDisconnects ==
  driver = "done" =>
    \A c \in Clients : Connected(c) => c \in late \cup amid

(* Every path of the initialisation gives its security descriptor back.    *)
DescriptorIsFreed ==
  descriptor = "built" => driver \in {"create", "free"}

(* What one end of the life of the port sets up, no path to the other end  *)
(* leaves behind, but for the clients that were forgotten.                 *)
NothingIsLeft == UnloadDisconnects /\ DescriptorIsFreed

(* Liveness: a thread that sends goes on, although the console does not    *)
(* reply, and may leave or be closed at any time.                          *)
SendReturns == \A t \in Threads : Sending(t) ~> ~Sending(t)
=============================================================================
