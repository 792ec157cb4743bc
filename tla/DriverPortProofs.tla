---------------------------- MODULE DriverPortProofs ----------------------------
(***************************************************************************)
(* Proofs of the properties of DriverPort, for any set of clients and any  *)
(* set of sending threads.                                                 *)
(*                                                                         *)
(* ClientIsKnown says nothing while a callback or the unload is between    *)
(* FltCloseClientPort and the assignment of NULL, and that is where it     *)
(* could be lost.  Settled tells what is true there: whoever is connected  *)
(* then was connected during it, and is in amid.                           *)
(***************************************************************************)
EXTENDS DriverPort, TLAPS

(* The driver's end of the connection is open, and the client known to     *)
(* have been connected by the driver.                                      *)
Held(c) == end[c] = "open" /\ client[c] # "connecting"

(* One place; who has been given it, and whom ClientPort may be.           *)
OnePlace ==
  /\ \A c, d \in Clients : end[c] = "open" /\ end[d] = "open" => c = d
  /\ \A c \in Clients :
       client[c] = "connecting" => end[c] = "open" /\ c \notin amid
  /\ ClientPort # None =>
       end[ClientPort] = "open" /\ client[ClientPort] \in {"in", "close"}

(* A connection is in ClientPort unless it was forgotten; only such as     *)
(* were connected amid stay behind.                                        *)
InClientPort ==
  \A c \in Clients : Held(c) /\ c \notin amid =>
    ClientPort = c /\ client[c] \in {"in", "close"}

Settled ==
  /\ BetweenCloseAndClear => \A c \in Clients : Held(c) => c \in amid
  /\ ClientPort \in amid => BetweenCloseAndClear

AfterUnload ==
  driver \in {"clear", "closeServer", "done"} =>
    \A c \in Clients : Held(c) => c \in late \cup amid

Descriptor ==
  /\ driver = "build" => descriptor = "none"
  /\ DescriptorIsFreed

IInv ==
  /\ TypeOK
  /\ OnePlace
  /\ InClientPort
  /\ Settled
  /\ AfterUnload
  /\ Descriptor

-----------------------------------------------------------------------------
(* The invariant holds before the port is created.                         *)
LEMMA InitIInv == Init => IInv
BY PortAssumption DEF Init, IInv, TypeOK, OnePlace, InClientPort, Settled, AfterUnload,
   Descriptor, DescriptorIsFreed, Held, BetweenCloseAndClear

(* The messages of an aborted connection.                                  *)
LEMMA AbortedType ==
  ASSUME TypeOK, NEW c
  PROVE  /\ Aborted(c) \in [Threads -> {"idle", "waiting", "read", "aborted"}]
         /\ \A t \in Threads : to[t] = None <=> Aborted(c)[t] = "idle"
BY DEF TypeOK, Aborted

(* FltCloseClientPort closes the one connection that ClientPort holds.     *)
LEMMA CloseEffect ==
  ASSUME TypeOK, FltCloseClientPort
  PROVE  /\ ClientPort' = None
         /\ end' \in [Clients -> {"open", "closed"}]
         /\ \A c \in Clients :
              end'[c] = IF c = ClientPort THEN "closed" ELSE end[c]
         /\ send' \in [Threads -> {"idle", "waiting", "read", "aborted"}]
         /\ \A t \in Threads : to[t] = None <=> send'[t] = "idle"
         /\ UNCHANGED to
BY AbortedType DEF TypeOK, FltCloseClientPort

(* Creating the port, and giving up.                                       *)
LEMMA InitializeKeepsIInv ==
  ASSUME IInv, CommInitializeCommunication \/ Uninitialize
  PROVE  IInv'
BY DEF CommInitializeCommunication, BuildDescriptor, CreatePort,
   FreeDescriptor, Uninitialize, IInv, TypeOK, OnePlace, InClientPort,
   Settled, AfterUnload, Descriptor, DescriptorIsFreed, Held,
   BetweenCloseAndClear, sending, history

(* The unload.                                                             *)
LEMMA UninitializeKeepsIInv ==
  ASSUME IInv, CommUninitializeCommunication
  PROVE  IInv'
<1>. USE DEF IInv, TypeOK, OnePlace, InClientPort, Settled, AfterUnload,
             Descriptor, DescriptorIsFreed, Held, BetweenCloseAndClear
<1>1. CASE CloseClient
  BY <1>1, CloseEffect, PortAssumption DEF CloseClient, history
<1>2. CASE ClearClient
  BY <1>2, PortAssumption DEF ClearClient, sending, history
<1>3. CASE CloseServer
  BY <1>3 DEF CloseServer, sending, history
<1>. QED
  BY <1>1, <1>2, <1>3 DEF CommUninitializeCommunication

(* Clients that come and go.                                               *)
LEMMA ClientKeepsIInv ==
  ASSUME IInv, NEW c \in Clients, Connect(c) \/ Disconnect(c) \/ Callback(c)
  PROVE  IInv'
<1>. USE DEF IInv, TypeOK, OnePlace, InClientPort, Settled, AfterUnload,
             Descriptor, DescriptorIsFreed, Held, BetweenCloseAndClear
<1>1. CASE Connect(c)
  BY <1>1, PortAssumption DEF Connect, control, sending
<1>2. CASE CbConnectNotify(c)
  BY <1>2, PortAssumption DEF CbConnectNotify, control, sending
<1>3. CASE Disconnect(c)
  BY <1>3, AbortedType DEF Disconnect, control, history
<1>4. CASE CbDisconnectCloses(c)
  BY <1>4, CloseEffect, PortAssumption DEF CbDisconnectCloses, control, history
<1>5. CASE CbDisconnectClears(c)
  BY <1>5, PortAssumption DEF CbDisconnectClears, control, sending, history
<1>. QED
  BY <1>1, <1>2, <1>3, <1>4, <1>5 DEF Callback

(* Messages disturb nothing.                                               *)
LEMMA SendKeepsIInv ==
  ASSUME IInv, NEW t \in Threads,
         SendMessage(t) \/ Read(t) \/ CommSendMessageReturns(t)
  PROVE  IInv'
<1>1. /\ UNCHANGED <<control, ClientPort, client, end, history>>
      /\ send' \in [Threads -> {"idle", "waiting", "read", "aborted"}]
      /\ to' \in [Threads -> Clients \cup {None}]
      /\ \A u \in Threads : to'[u] = None <=> send'[u] = "idle"
  BY PortAssumption DEF SendMessage, Read, CommSendMessageReturns, MessageLost, SendFailed,
     Returns, IInv, TypeOK
<1>. QED
  BY <1>1 DEF control, history, IInv, TypeOK, OnePlace, InClientPort, Settled,
     AfterUnload, Descriptor, DescriptorIsFreed, Held, BetweenCloseAndClear

(* Every step keeps the invariant.                                         *)
LEMMA NextKeepsIInv == IInv /\ [Next]_vars => IInv'
<1>. SUFFICES ASSUME IInv, [Next]_vars PROVE IInv'
  OBVIOUS
<1>1. CASE UNCHANGED vars
  BY <1>1 DEF vars, IInv, TypeOK, OnePlace, InClientPort, Settled,
     AfterUnload, Descriptor, DescriptorIsFreed, Held, BetweenCloseAndClear
<1>. QED
  BY <1>1, InitializeKeepsIInv, UninitializeKeepsIInv, ClientKeepsIInv,
     SendKeepsIInv DEF Next

(* IInv is an invariant of the port.                                       *)
THEOREM Invariance == Spec => []IInv
BY InitIInv, NextKeepsIInv, PTL DEF Spec

-----------------------------------------------------------------------------
(* The driver's variables hold what their C types and uses allow.          *)
THEOREM TypeCorrect == Spec => []TypeOK
<1>1. IInv => TypeOK
  BY DEF IInv
<1>. QED
  BY <1>1, Invariance, PTL

(* A client is forgotten exactly if it connects between FltCloseClientPort *)
(* and ClientPort = NULL.                                                  *)
THEOREM ClientKnown == Spec => []ClientIsKnown
<1>1. IInv => ClientIsKnown
  BY DEF IInv, TypeOK, InClientPort, Settled, ClientIsKnown, Connected, Held
<1>. QED
  BY <1>1, Invariance, PTL

(* The one place is lost only by a client that was forgotten so.           *)
THEOREM PlaceReturned == Spec => []PlaceIsReturned
<1>1. IInv => PlaceIsReturned
  BY DEF IInv, InClientPort, PlaceIsReturned, Held
<1>. QED
  BY <1>1, Invariance, PTL

(* The unload leaves nobody connected that was connected before it, and    *)
(* the security descriptor is freed on the error paths too.                *)
THEOREM NothingLeft == Spec => []NothingIsLeft
<1>1. IInv => UnloadDisconnects
  BY DEF IInv, AfterUnload, UnloadDisconnects, Connected, Held
<1>2. IInv => DescriptorIsFreed
  BY DEF IInv, Descriptor
<1>3. IInv => NothingIsLeft
  BY <1>1, <1>2 DEF NothingIsLeft
<1>. QED
  BY <1>3, Invariance, PTL
-----------------------------------------------------------------------------
(***************************************************************************)
(* Progress, from SendFair, in which the guard of the fair action is spelt *)
(* out, as the provers have no rule for ENABLED.                           *)
(***************************************************************************)
AllFair == \A t \in Threads : SendFair(t)

Goes(t) == Sending(t) ~> ~Sending(t)

(* A thread that sends returns, with a reply to wait for or without.       *)
THEOREM SendsReturn == Spec /\ AllFair => SendReturns
<1>1. ASSUME NEW t \in Threads
      PROVE  Spec /\ AllFair => Goes(t)
  <2>1. IInv /\ <<CommSendMessageReturns(t)>>_vars => ~Sending(t)'
    BY DEF CommSendMessageReturns, MessageLost, SendFailed, Returns, Sending,
       IInv, TypeOK
  <2>2. AllFair => SendFair(t)
    BY DEF AllFair
  <2>. QED
    BY <2>1, <2>2, Invariance, PTL DEF SendFair, Goes, Spec
<1>. QED
  BY <1>1 DEF SendReturns, Goes
=============================================================================
