---------------------------- MODULE ConnectProofs ----------------------------
(***************************************************************************)
(* Proofs about connecting.  On Mbed OS: the flags of the network          *)
(* interface and what is handed out, for any number of retries, with a     *)
(* callback that runs between any two statements of the caller.  On the    *)
(* other ports: the receive path and the start-up, for every limit and     *)
(* size.                                                                   *)
(***************************************************************************)
EXTENDS InterfaceConnect, NetworkStart, TLAPS

(* A callback is registered only for an interface that is set, which it is *)
(* throughout a call, and only such an interface is said to be connected.  *)
ListenersHaveInterface ==
  /\ listeners \in 0 .. 1
  /\ pc # "idle" => network_interface
  /\ ClosedStaysClosed

(* The callback may be armed to break the dispatch only while the call is  *)
(* in it, and breaks it once.                                              *)
BreaksBelong == DispatchIsArmed /\ ~(broken /\ async_connect)

-----------------------------------------------------------------------------

LEMMA ListenersInit == Init => ListenersHaveInterface
  BY DEF Init, ListenersHaveInterface, ClosedStaysClosed

LEMMA ListenersStep ==
  ListenersHaveInterface /\ [Next]_vars => ListenersHaveInterface'
<1> SUFFICES ASSUME ListenersHaveInterface, [Next]_vars
             PROVE  ListenersHaveInterface'
  OBVIOUS
<1> USE DEF ListenersHaveInterface, ClosedStaysClosed
<1>1. CASE Begin
  <2>1. listeners' \in 0 .. 1
    BY <1>1 DEF Begin, Listen
  <2>2. QED
    BY <1>1, <2>1 DEF Begin
<1>2. CASE ConnectCall
  <2>1. UNCHANGED <<network_interface, listeners>> /\ pc # "idle"
    BY <1>2 DEF ConnectCall, ConnectAsync, IsConnected, Arm, Dispatched,
       CheckConnected, ConnectBlocking, GetAddress, AssignConnected,
       Disconnect, NextAttempt, flags
  <2>2. QED
    BY <2>1
<1>3. CASE Close
  <2>1. listeners' = 0
    BY <1>3 DEF Close
  <2>2. QED
    BY <1>3 DEF Close, call
<1>4. CASE DeliverEvent
  BY <1>4 DEF DeliverEvent
<1>5. CASE ConnectEnds \/ LinkLost \/ UNCHANGED vars
  BY <1>5 DEF ConnectEnds, LinkLost, vars, flags, call
<1>6. QED
  BY <1>1, <1>2, <1>3, <1>4, <1>5 DEF Next

LEMMA BreaksInit == Init => BreaksBelong
  BY Zenon DEF Init, BreaksBelong, DispatchIsArmed

LEMMA BreaksStep == BreaksBelong /\ [Next]_vars => BreaksBelong'
<1> SUFFICES ASSUME BreaksBelong, [Next]_vars PROVE BreaksBelong'
  OBVIOUS
<1> USE DEF BreaksBelong, DispatchIsArmed
<1>1. CASE Begin
  BY <1>1 DEF Begin
<1>2. CASE Arm
  BY <1>2 DEF Arm, Goto
<1>3. CASE Dispatched
  BY <1>3 DEF Dispatched, flags
<1>4. CASE ConnectAsync \/ IsConnected \/ CheckConnected \/ ConnectBlocking
           \/ GetAddress \/ AssignConnected \/ Disconnect \/ NextAttempt
  <2>1. /\ pc # "dispatch" /\ UNCHANGED <<async_connect, broken>>
        /\ ~async_connect /\ ~broken
    BY <1>4 DEF ConnectAsync, IsConnected, CheckConnected, ConnectBlocking,
       GetAddress, AssignConnected, Disconnect, NextAttempt, flags, Goto, Return
  <2>2. pc' # "dispatch"
    BY <1>4 DEF ConnectAsync, IsConnected, CheckConnected, ConnectBlocking,
       GetAddress, AssignConnected, Disconnect, NextAttempt, flags, Goto, Return
  <2>3. QED
    BY <2>1, <2>2
<1>5. CASE Close
  BY <1>5 DEF Close, call
<1>6. CASE DeliverEvent
  BY <1>6 DEF DeliverEvent, Callback
<1>7. CASE ConnectEnds \/ LinkLost \/ UNCHANGED vars
  BY <1>7 DEF ConnectEnds, LinkLost, vars, flags, call
<1>8. QED
  BY <1>1, <1>2, <1>3, <1>4, <1>5, <1>6, <1>7 DEF Next, ConnectCall

(* After a close no late event can make the interface look connected.      *)
THEOREM ClosedInterfaceStaysClosed == Spec => []ClosedStaysClosed
<1>1. ListenersHaveInterface => ClosedStaysClosed
  BY DEF ListenersHaveInterface
<1>2. QED
  BY ListenersInit, ListenersStep, <1>1, PTL DEF Spec

(* A dispatch is always armed, and nothing but it is ever broken.          *)
THEOREM DispatchAndBreakBelong == Spec => []DispatchIsArmed
<1>1. BreaksBelong => DispatchIsArmed
  BY DEF BreaksBelong
<1>2. QED
  BY BreaksInit, BreaksStep, <1>1, PTL DEF Spec

-----------------------------------------------------------------------------
(* The types of the Mbed OS port.                                          *)

FlagsTyped ==
  /\ network_interface \in BOOLEAN /\ interface_connected \in BOOLEAN
  /\ async_connect \in BOOLEAN
  /\ blocking \in BOOLEAN
  /\ broken \in BOOLEAN
  /\ raced \in BOOLEAN /\ missed \in BOOLEAN

CountsTyped == attempt \in 1 .. RetryCount /\ lost \in 0 .. LossBound

StackTyped ==
  /\ pc \in {"idle", "connect", "isup", "arm", "dispatch", "check",
             "address", "assign", "retry", "wait"}
  /\ link \in {"down", "connecting", "up"}
  /\ events \in Seq({"GLOBAL_UP", "DISCONNECTED"})

LEMMA FlagsStep == FlagsTyped /\ [Next]_vars => FlagsTyped'
<1> SUFFICES ASSUME FlagsTyped, [Next]_vars PROVE FlagsTyped'
  OBVIOUS
<1> USE DEF FlagsTyped, flags, call, history
<1>1. CASE Begin
  BY <1>1, Zenon DEF Begin
<1>2. CASE (ConnectAsync \/ Arm \/ IsConnected) /\ UNCHANGED history
  BY <1>2, Zenon DEF ConnectAsync, Arm, IsConnected, Goto, Return
<1>3. CASE /\ Dispatched \/ CheckConnected \/ ConnectBlocking
           /\ UNCHANGED history
  BY <1>3, Zenon DEF Dispatched, CheckConnected, ConnectBlocking, Goto
<1>4. CASE GetAddress /\ UNCHANGED history
  <2>1. /\ UNCHANGED <<network_interface, async_connect, blocking, broken,
                      raced, missed>>
        /\ \/ interface_connected' = interface_connected
           \/ interface_connected' = (interface_connected /\ blocking)
    BY <1>4, Zenon DEF GetAddress, Goto, Return
  <2>2. QED
    BY <2>1, Zenon
<1>5. CASE /\ AssignConnected \/ Disconnect \/ NextAttempt
           /\ UNCHANGED history
  BY <1>5, Zenon DEF AssignConnected, Disconnect, NextAttempt, Goto, Return
<1>6. CASE Close
  BY <1>6, Zenon DEF Close
<1>7. CASE DeliverEvent
  BY <1>7, Zenon DEF DeliverEvent, Callback
<1>8. CASE ConnectEnds \/ LinkLost \/ UNCHANGED vars
  BY <1>8, Zenon DEF ConnectEnds, LinkLost, vars
<1>9. QED
  BY <1>1, <1>2, <1>3, <1>4, <1>5, <1>6, <1>7, <1>8 DEF Next, ConnectCall

LEMMA CountsStep == CountsTyped /\ [Next]_vars => CountsTyped'
<1> SUFFICES ASSUME CountsTyped, [Next]_vars PROVE CountsTyped'
  OBVIOUS
<1> USE BoundsAssumption DEF CountsTyped, stack, call
<1>1. CASE Begin
  BY <1>1 DEF Begin
<1>2. CASE NextAttempt
  BY <1>2 DEF NextAttempt, Return
<1>3. CASE ConnectCall /\ ~NextAttempt
  BY <1>3 DEF ConnectCall, ConnectAsync, IsConnected, Arm, Dispatched,
     CheckConnected, ConnectBlocking, GetAddress, AssignConnected, Disconnect,
     Goto, Return
<1>4. CASE LinkLost
  BY <1>4 DEF LinkLost
<1>5. CASE Close \/ ConnectEnds \/ DeliverEvent \/ UNCHANGED vars
  BY <1>5 DEF Close, ConnectEnds, DeliverEvent, vars
<1>6. QED
  BY <1>1, <1>2, <1>3, <1>4, <1>5 DEF Next

LEMMA StackStep == StackTyped /\ [Next]_vars => StackTyped'
<1> SUFFICES ASSUME StackTyped, [Next]_vars PROVE StackTyped'
  OBVIOUS
<1> DEFINE E == {"GLOBAL_UP", "DISCONNECTED"}
<1> USE DEF StackTyped, stack, call
<1>1. /\ Append(events, "GLOBAL_UP") \in Seq(E)
      /\ Append(events, "DISCONNECTED") \in Seq(E)
      /\ events # <<>> => Tail(events) \in Seq(E)
  OBVIOUS
<1>2. CASE ConnectEnds \/ LinkLost
  BY <1>1, <1>2 DEF ConnectEnds, LinkLost, Goes
<1>3. CASE DeliverEvent
  BY <1>1, <1>3 DEF DeliverEvent
<1>4. CASE Close
  BY <1>1, <1>4 DEF Close, DisconnectOk, Goes
<1>5. CASE ConnectAsync \/ ConnectBlocking \/ Disconnect
  BY <1>1, <1>5 DEF ConnectAsync, ConnectBlocking, Disconnect, DisconnectOk,
     Goes, Goto, Return
<1>6. CASE Begin \/ IsConnected \/ Arm \/ Dispatched \/ CheckConnected
           \/ GetAddress \/ AssignConnected \/ NextAttempt
  BY <1>6 DEF Begin, IsConnected, Arm, Dispatched, CheckConnected, GetAddress,
     AssignConnected, NextAttempt, Goto, Return
<1>7. CASE UNCHANGED vars
  BY <1>7 DEF vars
<1>8. QED
  BY <1>2, <1>3, <1>4, <1>5, <1>6, <1>7 DEF Next, ConnectCall

(* Every variable of the interface keeps its type: one callback registered *)
(* at most, attempts within the retry limit.                               *)
THEOREM InterfaceTyped == Spec => []TypeOK
<1>1. Init => FlagsTyped
  BY Zenon DEF Init, FlagsTyped
<1>2. Init => CountsTyped /\ StackTyped
  BY BoundsAssumption DEF Init, CountsTyped, StackTyped
<1>3. FlagsTyped /\ CountsTyped /\ StackTyped /\ ListenersHaveInterface => TypeOK
  BY Zenon DEF FlagsTyped, CountsTyped, StackTyped, ListenersHaveInterface, TypeOK
<1>4. QED
  BY <1>1, <1>2, <1>3, FlagsStep, CountsStep, StackStep, ListenersInit,
     ListenersStep, PTL DEF Spec

-----------------------------------------------------------------------------

Last(e) == events # <<>> /\ events[Len(events)] = e

(* What a connected flag may rely on.                                      *)
UpOrKnown == link = "up" \/ Last("DISCONNECTED")

(* A link whose last news is that it came up is up.                        *)
NewsAgree ==
  /\ events \in Seq({"GLOBAL_UP", "DISCONNECTED"})
  /\ Last("GLOBAL_UP") => link = "up"

(* The flag is set, or about to be, only for a link that is up, whose end  *)
(* is on its way to a registered callback, or has raced with the caller.   *)
FlagAgrees ==
  /\ listeners \in 0 .. 1
  /\ pc # "idle" => listeners = 1
  /\ interface_connected => listeners = 1
  /\ interface_connected \/ pc \in {"isup", "assign"} => UpOrKnown \/ raced

StackChange ==
  \/ Goes("up", "GLOBAL_UP")
  \/ Goes("down", "DISCONNECTED")
  \/ link = "down" /\ link' = "connecting" /\ events' = events
  \/ link' = link /\ events' = events

LEMMA StackKeepsNews ==
  ASSUME NewsAgree, StackChange
  PROVE  NewsAgree' /\ (UpOrKnown => UpOrKnown')
<1> USE DEF NewsAgree, UpOrKnown, Last
<1>1. ASSUME NEW e \in {"GLOBAL_UP", "DISCONNECTED"}, events' = Append(events, e)
      PROVE  /\ events' \in Seq({"GLOBAL_UP", "DISCONNECTED"})
             /\ events' # <<>> /\ events'[Len(events')] = e
  BY <1>1
<1>2. CASE Goes("up", "GLOBAL_UP")
  BY <1>1, <1>2 DEF Goes
<1>3. CASE Goes("down", "DISCONNECTED")
  BY <1>1, <1>3 DEF Goes
<1>4. CASE link = "down" /\ link' = "connecting" /\ events' = events
  BY <1>4
<1>5. CASE link' = link /\ events' = events
  BY <1>5
<1>6. QED
  BY <1>2, <1>3, <1>4, <1>5 DEF StackChange

LEMMA DeliveryKeepsNews ==
  ASSUME NewsAgree, events # <<>>, events' = Tail(events), link' = link
  PROVE  /\ NewsAgree'
         /\ Head(events) = "GLOBAL_UP" => UpOrKnown'
         /\ Head(events) # "DISCONNECTED" /\ UpOrKnown => UpOrKnown'
<1> USE DEF NewsAgree, UpOrKnown, Last
<1>1. /\ events' \in Seq({"GLOBAL_UP", "DISCONNECTED"})
      /\ events' # <<>> => events'[Len(events')] = events[Len(events)]
  OBVIOUS
<1>2. events' = <<>> => events[Len(events)] = Head(events)
  OBVIOUS
<1>3. events[Len(events)] \in {"GLOBAL_UP", "DISCONNECTED"}
  OBVIOUS
<1>4. QED
  BY <1>1, <1>2, <1>3

LEMMA FlagInit == Init => NewsAgree /\ FlagAgrees
  BY DEF Init, NewsAgree, FlagAgrees, UpOrKnown, Last

LEMMA FlagStep ==
  ASSUME NewsAgree, FlagAgrees, [Next]_vars
  PROVE  NewsAgree' /\ FlagAgrees'
<1>1. CASE Begin
  <2>1. listeners' = 1
    BY <1>1 DEF Begin, Listen, FlagAgrees
  <2>2. ~interface_connected' /\ pc' = "connect"
    BY <1>1 DEF Begin
  <2>3. NewsAgree'
    BY <1>1 DEF Begin, stack, NewsAgree, Last
  <2>4. QED
    BY <2>1, <2>2, <2>3 DEF FlagAgrees
<1>2. CASE DeliverEvent
  <2>1. /\ events # <<>> /\ events' = Tail(events)
        /\ UNCHANGED <<listeners, pc, link>>
    BY <1>2 DEF DeliverEvent
  <2>2. pc \in {"isup", "assign"} => Head(events) = "GLOBAL_UP" \/ raced'
    <3>1. Head(events) \in {"GLOBAL_UP", "DISCONNECTED"}
      BY <2>1 DEF NewsAgree
    <3>2. QED
      BY <1>2, <3>1, Zenon DEF DeliverEvent
  <2>3. /\ NewsAgree'
        /\ Head(events) = "GLOBAL_UP" => UpOrKnown'
    BY <2>1, DeliveryKeepsNews
  <2>4. CASE listeners > 0
    <3>1. interface_connected' = (Head(events) = "GLOBAL_UP") /\ listeners = 1
      BY <1>2, <2>4 DEF DeliverEvent, Callback, FlagAgrees
    <3>2. QED
      BY <2>1, <2>2, <2>3, <3>1 DEF FlagAgrees
  <2>5. CASE ~(listeners > 0)
    <3>1. /\ interface_connected' = interface_connected /\ ~interface_connected
          /\ pc = "idle"
      BY <1>2, <2>5 DEF DeliverEvent, FlagAgrees
    <3>2. QED
      BY <2>1, <2>3, <3>1 DEF FlagAgrees
  <2>6. QED
    BY <2>4, <2>5
<1>3. CASE Close
  <2>1. StackChange
    BY <1>3 DEF Close, DisconnectOk, StackChange
  <2>2. pc' = "idle" /\ ~interface_connected' /\ listeners' = 0
    BY <1>3 DEF Close, call, FlagAgrees
  <2>3. QED
    BY <2>1, <2>2, StackKeepsNews DEF FlagAgrees
<1>4. CASE ConnectEnds \/ LinkLost
  <2>1. StackChange /\ UNCHANGED <<flags, call, history>>
    BY <1>4 DEF ConnectEnds, LinkLost, StackChange
  <2>2. QED
    BY <2>1, StackKeepsNews DEF FlagAgrees, flags, call, history
<1>5. CASE ConnectCall
  <2>1. /\ StackChange
        /\ UNCHANGED <<listeners, raced>>
        /\ pc # "idle"
    BY <1>5 DEF ConnectCall, ConnectAsync, IsConnected, Arm, Dispatched,
       CheckConnected, ConnectBlocking, GetAddress, AssignConnected,
       Disconnect, NextAttempt, DisconnectOk, StackChange, flags, stack,
       history
  <2>2. CASE (interface_connected' => interface_connected)
             /\ pc' \notin {"isup", "assign"}
    BY <2>1, <2>2, StackKeepsNews DEF FlagAgrees
  <2>3. CASE (interface_connected' => interface_connected) /\ link = "up"
    BY <2>1, <2>3, StackKeepsNews DEF FlagAgrees, UpOrKnown
  <2>4. CASE pc \in {"isup", "assign"}
    BY <2>1, <2>4, StackKeepsNews DEF FlagAgrees
  <2>5. \/ pc \in {"isup", "assign"}
        \/ /\ interface_connected' => interface_connected
           /\ link = "up" \/ pc' \notin {"isup", "assign"}
    BY <1>5 DEF ConnectCall, ConnectAsync, IsConnected, Arm, Dispatched,
       CheckConnected, ConnectBlocking, GetAddress, AssignConnected,
       Disconnect, NextAttempt, Goto, Return, flags
  <2>6. QED
    BY <2>2, <2>3, <2>4, <2>5
<1>6. CASE UNCHANGED vars
  BY <1>6 DEF vars, NewsAgree, FlagAgrees, UpOrKnown, Last
<1>7. QED
  BY <1>1, <1>2, <1>3, <1>4, <1>5, <1>6 DEF Next

(* Between calls, the interface handed out is up or its end is on its way  *)
(* to the callback, whatever events are late and whatever failed, or the   *)
(* callback with its end raced with the caller's write of the flag.        *)
THEOREM HandedOutIsUp == Spec => []GetIsUp
<1>1. NewsAgree /\ FlagAgrees /\ [Next]_vars => (NewsAgree /\ FlagAgrees)'
  BY FlagStep
<1>2. FlagAgrees => GetIsUp
  BY DEF FlagAgrees, GetIsUp, InterfaceGet, UpOrKnown, Last
<1>3. QED
  BY FlagInit, <1>1, <1>2, PTL DEF Spec

-----------------------------------------------------------------------------
(* Ports other than Mbed OS.                                               *)

(* The receive path of the EK-RA6M3: a frame waits only for a task that    *)
(* exists, the ring holds what it can, and a full one has a reader.        *)
ReceptionGoesOn ==
  /\ rx \in RxStates
  /\ Len(rx.ring) <= RingSize
  /\ rx.open => rx.task
  /\ rx.pending # {} \/ rx.ring # <<>> => rx.task
  /\ RxNeverStalls

(* Some code runs on some ports only.                                      *)
PlacesAgree ==
  /\ main \in {"card", "mount", "dhcp", "failed"} => port = "ra6m3"
  /\ main = "hook" => port = "nxp"
  /\ main \in {"dongle", "associate"} => port = "rx65n"
  /\ main = "address" => port = "keil_bsd"

(* Each counter is below its limit while something counts it.              *)
LimitsAgree ==
  /\ errors \in 0 .. MaxErrors - 1
  /\ attempts \in 0 .. MaxAttempts
  /\ main \in {"off", "hook", "card", "mount", "prepare"} => attempts = 0
  /\ main \in {"dongle", "associate"} => attempts < MaxAttempts

(* The card is looked for at power-on, and no more often than said.        *)
DiskAgrees ==
  /\ disk \in DiskStates
  /\ main = "off" => disk.count = 0
  /\ main = "card" => disk.count <= MaxCardReads + 1

StartTypes ==
  /\ port \in Ports /\ main \in Places
  /\ preparing \in BOOLEAN /\ reachable \in BOOLEAN /\ linked \in BOOLEAN

(* What each checking port has seen of the network where it goes on.       *)
LinkAgrees ==
  /\ port = "ra6m3" /\ rx.dhcp = "bound" => linked
  /\ port = "ra6m3" /\ main = "online" => rx.dhcp = "bound"
  /\ port = "rx65n" /\ main = "online" => linked
  /\ port = "nxp" /\ main \in {"prepare", "connect", "online", "closed"} =>
       linked

-----------------------------------------------------------------------------

(* A step leaves the receive path alone, or is one of six.                 *)
LEMMA ReceptionSteps ==
  ASSUME [StartNext]_startVars
  PROVE  \/ UNCHANGED rx
         \/ rx' = NoDriver
         \/ \E kind \in {"reply", "other"} : Arrive(kind)
         \/ EtherISRCallback
         \/ RXHandlerTask
         \/ EthernetifInput
         \/ NetworkInit
<1>1. CASE StartUp
  BY <1>1 DEF StartUp, RunProgram, InitNetwork, DaemonTaskStartupHook,
     CardAbsent, CardPresent, FileSystemMountDrive, InitialisationFails,
     InterfaceInit, NetInitializeFails, StayOnDisk
<1>2. CASE Connect
  BY <1>2 DEF Connect, ConnectAtOnce, NetworkInitWaits, NetworkInitEnds,
     ConnectFailed, WifiInit, WifiInitFails, InterfaceConnectWifi,
     WifiConnect, WifiConnectFails, StayOnDisk, Restarted
<1>3. CASE InitNetworkBound \/ NetAddress \/ InterfaceClose \/ Resume
           \/ NetworkChange \/ InsertCard \/ PowerCycle \/ UNCHANGED startVars
  BY <1>3 DEF InitNetworkBound, NetAddress, InterfaceClose, Resume,
     NetworkChange, InsertCard, PowerCycle, StayOnDisk, Restarted, startVars
<1>4. QED
  BY <1>1, <1>2, <1>3 DEF StartNext, Receive

(* R_ETHER_Open keeps as many frames as there were, or none.               *)
LEMMA KeptRing ==
  ASSUME NEW ring \in Seq({"reply", "other"}),
         NEW kept \in {<<>>, [i \in DOMAIN ring |-> "other"]}
  PROVE  /\ kept \in Seq({"reply", "other"})
         /\ Len(kept) = Len(ring) \/ Len(kept) = 0
<1>1. CASE kept = <<>>
  BY <1>1
<1>2. CASE kept = [i \in DOMAIN ring |-> "other"]
  <2>1. kept \in [1 .. Len(ring) -> {"reply", "other"}] /\ Len(ring) \in Nat
    BY <1>2
  <2>2. QED
    BY <2>1
<1>3. QED
  BY <1>1, <1>2

(* The receive path after a read.                                          *)
AfterRead(ring, dhcp, buffer, failed) ==
  [open |-> rx.open, task |-> rx.task, pending |-> rx.pending,
   notified |-> rx.notified, reading |-> FALSE, ring |-> ring,
   dhcp |-> dhcp, buffer |-> buffer, failed |-> failed]

(* Passing a buffer on may end DHCP, which sets the link, and no more.     *)
LEMMA PassedOn ==
  ASSUME NEW ring, NEW buffer, NEW failed, rx \in RxStates,
         PassOn(buffer, ring, failed)
  PROVE  \E dhcp \in {"bound", rx.dhcp} :
           /\ rx' = AfterRead(ring, dhcp, buffer, failed)
           /\ linked \in BOOLEAN => linked' \in BOOLEAN
           /\ linked => linked'
           /\ dhcp = rx.dhcp \/ linked'
<1> DEFINE B(taken) == taken /\ buffer = "reply" /\ rx.dhcp = "discover"
           D(taken) == IF B(taken) THEN "bound" ELSE rx.dhcp
<1>1. PICK taken \in BOOLEAN :
        /\ rx' = [rx EXCEPT !.reading = FALSE, !.ring = ring,
                            !.buffer = buffer, !.failed = failed,
                            !.dhcp = D(taken)]
        /\ linked' = (linked \/ B(taken))
  BY DEF PassOn
<1> DEFINE d == D(taken)
<1>2. rx' = AfterRead(ring, d, buffer, failed)
  <2> HIDE DEF d, D, B
  <2>1. rx' = [rx EXCEPT !.reading = FALSE, !.ring = ring, !.buffer = buffer,
                         !.failed = failed, !.dhcp = d]
    BY <1>1 DEF d
  <2>2. QED
    BY <2>1 DEF RxStates, AfterRead
<1>3. CASE B(taken)
  BY <1>1, <1>2, <1>3
<1>4. CASE ~B(taken)
  BY <1>1, <1>2, <1>4
<1>5. QED
  BY <1>3, <1>4

(* A read takes the first frame, finds none, or fails.                     *)
LEMMA InputReads ==
  ASSUME ReceptionGoesOn, EthernetifInput
  PROVE  \E ring \in {rx.ring, Tail(rx.ring)}, dhcp \in {"bound", rx.dhcp},
            buffer \in {rx.buffer, Head(rx.ring)}, failed \in BOOLEAN :
           /\ rx' = AfterRead(ring, dhcp, buffer, failed)
           /\ \/ rx.ring # <<>> /\ ring = Tail(rx.ring)
              \/ buffer = rx.buffer /\ ring = rx.ring /\ (failed \/ ring = <<>>)
           /\ linked \in BOOLEAN => linked' \in BOOLEAN
           /\ linked => linked'
           /\ dhcp = rx.dhcp \/ linked'
<1>1. rx \in RxStates
  BY DEF ReceptionGoesOn
<1>2. CASE NoData
  <2>1. rx' = AfterRead(rx.ring, rx.dhcp, rx.buffer, FALSE)
    BY <1>1, <1>2 DEF NoData, AfterRead, RxStates
  <2>2. QED
    BY <1>2, <2>1 DEF NoData
<1>3. CASE ReadFrame
  <2>1. \E dhcp \in {"bound", rx.dhcp} :
          /\ rx' = AfterRead(Tail(rx.ring), dhcp, Head(rx.ring), FALSE)
          /\ linked \in BOOLEAN => linked' \in BOOLEAN
          /\ linked => linked'
          /\ dhcp = rx.dhcp \/ linked'
    BY <1>1, <1>3, PassedOn, Zenon DEF ReadFrame
  <2>2. QED
    BY <1>3, <2>1 DEF ReadFrame
<1>4. CASE ReadFails
  <2>1. \E dhcp \in {"bound", rx.dhcp} :
          /\ rx' = AfterRead(rx.ring, dhcp, rx.buffer, TRUE)
          /\ linked \in BOOLEAN => linked' \in BOOLEAN
          /\ linked => linked'
          /\ dhcp = rx.dhcp \/ linked'
    BY <1>1, <1>4, PassedOn, Zenon DEF ReadFails
  <2>2. QED
    BY <2>1
<1>5. QED
  BY <1>2, <1>3, <1>4 DEF EthernetifInput

LEMMA ReceptionInit == StartInit => ReceptionGoesOn
<1> SUFFICES ASSUME StartInit PROVE ReceptionGoesOn
  OBVIOUS
<1>1. rx = NoDriver
  BY DEF StartInit
<1>2. QED
  BY <1>1, LimitsAssumption
  DEF NoDriver, ReceptionGoesOn, RxStates, RxNeverStalls

LEMMA ReceptionStep ==
  ReceptionGoesOn /\ [StartNext]_startVars => ReceptionGoesOn'
<1> SUFFICES ASSUME ReceptionGoesOn, [StartNext]_startVars
             PROVE  ReceptionGoesOn'
  OBVIOUS
<1> USE LimitsAssumption DEF ReceptionGoesOn, RxStates, RxNeverStalls
<1>1. CASE UNCHANGED rx
  BY <1>1
<1>2. CASE rx' = NoDriver
  BY <1>2 DEF NoDriver
<1>3. ASSUME NEW kind \in {"reply", "other"}, Arrive(kind)
      PROVE  ReceptionGoesOn'
  <2>1. rx.ring \in Seq({"reply", "other"}) /\ rx.task
    BY <1>3 DEF Arrive
  <2>2. CASE Len(rx.ring) < RingSize
    <3>1. rx' = [open |-> rx.open, task |-> rx.task,
                 pending |-> rx.pending \cup {"FR"},
                 notified |-> rx.notified, reading |-> rx.reading,
                 ring |-> Append(rx.ring, kind), dhcp |-> rx.dhcp,
               buffer |-> rx.buffer, failed |-> rx.failed]
      BY <1>3, <2>2 DEF Arrive
    <3>2. QED
      BY <2>1, <2>2, <3>1
  <2>3. CASE ~(Len(rx.ring) < RingSize)
    <3>1. rx' = [open |-> rx.open, task |-> rx.task,
                 pending |-> rx.pending \cup {"FDE"},
                 notified |-> rx.notified, reading |-> rx.reading,
                 ring |-> rx.ring, dhcp |-> rx.dhcp,
               buffer |-> rx.buffer, failed |-> rx.failed]
      BY <1>3, <2>3 DEF Arrive
    <3>2. QED
      BY <2>1, <3>1
  <2>4. QED
    BY <2>2, <2>3
<1>4. CASE EtherISRCallback
  <2>1. rx' = [open |-> rx.open, task |-> rx.task, pending |-> {},
               notified |-> rx.notified + 1, reading |-> rx.reading,
               ring |-> rx.ring, dhcp |-> rx.dhcp,
               buffer |-> rx.buffer, failed |-> rx.failed]
    BY <1>4 DEF EtherISRCallback
  <2>2. rx.notified + 1 \in 1 .. MaxNotified
    BY <1>4 DEF EtherISRCallback
  <2>3. QED
    BY <2>1, <2>2
<1>5. CASE RXHandlerTask
  <2>1. rx' = [open |-> rx.open, task |-> rx.task, pending |-> rx.pending,
               notified |-> rx.notified - 1, reading |-> TRUE,
               ring |-> rx.ring, dhcp |-> rx.dhcp,
               buffer |-> rx.buffer, failed |-> rx.failed]
    BY <1>5 DEF RXHandlerTask
  <2>2. rx.notified - 1 \in 0 .. MaxNotified
    BY <1>5 DEF RXHandlerTask
  <2>3. QED
    BY <2>1, <2>2
<1>6. CASE EthernetifInput
  <2>1. rx.ring \in Seq({"reply", "other"}) /\ Len(rx.ring) <= RingSize
    OBVIOUS
  <2>2. PICK ring \in {rx.ring, Tail(rx.ring)}, dhcp \in {"bound", rx.dhcp},
             buffer \in {rx.buffer, Head(rx.ring)}, failed \in BOOLEAN :
          /\ rx' = AfterRead(ring, dhcp, buffer, failed)
          /\ \/ rx.ring # <<>> /\ ring = Tail(rx.ring)
             \/ buffer = rx.buffer /\ ring = rx.ring /\ (failed \/ ring = <<>>)
    BY <1>6, InputReads
  <2>3. CASE rx.ring # <<>> /\ ring = Tail(rx.ring)
    <3>1. /\ Tail(rx.ring) \in Seq({"reply", "other"})
          /\ Head(rx.ring) \in {"reply", "other"}
          /\ Len(Tail(rx.ring)) < RingSize
      BY <2>1, <2>3
    <3>2. QED
      BY <2>2, <2>3, <3>1 DEF AfterRead
  <2>4. CASE /\ buffer = rx.buffer /\ ring = rx.ring
             /\ failed \/ ring = <<>>
    BY <2>1, <2>2, <2>4 DEF AfterRead
  <2>5. QED
    BY <2>2, <2>3, <2>4
<1>7. CASE NetworkInit
  <2>1. PICK kept \in {<<>>, [i \in DOMAIN rx.ring |-> "other"]} :
          rx' = [rx EXCEPT !.open = TRUE, !.task = TRUE, !.dhcp = "discover",
                           !.ring = kept, !.buffer = "other"]
    BY <1>7 DEF NetworkInit
  <2>2. Len(rx.ring) < RingSize \/ rx.failed
    BY <1>7 DEF NetworkInit, Go, Quiet
  <2>3. rx.ring \in Seq({"reply", "other"})
    OBVIOUS
  <2>4. /\ kept \in Seq({"reply", "other"})
        /\ Len(kept) = Len(rx.ring) \/ Len(kept) = 0
    BY <2>1, <2>3, KeptRing, Zenon
  <2>5. Len(kept) <= RingSize /\ (Len(kept) < RingSize \/ rx.failed)
    BY <2>2, <2>4
  <2>6. rx' = [open |-> TRUE, task |-> TRUE, pending |-> rx.pending,
               notified |-> rx.notified, reading |-> rx.reading,
               ring |-> kept, dhcp |-> "discover", buffer |-> "other",
               failed |-> rx.failed]
    BY <2>1
  <2>7. QED
    BY <2>4, <2>5, <2>6
<1>8. QED
  BY <1>1, <1>2, <1>3, <1>4, <1>5, <1>6, <1>7, ReceptionSteps

(* However interrupts, the receive task and the stack take turns, and      *)
(* however often the driver is opened again, a full ring has a reader,     *)
(* unless the last read has failed.                                        *)
THEOREM FullRingIsRead == StartSpec => []RxNeverStalls
<1>1. ReceptionGoesOn => RxNeverStalls
  BY DEF ReceptionGoesOn
<1>2. QED
  BY ReceptionInit, ReceptionStep, <1>1, PTL DEF StartSpec

-----------------------------------------------------------------------------

LEMMA PlacesStep == PlacesAgree /\ [StartNext]_startVars => PlacesAgree'
<1> SUFFICES ASSUME PlacesAgree, [StartNext]_startVars PROVE PlacesAgree'
  OBVIOUS
<1> USE DEF PlacesAgree, Go, StayOnDisk
<1>1. CASE StartUp
  BY <1>1 DEF StartUp, RunProgram, InitNetwork, DaemonTaskStartupHook,
     CardAbsent, CardPresent, FileSystemMountDrive, InitialisationFails,
     InterfaceInit, NetInitializeFails
<1>2. CASE Connect
  BY <1>2 DEF Connect, ConnectAtOnce, NetworkInit, NetworkInitWaits,
     NetworkInitEnds, ConnectFailed, WifiInit, WifiInitFails,
     InterfaceConnectWifi, WifiConnect, WifiConnectFails, Restarted
<1>3. CASE NetAddress \/ InterfaceClose \/ Resume \/ PowerCycle
  BY <1>3 DEF NetAddress, InterfaceClose, Resume, PowerCycle, Restarted
<1>4. CASE UNCHANGED <<port, main>>
  BY <1>4
<1>5. CASE Receive \/ (\E kind \in {"reply", "other"} : Arrive(kind))
           \/ InitNetworkBound \/ NetworkChange \/ InsertCard
  BY <1>5 DEF Receive, EtherISRCallback, RXHandlerTask, EthernetifInput,
     Arrive, InitNetworkBound, NetworkChange, InsertCard
<1>6. QED
  BY <1>1, <1>2, <1>3, <1>4, <1>5 DEF StartNext, startVars

(* What a board has seen of the network lasts until it is set up again.    *)
LEMMA LinkStep ==
  ReceptionGoesOn /\ PlacesAgree /\ LinkAgrees /\ [StartNext]_startVars =>
    LinkAgrees'
<1> SUFFICES ASSUME ReceptionGoesOn, PlacesAgree, LinkAgrees,
                    [StartNext]_startVars
             PROVE  LinkAgrees'
  OBVIOUS
<1> USE DEF PlacesAgree, LinkAgrees, Go, StayOnDisk
<1>1. CASE Restarted
  BY <1>1 DEF Restarted, NoDriver
<1>2. CASE RunProgram \/ InitNetwork \/ DaemonTaskStartupHook \/ CardAbsent
           \/ CardPresent \/ FileSystemMountDrive \/ InitialisationFails
  BY <1>2 DEF RunProgram, InitNetwork, DaemonTaskStartupHook, CardAbsent,
     CardPresent, FileSystemMountDrive, InitialisationFails
<1>3. CASE InterfaceInit
  BY <1>3 DEF InterfaceInit
<1>4. CASE NetInitializeFails \/ NetAddress \/ InitNetworkBound
  BY <1>4 DEF NetInitializeFails, NetAddress, InitNetworkBound
<1>5. CASE ConnectAtOnce
  BY <1>5 DEF ConnectAtOnce
<1>6. CASE NetworkInit
  <2>1. main' = "dhcp" /\ port' = "ra6m3"
    BY <1>6 DEF NetworkInit
  <2>2. rx'.dhcp = "discover"
    BY <1>6 DEF NetworkInit, ReceptionGoesOn, RxStates
  <2>3. QED
    BY <2>1, <2>2
<1>7. CASE NetworkInitWaits \/ NetworkInitEnds \/ ConnectFailed
  BY <1>1, <1>7 DEF NetworkInitWaits, NetworkInitEnds, ConnectFailed
<1>8. CASE WifiInit \/ WifiInitFails \/ InterfaceConnectWifi
  BY <1>1, <1>8 DEF WifiInit, WifiInitFails, InterfaceConnectWifi
<1>9. CASE WifiConnect \/ WifiConnectFails
  BY <1>1, <1>9 DEF WifiConnect, WifiConnectFails
<1>10. CASE InterfaceClose \/ Resume
  BY <1>10 DEF InterfaceClose, Resume
<1>11. CASE EthernetifInput
  <2>1. UNCHANGED <<port, main>>
    BY <1>11 DEF EthernetifInput
  <2>2. PICK dhcp \in {"bound", rx.dhcp} :
          /\ rx'.dhcp = dhcp
          /\ linked => linked'
          /\ dhcp = rx.dhcp \/ linked'
    BY <1>11, InputReads DEF AfterRead
  <2>3. QED
    BY <2>1, <2>2
<1>12. CASE EtherISRCallback \/ RXHandlerTask
            \/ \E kind \in {"reply", "other"} : Arrive(kind)
  <2>1. rx'.dhcp = rx.dhcp /\ UNCHANGED <<port, main, linked>>
    BY <1>12 DEF EtherISRCallback, RXHandlerTask, Arrive, ReceptionGoesOn,
       RxStates
  <2>2. QED
    BY <2>1
<1>13. CASE NetworkChange \/ InsertCard \/ UNCHANGED startVars
  BY <1>13 DEF NetworkChange, InsertCard, startVars
<1>14. QED
  BY <1>1, <1>2, <1>3, <1>4, <1>5, <1>6, <1>7, <1>8, <1>9, <1>10, <1>11,
     <1>12, <1>13 DEF StartNext, StartUp, Connect, Receive, PowerCycle

LEMMA PlacesInit == StartInit => PlacesAgree /\ LinkAgrees
  BY DEF StartInit, PlacesAgree, LinkAgrees, NoDriver

(* On the ports that check for one, the application goes on only with a    *)
(* network, for every ring, limit and number of retries, whatever the      *)
(* network, the card and the calls of the stack do.                        *)
THEOREM OnlineHasNetwork == StartSpec => []ConnectMeansNetwork
<1>1. LinkAgrees => ConnectMeansNetwork
  BY DEF LinkAgrees, ConnectMeansNetwork, CheckingPorts
<1>2. QED
  BY ReceptionInit, ReceptionStep, PlacesInit, PlacesStep, LinkStep, <1>1, PTL
  DEF StartSpec

-----------------------------------------------------------------------------

LEMMA TypesStep == StartTypes /\ [StartNext]_startVars => StartTypes'
<1> SUFFICES ASSUME StartTypes, [StartNext]_startVars PROVE StartTypes'
  OBVIOUS
<1> USE DEF StartTypes, Places, Go
<1>1. CASE Restarted
  BY <1>1 DEF Restarted
<1>2. CASE StartUp
  BY <1>2 DEF StartUp, RunProgram, InitNetwork, DaemonTaskStartupHook,
     CardAbsent, CardPresent, FileSystemMountDrive, InitialisationFails,
     InterfaceInit, NetInitializeFails
<1>3. CASE Connect
  BY <1>1, <1>3 DEF Connect, ConnectAtOnce, NetworkInit, NetworkInitWaits,
     NetworkInitEnds, ConnectFailed, WifiInit, WifiInitFails,
     InterfaceConnectWifi, WifiConnect, WifiConnectFails
<1>4. CASE InitNetworkBound \/ NetAddress \/ InterfaceClose \/ Resume
           \/ NetworkChange \/ InsertCard
  BY <1>4 DEF InitNetworkBound, NetAddress, InterfaceClose, Resume,
     NetworkChange, InsertCard
<1>5. CASE EtherISRCallback \/ RXHandlerTask
           \/ \E kind \in {"reply", "other"} : Arrive(kind)
  BY <1>5 DEF EtherISRCallback, RXHandlerTask, Arrive
<1>6. CASE EthernetifInput
  <2>1. linked' \in BOOLEAN
    BY <1>6, Zenon DEF EthernetifInput, NoData, ReadFrame, ReadFails, PassOn
  <2>2. QED
    BY <1>6, <2>1 DEF EthernetifInput
<1>7. CASE UNCHANGED startVars
  BY <1>7 DEF startVars
<1>8. QED
  BY <1>1, <1>2, <1>3, <1>4, <1>5, <1>6, <1>7 DEF StartNext, Receive, PowerCycle

LEMMA LimitsStep == LimitsAgree /\ [StartNext]_startVars => LimitsAgree'
<1> SUFFICES ASSUME LimitsAgree, [StartNext]_startVars PROVE LimitsAgree'
  OBVIOUS
<1> USE LimitsAssumption DEF LimitsAgree, Go
<1>1. CASE Restarted
  BY <1>1 DEF Restarted
<1>2. CASE StartUp
  <2>1. CASE InterfaceInit
    BY <2>1 DEF InterfaceInit
  <2>2. CASE StartUp /\ ~InterfaceInit
    <3>1. /\ UNCHANGED <<errors, attempts>>
          /\ main' \in {"dongle", "associate"} => UNCHANGED main
          /\ main' \in {"off", "hook", "card", "mount", "prepare"} =>
               main \in {"off", "hook", "card", "mount", "prepare"}
      BY <2>2 DEF StartUp, RunProgram, InitNetwork, DaemonTaskStartupHook,
         CardAbsent, CardPresent, FileSystemMountDrive, InitialisationFails,
         NetInitializeFails
    <3>2. QED
      BY <3>1
  <2>3. QED
    BY <1>2, <2>1, <2>2
<1>3. CASE ConnectAtOnce \/ NetworkInit \/ NetworkInitWaits \/ NetworkInitEnds
           \/ ConnectFailed
  BY <1>1, <1>3 DEF ConnectAtOnce, NetworkInit, NetworkInitWaits,
     NetworkInitEnds, ConnectFailed
<1>4. CASE WifiInit \/ WifiInitFails \/ InterfaceConnectWifi \/ WifiConnect
           \/ WifiConnectFails
  BY <1>1, <1>4 DEF WifiInit, WifiInitFails, InterfaceConnectWifi,
     WifiConnect, WifiConnectFails
<1>5. CASE InitNetworkBound \/ NetAddress \/ InterfaceClose \/ Resume
           \/ NetworkChange \/ InsertCard
  <2>1. /\ errors' \in {0, errors} /\ UNCHANGED attempts
        /\ UNCHANGED main \/ main' \in {"connect", "closed"}
    BY <1>5 DEF InitNetworkBound, NetAddress, InterfaceClose, Resume,
       NetworkChange, InsertCard
  <2>2. QED
    BY <2>1
<1>6. CASE EtherISRCallback \/ RXHandlerTask \/ EthernetifInput
           \/ \E kind \in {"reply", "other"} : Arrive(kind)
  BY <1>6 DEF EtherISRCallback, RXHandlerTask, EthernetifInput, Arrive
<1>7. CASE UNCHANGED startVars
  BY <1>7 DEF startVars
<1>8. QED
  BY <1>1, <1>2, <1>3, <1>4, <1>5, <1>6, <1>7
  DEF StartNext, Connect, Receive, PowerCycle

-----------------------------------------------------------------------------

(* A step leaves the card alone, or is one of four.                        *)
LEMMA DiskSteps ==
  ASSUME [StartNext]_startVars
  PROVE  \/ UNCHANGED disk /\ (main' \in {"off", "card"} => UNCHANGED main)
         \/ RunProgram
         \/ Restarted
         \/ CardAbsent
         \/ FileSystemMountDrive
         \/ InsertCard
<1> USE DEF Go, StayOnDisk
<1>1. CASE StartUp
  BY <1>1 DEF StartUp, InitNetwork, DaemonTaskStartupHook, CardPresent,
     InitialisationFails, InterfaceInit, NetInitializeFails
<1>2. CASE Connect
  BY <1>2 DEF Connect, ConnectAtOnce, NetworkInit, NetworkInitWaits,
     NetworkInitEnds, ConnectFailed, WifiInit, WifiInitFails,
     InterfaceConnectWifi, WifiConnect, WifiConnectFails
<1>3. CASE InitNetworkBound \/ NetAddress \/ InterfaceClose \/ Resume
           \/ NetworkChange \/ PowerCycle \/ UNCHANGED startVars
  BY <1>3 DEF InitNetworkBound, NetAddress, InterfaceClose, Resume,
     NetworkChange, PowerCycle, startVars
<1>4. CASE EtherISRCallback \/ RXHandlerTask \/ EthernetifInput
           \/ \E kind \in {"reply", "other"} : Arrive(kind)
  BY <1>4 DEF EtherISRCallback, RXHandlerTask, EthernetifInput, Arrive
<1>5. QED
  BY <1>1, <1>2, <1>3, <1>4 DEF StartNext, Receive

LEMMA DiskStep == DiskAgrees /\ [StartNext]_startVars => DiskAgrees'
<1> SUFFICES ASSUME DiskAgrees, [StartNext]_startVars PROVE DiskAgrees'
  OBVIOUS
<1>a. MaxCardReads \in Nat
  BY LimitsAssumption
<1>b. /\ disk.card \in BOOLEAN /\ disk.count \in 0 .. MaxCardReads + 2
      /\ disk.mounted \in SUBSET {1, 2}
  BY DEF DiskAgrees, DiskStates
<1>1. CASE UNCHANGED disk /\ (main' \in {"off", "card"} => UNCHANGED main)
  BY <1>1 DEF DiskAgrees
<1>2. CASE RunProgram
  BY <1>a, <1>2 DEF RunProgram, Go, StayOnDisk, DiskAgrees
<1>3. CASE Restarted
  <2>1. disk' = [card |-> disk.card, count |-> 0, mounted |-> {}]
    BY <1>3 DEF Restarted, NoDisk
  <2>2. disk' \in DiskStates /\ disk'.count = 0
    <3>1. 0 \in 0 .. MaxCardReads + 2 /\ {} \in SUBSET {1, 2}
      BY <1>a
    <3>2. QED
      BY <1>b, <2>1, <3>1 DEF DiskStates
  <2>3. QED
    BY <1>a, <1>3, <2>2 DEF Restarted, DiskAgrees
<1>4. CASE CardAbsent
  <2>1. disk' = [card |-> disk.card, count |-> disk.count + 1,
                 mounted |-> disk.mounted]
    BY <1>4 DEF CardAbsent, DiskAgrees, DiskStates
  <2>2. disk.count + 1 \in 0 .. MaxCardReads + 2
    BY <1>a, <1>b, <1>4 DEF CardAbsent, Go, DiskAgrees
  <2>3. disk' \in DiskStates /\ disk'.count = disk.count + 1
    BY <1>b, <2>1, <2>2 DEF DiskStates
  <2>4. main' # "off" /\ (main' = "card" => disk.count <= MaxCardReads)
    BY <1>a, <1>b, <1>4 DEF CardAbsent, Go
  <2>5. QED
    BY <1>a, <1>b, <2>3, <2>4 DEF DiskAgrees
<1>5. CASE FileSystemMountDrive
  <2>1. PICK partitions \in 1 .. 2 :
          \E good \in SUBSET (1 .. partitions) :
            disk' = [disk EXCEPT !.mounted = IF /\ disk.count < MaxCardReads
                                                /\ disk.card
                                               THEN good ELSE {}]
    BY <1>5, Zenon DEF FileSystemMountDrive
  <2>2. PICK good \in SUBSET (1 .. partitions) :
          disk' = [disk EXCEPT !.mounted = IF /\ disk.count < MaxCardReads
                                              /\ disk.card
                                             THEN good ELSE {}]
    BY <2>1
  <2>3. good \in SUBSET {1, 2} /\ {} \in SUBSET {1, 2}
    OBVIOUS
  <2>4. PICK mounted \in SUBSET {1, 2} :
          disk' = [card |-> disk.card, count |-> disk.count,
                   mounted |-> mounted]
    BY <2>2, <2>3 DEF DiskAgrees, DiskStates
  <2>5. disk' \in DiskStates
    BY <1>b, <2>4 DEF DiskStates
  <2>6. main' \in {"prepare", "ended"}
    BY <1>5 DEF FileSystemMountDrive, Go
  <2>7. QED
    BY <2>5, <2>6 DEF DiskAgrees
<1>6. CASE InsertCard
  <2>1. disk' = [card |-> TRUE, count |-> disk.count, mounted |-> disk.mounted]
    BY <1>6 DEF InsertCard, DiskAgrees, DiskStates
  <2>2. disk' \in DiskStates /\ disk'.count = disk.count
    BY <1>b, <2>1 DEF DiskStates
  <2>3. QED
    BY <1>6, <2>2 DEF InsertCard, DiskAgrees
<1>7. QED
  BY <1>1, <1>2, <1>3, <1>4, <1>5, <1>6, DiskSteps

LEMMA TypesInit == StartInit => StartTypes /\ LimitsAgree /\ DiskAgrees
<1> SUFFICES ASSUME StartInit PROVE StartTypes /\ LimitsAgree /\ DiskAgrees
  OBVIOUS
<1>1. StartTypes
  BY DEF StartInit, StartTypes, Places
<1>2. LimitsAgree
  BY LimitsAssumption DEF StartInit, LimitsAgree
<1>3. PICK card \in BOOLEAN :
        disk = [card |-> card, count |-> 0, mounted |-> {}]
  BY DEF StartInit, NoDisk
<1>4. 0 \in 0 .. MaxCardReads + 2 /\ {} \in SUBSET {1, 2}
  BY LimitsAssumption
<1>5. disk \in DiskStates /\ disk.count = 0
  BY <1>3, <1>4 DEF DiskStates
<1>6. QED
  BY <1>1, <1>2, <1>5, LimitsAssumption DEF StartInit, DiskAgrees

(* Errors, attempts and looks for a card stay within the limits of the     *)
(* source, and frames within the descriptors.                              *)
THEOREM StartStaysInLimits ==
  StartSpec => [](StartTypeOK /\ LimitsAgree /\ Len(rx.ring) <= RingSize)
<1>1. StartTypes /\ LimitsAgree /\ DiskAgrees /\ ReceptionGoesOn =>
        StartTypeOK /\ LimitsAgree /\ Len(rx.ring) <= RingSize
  BY LimitsAssumption
  DEF StartTypes, LimitsAgree, DiskAgrees, ReceptionGoesOn, StartTypeOK
<1>2. QED
  BY TypesInit, TypesStep, LimitsStep, DiskStep, ReceptionInit, ReceptionStep,
     <1>1, PTL
  DEF StartSpec
=============================================================================
