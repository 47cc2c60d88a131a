-------------------------- MODULE InterfaceConnect --------------------------
(***************************************************************************)
(* The network interface of the Mbed OS port                               *)
(* (platform/mbed-os/mcc_common_setup.cpp): connecting with retries, in a  *)
(* blocking or an event-driven way, closing, and the status callback that  *)
(* the network stack calls from a thread of its own, between any two       *)
(* statements of a call.  Callers look at it through                       *)
(* mcc_platform_interface_get.                                             *)
(***************************************************************************)
EXTENDS Naturals, Sequences

CONSTANTS
  RetryCount,    \* MCC_PLATFORM_CONNECTION_RETRY_COUNT
  LossBound,     \* bound on the losses of the link explored
  EventBound     \* bound on the status events not yet delivered

ASSUME BoundsAssumption ==
  RetryCount \in Nat \ {0} /\ LossBound \in Nat /\ EventBound \in Nat

VARIABLES
  network_interface,    \* is the static pointer set?
  interface_connected,
  async_connect,
  listeners,            \* how often the callback is registered
  blocking,             \* blocking_interface of the running call
  attempt,              \* its loop counter
  pc,                   \* where it is; "idle" between calls
  broken,               \* break_dispatch was called
  link,                 \* the network stack: down, connecting or up
  events,               \* status events it has not delivered yet
  lost,                 \* losses of the link so far
  raced,                \* history: the last event was DISCONNECTED, delivered
                        \* where the caller is about to set the flag
  missed                \* history: the last event was the end of the running
                        \* connect, delivered before its dispatch was armed

vars == <<network_interface, interface_connected, async_connect, listeners,
          blocking, attempt, pc, broken, link, events, lost, raced, missed>>

flags == <<network_interface, interface_connected, async_connect, listeners>>
call == <<blocking, attempt, pc, broken>>
stack == <<link, events, lost>>
history == <<raced, missed>>

TypeOK ==
  /\ network_interface \in BOOLEAN /\ interface_connected \in BOOLEAN
  /\ async_connect \in BOOLEAN
  /\ listeners \in 0 .. 1
  /\ blocking \in BOOLEAN
  /\ attempt \in 1 .. RetryCount
  /\ pc \in {"idle", "connect", "isup", "arm", "dispatch", "check",
             "address", "assign", "retry", "wait"}
  /\ broken \in BOOLEAN
  /\ link \in {"down", "connecting", "up"}
  /\ events \in Seq({"GLOBAL_UP", "DISCONNECTED"})
  /\ lost \in 0 .. LossBound
  /\ raced \in BOOLEAN /\ missed \in BOOLEAN

(* After mcc_platform_interface_init.                                      *)
Init ==
  /\ network_interface = TRUE
  /\ interface_connected = FALSE
  /\ async_connect = FALSE
  /\ listeners = 0
  /\ blocking = FALSE
  /\ attempt = 1
  /\ pc = "idle"
  /\ broken = FALSE
  /\ link = "down"
  /\ events = <<>>
  /\ lost = 0
  /\ raced = FALSE /\ missed = FALSE

-----------------------------------------------------------------------------
(* The network stack.                                                      *)

Goes(state, event) == link' = state /\ events' = Append(events, event)
Room == Len(events) < EventBound

(* A connection in progress comes up or fails.                             *)
ConnectEnds ==
  /\ link = "connecting" /\ Room
  /\ Goes("up", "GLOBAL_UP") \/ Goes("down", "DISCONNECTED")
  /\ UNCHANGED <<lost, flags, call, history>>

LinkLost ==
  /\ link = "up" /\ Room /\ lost < LossBound
  /\ Goes("down", "DISCONNECTED")
  /\ lost' = lost + 1
  /\ UNCHANGED <<flags, call, history>>

(* Mutants: the callback forgets to break the dispatch, only handles       *)
(* GLOBAL_UP.                                                              *)
CallbackWithoutBreak(event) ==
  /\ interface_connected' = (event = "GLOBAL_UP")
  /\ async_connect' = FALSE
  /\ UNCHANGED broken
CallbackUpOnly(event) ==
  /\ interface_connected' = (interface_connected \/ event = "GLOBAL_UP")
  /\ async_connect' = FALSE
  /\ broken' = (broken \/ async_connect)

(* network_status_callback; the other states it is told of are printed.    *)
Callback(event) ==
  /\ interface_connected' = (event = "GLOBAL_UP")
  /\ async_connect' = FALSE
  /\ broken' = (broken \/ async_connect)

(* The stack delivers an event, wherever the caller is.                    *)
DeliverEvent ==
  /\ events # <<>>
  /\ events' = Tail(events)
  /\ IF listeners > 0
       THEN Callback(Head(events))
       ELSE UNCHANGED <<interface_connected, async_connect, broken>>
  /\ raced' = (Head(events) = "DISCONNECTED" /\ pc \in {"isup", "assign"})
  /\ missed' = (events' = <<>> /\ link # "connecting" /\ pc = "arm")
  /\ UNCHANGED <<network_interface, listeners, blocking, attempt, pc, link, lost>>

(* disconnect(): it succeeds, or it reports an error (which is all it can  *)
(* do when there is no connection).                                        *)
DisconnectOk ==
  /\ Room
  /\ IF link = "down"
       THEN UNCHANGED <<link, events>>
       ELSE Goes("down", "DISCONNECTED")

-----------------------------------------------------------------------------
(* mcc_platform_interface_connect, on a board that has an interface.       *)

Return == pc' = "idle" /\ UNCHANGED <<blocking, attempt, broken>>
Goto(label) == pc' = label /\ UNCHANGED <<blocking, attempt, broken>>

(* remove_event_listener, then add_event_listener.                         *)
Listen == listeners' = (IF listeners > 0 THEN listeners - 1 ELSE 0) + 1

Begin ==
  /\ pc = "idle"
  /\ network_interface' = TRUE
  /\ Listen
  /\ interface_connected' = FALSE
  /\ blocking' \in BOOLEAN
  /\ attempt' = 1
  /\ pc' = "connect"
  /\ UNCHANGED <<async_connect, broken, stack, history>>

(* connect() of a non-blocking interface: connected already, started, or   *)
(* refused, which ends the call without a retry.                           *)
ConnectAsync ==
  /\ pc = "connect" /\ ~blocking
  /\ \/ link = "up" /\ Goto("isup") /\ UNCHANGED stack
     \/ /\ link = "down"
        /\ link' = "connecting"
        /\ Goto("arm")
        /\ UNCHANGED <<events, lost>>
     \/ link # "up" /\ Return /\ UNCHANGED stack
  /\ UNCHANGED flags

IsConnected ==
  /\ pc = "isup"
  /\ interface_connected' = TRUE
  /\ Goto("check")
  /\ UNCHANGED <<network_interface, async_connect, listeners, stack>>

(* Mutant: the dispatch is entered without being armed.                    *)
ArmNothing ==
  /\ pc = "arm"
  /\ Goto("dispatch")
  /\ UNCHANGED <<flags, stack>>

Arm ==
  /\ pc = "arm"
  /\ async_connect' = TRUE
  /\ Goto("dispatch")
  /\ UNCHANGED <<network_interface, interface_connected, listeners, stack>>

(* dispatch_forever returns when it is broken.                             *)
Dispatched ==
  /\ pc = "dispatch" /\ broken
  /\ broken' = FALSE
  /\ pc' = "check"
  /\ UNCHANGED <<blocking, attempt, flags, stack>>

(* Whatever connect() said, the flag decides: the callback may have set or *)
(* cleared it since.                                                       *)
CheckConnected ==
  /\ pc = "check"
  /\ Goto(IF interface_connected THEN "address" ELSE "retry")
  /\ UNCHANGED <<flags, stack>>

(* connect() of a blocking interface.                                      *)
ConnectBlocking ==
  /\ pc = "connect" /\ blocking
  /\ \/ link = "up" /\ Goto("address") /\ UNCHANGED stack
     \/ /\ link # "up" /\ Room
        /\ Goes("up", "GLOBAL_UP")
        /\ Goto("address")
        /\ UNCHANGED lost
     \/ Goto("retry") /\ UNCHANGED stack
  /\ UNCHANGED flags

(* get_ip_address() and what follows it.                                   *)
GetAddress ==
  /\ pc = "address"
  /\ \/ /\ link = "up"
        /\ IF blocking THEN Goto("assign") ELSE Return
        /\ UNCHANGED interface_connected
     \/ /\ Goto("retry")
        /\ interface_connected' = (interface_connected /\ blocking)
  /\ UNCHANGED <<network_interface, async_connect, listeners, stack>>

AssignConnected ==
  /\ pc = "assign"
  /\ interface_connected' = TRUE
  /\ Return
  /\ UNCHANGED <<network_interface, async_connect, listeners, stack>>

(* A failed attempt is undone, whatever disconnect() says ...              *)
Disconnect ==
  /\ pc = "retry"
  /\ (DisconnectOk /\ UNCHANGED lost) \/ UNCHANGED stack
  /\ Goto("wait")
  /\ UNCHANGED flags

(* ... and after a wait comes the next, or the call returns -1.            *)
NextAttempt ==
  /\ pc = "wait"
  /\ IF attempt < RetryCount
       THEN attempt' = attempt + 1 /\ pc' = "connect" /\ UNCHANGED <<blocking, broken>>
       ELSE Return
  /\ UNCHANGED <<flags, stack>>

-----------------------------------------------------------------------------
(* Mutant: the callback stays registered.                                  *)
CloseKeepsListener ==
  /\ pc = "idle" /\ network_interface
  /\ DisconnectOk
  /\ interface_connected' = FALSE
  /\ network_interface' = FALSE
  /\ UNCHANGED <<async_connect, listeners, lost, call, history>>

(* mcc_platform_interface_close, between two calls of connect; a           *)
(* disconnect() that fails changes nothing.                                *)
Close ==
  /\ pc = "idle" /\ network_interface
  /\ DisconnectOk
  /\ listeners' = IF listeners > 0 THEN listeners - 1 ELSE 0
  /\ network_interface' = FALSE
  /\ interface_connected' = FALSE
  /\ UNCHANGED <<async_connect, lost, call, history>>

ConnectCall ==
  /\ \/ ConnectAsync \/ IsConnected \/ Arm \/ Dispatched \/ CheckConnected
     \/ ConnectBlocking \/ GetAddress \/ AssignConnected
     \/ Disconnect \/ NextAttempt
  /\ UNCHANGED history

Next == Begin \/ ConnectCall \/ Close \/ ConnectEnds \/ LinkLost \/ DeliverEvent

Spec == Init /\ [][Next]_vars

(* The thread of the caller runs, the stack ends what it began and         *)
(* delivers its events.                                                    *)
FairSpec ==
  Spec /\ WF_vars(ConnectCall) /\ WF_vars(ConnectEnds) /\ WF_vars(DeliverEvent)

-----------------------------------------------------------------------------
(* Properties.                                                             *)

(* What mcc_platform_interface_get hands out.                              *)
InterfaceGet == interface_connected /\ network_interface

(* The pointer handed out is that of an interface that is up, or the news  *)
(* that it is not are on their way, except for one race: the callback of a *)
(* lost link came between the caller's last look at the link and its write *)
(* of interface_connected, and there has been no other since.              *)
GetIsUp ==
  pc = "idle" /\ InterfaceGet =>
    \/ link = "up"
    \/ events # <<>> /\ events[Len(events)] = "DISCONNECTED"
    \/ raced

(* "On success: Returns pointer to network interface with GLOBAL_UP state  *)
(* if connected" (mcc_common_setup.h): between calls, and when all events  *)
(* have been delivered, an interface handed out is up.                     *)
HandedOutIsGlobalUp ==
  pc = "idle" /\ InterfaceGet /\ events = <<>> => link = "up"

(* A closed interface has no callback left that could declare it connected *)
(* again, and mcc_platform_interface_get returns NULL.                     *)
ClosedStaysClosed == ~network_interface => listeners = 0 /\ ~interface_connected

(* The event loop is entered only with a way out of it, and no break is    *)
(* left over that would end the application's own dispatch.                *)
DispatchIsArmed ==
  /\ pc = "dispatch" => async_connect \/ broken
  /\ pc # "dispatch" => ~broken /\ ~async_connect

(* Every call returns, except for one race: the callback with the end of   *)
(* its connection came between connect() and the write of async_connect,   *)
(* and there has been no other since to break the dispatch.                *)
ConnectReturns == pc # "idle" ~> pc = "idle" \/ (pc = "dispatch" /\ missed)
=============================================================================
