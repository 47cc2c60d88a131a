----------------------------- MODULE PdmcClient -----------------------------
(***************************************************************************)
(* The application core of the example: main_application (main.cpp), the   *)
(* Device Management client callbacks and the wake-up path                 *)
(* (pdmc_example.cpp), and the two periodic handlers that update the       *)
(* button resource (blinky.cpp), in a sleepy build                         *)
(* (MBED_CLOUD_CLIENT_TRANSPORT_MODE_UDP_QUEUE).                           *)
(*                                                                         *)
(* Two threads run the code: the main thread boots, connects and then      *)
(* polls register_called; the event loop runs the client's callbacks and   *)
(* the timers, one at a time.  A third one, the network stack's, reports   *)
(* status changes of the interface.  A build with nested_dispatch has one  *)
(* thread: the main thread dispatches the event queue for ever, and a      *)
(* non-blocking connect dispatches it again from inside a handler.         *)
(***************************************************************************)
EXTENDS Naturals

CONSTANTS
  MaxErrorCount,     \* MAX_ERROR_COUNT: counted errors before a reboot, 0 disables
  MaxConnectErrors,  \* MAX_PDMC_CLIENT_CONNECTION_ERROR_COUNT
  Builds,            \* the values nested_dispatch may have
  CountWrap,         \* the button resource counts modulo this bound
  ErrorBound         \* bound on error_count, which the code leaves unbounded

ASSUME ThresholdAssumption ==
  /\ MaxErrorCount \in Nat
  /\ MaxConnectErrors \in Nat \ {0}
  /\ ErrorBound \in Nat
  /\ ErrorBound >= MaxConnectErrors
ASSUME BuildAssumption == Builds \subseteq BOOLEAN
ASSUME CountAssumption == CountWrap \in Nat /\ CountWrap >= 2

VARIABLES
  nested_dispatch,  \* the build: USE_EVENT_QUEUE with MCC_USE_MBED_EVENTS
  main,             \* where the main thread is in main_application
  retry_counter,    \* failed connects of the boot loop
  register_called,  \* static flags of pdmc_example.cpp
  registered,
  paused,
  error_count,
  loop,             \* what the event loop is doing
  timers,           \* Blinky timer events that are armed
  lost,             \* history: timers whose last request failed since the boot
  clicked,          \* the button has been pressed and not yet polled
  iface,            \* "none", or the interface pointer with interface_connected
  client,           \* state of the MbedCloudClient library
  button_value      \* value of the button resource 3200/0/5501

flags == <<register_called, registered, paused, nested_dispatch>>

vars == <<main, retry_counter, flags, error_count, loop, timers, lost, clicked,
          iface, client, button_value>>

MainStates == {"init", "connect", "setup", "flag", "poll", "exited", "reboot"}
LoopStates == {"idle", "resume", "handover", "update", "reboot"}
Timers     == {"loop", "increment"}
IfaceStates  == {"none", "down", "up"}
ClientStates == {"init", "connecting", "registered", "paused", "unregistered"}

FlagsOK ==
  /\ register_called \in BOOLEAN
  /\ registered \in BOOLEAN
  /\ paused \in BOOLEAN
  /\ nested_dispatch \in BOOLEAN
  /\ clicked \in BOOLEAN

TypeOK ==
  /\ main \in MainStates
  /\ retry_counter \in 0 .. MaxConnectErrors
  /\ error_count \in Nat
  /\ loop \in LoopStates
  /\ timers \subseteq Timers
  /\ lost \subseteq Timers
  /\ iface \in IfaceStates
  /\ client \in ClientStates
  /\ button_value \in 0 .. CountWrap - 1
  /\ FlagsOK

Init ==
  /\ nested_dispatch \in Builds
  /\ main = "init"
  /\ retry_counter = 0
  /\ register_called = FALSE
  /\ registered = FALSE
  /\ paused = FALSE
  /\ error_count = 0
  /\ loop = "idle"
  /\ timers = {}
  /\ lost = {}
  /\ clicked = FALSE
  /\ iface = "none"
  /\ client = "init"
  /\ button_value = 0

-----------------------------------------------------------------------------
(* The main thread.                                                        *)

(* Trace, storage, platform and application_init() are set up one after    *)
(* the other; the first that fails makes main_application return.  The     *)
(* result of mcc_platform_interface_init() is ignored.                     *)
InitialiseParts ==
  /\ main = "init"
  /\ main' \in {"connect", "exited"}
  /\ UNCHANGED <<retry_counter, flags, error_count, loop, timers, lost, clicked,
                 iface, client, button_value>>

(* mcc_platform_interface_connect() returned 0 in the boot loop.           *)
BootConnectOk ==
  /\ main = "connect"
  /\ main' = "setup"
  /\ iface' = "up"
  /\ UNCHANGED <<retry_counter, flags, error_count, loop, timers, lost, clicked,
                 client, button_value>>

(* It returned -1: the loop waits and tries again, and reboots the board   *)
(* at the MaxConnectErrors-th failure.                                     *)
BootConnectFail ==
  /\ main = "connect"
  /\ retry_counter' = retry_counter + 1
  /\ main' = IF retry_counter' = MaxConnectErrors THEN "reboot" ELSE "connect"
  /\ iface' = "down"
  /\ UNCHANGED <<flags, error_count, loop, timers, lost, clicked, client,
                 button_value>>

(* create_pdmc_resources() returned false: main_application returns.       *)
CreateResourcesFail ==
  /\ main = "setup"
  /\ main' = "exited"
  /\ UNCHANGED <<retry_counter, flags, error_count, loop, timers, lost, clicked,
                 iface, client, button_value>>

(* The resources exist and pdmc_connect() has called setup(), which may    *)
(* have started the client or failed; register_called is still unset.      *)
ConnectSetup ==
  /\ main = "setup"
  /\ main' = "flag"
  /\ client' \in {"connecting", client}
  /\ UNCHANGED <<retry_counter, flags, error_count, loop, timers, lost, clicked,
                 iface, button_value>>

(* Blinky::request_timed_event for each of ts: any of the requests may     *)
(* find no memory for its event.  All callers ignore the result, and       *)
(* nothing asks for that timer again before the next boot.                 *)
RequestTimedEvents(ts) ==
  \E failed \in SUBSET ts :
    /\ timers' = (timers \cup ts) \ failed
    /\ lost' = lost \cup failed

(* Mutant: only the button timer is requested.                             *)
ConnectFlagOneTimer ==
  /\ main = "flag"
  /\ main' = "poll"
  /\ register_called' = TRUE
  /\ IF client = "init" THEN UNCHANGED <<timers, lost>>
                        ELSE RequestTimedEvents({"loop"})
  /\ UNCHANGED <<retry_counter, registered, paused, nested_dispatch,
                 error_count, loop, clicked, iface, client, button_value>>

(* Mutant: register_called is not set.                                     *)
ConnectFlagUnset ==
  /\ main = "flag"
  /\ main' = "poll"
  /\ IF client = "init" THEN UNCHANGED <<timers, lost>>
                        ELSE RequestTimedEvents(Timers)
  /\ UNCHANGED <<retry_counter, flags, error_count, loop, clicked, iface,
                 client, button_value>>

(* The rest of pdmc_connect(): the flag is set whether setup() succeeded   *)
(* or not, the blinky timers are requested only when it did.               *)
ConnectFlag ==
  /\ main = "flag"
  /\ main' = "poll"
  /\ register_called' = TRUE
  /\ IF client = "init" THEN UNCHANGED <<timers, lost>>
                        ELSE RequestTimedEvents(Timers)
  /\ UNCHANGED <<retry_counter, registered, paused, nested_dispatch,
                 error_count, loop, clicked, iface, client, button_value>>

(* mcc_platform_interface_close(): only a successful disconnect drops the  *)
(* interface pointer and its listener; both callers ignore the result.     *)
InterfaceClose == iface' \in {"none", iface}

(* Mutant: the polling loop leaves without looking at the flag.            *)
PollExitAnyTime ==
  /\ main = "poll"
  /\ InterfaceClose
  /\ main' = "exited"
  /\ UNCHANGED <<retry_counter, flags, error_count, loop, timers, lost, clicked,
                 client, button_value>>

(* The polling loop sees the flag cleared, closes the interface and        *)
(* returns.  A build with an event queue never leaves dispatch_forever.    *)
PollExit ==
  /\ main = "poll"
  /\ ~nested_dispatch
  /\ ~register_called
  /\ InterfaceClose
  /\ main' = "exited"
  /\ UNCHANGED <<retry_counter, flags, error_count, loop, timers, lost, clicked,
                 client, button_value>>

-----------------------------------------------------------------------------
(* The client's callbacks, run by the event loop.                          *)

(* The event loop can start a handler: it is idle, and in a build with one *)
(* thread that thread has reached the dispatch loop.                       *)
LoopFree == loop = "idle" /\ (nested_dispatch => main = "poll")

(* reboot_if_threshold_value: both callers share error_count, and the      *)
(* threshold is compared with =.                                           *)
RebootIfThresholdValue(threshold, otherwise) ==
  /\ error_count < ErrorBound
  /\ error_count' = error_count + 1
  /\ loop' = IF error_count' = threshold THEN "reboot" ELSE otherwise

StatusRegistered ==
  /\ LoopFree
  /\ client = "connecting"
  /\ client' = "registered"
  /\ registered' = TRUE
  /\ error_count' = 0
  /\ UNCHANGED <<main, retry_counter, register_called, paused,
                 nested_dispatch, loop, timers, lost, clicked, iface,
                 button_value>>

(* Mutant: a registration update does not clear the error count.           *)
RegistrationUpdatedKeepsCount ==
  /\ LoopFree
  /\ client \in {"connecting", "registered"}
  /\ registered
  /\ client' = "registered"
  /\ UNCHANGED <<main, retry_counter, flags, error_count, loop, timers, lost,
                 clicked, iface, button_value>>

(* Only a client that has registered before updates its registration.      *)
StatusRegistrationUpdated ==
  /\ LoopFree
  /\ client \in {"connecting", "registered"}
  /\ registered
  /\ client' = "registered"
  /\ error_count' = 0
  /\ UNCHANGED <<main, retry_counter, flags, loop, timers, lost, clicked, iface,
                 button_value>>

StatusUnregistered ==
  /\ LoopFree
  /\ client = "registered"
  /\ client' = "unregistered"
  /\ paused' = FALSE
  /\ registered' = FALSE
  /\ register_called' = FALSE
  /\ UNCHANGED <<nested_dispatch, main, retry_counter, error_count, loop,
                 timers, lost, clicked, iface, button_value>>

(* Mutant: the Sleep handler does not set paused.                          *)
StatusSleepUnmarked ==
  /\ LoopFree
  /\ client = "registered"
  /\ client' = "paused"
  /\ InterfaceClose
  /\ UNCHANGED <<main, retry_counter, flags, error_count, loop, timers, lost,
                 clicked, button_value>>

(* Sleep: the client is paused, the interface closed and the flag set.     *)
StatusSleep ==
  /\ LoopFree
  /\ client = "registered"
  /\ client' = "paused"
  /\ InterfaceClose
  /\ paused' = TRUE
  /\ UNCHANGED <<main, retry_counter, register_called, registered,
                 nested_dispatch, error_count, loop, timers, lost, clicked,
                 button_value>>

(* pdmc_error_handler with one of the four counted network errors; the     *)
(* other codes are only printed, and MAX_ERROR_COUNT 0 compiles the count  *)
(* out.  The client reconnects on its own.                                 *)
ErrorHandler ==
  /\ LoopFree
  /\ client \in {"connecting", "registered"}
  /\ client' = "connecting"
  /\ IF MaxErrorCount > 0
       THEN RebootIfThresholdValue(MaxErrorCount, "idle")
       ELSE UNCHANGED <<error_count, loop>>
  /\ UNCHANGED <<main, retry_counter, flags, timers, lost, clicked, iface,
                 button_value>>

-----------------------------------------------------------------------------
(* The periodic handlers and pdmc_resume.                                  *)

(* A timer event is delivered by an idle event loop or, when the connect   *)
(* of pdmc_resume dispatches the queue, from inside that connect.          *)
TimerDelivered(t) ==
  /\ t \in timers
  /\ LoopFree \/ (nested_dispatch /\ loop = "resume")

SetButtonValue ==
  /\ button_value' = (button_value + 1) % CountWrap
  /\ UNCHANGED <<paused, loop, iface>>

(* pdmc_resume() up to its first mcc_platform_interface_connect(), which   *)
(* clears interface_connected.                                             *)
BeginResume ==
  /\ paused' = FALSE
  /\ loop' = "resume"
  /\ iface' = "down"
  /\ UNCHANGED button_value

(* Mutant: the handlers do not look at paused.                             *)
UpdateWithoutResume == SetButtonValue

UpdateButtonResource == IF paused THEN BeginResume ELSE SetButtonValue

(* Both handlers request their own next event first, registered or not;    *)
(* the delivered one is used up.                                           *)
HandleButtons ==
  /\ TimerDelivered("loop")
  /\ RequestTimedEvents({"loop"})
  /\ \/ /\ registered
        /\ clicked
        /\ clicked' = FALSE
        /\ UpdateButtonResource
     \/ /\ ~(registered /\ clicked)
        /\ UNCHANGED <<clicked, paused, loop, iface, button_value>>
  /\ UNCHANGED <<main, retry_counter, register_called, registered,
                 nested_dispatch, error_count, client>>

HandleAutomaticIncrement ==
  /\ TimerDelivered("increment")
  /\ RequestTimedEvents({"increment"})
  /\ \/ registered /\ UpdateButtonResource
     \/ ~registered /\ UNCHANGED <<paused, loop, iface, button_value>>
  /\ UNCHANGED <<main, retry_counter, register_called, registered,
                 nested_dispatch, error_count, clicked, client>>

(* Mutant: pdmc_resume returns without resuming the client.                *)
ResumeConnectOnly ==
  /\ loop = "resume"
  /\ loop' = "update"
  /\ iface' = "up"
  /\ UNCHANGED <<main, retry_counter, flags, error_count, timers, lost, clicked,
                 client, button_value>>

(* The connect of pdmc_resume returned 0.                                  *)
ResumeConnectOk ==
  /\ loop = "resume"
  /\ loop' = "handover"
  /\ iface' = "up"
  /\ UNCHANGED <<main, retry_counter, flags, error_count, timers, lost, clicked,
                 client, button_value>>

(* It returned -1: wait, count, and call it again unless that reboots.     *)
ResumeConnectFail ==
  /\ loop = "resume"
  /\ RebootIfThresholdValue(MaxConnectErrors, "resume")
  /\ iface' = "down"
  /\ UNCHANGED <<main, retry_counter, flags, timers, lost, clicked, client,
                 button_value>>

(* pdmc_client.resume() with what mcc_platform_get_network_interface gives *)
ResumeHandover ==
  /\ loop = "handover"
  /\ loop' = "update"
  /\ client' = "connecting"
  /\ UNCHANGED <<main, retry_counter, flags, error_count, timers, lost, clicked,
                 iface, button_value>>

(* Back in the handler that called pdmc_resume().                          *)
UpdateAfterResume ==
  /\ loop = "update"
  /\ loop' = "idle"
  /\ button_value' = (button_value + 1) % CountWrap
  /\ UNCHANGED <<main, retry_counter, flags, error_count, timers, lost, clicked,
                 iface, client>>

-----------------------------------------------------------------------------
(* The environment.                                                        *)

(* network_status_callback, installed as long as the interface pointer is. *)
NetworkStatusCallback ==
  /\ iface # "none"
  /\ iface' \in {"up", "down"} \ {iface}
  /\ UNCHANGED <<main, retry_counter, flags, error_count, loop, timers, lost,
                 clicked, client, button_value>>

PressButton ==
  /\ ~clicked
  /\ clicked' = TRUE
  /\ UNCHANGED <<main, retry_counter, flags, error_count, loop, timers, lost,
                 iface, client, button_value>>

(* mcc_platform_reboot(): the application starts from scratch.             *)
Reboot ==
  /\ main = "reboot" \/ loop = "reboot"
  /\ main' = "init"
  /\ retry_counter' = 0
  /\ register_called' = FALSE
  /\ registered' = FALSE
  /\ paused' = FALSE
  /\ error_count' = 0
  /\ loop' = "idle"
  /\ timers' = {}
  /\ lost' = {}
  /\ clicked' = FALSE
  /\ iface' = "none"
  /\ client' = "init"
  /\ button_value' = 0
  /\ UNCHANGED nested_dispatch

MainStep ==
  \/ InitialiseParts \/ BootConnectOk \/ BootConnectFail
  \/ CreateResourcesFail \/ ConnectSetup \/ ConnectFlag
  \/ PollExit

StatusHandler ==
  \/ StatusRegistered \/ StatusRegistrationUpdated
  \/ StatusUnregistered \/ StatusSleep

ResumeStep ==
  ResumeConnectOk \/ ResumeConnectFail \/ ResumeHandover \/ UpdateAfterResume

Next ==
  \/ MainStep
  \/ StatusHandler
  \/ ErrorHandler
  \/ HandleButtons \/ HandleAutomaticIncrement
  \/ ResumeStep
  \/ NetworkStatusCallback
  \/ PressButton
  \/ Reboot

(***************************************************************************)
(* The threads are scheduled, a connect call returns, a timer that is      *)
(* armed fires, and a requested reboot happens.  Nothing is assumed of the *)
(* cloud, of the network or of the user, nor that a request for a timer    *)
(* ever succeeds or fails.                                                 *)
(***************************************************************************)
Fairness ==
  /\ WF_vars(MainStep)
  /\ WF_vars(ResumeStep)
  /\ WF_vars(registered /\ HandleAutomaticIncrement)
  /\ WF_vars(Reboot)

SafetySpec == Init /\ [][Next]_vars
Spec == SafetySpec /\ Fairness

-----------------------------------------------------------------------------
(* Properties.                                                             *)

(* An awake client always has an interface to talk over: no thread closes  *)
(* it between a wake-up and the next Sleep (the Sleep handler pauses the   *)
(* client first, main_application closes only after Unregistered).         *)
AwakeClientHasInterface ==
  client \in {"connecting", "registered"} => iface # "none"

(* Until a handler has begun to resume a sleeping client, paused tells the *)
(* handlers to, registered lets them, and the timers run (or the main      *)
(* thread is about to request them), except one that was lost: a timer     *)
(* stops only because a request for it failed.                             *)
SleeperIsWakeable ==
  client = "paused" =>
    /\ registered
    /\ paused \/ loop \in {"resume", "handover", "reboot"}
    /\ timers = Timers \ lost \/ main = "flag"

(* The resume loop enters with a count below its reboot threshold, so that *)
(* the equality test of reboot_if_threshold_value cannot be jumped over.   *)
ResumeBudget == loop = "resume" => error_count < MaxConnectErrors

(* main_application returns only before the client is set up or after the  *)
(* client reported Unregistered, and then nothing uses the interface.      *)
ExitedClientIsDone ==
  main = "exited" =>
    /\ client \in {"init", "unregistered"}
    /\ loop = "idle"

(* "If the client is paused then application will first resume client and  *)
(* then send notification" (CHANGELOG 4.5.0): the button resource is never *)
(* updated while the client sleeps; only a boot sets it again.  The build  *)
(* with one thread breaks this: see DeviceLifecycle.                       *)
NotifyOnlyWhenAwake ==
  [][~nested_dispatch /\ button_value' # button_value /\ main' # "init"
       => client # "paused"]_vars

(* A client put to sleep is woken, or the board rebooted, however long the *)
(* network stays away; only a sleeper whose increment timer was lost, and  *)
(* whose resume nobody has begun, may sleep for ever (the button can still *)
(* wake it, but need not be pressed).                                      *)
SleeperWakes ==
  client = "paused" ~>
    client # "paused" \/ (paused /\ "increment" \in lost)

(* The comment on MAX_ERROR_COUNT: the application reboots once that many  *)
(* consecutive errors have occurred.  At most MaxConnectErrors - 1 of the  *)
(* counted errors are failed connects of pdmc_resume, so a count that      *)
(* exceeds them by MaxErrorCount holds that many reported errors.          *)
ErrorsBeyondThresholdReboot ==
  [][error_count' > error_count /\ loop = "idle"
       /\ error_count' >= MaxErrorCount + (MaxConnectErrors - 1)
       => loop' = "reboot"]_vars

(* "Client unregistered, disconnect and exit program" (main.cpp): once the *)
(* client has unregistered, main_application returns.                      *)
UnregisteredExits == client = "unregistered" ~> main = "exited"

(* The lifecycle this design implements.                                   *)
phaseOf ==
  CASE client = "init" -> "booting"
    [] client \in {"connecting", "registered"} -> "awake"
    [] client = "paused" -> "asleep"
    [] client = "unregistered" -> "stopped"

CanWake == "increment" \notin lost

Lifecycle == INSTANCE DeviceLifecycle
               WITH phase <- phaseOf, early_notify <- nested_dispatch,
                    alarm <- CanWake

(* Every behaviour of the application, in both builds, is one of           *)
(* DeviceLifecycle.                                                        *)
ImplementsLifecycle == Lifecycle!LifecycleSpec
=============================================================================
