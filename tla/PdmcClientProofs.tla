-------------------------- MODULE PdmcClientProofs --------------------------
(***************************************************************************)
(* Proofs about pdmc_example.cpp.  The application core, for every         *)
(* threshold, wrap and bound and for both builds: its invariants, when it  *)
(* notifies the cloud, and that it implements DeviceLifecycle.  The large  *)
(* resource, when the cloud starts a read only after the previous one was  *)
(* reported: its buffer is owned correctly, for every size, block size and *)
(* set of transfers.                                                       *)
(***************************************************************************)
EXTENDS PdmcClient, LargeResource, TLAPS

(* While the main thread has not called setup(), nothing else has begun;   *)
(* the client leaves "init" only through setup().                          *)
BootIsQuiet ==
  /\ main \in {"init", "connect", "setup", "reboot"} => client = "init"
  /\ main = "setup" => iface # "none"
  /\ client = "init" => loop = "idle" /\ ~registered /\ ~paused
  /\ client = "init" \/ main = "flag" => timers = {} /\ lost = {}

(* What the event loop is doing agrees with the state of the client.       *)
LoopAgrees ==
  /\ loop \in {"resume", "handover"} =>
       /\ client = "paused"
       /\ iface # "none"
       /\ ~paused
  /\ loop = "update" => client = "connecting"
  /\ loop = "reboot" => client \in {"connecting", "paused"}
  /\ paused => client = "paused" /\ loop = "idle"
  /\ client = "paused" => registered /\ (paused \/ loop # "idle")

(* A registered client, and one that was put to sleep from there, has no   *)
(* errors counted; the resume loop stops below its threshold.              *)
CountAgrees ==
  /\ client = "registered" => registered /\ error_count = 0
  /\ paused => error_count = 0
  /\ ResumeBudget

(* The main thread stops polling only because of an Unregistered status.   *)
ExitAgrees ==
  /\ main = "poll" /\ ~register_called => client = "unregistered"
  /\ main = "exited" => client \in {"init", "unregistered"}
  /\ client = "unregistered" => ~registered /\ ~paused /\ loop = "idle"

(* Once requested, a timer runs until a request for it fails.              *)
TimersAgree ==
  client # "init" => timers = Timers \ lost \/ main = "flag"

IInv ==
  /\ TypeOK
  /\ BootIsQuiet
  /\ LoopAgrees
  /\ CountAgrees
  /\ ExitAgrees
  /\ TimersAgree
  /\ AwakeClientHasInterface

-----------------------------------------------------------------------------

(* The flags stay Boolean: every handler writes a constant or leaves them. *)
LEMMA FlagsStayBoolean == FlagsOK /\ [Next]_vars => FlagsOK'
<1> SUFFICES ASSUME FlagsOK, [Next]_vars PROVE FlagsOK'
  OBVIOUS
<1> USE DEF FlagsOK, flags
<1>1. CASE MainStep
  BY <1>1, Zenon DEF MainStep, InitialiseParts, BootConnectOk, BootConnectFail,
     CreateResourcesFail, ConnectSetup, ConnectFlag, PollExit
<1>2. CASE StatusHandler
  BY <1>2, Zenon DEF StatusHandler, StatusRegistered,
     StatusRegistrationUpdated, StatusUnregistered, StatusSleep
<1>3. CASE ErrorHandler
  BY <1>3, Zenon DEF ErrorHandler
<1>4. CASE HandleButtons
  BY <1>4, Zenon DEF HandleButtons, UpdateButtonResource, BeginResume,
     SetButtonValue
<1>5. CASE HandleAutomaticIncrement
  BY <1>5, Zenon DEF HandleAutomaticIncrement, UpdateButtonResource,
     BeginResume, SetButtonValue
<1>6. CASE ResumeStep
  BY <1>6, Zenon DEF ResumeStep, ResumeConnectOk, ResumeConnectFail,
     ResumeHandover, UpdateAfterResume
<1>7. CASE NetworkStatusCallback \/ PressButton \/ Reboot
  BY <1>7, Zenon DEF NetworkStatusCallback, PressButton, Reboot
<1>8. CASE UNCHANGED vars
  BY <1>8, Zenon DEF vars
<1>9. QED
  BY <1>1, <1>2, <1>3, <1>4, <1>5, <1>6, <1>7, <1>8 DEF Next

(* The boot loop reboots at the limit, so it is never entered with it.     *)
BootBudget == main \in {"init", "connect"} => retry_counter < MaxConnectErrors

(* The types are preserved by every step of the application.               *)
LEMMA TypeInvariant == SafetySpec => []TypeOK
<1>1. Init => TypeOK /\ BootBudget
  <2>1. Init => FlagsOK
    BY BuildAssumption, Zenon DEF Init, FlagsOK
  <2>2. QED
    BY <2>1, ThresholdAssumption, CountAssumption
    DEF Init, TypeOK, BootBudget, MainStates, LoopStates, Timers,
        IfaceStates, ClientStates
<1>2. TypeOK /\ BootBudget /\ [Next]_vars => TypeOK' /\ BootBudget'
  <2> SUFFICES ASSUME TypeOK, BootBudget, [Next]_vars
               PROVE  TypeOK' /\ BootBudget'
    OBVIOUS
  <2>0. FlagsOK'
    BY FlagsStayBoolean DEF TypeOK
  <2> USE <2>0, ThresholdAssumption, CountAssumption
      DEF TypeOK, BootBudget, MainStates, LoopStates, Timers, IfaceStates,
          ClientStates, flags, InterfaceClose, RebootIfThresholdValue,
          RequestTimedEvents
  <2>1. CASE BootConnectFail
    BY <2>1 DEF BootConnectFail
  <2>2. CASE \/ InitialiseParts \/ BootConnectOk \/ CreateResourcesFail \/ ConnectSetup
             \/ ConnectFlag \/ PollExit
    BY <2>2 DEF InitialiseParts, BootConnectOk, CreateResourcesFail, ConnectSetup,
       ConnectFlag, PollExit
  <2>3. CASE StatusHandler
    <3>1. CASE StatusRegistered
      BY <3>1 DEF StatusRegistered
    <3>2. CASE StatusRegistrationUpdated
      BY <3>2 DEF StatusRegistrationUpdated
    <3>3. CASE StatusUnregistered
      BY <3>3 DEF StatusUnregistered
    <3>4. CASE StatusSleep
      BY <3>4 DEF StatusSleep
    <3>5. QED
      BY <2>3, <3>1, <3>2, <3>3, <3>4 DEF StatusHandler
  <2>4. CASE ErrorHandler
    <3>1. CASE MaxErrorCount > 0
      <4>1. error_count' = error_count + 1 /\ loop' \in {"reboot", "idle"}
        BY <2>4, <3>1 DEF ErrorHandler
      <4>2. QED
        BY <2>4, <4>1 DEF ErrorHandler
    <3>2. CASE ~(MaxErrorCount > 0)
      <4>1. error_count' = error_count /\ loop' = loop
        BY <2>4, <3>2 DEF ErrorHandler
      <4>2. QED
        BY <2>4, <4>1 DEF ErrorHandler
    <3>3. QED
      BY <3>1, <3>2
  <2>5. CASE HandleButtons
    BY <2>5 DEF HandleButtons, UpdateButtonResource, BeginResume,
       SetButtonValue
  <2>6. CASE HandleAutomaticIncrement
    BY <2>6 DEF HandleAutomaticIncrement, UpdateButtonResource, BeginResume,
       SetButtonValue
  <2>7. CASE ResumeConnectFail
    BY <2>7 DEF ResumeConnectFail
  <2>8. CASE ResumeConnectOk \/ ResumeHandover
    BY <2>8 DEF ResumeConnectOk, ResumeHandover
  <2>9. CASE UpdateAfterResume
    BY <2>9 DEF UpdateAfterResume
  <2>10. CASE NetworkStatusCallback \/ PressButton
    BY <2>10 DEF NetworkStatusCallback, PressButton
  <2>11. CASE Reboot
    BY <2>11 DEF Reboot
  <2>12. CASE UNCHANGED vars
    BY <2>12 DEF vars
  <2>13. QED
    BY <2>1, <2>2, <2>3, <2>4, <2>5, <2>6, <2>7, <2>8, <2>9, <2>10, <2>11,
       <2>12 DEF Next, MainStep, ResumeStep
<1>3. QED
  BY <1>1, <1>2, PTL DEF SafetySpec

(* The conjuncts of IInv other than the types, preserved together.         *)
LEMMA StepKeepsIInv == IInv /\ TypeOK' /\ [Next]_vars => IInv'
<1> SUFFICES ASSUME IInv, TypeOK', [Next]_vars PROVE IInv'
  OBVIOUS
<1> USE ThresholdAssumption, CountAssumption
    DEF IInv, BootIsQuiet, LoopAgrees, CountAgrees, ExitAgrees, TimersAgree,
        AwakeClientHasInterface, ResumeBudget, flags
<1>1. CASE \/ InitialiseParts \/ BootConnectOk \/ BootConnectFail
           \/ CreateResourcesFail
  BY <1>1 DEF InitialiseParts, BootConnectOk, BootConnectFail, CreateResourcesFail
<1>2. CASE ConnectSetup \/ ConnectFlag
  BY <1>2 DEF ConnectSetup, ConnectFlag, RequestTimedEvents, TypeOK,
     ClientStates
<1>3. CASE PollExit
  BY <1>3 DEF PollExit, InterfaceClose
<1>4. CASE StatusRegistered
  BY <1>4 DEF StatusRegistered, LoopFree
<1>5. CASE StatusRegistrationUpdated
  BY <1>5 DEF StatusRegistrationUpdated, LoopFree
<1>6. CASE StatusUnregistered
  BY <1>6 DEF StatusUnregistered, LoopFree
<1>7. CASE StatusSleep
  BY <1>7 DEF StatusSleep, LoopFree, InterfaceClose
<1>8. CASE ErrorHandler
  BY <1>8 DEF ErrorHandler, LoopFree, RebootIfThresholdValue, TypeOK
<1>9. CASE HandleButtons
  BY <1>9 DEF HandleButtons, RequestTimedEvents, TimerDelivered, LoopFree,
     UpdateButtonResource, BeginResume, SetButtonValue, TypeOK, Timers
<1>10. CASE HandleAutomaticIncrement
  BY <1>10 DEF HandleAutomaticIncrement, RequestTimedEvents, TimerDelivered,
     LoopFree, UpdateButtonResource, BeginResume, SetButtonValue, TypeOK,
     Timers
<1>11. CASE ResumeConnectOk \/ ResumeHandover \/ UpdateAfterResume
  BY <1>11 DEF ResumeConnectOk, ResumeHandover, UpdateAfterResume, TypeOK
<1>12. CASE ResumeConnectFail
  BY <1>12 DEF ResumeConnectFail, RebootIfThresholdValue, TypeOK
<1>13. CASE NetworkStatusCallback \/ PressButton
  BY <1>13 DEF NetworkStatusCallback, PressButton
<1>14. CASE Reboot
  BY <1>14 DEF Reboot
<1>15. CASE UNCHANGED vars
  BY <1>15 DEF vars
<1>16. QED
  BY <1>1, <1>2, <1>3, <1>4, <1>5, <1>6, <1>7, <1>8, <1>9, <1>10, <1>11,
     <1>12, <1>13, <1>14, <1>15 DEF Next, MainStep, StatusHandler, ResumeStep

(* The strengthened invariant is inductive relative to the types.          *)
LEMMA InductiveInvariant == SafetySpec => []IInv
<1>1. Init /\ TypeOK => IInv
  BY ThresholdAssumption
  DEF Init, IInv, BootIsQuiet, LoopAgrees, CountAgrees, ExitAgrees,
      TimersAgree, AwakeClientHasInterface, ResumeBudget
<1>2. QED
  BY <1>1, StepKeepsIInv, TypeInvariant, PTL DEF SafetySpec

(* Every variable keeps its type, in both builds.                          *)
THEOREM TypesHold == SafetySpec => []TypeOK
  BY TypeInvariant

(* No thread closes the interface under an awake client.                   *)
THEOREM InterfaceUnderAwakeClient == SafetySpec => []AwakeClientHasInterface
<1>1. IInv => AwakeClientHasInterface
  BY DEF IInv
<1>2. QED
  BY <1>1, InductiveInvariant, PTL

(* Whatever has happened before, a sleeping client can be woken.           *)
THEOREM SleepersStayWakeable == SafetySpec => []SleeperIsWakeable
<1>1. IInv => SleeperIsWakeable
  BY DEF IInv, SleeperIsWakeable, LoopAgrees, TimersAgree, TypeOK, LoopStates
<1>2. QED
  BY <1>1, InductiveInvariant, PTL

(* The resume loop never steps over its reboot threshold.                  *)
THEOREM ResumeLoopRebootsInTime == SafetySpec => []ResumeBudget
<1>1. IInv => ResumeBudget
  BY DEF IInv, CountAgrees
<1>2. QED
  BY <1>1, InductiveInvariant, PTL

(* main_application returns with the client not started or unregistered.   *)
THEOREM ExitIsClean == SafetySpec => []ExitedClientIsDone
<1>1. IInv => ExitedClientIsDone
  BY DEF IInv, ExitedClientIsDone, ExitAgrees, BootIsQuiet
<1>2. QED
  BY <1>1, InductiveInvariant, PTL

-----------------------------------------------------------------------------
(* With an event loop thread of its own, no handler runs inside a resume.  *)

(* The build never changes.                                                *)
LEMMA BuildIsFixed == [Next]_vars => nested_dispatch' = nested_dispatch
<1> SUFFICES ASSUME [Next]_vars PROVE nested_dispatch' = nested_dispatch
  OBVIOUS
<1> USE DEF flags
<1>1. CASE MainStep
  BY <1>1, Zenon DEF MainStep, InitialiseParts, BootConnectOk,
     BootConnectFail, CreateResourcesFail, ConnectSetup, ConnectFlag, PollExit
<1>2. CASE StatusHandler
  BY <1>2, Zenon DEF StatusHandler, StatusRegistered,
     StatusRegistrationUpdated, StatusUnregistered, StatusSleep
<1>3. CASE ErrorHandler \/ HandleButtons \/ HandleAutomaticIncrement
  BY <1>3, Zenon DEF ErrorHandler, HandleButtons, HandleAutomaticIncrement
<1>4. CASE ResumeStep
  BY <1>4, Zenon DEF ResumeStep, ResumeConnectOk, ResumeConnectFail,
     ResumeHandover, UpdateAfterResume
<1>5. CASE NetworkStatusCallback \/ PressButton \/ Reboot
  BY <1>5, Zenon DEF NetworkStatusCallback, PressButton, Reboot
<1>6. CASE UNCHANGED vars
  BY <1>6, Zenon DEF vars
<1>7. QED
  BY <1>1, <1>2, <1>3, <1>4, <1>5, <1>6 DEF Next

(* A step that changes the button value finds the client awake, or, in the *)
(* build with one thread, on its way to being awake.                       *)
LEMMA UpdateStepsAreAwake ==
  ASSUME IInv, [Next]_vars,
         button_value' # button_value, main' # "init"
  PROVE  /\ client' = client
         /\ \/ client \in {"connecting", "registered"}
            \/ client = "paused" /\ nested_dispatch
<1> USE DEF IInv, TypeOK, LoopAgrees, BootIsQuiet, ExitAgrees, flags
<1>1. CASE HandleButtons
  BY <1>1 DEF HandleButtons, TimerDelivered, LoopFree, UpdateButtonResource,
     BeginResume, SetButtonValue, ClientStates
<1>2. CASE HandleAutomaticIncrement
  BY <1>2 DEF HandleAutomaticIncrement, TimerDelivered, LoopFree,
     UpdateButtonResource, BeginResume, SetButtonValue, ClientStates
<1>3. CASE UpdateAfterResume
  BY <1>3 DEF UpdateAfterResume
<1>4. QED
  BY <1>1, <1>2, <1>3
  DEF Next, MainStep, StatusHandler, ResumeStep, InitialiseParts,
      BootConnectOk, BootConnectFail, CreateResourcesFail, ConnectSetup, ConnectFlag,
      PollExit, StatusRegistered, StatusRegistrationUpdated,
      StatusUnregistered, StatusSleep, ErrorHandler, ResumeConnectOk,
      ResumeConnectFail, ResumeHandover, NetworkStatusCallback, PressButton,
      Reboot, vars

(* The button resource is never updated while the client sleeps, in the    *)
(* build with an event loop thread.                                        *)
THEOREM NotificationsFollowResume == SafetySpec => NotifyOnlyWhenAwake
<1>1. IInv /\ [Next]_vars =>
        [~nested_dispatch /\ button_value' # button_value /\ main' # "init"
           => client # "paused"]_vars
  BY UpdateStepsAreAwake
<1>2. QED
  BY <1>1, InductiveInvariant, PTL DEF SafetySpec, NotifyOnlyWhenAwake

-----------------------------------------------------------------------------
(* The application implements DeviceLifecycle, step by step.               *)

(* The application starts where the lifecycle does, its alarm intact.      *)
LEMMA InitRefines == Init => Lifecycle!LInit
<1>1. Init => nested_dispatch \in BOOLEAN
  BY BuildAssumption, Zenon DEF Init
<1>2. Init => CanWake = TRUE
  BY Zenon DEF Init, CanWake
<1>3. QED
  BY <1>1, <1>2 DEF Init, Lifecycle!LInit, phaseOf

(* A timer request either leaves the alarm as it is or loses it.           *)
LEMMA RequestsOnlyLoseTheAlarm ==
  ASSUME NEW ts, RequestTimedEvents(ts)
  PROVE  CanWake' = CanWake \/ CanWake' = FALSE
<1>1. lost \subseteq lost'
  BY DEF RequestTimedEvents
<1>2. QED
  BY <1>1, Zenon DEF CanWake

(* A step that requests no timer keeps the alarm.                          *)
LEMMA AlarmFollowsLost == UNCHANGED lost => UNCHANGED CanWake
BY Zenon DEF CanWake

(* Every step of the application is a step of the lifecycle or none.       *)
LEMMA StepRefines ==
  ASSUME IInv, IInv', [Next]_vars
  PROVE  [Lifecycle!LNext]_(Lifecycle!lvars)
<1>0. nested_dispatch' = nested_dispatch
  BY BuildIsFixed
<1> USE <1>0 DEF IInv, Lifecycle!LNext, Lifecycle!lvars, phaseOf, flags
<1>1. CASE \/ InitialiseParts
           \/ BootConnectOk \/ BootConnectFail \/ CreateResourcesFail
           \/ PollExit \/ NetworkStatusCallback \/ PressButton
  BY <1>1, AlarmFollowsLost
  DEF InitialiseParts, BootConnectOk, BootConnectFail, CreateResourcesFail,
      PollExit, NetworkStatusCallback, PressButton
<1>2. CASE ConnectSetup
  BY <1>2, AlarmFollowsLost
  DEF ConnectSetup, BootIsQuiet, Lifecycle!GoOnline, Lifecycle!Transition
<1>3. CASE ConnectFlag
  <2>1. CASE client = "init"
    BY <1>3, <2>1, AlarmFollowsLost DEF ConnectFlag
  <2>2. CASE client # "init"
    <3>1. CanWake' = CanWake \/ CanWake' = FALSE
      BY <1>3, <2>2, RequestsOnlyLoseTheAlarm DEF ConnectFlag
    <3>2. QED
      BY <1>3, <2>2, <3>1
      DEF ConnectFlag, TypeOK, ClientStates, Lifecycle!LoseAlarm
  <2>3. QED
    BY <2>1, <2>2
<1>4. CASE StatusRegistered \/ StatusRegistrationUpdated \/ ErrorHandler
  BY <1>4, AlarmFollowsLost
  DEF StatusRegistered, StatusRegistrationUpdated, ErrorHandler
<1>5. CASE StatusUnregistered
  BY <1>5, AlarmFollowsLost
  DEF StatusUnregistered, Lifecycle!Stop, Lifecycle!Transition
<1>6. CASE StatusSleep
  BY <1>6, AlarmFollowsLost
  DEF StatusSleep, Lifecycle!FallAsleep, Lifecycle!Transition
<1>7. CASE HandleButtons \/ HandleAutomaticIncrement \/ UpdateAfterResume
  <2>0. CanWake' = CanWake \/ CanWake' = FALSE
    BY <1>7, RequestsOnlyLoseTheAlarm, AlarmFollowsLost
    DEF HandleButtons, HandleAutomaticIncrement, UpdateAfterResume
  <2>1. CASE button_value' # button_value
    <3>1. /\ client' = client
          /\ \/ client \in {"connecting", "registered"}
             \/ client = "paused" /\ nested_dispatch
      BY <1>7, <2>1, UpdateStepsAreAwake
      DEF HandleButtons, HandleAutomaticIncrement, UpdateAfterResume,
          BootIsQuiet, LoopAgrees, ExitAgrees
    <3>2. button_value' = (button_value + 1) % CountWrap
      BY <1>7, <2>1 DEF HandleButtons, HandleAutomaticIncrement,
         UpdateAfterResume, UpdateButtonResource, BeginResume, SetButtonValue
    <3>3. QED
      BY <2>0, <3>1, <3>2 DEF Lifecycle!Notify
  <2>2. CASE button_value' = button_value
    <3>1. client # "init" /\ client' = client
      BY <1>7 DEF HandleButtons, HandleAutomaticIncrement, TimerDelivered,
         UpdateAfterResume, BootIsQuiet, LoopAgrees
    <3>2. QED
      BY <2>0, <2>2, <3>1 DEF TypeOK, ClientStates, Lifecycle!LoseAlarm
  <2>3. QED
    BY <2>1, <2>2
<1>8. CASE ResumeConnectOk \/ ResumeConnectFail
  BY <1>8, AlarmFollowsLost DEF ResumeConnectOk, ResumeConnectFail
<1>9. CASE ResumeHandover
  BY <1>9, AlarmFollowsLost
  DEF ResumeHandover, LoopAgrees, Lifecycle!WakeUp, Lifecycle!Transition
<1>10. CASE Reboot
  <2>1. CanWake' = TRUE
    BY <1>10, Zenon DEF Reboot, CanWake
  <2>2. QED
    BY <1>10, <2>1
    DEF Reboot, BootIsQuiet, LoopAgrees, TypeOK, Lifecycle!Reset
<1>11. CASE UNCHANGED vars
  BY <1>11, AlarmFollowsLost DEF vars
<1>12. QED
  BY <1>1, <1>2, <1>3, <1>4, <1>5, <1>6, <1>7, <1>8, <1>9, <1>10, <1>11
  DEF Next, MainStep, StatusHandler, ResumeStep

(* Both builds implement the safety part of the lifecycle.                 *)
THEOREM ImplementsLifecycleSafety == SafetySpec => Lifecycle!LifecycleSafety
<1>1. IInv /\ IInv' /\ [Next]_vars => [Lifecycle!LNext]_(Lifecycle!lvars)
  BY StepRefines
<1>2. QED
  BY <1>1, InitRefines, InductiveInvariant, PTL
  DEF SafetySpec, Lifecycle!LifecycleSafety

-----------------------------------------------------------------------------
(* The large resource.                                                     *)

(* One read at a time.                                                     *)
OneOpen == \A t, u \in Transfers : Open(t) /\ Open(u) => t = u

(* The open read holds a block of the current buffer, which is live, and   *)
(* the others hold nothing.                                                *)
OpenHoldsCurrent ==
  \A t \in Transfers :
    /\ Open(t) => /\ Live(large_res_data)
                  /\ held[t].buf = large_res_data
                  /\ held[t].size > 0
                  /\ got[t] = held[t].offset + held[t].size
    /\ ~Open(t) => held[t] = NoBlock

(* The only buffer that can be live is the current one, during a read.     *)
LiveIsCurrent ==
  \A b \in Buffers :
    Live(b) => b = large_res_data /\ \E t \in Transfers : Open(t)

(* Nothing is freed twice, nor before it is allocated.                     *)
FreedAtMostOnce ==
  \A b \in Buffers : frees[b] <= 1 /\ (b > allocated => frees[b] = 0)

SeqInv ==
  LargeTypeOK /\ OneOpen /\ OpenHoldsCurrent /\ LiveIsCurrent /\ FreedAtMostOnce

-----------------------------------------------------------------------------

(* The adjusted length is positive and stays inside the resource.          *)
LEMMA LengthFits ==
  ASSUME NEW offset \in 0 .. LargeResSize - 1
  PROVE  /\ LengthAt(offset) \in 1 .. LargeResSize
         /\ offset + LengthAt(offset) \in 1 .. LargeResSize
  BY SizeAssumption DEF LengthAt

(* What answering a block request leaves behind.                           *)
LEMMA RespondEffect ==
  ASSUME LargeTypeOK, NEW t \in Transfers,
         NEW buf \in Buffers, NEW offset \in 0 .. LargeResSize - 1,
         Respond(t, buf, offset)
  PROVE  /\ got' \in [Transfers -> 0 .. LargeResSize]
         /\ held' \in [Transfers -> Blocks]
         /\ got'[t] = offset + LengthAt(offset)
         /\ got'[t] > 0
         /\ held'[t] = [buf |-> buf, offset |-> offset,
                        size |-> LengthAt(offset)]
         /\ held'[t].size > 0
         /\ \A u \in Transfers \ {t} : got'[u] = got[u] /\ held'[u] = held[u]
<1>1. buf # NULL
  BY SizeAssumption DEF Buffers, NULL
<1>2. [buf |-> buf, offset |-> offset, size |-> LengthAt(offset)] \in Blocks
  BY LengthFits, SizeAssumption DEF Blocks
<1>3. QED
  BY <1>1, <1>2, LengthFits, SizeAssumption DEF Respond, LargeTypeOK

LEMMA InitSeqInv == LargeInit => SeqInv
<1> SUFFICES ASSUME LargeInit PROVE SeqInv
  OBVIOUS
<1>1. NoBlock \in Blocks
  BY SizeAssumption DEF NoBlock, Blocks, NULL
<1>2. crashed \in BOOLEAN
  BY Zenon DEF LargeInit
<1>3. held \in [Transfers -> Blocks]
  BY <1>1, Zenon DEF LargeInit
<1>4. LargeTypeOK
  BY <1>2, <1>3, SizeAssumption DEF LargeInit, LargeTypeOK, NULL
<1>5. QED
  BY <1>4, SizeAssumption DEF LargeInit, SeqInv, OneOpen, OpenHoldsCurrent,
     LiveIsCurrent, FreedAtMostOnce, Open, Live, NULL, Buffers

(* A first block: a new buffer, or an error when malloc fails.             *)
LEMMA FirstKeepsSeqInv ==
  ASSUME ~Overlap, SeqInv, NEW t \in Transfers, ReadFirst(t)
  PROVE  SeqInv'
<1> USE SizeAssumption DEF SeqInv, LargeTypeOK
<1>1. \A u \in Transfers : ~Open(u)
  BY DEF ReadFirst
<1>2. \A b \in Buffers : ~Live(b)
  BY <1>1 DEF LiveIsCurrent
<1>3. CASE Malloc /\ Respond(t, large_res_data', 0) /\ UNCHANGED crashed
  <2>1. /\ large_res_data' = allocated + 1
        /\ allocated' = allocated + 1
        /\ large_res_data' \in Buffers
        /\ frees' = frees
    BY <1>3 DEF Malloc, ReadFirst, Buffers
  <2>2. Live(large_res_data)'
    BY <2>1 DEF Live, FreedAtMostOnce, Buffers
  <2>3. /\ got' \in [Transfers -> 0 .. LargeResSize]
        /\ held' \in [Transfers -> Blocks]
        /\ got'[t] = 0 + LengthAt(0)
        /\ got'[t] > 0
        /\ held'[t] = [buf |-> large_res_data', offset |-> 0,
                       size |-> LengthAt(0)]
        /\ held'[t].size > 0
        /\ \A u \in Transfers \ {t} : got'[u] = got[u] /\ held'[u] = held[u]
    BY <1>3, <2>1, RespondEffect
  <2>4. LargeTypeOK'
    BY <1>3, <2>1, <2>3 DEF Buffers
  <2>5. OneOpen' /\ OpenHoldsCurrent'
    BY <1>1, <2>2, <2>3, <2>4 DEF OneOpen, OpenHoldsCurrent, Open
  <2>6. LiveIsCurrent'
    BY <1>2, <2>1, <2>3 DEF LiveIsCurrent, Live, Open, Buffers
  <2>7. FreedAtMostOnce'
    BY <2>1 DEF FreedAtMostOnce, Buffers
  <2>8. QED
    BY <2>4, <2>5, <2>6, <2>7
<1>4. CASE /\ large_res_data' = NULL
           /\ crashed' \in BOOLEAN
           /\ Respond(t, NULL, 0)
           /\ UNCHANGED allocated
  <2>1. /\ got' = [got EXCEPT ![t] = 0]
        /\ held' = [held EXCEPT ![t] = NoBlock]
        /\ frees' = frees
        /\ allocated' = allocated
    BY <1>4 DEF Respond, ReadFirst
  <2>2. \A u \in Transfers : ~Open(u)' /\ held'[u] = NoBlock
    BY <1>1, <2>1 DEF Open, OpenHoldsCurrent
  <2>3. LargeTypeOK'
    BY <1>4, <2>1 DEF NoBlock, Blocks, NULL
  <2>4. QED
    BY <1>2, <1>4, <2>1, <2>2, <2>3
    DEF OneOpen, OpenHoldsCurrent, LiveIsCurrent, FreedAtMostOnce, Live
<1>5. QED
  BY <1>3, <1>4 DEF ReadFirst

(* A later block comes from the buffer of the first.                       *)
LEMMA NextKeepsSeqInv ==
  ASSUME SeqInv, NEW t \in Transfers, ReadNext(t)
  PROVE  SeqInv'
<1> USE SizeAssumption DEF SeqInv, LargeTypeOK
<1>1. Open(t) /\ got[t] \in 0 .. LargeResSize - 1
  BY DEF ReadNext, Open
<1>2. Live(large_res_data) /\ large_res_data \in Buffers
  BY <1>1 DEF OpenHoldsCurrent, Live, Buffers
<1>3. UNCHANGED <<large_res_data, allocated, frees, crashed>>
  BY DEF ReadNext
<1>4. /\ got' \in [Transfers -> 0 .. LargeResSize]
      /\ held' \in [Transfers -> Blocks]
      /\ got'[t] = got[t] + LengthAt(got[t])
      /\ got'[t] > 0
      /\ held'[t] = [buf |-> large_res_data, offset |-> got[t],
                     size |-> LengthAt(got[t])]
      /\ held'[t].size > 0
      /\ \A u \in Transfers \ {t} : got'[u] = got[u] /\ held'[u] = held[u]
  BY <1>1, <1>2, RespondEffect DEF ReadNext
<1>5. LargeTypeOK'
  BY <1>3, <1>4
<1>6. OneOpen' /\ OpenHoldsCurrent'
  BY <1>1, <1>2, <1>3, <1>4 DEF OneOpen, OpenHoldsCurrent, Open, Live
<1>7. LiveIsCurrent' /\ FreedAtMostOnce'
  BY <1>1, <1>3, <1>4 DEF LiveIsCurrent, FreedAtMostOnce, Live, Open
<1>8. QED
  BY <1>5, <1>6, <1>7

(* A status report: the end of a read gives its buffer back.               *)
LEMMA ReportKeepsSeqInv ==
  ASSUME SeqInv, NEW t \in Transfers, NEW status \in Statuses,
         ReportStatus(t, status)
  PROVE  SeqInv'
<1> USE SizeAssumption DEF SeqInv, LargeTypeOK
<1>1. Open(t)
  BY DEF ReportStatus
<1>2. Live(large_res_data) /\ large_res_data \in Buffers
      /\ large_res_data # NULL
  BY <1>1 DEF OpenHoldsCurrent, Live, Buffers, NULL
<1>3. UNCHANGED <<large_res_data, allocated, crashed>>
  BY DEF ReportStatus, LargeResSentCb
<1>4. CASE status = "SENT"
  <2>1. UNCHANGED <<frees, got, held>>
    BY <1>4 DEF ReportStatus, LargeResSentCb, FreesOn
  <2>2. QED
    BY <1>3, <2>1 DEF OneOpen, OpenHoldsCurrent, LiveIsCurrent,
       FreedAtMostOnce, Open, Live
<1>5. CASE status # "SENT"
  <2>1. /\ frees' = [frees EXCEPT ![large_res_data] = @ + 1]
        /\ got' = [got EXCEPT ![t] = 0]
        /\ held' = [held EXCEPT ![t] = NoBlock]
    BY <1>2, <1>5 DEF ReportStatus, LargeResSentCb, FreesOn, Statuses
  <2>2. LargeTypeOK'
    BY <1>2, <1>3, <2>1 DEF NoBlock, Blocks
  <2>3. \A u \in Transfers : ~Open(u)' /\ held'[u] = NoBlock
    BY <1>1, <2>1 DEF Open, OneOpen, OpenHoldsCurrent
  <2>4. frees[large_res_data] = 0 /\ frees'[large_res_data] = 1
        /\ \A b \in Buffers \ {large_res_data} : frees'[b] = frees[b]
    BY <1>2, <2>1 DEF Live
  <2>5. \A b \in Buffers : ~Live(b)'
    BY <1>2, <1>3, <2>4 DEF LiveIsCurrent, Live
  <2>6. FreedAtMostOnce'
    BY <1>2, <1>3, <2>4 DEF FreedAtMostOnce, Live
  <2>7. QED
    BY <2>2, <2>3, <2>5, <2>6 DEF OneOpen, OpenHoldsCurrent, LiveIsCurrent
<1>6. QED
  BY <1>4, <1>5

(* Reads that follow each other keep the ownership of the buffer straight. *)
LEMMA SequentialInvariant ==
  ASSUME ~Overlap PROVE LargeSpec => []SeqInv
<1>1. SeqInv /\ [LargeNext]_largeVars => SeqInv'
  <2> SUFFICES ASSUME SeqInv, [LargeNext]_largeVars PROVE SeqInv'
    OBVIOUS
  <2>1. CASE LargeNext
    BY <2>1, FirstKeepsSeqInv, NextKeepsSeqInv, ReportKeepsSeqInv DEF LargeNext
  <2>2. CASE UNCHANGED largeVars
    BY <2>2 DEF largeVars, SeqInv, LargeTypeOK, OneOpen, OpenHoldsCurrent,
       LiveIsCurrent, FreedAtMostOnce, Open, Live
  <2>3. QED
    BY <2>1, <2>2
<1>2. QED
  BY <1>1, InitSeqInv, PTL DEF LargeSpec

(* With sequential reads every variable of the resource keeps its type,    *)
(* the answered part of the buffer inside the resource.                    *)
THEOREM SequentialReadsTyped ==
  ASSUME ~Overlap PROVE LargeSpec => []LargeTypeOK
<1>1. SeqInv => LargeTypeOK
  BY DEF SeqInv
<1>2. QED
  BY <1>1, SequentialInvariant, PTL

(* With sequential reads the library never sends from freed memory.        *)
THEOREM SequentialReadsUseLiveMemory ==
  ASSUME ~Overlap PROVE LargeSpec => []HeldBlocksAreLive
<1>1. SeqInv => HeldBlocksAreLive
  BY DEF SeqInv, OpenHoldsCurrent, HeldBlocksAreLive
<1>2. QED
  BY <1>1, SequentialInvariant, PTL

(* With sequential reads no buffer is freed twice.                         *)
THEOREM SequentialReadsFreeOnce ==
  ASSUME ~Overlap PROVE LargeSpec => []NeverFreedTwice
<1>1. SeqInv => NeverFreedTwice
  BY DEF SeqInv, FreedAtMostOnce, NeverFreedTwice
<1>2. QED
  BY <1>1, SequentialInvariant, PTL

(* With sequential reads nothing is leaked.                                *)
THEOREM SequentialReadsLeakNothing ==
  ASSUME ~Overlap PROVE LargeSpec => []NothingLeaksAtRest
<1>1. SeqInv => NothingLeaksAtRest
  BY DEF SeqInv, LiveIsCurrent, NothingLeaksAtRest
<1>2. QED
  BY <1>1, SequentialInvariant, PTL

(* With sequential reads the three together: every allocation has one      *)
(* owner from its malloc() to its only free().                             *)
THEOREM SequentialReadsOwnTheirBuffer ==
  ASSUME ~Overlap PROVE LargeSpec => []BufferIsOwned
BY SequentialReadsUseLiveMemory, SequentialReadsFreeOnce,
   SequentialReadsLeakNothing, PTL DEF BufferIsOwned

(* With sequential reads every block lies inside the buffer and continues  *)
(* where the previous one ended.                                           *)
THEOREM SequentialReadsStayInside ==
  ASSUME ~Overlap PROVE LargeSpec => []BlocksStayInside
<1>1. SeqInv => BlocksStayInside
  <2> SUFFICES ASSUME SeqInv, NEW t \in Transfers, held[t] # NoBlock
               PROVE  /\ held[t].offset + held[t].size <= LargeResSize
                      /\ held[t].size > 0
                      /\ got[t] = held[t].offset + held[t].size
    BY DEF BlocksStayInside
  <2>1. got[t] \in 0 .. LargeResSize
    BY DEF SeqInv, LargeTypeOK
  <2>2. held[t].size > 0 /\ got[t] = held[t].offset + held[t].size
    BY DEF SeqInv, OpenHoldsCurrent
  <2>3. QED
    BY <2>1, <2>2, SizeAssumption
<1>2. QED
  BY <1>1, SequentialInvariant, PTL
=============================================================================
