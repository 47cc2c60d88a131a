--------------------------- MODULE DeviceLifecycle ---------------------------
(***************************************************************************)
(* What the example application promises about one device, whatever the    *)
(* threads, timers and callbacks that realise it: a device boots, is awake *)
(* while its client is connected or connecting, may fall asleep when the   *)
(* client announces Sleep, notifies the cloud of the button resource only  *)
(* while awake, and stops for good once the client has unregistered.  A    *)
(* reset takes any device that has not stopped back to booting.  A device  *)
(* with early_notify may also notify while it is being woken.  Its alarm,  *)
(* what wakes it from sleep on its own, may be lost until the next reset.  *)
(***************************************************************************)
EXTENDS Naturals

CONSTANT CountWrap      \* the button resource counts modulo this bound

VARIABLES
  early_notify,         \* fixed: handlers may run inside a wake-up
  phase,                \* where the device is in its life
  alarm,                \* the device can still wake on its own
  button_value          \* value of the button resource 3200/0/5501

lvars == <<early_notify, phase, alarm, button_value>>

Phases == {"booting", "awake", "asleep", "stopped"}

LifecycleTypeOK ==
  /\ early_notify \in BOOLEAN
  /\ phase \in Phases
  /\ alarm \in BOOLEAN
  /\ button_value \in 0 .. CountWrap - 1

LInit ==
  /\ early_notify \in BOOLEAN
  /\ phase = "booting"
  /\ alarm = TRUE
  /\ button_value = 0

Transition(from, to) ==
  /\ phase = from
  /\ phase' = to
  /\ UNCHANGED <<early_notify, alarm, button_value>>

GoOnline == Transition("booting", "awake")

FallAsleep == Transition("awake", "asleep")

WakeUp == Transition("asleep", "awake")

Stop == Transition("awake", "stopped")

Notify ==
  /\ phase = "awake" \/ (early_notify /\ phase = "asleep")
  /\ button_value' = (button_value + 1) % CountWrap
  /\ alarm' \in {alarm, FALSE}
  /\ UNCHANGED <<early_notify, phase>>

LoseAlarm ==
  /\ phase # "booting"
  /\ alarm' = FALSE
  /\ UNCHANGED <<early_notify, phase, button_value>>

Reset ==
  /\ phase # "stopped"
  /\ phase' = "booting"
  /\ alarm' = TRUE
  /\ button_value' = 0
  /\ UNCHANGED early_notify

LNext ==
  GoOnline \/ FallAsleep \/ WakeUp \/ Stop \/ Notify \/ LoseAlarm \/ Reset

(***************************************************************************)
(* A sleeping device with its alarm does not sleep for ever: it is woken   *)
(* or reset.                                                               *)
(***************************************************************************)
LifecycleSpec ==
  /\ LInit
  /\ [][LNext]_lvars
  /\ WF_lvars(alarm /\ (WakeUp \/ (phase = "asleep" /\ Reset)))

LifecycleSafety == LInit /\ [][LNext]_lvars
=============================================================================
