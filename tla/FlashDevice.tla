----------------------------- MODULE FlashDevice -----------------------------
(***************************************************************************)
(* What the storage of a device takes the flash below it to be, one call   *)
(* at a time: a call asks for the content of some pages.  Until it has     *)
(* returned these pages, and no others, may hold anything; once it has     *)
(* returned success they hold what was asked for and keep it, until a      *)
(* later call asks for them.  Nothing is known of the pages of a call that *)
(* failed or was cut: while the flash still works on them they are loose.  *)
(* Every call returns.                                                     *)
(***************************************************************************)
VARIABLES
  content,   \* of each page of the flash
  active,    \* a call is in work
  goal,      \* what the call, or the last one that succeeded, is to leave
  loose      \* pages that calls which failed or were cut may still change

dvars == <<content, active, goal, loose>>

NoGoal == <<>>

DeviceInit == ~active /\ goal = NoGoal /\ loose = {}

(* The pages that may change now.                                          *)
Open == loose \cup (IF active THEN DOMAIN goal ELSE {})

ChangesOnly(pages) ==
  /\ DOMAIN content' = DOMAIN content
  /\ \A p \in DOMAIN content \ pages : content'[p] = content[p]

(* A goal with a page outside the flash is never reached.                  *)
Reached == \A p \in DOMAIN goal : p \in DOMAIN content /\ content[p] = goal[p]

Ask ==
  /\ ~active /\ active'
  /\ loose' \subseteq loose
  /\ UNCHANGED content

(* The call, or what was left of an earlier one, goes on.                  *)
Work ==
  /\ active' = active
  /\ ChangesOnly(Open)
  /\ loose' \subseteq loose
  /\ UNCHANGED goal

Succeed ==
  /\ active /\ ~active'
  /\ Reached
  /\ loose' \subseteq loose \ DOMAIN goal
  /\ UNCHANGED <<content, goal>>

(* The call is refused, has failed or is cut.                              *)
Fail ==
  /\ ~active'
  /\ goal' = NoGoal
  /\ loose' \subseteq Open
  /\ UNCHANGED content

DeviceNext == Ask \/ Work \/ Succeed \/ Fail

DeviceSafety == DeviceInit /\ [][DeviceNext]_dvars

DeviceSpec == DeviceSafety /\ []<>~active
=============================================================================
