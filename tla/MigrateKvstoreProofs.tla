------------------------ MODULE MigrateKvstoreProofs ------------------------
(***************************************************************************)
(* The migration, for every length of the new address, every content of    *)
(* the store before it, and any number of failing operations and losses of *)
(* power: the flag, the keys and the running client always agree.          *)
(***************************************************************************)
EXTENDS MigrateKvstore, TLAPS

AllReplaced == \A k \in Keys : Replaced(k)

(* What a boot in which nothing has failed has achieved so far.            *)
Progress ==
  /\ pc = "replace" /\ ~failed => \A k \in Keys : k < at => Replaced(k)
  /\ pc \in {"clear", "flag"} /\ ~failed => AllReplaced
  /\ pc = "clear" /\ ~failed => \A k \in LwM2MKeys : k < at => k \notin lwm2m
  /\ pc = "flag" /\ ~failed => lwm2m = {}

(* A key that became write-once holds what the migration writes: no later  *)
(* set of it is needed, and none is refused.                               *)
LockedHoldNew == \A k \in locked : Replaced(k)

(* The part of the types the argument needs.                               *)
StoreOK ==
  /\ present \subseteq Keys
  /\ locked \subseteq Keys
  /\ value \in [Keys -> Values]
  /\ lwm2m \subseteq LwM2MKeys
  /\ at \in 1 .. 4
  /\ pc \in {"check", "replace", "clear", "flag", "running", "halted"}

MigrateInv ==
  StoreOK /\ Progress /\ LockedHoldNew /\ MigratedIsComplete /\ ClientRunsMigrated

-----------------------------------------------------------------------------

LEMMA ReplacementTyped == \A k \in Keys : Replacement(k) \in Values
  BY BoundsAssumption DEF Replacement, Values, KeyNameLen

LEMMA InitInv == Init => MigrateInv
<1> SUFFICES ASSUME Init PROVE MigrateInv
  OBVIOUS
<1>1. StoreOK
  BY InitialValuesAssumption DEF Init, StoreOK, LwM2MKeys
<1>2. ~migrated /\ pc = "check" /\ locked = {}
  BY DEF Init
<1>3. QED
  BY <1>1, <1>2 DEF MigrateInv, Progress, LockedHoldNew, MigratedIsComplete,
     ClientRunsMigrated

(* A step of the replacing loop leaves every replaced key replaced, and    *)
(* its own key replaced unless it failed.                                  *)
LEMMA ReplaceEffect ==
  ASSUME StoreOK, LockedHoldNew, ReplaceKnown(at) \/ ReplaceUnknown(at)
  PROVE  /\ present' \subseteq Keys /\ locked' \subseteq Keys
         /\ value' \in [Keys -> Values]
         /\ \A k \in Keys : Replaced(k) => Replaced(k)'
         /\ failed' = failed \/ failed' = TRUE
         /\ ~failed' => \A k \in Keys : k = at => Replaced(k)'
         /\ LockedHoldNew'
<1> USE ReplacementTyped DEF StoreOK, Keys
<1>1. CASE KeepKeys /\ failed' = TRUE
  BY <1>1 DEF KeepKeys, Replaced, LockedHoldNew
<1>2. CASE /\ at \in present /\ value[at] = Replacement(at)
           /\ KeepKeys /\ UNCHANGED <<failed, errors>>
  BY <1>2 DEF KeepKeys, Replaced, LockedHoldNew
<1>3. CASE /\ SetNewValue(at)
           /\ locked' \in {locked, locked \cup {at}}
           /\ UNCHANGED failed
  <2>1. /\ present' = present \cup {at}
        /\ value' = [value EXCEPT ![at] = Replacement(at)]
    BY <1>3 DEF SetNewValue
  <2>2. present' \subseteq Keys /\ locked' \subseteq Keys
    BY <1>3, <2>1
  <2>3. value' \in [Keys -> Values]
    BY <2>1
  <2>4. \A k \in Keys : k = at => Replaced(k)'
    BY <2>1 DEF Replaced
  <2>5. \A k \in Keys : Replaced(k) => Replaced(k)'
    BY <2>1 DEF Replaced
  <2>6. LockedHoldNew'
    BY <1>3, <2>4, <2>5 DEF LockedHoldNew
  <2>7. QED
    BY <1>3, <2>2, <2>3, <2>4, <2>5, <2>6
<1>4. QED
  BY <1>1, <1>2, <1>3 DEF ReplaceKnown, ReplaceUnknown

LEMMA StepInv == MigrateInv /\ [Next]_vars => MigrateInv'
<1> SUFFICES ASSUME MigrateInv, [Next]_vars PROVE MigrateInv'
  OBVIOUS
<1> USE DEF MigrateInv
<1>1. CASE CheckMigrated
  <2>1. /\ UNCHANGED store /\ at' = 1
        /\ pc' = "replace" \/ (pc' = "running" /\ migrated)
    BY <1>1 DEF CheckMigrated
  <2>2. UNCHANGED <<present, value, locked, lwm2m, migrated>>
    BY <2>1 DEF store
  <2>3. StoreOK'
    BY <2>1, <2>2 DEF StoreOK
  <2>4. Progress'
    BY <2>1 DEF Progress, Keys
  <2>5. LockedHoldNew' /\ MigratedIsComplete' /\ ClientRunsMigrated'
    BY <2>1, <2>2 DEF LockedHoldNew, MigratedIsComplete, ClientRunsMigrated, Replaced
  <2>6. QED
    BY <2>3, <2>4, <2>5
<1>2. CASE Replace
  <2>1. /\ pc = "replace" /\ NextKey("clear")
        /\ UNCHANGED <<lwm2m, migrated>>
        /\ ReplaceKnown(at) \/ ReplaceUnknown(at)
    BY <1>2 DEF Replace
  <2>2. /\ present' \subseteq Keys /\ locked' \subseteq Keys
        /\ value' \in [Keys -> Values]
        /\ \A k \in Keys : Replaced(k) => Replaced(k)'
        /\ failed' = failed \/ failed' = TRUE
        /\ ~failed' => \A k \in Keys : k = at => Replaced(k)'
        /\ LockedHoldNew'
    BY <2>1, ReplaceEffect
  <2>3. at' \in 1 .. 4 /\ pc' \in {"replace", "clear"}
    BY <2>1 DEF NextKey, StoreOK
  <2>4. StoreOK'
    BY <2>1, <2>2, <2>3 DEF StoreOK
  <2>5. ~failed' => \A k \in Keys : k <= at => Replaced(k)'
    BY <2>1, <2>2 DEF Progress, StoreOK, Keys
  <2>6. Progress'
    <3>1. CASE at < 4
      BY <2>1, <2>5, <3>1 DEF NextKey, Progress, StoreOK, Keys, Replaced
    <3>2. CASE at = 4
      BY <2>1, <2>5, <3>2 DEF NextKey, Progress, AllReplaced, Keys, LwM2MKeys, Replaced
    <3>3. QED
      BY <3>1, <3>2 DEF StoreOK
  <2>7. MigratedIsComplete' /\ ClientRunsMigrated'
    BY <2>1, <2>2, <2>3 DEF MigratedIsComplete, ClientRunsMigrated, Replaced
  <2>8. QED
    BY <2>2, <2>4, <2>6, <2>7
<1>3. CASE Clear
  <2>1. /\ pc = "clear" /\ NextKey("flag")
        /\ UNCHANGED <<present, value, locked, migrated>>
        /\ \/ lwm2m' = lwm2m \ {at} /\ failed' = failed
           \/ lwm2m' = lwm2m /\ failed' = TRUE
    BY <1>3 DEF Clear
  <2>2. at' \in 1 .. 4 /\ pc' \in {"clear", "flag"}
    BY <2>1 DEF NextKey, StoreOK
  <2>3. StoreOK'
    BY <2>1, <2>2 DEF StoreOK
  <2>4. ~failed' => \A k \in LwM2MKeys : k <= at => k \notin lwm2m'
    BY <2>1 DEF Progress, StoreOK, LwM2MKeys
  <2>5. ~failed' => AllReplaced'
    BY <2>1 DEF Progress, AllReplaced, Replaced
  <2>6. Progress'
    <3>1. CASE at < 4
      BY <2>1, <2>4, <2>5, <3>1 DEF NextKey, Progress, StoreOK, LwM2MKeys
    <3>2. CASE at = 4
      <4>1. pc' = "flag"
        BY <2>1, <3>2 DEF NextKey
      <4>2. ~failed' => lwm2m' = {}
        BY <2>3, <2>4, <3>2 DEF StoreOK, LwM2MKeys
      <4>3. QED
        BY <2>5, <4>1, <4>2 DEF Progress
    <3>3. QED
      BY <3>1, <3>2 DEF StoreOK
  <2>7. LockedHoldNew' /\ MigratedIsComplete' /\ ClientRunsMigrated'
    BY <2>1, <2>2 DEF LockedHoldNew, MigratedIsComplete, ClientRunsMigrated, Replaced
  <2>8. QED
    BY <2>3, <2>6, <2>7
<1>4. CASE WriteFlag
  <2>1. /\ pc = "flag" /\ UNCHANGED <<present, value, locked, lwm2m, at>>
        /\ \/ pc' = "halted" /\ migrated' = migrated
           \/ pc' = "running" /\ migrated' = TRUE /\ ~failed
    BY <1>4 DEF WriteFlag
  <2>2. StoreOK'
    BY <2>1 DEF StoreOK
  <2>3. MigratedIsComplete' /\ ClientRunsMigrated' /\ LockedHoldNew' /\ Progress'
    BY <2>1 DEF MigratedIsComplete, ClientRunsMigrated, LockedHoldNew, Replaced,
       Progress, AllReplaced
  <2>4. QED
    BY <2>2, <2>3
<1>5. CASE Bootstrap
  <2>1. /\ pc = "running" /\ lwm2m' \subseteq LwM2MKeys
        /\ UNCHANGED <<present, value, locked, migrated, pc, at>>
    BY <1>5 DEF Bootstrap, StoreOK
  <2>2. QED
    BY <2>1 DEF StoreOK, Progress, LockedHoldNew, MigratedIsComplete,
       ClientRunsMigrated, Replaced
<1>6. CASE PowerLoss \/ PowerCycle
  <2>1. /\ pc' = "check" /\ at' = 1
        /\ UNCHANGED <<present, value, locked, lwm2m, migrated>>
    BY <1>6 DEF PowerLoss, PowerCycle, Boot, store
  <2>2. QED
    BY <2>1 DEF StoreOK, Progress, LockedHoldNew, MigratedIsComplete,
       ClientRunsMigrated, Replaced
<1>7. CASE UNCHANGED vars
  BY <1>7 DEF vars, StoreOK, Progress, AllReplaced, LockedHoldNew,
     MigratedIsComplete, ClientRunsMigrated, Replaced
<1>8. QED
  BY <1>1, <1>2, <1>3, <1>4, <1>5, <1>6, <1>7 DEF Next, Migrate

LEMMA Invariance == Spec => []MigrateInv
  BY InitInv, StepInv, PTL DEF Spec

(* Once migrationKey exists all four keys hold what the migration writes.  *)
THEOREM MigrationIsComplete == Spec => []MigratedIsComplete
<1>1. MigrateInv => MigratedIsComplete
  BY DEF MigrateInv
<1>2. QED
  BY Invariance, <1>1, PTL

(* The client runs only on a migrated store.                               *)
THEOREM ClientOnMigratedStore == Spec => []ClientRunsMigrated
<1>1. MigrateInv => ClientRunsMigrated
  BY DEF MigrateInv
<1>2. QED
  BY Invariance, <1>1, PTL

(* migrationKey is written only when no old credential is left.            *)
THEOREM FlagIsWrittenLast == Spec => FlagAfterWipe
<1>1. MigrateInv /\ [Next]_vars => [migrated' /\ ~migrated => lwm2m' = {}]_vars
  <2> SUFFICES ASSUME MigrateInv, Next, migrated', ~migrated PROVE lwm2m' = {}
    OBVIOUS
  <2>1. WriteFlag
    BY DEF Next, Migrate, CheckMigrated, Replace, Clear, Bootstrap,
       PowerLoss, PowerCycle, Boot, store
  <2>2. pc = "flag" /\ ~failed /\ lwm2m' = lwm2m
    BY <2>1 DEF WriteFlag
  <2>3. QED
    BY <2>2 DEF MigrateInv, Progress
<1>2. QED
  BY Invariance, <1>1, PTL DEF Spec, FlagAfterWipe

(* A key made write-once by an uninitialized flag never needs another set. *)
THEOREM LockedKeysNeedNoSet == Spec => []LockedHoldNew
<1>1. MigrateInv => LockedHoldNew
  BY DEF MigrateInv
<1>2. QED
  BY Invariance, <1>1, PTL

(* A boot that migrates again what is recorded as migrated has misread the *)
(* flag.                                                                   *)
RepeatsOnMisread ==
  migrated /\ pc \in {"replace", "clear", "flag"} => misread

LEMMA StepRepeats ==
  ASSUME RepeatsOnMisread, [Next]_vars PROVE RepeatsOnMisread'
<1>1. CASE CheckMigrated
  <2>1. migrated' = migrated
    BY <1>1 DEF CheckMigrated, store
  <2>2. CASE pc' = (IF migrated THEN "running" ELSE "replace")
    BY <2>1, <2>2 DEF RepeatsOnMisread
  <2>3. CASE misread' = migrated
    BY <2>1, <2>3, Zenon DEF RepeatsOnMisread
  <2>4. QED
    BY <1>1, <2>2, <2>3 DEF CheckMigrated
<1>2. CASE Replace
  BY <1>2 DEF Replace, NextKey, RepeatsOnMisread
<1>3. CASE Clear
  BY <1>3 DEF Clear, NextKey, RepeatsOnMisread
<1>4. CASE WriteFlag
  BY <1>4 DEF WriteFlag, RepeatsOnMisread
<1>5. CASE Bootstrap
  BY <1>5 DEF Bootstrap, RepeatsOnMisread
<1>6. CASE PowerLoss \/ PowerCycle
  BY <1>6 DEF PowerLoss, PowerCycle, Boot, RepeatsOnMisread
<1>7. CASE UNCHANGED vars
  BY <1>7 DEF vars, RepeatsOnMisread
<1>8. QED
  BY <1>1, <1>2, <1>3, <1>4, <1>5, <1>6, <1>7 DEF Next, Migrate

(* Credentials issued after the migration survive every boot that can read *)
(* the flag, and every loss of power.                                      *)
THEOREM IssuedCredentialsStay == Spec => NewCredentialsKept
<1>1. Init => RepeatsOnMisread
  BY DEF Init, RepeatsOnMisread
<1>2. RepeatsOnMisread /\ [Next]_vars => RepeatsOnMisread'
  BY StepRepeats
<1>3. RepeatsOnMisread /\ [Next]_vars
        => [migrated /\ ~misread => lwm2m \subseteq lwm2m']_vars
  <2> SUFFICES ASSUME RepeatsOnMisread, Next, migrated, ~misread
               PROVE  lwm2m \subseteq lwm2m'
    OBVIOUS
  <2>1. ~Clear
    BY DEF RepeatsOnMisread, Clear
  <2>2. CASE Bootstrap
    BY <2>2 DEF Bootstrap
  <2>3. CASE lwm2m' = lwm2m
    BY <2>3
  <2>4. QED
    BY <2>1, <2>2, <2>3 DEF Next, Migrate, CheckMigrated, Replace, WriteFlag,
       PowerLoss, PowerCycle, Boot, store
<1>4. QED
  BY <1>1, <1>2, <1>3, PTL DEF Spec, NewCredentialsKept
-----------------------------------------------------------------------------
(* The migration implements ServerMove, step by step.                      *)

(* A boot begins without a doubt about the flag.                           *)
DoubtAgrees ==
  /\ migrated \in BOOLEAN /\ misread \in BOOLEAN
  /\ pc = "check" => ~misread

MoveInv == MigrateInv /\ RepeatsOnMisread /\ DoubtAgrees

LEMMA StepDoubt == DoubtAgrees /\ [Next]_vars => DoubtAgrees'
<1> SUFFICES ASSUME DoubtAgrees, [Next]_vars PROVE DoubtAgrees'
  OBVIOUS
<1> USE DEF DoubtAgrees, store
<1>1. CASE CheckMigrated
  BY <1>1, Zenon DEF CheckMigrated
<1>2. CASE Replace \/ Clear \/ WriteFlag \/ Bootstrap
  BY <1>2 DEF Replace, Clear, WriteFlag, Bootstrap, NextKey
<1>3. CASE PowerLoss \/ PowerCycle
  BY <1>3 DEF PowerLoss, PowerCycle, Boot
<1>4. CASE UNCHANGED vars
  BY <1>4 DEF vars
<1>5. QED
  BY <1>1, <1>2, <1>3, <1>4 DEF Next, Migrate

LEMMA MoveInvariant == Spec => []MoveInv
<1>1. Init => MoveInv
  BY InitInv DEF MoveInv, Init, RepeatsOnMisread, DoubtAgrees
<1>2. MoveInv /\ [Next]_vars => MoveInv'
  BY StepInv, StepRepeats, StepDoubt DEF MoveInv
<1>3. QED
  BY <1>1, <1>2, PTL DEF Spec

LEMMA InitMoves == Init => Move!MInit
  BY DEF Init, Move!MInit, LwM2MKeys

(* A write of a key points the device to the new server when it is the     *)
(* last that was missing, and is invisible otherwise.                      *)
LEMMA ReplaceMoves ==
  ASSUME MoveInv, Replace
  PROVE  [Move!MNext]_(Move!mvars)
<1>1. /\ pc = "replace" /\ pc' # "running"
      /\ UNCHANGED <<lwm2m, migrated, misread>>
  BY DEF Replace, NextKey
<1>2. \A k \in Keys : Replaced(k) => Replaced(k)'
  BY ReplaceEffect DEF MoveInv, MigrateInv, Replace
<1>3. CASE \A k \in Keys : Replaced(k)
  BY <1>1, <1>2, <1>3 DEF Move!mvars
<1>4. CASE /\ ~\A k \in Keys : Replaced(k)
           /\ \A k \in Keys : Replaced(k)'
  <2>1. ~migrated
    BY <1>4 DEF MoveInv, MigrateInv, MigratedIsComplete
  <2>2. QED
    BY <1>1, <1>4, <2>1 DEF Move!Point, Move!Moving, Move!MNext
<1>5. CASE /\ ~\A k \in Keys : Replaced(k)
           /\ ~\A k \in Keys : Replaced(k)'
  BY <1>1, <1>5 DEF Move!mvars
<1>6. QED
  BY <1>3, <1>4, <1>5

LEMMA StepMoves ==
  ASSUME MoveInv, [Next]_vars
  PROVE  [Move!MNext]_(Move!mvars)
<1> USE DEF Move!MNext, Move!mvars
<1>a. /\ migrated \in BOOLEAN /\ misread \in BOOLEAN
      /\ lwm2m \subseteq LwM2MKeys /\ at \in LwM2MKeys
  BY DEF MoveInv, DoubtAgrees, MigrateInv, StoreOK, LwM2MKeys
<1>1. CASE CheckMigrated
  <2>1. /\ pc = "check" /\ ~misread
        /\ UNCHANGED <<present, value, lwm2m, migrated>>
    BY <1>1 DEF CheckMigrated, MoveInv, DoubtAgrees, store
  <2>2. UNCHANGED (\A k \in Keys : Replaced(k))
    BY <2>1 DEF Replaced
  <2>3. CASE migrated /\ pc' = "running" /\ misread' = FALSE
    BY <2>1, <2>2, <2>3, <1>a DEF Move!RunAgain
  <2>4. CASE migrated /\ pc' = "replace" /\ misread' = TRUE
    BY <2>1, <2>2, <2>4 DEF Move!Doubt
  <2>5. CASE ~migrated /\ pc' = "replace" /\ misread' = FALSE
    BY <2>1, <2>2, <2>5, <1>a
  <2>6. QED
    BY <1>1, <1>a, <2>3, <2>4, <2>5, Zenon DEF CheckMigrated
<1>2. CASE Replace
  BY <1>2, ReplaceMoves
<1>3. CASE Clear
  <2>1. /\ pc = "clear" /\ pc' # "running"
        /\ lwm2m' = lwm2m \ {at} \/ lwm2m' = lwm2m
        /\ UNCHANGED <<present, value, migrated, misread>>
    BY <1>3 DEF Clear, NextKey
  <2>2. UNCHANGED (\A k \in Keys : Replaced(k))
    BY <2>1 DEF Replaced
  <2>3. CASE at \in lwm2m /\ lwm2m' = lwm2m \ {at}
    <3>1. migrated => misread
      BY <2>1 DEF MoveInv, RepeatsOnMisread
    <3>2. QED
      BY <2>1, <2>2, <2>3, <3>1 DEF Move!Wipe, Move!Moving
  <2>4. CASE lwm2m' = lwm2m
    BY <2>1, <2>2, <2>4
  <2>5. QED
    BY <2>1, <2>3, <2>4
<1>4. CASE WriteFlag
  <2>1. /\ pc = "flag" /\ UNCHANGED <<present, value, lwm2m, misread>>
    BY <1>4 DEF WriteFlag
  <2>2. UNCHANGED (\A k \in Keys : Replaced(k))
    BY <2>1 DEF Replaced
  <2>3. CASE ~failed /\ pc' = "running" /\ migrated' = TRUE
    <3>1. /\ migrated => misread
          /\ lwm2m = {} /\ \A k \in Keys : Replaced(k)
      BY <2>1, <2>3 DEF MoveInv, RepeatsOnMisread, MigrateInv, Progress,
         AllReplaced
    <3>2. QED
      BY <2>1, <2>2, <2>3, <3>1 DEF Move!Record, Move!Moving
  <2>4. CASE pc' = "halted" /\ migrated' = migrated
    BY <2>1, <2>2, <2>4
  <2>5. QED
    BY <1>4, <2>3, <2>4 DEF WriteFlag
<1>5. CASE Bootstrap
  <2>1. UNCHANGED (\A k \in Keys : Replaced(k))
    BY <1>5 DEF Bootstrap, Replaced
  <2>2. QED
    BY <1>5, <2>1 DEF Bootstrap, Move!Issue
<1>6. CASE PowerLoss \/ PowerCycle
  <2>1. /\ pc' = "check" /\ misread' = FALSE
        /\ UNCHANGED <<present, value, lwm2m, migrated>>
    BY <1>6 DEF PowerLoss, PowerCycle, Boot, store
  <2>2. UNCHANGED (\A k \in Keys : Replaced(k))
    BY <2>1 DEF Replaced
  <2>3. QED
    BY <2>1, <2>2 DEF Move!Reset
<1>7. CASE UNCHANGED vars
  BY <1>7 DEF vars, Replaced
<1>8. QED
  BY <1>1, <1>2, <1>3, <1>4, <1>5, <1>6, <1>7 DEF Next, Migrate

(* The nine writes, cut short and repeated as often as may be, are a move  *)
(* in one piece: the safety part of ImplementsServerMove.                  *)
THEOREM ImplementsServerMoveSafety == Spec => Move!MoveSafety
<1>1. MoveInv /\ [Next]_vars => [Move!MNext]_(Move!mvars)
  BY StepMoves
<1>2. QED
  BY <1>1, InitMoves, MoveInvariant, PTL DEF Spec, Move!MoveSafety
-----------------------------------------------------------------------------
(* The types, which need the rest of the invariant: a key is write-once    *)
(* only when it is there.                                                  *)

(* What the invariant above does not say of the types.                     *)
CountsInBounds == errors \in 0 .. ErrorBound /\ losses \in 0 .. BootBound
FailedTyped == failed \in BOOLEAN

LEMMA StepCounts == CountsInBounds /\ [Next]_vars => CountsInBounds'
<1> SUFFICES ASSUME CountsInBounds, [Next]_vars PROVE CountsInBounds'
  OBVIOUS
<1> USE BoundsAssumption DEF CountsInBounds
<1>1. CASE Migrate
  <2>1. losses' = losses
    BY <1>1 DEF Migrate, CheckMigrated, Replace, Clear, WriteFlag
  <2>2. errors' = errors \/ (errors < ErrorBound /\ errors' = errors + 1)
    BY <1>1 DEF Migrate, CheckMigrated, Replace, ReplaceKnown, ReplaceUnknown,
       Clear, WriteFlag, MayFail
  <2>3. QED
    BY <2>1, <2>2
<1>2. CASE Bootstrap \/ PowerLoss \/ PowerCycle \/ UNCHANGED vars
  BY <1>2 DEF Bootstrap, PowerLoss, PowerCycle, Boot, vars
<1>3. QED
  BY <1>1, <1>2 DEF Next

LEMMA StepFailed == FailedTyped /\ [Next]_vars => FailedTyped'
<1> SUFFICES ASSUME FailedTyped, [Next]_vars PROVE FailedTyped'
  OBVIOUS
<1>1. failed' = failed \/ failed' = TRUE \/ failed' = FALSE
  BY Zenon DEF Next, Migrate, CheckMigrated, Replace, ReplaceKnown,
     ReplaceUnknown, Clear, WriteFlag, Bootstrap, PowerLoss, PowerCycle, Boot, vars
<1>2. QED
  BY <1>1, Zenon DEF FailedTyped

(* Every variable of the migration keeps its type, and a write-once key    *)
(* exists.                                                                 *)
THEOREM MigrationTyped == Spec => []TypeOK
<1>1. Init => CountsInBounds
  BY BoundsAssumption DEF Init, CountsInBounds
<1>2. Init => FailedTyped
  BY Zenon DEF Init, FailedTyped
<1>3. MoveInv /\ CountsInBounds /\ FailedTyped => TypeOK
  <2> SUFFICES ASSUME MoveInv, CountsInBounds, FailedTyped PROVE TypeOK
    OBVIOUS
  <2>1. locked \subseteq present
    BY DEF MoveInv, MigrateInv, LockedHoldNew, Replaced
  <2>2. migrated \in BOOLEAN /\ misread \in BOOLEAN /\ failed \in BOOLEAN
    BY Zenon DEF MoveInv, DoubtAgrees, FailedTyped
  <2>3. QED
    BY <2>1, <2>2, Zenon DEF TypeOK, CountsInBounds, MoveInv, MigrateInv, StoreOK
<1>4. QED
  BY <1>1, <1>2, <1>3, StepCounts, StepFailed, MoveInvariant, PTL DEF Spec
=============================================================================
