---------------------------- MODULE BlinkyProofs ----------------------------
(***************************************************************************)
(* The pattern player for every set of patterns and number of starts: its  *)
(* types; that a pattern timer never reads through a NULL pointer when     *)
(* starts do not overlap or memory does not run out; that fields play in   *)
(* order and a restarting pattern goes on, however many chains there are.  *)
(***************************************************************************)
EXTENDS Blinky, TLAPS

(* A pending chain has a field to go on with.                              *)
PendingHasPattern == (pending # {} => curr # NoPattern) /\ ~nullRead

(* Reading a field stays inside the pattern and its terminator.            *)
LEMMA FieldAfterInPattern ==
  ASSUME NEW p \in Seq(Fields), NEW c \in 1 .. Len(p) + 1
  PROVE  FieldAfter(p, c) \in 1 .. Len(p) + 1
  BY DEF FieldAfter

LEMMA EmptyPattern == <<>> \in Seq(Fields) /\ Len(<<>>) = 0
  OBVIOUS

(* What run_step leaves behind, whichever way it ends.                     *)
LEMMA RunStepEffect ==
  ASSUME NEW p \in Seq(Fields), NEW c \in 1 .. Len(p) + 1, NEW before,
         NEW sent, NEW chain, NEW others, RunStep(p, c, before, sent, chain, others)
  PROVE  /\ curr' \in 1 .. Len(p) + 1
         /\ state' \in {"IDLE", "STARTED"}
         /\ pending' \subseteq others \cup {chain}
<1>1. curr' = FieldAfter(p, c)
  BY DEF RunStep
<1>2. state' \in {"IDLE", "STARTED"} /\ pending' \subseteq others \cup {chain}
  BY DEF RunStep
<1>3. QED
  BY <1>1, <1>2, FieldAfterInPattern

LEMMA InitTyped == Init => TypeOK /\ PendingHasPattern
<1> SUFFICES ASSUME Init PROVE TypeOK /\ PendingHasPattern
  OBVIOUS
<1>1. /\ restart \in BOOLEAN /\ timerLost \in BOOLEAN
      /\ nullRead \in BOOLEAN /\ ~nullRead
  BY Zenon DEF Init
<1>2. /\ pattern = <<>> /\ curr = 0 /\ state = "IDLE"
      /\ pending = {} /\ starts = 0
  BY DEF Init, NoPattern
<1>3. curr \in 0 .. Len(pattern) + 1 /\ starts \in 0 .. StartBound
  BY <1>2, EmptyPattern, StartBoundAssumption
<1>4. TypeOK
  BY <1>1, <1>2, <1>3 DEF TypeOK
<1>5. QED
  BY <1>1, <1>2, <1>4 DEF PendingHasPattern

LEMMA StepTyped == TypeOK /\ [Next]_vars => TypeOK'
<1> SUFFICES ASSUME TypeOK, [Next]_vars PROVE TypeOK'
  OBVIOUS
<1>1. pattern \in Seq(Fields)
  BY PatternsAssumption, EmptyPattern DEF TypeOK
<1>2. CASE Start
  <2>1. starts' \in 1 .. StartBound /\ starts' = starts + 1
    BY <1>2, StartBoundAssumption DEF Start, TypeOK
  <2>2. restart' \in BOOLEAN
    BY <1>2, FlagsAssumption DEF Start
  <2>3. CASE StartWithoutMemory
    BY <2>1, <2>2, <2>3 DEF StartWithoutMemory, Stop, TypeOK, NoPattern
  <2>4. CASE \E p \in Patterns : StartWith(p)
    <3>1. PICK p \in Patterns : StartWith(p)
      BY <2>4
    <3>2. p \in Seq(Fields)
      BY PatternsAssumption
    <3>3. 1 \in 1 .. Len(p) + 1
      BY <3>2
    <3>4. PICK sent \in Sends :
            pattern' = p /\ RunStep(p, 1, <<>>, sent, starts', pending)
      BY <3>1 DEF StartWith
    <3>5. /\ curr' \in 1 .. Len(p) + 1
          /\ state' \in {"IDLE", "STARTED"}
          /\ pending' \subseteq pending \cup {starts'}
      BY <3>2, <3>3, <3>4, RunStepEffect
    <3>6. timerLost' \in BOOLEAN /\ nullRead' \in BOOLEAN
      BY <3>1 DEF StartWith, TypeOK
    <3>7. pending' \subseteq 1 .. starts'
      BY <2>1, <3>5 DEF TypeOK
    <3>8. curr' \in 0 .. Len(pattern') + 1
      BY <3>2, <3>4, <3>5
    <3>9. QED
      BY <2>1, <2>2, <3>4, <3>5, <3>6, <3>7, <3>8 DEF TypeOK
  <2>5. QED
    BY <1>2, <2>3, <2>4 DEF Start
<1>3. ASSUME NEW chain \in pending, HandlePatternEvent(chain) PROVE TypeOK'
  <2>1. curr \in 1 .. Len(pattern) + 1 /\ 1 \in 1 .. Len(pattern) + 1
    BY <1>1, <1>3 DEF HandlePatternEvent, TypeOK, NoPattern
  <2>2. PICK sent, resent \in Sends :
          \/ RunStep(pattern, 1, <<>>, resent, chain, pending \ {chain})
          \/ RunStep(pattern, curr, played, sent, chain, pending \ {chain})
    BY <1>3 DEF HandlePatternEvent
  <2>3. /\ curr' \in 1 .. Len(pattern) + 1
        /\ state' \in {"IDLE", "STARTED"}
        /\ pending' \subseteq (pending \ {chain}) \cup {chain}
    BY <1>1, <2>1, <2>2, RunStepEffect
  <2>4. /\ pattern' = pattern /\ restart' = restart
        /\ starts' = starts /\ nullRead' = nullRead
        /\ timerLost' \in BOOLEAN
    BY <1>3 DEF HandlePatternEvent, TypeOK
  <2>5. pending' \subseteq pending
    BY <2>3
  <2>6. curr' \in 0 .. Len(pattern') + 1
    BY <1>1, <2>3, <2>4
  <2>7. QED
    BY <2>3, <2>4, <2>5, <2>6 DEF TypeOK
<1>4. ASSUME NEW chain \in pending, HandlePatternEventNull(chain) PROVE TypeOK'
  BY <1>4 DEF HandlePatternEventNull, TypeOK
<1>5. CASE UNCHANGED vars
  BY <1>5 DEF vars, TypeOK
<1>6. QED
  BY <1>2, <1>3, <1>4, <1>5 DEF Next, Fire

LEMMA StepHasPattern ==
  ASSUME ~MallocFails \/ ~StartsOverlap, TypeOK, PendingHasPattern, [Next]_vars
  PROVE  PendingHasPattern'
<1>1. pattern \in Seq(Fields)
  BY PatternsAssumption, EmptyPattern DEF TypeOK
<1>2. CASE Start
  <2>1. CASE StartWithoutMemory
    <3>1. pending = {} /\ pending' = pending /\ nullRead' = nullRead
      BY <1>2, <2>1 DEF Start, StartWithoutMemory
    <3>2. QED
      BY <3>1 DEF PendingHasPattern
  <2>2. CASE \E p \in Patterns : StartWith(p)
    <3>1. PICK p \in Patterns : StartWith(p)
      BY <2>2
    <3>2. p \in Seq(Fields)
      BY PatternsAssumption
    <3>3. 1 \in 1 .. Len(p) + 1
      BY <3>2
    <3>4. PICK sent \in Sends : RunStep(p, 1, <<>>, sent, starts', pending)
      BY <3>1 DEF StartWith
    <3>5. curr' \in 1 .. Len(p) + 1
      BY <3>2, <3>3, <3>4, RunStepEffect
    <3>6. nullRead' = nullRead
      BY <3>1 DEF StartWith
    <3>7. QED
      BY <3>2, <3>5, <3>6 DEF PendingHasPattern, NoPattern
  <2>3. QED
    BY <1>2, <2>1, <2>2 DEF Start
<1>3. ASSUME NEW chain \in pending, HandlePatternEvent(chain)
      PROVE PendingHasPattern'
  <2>1. curr \in 1 .. Len(pattern) + 1 /\ 1 \in 1 .. Len(pattern) + 1
    BY <1>1, <1>3 DEF HandlePatternEvent, TypeOK, NoPattern
  <2>2. PICK sent, resent \in Sends :
          \/ RunStep(pattern, 1, <<>>, resent, chain, pending \ {chain})
          \/ RunStep(pattern, curr, played, sent, chain, pending \ {chain})
    BY <1>3 DEF HandlePatternEvent
  <2>3. curr' \in 1 .. Len(pattern) + 1
    BY <1>1, <2>1, <2>2, RunStepEffect
  <2>4. nullRead' = nullRead
    BY <1>3 DEF HandlePatternEvent
  <2>5. QED
    BY <1>1, <2>3, <2>4 DEF PendingHasPattern, NoPattern
<1>4. ASSUME NEW chain \in pending, HandlePatternEventNull(chain)
      PROVE PendingHasPattern'
  BY <1>4 DEF HandlePatternEventNull, PendingHasPattern
<1>5. CASE UNCHANGED vars
  BY <1>5 DEF vars, PendingHasPattern
<1>6. QED
  BY <1>2, <1>3, <1>4, <1>5 DEF Next, Fire

(* Every state is well typed: in particular the position stays inside the  *)
(* pattern and its terminator, however many chains move it.                *)
THEOREM PlayerTyped == Spec => []TypeOK
  BY InitTyped, StepTyped, PTL DEF Spec

(* A pattern timer never reads through NULL, unless a start() that ran out *)
(* of memory came while a chain was running.                               *)
THEOREM PlayerNeverReadsNull ==
  ASSUME ~MallocFails \/ ~StartsOverlap PROVE Spec => []NeverReadsNull
<1>1. TypeOK /\ PendingHasPattern /\ [Next]_vars => (TypeOK /\ PendingHasPattern)'
  BY StepTyped, StepHasPattern
<1>2. PendingHasPattern => NeverReadsNull
  BY DEF PendingHasPattern, NeverReadsNull
<1>3. QED
  BY InitTyped, <1>1, <1>2, PTL DEF Spec

-----------------------------------------------------------------------------

(* pl lists fields of p before field c, all delays, in their order.        *)
Follows(p, c, pl) ==
  /\ pl \in Seq(Nat)
  /\ \A i \in 1 .. Len(pl) :
       /\ pl[i] < c
       /\ p[pl[i]] >= 0
       /\ i > 1 => pl[i - 1] < pl[i]

PlayedFollows == Follows(pattern, curr, played)

LEMMA NothingPlayed ==
  ASSUME NEW p, NEW c PROVE Follows(p, c, <<>>)
  BY DEF Follows

(* A step plays the field at c or none, and c is then left behind.         *)
LEMMA RunStepFollows ==
  ASSUME NEW p \in Seq(Fields), NEW c \in 1 .. Len(p) + 1, NEW before,
         NEW sent, NEW chain, NEW others, Follows(p, c, before),
         RunStep(p, c, before, sent, chain, others)
  PROVE  Follows(p, curr', played')
<1>1. curr' = FieldAfter(p, c) /\ before \in Seq(Nat) /\ c \in Nat
  BY DEF RunStep, Follows
<1>2. CASE NextInt(p, c) >= 0 /\ sent
  <2>1. played' = Append(before, c)
    BY <1>2 DEF RunStep
  <2>2. c <= Len(p) /\ p[c] # Junk
    BY <1>2 DEF NextInt
  <2>3. curr' = c + 1 /\ p[c] >= 0
    BY <1>1, <1>2, <2>2 DEF FieldAfter, NextInt
  <2>4. /\ played' \in Seq(Nat)
        /\ Len(played') = Len(before) + 1
        /\ played'[Len(before) + 1] = c
        /\ \A i \in 1 .. Len(before) : played'[i] = before[i]
    BY <1>1, <2>1
  <2>5. ASSUME NEW i \in 1 .. Len(before)
        PROVE  /\ played'[i] < curr' /\ p[played'[i]] >= 0
               /\ i > 1 => played'[i - 1] < played'[i]
    <3>1. before[i] \in Nat /\ before[i] < c /\ p[before[i]] >= 0
      BY <1>1, <2>5 DEF Follows
    <3>2. i > 1 => i - 1 \in 1 .. Len(before) /\ before[i - 1] < before[i]
      BY <1>1, <2>5 DEF Follows
    <3>3. i > 1 => played'[i - 1] = before[i - 1]
      BY <2>4, <3>2
    <3>4. played'[i] = before[i]
      BY <2>4, <2>5
    <3>5. played'[i] < curr' /\ p[played'[i]] >= 0
      BY <1>1, <2>3, <3>1, <3>4
    <3>6. QED
      BY <3>2, <3>3, <3>4, <3>5
  <2>6. ASSUME NEW i, i = Len(before) + 1
        PROVE  /\ played'[i] < curr' /\ p[played'[i]] >= 0
               /\ i > 1 => played'[i - 1] < played'[i]
    <3>1. i > 1 => i - 1 \in 1 .. Len(before) /\ before[i - 1] < c
      BY <1>1, <2>6 DEF Follows
    <3>2. i > 1 => played'[i - 1] = before[i - 1]
      BY <2>4, <3>1
    <3>3. played'[i] = c /\ c < c + 1
      BY <1>1, <2>4, <2>6
    <3>4. QED
      BY <2>3, <3>1, <3>2, <3>3
  <2>7. \A i \in 1 .. Len(played') :
          i \in 1 .. Len(before) \/ i = Len(before) + 1
    BY <1>1, <2>4
  <2>8. QED
    BY <2>4, <2>5, <2>6, <2>7 DEF Follows
<1>3. CASE ~(NextInt(p, c) >= 0 /\ sent)
  <2>1. played' = before
    BY <1>3 DEF RunStep
  <2>2. curr' \in {c, c + 1}
    BY <1>1 DEF FieldAfter
  <2>3. \A i \in 1 .. Len(before) : before[i] \in Nat
    BY <1>1
  <2>4. QED
    BY <1>1, <2>1, <2>2, <2>3 DEF Follows
<1>4. QED
  BY <1>2, <1>3

(* A player that a step leaves STARTED has requested a timer.              *)
LEMMA RunStepPends ==
  ASSUME NEW p, NEW c, NEW before, NEW sent, NEW chain, NEW others,
         RunStep(p, c, before, sent, chain, others)
  PROVE  /\ state' = "STARTED" => pending' # {}
         /\ NextInt(p, c) >= 0 /\ sent => pending' # {}
  BY DEF RunStep

LEMMA StepFollows ==
  ASSUME TypeOK, PlayedFollows, StartedIsPending, [Next]_vars
  PROVE  PlayedFollows' /\ StartedIsPending'
<1>1. pattern \in Seq(Fields)
  BY PatternsAssumption, EmptyPattern DEF TypeOK
<1>2. CASE Start
  <2>1. CASE StartWithoutMemory
    <3>1. played' = <<>> /\ state' = "IDLE"
      BY <2>1 DEF StartWithoutMemory, Stop
    <3>2. QED
      BY <3>1, NothingPlayed DEF PlayedFollows, StartedIsPending
  <2>2. CASE \E p \in Patterns : StartWith(p)
    <3>1. PICK p \in Patterns : StartWith(p)
      BY <2>2
    <3>2. p \in Seq(Fields) /\ 1 \in 1 .. Len(p) + 1
      BY PatternsAssumption
    <3>3. PICK sent \in Sends :
            pattern' = p /\ RunStep(p, 1, <<>>, sent, starts', pending)
      BY <3>1 DEF StartWith
    <3>4. Follows(p, curr', played')
      BY <3>2, <3>3, NothingPlayed, RunStepFollows
    <3>5. state' = "STARTED" => pending' # {}
      BY <3>3, RunStepPends
    <3>6. QED
      BY <3>3, <3>4, <3>5 DEF PlayedFollows, StartedIsPending
  <2>3. QED
    BY <1>2, <2>1, <2>2 DEF Start
<1>3. ASSUME NEW chain \in pending, HandlePatternEvent(chain)
      PROVE  PlayedFollows' /\ StartedIsPending'
  <2>1. curr \in 1 .. Len(pattern) + 1 /\ 1 \in 1 .. Len(pattern) + 1
    BY <1>1, <1>3 DEF HandlePatternEvent, TypeOK, NoPattern
  <2>2. PICK sent, resent \in Sends :
          \/ RunStep(pattern, 1, <<>>, resent, chain, pending \ {chain})
          \/ RunStep(pattern, curr, played, sent, chain, pending \ {chain})
    BY <1>3 DEF HandlePatternEvent
  <2>3. Follows(pattern, curr', played')
    BY <1>1, <2>1, <2>2, NothingPlayed, RunStepFollows DEF PlayedFollows
  <2>4. state' = "STARTED" => pending' # {}
    BY <2>2, RunStepPends
  <2>5. pattern' = pattern
    BY <1>3 DEF HandlePatternEvent
  <2>6. QED
    BY <2>3, <2>4, <2>5 DEF PlayedFollows, StartedIsPending
<1>4. ASSUME NEW chain \in pending, HandlePatternEventNull(chain)
      PROVE  PlayedFollows' /\ StartedIsPending'
  BY <1>4 DEF HandlePatternEventNull, PlayedFollows, Follows, StartedIsPending
<1>5. CASE UNCHANGED vars
  BY <1>5 DEF vars, PlayedFollows, Follows, StartedIsPending
<1>6. QED
  BY <1>2, <1>3, <1>4, <1>5 DEF Next, Fire

LEMMA PlayedInvariant == Spec => [](TypeOK /\ PlayedFollows /\ StartedIsPending)
<1>1. Init => TypeOK /\ PlayedFollows /\ StartedIsPending
  BY InitTyped, NothingPlayed DEF Init, PlayedFollows, StartedIsPending
<1>2. TypeOK /\ PlayedFollows /\ StartedIsPending /\ [Next]_vars
      => (TypeOK /\ PlayedFollows /\ StartedIsPending)'
  BY StepTyped, StepFollows
<1>3. QED
  BY <1>1, <1>2, PTL DEF Spec

(* However many chains of timers read the pattern, and whatever allocation *)
(* or request fails, its delays are played once each and in their order.   *)
THEOREM FieldsPlayedInOrder == Spec => []StepsFollowPattern
<1>1. PlayedFollows => StepsFollowPattern
  BY DEF PlayedFollows, Follows, StepsFollowPattern
<1>2. QED
  BY PlayedInvariant, <1>1, PTL

(* A player that says STARTED always has a timer on its way.               *)
THEOREM StartedHasTimer == Spec => []StartedIsPending
  BY PlayedInvariant, PTL

(* handle_pattern_event never ends a restarting pattern that begins with a *)
(* delay, as long as timers can be requested.                              *)
THEOREM RestartNeverStops == Spec => RestartGoesOn
<1>1. ASSUME TypeOK, [Next]_vars, restart, pending # {}, ~timerLost',
             NextInt(pattern, 1) >= 0
      PROVE  pending' # {}
  <2>1. CASE Start
    <3>1. CASE StartWithoutMemory
      BY <1>1, <3>1 DEF StartWithoutMemory
    <3>2. CASE \E p \in Patterns : StartWith(p)
      BY <1>1, <3>2 DEF StartWith, RunStep
    <3>3. QED
      BY <2>1, <3>1, <3>2 DEF Start
  <2>2. ASSUME NEW chain \in pending, HandlePatternEvent(chain)
        PROVE  pending' # {}
    <3>1. PICK sent, resent \in Sends :
            /\ IF Rewinds(sent)
                 THEN RunStep(pattern, 1, <<>>, resent, chain, pending \ {chain})
                 ELSE RunStep(pattern, curr, played, sent, chain, pending \ {chain})
            /\ timerLost' = (timerLost \/ ~sent \/ ~resent)
      BY <2>2 DEF HandlePatternEvent
    <3>2. sent /\ resent
      BY <1>1, <3>1
    <3>3. CASE Rewinds(sent)
      BY <1>1, <3>1, <3>2, <3>3, RunStepPends
    <3>4. CASE ~Rewinds(sent)
      <4>1. NextInt(pattern, curr) \in Int
        <5>1. pattern \in Seq(Fields)
          BY <1>1, PatternsAssumption, EmptyPattern DEF TypeOK
        <5>2. curr \in 1 .. Len(pattern) + 1
          BY <1>1, <2>2, <5>1 DEF HandlePatternEvent, TypeOK, NoPattern
        <5>3. QED
          BY <5>1, <5>2 DEF NextInt, Fields, Negative, Junk
      <4>2. NextInt(pattern, curr) >= 0
        BY <1>1, <3>4, <4>1 DEF Rewinds
      <4>3. RunStep(pattern, curr, played, sent, chain, pending \ {chain})
        BY <3>1, <3>4
      <4>4. QED
        BY <3>2, <4>2, <4>3 DEF RunStep
    <3>5. QED
      BY <3>3, <3>4
  <2>3. ASSUME NEW chain \in pending, HandlePatternEventNull(chain)
        PROVE  pending' # {}
    BY <1>1, <2>3 DEF HandlePatternEventNull
  <2>4. CASE UNCHANGED vars
    BY <1>1, <2>4 DEF vars
  <2>5. QED
    BY <1>1, <2>1, <2>2, <2>3, <2>4 DEF Next, Fire
<1>2. QED
  BY <1>1, PlayerTyped, PTL DEF Spec, RestartGoesOn
=============================================================================
