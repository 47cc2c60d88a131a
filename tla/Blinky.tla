------------------------------- MODULE Blinky -------------------------------
(***************************************************************************)
(* The LED pattern player (blinky.cpp).  A pattern is a list of delays;    *)
(* start() plays its first step and requests a timer event, and every      *)
(* pattern timer that fires plays the next step and requests another.      *)
(* Stopping frees the pattern but cannot take back a requested timer, so a *)
(* chain of timers survives the pattern it was started for.                *)
(*                                                                         *)
(* All callers (blink_cb and the timer events) run on the event loop       *)
(* thread; timers fire in any order, which covers every choice of delays.  *)
(***************************************************************************)
EXTENDS Integers, Sequences

CONSTANTS
  Patterns,       \* the patterns the cloud writes
  Restarts,       \* the values of pattern_restart the callers pass
  StartsOverlap,  \* may start() be called while a chain is running?
  MallocFails,    \* may malloc fail?
  TimersFail,     \* may eventOS_event_send_after fail?
  StartBound      \* bound on the number of calls of start()

(* What a field of the pattern string converts to: a delay, a negative     *)
(* number, or text with a character that belongs to no number.             *)
Negative == -5
Junk == -2
Fields == Nat \cup {Negative, Junk}

ASSUME PatternsAssumption == Patterns \subseteq Seq(Fields)
ASSUME FlagsAssumption ==
  /\ Restarts \subseteq BOOLEAN
  /\ StartsOverlap \in BOOLEAN /\ MallocFails \in BOOLEAN /\ TimersFail \in BOOLEAN
ASSUME StartBoundAssumption == StartBound \in Nat

NoPattern == 0      \* NULL; fields are numbered from 1

VARIABLES
  pattern,      \* the buffer _pattern points to
  curr,         \* _curr_pattern: the field it is at, or NULL
  state,        \* _state
  restart,      \* _restart
  pending,      \* the chains (by number of their start) with a timer pending
  starts,       \* calls of start() so far
  played,       \* the fields played since start() or the last rewind
  timerLost,    \* a timer could not be requested
  nullRead      \* strtol was handed NULL; what follows is undefined

vars == <<pattern, curr, state, restart, pending, starts, played, timerLost,
          nullRead>>

TypeOK ==
  /\ pattern \in Patterns \cup {<<>>}
  /\ curr \in 0 .. Len(pattern) + 1
  /\ state \in {"IDLE", "STARTED"}
  /\ restart \in BOOLEAN
  /\ starts \in 0 .. StartBound
  /\ pending \subseteq 1 .. starts
  /\ timerLost \in BOOLEAN
  /\ nullRead \in BOOLEAN

Init ==
  /\ pattern = <<>>
  /\ curr = NoPattern
  /\ state = "IDLE"
  /\ restart = FALSE
  /\ pending = {}
  /\ starts = 0
  /\ played = <<>>
  /\ timerLost = FALSE
  /\ nullRead = FALSE

(* get_next_int: the number at field c of p, or -1 at the end and at text. *)
NextInt(p, c) == IF c > Len(p) \/ p[c] = Junk THEN -1 ELSE p[c]

(* Mutant: the pointer stays.                                              *)
FieldAfterStuck(p, c) == c

(* ... and where get_next_int leaves _curr_pattern.                        *)
FieldAfter(p, c) == IF c > Len(p) \/ p[c] = Junk THEN c ELSE c + 1

(* run_step at field c of p, for a chain: the timer, the LED, the state.   *)
(* A timer that cannot be requested ends in an assertion, which a release  *)
(* build compiles out.                                                     *)
RunStep(p, c, before, sent, chain, others) ==
  /\ curr' = FieldAfter(p, c)
  /\ IF NextInt(p, c) >= 0 /\ sent
       THEN /\ state' = "STARTED"
            /\ pending' = others \cup {chain}
            /\ played' = Append(before, c)
       ELSE /\ state' = "IDLE"
            /\ pending' = others
            /\ played' = before

Sends == IF TimersFail THEN BOOLEAN ELSE {TRUE}

(* stop(): free the pattern and forget it.                                 *)
Stop == curr' = NoPattern /\ pattern' = <<>> /\ state' = "IDLE"

(* start() whose malloc fails: the old pattern is gone, its timer is not.  *)
StartWithoutMemory ==
  /\ MallocFails
  /\ Stop
  /\ played' = <<>>
  /\ UNCHANGED <<pending, timerLost, nullRead>>

StartWith(p) ==
  \E sent \in Sends :
    /\ pattern' = p
    /\ RunStep(p, 1, <<>>, sent, starts', pending)
    /\ timerLost' = (timerLost \/ (NextInt(p, 1) >= 0 /\ ~sent))
    /\ UNCHANGED nullRead

Start ==
  /\ ~nullRead
  /\ starts < StartBound
  /\ StartsOverlap \/ pending = {}
  /\ starts' = starts + 1
  /\ restart' \in Restarts
  /\ StartWithoutMemory \/ \E p \in Patterns : StartWith(p)

(* Mutants: at the end the chain is never rewound; it is always rewound.   *)
RewindsNever(sent) == FALSE
RewindsAlways(sent) == NextInt(pattern, curr) < 0

(* Does handle_pattern_event go back to the beginning of the pattern?      *)
Rewinds(sent) == restart /\ (NextInt(pattern, curr) < 0 \/ ~sent)

(* A pattern timer fires.  When the first run_step fails, only the         *)
(* position it leaves behind could be seen, and the restart overwrites it. *)
HandlePatternEvent(chain) ==
  /\ ~nullRead
  /\ chain \in pending
  /\ curr # NoPattern
  /\ \E sent, resent \in Sends :
       /\ IF Rewinds(sent)
            THEN RunStep(pattern, 1, <<>>, resent, chain, pending \ {chain})
            ELSE RunStep(pattern, curr, played, sent, chain, pending \ {chain})
       /\ timerLost' = (timerLost \/ ~sent \/ ~resent)
  /\ UNCHANGED <<pattern, restart, starts, nullRead>>

(* A pattern timer fires after a start() that found no memory: strtol      *)
(* reads from NULL.                                                        *)
HandlePatternEventNull(chain) ==
  /\ ~nullRead
  /\ chain \in pending
  /\ curr = NoPattern
  /\ nullRead' = TRUE
  /\ UNCHANGED <<pattern, curr, state, restart, pending, starts, played,
                 timerLost>>

Fire == \E chain \in pending :
          HandlePatternEvent(chain) \/ HandlePatternEventNull(chain)

Next == Start \/ Fire

Spec == Init /\ [][Next]_vars

(* A requested timer event is delivered.                                   *)
FairSpec == Spec /\ WF_vars(Fire)

-----------------------------------------------------------------------------
(* Properties.                                                             *)

(* The pattern timer never finds a NULL pattern.                           *)
NeverReadsNull == ~nullRead

(* However many chains read the pattern, each of its fields is played at   *)
(* most once, in order, from its beginning, and only if it is a delay.     *)
StepsFollowPattern ==
  curr # NoPattern => \A i \in 1 .. Len(played) :
                   /\ played[i] < curr
                   /\ pattern[played[i]] >= 0
                   /\ i > 1 => played[i - 1] < played[i]

(* A STARTED player always has a timer that will go on with the pattern.   *)
StartedIsPending == state = "STARTED" => pending # {}

(* A pattern that begins with a delay and is to be restarted is played for *)
(* ever, unless a timer cannot be requested.                               *)
RestartGoesOn ==
  [][/\ restart /\ pending # {} /\ ~timerLost'
     /\ Len(pattern) > 0 /\ NextInt(pattern, 1) >= 0
     => pending' # {}]_vars

(* When no pattern is to be restarted, playing comes to an end, whatever   *)
(* the text holds and however many chains are reading it.                  *)
PatternEnds ==
  (<>[]~restart) => []<>(pending = {} \/ nullRead)
=============================================================================
