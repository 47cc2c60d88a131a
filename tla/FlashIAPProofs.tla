--------------------------- MODULE FlashIAPProofs ---------------------------
(***************************************************************************)
(* FlashIAP, for every chip and every layout of its sectors, any number of *)
(* calls and of failing requests.                                          *)
(***************************************************************************)
EXTENDS FlashIAP, TLAPS

Contents == Garbage .. N + 1

(* A call works forwards from its address.                                 *)
PosOK ==
  /\ active => first <= pos
  /\ active /\ call = "program" /\ port # "rx65n" => pos <= End
  /\ active /\ call = "program" /\ port = "lpc" => pos \in {first, End}

(* OnlyRange, at any time of a call.                                       *)
OutsideKept ==
  /\ call = "erase" => SectorAligned /\ port # "lpc"
  /\ call = "program" => ~(port = "rx65n" /\ size = 0)
  => \A p \in Pages \ Span : cell[p] = before[p]

(* What an erase has passed is erased, up to a boundary.                   *)
Untroubled ==
  /\ call = "erase" /\ Boundary(port, first)
  /\ port = "rx65n" => ~troubled /\ \A p \in Span : SectorSize[port][p] = SectorSize[port][first]
SectorsErased ==
  active /\ Untroubled /\ status =>
    /\ Boundary(port, pos)
    /\ \A p \in first .. pos - 1 : cell[p] = Erased

(* Without a failure of the controller only a refusal ends an erase.       *)
RefusalEnds == active /\ call = "erase" /\ ~status => troubled \/ pos >= End

(* What a program has passed holds its data, the rest is as it was.        *)
Programmable ==
  /\ call = "program" /\ port # "rx65n"
  /\ \A p \in Span : p \in Pages /\ before[p] = Erased
  /\ ~(port = "lpc" /\ source = "flash" /\ size > 1)
PagesWritten ==
  active /\ Programmable /\ status =>
    /\ \A p \in first .. pos - 1 : cell[p] = Buffered(p)
    /\ \A p \in Span : p >= pos => cell[p] = before[p]

TroubleKnown ==
  troubled /\ port # "rx65n" => IF active THEN ~status ELSE ~success

FlashInv ==
  /\ TypeOK
  /\ PosOK /\ OutsideKept /\ SectorsErased /\ RefusalEnds /\ PagesWritten
  /\ EraseSucceeds /\ ProgramWritesBuffer /\ TroubleKnown

-----------------------------------------------------------------------------

(* A sector that begins inside a range between two boundaries ends there.  *)
LEMMA SectorInside ==
  ASSUME NEW d \in Ports, NEW a \in 0 .. N, NEW b \in 0 .. N + 1, NEW p \in Pages,
         Boundary(d, a), Boundary(d, b), a <= p, p < b
  PROVE  /\ a <= SectorStart[d][p]
         /\ SectorStart[d][p] + SectorSize[d][p] <= b
<1> DEFINE start == SectorStart[d][p]
           end   == start + SectorSize[d][p]
<1>1. /\ start \in Pages /\ SectorSize[d][p] \in 1 .. N /\ N \in Nat
      /\ start <= p /\ p < end /\ end <= N
      /\ \A q \in start .. end - 1 : SectorStart[d][q] = start
  BY LayoutAssumption
<1> HIDE DEF start, end
<1>2. a <= start
  <2> SUFFICES ASSUME start < a PROVE FALSE
    BY <1>1 DEF Pages
  <2>1. a \in start .. end - 1
    BY <1>1 DEF Pages, end
  <2>2. a \in Pages /\ SectorStart[d][a] = a
    BY <1>1, LayoutAssumption DEF Boundary, Pages
  <2> QED
    BY <1>1, <2>1, <2>2
<1>3. end <= b
  <2> SUFFICES ASSUME b < end PROVE FALSE
    BY <1>1 DEF Pages, end
  <2>1. b \in start .. end - 1
    BY <1>1 DEF Pages, end
  <2>2. b \in Pages /\ SectorStart[d][b] = b
    BY <1>1 DEF Boundary, Pages, end
  <2>3. b = start
    BY <1>1, <2>1, <2>2
  <2> QED
    BY <1>1, <2>3 DEF Pages
<1> QED
  BY <1>2, <1>3 DEF start, end

(* A sector that begins at a boundary is followed by a boundary.           *)
LEMMA SectorAfter ==
  ASSUME NEW d \in Ports, NEW p \in Pages, Boundary(d, p)
  PROVE  /\ SectorStart[d][p] = p
         /\ SectorSize[d][p] \in 1 .. N
         /\ Boundary(d, p + SectorSize[d][p])
         /\ p + SectorSize[d][p] <= N
<1>1. SectorStart[d][p] = p
  BY LayoutAssumption DEF Boundary, Pages
<1>2. SectorSize[d][p] \in 1 .. N
  BY LayoutAssumption
<1>3. /\ SectorStart[d][p] + SectorSize[d][p] <= N
      /\ Boundary(d, SectorStart[d][p] + SectorSize[d][p])
  BY LayoutAssumption
<1> QED
  BY <1>1, <1>2, <1>3

-----------------------------------------------------------------------------
(* The types.                                                              *)

(* TypeOK in three parts.                                                  *)
FlagsTyped ==
  /\ active \in BOOLEAN /\ status \in BOOLEAN /\ success \in BOOLEAN /\ troubled \in BOOLEAN

NumbersTyped ==
  /\ port \in Ports
  /\ call \in {"none", "erase", "program"}
  /\ source \in {"ram", "flash"}
  /\ first \in 0 .. N
  /\ size \in 0 .. N + 1
  /\ first + size <= N + 1
  /\ pos \in Nat
  /\ calls \in 0 .. CallBound
  /\ failures \in 0 .. FailureBound
  /\ active => call # "none"

CellsTyped == cell \in [Pages -> Contents] /\ before \in [Pages -> Contents]

LEMMA Typed == /\ TypeOK <=> FlagsTyped /\ NumbersTyped /\ CellsTyped
               /\ TypeOK' <=> FlagsTyped' /\ NumbersTyped' /\ CellsTyped'
BY DEF TypeOK, FlagsTyped, NumbersTyped, CellsTyped, Contents, End

LEMMA InitTyped == Init => TypeOK /\ PosOK
<1> SUFFICES ASSUME Init PROVE FlagsTyped /\ NumbersTyped /\ CellsTyped /\ PosOK
  BY Typed
<1>1. N \in Nat \ {0} /\ CallBound \in Nat /\ FailureBound \in Nat
  BY LayoutAssumption
<1>2. NumbersTyped /\ PosOK
  BY <1>1 DEF Init, NumbersTyped, PosOK
<1>f. FlagsTyped
  BY DEF Init, FlagsTyped
<1>3. CellsTyped
  BY <1>1 DEF Init, CellsTyped, Contents, Garbage, Old, Erased
<1> QED
  BY <1>2, <1>3, <1>f

LEMMA StepTyped == TypeOK /\ PosOK /\ [Next]_vars => TypeOK' /\ PosOK'
<1> SUFFICES ASSUME FlagsTyped, NumbersTyped, CellsTyped, PosOK, [Next]_vars
             PROVE  FlagsTyped' /\ NumbersTyped' /\ CellsTyped' /\ PosOK'
  BY Typed
<1>a. N \in Nat \ {0} /\ CallBound \in Nat /\ FailureBound \in Nat
  BY LayoutAssumption
<1>b. \A d \in Ports, p \in Pages : SectorSize[d][p] \in 1 .. N
  BY LayoutAssumption
<1>c. ASSUME Erases, pos < N PROVE NextSector \in Nat /\ pos <= NextSector
  <2>1. pos \in Pages /\ first \in Pages
    BY <1>a, <1>c DEF Erases, NumbersTyped, PosOK, Pages
  <2> QED
    BY <2>1, <1>a, <1>b DEF NextSector, NumbersTyped
<1>d. /\ Garbage \in Contents /\ Erased \in Contents
      /\ \A n \in 0 .. N + 1 : n \in Contents
  BY <1>a DEF Garbage, Erased, Contents
<1>1. ASSUME NEW a \in 0 .. N, NEW n \in 0 .. N + 1, a + n <= N + 1, Erase(a, n)
      PROVE  FlagsTyped' /\ NumbersTyped' /\ CellsTyped' /\ PosOK'
  <2>1. active' \in BOOLEAN
    BY <1>1 DEF Erase, EraseAccepted
  <2>2. NumbersTyped'
    BY <1>1, <1>a, <2>1 DEF Erase, Call, NumbersTyped
  <2>f. FlagsTyped'
    BY <1>1, <2>1 DEF Erase, Call, FlagsTyped
  <2>3. PosOK'
    BY <1>1, <1>a DEF Erase, Call, PosOK
  <2> QED
    BY <1>1, <2>2, <2>3, <2>f DEF Erase, Call, CellsTyped
<1>2. ASSUME NEW a \in 0 .. N, NEW n \in 0 .. N + 1, a + n <= N + 1,
             NEW s \in {"ram", "flash"}, Program(a, n, s)
      PROVE  FlagsTyped' /\ NumbersTyped' /\ CellsTyped' /\ PosOK'
  <2>1. active' \in BOOLEAN
    BY <1>2 DEF Program, ProgramAccepted
  <2>2. NumbersTyped'
    BY <1>2, <1>a, <2>1 DEF Program, Call, NumbersTyped
  <2>f. FlagsTyped'
    BY <1>2, <2>1 DEF Program, Call, FlagsTyped
  <2>3. PosOK'
    BY <1>2, <1>a DEF Program, Call, PosOK, End
  <2> QED
    BY <1>2, <2>2, <2>3, <2>f DEF Program, Call, CellsTyped
<1>3. CASE EraseSector
  <2>1. NumbersTyped' /\ PosOK'
    BY <1>3, <1>a, <1>c DEF EraseSector, Erases, args, NumbersTyped, PosOK
  <2>f. FlagsTyped'
    BY <1>3 DEF EraseSector, args, FlagsTyped
  <2> QED
    BY <1>3, <1>d, <2>1, <2>f DEF EraseSector, args, CellsTyped
<1>4. CASE EraseRefused
  <2>1. NumbersTyped' /\ PosOK'
    BY <1>4, <1>a DEF EraseRefused, Erases, args, NumbersTyped, PosOK, End
  <2>f. FlagsTyped'
    BY <1>4 DEF EraseRefused, args, FlagsTyped
  <2> QED
    BY <1>4, <2>1, <2>f DEF EraseRefused, args, CellsTyped
<1>5. CASE EraseFails
  <2>1. NumbersTyped' /\ PosOK'
    BY <1>5, <1>a, <1>c DEF EraseFails, Erases, args, NumbersTyped, PosOK
  <2>f. FlagsTyped'
    BY <1>5 DEF EraseFails, args, FlagsTyped
  <2>2. cell' \in [Pages -> Contents]
    BY <1>5, <1>d DEF EraseFails, CellsTyped
  <2> QED
    BY <1>5, <2>1, <2>2, <2>f DEF EraseFails, args, CellsTyped
<1>6. CASE ProgramPage
  <2>1. \A p \in Written \cap Pages : Given(p) \in Contents
    <3> SUFFICES ASSUME NEW p \in Written, p \in Pages PROVE Given(p) \in Contents
      OBVIOUS
    <3>1. first <= p /\ p < N /\ p \in Nat /\ first \in Nat
      BY <1>6, <1>a DEF ProgramPage, Programs, Written, Span, Pages, NumbersTyped, PosOK
    <3>2. Buffered(p) \in Contents
      BY <1>a, <1>d, <3>1 DEF Buffered
    <3> QED
      BY <1>d, <3>2 DEF Given
  <2>2. cell' \in [Pages -> Contents]
    BY <1>6, <1>d, <2>1 DEF ProgramPage, CellsTyped
  <2>3. NumbersTyped' /\ PosOK'
    BY <1>6, <1>a DEF ProgramPage, Programs, NextPage, Cycles, End, args, NumbersTyped, PosOK
  <2>f. FlagsTyped'
    BY <1>6 DEF ProgramPage, args, FlagsTyped
  <2> QED
    BY <1>6, <2>2, <2>3, <2>f DEF ProgramPage, args, CellsTyped
<1>7. CASE ProgramPastEnd
  <2>1. NumbersTyped' /\ PosOK'
    BY <1>7, <1>a DEF ProgramPastEnd, Programs, NextPage, Cycles, End, args, NumbersTyped, PosOK
  <2>f. FlagsTyped'
    BY <1>7 DEF ProgramPastEnd, args, FlagsTyped
  <2> QED
    BY <1>7, <2>1, <2>f DEF ProgramPastEnd, args, CellsTyped
<1>8. CASE ProgramFails
  <2>1. NumbersTyped' /\ PosOK'
    BY <1>8, <1>a DEF ProgramFails, Programs, NextPage, Cycles, End, args, NumbersTyped, PosOK
  <2>f. FlagsTyped'
    BY <1>8 DEF ProgramFails, args, FlagsTyped
  <2>2. cell' \in [Pages -> Contents]
    BY <1>8, <1>d DEF ProgramFails, CellsTyped
  <2> QED
    BY <1>8, <2>1, <2>2, <2>f DEF ProgramFails, args, CellsTyped
<1>9. CASE Return
  <2>1. success' \in BOOLEAN
    BY <1>9 DEF Return
  <2>2. NumbersTyped' /\ PosOK'
    BY <1>9, <1>a, <2>1 DEF Return, args, NumbersTyped, PosOK
  <2>f. FlagsTyped'
    BY <1>9, <2>1 DEF Return, args, FlagsTyped
  <2> QED
    BY <1>9, <2>2, <2>f DEF Return, args, CellsTyped
<1>10. CASE UNCHANGED vars
  BY <1>10 DEF vars, FlagsTyped, NumbersTyped, CellsTyped, PosOK, End
<1> QED
  BY <1>1, <1>2, <1>3, <1>4, <1>5, <1>6, <1>7, <1>8, <1>9, <1>10 DEF Next, Step

-----------------------------------------------------------------------------
(* What is outside the range of a call.                                    *)

LEMMA StepOutside ==
  TypeOK /\ PosOK /\ OutsideKept /\ [Next]_vars => OutsideKept'
<1> SUFFICES ASSUME FlagsTyped, NumbersTyped, CellsTyped, PosOK, OutsideKept, [Next]_vars
             PROVE  OutsideKept'
  BY Typed
<1>a. N \in Nat \ {0}
  BY LayoutAssumption
<1>1. ASSUME NEW c, NEW a, NEW n, NEW s, Call(c, a, n, s) PROVE OutsideKept'
  BY <1>1 DEF Call, OutsideKept
<1>2. ASSUME Erases, pos < N, SectorAligned, port # "lpc" PROVE Targets \subseteq Span
  <2>1. /\ port \in Ports /\ first \in 0 .. N /\ End \in 0 .. N + 1 /\ pos \in Pages
        /\ Boundary(port, first) /\ Boundary(port, End) /\ first <= pos /\ pos < End
    BY <1>2, <1>a DEF Erases, SectorAligned, NumbersTyped, PosOK, Pages, End
  <2>2. /\ first <= SectorStart[port][pos]
        /\ SectorStart[port][pos] + SectorSize[port][pos] <= End
    BY <2>1, SectorInside
  <2>3. SectorStart[port][pos] \in Pages /\ SectorSize[port][pos] \in 1 .. N
    BY <2>1, LayoutAssumption
  <2> QED
    BY <1>2, <1>a, <2>1, <2>2, <2>3 DEF Targets, Sector, Span, Pages
<1>3. ASSUME Programs, ~(port = "rx65n" /\ size = 0) PROVE Written \subseteq Span
  BY <1>3 DEF Programs, Cycles, Written, Span, End, NumbersTyped, PosOK
<1>4. CASE EraseSector
  BY <1>2, <1>4 DEF EraseSector, Erases, args, OutsideKept, SectorAligned, Span, End
<1>5. CASE EraseFails
  <2> SUFFICES ASSUME SectorAligned, port # "lpc" PROVE \A p \in Pages \ Span : cell'[p] = before[p]
    BY <1>5 DEF EraseFails, Erases, args, OutsideKept, SectorAligned, Span, End
  <2>1. Targets \subseteq Span
    BY <1>2, <1>5 DEF EraseFails
  <2>2. \A p \in Pages \ Targets : cell'[p] = cell[p]
    BY <1>5 DEF EraseFails, CellsTyped
  <2> QED
    BY <1>5, <2>1, <2>2 DEF EraseFails, Erases, OutsideKept
<1>6. CASE ProgramPage
  <2>1. ~(port = "rx65n" /\ size = 0) => Written \subseteq Span
    BY <1>3, <1>6 DEF ProgramPage
  <2> QED
    BY <1>6, <2>1 DEF ProgramPage, Programs, args, OutsideKept, Span, End
<1>7. CASE ProgramFails
  <2>1. ~(port = "rx65n" /\ size = 0) => Written \subseteq Span
    BY <1>3, <1>7 DEF ProgramFails
  <2>2. \A p \in Pages \ Written : cell'[p] = cell[p]
    BY <1>7 DEF ProgramFails, CellsTyped
  <2> QED
    BY <1>7, <2>1, <2>2 DEF ProgramFails, Programs, args, OutsideKept, Span, End
<1>8. CASE EraseRefused \/ ProgramPastEnd \/ Return \/ UNCHANGED vars
  BY <1>8 DEF EraseRefused, ProgramPastEnd, Return, vars, args, OutsideKept, SectorAligned, Span, End
<1> QED
  BY <1>1, <1>4, <1>5, <1>6, <1>7, <1>8 DEF Next, Step, Erase, Program

-----------------------------------------------------------------------------
(* What an erase has passed.                                               *)

LEMMA StepErased ==
  TypeOK /\ PosOK /\ RefusalEnds /\ SectorsErased /\ [Next]_vars => SectorsErased'
<1> SUFFICES ASSUME FlagsTyped, NumbersTyped, CellsTyped, PosOK, RefusalEnds, SectorsErased,
                    [Next]_vars, active', Untroubled', status'
             PROVE  /\ Boundary(port', pos')
                    /\ \A p \in first' .. pos' - 1 : cell'[p] = Erased
  BY Typed DEF SectorsErased
<1>a. N \in Nat \ {0}
  BY LayoutAssumption
<1>1. ASSUME NEW c, NEW a \in 0 .. N, NEW n, NEW s, Call(c, a, n, s)
      PROVE  Boundary(port', pos') /\ \A p \in first' .. pos' - 1 : cell'[p] = Erased
  BY <1>1, <1>a DEF Call, Untroubled
<1>2. CASE EraseSector
  <2>1. Untroubled /\ active /\ pos < End /\ pos < N /\ call = "erase"
    BY <1>2 DEF EraseSector, Erases, args, Untroubled, Span, End
  <2>2. status
    BY <1>2, <2>1 DEF EraseSector, Erases, RefusalEnds, Untroubled, NumbersTyped, End
  <2>3. Boundary(port, pos) /\ \A p \in first .. pos - 1 : cell[p] = Erased
    BY <2>1, <2>2 DEF SectorsErased
  <2>4. port \in Ports /\ pos \in Pages /\ pos \in Span /\ first \in Nat /\ first <= pos
    BY <1>a, <2>1 DEF NumbersTyped, PosOK, Pages, Span, End
  <2>5. /\ SectorStart[port][pos] = pos
        /\ SectorSize[port][pos] \in 1 .. N
        /\ Boundary(port, pos + SectorSize[port][pos])
    BY <2>3, <2>4, SectorAfter
  <2>6. pos' = pos + SectorSize[port][pos]
    BY <1>2, <2>1, <2>4 DEF EraseSector, NextSector, Untroubled
  <2>7. pos .. pos' - 1 \subseteq Targets
    <3>1. port = "lpc" => SectorSize[port][pos] = 1
      BY <2>4, LayoutAssumption
    <3> QED
      BY <1>a, <2>4, <2>5, <2>6, <3>1 DEF Targets, Sector, Pages
  <2>8. \A p \in Targets : p \in Pages /\ cell'[p] = Erased
    BY <1>2 DEF EraseSector
  <2>9. \A p \in Pages : cell[p] = Erased => cell'[p] = Erased
    BY <1>2 DEF EraseSector
  <2>10. \A p \in first .. pos' - 1 : cell'[p] = Erased
    <3> SUFFICES ASSUME NEW p \in first .. pos' - 1 PROVE cell'[p] = Erased
      OBVIOUS
    <3>1. CASE p < pos
      <4>1. p \in first .. pos - 1 /\ p \in Pages
        BY <3>1, <2>4, <1>a DEF Pages
      <4> QED
        BY <4>1, <2>3, <2>9
    <3>2. CASE pos <= p
      <4>1. p \in pos .. pos' - 1
        BY <3>2, <2>4 DEF Pages
      <4> QED
        BY <4>1, <2>7, <2>8
    <3> QED
      BY <3>1, <3>2, <2>4 DEF Pages
  <2> QED
    BY <1>2, <2>5, <2>6, <2>10 DEF EraseSector, args
<1>3. CASE EraseRefused \/ EraseFails
  BY <1>3 DEF EraseRefused, EraseFails
<1>4. CASE ProgramPage \/ ProgramPastEnd \/ ProgramFails
  BY <1>4 DEF ProgramPage, ProgramPastEnd, ProgramFails, Programs, args, Untroubled
<1>5. CASE Return
  BY <1>5 DEF Return
<1>6. CASE UNCHANGED vars
  BY <1>6 DEF vars, SectorsErased, Untroubled, Span, End
<1> QED
  BY <1>1, <1>2, <1>3, <1>4, <1>5, <1>6 DEF Next, Step, Erase, Program

LEMMA StepRefusal ==
  TypeOK /\ PosOK /\ RefusalEnds /\ [Next]_vars => RefusalEnds'
<1> SUFFICES ASSUME FlagsTyped, NumbersTyped, PosOK, RefusalEnds, [Next]_vars,
                    active', call' = "erase", ~status'
             PROVE  troubled' \/ pos' >= End'
  BY Typed DEF RefusalEnds
<1>1. ASSUME NEW c, NEW a, NEW n, NEW s, Call(c, a, n, s) PROVE FALSE
  BY <1>1 DEF Call
<1>2. CASE EraseSector \/ EraseFails
  BY <1>2 DEF EraseSector, EraseFails
<1>3. CASE EraseRefused
  BY <1>3 DEF EraseRefused, args, NumbersTyped, End
<1>4. CASE ProgramPage \/ ProgramPastEnd \/ ProgramFails
  BY <1>4 DEF ProgramPage, ProgramPastEnd, ProgramFails, Programs, args
<1>5. CASE Return
  BY <1>5 DEF Return
<1>6. CASE UNCHANGED vars
  BY <1>6 DEF vars, RefusalEnds, End
<1> QED
  BY <1>1, <1>2, <1>3, <1>4, <1>5, <1>6 DEF Next, Step, Erase, Program

-----------------------------------------------------------------------------
(* What a program has passed.                                              *)

LEMMA StepWritten ==
  TypeOK /\ PosOK /\ PagesWritten /\ [Next]_vars => PagesWritten'
<1> SUFFICES ASSUME FlagsTyped, NumbersTyped, CellsTyped, PosOK, PagesWritten,
                    [Next]_vars, active', Programmable', status'
             PROVE  /\ \A p \in first' .. pos' - 1 : cell'[p] = Buffered(p)'
                    /\ \A p \in Span' : p >= pos' => cell'[p] = before'[p]
  BY Typed DEF PagesWritten
<1>a. N \in Nat \ {0}
  BY LayoutAssumption
<1> DEFINE Goal == /\ \A p \in first' .. pos' - 1 : cell'[p] = Buffered(p)'
                   /\ \A p \in Span' : p >= pos' => cell'[p] = before'[p]
<1>1. ASSUME NEW c, NEW a \in 0 .. N, NEW n, NEW s, Call(c, a, n, s) PROVE Goal
  BY <1>1, <1>a DEF Call
<1>2. CASE ProgramPage
  <2>1. Programmable /\ active /\ status /\ pos < End /\ port # "rx65n"
    BY <1>2 DEF ProgramPage, Programs, Cycles, args, Programmable, Span, End, Buffered
  <2>2. /\ first \in Nat /\ pos \in Nat /\ size \in Nat /\ End = first + size
        /\ first <= pos /\ pos <= End
        /\ port = "lpc" => pos = first
    BY <2>1 DEF NumbersTyped, PosOK, End, Programmable
  <2>3. /\ \A p \in first .. pos - 1 : cell[p] = Buffered(p)
        /\ \A p \in Span : p \in Pages /\ (p >= pos => cell[p] = Erased)
    BY <2>1 DEF PagesWritten, Programmable
  <2>4. /\ first' = first /\ Span' = Span /\ before' = before
        /\ \A p \in Pages : Buffered(p)' = Buffered(p)
    BY <1>2 DEF ProgramPage, args, Span, End, Buffered
  <2>5. Written \subseteq Span /\ \A p \in Written : p >= pos
    <3>1. CASE port = "lpc"
      BY <2>2, <3>1 DEF Written, Span, End
    <3>2. CASE port # "lpc"
      BY <2>1, <2>2, <3>2 DEF Written, Span, End
    <3> QED
      BY <3>1, <3>2
  <2>6. \A p \in Written : Given(p) = Buffered(p)
    BY <2>1, <2>2 DEF Written, Given, Programmable, Span, End
  <2>7. \A p \in Written : cell'[p] = Buffered(p)
    BY <1>2, <2>3, <2>5, <2>6 DEF ProgramPage
  <2>8. \A p \in Pages \ Written : cell'[p] = cell[p]
    BY <1>2 DEF ProgramPage
  <2>9. /\ first .. pos' - 1 = (first .. pos - 1) \cup Written
        /\ \A p \in Span : p >= pos' => p \notin Written /\ p >= pos
    <3>1. CASE port = "lpc"
      <4>1. pos' = End /\ Written = first .. End - 1 /\ pos = first
        BY <1>2, <2>2, <3>1 DEF ProgramPage, NextPage, Written, Span
      <4> QED
        BY <4>1, <2>1, <2>2 DEF Span, End
    <3>2. CASE port # "lpc"
      <4>1. pos' = pos + 1 /\ Written = {pos}
        BY <1>2, <3>2 DEF ProgramPage, NextPage, Written
      <4> QED
        BY <4>1, <2>1, <2>2 DEF Span, End
    <3> QED
      BY <3>1, <3>2
  <2>10. (first .. pos - 1) \cap Written = {} /\ first .. pos - 1 \subseteq Pages
    BY <2>1, <2>2, <2>3, <2>5 DEF Span
  <2>11. \A p \in first .. pos' - 1 : cell'[p] = Buffered(p)
    BY <2>3, <2>7, <2>8, <2>9, <2>10
  <2>12. \A p \in Span : p >= pos' => cell'[p] = before[p]
    BY <2>1, <2>3, <2>8, <2>9 DEF PagesWritten
  <2>13. first .. pos' - 1 \subseteq Pages
    BY <2>3, <2>5, <2>9, <2>10
  <2> QED
    BY <2>4, <2>11, <2>12, <2>13
<1>3. CASE ProgramPastEnd
  <2>1. Programmable /\ pos < End /\ pos >= N
    BY <1>3 DEF ProgramPastEnd, Programs, Cycles, args, Programmable, Span, End
  <2>2. pos \in Span
    BY <1>3, <2>1 DEF ProgramPastEnd, Programs, NumbersTyped, PosOK, Span, End
  <2> QED
    BY <1>a, <2>1, <2>2 DEF Programmable, Pages
<1>4. CASE ProgramFails \/ EraseRefused \/ EraseFails \/ Return
  BY <1>4 DEF ProgramFails, EraseRefused, EraseFails, Return
<1>5. CASE EraseSector
  BY <1>5 DEF EraseSector, Erases, args, Programmable
<1>6. CASE UNCHANGED vars
  BY <1>6 DEF vars, PagesWritten, Programmable, Span, End, Buffered
<1> QED
  BY <1>1, <1>2, <1>3, <1>4, <1>5, <1>6 DEF Next, Step, Erase, Program

-----------------------------------------------------------------------------
(* What a call that returned success has done.                             *)

(* A step either runs a call, or leaves an idle driver alone.              *)
LEMMA StepActive ==
  TypeOK /\ [Next]_vars =>
    \/ Return
    \/ active /\ active'
    \/ ~success' /\ ~troubled'
    \/ ~active /\ UNCHANGED vars
<1> SUFFICES ASSUME FlagsTyped, [Next]_vars
             PROVE  Return \/ (active /\ active') \/ (~success' /\ ~troubled') \/ (~active /\ UNCHANGED vars)
  BY Typed
<1>1. ASSUME NEW c, NEW a, NEW n, NEW s, Call(c, a, n, s) PROVE ~success' /\ ~troubled'
  BY <1>1 DEF Call
<1>2. EraseSector \/ EraseRefused \/ EraseFails => active /\ active'
  BY DEF EraseSector, EraseRefused, EraseFails, Erases
<1>3. ProgramPage \/ ProgramPastEnd \/ ProgramFails => active /\ active'
  <2>1. ProgramPage => active /\ active'
    BY DEF ProgramPage, Programs, args
  <2>2. ProgramPastEnd => active /\ active'
    BY DEF ProgramPastEnd, Programs, args
  <2>3. ProgramFails => active /\ active'
    BY DEF ProgramFails, Programs, args
  <2> QED
    BY <2>1, <2>2, <2>3
<1>4. UNCHANGED vars => (active /\ active') \/ (~active /\ UNCHANGED vars)
  BY DEF vars
<1> QED
  BY <1>1, <1>2, <1>3, <1>4 DEF Next, Step, Erase, Program

LEMMA StepEraseSucceeds ==
  TypeOK /\ PosOK /\ SectorsErased /\ EraseSucceeds /\ [Next]_vars => EraseSucceeds'
<1> SUFFICES ASSUME TypeOK, FlagsTyped, NumbersTyped, PosOK, SectorsErased, EraseSucceeds, [Next]_vars,
                    Succeeded("erase")', Untroubled'
             PROVE  \A p \in Span' : cell'[p] = Erased
  BY Typed DEF EraseSucceeds, Untroubled, Succeeded, Finished
<1>1. CASE Return
  <2>1. active /\ status /\ Untroubled
    BY <1>1 DEF Return, args, Succeeded, Finished, Untroubled, Span, End
  <2>2. pos >= End
    BY <1>1, <2>1 DEF Return, Erases, Untroubled, NumbersTyped, End
  <2>3. \A p \in first .. pos - 1 : cell[p] = Erased
    BY <2>1 DEF SectorsErased
  <2>4. \A p \in Span : cell[p] = Erased
    BY <2>2, <2>3 DEF Span, End, NumbersTyped
  <2> QED
    BY <1>1, <2>4 DEF Return, args, Span, End
<1>2. CASE ~active /\ UNCHANGED vars
  BY <1>2 DEF vars, EraseSucceeds, Untroubled, Succeeded, Finished, Span, End
<1> QED
  <2>1. ~active' /\ success'
    BY DEF Succeeded, Finished
  <2> QED
    BY <1>1, <1>2, <2>1, StepActive

LEMMA StepProgramWrites ==
  TypeOK /\ PosOK /\ PagesWritten /\ ProgramWritesBuffer /\ [Next]_vars => ProgramWritesBuffer'
<1> SUFFICES ASSUME TypeOK, FlagsTyped, NumbersTyped, PosOK, PagesWritten, ProgramWritesBuffer, [Next]_vars,
                    Succeeded("program")', port' = "rx65n" \/ Programmable'
             PROVE  \A p \in Span' : cell'[p] = Buffered(p)'
  BY Typed DEF ProgramWritesBuffer, Programmable, Succeeded, Finished
<1>1. CASE Return
  <2>1. active /\ call = "program" /\ (port = "rx65n" \/ Programmable) /\ status /\ Verified
    BY <1>1 DEF Return, args, Succeeded, Finished, Programmable, Span, End
  <2>2. \A p \in Span : cell[p] = Buffered(p)
    <3>1. CASE port = "rx65n"
      BY <2>1, <3>1 DEF Verified
    <3>2. CASE port # "rx65n"
      <4>1. pos >= End
        BY <1>1, <2>1, <3>2 DEF Return, Programs, Cycles, NumbersTyped, End
      <4>2. \A p \in first .. pos - 1 : cell[p] = Buffered(p)
        BY <2>1, <3>2 DEF PagesWritten
      <4> QED
        BY <4>1, <4>2 DEF Span, End, NumbersTyped
    <3> QED
      BY <3>1, <3>2
  <2> QED
    BY <1>1, <2>2 DEF Return, args, Span, End, Buffered
<1>2. CASE ~active /\ UNCHANGED vars
  BY <1>2 DEF vars, ProgramWritesBuffer, Programmable, Succeeded, Finished, Span, End, Buffered
<1> QED
  <2>1. ~active' /\ success'
    BY DEF Succeeded, Finished
  <2> QED
    BY <1>1, <1>2, <2>1, StepActive

LEMMA StepTrouble ==
  TypeOK /\ TroubleKnown /\ [Next]_vars => TroubleKnown'
<1> SUFFICES ASSUME FlagsTyped, TroubleKnown, [Next]_vars, troubled', port' # "rx65n"
             PROVE  IF active' THEN ~status' ELSE ~success'
  BY Typed DEF TroubleKnown
<1>1. CASE EraseSector \/ ProgramPage \/ ProgramPastEnd
  BY <1>1 DEF EraseSector, ProgramPage, ProgramPastEnd, Erases, Programs, args, TroubleKnown
<1>2. CASE EraseRefused \/ EraseFails \/ ProgramFails
  <2>1. ~status'
    BY <1>2 DEF EraseRefused, EraseFails, ProgramFails
  <2>2. EraseRefused => active'
    BY DEF EraseRefused, Erases, args
  <2>3. EraseFails => active'
    BY DEF EraseFails, Erases, args
  <2>4. ProgramFails => active'
    BY DEF ProgramFails, Programs, args
  <2> QED
    BY <1>2, <2>1, <2>2, <2>3, <2>4
<1>3. CASE Return
  BY <1>3 DEF Return, args, TroubleKnown
<1>4. ASSUME NEW c, NEW a, NEW n, NEW s, Call(c, a, n, s) PROVE FALSE
  BY <1>4 DEF Call
<1>5. CASE UNCHANGED vars
  BY <1>5 DEF vars, TroubleKnown
<1> QED
  BY <1>1, <1>2, <1>3, <1>4, <1>5 DEF Next, Step, Erase, Program

-----------------------------------------------------------------------------

LEMMA InitFlash == Init => FlashInv
<1> SUFFICES ASSUME Init PROVE FlashInv
  OBVIOUS
<1>1. TypeOK /\ PosOK
  BY InitTyped
<1>2. OutsideKept /\ SectorsErased /\ RefusalEnds /\ PagesWritten /\ TroubleKnown
  BY DEF Init, OutsideKept, SectorsErased, RefusalEnds, PagesWritten, TroubleKnown
<1>3. EraseSucceeds /\ ProgramWritesBuffer
  BY DEF Init, EraseSucceeds, ProgramWritesBuffer, Succeeded
<1> QED
  BY <1>1, <1>2, <1>3 DEF FlashInv

LEMMA StepFlash == FlashInv /\ [Next]_vars => FlashInv'
BY StepTyped, StepOutside, StepErased, StepRefusal, StepWritten, StepEraseSucceeds,
   StepProgramWrites, StepTrouble DEF FlashInv

LEMMA FlashInvariant == Spec => []FlashInv
BY InitFlash, StepFlash, PTL DEF Spec

(* The position of a driver and the contents of the flash stay well formed *)
(* on every chip.                                                          *)
THEOREM FlashTyped == Spec => []TypeOK
<1>1. FlashInv => TypeOK
  BY DEF FlashInv
<1> QED
  BY <1>1, FlashInvariant, PTL

(* An erase from a boundary that returns success has erased its range, on  *)
(* every layout of sectors; RX65N-CK promises it with the two exceptions   *)
(* that EraseSucceeds names.                                               *)
THEOREM ErasesWhatItReports == Spec => []EraseSucceeds
<1>1. FlashInv => EraseSucceeds
  BY DEF FlashInv
<1> QED
  BY <1>1, FlashInvariant, PTL

(* No call touches a page outside its range, whatever fails, but an erase  *)
(* of LPC and an empty program of RX65N-CK.                                *)
THEOREM NeighboursAreSafe == Spec => []OnlyRange
<1>1. FlashInv => OnlyRange
  BY DEF FlashInv, OutsideKept, OnlyRange
<1> QED
  BY <1>1, FlashInvariant, PTL

(* A program of erased pages that returns success has written its buffer,  *)
(* but from flash on LPC.                                                  *)
THEOREM ProgramsWhatItReports == Spec => []ProgramWritesBuffer
<1>1. FlashInv => ProgramWritesBuffer
  BY DEF FlashInv
<1> QED
  BY <1>1, FlashInvariant, PTL

(* A failed request is reported, on every port but RX65N-CK.               *)
THEOREM FailuresAreReported == Spec => []NoSilentFailure
<1>1. FlashInv => NoSilentFailure
  BY DEF FlashInv, TroubleKnown, NoSilentFailure
<1> QED
  BY <1>1, FlashInvariant, PTL
-----------------------------------------------------------------------------
(* The device that FlashDevice describes.                                  *)

(* The page behind the last one that an erase of LPC has passed is erased  *)
(* as well.                                                                *)
BehindErased ==
  active /\ Untroubled /\ status /\ port = "lpc" /\ first < pos /\ pos < N => cell[pos] = Erased

(* A program of RX65N-CK never leaves the area.                            *)
InArea == active /\ call = "program" /\ port = "rx65n" => End <= AreaEnd

DeviceInv == FlashInv /\ BehindErased /\ InArea

LEMMA StepBehind ==
  TypeOK /\ PosOK /\ RefusalEnds /\ BehindErased /\ [Next]_vars => BehindErased'
<1> SUFFICES ASSUME FlagsTyped, NumbersTyped, PosOK, RefusalEnds, BehindErased, [Next]_vars,
                    active', Untroubled', status', port' = "lpc", first' < pos', pos' < N
             PROVE  cell'[pos'] = Erased
  BY Typed DEF BehindErased
<1>1. ASSUME NEW c, NEW a \in 0 .. N, NEW n, NEW s, Call(c, a, n, s) PROVE FALSE
  <2>1. a \in Int
    BY LayoutAssumption
  <2> QED
    BY <1>1, <2>1 DEF Call
<1>2. CASE EraseSector
  <2>a. N \in Nat
    BY LayoutAssumption
  <2>1. pos \in Pages /\ port = "lpc" /\ port \in Ports
    BY <1>2, <2>a DEF EraseSector, args, NumbersTyped, Pages
  <2>2. SectorSize[port][pos] = 1
    BY <2>1, LayoutAssumption
  <2>3. pos' = pos + 1 /\ pos + 1 \in Targets
    BY <1>2, <2>1, <2>2 DEF EraseSector, NextSector, Targets
  <2> QED
    BY <1>2, <2>3 DEF EraseSector
<1>3. CASE EraseRefused \/ EraseFails
  BY <1>3 DEF EraseRefused, EraseFails
<1>4. CASE ProgramPage \/ ProgramPastEnd \/ ProgramFails
  BY <1>4 DEF ProgramPage, ProgramPastEnd, ProgramFails, Programs, args, Untroubled
<1>5. CASE Return
  BY <1>5 DEF Return
<1>6. CASE UNCHANGED vars
  BY <1>6 DEF vars, BehindErased, Untroubled, Span, End
<1> QED
  BY <1>1, <1>2, <1>3, <1>4, <1>5, <1>6 DEF Next, Step, Erase, Program

LEMMA StepInArea == TypeOK /\ InArea /\ [Next]_vars => InArea'
<1> SUFFICES ASSUME FlagsTyped, InArea, [Next]_vars, active', call' = "program", port' = "rx65n"
             PROVE  End' <= AreaEnd
  BY Typed DEF InArea
<1>1. ASSUME NEW a, NEW n, Erase(a, n) PROVE FALSE
  BY <1>1 DEF Erase, Call
<1>2. ASSUME NEW a, NEW n, NEW s, Program(a, n, s) PROVE End' <= AreaEnd
  BY <1>2 DEF Program, Call, ProgramAccepted, LayInBoundary, End
<1>3. CASE EraseSector \/ EraseRefused \/ EraseFails
  BY <1>3 DEF EraseSector, EraseRefused, EraseFails, Erases, args
<1>4. CASE ProgramPage \/ ProgramPastEnd \/ ProgramFails
  BY <1>4 DEF ProgramPage, ProgramPastEnd, ProgramFails, Programs, args, InArea, End
<1>5. CASE Return
  BY <1>5 DEF Return
<1>6. CASE UNCHANGED vars
  BY <1>6 DEF vars, InArea, End
<1> QED
  BY <1>1, <1>2, <1>3, <1>4, <1>5, <1>6 DEF Next, Step

LEMMA DeviceInvariant == Spec => []DeviceInv
<1>1. Init => DeviceInv
  <2>1. Init => BehindErased /\ InArea
    BY DEF Init, BehindErased, InArea
  <2> QED
    BY <2>1, InitFlash DEF DeviceInv
<1>2. DeviceInv /\ [Next]_vars => DeviceInv'
  BY StepFlash, StepBehind, StepInArea DEF DeviceInv, FlashInv
<1> QED
  BY <1>1, <1>2, PTL DEF Spec

(* The requests of a call stay within what it covers.                      *)
LEMMA RequestsCovered ==
  ASSUME FlashInv
  PROVE  /\ Erases /\ pos < N /\ Targets \subseteq Pages => Targets \subseteq Covered
         /\ Programs => Written \subseteq Covered
<1>1. NumbersTyped /\ PosOK
  BY Typed DEF FlashInv
<1>2. ASSUME Erases, pos < N, Targets \subseteq Pages PROVE Targets \subseteq Covered
  <2>a. N \in Nat
    BY LayoutAssumption
  <2>1. call = "erase" /\ pos \in Span \cap Pages
    BY <1>1, <1>2, <2>a DEF Erases, PosOK, NumbersTyped, Span, End, Pages
  <2>2. Targets = RequestAt(pos)
    BY DEF Targets, RequestAt
  <2> QED
    BY <1>2, <2>1, <2>2 DEF Covered
<1>3. ASSUME Programs PROVE Written \subseteq Covered
  <2>1. call = "program" /\ Covered = first .. first + Cycles - 1
    BY <1>3 DEF Programs, Covered
  <2>2. first \in Nat /\ size \in Nat /\ pos \in Nat /\ first <= pos /\ pos < first + Cycles
    BY <1>1, <1>3 DEF Programs, PosOK, NumbersTyped
  <2> QED
    BY <2>1, <2>2 DEF Written, Cycles, Span, End
<1> QED
  BY <1>2, <1>3

(* A call that returns success has left what it promised: on whole sectors *)
(* the sectors an erase covers are those of its range.                     *)
LEMMA PromiseKept ==
  ASSUME DeviceInv, active, ~Erases, ~Programs, status, Verified, Promised
  PROVE  \A p \in Covered : p \in Pages /\ cell[p] = Wanted(p)
<1>1. NumbersTyped /\ PosOK
  BY Typed DEF DeviceInv, FlashInv
<1>2. /\ first \in 0 .. N /\ size \in Nat /\ pos \in Nat /\ End = first + size
      /\ first <= pos /\ port \in Ports /\ N \in Nat
  BY <1>1, LayoutAssumption DEF NumbersTyped, PosOK, End
<1>3. CASE call = "erase"
  <2>1. Untroubled
    BY <1>3 DEF Promised, Untroubled
  <2>2. pos >= End
    BY <1>2, <1>3 DEF Erases
  <2>3. Boundary(port, first) /\ Boundary(port, pos) /\ \A p \in first .. pos - 1 : cell[p] = Erased
    BY <2>1 DEF DeviceInv, FlashInv, SectorsErased, Untroubled
  <2>4. pos <= N
    BY <1>2, <2>3 DEF Boundary, Pages
  <2>5. ASSUME NEW q \in Covered PROVE q \in Pages /\ cell[q] = Erased
    <3>1. CASE q \in Span
      <4>1. q \in first .. pos - 1 /\ q \in Pages
        BY <1>2, <2>2, <2>4, <3>1 DEF Span, Pages
      <4> QED
        BY <4>1, <2>3
    <3>2. CASE q \notin Span
      <4>1. PICK p \in Span \cap Pages : q \in RequestAt(p)
        BY <2>5, <3>2, <1>3 DEF Covered
      <4>2. q \in Pages /\ p \in Pages /\ first <= p /\ p < End /\ p < pos
        BY <1>2, <1>3, <2>2, <2>5, <3>2, <4>1 DEF Covered, Span, Pages
      <4>3. CASE port = "lpc"
        <5>1. q = p \/ q = p + 1
          BY <4>1, <4>3 DEF RequestAt
        <5>2. q \in first .. pos - 1 \/ (q = pos /\ first < pos /\ pos < N)
          BY <5>1, <4>2, <1>2 DEF Pages
        <5> QED
          BY <5>2, <4>2, <4>3, <2>1, <2>3 DEF DeviceInv, BehindErased
      <4>4. CASE port # "lpc"
        <5>1. pos \in 0 .. N + 1
          BY <1>2, <2>4
        <5>2. /\ first <= SectorStart[port][p]
              /\ SectorStart[port][p] + SectorSize[port][p] <= pos
          BY <1>2, <2>3, <4>2, <5>1, SectorInside
        <5>3. SectorStart[port][p] \in Pages /\ SectorSize[port][p] \in 1 .. N
          BY <1>2, <4>2, LayoutAssumption
        <5>4. q \in SectorStart[port][p] .. SectorStart[port][p] + SectorSize[port][p] - 1
          BY <4>1, <4>4 DEF RequestAt, Sector
        <5>5. q \in first .. pos - 1
          BY <1>2, <5>2, <5>3, <5>4 DEF Pages
        <5> QED
          BY <4>2, <5>5, <2>3
      <4> QED
        BY <4>3, <4>4
    <3> QED
      BY <3>1, <3>2
  <2> QED
    BY <1>3, <2>5 DEF Wanted
<1>4. CASE call = "program" /\ port = "rx65n"
  <2>1. Covered = Span
    BY <1>2, <1>4 DEF Promised, Covered, Cycles, Span
  <2>2. \A p \in Span : cell[p] = Buffered(p)
    BY <1>4 DEF Verified
  <2>3. End <= AreaEnd /\ AreaEnd \in 1 .. N - 1
    BY <1>4, LayoutAssumption DEF DeviceInv, InArea
  <2>4. Span \subseteq Pages
    BY <1>2, <2>3 DEF Span, Pages
  <2> QED
    BY <1>4, <2>1, <2>2, <2>4 DEF Wanted
<1>5. CASE call = "program" /\ port # "rx65n"
  <2>1. Covered = Span
    BY <1>2, <1>5 DEF Covered, Cycles, Span
  <2>2. Programmable
    BY <1>5 DEF Promised, Programmable
  <2>3. pos >= End
    BY <1>2, <1>5 DEF Programs, Cycles
  <2>4. \A p \in first .. pos - 1 : cell[p] = Buffered(p)
    BY <2>2 DEF DeviceInv, FlashInv, PagesWritten
  <2>5. \A p \in Span : cell[p] = Buffered(p)
    BY <1>2, <2>3, <2>4 DEF Span
  <2> QED
    BY <1>5, <2>1, <2>2, <2>5 DEF Wanted, Programmable
<1> QED
  BY <1>3, <1>4, <1>5 DEF Promised

(* What a call covers and is to leave does not change while it runs.       *)
LEMMA AimStays ==
  UNCHANGED args => /\ UNCHANGED Covered
                    /\ \A p \in Covered : Wanted(p)' = Wanted(p)
BY DEF args, Covered, Cycles, Span, End, RequestAt, Sector, Wanted, Buffered

LEMMA InitDevice == Init => Device!DeviceInit
BY DEF Init, Device!DeviceInit, Device!NoGoal

LEMMA StepDevice == DeviceInv /\ DeviceInv' /\ [Next]_vars => [Device!DeviceNext]_(Device!dvars)
<1> DEFINE goal == IF active \/ (success /\ Promised)
                     THEN [p \in Covered |-> Wanted(p)] ELSE <<>>
<1> SUFFICES ASSUME DeviceInv, DeviceInv', [Next]_vars
             PROVE  [Device!DeviceNext]_(Device!dvars)
  OBVIOUS
<1>0. FlashInv /\ FlagsTyped /\ FlagsTyped' /\ DOMAIN cell = Pages /\ DOMAIN cell' = Pages
  BY Typed DEF DeviceInv, FlashInv, CellsTyped
<1>1. ASSUME NEW c, NEW a, NEW n, NEW s, Call(c, a, n, s)
      PROVE  Device!DeviceNext
  <2>1. ~active /\ ~success' /\ cell' = cell
    BY <1>1 DEF Call
  <2>2. CASE active'
    <3>1. Device!Ask
      BY <2>1, <2>2 DEF Device!Ask
    <3> QED
      BY <3>1 DEF Device!DeviceNext
  <2>3. CASE ~active'
    <3>1. goal' = <<>>
      BY <2>1, <2>3
    <3>2. Device!Fail
      BY <2>1, <2>3, <3>1 DEF Device!Fail, Device!NoGoal
    <3> QED
      BY <3>2 DEF Device!DeviceNext
  <2> QED
    BY <2>2, <2>3
<1>2. ASSUME active, active', UNCHANGED args, \A p \in Pages \ Covered : cell'[p] = cell[p]
      PROVE  Device!DeviceNext
  <2>1. goal = [p \in Covered |-> Wanted(p)] /\ DOMAIN goal = Covered
    BY <1>2
  <2>2. goal' = goal
    <3>1. goal' = [p \in Covered' |-> Wanted(p)']
      BY <1>2
    <3> QED
      BY <1>2, <2>1, <3>1, AimStays
  <2>3. Device!Open = Covered
    BY <1>2, <2>1 DEF Device!Open
  <2>4. Device!ChangesOnly(Covered)
    BY <1>0, <1>2 DEF Device!ChangesOnly
  <2>5. Device!Work
    BY <1>2, <2>2, <2>3, <2>4 DEF Device!Work
  <2> QED
    BY <2>5 DEF Device!DeviceNext
<1>3. CASE EraseSector \/ EraseFails
  <2>1. active /\ active' /\ UNCHANGED args
    BY <1>3 DEF EraseSector, EraseFails, Erases
  <2>2. Targets \subseteq Covered
    BY <1>0, <1>3, RequestsCovered DEF EraseSector, EraseFails
  <2>3. \A p \in Pages \ Targets : cell'[p] = cell[p]
    BY <1>3 DEF EraseSector, EraseFails
  <2> QED
    BY <1>2, <2>1, <2>2, <2>3
<1>4. CASE ProgramPage \/ ProgramFails
  <2>1. active /\ active' /\ UNCHANGED args
    BY <1>4 DEF ProgramPage, ProgramFails, Programs
  <2>2. Written \subseteq Covered
    BY <1>0, <1>4, RequestsCovered DEF ProgramPage, ProgramFails
  <2>3. \A p \in Pages \ Written : cell'[p] = cell[p]
    BY <1>4 DEF ProgramPage, ProgramFails
  <2> QED
    BY <1>2, <2>1, <2>2, <2>3
<1>5. CASE EraseRefused \/ ProgramPastEnd
  <2>1. active /\ active' /\ UNCHANGED args /\ cell' = cell
    <3>1. CASE EraseRefused
      BY <3>1 DEF EraseRefused, Erases
    <3>2. CASE ProgramPastEnd
      BY <3>2 DEF ProgramPastEnd, Programs
    <3> QED
      BY <1>5, <3>1, <3>2
  <2> QED
    BY <1>2, <2>1
<1>6. CASE Return
  <2>1. /\ active /\ ~active' /\ cell' = cell /\ UNCHANGED args
        /\ success' <=> status /\ Verified
    BY <1>6 DEF Return
  <2>2. Promised' <=> Promised
    BY <1>6 DEF Return, args, Promised, Span, End
  <2>3. CASE status /\ Verified /\ Promised
    <3>1. goal = [p \in Covered |-> Wanted(p)] /\ goal' = [p \in Covered' |-> Wanted(p)']
      BY <2>1, <2>2, <2>3
    <3>2. goal' = goal /\ DOMAIN goal = Covered
      BY <2>1, <3>1, AimStays
    <3>3. \A p \in Covered : p \in Pages /\ cell[p] = Wanted(p)
      BY <1>6, <2>1, <2>3, PromiseKept DEF Return
    <3>4. Device!Reached
      BY <1>0, <3>1, <3>3 DEF Device!Reached
    <3>5. Device!Succeed
      BY <2>1, <3>2, <3>4 DEF Device!Succeed
    <3> QED
      BY <3>5 DEF Device!DeviceNext
  <2>4. CASE ~(status /\ Verified /\ Promised)
    <3>1. goal' = <<>>
      BY <2>1, <2>2, <2>4
    <3>2. Device!Fail
      BY <2>1, <3>1 DEF Device!Fail, Device!NoGoal
    <3> QED
      BY <3>2 DEF Device!DeviceNext
  <2> QED
    BY <2>3, <2>4
<1>7. CASE UNCHANGED vars
  <2>1. UNCHANGED <<cell, active, success>> /\ UNCHANGED args /\ (Promised' <=> Promised)
    BY <1>7 DEF vars, args, Promised, Span, End
  <2>2. goal' = goal
    BY <2>1, AimStays
  <2> QED
    BY <2>1, <2>2 DEF Device!dvars
<1> QED
  BY <1>1, <1>3, <1>4, <1>5, <1>6, <1>7 DEF Next, Step, Erase, Program

(* Each of the drivers is a flash of which the storage above may think one *)
(* call at a time: the safety part of ImplementsFlashDevice.               *)
THEOREM ImplementsFlashDeviceSafety == Spec => Device!DeviceSafety
<1>1. DeviceInv /\ DeviceInv' /\ [Next]_vars => [Device!DeviceNext]_(Device!dvars)
  BY StepDevice
<1> QED
  BY <1>1, InitDevice, DeviceInvariant, PTL DEF Spec, Device!DeviceSafety

(* What a call has promised is still there.                                *)
PromiseStands ==
  ~active /\ success /\ Promised => \A p \in Covered : p \in Pages /\ cell[p] = Wanted(p)

LEMMA StepPromise == DeviceInv /\ PromiseStands /\ [Next]_vars => PromiseStands'
<1> SUFFICES ASSUME DeviceInv, PromiseStands, [Next]_vars, ~active', success', Promised'
             PROVE  \A p \in Covered' : p \in Pages /\ cell'[p] = Wanted(p)'
  BY DEF PromiseStands, Pages
<1>1. CASE Return
  <2>1. /\ active /\ ~Erases /\ ~Programs /\ status /\ Verified
        /\ cell' = cell /\ UNCHANGED args /\ Promised
    BY <1>1 DEF Return, args, Promised, Span, End
  <2>2. \A p \in Covered : p \in Pages /\ cell[p] = Wanted(p)
    BY <2>1, PromiseKept
  <2> QED
    BY <2>1, <2>2, AimStays
<1>2. CASE ~active /\ UNCHANGED vars
  <2>1. cell' = cell /\ UNCHANGED args /\ success /\ Promised
    BY <1>2 DEF vars, args, Promised, Span, End
  <2> QED
    BY <1>2, <2>1, AimStays DEF PromiseStands
<1> QED
  BY <1>1, <1>2, StepActive DEF DeviceInv, FlashInv

(* Success is for good: from the return of a call that succeeded to the    *)
(* next call every page of its goal, which for an erase are whole sectors  *)
(* and not only the range of EraseSucceeds, holds what was asked for.      *)
THEOREM SuccessLasts == Spec => [](~active => Device!Reached)
<1>1. Init => PromiseStands
  BY DEF Init, PromiseStands
<1>2. DeviceInv /\ PromiseStands => (~active => Device!Reached)
  <2> SUFFICES ASSUME DeviceInv, PromiseStands, ~active PROVE Device!Reached
    OBVIOUS
  <2>1. DOMAIN cell = Pages
    BY Typed DEF DeviceInv, FlashInv, CellsTyped
  <2>2. CASE success /\ Promised
    BY <2>1, <2>2 DEF PromiseStands, Device!Reached
  <2>3. CASE ~(success /\ Promised)
    BY <2>3 DEF Device!Reached
  <2> QED
    BY <2>2, <2>3
<1> QED
  BY <1>1, <1>2, StepPromise, DeviceInvariant, PTL DEF Spec
=============================================================================
