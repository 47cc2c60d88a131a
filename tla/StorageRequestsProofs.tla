------------------------ MODULE StorageRequestsProofs ------------------------
(***************************************************************************)
(* Proofs about the requests to the storage chips, for every number of     *)
(* pages and every choice of boards: what is read through the memory map   *)
(* is what the chip holds, and a call that returns success has been        *)
(* performed.                                                              *)
(*                                                                         *)
(* The inductive invariant IInv says where a call is and what the chip has *)
(* heard of it.  Its parts, in the order in which they rest on each other: *)
(*   TypesAgree    the types, page by page                                 *)
(*   DriverAgrees  where the driver can be; that a call that began without *)
(*                 trouble and has not failed has none, and that the chip  *)
(*                 is then idle, latched and on four lines where the       *)
(*                 driver takes it to be                                   *)
(*   KeptAgrees    the copies of a page                                    *)
(*   WorkAgrees    the pages done so far, and the one in work              *)
(*   ReturnAgrees  the same of the last call, once it has returned         *)
(*   EventAgrees   who has the news of a transfer of the SD card           *)
(***************************************************************************)
EXTENDS StorageRequests, TLAPS

(* Where the driver of each board can be.                                  *)
PlacesOf(b) ==
  CASE b = "flexspi" -> {"idle", "mask", "enable", "command", "wait", "reset",
                         "unmask"}
    [] b \in {"spifi", "mt25q"} -> {"idle", "enable", "command", "wait"}
    [] b = "stm32" -> {"idle", "enable", "command", "wait", "lock"}
    [] OTHER -> {"idle", "elapsed", "check", "clear"}

(* What is fixed while a call is under way.                                *)
CallAgrees ==
  /\ pc \in PlacesOf(board)
  /\ pc # "idle" => ready /\ call # "none" /\ first <= pos /\ pos <= last
  /\ call \in {"init", "erase"} => first = last
  /\ board = "sdcard" =>
       call \in {"none", "program"} /\ first = last /\ (pc # "idle" => ok)
  /\ pc = "mask" \/ (board = "stm32" /\ pc # "idle") =>
       call \in {"erase", "program"}
  /\ pc = "lock" /\ ok => pos = last
  /\ board = "flexspi" => (shielded <=> pc \notin {"idle", "mask"})

(* A call that began without trouble and has not failed has none; on the  *)
(* EVK-MIMXRT1060 a failure before the wait ends the call.                 *)
CleanAgrees == pc # "idle" /\ clean /\ ok => ~troubled

FailureAgrees ==
  board = "flexspi" =>
    (~troubled \/ pc \in {"mask", "enable", "command", "wait"} => ok)

(* Without trouble the chip is idle where the driver takes it to be...     *)
IdleAgrees ==
  /\ ~troubled /\ pc \in {"idle", "mask", "enable", "command", "reset",
                          "unmask", "lock"} => Idle
  /\ board = "flexspi" /\ pc = "reset" /\ ok => Idle

(* ...has the latch when a command is sent...                              *)
LatchAgrees ==
  ~troubled /\ pc = "command" /\ board # "stm32" => chip.wel

(* ...and uses four lines, or has been told to.                            *)
QuadUnderway ==
  /\ call = "init"
  /\ \/ pc \in {"enable", "command"}
     \/ pc = "wait" /\ chip.busy.kind = "quad"

QuadAgrees ==
  /\ board \notin {"flexspi", "spifi"} => chip.quad
  /\ ready /\ ~troubled => chip.quad \/ QuadUnderway

(* What is kept of a page is what the chip holds.                          *)
KeptAgrees ==
  /\ line = Empty
  /\ board # "flexspi" => kept = Empty
  /\ ready /\ ~troubled /\ pc \in {"idle", "mask", "unmask"} =>
       \A p \in Pages : kept[p] \in {"none", chip.cell[p]}

(* The pages of the call before k are programmed, the others erased.       *)
Programmed(k) ==
  \A p \in Pages :
    /\ first <= p /\ p < k => chip.cell[p] = "data"
    /\ k <= p /\ p <= last => chip.cell[p] = "erased"

SectorErased == \A p \in Sector(first) : chip.cell[p] = "erased"

Asked == call = "program" => Programmed(pos)

Answered ==
  /\ call = "program" => Programmed(pos + 1)
  /\ call = "erase" => SectorErased

(* How far a call has come.                                                *)
Underway ==
  /\ pc \in {"mask", "enable", "command"} => Asked
  /\ pc = "wait" =>
       \/ chip.busy.kind = call /\ chip.busy.page = pos /\ Asked
       \/ Idle /\ Answered
  /\ pc \in {"reset", "unmask", "lock"} => Answered

WorkAgrees ==
  board # "sdcard" /\ pc # "idle" /\ clean /\ ok
    /\ call \in {"erase", "program"} => Underway

(* A call that returned success has been performed, and nothing follows.   *)
Returned ==
  /\ Idle
  /\ call = "program" => Programmed(last + 1)
  /\ call = "erase" => SectorErased

ReturnAgrees ==
  pc = "idle" /\ clean /\ ok /\ call \in {"erase", "program"} => Returned

(* The card, its interrupt or the event, and only one of them, has the     *)
(* news of the transfer.                                                   *)
NewsOfTransfer ==
  \/ /\ chip.busy.kind = "program" /\ chip.busy.page = pos
     /\ ~event.irq /\ ~event.set
  \/ Idle /\ chip.cell[pos] = "data" /\ event.irq # event.set

EventAgrees ==
  board = "sdcard" =>
    /\ ~troubled /\ pc = "idle" => ~event.irq /\ ~event.set
    /\ ~troubled /\ pc # "idle" => NewsOfTransfer
    /\ pc = "clear" => event.set \/ event.expired

-----------------------------------------------------------------------------
(***************************************************************************)
(* Steps of the chip.                                                      *)
(***************************************************************************)

LEMMA ChipFields ==
  ASSUME chip \in ChipStates
  PROVE  /\ chip.cell \in [Pages -> Contents]
         /\ chip.wel \in BOOLEAN /\ chip.quad \in BOOLEAN
         /\ chip.busy \in Commands
         /\ chip.busy.kind \in {"none", "erase", "program", "quad"}
         /\ chip.busy.page \in Pages
  BY DEF ChipStates, Commands

LEMMA ZeroIsAPage == 0 \in Pages /\ Nothing \in Commands
  BY PagesAssumption DEF Pages, Nothing, Commands

(* The latch changes and nothing else.                                     *)
Latches ==
  /\ chip' \in ChipStates
  /\ chip'.cell = chip.cell /\ chip'.quad = chip.quad /\ chip'.busy = chip.busy

(* The chip begins what it is told, or is as it was.                       *)
Begins(kind) ==
  /\ chip' \in ChipStates
  /\ chip'.cell = chip.cell /\ chip'.quad = chip.quad
  /\ \/ chip'.busy.kind = kind /\ chip'.busy.page = pos
     \/ chip' = chip

LEMMA EnabledLatches ==
  ASSUME chip \in ChipStates, chip' = Enabled(chip)
  PROVE  Latches /\ (Idle => chip'.wel)
<1>1. CASE Idle
  <2>1. chip' = [cell |-> chip.cell, wel |-> TRUE, busy |-> chip.busy,
                 quad |-> chip.quad]
    BY <1>1 DEF Enabled, Idle, ChipStates
  <2>2. QED
    BY <2>1, ChipFields DEF Latches, ChipStates
<1>2. CASE ~Idle
  BY <1>2 DEF Enabled, Idle, Latches
<1>3. QED
  BY <1>1, <1>2

LEMMA AcceptedBegins ==
  ASSUME chip \in ChipStates, pos \in Pages,
         NEW kind \in {"erase", "program", "quad"},
         chip' = Accepted(chip, kind)
  PROVE  /\ Begins(kind)
         /\ Idle /\ chip.wel => chip'.busy.kind = kind /\ chip'.busy.page = pos
<1>1. CASE Idle /\ chip.wel
  <2>1. chip' = [cell |-> chip.cell, wel |-> FALSE, quad |-> chip.quad,
                 busy |-> [kind |-> kind, page |-> pos]]
    BY <1>1 DEF Accepted, Idle, ChipStates
  <2>2. [kind |-> kind, page |-> pos] \in Commands
    BY DEF Commands
  <2>3. QED
    BY <2>1, <2>2, ChipFields DEF Begins, ChipStates
<1>2. CASE ~(Idle /\ chip.wel)
  BY <1>2 DEF Accepted, Idle, Begins
<1>3. QED
  BY <1>1, <1>2

(* The HAL begins an erase or a program of an idle chip.                   *)
LEMMA BusyBegins ==
  ASSUME chip \in ChipStates, NEW kind \in {"erase", "program"},
         NEW page \in Pages,
         chip' = [chip EXCEPT !.busy = [kind |-> kind, page |-> page]]
  PROVE  /\ chip' \in ChipStates
         /\ chip'.cell = chip.cell /\ chip'.quad = chip.quad
         /\ chip'.busy.kind = kind /\ chip'.busy.page = page
<1>1. chip' = [cell |-> chip.cell, wel |-> chip.wel, quad |-> chip.quad,
               busy |-> [kind |-> kind, page |-> page]]
  BY DEF ChipStates
<1>2. [kind |-> kind, page |-> page] \in Commands
  BY DEF Commands
<1>3. QED
  BY <1>1, <1>2, ChipFields DEF ChipStates

LEMMA LatchLatches ==
  ASSUME chip \in ChipStates, NEW on \in BOOLEAN,
         chip' = [chip EXCEPT !.wel = on]
  PROVE  Latches /\ chip'.wel = on
<1>1. chip' = [cell |-> chip.cell, wel |-> on, busy |-> chip.busy,
               quad |-> chip.quad]
  BY DEF ChipStates
<1>2. QED
  BY <1>1, ChipFields DEF Latches, ChipStates

LEMMA PerformedKeepsType ==
  ASSUME NEW op \in Commands, NEW cell \in [Pages -> Contents]
  PROVE  Performed(op, cell) \in [Pages -> Contents]
  BY DEF Performed, Contents, Commands

LEMMA ChipDoneEffect ==
  ASSUME chip \in ChipStates, ChipDone
  PROVE  /\ chip' \in ChipStates
         /\ chip'.cell = Performed(chip.busy, chip.cell)
         /\ chip'.quad = (chip.quad \/ chip.busy.kind = "quad")
         /\ Idle'
<1> DEFINE quad == chip.quad \/ chip.busy.kind = "quad"
<1>1. chip' = [cell |-> Performed(chip.busy, chip.cell), wel |-> chip.wel,
               busy |-> Nothing, quad |-> quad]
  BY DEF ChipDone, ChipStates
<1>2. quad \in BOOLEAN
  BY ChipFields
<1>3. Performed(chip.busy, chip.cell) \in [Pages -> Contents]
  BY ChipFields, PerformedKeepsType
<1> HIDE DEF quad
<1>4. chip' \in ChipStates
  BY <1>1, <1>2, <1>3, ChipFields, ZeroIsAPage DEF ChipStates
<1>5. Idle'
  BY <1>1 DEF Idle, Nothing
<1>6. QED
  BY <1>1, <1>4, <1>5 DEF quad

-----------------------------------------------------------------------------
(* The steps by board, and the effect of those that end in one of two ways.*)

FlexspiCalls ==
  \/ FlexspiInit
  \/ \E a \in Pages :
       FlexspiErase(a) \/ \E b \in Pages : FlexspiProgram(a, b)
SpifiCalls ==
  \/ SpifiInit
  \/ \E a \in Pages : SpifiErase(a) \/ \E b \in Pages : SpifiProgram(a, b)
StmCalls ==
  \/ StmInit
  \/ \E a \in Pages :
       StmEraseSector(a) \/ \E b \in Pages : StmProgramData(a, b)
SdCalls == SdCreate \/ \E a \in Pages : SdTransfer(a)
Others == \/ EventNotify \/ SysTickHandler \/ UNCHANGED vars
          \/ \E a \in Pages : Fetch(a)

LEMMA StepsByBoard ==
  ASSUME [Next]_vars
  PROVE  \/ FlexspiStep \/ FlexspiCalls
         \/ SpifiStep \/ SpifiCalls
         \/ StmStep \/ StmCalls
         \/ SdStep \/ SdCalls
         \/ ChipDone \/ Restart \/ Others
  BY Zenon DEF Next, Step, FlexspiCalls, SpifiCalls, StmCalls, SdCalls,
     Others

LEMMA UnmaskEffect ==
  ASSUME FlexspiUnmask
  PROVE  /\ UNCHANGED <<board, call, first, last, ready, clean>>
         /\ shielded' = FALSE
         /\ \/ ok /\ pos < last /\ pos' = pos + 1 /\ pc' = "mask"
            \/ ~(ok /\ pos < last) /\ pos' = pos /\ pc' = "idle"
<1>1. CASE ok /\ pos < last
  BY <1>1 DEF FlexspiUnmask, args
<1>2. CASE ~(ok /\ pos < last)
  BY <1>2 DEF FlexspiUnmask, Return, args
<1>3. QED
  BY <1>1, <1>2

LEMMA CheckEffect ==
  ASSUME SpifiCheckIfFinish
  PROVE  /\ UNCHANGED <<board, call, first, last, ready, clean>>
         /\ \/ pos < last /\ pos' = pos + 1 /\ pc' = "enable"
            \/ ~(pos < last) /\ pos' = pos /\ pc' = "idle"
  BY DEF SpifiCheckIfFinish, Return, args

-----------------------------------------------------------------------------
(* Types.                                                                  *)

FlagTypes ==
  /\ ok \in BOOLEAN /\ ready \in BOOLEAN /\ shielded \in BOOLEAN
  /\ troubled \in BOOLEAN /\ clean \in BOOLEAN

PlaceTypes ==
  /\ board \in Boards
  /\ pc \in {"idle", "mask", "enable", "command", "wait", "reset", "unmask",
             "lock", "elapsed", "check", "clear"}
  /\ call \in {"none", "init", "erase", "program"}
  /\ pos \in Pages /\ first \in Pages /\ last \in Pages

LEMMA FlagsStep ==
  FlagTypes /\ event \in EventStates /\ [Next]_vars => FlagTypes'
<1> SUFFICES ASSUME FlagTypes, event \in EventStates, [Next]_vars
             PROVE  FlagTypes'
  OBVIOUS
<1>a. event.irq \in BOOLEAN /\ event.expired \in BOOLEAN
  BY DEF EventStates
<1> USE DEF FlagTypes
<1>1. CASE FlexspiStep
  BY <1>1, Zenon DEF FlexspiStep, FlexspiMask, FlexspiWriteEnable,
     FlexspiCommand, FlexspiFails, FlexspiWaitBusBusy, FlexspiSoftwareReset,
     FlexspiUnmask, Return, args
<1>2. CASE FlexspiCalls
  BY <1>2, Zenon DEF FlexspiCalls, FlexspiInit, FlexspiErase, FlexspiProgram,
     Begin, Call
<1>3. CASE SpifiStep
  BY <1>3, Zenon DEF SpifiStep, SpifiWriteEnable, SpifiCommand,
     SpifiCheckIfFinish, Return, args
<1>4. CASE SpifiCalls
  BY <1>4, Zenon DEF SpifiCalls, SpifiInit, SpifiErase, SpifiProgram, Begin,
     Call
<1>5. CASE StmStep
  BY <1>5, Zenon DEF StmStep, StmUnlock, StmStart, StmDone, StmLock, Return,
     args
<1>6. CASE StmCalls
  BY <1>6, Zenon DEF StmCalls, StmInit, StmEraseSector, StmProgramData,
     Begin, Call
<1>7. CASE SdStep
  BY <1>a, <1>7, Zenon DEF SdStep, EventElapsed, EventCheck, EventWaitEnds,
     Return, args
<1>8. CASE SdCalls
  BY <1>a, <1>8, Zenon DEF SdCalls, SdCreate, SdTransfer, Call
<1>9. CASE ChipDone \/ Restart \/ Others
  BY <1>9, Zenon DEF ChipDone, Restart, Others, EventNotify, SysTickHandler,
     Fetch, vars, args
<1>10. QED
  BY <1>1, <1>2, <1>3, <1>4, <1>5, <1>6, <1>7, <1>8, <1>9, StepsByBoard

LEMMA NextPage ==
  ASSUME pos \in Pages, last \in Pages, pos < last
  PROVE  pos + 1 \in Pages
  BY PagesAssumption DEF Pages

LEMMA PlacesStep == PlaceTypes /\ [Next]_vars => PlaceTypes'
<1> SUFFICES ASSUME PlaceTypes, [Next]_vars PROVE PlaceTypes'
  OBVIOUS
<1> USE DEF PlaceTypes
<1>1. CASE FlexspiStep
  <2>1. CASE FlexspiUnmask
    BY <2>1, UnmaskEffect, NextPage
  <2>2. QED
    BY <1>1, <2>1 DEF FlexspiStep, FlexspiMask, FlexspiWriteEnable,
       FlexspiCommand, FlexspiFails, FlexspiWaitBusBusy,
       FlexspiSoftwareReset, args
<1>2. CASE FlexspiCalls
  BY <1>2, ZeroIsAPage DEF FlexspiCalls, FlexspiInit, FlexspiErase,
     FlexspiProgram, Begin, Call
<1>3. CASE SpifiStep
  <2>1. CASE SpifiCheckIfFinish
    BY <2>1, CheckEffect, NextPage
  <2>2. QED
    BY <1>3, <2>1 DEF SpifiStep, SpifiWriteEnable, SpifiCommand, args
<1>4. CASE SpifiCalls
  BY <1>4, ZeroIsAPage DEF SpifiCalls, SpifiInit, SpifiErase, SpifiProgram,
     Begin, Call
<1>5. CASE StmStep
  BY <1>5, NextPage DEF StmStep, StmUnlock, StmStart, StmDone, StmLock,
     Return, args
<1>6. CASE StmCalls
  BY <1>6, ZeroIsAPage DEF StmCalls, StmInit, StmEraseSector, StmProgramData,
     Begin, Call
<1>7. CASE SdStep
  BY <1>7 DEF SdStep, EventElapsed, EventCheck, EventWaitEnds, Return, args
<1>8. CASE SdCalls
  BY <1>8 DEF SdCalls, SdCreate, SdTransfer, Call
<1>9. CASE ChipDone \/ Restart \/ Others
  BY <1>9, ZeroIsAPage DEF ChipDone, Restart, Others, EventNotify,
     SysTickHandler, Fetch, vars, args
<1>10. QED
  BY <1>1, <1>2, <1>3, <1>4, <1>5, <1>6, <1>7, <1>8, <1>9, StepsByBoard

LEMMA EventStep ==
  event \in EventStates /\ [Next]_vars => event' \in EventStates
<1> SUFFICES ASSUME event \in EventStates, [Next]_vars
             PROVE  event' \in EventStates
  OBVIOUS
<1>1. CASE FlexspiStep \/ SpifiStep \/ StmStep
  BY <1>1 DEF FlexspiStep, FlexspiMask, FlexspiWriteEnable, FlexspiCommand,
     FlexspiFails, FlexspiWaitBusBusy, FlexspiSoftwareReset, FlexspiUnmask,
     SpifiStep, SpifiWriteEnable, SpifiCommand, SpifiCheckIfFinish,
     StmStep, StmUnlock, StmStart, StmDone, StmLock
<1>2. CASE FlexspiCalls \/ SpifiCalls \/ StmCalls
  BY <1>2 DEF FlexspiCalls, FlexspiInit, FlexspiErase, FlexspiProgram,
     SpifiCalls, SpifiInit, SpifiErase, SpifiProgram, StmCalls, StmInit,
     StmEraseSector, StmProgramData, Begin
<1>3. CASE SdStep
  BY <1>3 DEF SdStep, EventElapsed, EventCheck, EventWaitEnds, EventStates
<1>4. CASE SdCalls
  BY <1>4 DEF SdCalls, SdCreate, SdTransfer, EventStates, Quiet
<1>5. CASE ChipDone \/ Restart
  <2>1. CASE ChipDone
    BY <2>1 DEF ChipDone, EventStates
  <2>2. CASE Restart
    BY <2>2 DEF Restart, EventStates, Quiet
  <2>3. QED
    BY <1>5, <2>1, <2>2
<1>6. CASE Others
  BY <1>6 DEF Others, EventNotify, SysTickHandler, Fetch, EventStates, vars
<1>7. QED
  BY <1>1, <1>2, <1>3, <1>4, <1>5, <1>6, StepsByBoard

-----------------------------------------------------------------------------
(* Where the driver is, which call it is in and at which page.             *)

LEMMA PagesAreNumbers ==
  ASSUME NEW p \in Pages PROVE p \in Nat
  BY PagesAssumption DEF Pages

LEMMA CallStep ==
  PlaceTypes /\ FlagTypes /\ CallAgrees /\ [Next]_vars => CallAgrees'
<1> SUFFICES ASSUME PlaceTypes, FlagTypes, CallAgrees, [Next]_vars
             PROVE  CallAgrees'
  OBVIOUS
<1>a. pos \in Nat /\ first \in Nat /\ last \in Nat
  BY PagesAreNumbers DEF PlaceTypes
<1> USE <1>a, PagesAssumption DEF FlagTypes, CallAgrees, PlacesOf
<1>1. CASE FlexspiStep
  <2>1. CASE FlexspiUnmask
    <3>1. board = "flexspi" /\ pc = "unmask" /\ UNCHANGED ok
      BY <2>1 DEF FlexspiUnmask
    <3>2. QED
      BY <2>1, <3>1, UnmaskEffect DEF PlaceTypes
  <2>2. CASE FlexspiMask \/ FlexspiWriteEnable \/ FlexspiCommand
    BY <2>2 DEF FlexspiMask, FlexspiWriteEnable, FlexspiCommand, args
  <2>3. CASE FlexspiFails \/ FlexspiWaitBusBusy \/ FlexspiSoftwareReset
    BY <2>3 DEF FlexspiFails, FlexspiWaitBusBusy, FlexspiSoftwareReset, args
  <2>4. QED
    BY <1>1, <2>1, <2>2, <2>3 DEF FlexspiStep
<1>2. CASE FlexspiCalls
  <2>1. CASE FlexspiInit
    BY <2>1 DEF FlexspiInit, Call
  <2>2. ASSUME NEW a \in Pages, FlexspiErase(a) PROVE CallAgrees'
    BY <2>2, PagesAreNumbers DEF FlexspiErase, Begin, Call
  <2>3. ASSUME NEW a \in Pages, NEW b \in Pages, FlexspiProgram(a, b)
        PROVE  CallAgrees'
    BY <2>3, PagesAreNumbers DEF FlexspiProgram, Begin, Requests, Call
  <2>4. QED
    BY <1>2, <2>1, <2>2, <2>3 DEF FlexspiCalls
<1>3. CASE SpifiStep
  <2>1. CASE SpifiCheckIfFinish
    <3>1. board \in {"spifi", "mt25q"} /\ pc = "wait" /\ UNCHANGED ok
      BY <2>1 DEF SpifiCheckIfFinish
    <3>2. QED
      BY <2>1, <3>1, CheckEffect
  <2>2. QED
    BY <1>3, <2>1 DEF SpifiStep, SpifiWriteEnable, SpifiCommand, args
<1>4. CASE SpifiCalls
  <2>1. CASE SpifiInit
    BY <2>1 DEF SpifiInit, Call
  <2>2. ASSUME NEW a \in Pages, SpifiErase(a) PROVE CallAgrees'
    BY <2>2, PagesAreNumbers DEF SpifiErase, Begin, Call
  <2>3. ASSUME NEW a \in Pages, NEW b \in Pages, SpifiProgram(a, b)
        PROVE  CallAgrees'
    BY <2>3, PagesAreNumbers DEF SpifiProgram, Begin, Requests, Call
  <2>4. QED
    BY <1>4, <2>1, <2>2, <2>3 DEF SpifiCalls
<1>5. CASE StmStep
  <2>1. CASE StmUnlock \/ StmLock
    BY <2>1 DEF StmUnlock, StmLock, Return, args
  <2>2. CASE StmStart
    BY <2>2 DEF StmStart, args
  <2>3. CASE StmDone
    BY <2>3 DEF StmDone, args
  <2>4. QED
    BY <1>5, <2>1, <2>2, <2>3 DEF StmStep
<1>6. CASE StmCalls
  <2>1. CASE StmInit
    BY <2>1 DEF StmInit, Call
  <2>2. ASSUME NEW a \in Pages, StmEraseSector(a) PROVE CallAgrees'
    BY <2>2, PagesAreNumbers DEF StmEraseSector, Begin, Call
  <2>3. ASSUME NEW a \in Pages, NEW b \in Pages, StmProgramData(a, b)
        PROVE  CallAgrees'
    BY <2>3, PagesAreNumbers DEF StmProgramData, Begin, Requests, Call
  <2>4. QED
    BY <1>6, <2>1, <2>2, <2>3 DEF StmCalls
<1>7. CASE SdStep
  BY <1>7 DEF SdStep, EventElapsed, EventCheck, EventWaitEnds, Return, args
<1>8. CASE SdCalls
  <2>1. CASE SdCreate
    BY <2>1 DEF SdCreate
  <2>2. ASSUME NEW a \in Pages, SdTransfer(a) PROVE CallAgrees'
    BY <2>2, PagesAreNumbers DEF SdTransfer, Call
  <2>3. QED
    BY <1>8, <2>1, <2>2 DEF SdCalls
<1>9. CASE ChipDone \/ Restart
  BY <1>9 DEF ChipDone, Restart, args
<1>10. CASE Others
  BY <1>10 DEF Others, EventNotify, SysTickHandler, Fetch, vars, args
<1>11. QED
  BY <1>1, <1>2, <1>3, <1>4, <1>5, <1>6, <1>7, <1>8, <1>9, <1>10,
     StepsByBoard

-----------------------------------------------------------------------------
(* What a step does to the chip, and what kinds of step there are.         *)

(* The command for the present call.                                       *)
Asks == IF call = "init" THEN "quad" ELSE call

LEMMA AsksCommand ==
  ASSUME PlaceTypes, CallAgrees, pc # "idle"
  PROVE  Asks \in {"erase", "program", "quad"}
  BY DEF PlaceTypes, CallAgrees, Asks

LEMMA CommandEffect ==
  ASSUME PlaceTypes, CallAgrees, chip \in ChipStates,
         FlexspiCommand \/ SpifiCommand
  PROVE  /\ Begins(Asks)
         /\ Idle /\ chip.wel => chip'.busy.kind = Asks /\ chip'.busy.page = pos
<1>1. pc # "idle" /\ chip' = Accepted(chip, Asks) /\ pos \in Pages
  BY DEF FlexspiCommand, SpifiCommand, Asks, PlaceTypes
<1>2. QED
  BY <1>1, AsksCommand, AcceptedBegins

(* A chip that uses four lines goes on to do so, and only a chip that is    *)
(* done with a command changes its pages.                                  *)
ChipMoves ==
  /\ chip' \in ChipStates
  /\ chip.quad => chip'.quad
  /\ ChipDone \/ chip'.cell = chip.cell

LEMMA ChipStep ==
  ASSUME PlaceTypes, CallAgrees, chip \in ChipStates, [Next]_vars
  PROVE  ChipMoves
<1> USE DEF ChipMoves
<1>a. pos \in Pages
  BY DEF PlaceTypes
<1>1. ASSUME chip' = Enabled(chip) PROVE ChipMoves
  BY <1>1, EnabledLatches DEF Latches
<1>2. CASE FlexspiCommand \/ SpifiCommand
  BY <1>2, CommandEffect DEF Begins
<1>3. CASE FlexspiStep
  <2>1. CASE FlexspiFails
    <3>1. CASE chip' = Accepted(chip, Asks) /\ pc # "idle"
      BY <1>a, <3>1, AsksCommand, AcceptedBegins DEF Begins
    <3>2. QED
      BY <1>1, <2>1, <3>1 DEF FlexspiFails, Asks
  <2>2. QED
    BY <1>1, <1>2, <1>3, <2>1 DEF FlexspiStep, FlexspiMask,
       FlexspiWriteEnable, FlexspiWaitBusBusy, FlexspiSoftwareReset,
       FlexspiUnmask
<1>4. CASE SpifiStep
  BY <1>1, <1>2, <1>4 DEF SpifiStep, SpifiWriteEnable, SpifiCheckIfFinish
<1>5. CASE StmStep
  <2>1. CASE StmUnlock \/ StmLock
    <3>1. \/ UNCHANGED chip
          \/ \E on \in BOOLEAN : chip' = [chip EXCEPT !.wel = on]
      BY <2>1 DEF StmUnlock, StmLock
    <3>2. QED
      BY <3>1, LatchLatches DEF Latches
  <2>2. CASE StmStart
    <3>1. call \in {"erase", "program"}
      BY <2>2 DEF StmStart, CallAgrees
    <3>2. QED
      BY <1>a, <2>2, <3>1, BusyBegins DEF StmStart
  <2>3. CASE StmDone
    BY <2>3 DEF StmDone
  <2>4. QED
    BY <1>5, <2>1, <2>2, <2>3 DEF StmStep
<1>6. CASE SdStep \/ FlexspiCalls \/ SpifiCalls \/ StmCalls
  BY <1>6 DEF SdStep, EventElapsed, EventCheck, EventWaitEnds,
     FlexspiCalls, FlexspiInit, FlexspiErase, FlexspiProgram,
     SpifiCalls, SpifiInit, SpifiErase, SpifiProgram, StmCalls, StmInit,
     StmEraseSector, StmProgramData, Begin
<1>7. CASE SdCalls
  <2>1. ASSUME NEW a \in Pages, SdTransfer(a) PROVE ChipMoves
    BY <2>1, BusyBegins DEF SdTransfer
  <2>2. QED
    BY <1>7, <2>1 DEF SdCalls, SdCreate
<1>8. CASE ChipDone
  BY <1>8, ChipDoneEffect
<1>9. CASE Restart \/ Others
  BY <1>9 DEF Restart, Others, EventNotify, SysTickHandler, Fetch, vars
<1>10. QED
  BY <1>3, <1>4, <1>5, <1>6, <1>7, <1>8, <1>9, StepsByBoard

-----------------------------------------------------------------------------
(* Trouble, and what the driver knows without it.                          *)

LEMMA CleanStep ==
  ASSUME FlagTypes, CleanAgrees, [Next]_vars PROVE CleanAgrees'
<1> USE DEF FlagTypes, CleanAgrees
<1>1. CASE FlexspiStep
  BY <1>1, Zenon DEF FlexspiStep, FlexspiMask, FlexspiWriteEnable,
     FlexspiCommand, FlexspiFails, FlexspiWaitBusBusy, FlexspiSoftwareReset,
     FlexspiUnmask, Return, args
<1>2. CASE FlexspiCalls
  BY <1>2, Zenon DEF FlexspiCalls, FlexspiInit, FlexspiErase, FlexspiProgram,
     Begin, Call
<1>3. CASE SpifiStep
  BY <1>3, Zenon DEF SpifiStep, SpifiWriteEnable, SpifiCommand,
     SpifiCheckIfFinish, Return, args
<1>4. CASE SpifiCalls
  BY <1>4, Zenon DEF SpifiCalls, SpifiInit, SpifiErase, SpifiProgram, Begin,
     Call
<1>5. CASE StmStep
  BY <1>5, Zenon DEF StmStep, StmUnlock, StmStart, StmDone, StmLock, Return,
     args
<1>6. CASE StmCalls
  BY <1>6, Zenon DEF StmCalls, StmInit, StmEraseSector, StmProgramData,
     Begin, Call
<1>7. CASE SdStep
  BY <1>7, Zenon DEF SdStep, EventElapsed, EventCheck, EventWaitEnds, Return,
     args
<1>8. CASE SdCalls
  BY <1>8, Zenon DEF SdCalls, SdCreate, SdTransfer, Call
<1>9. CASE ChipDone \/ Restart \/ Others
  BY <1>9, Zenon DEF ChipDone, Restart, Others, EventNotify, SysTickHandler,
     Fetch, vars, args
<1>10. QED
  BY <1>1, <1>2, <1>3, <1>4, <1>5, <1>6, <1>7, <1>8, <1>9, StepsByBoard

LEMMA FailureStep ==
  ASSUME FlagTypes, FailureAgrees, [Next]_vars PROVE FailureAgrees'
<1> USE DEF FlagTypes, FailureAgrees
<1>1. CASE FlexspiStep
  BY <1>1, Zenon DEF FlexspiStep, FlexspiMask, FlexspiWriteEnable,
     FlexspiCommand, FlexspiFails, FlexspiWaitBusBusy, FlexspiSoftwareReset,
     FlexspiUnmask, Return, args
<1>2. CASE FlexspiCalls
  BY <1>2, Zenon DEF FlexspiCalls, FlexspiInit, FlexspiErase, FlexspiProgram,
     Begin, Call
<1>3. CASE SpifiStep
  BY <1>3, Zenon DEF SpifiStep, SpifiWriteEnable, SpifiCommand,
     SpifiCheckIfFinish, Return, args
<1>4. CASE SpifiCalls
  BY <1>4, Zenon DEF SpifiCalls, SpifiInit, SpifiErase, SpifiProgram, Begin,
     Call
<1>5. CASE StmStep
  BY <1>5, Zenon DEF StmStep, StmUnlock, StmStart, StmDone, StmLock, Return,
     args
<1>6. CASE StmCalls
  BY <1>6, Zenon DEF StmCalls, StmInit, StmEraseSector, StmProgramData,
     Begin, Call
<1>7. CASE SdStep
  BY <1>7, Zenon DEF SdStep, EventElapsed, EventCheck, EventWaitEnds, Return,
     args
<1>8. CASE SdCalls
  BY <1>8, Zenon DEF SdCalls, SdCreate, SdTransfer, Call
<1>9. CASE ChipDone \/ Restart \/ Others
  BY <1>9, Zenon DEF ChipDone, Restart, Others, EventNotify, SysTickHandler,
     Fetch, vars, args
<1>10. QED
  BY <1>1, <1>2, <1>3, <1>4, <1>5, <1>6, <1>7, <1>8, <1>9, StepsByBoard

LEMMA IdleStep ==
  ASSUME PlaceTypes, CallAgrees, FailureAgrees, chip \in ChipStates,
         IdleAgrees, EventAgrees, [Next]_vars
  PROVE  IdleAgrees'
<1> USE DEF IdleAgrees
<1>1. CASE FlexspiWriteEnable \/ SpifiWriteEnable
  <2>1. Idle' <=> Idle
    BY <1>1, EnabledLatches DEF FlexspiWriteEnable, SpifiWriteEnable,
       Latches, Idle
  <2>2. QED
    BY <1>1, <2>1, Zenon DEF FlexspiWriteEnable, SpifiWriteEnable, args
<1>2. CASE FlexspiCommand \/ SpifiCommand \/ FlexspiFails
  BY <1>2, Zenon DEF FlexspiCommand, SpifiCommand, FlexspiFails
<1>3. CASE FlexspiStep
  <2>1. CASE FlexspiMask \/ FlexspiWaitBusBusy \/ FlexspiSoftwareReset
             \/ FlexspiUnmask
    BY <2>1, Zenon DEF FlexspiMask, FlexspiWaitBusBusy, FlexspiSoftwareReset,
       FlexspiUnmask, Return, args, Idle, FailureAgrees
  <2>2. QED
    BY <1>1, <1>2, <1>3, <2>1 DEF FlexspiStep
<1>4. CASE SpifiCheckIfFinish
  BY <1>4, Zenon DEF SpifiCheckIfFinish, Return, args, Idle
<1>5. CASE FlexspiCalls \/ SpifiCalls
  BY <1>5, Zenon DEF FlexspiCalls, FlexspiInit, FlexspiErase, FlexspiProgram,
     SpifiCalls, SpifiInit, SpifiErase, SpifiProgram, Begin, Call, Idle
<1>6. CASE StmUnlock \/ StmLock
  <2>1. \/ UNCHANGED chip
        \/ \E on \in BOOLEAN : chip' = [chip EXCEPT !.wel = on]
    BY <1>6 DEF StmUnlock, StmLock
  <2>2. Idle' <=> Idle
    BY <2>1, LatchLatches DEF Latches, Idle
  <2>3. QED
    BY <1>6, <2>2, Zenon DEF StmUnlock, StmLock, Return, args
<1>7. CASE StmStart \/ StmDone
  BY <1>7, Zenon DEF StmStart, StmDone, args, Idle
<1>8. CASE StmCalls
  BY <1>8, Zenon DEF StmCalls, StmInit, StmEraseSector, StmProgramData,
     Begin, Call, Idle
<1>9. CASE EventWaitEnds
  <2>1. pc = "clear" /\ pc' = "idle" /\ UNCHANGED <<board, chip>>
    BY <1>9 DEF EventWaitEnds, Return, args
  <2>a. board = "sdcard"
    <3>1. board \in AllBoards /\ pc \in PlacesOf(board)
      BY BoardsAssumption DEF PlaceTypes, CallAgrees
    <3>2. QED
      BY <2>1, <3>1 DEF AllBoards, PlacesOf
  <2>2. ~troubled' => ~troubled /\ ~event.expired
    BY <1>9, Zenon DEF EventWaitEnds
  <2>3. ~troubled' => Idle
    BY <2>1, <2>a, <2>2 DEF EventAgrees, NewsOfTransfer
  <2>4. QED
    BY <2>1, <2>3 DEF Idle
<1>10. CASE EventElapsed \/ EventCheck \/ SdCalls
  BY <1>10, Zenon DEF EventElapsed, EventCheck, SdCalls, SdCreate,
     SdTransfer, Idle
<1>11. CASE ChipDone
  BY <1>11, ChipDoneEffect
<1>12. CASE Restart
  BY <1>12, Zenon DEF Restart, Idle
<1>13. CASE Others
  <2>1. UNCHANGED <<board, chip, pc, ok, troubled>>
    BY <1>13 DEF Others, EventNotify, SysTickHandler, Fetch, vars, args
  <2>2. QED
    BY <2>1 DEF Idle
<1>14. QED
  BY <1>1, <1>2, <1>3, <1>4, <1>5, <1>6, <1>7, <1>8, <1>9, <1>10, <1>11,
     <1>12, <1>13, StepsByBoard DEF SpifiStep, StmStep, SdStep

LEMMA LatchStep ==
  ASSUME PlaceTypes, CallAgrees, chip \in ChipStates, IdleAgrees, LatchAgrees,
         [Next]_vars
  PROVE  LatchAgrees'
<1> USE DEF LatchAgrees
<1>1. CASE FlexspiWriteEnable \/ SpifiWriteEnable
  <2>1. /\ pc = "enable" /\ chip' = Enabled(chip)
        /\ UNCHANGED troubled
    BY <1>1 DEF FlexspiWriteEnable, SpifiWriteEnable
  <2>2. ~troubled => Idle
    BY <2>1 DEF IdleAgrees
  <2>3. QED
    BY <2>1, <2>2, EnabledLatches
<1>2. CASE FlexspiStep
  <2>1. CASE ~FlexspiWriteEnable
    <3>1. pc' # "command"
      BY <1>2, <2>1, Zenon DEF FlexspiStep, FlexspiMask, FlexspiCommand,
         FlexspiFails, FlexspiWaitBusBusy, FlexspiSoftwareReset,
         FlexspiUnmask, Return
    <3>2. QED
      BY <3>1
  <2>2. QED
    BY <1>1, <2>1
<1>3. CASE SpifiCommand \/ SpifiCheckIfFinish \/ SdStep
  <2>1. pc' # "command"
    BY <1>3, Zenon DEF SpifiCommand, SpifiCheckIfFinish, SdStep,
       EventElapsed, EventCheck, EventWaitEnds, Return
  <2>2. QED
    BY <2>1
<1>4. CASE StmStep
  <2>1. board' = "stm32"
    BY <1>4 DEF StmStep, StmUnlock, StmStart, StmDone, StmLock, Return, args
  <2>2. QED
    BY <2>1
<1>5. CASE FlexspiCalls \/ SpifiCalls \/ StmCalls \/ SdCalls \/ Restart
  <2>1. pc' # "command"
    BY <1>5, Zenon DEF FlexspiCalls, FlexspiInit, FlexspiErase,
       FlexspiProgram, SpifiCalls, SpifiInit, SpifiErase, SpifiProgram,
       StmCalls, StmInit, StmEraseSector, StmProgramData, Begin, SdCalls,
       SdCreate, SdTransfer, Restart
  <2>2. QED
    BY <2>1
<1>6. CASE ChipDone
  <2>1. ~Idle /\ UNCHANGED <<pc, troubled>>
    BY <1>6 DEF ChipDone
  <2>2. QED
    BY <2>1 DEF IdleAgrees
<1>7. CASE Others
  <2>1. UNCHANGED <<board, chip, pc, troubled>>
    BY <1>7 DEF Others, EventNotify, SysTickHandler, Fetch, vars, args
  <2>2. QED
    BY <2>1
<1>8. QED
  BY <1>1, <1>2, <1>3, <1>4, <1>5, <1>6, <1>7, StepsByBoard DEF SpifiStep

(* The board is given.                                                     *)
LEMMA BoardStays ==
  ASSUME [Next]_vars PROVE board' = board
<1>1. CASE FlexspiStep
  BY <1>1, UnmaskEffect DEF FlexspiStep, FlexspiMask, FlexspiWriteEnable,
     FlexspiCommand, FlexspiFails, FlexspiWaitBusBusy, FlexspiSoftwareReset,
     args
<1>2. CASE SpifiStep
  BY <1>2, CheckEffect DEF SpifiStep, SpifiWriteEnable, SpifiCommand, args
<1>3. CASE StmStep \/ SdStep
  BY <1>3 DEF StmStep, StmUnlock, StmStart, StmDone, StmLock, SdStep,
     EventElapsed, EventCheck, EventWaitEnds, Return, args
<1>4. CASE FlexspiCalls \/ SpifiCalls \/ StmCalls \/ SdCalls
  BY <1>4 DEF FlexspiCalls, FlexspiInit, FlexspiErase, FlexspiProgram,
     SpifiCalls, SpifiInit, SpifiErase, SpifiProgram, StmCalls, StmInit,
     StmEraseSector, StmProgramData, Begin, SdCalls, SdCreate, SdTransfer,
     Call
<1>5. CASE ChipDone \/ Restart \/ Others
  BY <1>5 DEF ChipDone, Restart, Others, EventNotify, SysTickHandler, Fetch,
     vars, args
<1>6. QED
  BY <1>1, <1>2, <1>3, <1>4, <1>5, StepsByBoard

LEMMA QuadStep ==
  ASSUME PlaceTypes, FlagTypes, CallAgrees, chip \in ChipStates, IdleAgrees,
         LatchAgrees, QuadAgrees, [Next]_vars
  PROVE  QuadAgrees'
<1>a. ChipMoves /\ board' = board
  BY ChipStep, BoardStays
<1>b. chip.quad \in BOOLEAN /\ chip'.quad \in BOOLEAN
  BY <1>a DEF ChipMoves, ChipStates
<1>c. (board \notin {"flexspi", "spifi"} => chip.quad)'
  BY <1>a DEF ChipMoves, QuadAgrees
<1>d. SUFFICES ASSUME ~chip'.quad, ready', ~troubled'
               PROVE  QuadUnderway'
  BY <1>c DEF QuadAgrees
<1>e. ~chip.quad
  BY <1>a, <1>d DEF ChipMoves
<1>f. board \in {"flexspi", "spifi"}
  BY <1>e DEF QuadAgrees
<1>g. ASSUME ready, ~troubled PROVE QuadUnderway
  BY <1>e, <1>g DEF QuadAgrees
<1>1. CASE FlexspiWriteEnable \/ SpifiWriteEnable
  <2>1. UNCHANGED <<call, ready, troubled>> /\ pc' = "command"
    BY <1>1 DEF FlexspiWriteEnable, SpifiWriteEnable, args
  <2>2. QED
    BY <1>d, <1>g, <2>1 DEF QuadUnderway
<1>2. CASE FlexspiCommand \/ SpifiCommand
  <2>1. /\ UNCHANGED <<call, ready, troubled>> /\ pc = "command"
        /\ pc' = "wait"
    BY <1>2 DEF FlexspiCommand, SpifiCommand, args
  <2>2. Idle /\ chip.wel
    BY <1>d, <1>f, <2>1 DEF IdleAgrees, LatchAgrees
  <2>3. call = "init"
    BY <1>d, <1>g, <2>1 DEF QuadUnderway
  <2>4. chip'.busy.kind = "quad"
    BY <1>2, <2>2, <2>3, CommandEffect DEF Asks
  <2>5. QED
    BY <2>1, <2>3, <2>4 DEF QuadUnderway
<1>3. CASE FlexspiFails
  BY <1>3, <1>d DEF FlexspiFails
<1>4. CASE FlexspiWaitBusBusy
  <2>1. Idle /\ UNCHANGED <<ready, troubled>> /\ pc = "wait"
    BY <1>4, <1>d, Zenon DEF FlexspiWaitBusBusy, args
  <2>2. QED
    BY <1>d, <1>g, <2>1 DEF QuadUnderway, Idle
<1>5. CASE FlexspiSoftwareReset
  <2>1. ~troubled /\ UNCHANGED ready /\ pc = "reset"
    BY <1>5, <1>d, <1>e, Zenon DEF FlexspiSoftwareReset, args
  <2>2. QED
    BY <1>d, <1>g, <2>1 DEF QuadUnderway
<1>6. CASE FlexspiMask \/ FlexspiUnmask
  <2>1. UNCHANGED <<ready, troubled>> /\ pc \in {"mask", "unmask"}
    BY <1>6, UnmaskEffect DEF FlexspiMask, FlexspiUnmask, args
  <2>2. QED
    BY <1>d, <1>g, <2>1 DEF QuadUnderway
<1>7. CASE SpifiCheckIfFinish
  <2>1. ~troubled /\ Idle /\ pc = "wait" /\ UNCHANGED ready
    BY <1>7, <1>d, <1>e, CheckEffect, Zenon DEF SpifiCheckIfFinish
  <2>2. QED
    BY <1>d, <1>g, <2>1 DEF QuadUnderway, Idle
<1>8. CASE FlexspiInit \/ SpifiInit
  BY <1>8, <1>f DEF FlexspiInit, SpifiInit, Call, QuadUnderway
<1>9. CASE \E kind \in {"erase", "program"} : \E a, b \in Pages :
             \E step \in {"mask", "enable"} : Begin(kind, a, b, step)
  <2>1. pc = "idle" /\ ready /\ UNCHANGED troubled
    BY <1>9 DEF Begin, Call
  <2>2. QED
    BY <1>d, <1>g, <2>1 DEF QuadUnderway
<1>10. CASE StmStep \/ StmCalls \/ SdCalls
  BY <1>10, <1>f DEF StmStep, StmUnlock, StmStart, StmDone, StmLock,
     StmCalls, StmInit, StmEraseSector, StmProgramData, SdCalls, SdCreate,
     SdTransfer
<1>11. CASE SdStep
  <2>1. pc \in {"elapsed", "check", "clear"}
    BY <1>11 DEF SdStep, EventElapsed, EventCheck, EventWaitEnds
  <2>2. QED
    BY <1>f, <2>1 DEF CallAgrees, PlacesOf
<1>12. CASE ChipDone
  <2>1. UNCHANGED <<call, pc, ready, troubled>>
    BY <1>12 DEF ChipDone, args
  <2>2. chip.busy.kind # "quad"
    BY <1>12, <1>d, ChipDoneEffect
  <2>3. QED
    BY <1>d, <1>g, <2>1, <2>2 DEF QuadUnderway
<1>13. CASE Restart
  BY <1>13, <1>d DEF Restart
<1>14. CASE Others
  <2>1. UNCHANGED <<chip, call, pc, ready, troubled>>
    BY <1>14 DEF Others, EventNotify, SysTickHandler, Fetch, vars, args
  <2>2. QED
    BY <1>d, <1>g, <2>1 DEF QuadUnderway
<1>15. CASE FlexspiCalls \/ SpifiCalls
  BY <1>8, <1>9, <1>15, Zenon DEF FlexspiCalls, FlexspiErase, FlexspiProgram,
     SpifiCalls, SpifiErase, SpifiProgram
<1>16. QED
  BY <1>1, <1>2, <1>3, <1>4, <1>5, <1>6, <1>7, <1>10, <1>11, <1>12, <1>13,
     <1>14, <1>15, StepsByBoard DEF FlexspiStep, SpifiStep

-----------------------------------------------------------------------------
(* What is kept of the pages.                                              *)

KeptTypes == kept \in [Pages -> Contents \cup {"none"}]

LEMMA FetchSees ==
  ASSUME line = Empty, KeptTypes, chip \in ChipStates, NEW p \in Pages
  PROVE  /\ Seen(p) \in Contents
         /\ Seen(p) = IF kept[p] # "none" THEN kept[p]
                      ELSE IF (board # "stm32" /\ ~Idle) \/ ~chip.quad
                             THEN "garbage" ELSE chip.cell[p]
<1>1. line[p] = "none"
  BY DEF Empty
<1>2. kept[p] \in Contents \cup {"none"} /\ chip.cell[p] \in Contents
  BY ChipFields DEF KeptTypes
<1>3. QED
  BY <1>1, <1>2 DEF Seen, Contents

(* The steps that touch what is kept.                                      *)
LEMMA KeptMoves ==
  ASSUME KeptAgrees, [Next]_vars
  PROVE  /\ line' = Empty
         /\ \/ UNCHANGED kept
            \/ /\ kept' = Empty
               /\ FlexspiInit \/ FlexspiSoftwareReset \/ Restart
            \/ \E p \in Pages : Fetch(p)
<1>a. line = Empty
  BY DEF KeptAgrees
<1>1. CASE FlexspiStep
  <2>1. CASE FlexspiUnmask
    <3>1. \A p \in Pages : line[p] = "none"
      BY <1>a DEF Empty
    <3>2. line' = Empty
      BY <2>1, <3>1 DEF FlexspiUnmask, Empty
    <3>3. QED
      BY <2>1, <3>2 DEF FlexspiUnmask
  <2>2. QED
    BY <1>1, <1>a, <2>1 DEF FlexspiStep, FlexspiMask, FlexspiWriteEnable,
       FlexspiCommand, FlexspiFails, FlexspiWaitBusBusy,
       FlexspiSoftwareReset, caches
<1>2. CASE SpifiStep \/ StmStep \/ SdStep
  BY <1>2, <1>a DEF SpifiStep, SpifiWriteEnable, SpifiCommand,
     SpifiCheckIfFinish, StmStep, StmUnlock, StmStart, StmDone, StmLock,
     SdStep, EventElapsed, EventCheck, EventWaitEnds, caches
<1>3. CASE FlexspiCalls \/ SpifiCalls \/ StmCalls \/ SdCalls
  BY <1>3, <1>a DEF FlexspiCalls, FlexspiInit, FlexspiErase, FlexspiProgram,
     SpifiCalls, SpifiInit, SpifiErase, SpifiProgram, StmCalls, StmInit,
     StmEraseSector, StmProgramData, Begin, SdCalls, SdCreate, SdTransfer,
     caches
<1>4. CASE ChipDone \/ Restart
  BY <1>4, <1>a DEF ChipDone, Restart, caches
<1>5. CASE Others
  BY <1>5, <1>a DEF Others, EventNotify, SysTickHandler, Fetch, DCache,
     caches, vars
<1>6. QED
  BY <1>1, <1>2, <1>3, <1>4, <1>5, StepsByBoard

(* A page is read from the mapped chip, where it is idle.                  *)
LEMMA FetchIsFresh ==
  ASSUME KeptTypes, KeptAgrees, CallAgrees, FailureAgrees, IdleAgrees,
         QuadAgrees, chip \in ChipStates, ready, ~troubled,
         NEW p \in Pages,
         pc \in {"idle", "mask", "unmask"}
  PROVE  Seen(p) = chip.cell[p]
<1>1. Idle /\ chip.quad
  BY DEF IdleAgrees, QuadAgrees, QuadUnderway
<1>2. kept[p] \in {"none", chip.cell[p]} /\ line = Empty
  BY DEF KeptAgrees
<1>3. QED
  BY <1>1, <1>2, FetchSees

LEMMA KeptStep ==
  ASSUME PlaceTypes, FlagTypes, KeptTypes, CallAgrees, FailureAgrees,
         chip \in ChipStates, IdleAgrees, QuadAgrees, KeptAgrees, [Next]_vars
  PROVE  KeptTypes' /\ KeptAgrees'
<1>a. line = Empty /\ line' = Empty /\ board' = board
  BY KeptMoves, BoardStays DEF KeptAgrees
<1>1. CASE kept' = Empty
  <2>1. \A p \in Pages : kept'[p] = "none"
    BY <1>1 DEF Empty
  <2>2. KeptTypes'
    BY <1>1 DEF KeptTypes, Empty
  <2>3. QED
    BY <1>1, <1>a, <2>1, <2>2 DEF KeptAgrees, Empty
<1>2. ASSUME NEW q \in Pages, Fetch(q) PROVE KeptTypes' /\ KeptAgrees'
  <2>1. /\ board = "flexspi" /\ ~shielded
        /\ UNCHANGED <<chip, pc, ready, troubled>>
        /\ kept' = [kept EXCEPT ![q] = Seen(q)]
    BY <1>2 DEF Fetch, args
  <2>2. KeptTypes'
    BY <1>a, <2>1, FetchSees DEF KeptTypes
  <2>3. pc \in {"idle", "mask"}
    BY <2>1 DEF CallAgrees
  <2>4. ASSUME ready, ~troubled, NEW p \in Pages
        PROVE  kept'[p] \in {"none", chip.cell[p]}
    <3>1. kept[p] \in {"none", chip.cell[p]}
      BY <2>3, <2>4 DEF KeptAgrees
    <3>2. Seen(q) = chip.cell[q]
      BY <2>3, <2>4, FetchIsFresh
    <3>3. QED
      BY <2>1, <3>1, <3>2 DEF KeptTypes
  <2>5. QED
    BY <1>a, <2>1, <2>2, <2>4 DEF KeptAgrees, Empty
<1>3. CASE UNCHANGED kept /\ kept # Empty
  <2>1. KeptTypes'
    BY <1>3 DEF KeptTypes
  <2>2. (board # "flexspi" => kept = Empty)'
    BY <1>3, <1>a DEF KeptAgrees, Empty
  <2>3. SUFFICES ASSUME ready', ~troubled', pc' \in {"idle", "mask", "unmask"},
                        NEW p \in Pages
                 PROVE  kept[p] \in {"none", chip'.cell[p]}
    BY <1>3, <1>a, <2>1, <2>2 DEF KeptAgrees, Empty
  <2>4. CASE board # "flexspi"
    BY <2>4 DEF KeptAgrees, Empty
  <2>5. CASE board = "flexspi"
    <3>1. SUFFICES ASSUME ~ChipDone
                   PROVE  /\ ready /\ ~troubled
                          /\ pc \in {"idle", "mask", "unmask"}
      <4>1. CASE ChipDone
        <5>1. ~Idle /\ UNCHANGED <<pc, ready, troubled>>
          BY <4>1 DEF ChipDone, args
        <5>2. Idle
          BY <2>3, <5>1 DEF IdleAgrees
        <5>3. QED
          BY <5>1, <5>2
      <4>2. QED
        BY <3>1, <4>1, ChipStep DEF ChipMoves, KeptAgrees
    <3>2. CASE FlexspiStep
      <4>1. CASE FlexspiUnmask
        BY <2>3, <4>1, UnmaskEffect DEF FlexspiUnmask
      <4>2. CASE FlexspiSoftwareReset
        BY <1>3, <2>3, <4>2 DEF FlexspiSoftwareReset
      <4>3. QED
        BY <2>3, <3>2, <4>1, <4>2
        DEF FlexspiStep, FlexspiMask, FlexspiWriteEnable,
            FlexspiCommand, FlexspiFails, FlexspiWaitBusBusy, args
    <3>3. CASE FlexspiCalls
      <4>1. ~FlexspiInit
        BY <1>3 DEF FlexspiInit
      <4>2. pc = "idle" /\ ready /\ UNCHANGED troubled
        BY <3>3, <4>1, Zenon DEF FlexspiCalls, FlexspiErase, FlexspiProgram,
           Begin, Call
      <4>3. QED
        BY <2>3, <4>2
    <3>4. CASE SdStep
      <4>1. pc \in {"elapsed", "check", "clear"}
        BY <3>4 DEF SdStep, EventElapsed, EventCheck, EventWaitEnds
      <4>2. QED
        BY <2>5, <4>1 DEF CallAgrees, PlacesOf
    <3>5. CASE SpifiStep \/ StmStep \/ SpifiCalls \/ StmCalls \/ SdCalls
      BY <2>5, <3>5 DEF SpifiStep, SpifiWriteEnable, SpifiCommand,
         SpifiCheckIfFinish, StmStep, StmUnlock, StmStart, StmDone, StmLock,
         SpifiCalls, SpifiInit, SpifiErase, SpifiProgram, StmCalls, StmInit,
         StmEraseSector, StmProgramData, SdCalls, SdCreate, SdTransfer
    <3>6. CASE Restart
      BY <1>3, <3>6 DEF Restart
    <3>7. CASE Others
      <4>1. UNCHANGED <<pc, ready, troubled>>
        BY <3>7 DEF Others, EventNotify, SysTickHandler, Fetch, vars, args
      <4>2. QED
        BY <2>3, <4>1
    <3>8. QED
      BY <3>1, <3>2, <3>3, <3>4, <3>5, <3>6, <3>7, StepsByBoard
  <2>6. QED
    BY <2>4, <2>5
<1>4. QED
  BY <1>1, <1>2, <1>3, KeptMoves

-----------------------------------------------------------------------------
(* How far a call has come.                                                *)

LEMMA WorkStays ==
  ASSUME chip'.cell = chip.cell, UNCHANGED <<call, first, last, pos>>
  PROVE  (Asked' <=> Asked) /\ (Answered' <=> Answered)
  BY DEF Asked, Answered, Programmed, SectorErased, Sector

(* What has been answered of one page is asked of the next.                *)
LEMMA WorkGoesOn ==
  ASSUME chip'.cell = chip.cell, UNCHANGED <<call, first, last>>,
         pos' = pos + 1, Answered
  PROVE  Asked'
  BY DEF Asked, Answered, Programmed

LEMMA WorkBegins ==
  ASSUME NEW a \in Pages, NEW b \in Pages, Requests(call', a, b),
         chip' = chip, first' = a, pos' = a, last' = b
  PROVE  Asked'
<1>1. SUFFICES ASSUME call' = "program" PROVE Programmed(pos)'
  BY DEF Asked
<1>2. Erased(a, b)
  BY <1>1 DEF Requests
<1>3. ASSUME NEW p \in Pages
      PROVE  /\ ~(a <= p /\ p < a)
             /\ a <= p /\ p <= b => chip.cell[p] = "erased"
  BY <1>2, PagesAreNumbers DEF Erased
<1>4. QED
  BY <1>3 DEF Programmed

LEMMA WorkPerformed ==
  ASSUME PlaceTypes, CallAgrees, chip \in ChipStates, ChipDone,
         pc # "idle", board # "sdcard", call \in {"erase", "program"},
         chip.busy.kind = call, chip.busy.page = pos, Asked
  PROVE  Answered'
<1>1. /\ UNCHANGED <<board, call, first, last, pos>>
      /\ chip'.cell = Performed(chip.busy, chip.cell)
  BY ChipDoneEffect DEF ChipDone, args
<1>2. pos \in Pages /\ pos \in Nat /\ first \in Nat /\ last \in Nat
  BY PagesAreNumbers DEF PlaceTypes
<1>3. CASE call = "erase"
  <2>1. pos = first
    BY <1>2, <1>3 DEF CallAgrees
  <2>2. \A p \in Sector(first) : chip'.cell[p] = "erased"
    BY <1>1, <1>3, <2>1 DEF Performed, Sector
  <2>3. QED
    BY <1>1, <1>3, <2>2 DEF Answered, SectorErased
<1>4. CASE call = "program"
  <2>1. ASSUME NEW p \in Pages
        PROVE  chip'.cell[p] = IF p = pos
                 THEN IF chip.cell[p] = "erased" THEN "data" ELSE "garbage"
                 ELSE chip.cell[p]
    BY <1>1, <1>4, <2>1 DEF Performed
  <2>2. Programmed(pos)
    BY <1>4 DEF Asked
  <2>3. ASSUME NEW p \in Pages
        PROVE  /\ first <= p /\ p < pos + 1 => chip'.cell[p] = "data"
               /\ pos + 1 <= p /\ p <= last => chip'.cell[p] = "erased"
    <3>1. p \in Nat /\ first <= pos /\ pos <= last
      BY PagesAreNumbers DEF CallAgrees
    <3>2. /\ first <= p /\ p < pos => chip.cell[p] = "data"
          /\ pos <= p /\ p <= last => chip.cell[p] = "erased"
      BY <2>2 DEF Programmed
    <3>3. QED
      BY <1>2, <2>1, <3>1, <3>2
  <2>4. QED
    BY <1>1, <1>4, <2>3 DEF Answered, Programmed
<1>5. QED
  BY <1>3, <1>4

(* A call that goes on.                                                    *)
Going == UNCHANGED <<board, call, first, last, clean>> /\ pc # "idle"

LEMMA AnsweredWhenIdle ==
  ASSUME Underway, pc = "wait", Idle, call \in {"erase", "program"}
  PROVE  Answered
  BY DEF Underway, Idle

LEMMA WorkStep ==
  ASSUME PlaceTypes, FlagTypes, CallAgrees, CleanAgrees, chip \in ChipStates,
         IdleAgrees, LatchAgrees, WorkAgrees, [Next]_vars
  PROVE  WorkAgrees'
<1>a. board' = board
  BY BoardStays
<1>b. SUFFICES ASSUME board # "sdcard", pc' # "idle", clean', ok',
                      call' \in {"erase", "program"}
               PROVE  Underway'
  BY <1>a DEF WorkAgrees, Underway
<1>c. ASSUME Going, ok
      PROVE  /\ Underway /\ ~troubled
             /\ call \in {"erase", "program"}
  BY <1>b, <1>c DEF Going, CleanAgrees, WorkAgrees, Underway
<1>1. CASE FlexspiMask \/ FlexspiWriteEnable \/ SpifiWriteEnable \/ StmUnlock
  <2>1. /\ Going /\ ok /\ UNCHANGED pos
        /\ pc \in {"mask", "enable"} /\ pc' \in {"enable", "command"}
    BY <1>1, <1>b DEF FlexspiMask, FlexspiWriteEnable, SpifiWriteEnable,
       StmUnlock, Going, args
  <2>2. ~ChipDone
    BY <2>1, <1>c DEF ChipDone, IdleAgrees
  <2>3. QED
    BY <1>c, <2>1, <2>2, ChipStep, WorkStays DEF Going, Underway, ChipMoves
<1>2. CASE FlexspiCommand \/ SpifiCommand
  <2>1. /\ Going /\ ok /\ UNCHANGED pos /\ pc = "command" /\ pc' = "wait"
        /\ board # "stm32"
    BY <1>2, <1>b DEF FlexspiCommand, SpifiCommand, Going, args
  <2>2. Idle /\ chip.wel
    BY <1>c, <2>1 DEF IdleAgrees, LatchAgrees
  <2>3. /\ chip'.busy.kind = call /\ chip'.busy.page = pos
        /\ chip'.cell = chip.cell
    BY <1>2, <1>c, <2>1, <2>2, CommandEffect DEF Asks, Begins
  <2>4. QED
    BY <1>c, <2>1, <2>3, WorkStays DEF Going, Underway
<1>3. CASE StmStart
  <2>1. /\ Going /\ ok /\ UNCHANGED pos /\ pc = "command" /\ pc' = "wait"
        /\ chip' = [chip EXCEPT !.busy = [kind |-> call, page |-> pos]]
    BY <1>3, <1>b DEF StmStart, Going, args
  <2>2. pos \in Pages
    BY DEF PlaceTypes
  <2>3. /\ chip'.busy.kind = call /\ chip'.busy.page = pos
        /\ chip'.cell = chip.cell
    BY <1>c, <2>1, <2>2, BusyBegins
  <2>4. QED
    BY <1>c, <2>1, <2>3, WorkStays DEF Going, Underway
<1>4. CASE FlexspiWaitBusBusy \/ FlexspiSoftwareReset
  <2>1. /\ Going /\ ok /\ UNCHANGED <<chip, pos>>
        /\ \/ pc = "wait" /\ Idle /\ pc' = "reset"
           \/ pc = "reset" /\ pc' = "unmask"
    BY <1>4, <1>b, Zenon DEF FlexspiWaitBusBusy, FlexspiSoftwareReset, Going,
       args
  <2>2. Answered
    BY <1>c, <2>1, AnsweredWhenIdle DEF Underway
  <2>3. QED
    BY <2>1, <2>2, WorkStays DEF Going, Underway
<1>5. CASE FlexspiUnmask
  <2>1. /\ Going /\ ok /\ UNCHANGED chip /\ pc = "unmask"
        /\ pos' = pos + 1 /\ pc' = "mask"
    BY <1>5, <1>b, UnmaskEffect DEF FlexspiUnmask, Going
  <2>2. QED
    BY <1>c, <2>1, WorkGoesOn DEF Going, Underway
<1>6. CASE SpifiCheckIfFinish
  <2>1. /\ Going /\ ok /\ UNCHANGED chip /\ pc = "wait" /\ Idle
        /\ pos' = pos + 1 /\ pc' = "enable"
    BY <1>6, <1>b, CheckEffect DEF SpifiCheckIfFinish, Going
  <2>2. QED
    BY <1>c, <2>1, AnsweredWhenIdle, WorkGoesOn DEF Going, Underway
<1>7. CASE StmDone
  <2>1. /\ Going /\ ok /\ UNCHANGED chip /\ pc = "wait" /\ Idle
        /\ \/ pos' = pos + 1 /\ pc' = "command"
           \/ pos' = pos /\ pc' = "lock"
    BY <1>7, <1>b DEF StmDone, Going, args
  <2>2. Answered
    BY <1>c, <2>1, AnsweredWhenIdle
  <2>3. QED
    BY <2>1, <2>2, WorkGoesOn, WorkStays DEF Going, Underway
<1>8. CASE StmLock \/ FlexspiFails
  BY <1>8, <1>b DEF StmLock, Return, FlexspiFails
<1>9. CASE FlexspiInit \/ SpifiInit \/ StmInit \/ Restart
  BY <1>9, <1>b DEF FlexspiInit, SpifiInit, StmInit, Call, Restart
<1>10. CASE \E kind \in {"erase", "program"} : \E a, b \in Pages :
              \E step \in {"mask", "enable"} : Begin(kind, a, b, step)
  <2>1. PICK a \in Pages, b \in Pages :
          /\ Requests(call', a, b) /\ chip' = chip
          /\ first' = a /\ pos' = a /\ last' = b
          /\ pc' \in {"mask", "enable"}
    BY <1>10 DEF Begin, Call
  <2>2. QED
    BY <2>1, WorkBegins DEF Underway
<1>11. CASE SdStep \/ SdCalls
  <2>1. board = "sdcard" \/ pc \in {"elapsed", "check", "clear"}
    BY <1>11 DEF SdStep, EventElapsed, EventCheck, EventWaitEnds, SdCalls,
       SdCreate, SdTransfer
  <2>2. board \in AllBoards /\ pc \in PlacesOf(board)
    BY BoardsAssumption DEF PlaceTypes, CallAgrees
  <2>3. QED
    BY <1>b, <2>1, <2>2 DEF PlacesOf, AllBoards
<1>12. CASE ChipDone
  <2>1. Going /\ ok /\ UNCHANGED <<pos, pc>> /\ ~Idle
    BY <1>12, <1>b DEF ChipDone, Going, args
  <2>2. board \in AllBoards /\ pc \in PlacesOf(board)
    BY BoardsAssumption DEF PlaceTypes, CallAgrees
  <2>3. pc = "wait"
    BY <1>b, <1>c, <2>1, <2>2 DEF IdleAgrees, PlacesOf, AllBoards
  <2>4. Idle' /\ Answered'
    BY <1>12, <1>b, <1>c, <2>1, <2>3, WorkPerformed, ChipDoneEffect DEF
       Underway
  <2>5. QED
    BY <2>1, <2>3, <2>4 DEF Underway
<1>13. CASE Others
  <2>1. Going /\ ok /\ UNCHANGED <<chip, pos, pc>>
    BY <1>13, <1>b DEF Others, EventNotify, SysTickHandler, Fetch, vars,
       args, Going
  <2>2. QED
    BY <1>c, <2>1, WorkStays DEF Going, Underway, Idle
<1>14. CASE FlexspiCalls \/ SpifiCalls \/ StmCalls
  BY <1>9, <1>10, <1>14, Zenon DEF FlexspiCalls, FlexspiErase,
     FlexspiProgram, SpifiCalls, SpifiErase, SpifiProgram, StmCalls,
     StmEraseSector, StmProgramData
<1>15. QED
  BY <1>1, <1>2, <1>3, <1>4, <1>5, <1>6, <1>7, <1>8, <1>9, <1>11, <1>12,
     <1>13, <1>14, StepsByBoard DEF FlexspiStep, SpifiStep, StmStep

-----------------------------------------------------------------------------
(* The news of a transfer of the SD card.                                  *)

LEMMA BoardOfPlace ==
  ASSUME PlaceTypes, CallAgrees
  PROVE  /\ pc \in {"elapsed", "check", "clear"} => board = "sdcard"
         /\ board = "sdcard" =>
              /\ pc \in {"idle", "elapsed", "check", "clear"}
              /\ first = last /\ (pc # "idle" => pos = first)
<1>1. board \in AllBoards /\ pc \in PlacesOf(board)
  BY BoardsAssumption DEF PlaceTypes, CallAgrees
<1>2. pos \in Nat /\ first \in Nat /\ last \in Nat
  BY PagesAreNumbers DEF PlaceTypes
<1>3. board = "sdcard" => first = last /\ (pc # "idle" => pos = first)
  BY <1>2 DEF CallAgrees
<1>4. QED
  BY <1>1, <1>3 DEF PlacesOf, AllBoards

LEMMA NewsStays ==
  ASSUME UNCHANGED <<chip, pos>>, event'.irq = event.irq,
         event'.set = event.set
  PROVE  NewsOfTransfer' <=> NewsOfTransfer
  BY DEF NewsOfTransfer, Idle

LEMMA EventAgreesStep ==
  ASSUME PlaceTypes, FlagTypes, event \in EventStates, chip \in ChipStates,
         CallAgrees, IdleAgrees, EventAgrees, [Next]_vars
  PROVE  EventAgrees'
<1>a. board' = board
  BY BoardStays
<1>b. SUFFICES ASSUME board = "sdcard"
               PROVE  /\ ~troubled' /\ pc' = "idle" =>
                           ~event'.irq /\ ~event'.set
                      /\ ~troubled' /\ pc' # "idle" => NewsOfTransfer'
                      /\ pc' = "clear" => event'.set \/ event'.expired
  BY <1>a DEF EventAgrees, NewsOfTransfer
<1>c. /\ ~troubled /\ pc = "idle" => ~event.irq /\ ~event.set
      /\ ~troubled /\ pc # "idle" => NewsOfTransfer
      /\ pc = "clear" => event.set \/ event.expired
  BY <1>b DEF EventAgrees, NewsOfTransfer
<1>d. /\ event.irq \in BOOLEAN /\ event.set \in BOOLEAN
      /\ event.late \in BOOLEAN /\ event.expired \in BOOLEAN
  BY DEF EventStates
<1>e. /\ event = [set |-> event.set, irq |-> event.irq, late |-> event.late,
                  expired |-> event.expired]
      /\ pos \in Pages
  BY DEF EventStates, PlaceTypes
<1>1. CASE SdCreate
  <2>1. /\ event' = [set |-> FALSE, irq |-> event.irq, late |-> FALSE,
                     expired |-> FALSE]
        /\ pc' = "idle" /\ troubled' = event.irq
    BY <1>1 DEF SdCreate, Quiet
  <2>2. QED
    BY <2>1
<1>2. ASSUME NEW a \in Pages, SdTransfer(a) PROVE EventAgrees'
  <2>1. /\ event' = [set |-> event.set, irq |-> event.irq, late |-> FALSE,
                     expired |-> FALSE]
        /\ pc = "idle" /\ pc' = "elapsed" /\ UNCHANGED troubled
        /\ pos' = a
        /\ chip' = [chip EXCEPT !.busy = [kind |-> "program", page |-> a]]
    BY <1>2, <1>e DEF SdTransfer, Call
  <2>2. chip'.busy.kind = "program" /\ chip'.busy.page = a
    BY <2>1, BusyBegins
  <2>3. ~troubled => NewsOfTransfer'
    BY <1>c, <2>1, <2>2 DEF NewsOfTransfer
  <2>4. QED
    BY <1>a, <1>b, <2>1, <2>3 DEF EventAgrees, NewsOfTransfer
<1>3. CASE EventNotify
  <2>1. /\ event' = [set |-> TRUE, irq |-> FALSE, late |-> event.late,
                     expired |-> event.expired]
        /\ event.irq /\ UNCHANGED <<chip, pc, pos, troubled>>
    BY <1>3, <1>e DEF EventNotify
  <2>2. CASE NewsOfTransfer
    <3>1. Idle /\ chip.cell[pos] = "data"
      BY <2>1, <2>2 DEF NewsOfTransfer
    <3>2. NewsOfTransfer'
      BY <2>1, <3>1 DEF NewsOfTransfer, Idle
    <3>3. QED
      BY <1>c, <2>1, <3>2
  <2>3. QED
    BY <1>c, <2>1, <2>2
<1>4. CASE SysTickHandler \/ EventElapsed
  <2>1. /\ event'.set = event.set /\ event'.irq = event.irq
        /\ UNCHANGED <<chip, pos, troubled>>
        /\ \/ pc' = pc /\ event'.expired = event.expired
           \/ pc = "elapsed" /\ pc' = "check"
    BY <1>4, <1>e DEF SysTickHandler, EventElapsed
  <2>2. QED
    BY <1>c, <2>1, NewsStays
<1>5. CASE EventCheck
  <2>1. /\ UNCHANGED <<chip, event, pos, troubled>>
        /\ pc = "check" /\ pc' \in {"elapsed", "clear"}
        /\ pc' = "clear" => event.set \/ event.expired
    BY <1>5 DEF EventCheck
  <2>2. QED
    BY <1>c, <2>1, NewsStays
<1>6. CASE EventWaitEnds
  <2>1. /\ event' = [set |-> FALSE, irq |-> event.irq, late |-> event.late,
                     expired |-> event.expired]
        /\ pc = "clear" /\ pc' = "idle"
    BY <1>6, <1>e DEF EventWaitEnds, Return
  <2>2. ~troubled' => ~troubled /\ ~event.expired
    BY <1>6, Zenon DEF EventWaitEnds
  <2>3. ~troubled' => ~event.irq
    BY <1>c, <1>d, <2>1, <2>2 DEF NewsOfTransfer
  <2>4. QED
    BY <2>1, <2>3
<1>7. CASE ChipDone
  <2>1. /\ event' = [set |-> event.set, irq |-> TRUE, late |-> event.late,
                     expired |-> event.expired]
        /\ ~Idle /\ UNCHANGED <<pc, pos, troubled>>
    BY <1>7, <1>b, <1>e DEF ChipDone
  <2>2. ~troubled => pc # "idle"
    BY <2>1 DEF IdleAgrees
  <2>3. CASE NewsOfTransfer
    <3>1. /\ chip.busy.kind = "program" /\ chip.busy.page = pos
          /\ ~event.set
      BY <2>1, <2>3 DEF NewsOfTransfer
    <3>2. chip'.cell[pos] = "data" /\ Idle'
      BY <1>7, <1>b, <1>e, <3>1, ChipDoneEffect DEF Performed
    <3>3. NewsOfTransfer'
      BY <2>1, <3>1, <3>2 DEF NewsOfTransfer
    <3>4. QED
      BY <1>c, <2>1, <2>2, <3>3
  <2>4. QED
    BY <1>c, <2>1, <2>2, <2>3
<1>8. CASE Restart
  BY <1>8 DEF Restart, Quiet
<1>9. CASE FlexspiStep \/ FlexspiCalls \/ SpifiStep \/ SpifiCalls
           \/ StmStep \/ StmCalls
  BY <1>9, <1>b DEF FlexspiStep, FlexspiMask, FlexspiWriteEnable,
     FlexspiCommand, FlexspiFails, FlexspiWaitBusBusy, FlexspiSoftwareReset,
     FlexspiUnmask, FlexspiCalls, FlexspiInit, FlexspiErase, FlexspiProgram,
     SpifiStep, SpifiWriteEnable, SpifiCommand, SpifiCheckIfFinish,
     SpifiCalls, SpifiInit, SpifiErase, SpifiProgram,
     StmStep, StmUnlock, StmStart, StmDone, StmLock,
     StmCalls, StmInit, StmEraseSector, StmProgramData
<1>10. CASE UNCHANGED vars \/ \E a \in Pages : Fetch(a)
  <2>1. UNCHANGED vars
    BY <1>10, <1>b DEF Fetch
  <2>2. QED
    BY <1>c, <2>1, NewsStays DEF vars
<1>11. QED
  BY <1>1, <1>2, <1>3, <1>4, <1>5, <1>6, <1>7, <1>8, <1>9, <1>10, <1>a, <1>b,
     StepsByBoard DEF SdStep, SdCalls, Others, EventAgrees, NewsOfTransfer

-----------------------------------------------------------------------------
(* Calls that have returned.                                               *)

LEMMA ReturnStays ==
  ASSUME UNCHANGED <<chip, call, first, last>>
  PROVE  Returned' <=> Returned
  BY DEF Returned, Idle, Programmed, SectorErased, Sector

(* The call returns behind its last page.                                  *)
LEMMA ReturnFromLast ==
  ASSUME chip'.cell = chip.cell, Idle', UNCHANGED <<call, first, last>>,
         pos = last, Answered
  PROVE  Returned'
  BY DEF Returned, Answered, Programmed, SectorErased, Sector

LEMMA ReturnStep ==
  ASSUME PlaceTypes, FlagTypes, event \in EventStates, chip \in ChipStates,
         CallAgrees, CleanAgrees, IdleAgrees, WorkAgrees, EventAgrees,
         ReturnAgrees, [Next]_vars
  PROVE  ReturnAgrees'
<1>a. board' = board /\ CallAgrees'
  BY BoardStays, CallStep
<1>b. SUFFICES ASSUME pc' = "idle", clean', ok', call' \in {"erase", "program"}
               PROVE  Returned'
  BY DEF ReturnAgrees, Returned
<1>c. pos \in Nat /\ first \in Nat /\ last \in Nat
  BY PagesAreNumbers DEF PlaceTypes
<1>d. ASSUME Going, ok
      PROVE  /\ ~troubled /\ pos <= last
             /\ call \in {"erase", "program"}
             /\ board # "sdcard" => Underway
  BY <1>b, <1>d DEF Going, CallAgrees, CleanAgrees, WorkAgrees, Underway
<1>1. CASE FlexspiUnmask
  <2>1. /\ Going /\ ok /\ UNCHANGED chip /\ pc = "unmask" /\ ~(pos < last)
        /\ board = "flexspi"
    BY <1>1, <1>b, UnmaskEffect DEF FlexspiUnmask, Going
  <2>2. Idle /\ pos = last
    BY <1>c, <1>d, <2>1 DEF IdleAgrees
  <2>3. QED
    BY <1>d, <2>1, <2>2, ReturnFromLast DEF Going, Underway, Idle
<1>2. CASE SpifiCheckIfFinish
  <2>1. /\ Going /\ ok /\ UNCHANGED chip /\ pc = "wait" /\ ~(pos < last)
        /\ Idle /\ board # "sdcard"
    BY <1>2, <1>b, CheckEffect DEF SpifiCheckIfFinish, Going
  <2>2. pos = last
    BY <1>c, <1>d, <2>1
  <2>3. QED
    BY <1>d, <2>1, <2>2, AnsweredWhenIdle, ReturnFromLast DEF Going, Idle
<1>3. CASE StmLock
  <2>1. /\ Going /\ ok /\ pc = "lock" /\ board = "stm32"
        /\ chip' = [chip EXCEPT !.wel = FALSE]
    BY <1>3, <1>b DEF StmLock, Return, Going, args
  <2>2. Idle /\ pos = last
    BY <1>d, <2>1 DEF IdleAgrees, CallAgrees
  <2>3. chip'.cell = chip.cell /\ Idle'
    BY <2>1, <2>2, LatchLatches DEF Latches, Idle
  <2>4. QED
    BY <1>d, <2>1, <2>2, <2>3, ReturnFromLast DEF Going, Underway
<1>4. CASE EventWaitEnds
  <2>1. /\ Going /\ UNCHANGED chip /\ pc = "clear" /\ ~event.expired
    BY <1>4, <1>b DEF EventWaitEnds, Return, Going, args
  <2>2. /\ board = "sdcard" /\ ok /\ first = last /\ pos = first
        /\ call # "erase"
    BY <2>1, BoardOfPlace DEF CallAgrees
  <2>3. Idle /\ chip.cell[pos] = "data"
    BY <1>d, <2>1, <2>2 DEF EventAgrees, NewsOfTransfer
  <2>4. ASSUME NEW p \in Pages
        PROVE  /\ first <= p /\ p < last + 1 => p = pos
               /\ ~(last + 1 <= p /\ p <= last)
    BY <1>c, <2>2, PagesAreNumbers
  <2>5. QED
    BY <2>1, <2>2, <2>3, <2>4 DEF Returned, Programmed, Going, Idle
<1>5. CASE FlexspiInit \/ SpifiInit \/ StmInit \/ Restart
  BY <1>5, <1>b DEF FlexspiInit, SpifiInit, StmInit, Call, Restart
<1>6. CASE ChipDone
  <2>1. ~Idle /\ UNCHANGED <<pc, ok, call, clean>>
    BY <1>6 DEF ChipDone, args
  <2>2. QED
    BY <1>b, <2>1 DEF ReturnAgrees, Returned
<1>7. CASE SdCreate \/ Others
  <2>1. UNCHANGED <<chip, pc, call, first, last, ok, clean>>
    BY <1>7 DEF SdCreate, Others, EventNotify, SysTickHandler, Fetch, vars,
       args
  <2>2. QED
    BY <1>b, <2>1, ReturnStays DEF ReturnAgrees, Returned
<1>8. CASE \/ FlexspiMask \/ FlexspiWriteEnable \/ FlexspiCommand
           \/ FlexspiFails \/ FlexspiWaitBusBusy \/ FlexspiSoftwareReset
           \/ SpifiWriteEnable \/ SpifiCommand
           \/ StmUnlock \/ StmStart \/ StmDone
           \/ EventElapsed \/ EventCheck
  BY <1>8, <1>b, Zenon DEF FlexspiMask, FlexspiWriteEnable, FlexspiCommand,
     FlexspiFails, FlexspiWaitBusBusy, FlexspiSoftwareReset,
     SpifiWriteEnable, SpifiCommand, StmUnlock, StmStart, StmDone,
     EventElapsed, EventCheck
<1>9. CASE \E a \in Pages : \/ FlexspiErase(a) \/ SpifiErase(a)
             \/ StmEraseSector(a) \/ SdTransfer(a)
             \/ \E b \in Pages : \/ FlexspiProgram(a, b) \/ SpifiProgram(a, b)
                                 \/ StmProgramData(a, b)
  BY <1>9, <1>b DEF FlexspiErase, SpifiErase, StmEraseSector, SdTransfer,
     FlexspiProgram, SpifiProgram, StmProgramData, Begin
<1>10. QED
  BY <1>1, <1>2, <1>3, <1>4, <1>5, <1>6, <1>7, <1>8, <1>9, StepsByBoard
  DEF FlexspiStep, SpifiStep, StmStep, SdStep, FlexspiCalls, SpifiCalls,
      StmCalls, SdCalls

-----------------------------------------------------------------------------
(* The inductive invariant.                                                *)

TypesAgree ==
  /\ PlaceTypes /\ FlagTypes /\ chip \in ChipStates /\ event \in EventStates
  /\ KeptTypes

DriverAgrees ==
  /\ CallAgrees /\ CleanAgrees /\ FailureAgrees
  /\ IdleAgrees /\ LatchAgrees /\ QuadAgrees

IInv ==
  TypesAgree /\ DriverAgrees /\ KeptAgrees /\ WorkAgrees /\ ReturnAgrees
    /\ EventAgrees

LEMMA InitAgrees == Init => IInv
<1> SUFFICES ASSUME Init PROVE IInv
  OBVIOUS
<1>1. PICK c \in {"old", "erased"} :
        chip = [cell |-> [p \in Pages |-> c], wel |-> FALSE, busy |-> Nothing,
                quad |-> board \notin {"flexspi", "spifi"}]
  BY DEF Init
<1>2. /\ chip \in ChipStates /\ Idle
      /\ chip.quad = (board \notin {"flexspi", "spifi"})
  BY <1>1, ZeroIsAPage DEF ChipStates, Contents, Idle, Nothing
<1>3. PlaceTypes /\ FlagTypes
  BY ZeroIsAPage DEF Init, PlaceTypes, FlagTypes
<1>4. event \in EventStates /\ KeptTypes
  BY DEF Init, EventStates, Quiet, KeptTypes, Empty
<1>5. board \in AllBoards
  BY BoardsAssumption DEF Init
<1>6. CallAgrees
  BY <1>5 DEF Init, CallAgrees, PlacesOf, AllBoards
<1>7. CleanAgrees /\ FailureAgrees /\ LatchAgrees
  BY DEF Init, CleanAgrees, FailureAgrees, LatchAgrees
<1>8. IdleAgrees /\ QuadAgrees
  BY <1>2 DEF Init, IdleAgrees, QuadAgrees
<1>9. KeptAgrees
  BY DEF Init, KeptAgrees, Empty
<1>10. WorkAgrees /\ ReturnAgrees
  BY DEF Init, WorkAgrees, ReturnAgrees
<1>11. EventAgrees
  BY DEF Init, EventAgrees, Quiet
<1>12. QED
  BY <1>2, <1>3, <1>4, <1>6, <1>7, <1>8, <1>9, <1>10, <1>11
  DEF IInv, TypesAgree, DriverAgrees

LEMMA NextAgrees == IInv /\ [Next]_vars => IInv'
<1> SUFFICES ASSUME IInv, [Next]_vars PROVE IInv'
  OBVIOUS
<1> USE DEF IInv, TypesAgree, DriverAgrees
<1>1. PlaceTypes' /\ FlagTypes' /\ event' \in EventStates
  BY PlacesStep, FlagsStep, EventStep
<1>2. (chip \in ChipStates)'
  BY ChipStep DEF ChipMoves
<1>3. KeptTypes' /\ KeptAgrees'
  BY KeptStep
<1>4. CallAgrees' /\ CleanAgrees' /\ FailureAgrees'
  BY CallStep, CleanStep, FailureStep
<1>5. IdleAgrees' /\ LatchAgrees' /\ QuadAgrees'
  BY IdleStep, LatchStep, QuadStep
<1>6. WorkAgrees' /\ ReturnAgrees'
  BY WorkStep, ReturnStep
<1>7. EventAgrees'
  BY EventAgreesStep
<1>8. QED
  BY <1>1, <1>2, <1>3, <1>4, <1>5, <1>6, <1>7

(* The driver, the chip and what lies between them stay in agreement.      *)
THEOREM RequestsAgree == Spec => []IInv
  BY InitAgrees, NextAgrees, PTL DEF Spec

LEMMA AgreedTypes == IInv => TypeOK
<1>1. KeptAgrees => line \in [Pages -> Contents \cup {"none"}]
  BY DEF KeptAgrees, Empty
<1>2. QED
  BY <1>1 DEF IInv, TypesAgree, PlaceTypes, FlagTypes, KeptTypes, TypeOK

(* Every variable keeps its type: the page a call goes on to is a page of  *)
(* the chip, and what the caches are filled with is content of it.         *)
THEOREM RequestsKeepTypes == Spec => []TypeOK
  BY RequestsAgree, AgreedTypes, PTL

LEMMA AgreedReads == IInv => ReadsAreFresh
<1> SUFFICES ASSUME IInv, ready, ~shielded, ~troubled, NEW p \in Pages,
                    pc = "idle" \/ board = "flexspi"
             PROVE  Seen(p) = chip.cell[p]
  BY DEF ReadsAreFresh
<1>1. pc \in {"idle", "mask"}
  BY DEF IInv, DriverAgrees, CallAgrees
<1>2. QED
  BY <1>1, FetchIsFresh DEF IInv, TypesAgree, DriverAgrees

(* Code and data that are read through the memory map, at any point where  *)
(* the driver lets interrupts run, are what the chip holds: neither what   *)
(* the controller or the data cache kept of a page, nor the answer of a    *)
(* busy chip or of one that does not use four lines.                       *)
THEOREM MapShowsTheChip == Spec => []ReadsAreFresh
  BY RequestsAgree, AgreedReads, PTL

LEMMA AgreedSuccess == IInv => SuccessIsPerformed
<1> SUFFICES ASSUME IInv, pc = "idle", ok, clean
             PROVE  /\ call = "erase" =>
                         \A p \in Sector(first) : chip.cell[p] = "erased"
                    /\ call = "program" =>
                         \A p \in first .. last : chip.cell[p] = "data"
  BY DEF SuccessIsPerformed
<1>1. /\ call = "program" => Programmed(last + 1)
      /\ call = "erase" => SectorErased
  BY DEF IInv, ReturnAgrees, Returned
<1>2. first \in Pages /\ last \in Pages
  BY DEF IInv, TypesAgree, PlaceTypes
<1>3. ASSUME NEW p \in first .. last
      PROVE  p \in Pages /\ first <= p /\ p < last + 1
  BY <1>2, PagesAssumption DEF Pages
<1>4. QED
  BY <1>1, <1>3 DEF Programmed, SectorErased

(* On every board: a call that returns success, begun on a chip without a  *)
(* failed transfer behind it, has had each of its pages erased or          *)
(* programmed, and the chip is done with it.                               *)
THEOREM SuccessfulCallsAreDone == Spec => []SuccessIsPerformed
  BY RequestsAgree, AgreedSuccess, PTL
-----------------------------------------------------------------------------
(* The device that FlashDevice describes.                                  *)

(* The kinds of step it tells apart.                                       *)
GoesOn ==
  /\ pc # "idle" /\ pc' # "idle"
  /\ UNCHANGED <<call, first, last, clean>>
  /\ chip'.cell = chip.cell
  /\ InWork' \subseteq InWork \cup Covered

ComesBack ==
  /\ pc # "idle" /\ pc' = "idle"
  /\ UNCHANGED <<call, first, last, clean>>
  /\ chip'.cell = chip.cell /\ chip'.busy = chip.busy

Starts ==
  /\ pc = "idle" /\ pc' # "idle"
  /\ chip'.cell = chip.cell
  /\ InWork' \subseteq InWork \cup Covered'

(* A call of no pages, or a restart.                                       *)
Forgets == pc' = "idle" /\ call' \in {"none", "init"} /\ UNCHANGED chip

Rests == UNCHANGED <<chip, pc, call, first, last, ok, clean>>

LEMMA WorkOfChip ==
  ASSUME chip'.busy = chip.busy PROVE InWork' = InWork
  BY DEF InWork, Sector

(* A command is for pages of its call.                                     *)
LEMMA WorkOfCommand ==
  ASSUME PlaceTypes, CallAgrees, pc # "idle",
         NEW kind \in {"erase", "program", "quad"}, kind \in {call, "quad"},
         chip'.busy.kind = kind, chip'.busy.page = pos
  PROVE  InWork' \subseteq Covered
<1>1. pos \in Nat /\ first \in Nat /\ last \in Nat /\ first <= pos /\ pos <= last
  BY PagesAreNumbers DEF PlaceTypes, CallAgrees
<1>2. CASE kind = "erase"
  <2>1. call = "erase" /\ pos = first
    BY <1>1, <1>2 DEF CallAgrees
  <2>2. InWork' = Sector(pos)
    BY <1>2 DEF InWork, Sector
  <2>3. QED
    BY <2>1, <2>2 DEF Covered
<1>3. CASE kind = "program"
  <2>1. call = "program" /\ InWork' = {pos}
    BY <1>3 DEF InWork
  <2>2. QED
    BY <1>1, <2>1 DEF Covered
<1>4. CASE kind = "quad"
  BY <1>4 DEF InWork
<1>5. QED
  BY <1>2, <1>3, <1>4

LEMMA WorkBegun ==
  ASSUME PlaceTypes, CallAgrees, pc # "idle", Begins(Asks)
  PROVE  chip'.cell = chip.cell /\ InWork' \subseteq InWork \cup Covered
<1>1. Asks \in {"erase", "program", "quad"} /\ Asks \in {call, "quad"}
  BY AsksCommand DEF Asks
<1>2. CASE chip' = chip
  BY <1>2, WorkOfChip
<1>3. CASE chip'.busy.kind = Asks /\ chip'.busy.page = pos
  BY <1>1, <1>3, WorkOfCommand DEF Begins
<1>4. QED
  BY <1>2, <1>3 DEF Begins

LEMMA FlexspiKinds ==
  ASSUME PlaceTypes, FlagTypes, chip \in ChipStates, CallAgrees, FlexspiStep
  PROVE  GoesOn \/ ComesBack
<1>1. CASE FlexspiUnmask
  <2>1. UNCHANGED chip /\ pc = "unmask"
    BY <1>1 DEF FlexspiUnmask
  <2>2. UNCHANGED <<call, first, last, clean>> /\ pc' \in {"mask", "idle"}
    BY <1>1, UnmaskEffect
  <2>3. QED
    BY <2>1, <2>2, WorkOfChip DEF GoesOn, ComesBack
<1>2. CASE FlexspiCommand
  <2>1. Begins(Asks) /\ pc = "command" /\ pc' = "wait" /\ UNCHANGED <<call, first, last, clean>>
    BY <1>2, CommandEffect DEF FlexspiCommand, args
  <2>2. QED
    BY <2>1, WorkBegun DEF GoesOn
<1>3. CASE FlexspiWriteEnable \/ FlexspiFails
  <2>1. /\ pc \in {"enable", "command"} /\ pc' # "idle"
        /\ UNCHANGED <<call, first, last, clean>>
        /\ \/ chip' = chip \/ chip' = Enabled(chip) \/ chip' = Accepted(chip, Asks)
    BY <1>3 DEF FlexspiWriteEnable, FlexspiFails, args, Asks
  <2>2. CASE chip' = Enabled(chip)
    BY <2>1, <2>2, EnabledLatches, WorkOfChip DEF Latches, GoesOn
  <2>3. CASE chip' = Accepted(chip, Asks)
    <3>1. pos \in Pages /\ Asks \in {"erase", "program", "quad"}
      BY <2>1, AsksCommand DEF PlaceTypes
    <3>2. Begins(Asks)
      BY <2>3, <3>1, AcceptedBegins
    <3>3. QED
      BY <2>1, <3>2, WorkBegun DEF GoesOn
  <2>4. CASE chip' = chip
    BY <2>1, <2>4, WorkOfChip DEF GoesOn
  <2>5. QED
    BY <2>1, <2>2, <2>3, <2>4
<1>4. CASE FlexspiMask \/ FlexspiWaitBusBusy \/ FlexspiSoftwareReset
  <2>1. /\ pc \in {"mask", "wait", "reset"} /\ pc' \in {"enable", "reset", "unmask"}
        /\ UNCHANGED <<chip, call, first, last, clean>>
    BY <1>4 DEF FlexspiMask, FlexspiWaitBusBusy, FlexspiSoftwareReset, args
  <2>2. QED
    BY <2>1, WorkOfChip DEF GoesOn
<1>5. QED
  BY <1>1, <1>2, <1>3, <1>4 DEF FlexspiStep

LEMMA SpifiKinds ==
  ASSUME PlaceTypes, FlagTypes, chip \in ChipStates, CallAgrees, SpifiStep
  PROVE  GoesOn \/ ComesBack
<1>1. CASE SpifiCheckIfFinish
  <2>1. UNCHANGED chip /\ pc = "wait"
    BY <1>1 DEF SpifiCheckIfFinish
  <2>2. UNCHANGED <<call, first, last, clean>> /\ pc' \in {"enable", "idle"}
    BY <1>1, CheckEffect
  <2>3. QED
    BY <2>1, <2>2, WorkOfChip DEF GoesOn, ComesBack
<1>2. CASE SpifiCommand
  <2>1. Begins(Asks) /\ pc = "command" /\ pc' = "wait" /\ UNCHANGED <<call, first, last, clean>>
    BY <1>2, CommandEffect DEF SpifiCommand, args
  <2>2. QED
    BY <2>1, WorkBegun DEF GoesOn
<1>3. CASE SpifiWriteEnable
  <2>1. /\ chip' = Enabled(chip) /\ pc = "enable" /\ pc' = "command"
        /\ UNCHANGED <<call, first, last, clean>>
    BY <1>3 DEF SpifiWriteEnable, args
  <2>2. QED
    BY <2>1, EnabledLatches, WorkOfChip DEF Latches, GoesOn
<1>4. QED
  BY <1>1, <1>2, <1>3 DEF SpifiStep

LEMMA StmKinds ==
  ASSUME PlaceTypes, FlagTypes, chip \in ChipStates, CallAgrees, StmStep
  PROVE  GoesOn \/ ComesBack
<1>1. CASE StmUnlock \/ StmLock
  <2>1. /\ pc # "idle" /\ pc' \in {"command", "idle"}
        /\ UNCHANGED <<call, first, last, clean>>
        /\ \/ UNCHANGED chip
           \/ \E on \in BOOLEAN : chip' = [chip EXCEPT !.wel = on]
    BY <1>1 DEF StmUnlock, StmLock, Return, args
  <2>2. chip'.cell = chip.cell /\ chip'.busy = chip.busy
    BY <2>1, LatchLatches DEF Latches
  <2>3. QED
    BY <2>1, <2>2, WorkOfChip DEF GoesOn, ComesBack
<1>2. CASE StmStart
  <2>1. /\ pc = "command" /\ pc' \in {"wait", "lock"}
        /\ UNCHANGED <<call, first, last, clean>>
        /\ \/ UNCHANGED chip
           \/ chip' = [chip EXCEPT !.busy = [kind |-> call, page |-> pos]]
        /\ call \in {"erase", "program"} /\ pos \in Pages
    BY <1>2 DEF StmStart, args, CallAgrees, PlaceTypes
  <2>2. CASE UNCHANGED chip
    BY <2>1, <2>2, WorkOfChip DEF GoesOn
  <2>3. CASE chip' = [chip EXCEPT !.busy = [kind |-> call, page |-> pos]]
    <3>1. chip'.cell = chip.cell /\ chip'.busy.kind = call /\ chip'.busy.page = pos
      BY <2>1, <2>3, BusyBegins
    <3>2. InWork' \subseteq Covered
      BY <2>1, <3>1, WorkOfCommand
    <3>3. QED
      BY <2>1, <3>1, <3>2 DEF GoesOn
  <2>4. QED
    BY <2>1, <2>2, <2>3
<1>3. CASE StmDone
  <2>1. /\ pc = "wait" /\ pc' \in {"command", "lock"}
        /\ UNCHANGED <<chip, call, first, last, clean>>
    BY <1>3 DEF StmDone, args
  <2>2. QED
    BY <2>1, WorkOfChip DEF GoesOn
<1>4. QED
  BY <1>1, <1>2, <1>3 DEF StmStep

LEMMA SdKinds == ASSUME SdStep PROVE GoesOn \/ ComesBack
<1>1. /\ pc # "idle" /\ UNCHANGED <<chip, call, first, last, clean>>
  BY DEF SdStep, EventElapsed, EventCheck, EventWaitEnds, Return, args
<1>2. QED
  BY <1>1, WorkOfChip DEF GoesOn, ComesBack

LEMMA CallKinds ==
  ASSUME chip \in ChipStates, FlexspiCalls \/ SpifiCalls \/ StmCalls \/ SdCalls
  PROVE  Starts \/ Forgets \/ Rests
<1>1. ASSUME NEW kind, NEW a, NEW b, NEW step \in {"mask", "enable"},
             Begin(kind, a, b, step)
      PROVE  Starts
  BY <1>1, WorkOfChip DEF Begin, Call, Starts
<1>2. CASE FlexspiInit \/ SpifiInit \/ StmInit
  <2>1. pc = "idle" /\ call' = "init" /\ UNCHANGED chip
    BY <1>2 DEF FlexspiInit, SpifiInit, StmInit, Call
  <2>2. QED
    BY <2>1, WorkOfChip DEF Starts, Forgets
<1>3. CASE SdCreate
  BY <1>3 DEF SdCreate, Rests
<1>4. ASSUME NEW a \in Pages, SdTransfer(a) PROVE Starts
  <2>1. /\ pc = "idle" /\ pc' = "elapsed"
        /\ call' = "program" /\ first' = a /\ last' = a
        /\ chip' = [chip EXCEPT !.busy = [kind |-> "program", page |-> a]]
    BY <1>4 DEF SdTransfer, Call
  <2>2. chip'.cell = chip.cell /\ chip'.busy.kind = "program" /\ chip'.busy.page = a
    BY <2>1, BusyBegins
  <2>3. InWork' = {a} /\ Covered' = a .. a /\ a \in Nat
    BY <2>1, <2>2, PagesAreNumbers DEF InWork, Covered
  <2>4. QED
    BY <2>1, <2>2, <2>3 DEF Starts
<1>5. QED
  BY <1>1, <1>2, <1>3, <1>4 DEF FlexspiCalls, FlexspiErase, FlexspiProgram,
     SpifiCalls, SpifiErase, SpifiProgram, StmCalls, StmEraseSector,
     StmProgramData, SdCalls

LEMMA StepKinds ==
  ASSUME IInv, [Next]_vars
  PROVE  GoesOn \/ ComesBack \/ Starts \/ Forgets \/ ChipDone \/ Rests
<1>1. PlaceTypes /\ FlagTypes /\ chip \in ChipStates /\ CallAgrees
  BY DEF IInv, TypesAgree, DriverAgrees
<1>2. CASE Restart
  BY <1>2 DEF Restart, Forgets
<1>3. CASE Others
  BY <1>3 DEF Others, EventNotify, SysTickHandler, Fetch, Rests, vars, args
<1>4. QED
  BY <1>1, <1>2, <1>3, FlexspiKinds, SpifiKinds, StmKinds, SdKinds, CallKinds,
     StepsByBoard

(* A chip that is done with a command has changed the pages of it.         *)
LEMMA ChipChanges ==
  ASSUME chip \in ChipStates, ChipDone, NEW p \in Pages \ InWork
  PROVE  chip'.cell[p] = chip.cell[p]
<1>1. chip'.cell = Performed(chip.busy, chip.cell)
  BY ChipDoneEffect
<1>2. /\ chip.busy.kind = "erase" => p \notin Sector(chip.busy.page)
      /\ chip.busy.kind = "program" => p # chip.busy.page
  BY DEF InWork
<1>3. QED
  BY <1>1, <1>2 DEF Performed

(* What a call that has returned success was asked for is there, and the   *)
(* chip does no more about it.                                             *)
Delivered ==
  pc = "idle" /\ clean /\ ok =>
    \A p \in Covered :
      /\ p \in Pages /\ Idle
      /\ chip.cell[p] = IF call = "erase" THEN "erased" ELSE "data"

LEMMA AgreedDelivery == IInv => Delivered
<1> SUFFICES ASSUME IInv, pc = "idle", clean, ok, NEW p \in Covered
             PROVE  /\ p \in Pages /\ Idle
                    /\ chip.cell[p] = IF call = "erase" THEN "erased" ELSE "data"
  BY DEF Delivered
<1>1. call \in {"erase", "program"}
  BY DEF Covered
<1>2. /\ call = "program" => Programmed(last + 1)
      /\ call = "erase" => SectorErased
      /\ Idle
  BY <1>1 DEF IInv, ReturnAgrees, Returned
<1>3. CASE call = "erase"
  BY <1>2, <1>3 DEF Covered, SectorErased, Sector
<1>4. CASE call = "program"
  <2>1. first \in Pages /\ last \in Pages /\ p \in first .. last
    BY <1>4 DEF IInv, TypesAgree, PlaceTypes, Covered
  <2>2. p \in Pages /\ first <= p /\ p < last + 1
    BY <2>1, PagesAssumption DEF Pages
  <2>3. QED
    BY <1>2, <1>4, <2>2 DEF Programmed
<1>5. QED
  BY <1>1, <1>3, <1>4

(* The goal and the loose pages of the instance.                           *)
Aim == [p \in Covered |-> IF call = "erase" THEN "erased" ELSE "data"]
Goal == IF pc # "idle" \/ (ok /\ clean) THEN Aim ELSE <<>>
Loose == InWork \ (IF pc # "idle" THEN Covered ELSE {})

LEMMA AimStays ==
  ASSUME UNCHANGED <<call, first, last>> PROVE Aim' = Aim /\ Covered' = Covered
<1>1. Covered' = Covered
  BY DEF Covered, Sector
<1>2. QED
  BY <1>1 DEF Aim

LEMMA NoAim ==
  /\ call \in {"none", "init"} => Aim = <<>> /\ Covered = {}
  /\ call' \in {"none", "init"} => Aim' = <<>>
<1>1. /\ call \in {"none", "init"} => Covered = {}
      /\ call' \in {"none", "init"} => Covered' = {}
  BY DEF Covered
<1>2. (Covered = {} => Aim = <<>>) /\ (Covered' = {} => Aim' = <<>>)
  BY SMT DEF Aim
<1>3. QED
  BY <1>1, <1>2

LEMMA InitDevice == Init => Device!DeviceInit
<1> SUFFICES ASSUME Init PROVE Device!DeviceInit
  OBVIOUS
<1>1. pc = "idle" /\ call = "none" /\ chip.busy.kind = "none"
  BY DEF Init, Nothing
<1>2. Goal = <<>> /\ Loose = {}
  BY <1>1, NoAim DEF Goal, Loose, InWork
<1>3. QED
  BY <1>1, <1>2 DEF Device!DeviceInit, Device!NoGoal, Goal, Aim, Loose

LEMMA StepDevice ==
  ASSUME IInv, IInv', Delivered', [Next]_vars
  PROVE  [Device!DeviceNext]_(Device!dvars)
<1>a. /\ chip \in ChipStates /\ chip' \in ChipStates
      /\ DOMAIN chip.cell = Pages /\ DOMAIN chip'.cell = Pages
  BY DEF IInv, TypesAgree, ChipStates
<1>b. Device!Open = Loose \cup (IF pc # "idle" THEN DOMAIN Goal ELSE {})
  BY DEF Device!Open, Loose, Goal, Aim
<1>c. DOMAIN Aim = Covered
  BY DEF Aim
<1>d. /\ pc # "idle" => Goal = Aim /\ Device!Open = InWork \cup Covered
      /\ pc = "idle" => Device!Open = InWork
  BY <1>b, <1>c DEF Goal, Loose
<1>1. CASE GoesOn
  <2>1. Goal' = Goal
    BY <1>1, AimStays DEF GoesOn, Goal
  <2>2. Loose' \subseteq Loose
    BY <1>1, AimStays DEF GoesOn, Loose
  <2>3. Device!Work
    BY <1>1, <1>a, <2>1, <2>2
    DEF GoesOn, Device!Work, Device!ChangesOnly, Goal, Aim, Loose
  <2>4. QED
    BY <2>3 DEF Device!DeviceNext
<1>2. CASE ComesBack /\ ok' /\ clean
  <2>1. Goal' = Aim /\ Goal = Aim
    BY <1>2, AimStays DEF ComesBack, Goal
  <2>2. ASSUME NEW p \in Covered
        PROVE  /\ p \in Pages
               /\ chip.cell[p] = IF call = "erase" THEN "erased" ELSE "data"
    <3>1. /\ p \in Covered' /\ UNCHANGED call /\ chip'.cell = chip.cell
          /\ pc' = "idle" /\ clean' /\ ok'
      BY <1>2, <2>2, AimStays DEF ComesBack
    <3>2. QED
      BY <3>1 DEF Delivered
  <2>3. Device!Reached
    BY <1>a, <1>c, <2>1, <2>2 DEF Device!Reached, Goal, Aim
  <2>4. Loose' \subseteq Loose \ DOMAIN Goal
    <3>1. Loose' = InWork /\ DOMAIN Goal = Covered /\ Loose = InWork \ Covered
      BY <1>2, <1>c, <2>1, WorkOfChip DEF ComesBack, Loose
    <3>2. CASE Covered = {}
      BY <3>1, <3>2
    <3>3. CASE Covered # {}
      <4>1. Idle'
        BY <1>2, <3>3, AimStays DEF ComesBack, Delivered
      <4>2. InWork = {}
        BY <1>2, <4>1 DEF ComesBack, InWork, Idle
      <4>3. QED
        BY <3>1, <4>2
    <3>4. QED
      BY <3>2, <3>3
  <2>5. QED
    BY <1>2, <2>1, <2>3, <2>4
    DEF ComesBack, Device!Succeed, Device!DeviceNext, Goal, Aim, Loose
<1>3. CASE ComesBack /\ ~(ok' /\ clean)
  <2>1. Goal' = <<>>
    BY <1>3 DEF ComesBack, Goal
  <2>2. Loose' \subseteq Device!Open
    BY <1>3, <1>d, WorkOfChip DEF ComesBack, Loose
  <2>3. QED
    BY <1>3, <2>1, <2>2
    DEF ComesBack, Device!Fail, Device!NoGoal, Device!DeviceNext, Goal, Aim, Loose
<1>4. CASE Starts
  <2>1. Loose' \subseteq Loose
    BY <1>4 DEF Starts, Loose
  <2>2. QED
    BY <1>4, <2>1 DEF Starts, Device!Ask, Device!DeviceNext, Loose
<1>5. CASE Forgets
  <2>1. Goal' = <<>>
    BY <1>5, NoAim DEF Forgets, Goal
  <2>2. Loose' \subseteq Device!Open
    BY <1>5, <1>d, WorkOfChip DEF Forgets, Loose
  <2>3. QED
    BY <1>5, <2>1, <2>2
    DEF Forgets, Device!Fail, Device!NoGoal, Device!DeviceNext, Goal, Aim, Loose
<1>6. CASE ChipDone
  <2>1. UNCHANGED <<pc, call, first, last, ok, clean>>
    BY <1>6 DEF ChipDone, args
  <2>2. Goal' = Goal
    BY <2>1, AimStays DEF Goal
  <2>3. Loose' \subseteq Loose
    <3>1. Idle'
      BY <1>6, <1>a, ChipDoneEffect
    <3>2. QED
      BY <3>1 DEF Loose, InWork, Idle
  <2>4. \A p \in Pages \ Device!Open : chip'.cell[p] = chip.cell[p]
    BY <1>6, <1>a, <1>d, ChipChanges
  <2>5. Device!ChangesOnly(Device!Open)
    BY <1>a, <2>4 DEF Device!ChangesOnly
  <2>6. QED
    BY <2>1, <2>2, <2>3, <2>5 DEF Device!Work, Device!DeviceNext, Goal, Aim, Loose
<1>7. CASE Rests
  <2>1. Goal' = Goal /\ Loose' = Loose
    BY <1>7, AimStays, WorkOfChip DEF Rests, Goal, Loose
  <2>2. QED
    BY <1>7, <2>1 DEF Rests, Device!dvars, Goal, Aim, Loose
<1>8. QED
  BY <1>1, <1>2, <1>3, <1>4, <1>5, <1>6, <1>7, StepKinds

(* Each board and its chip are a flash of which the drivers above may      *)
(* think one call at a time, restarts and a busy chip included: the safety *)
(* part of ImplementsFlashDevice.                                          *)
THEOREM ImplementsFlashDeviceSafety == Spec => Device!DeviceSafety
<1>1. IInv /\ IInv' /\ Delivered' /\ [Next]_vars
        => [Device!DeviceNext]_(Device!dvars)
  BY StepDevice
<1>2. QED
  BY <1>1, InitDevice, RequestsAgree, AgreedDelivery, PTL DEF Spec, Device!DeviceSafety

LEMMA DeliveryReaches ==
  ASSUME chip \in ChipStates, Delivered, pc = "idle"
  PROVE  Device!Reached
<1>1. DOMAIN chip.cell = Pages /\ DOMAIN Aim = Covered /\ DOMAIN <<>> = {}
  BY DEF ChipStates, Aim
<1>2. CASE ok /\ clean
  <2>1. \A p \in Covered : p \in Pages /\ chip.cell[p] = Aim[p]
    BY <1>2 DEF Delivered, Aim
  <2>2. QED
    BY <1>1, <1>2, <2>1 DEF Device!Reached, Aim
<1>3. CASE ~(ok /\ clean)
  BY <1>1, <1>3 DEF Device!Reached
<1>4. QED
  BY <1>2, <1>3

(* Success is for good: from the return of a call that succeeded to the    *)
(* next call its pages hold what was asked for, whatever the chip and the  *)
(* interrupts do in between.                                               *)
THEOREM SuccessLasts == Spec => [](pc = "idle" => Device!Reached)
<1>1. IInv => (pc = "idle" => Device!Reached)
  BY AgreedDelivery, DeliveryReaches DEF IInv, TypesAgree
<1>2. QED
  BY <1>1, RequestsAgree, PTL
==============================================================================
