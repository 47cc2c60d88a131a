--------------------------- MODULE StorageRequests ---------------------------
(***************************************************************************)
(* How a single request reaches a storage chip and how the driver learns   *)
(* that it is done: the layer below FlashIAP and the block devices.  A     *)
(* chip works on its own once it has a command; the driver enables the     *)
(* write, sends the command and waits.                                     *)
(*                                                                         *)
(*   flexspi  EVK-MIMXRT1060: program code runs from the same chip, so     *)
(*            interrupts are masked while it is busy, and what the         *)
(*            controller and the data cache keep of it must be dropped     *)
(*   spifi    LPCXpresso54628, with a chip that has to be told to use four *)
(*            lines; the controller leaves its memory mode for a command   *)
(*   mt25q    the same with a chip that needs no telling                   *)
(*   stm32    KEIL: internal flash, unlocked for each call                 *)
(*   sdcard   the SD card of the NXP ports, with an event set by interrupt *)
(***************************************************************************)
EXTENDS Naturals

CONSTANTS
  Boards,   \* the boards to look at
  N         \* pages of the chip, in sectors of two

AllBoards == {"flexspi", "spifi", "mt25q", "stm32", "sdcard"}

ASSUME BoardsAssumption == Boards \subseteq AllBoards
ASSUME PagesAssumption == N \in Nat \ {0}

Pages == 0 .. N - 1
Sector(p) == {q \in Pages : q \div 2 = p \div 2}

VARIABLES
  board,     \* the board in use, fixed
  chip,      \* content, write-enable latch, command in work, four lines
  pc,        \* where the driver is
  call,      \* last call: "none", "init", "erase" or "program"
  pos,       \* its current page
  first,     \* its first page
  last,      \* its last page
  ok,        \* status: no request of the call has failed
  ready,     \* port_storage_init has been called
  shielded,  \* interrupts are masked, or the controller is in command mode
  kept,      \* what the controller's buffers keep of a page
  line,      \* what the data cache keeps of a page
  event,     \* g_eventTransferComplete, the interrupt that sets it, clock
  troubled,  \* a transfer failed, or was cut, and no call has cleared up
  clean      \* the last call began without such trouble

vars == <<board, chip, pc, call, pos, first, last, ok, ready, shielded, kept,
          line, event, troubled, clean>>

Contents == {"old", "erased", "data", "garbage"}
Nothing == [kind |-> "none", page |-> 0]
Commands == [kind : {"none", "erase", "program", "quad"}, page : Pages]
Quiet == [set |-> FALSE, irq |-> FALSE, late |-> FALSE, expired |-> FALSE]

ChipStates == [cell : [Pages -> Contents], wel : BOOLEAN, busy : Commands,
               quad : BOOLEAN]
EventStates == [set : BOOLEAN, irq : BOOLEAN, late : BOOLEAN,
                expired : BOOLEAN]

TypeOK ==
  /\ board \in Boards
  /\ chip \in ChipStates
  /\ pc \in {"idle", "mask", "enable", "command", "wait", "reset", "unmask",
             "lock", "elapsed", "check", "clear"}
  /\ call \in {"none", "init", "erase", "program"}
  /\ pos \in Pages /\ first \in Pages /\ last \in Pages
  /\ ok \in BOOLEAN /\ ready \in BOOLEAN /\ shielded \in BOOLEAN
  /\ kept \in [Pages -> Contents \cup {"none"}]
  /\ line \in [Pages -> Contents \cup {"none"}]
  /\ event \in EventStates
  /\ troubled \in BOOLEAN /\ clean \in BOOLEAN

Empty == [p \in Pages |-> "none"]

Init ==
  /\ board \in Boards
  /\ \E c \in {"old", "erased"} :
       chip = [cell |-> [p \in Pages |-> c], wel |-> FALSE, busy |-> Nothing,
               quad |-> board \notin {"flexspi", "spifi"}]
  /\ pc = "idle" /\ call = "none"
  /\ pos = 0 /\ first = 0 /\ last = 0
  /\ ok = TRUE /\ ready = FALSE /\ shielded = FALSE
  /\ kept = Empty /\ line = Empty
  /\ event = Quiet
  /\ troubled = FALSE /\ clean = TRUE

args == <<board, call, first, last, ready, clean>>
caches == <<kept, line>>

-----------------------------------------------------------------------------
(* The chip.                                                               *)

Idle == chip.busy.kind = "none"

(* A busy chip, or one without the latch, does not listen.                 *)
Enabled(c) == IF c.busy.kind = "none" THEN [c EXCEPT !.wel = TRUE] ELSE c

Accepted(c, kind) ==
  IF c.busy.kind = "none" /\ c.wel
    THEN [c EXCEPT !.wel = FALSE, !.busy = [kind |-> kind, page |-> pos]]
    ELSE c

(* Programming takes an erased page; an SD card erases by itself.          *)
Performed(op, cell) ==
  [p \in Pages |->
     CASE op.kind = "erase" /\ p \in Sector(op.page) -> "erased"
       [] op.kind = "program" /\ p = op.page ->
            IF cell[p] = "erased" \/ board = "sdcard" THEN "data" ELSE "garbage"
       [] OTHER -> cell[p]]

ChipDone ==
  /\ ~Idle
  /\ chip' = [chip EXCEPT !.cell = Performed(chip.busy, @),
                          !.quad = @ \/ chip.busy.kind = "quad",
                          !.busy = Nothing]
  /\ event' = IF board = "sdcard" THEN [event EXCEPT !.irq = TRUE] ELSE event
  /\ UNCHANGED <<args, pc, pos, ok, shielded, caches, troubled>>

(* What a read through the memory map sees of a page now.                  *)
Seen(p) ==
  IF line[p] # "none" THEN line[p]
  ELSE IF kept[p] # "none" THEN kept[p]
  ELSE IF (board # "stm32" /\ ~Idle) \/ ~chip.quad THEN "garbage"
  ELSE chip.cell[p]

(* Mutant: main leaves the data cache as the start-up code has set it.     *)
DCacheOn == TRUE

(* main of the EVK-MIMXRT1060 switches the data cache off.                 *)
DCache == FALSE

(* Code runs, and data are read, from the chip of the EVK-MIMXRT1060.      *)
Fetch(p) ==
  /\ board = "flexspi" /\ ~shielded /\ Idle
  /\ kept' = [kept EXCEPT ![p] = Seen(p)]
  /\ line' = IF DCache THEN [line EXCEPT ![p] = Seen(p)] ELSE line
  /\ UNCHANGED <<args, chip, pc, pos, ok, shielded, event, troubled>>

-----------------------------------------------------------------------------
(* Calls.                                                                  *)

Call(kind, a, b) ==
  /\ pc = "idle"
  /\ call' = kind /\ first' = a /\ last' = b /\ pos' = a
  /\ ok' = TRUE /\ clean' = ~troubled
  /\ UNCHANGED <<board, troubled>>

(* The caller programs what is erased.                                     *)
Erased(a, b) == \A p \in a .. b : chip.cell[p] = "erased"

Requests(kind, a, b) ==
  \/ kind = "erase" /\ a = b
  \/ kind = "program" /\ a <= b /\ Erased(a, b)

Begin(kind, a, b, step) ==
  /\ ready
  /\ Requests(kind, a, b)
  /\ Call(kind, a, b)
  /\ pc' = step
  /\ UNCHANGED <<chip, ready, caches, event>>

Return ==
  /\ pc' = "idle"
  /\ UNCHANGED <<args, pos>>

-----------------------------------------------------------------------------
(* FlexSPI: flexspi_nor_flash_ops.c below rt1060_flexspi_storage.c.        *)

(* port_storage_init asks for quad mode once, and returns 0 in any case.   *)
FlexspiInit ==
  /\ board = "flexspi" /\ ~ready
  /\ Call("init", 0, 0)
  /\ ready' = TRUE
  /\ shielded' = TRUE
  /\ kept' = Empty
  /\ pc' = "enable"
  /\ UNCHANGED <<chip, line, event>>

FlexspiErase(a) ==
  /\ board = "flexspi"
  /\ Begin("erase", a, a, "mask")
  /\ UNCHANGED shielded

FlexspiProgram(a, b) ==
  /\ board = "flexspi"
  /\ Begin("program", a, b, "mask")
  /\ UNCHANGED shielded

FlexspiMask ==
  /\ board = "flexspi" /\ pc = "mask"
  /\ shielded' = TRUE
  /\ pc' = "enable"
  /\ UNCHANGED <<args, chip, pos, ok, caches, event, troubled>>

FlexspiWriteEnable ==
  /\ board = "flexspi" /\ pc = "enable"
  /\ chip' = Enabled(chip)
  /\ pc' = "command"
  /\ UNCHANGED <<args, pos, ok, shielded, caches, event, troubled>>

FlexspiCommand ==
  /\ board = "flexspi" /\ pc = "command"
  /\ chip' = Accepted(chip, IF call = "init" THEN "quad" ELSE call)
  /\ pc' = "wait"
  /\ UNCHANGED <<args, pos, ok, shielded, caches, event, troubled>>

(* A failed transfer, whether or not the chip has heard it: the function   *)
(* returns without a reset of the controller.                              *)
FlexspiFails ==
  /\ board = "flexspi" /\ pc \in {"enable", "command"}
  /\ chip' \in {chip, IF pc = "enable" THEN Enabled(chip)
                      ELSE Accepted(chip, IF call = "init" THEN "quad" ELSE call)}
  /\ ok' = FALSE /\ troubled' = TRUE
  /\ pc' = "unmask"
  /\ UNCHANGED <<args, pos, shielded, caches, event>>

(* flexspi_nor_wait_bus_busy: polls, or returns the status of a failed     *)
(* transfer.                                                               *)
FlexspiWaitBusBusy ==
  /\ board = "flexspi" /\ pc = "wait"
  /\ \/ Idle /\ UNCHANGED <<ok, troubled>>
     \/ ok' = FALSE /\ troubled' = TRUE
  /\ pc' = "reset"
  /\ UNCHANGED <<args, chip, pos, shielded, caches, event>>

FlexspiSoftwareReset ==
  /\ board = "flexspi" /\ pc = "reset"
  /\ kept' = Empty
  /\ troubled' = IF ok THEN troubled /\ ~chip.quad ELSE TRUE
  /\ pc' = "unmask"
  /\ UNCHANGED <<args, chip, pos, ok, shielded, line, event>>

(* The address given to DCACHE_InvalidateByRange counts from the start of  *)
(* the chip, which the processor sees at START_ADDRESS, behind N.          *)
StartAddress == N
Invalidated(a) == {p \in Pages : StartAddress + p \in a .. a + 1}

(* Interrupts are enabled again, also between two pages.                   *)
FlexspiUnmask ==
  /\ board = "flexspi" /\ pc = "unmask"
  /\ line' = [p \in Pages |-> IF p \in Invalidated(pos) THEN "none" ELSE line[p]]
  /\ shielded' = FALSE
  /\ IF ok /\ pos < last
       THEN pos' = pos + 1 /\ pc' = "mask" /\ UNCHANGED args
       ELSE Return
  /\ UNCHANGED <<chip, ok, kept, event, troubled>>

-----------------------------------------------------------------------------
(* SPIFI: lpc546xx_spifi_storage.c.                                        *)

(* Every port_storage_init sets the controller up; enable_quad_mode is     *)
(* only there for the chips that need it.                                  *)
SpifiInit ==
  /\ board \in {"spifi", "mt25q"}
  /\ Call("init", 0, 0)
  /\ ready' = TRUE
  /\ IF board = "spifi" THEN pc' = "enable" /\ shielded' = TRUE
                        ELSE pc' = "idle" /\ UNCHANGED shielded
  /\ UNCHANGED <<chip, caches, event>>

(* SPIFI_ResetCommand leaves the memory mode.                              *)
SpifiErase(a) ==
  /\ board \in {"spifi", "mt25q"}
  /\ Begin("erase", a, a, "enable")
  /\ shielded' = TRUE

SpifiProgram(a, b) ==
  /\ board \in {"spifi", "mt25q"}
  /\ Begin("program", a, b, "enable")
  /\ shielded' = TRUE

SpifiWriteEnable ==
  /\ board \in {"spifi", "mt25q"} /\ pc = "enable"
  /\ chip' = Enabled(chip)
  /\ pc' = "command"
  /\ UNCHANGED <<args, pos, ok, shielded, caches, event, troubled>>

SpifiCommand ==
  /\ board \in {"spifi", "mt25q"} /\ pc = "command"
  /\ chip' = Accepted(chip, IF call = "init" THEN "quad" ELSE call)
  /\ pc' = "wait"
  /\ UNCHANGED <<args, pos, ok, shielded, caches, event, troubled>>

(* check_if_finish, and SPIFI_SetMemoryCommand behind the last page.       *)
SpifiCheckIfFinish ==
  /\ board \in {"spifi", "mt25q"} /\ pc = "wait"
  /\ Idle
  /\ troubled' = (troubled /\ ~chip.quad)
  /\ IF pos < last
       THEN pos' = pos + 1 /\ pc' = "enable" /\ UNCHANGED <<args, shielded>>
       ELSE Return /\ shielded' = FALSE
  /\ UNCHANGED <<chip, ok, caches, event>>

-----------------------------------------------------------------------------
(* STM32: Driver_Flash.c.                                                  *)

(* Waits for what is running, or for its timeout.                          *)
StmInit ==
  /\ board = "stm32"
  /\ Call("init", 0, 0)
  /\ ready' = TRUE
  /\ pc' = "idle"
  /\ UNCHANGED <<chip, shielded, caches, event>>

(* flash_unlock; a failed one ends the call.                               *)
StmEraseSector(a) ==
  /\ board = "stm32"
  /\ Begin("erase", a, a, "enable")
  /\ UNCHANGED shielded

StmProgramData(a, b) ==
  /\ board = "stm32"
  /\ Begin("program", a, b, "enable")
  /\ UNCHANGED shielded

StmUnlock ==
  /\ board = "stm32" /\ pc = "enable"
  /\ \/ chip' = [chip EXCEPT !.wel = TRUE] /\ pc' = "command" /\ UNCHANGED ok
     \/ ok' = FALSE /\ pc' = "idle" /\ UNCHANGED chip
  /\ UNCHANGED <<args, pos, shielded, caches, event, troubled>>

(* HAL_FLASH_Program or HAL_FLASHEx_Erase first wait for what is running,  *)
(* and give up when that takes too long.                                   *)
StmStart ==
  /\ board = "stm32" /\ pc = "command"
  /\ \/ /\ Idle
        /\ chip' = [chip EXCEPT !.busy = [kind |-> call, page |-> pos]]
        /\ pc' = "wait"
        /\ UNCHANGED <<ok, troubled>>
     \/ /\ ~Idle
        /\ ok' = FALSE /\ troubled' = TRUE
        /\ pc' = "lock"
        /\ UNCHANGED chip
  /\ UNCHANGED <<args, pos, shielded, caches, event>>

(* The HAL's status, which may be a timeout, ends the loop.                *)
StmDone ==
  /\ board = "stm32" /\ pc = "wait"
  /\ \/ /\ Idle
        /\ IF pos < last THEN pos' = pos + 1 /\ pc' = "command"
                         ELSE pc' = "lock" /\ UNCHANGED pos
        /\ UNCHANGED <<ok, troubled>>
     \/ ok' = FALSE /\ troubled' = TRUE /\ pc' = "lock" /\ UNCHANGED pos
  /\ UNCHANGED <<args, chip, shielded, caches, event>>

StmLock ==
  /\ board = "stm32" /\ pc = "lock"
  /\ chip' = [chip EXCEPT !.wel = FALSE]
  /\ troubled' = (troubled /\ ~Idle)
  /\ Return
  /\ UNCHANGED <<ok, shielded, caches, event>>

-----------------------------------------------------------------------------
(* SD card: event_platform.c, as the vendor's host driver calls it.        *)

SdCreate ==
  /\ board = "sdcard"
  /\ Idle
  /\ pc = "idle"
  /\ event' = [Quiet EXCEPT !.irq = event.irq]
  /\ ready' = TRUE
  /\ troubled' = event.irq
  /\ UNCHANGED <<board, chip, pc, call, pos, first, last, ok, shielded, caches,
                 clean>>

(* The driver starts a transfer when the host is free, and waits.          *)
SdTransfer(a) ==
  /\ board = "sdcard" /\ ready
  /\ Idle
  /\ Call("program", a, a)
  /\ chip' = [chip EXCEPT !.busy = [kind |-> "program", page |-> a]]
  /\ event' = [event EXCEPT !.late = FALSE, !.expired = FALSE]
  /\ pc' = "elapsed"
  /\ UNCHANGED <<ready, shielded, caches>>

EventNotify ==
  /\ event.irq
  /\ event' = [event EXCEPT !.irq = FALSE, !.set = TRUE]
  /\ UNCHANGED <<args, chip, pc, pos, ok, shielded, caches, troubled>>

(* The timeout passes.                                                     *)
SysTickHandler ==
  /\ pc \in {"elapsed", "check"} /\ ~event.late
  /\ event' = [event EXCEPT !.late = TRUE]
  /\ UNCHANGED <<args, chip, pc, pos, ok, shielded, caches, troubled>>

EventElapsed ==
  /\ pc = "elapsed"
  /\ event' = [event EXCEPT !.expired = event.late]
  /\ pc' = "check"
  /\ UNCHANGED <<args, chip, pos, ok, shielded, caches, troubled>>

(* Mutant: only the event ends the wait.                                   *)
EventCheckUntimed ==
  /\ pc = "check"
  /\ pc' = IF ~event.set THEN "elapsed" ELSE "clear"
  /\ UNCHANGED <<args, chip, pos, ok, shielded, caches, event, troubled>>

EventCheck ==
  /\ pc = "check"
  /\ pc' = IF ~event.set /\ ~event.expired THEN "elapsed" ELSE "clear"
  /\ UNCHANGED <<args, chip, pos, ok, shielded, caches, event, troubled>>

(* Mutant: the event is left set for the next wait.                        *)
EventWaitLeftSet ==
  /\ pc = "clear"
  /\ ok' = ~event.expired
  /\ troubled' = (troubled \/ event.expired)
  /\ Return
  /\ UNCHANGED <<chip, shielded, caches, event>>

(* The event is reset and the time read before it was looked at decides.   *)
EventWaitEnds ==
  /\ pc = "clear"
  /\ event' = [event EXCEPT !.set = FALSE]
  /\ ok' = ~event.expired
  /\ troubled' = (troubled \/ event.expired)
  /\ Return
  /\ UNCHANGED <<chip, shielded, caches>>

-----------------------------------------------------------------------------
(* The processor restarts, the chip does not.                              *)
Restart ==
  /\ pc' = "idle" /\ call' = "none"
  /\ pos' = 0 /\ first' = 0 /\ last' = 0
  /\ ok' = TRUE /\ ready' = FALSE /\ shielded' = FALSE
  /\ kept' = Empty /\ line' = Empty
  /\ event' = Quiet
  /\ troubled' = ~Idle /\ clean' = TRUE
  /\ UNCHANGED <<board, chip>>

FlexspiStep ==
  \/ FlexspiMask \/ FlexspiWriteEnable \/ FlexspiCommand \/ FlexspiFails
  \/ FlexspiWaitBusBusy \/ FlexspiSoftwareReset \/ FlexspiUnmask

SpifiStep == SpifiWriteEnable \/ SpifiCommand \/ SpifiCheckIfFinish
StmStep == StmUnlock \/ StmStart \/ StmDone \/ StmLock
SdStep == EventElapsed \/ EventCheck \/ EventWaitEnds
Step == FlexspiStep \/ SpifiStep \/ StmStep \/ SdStep

Next ==
  \/ Step
  \/ ChipDone \/ EventNotify \/ SysTickHandler
  \/ FlexspiInit \/ SpifiInit \/ StmInit \/ SdCreate
  \/ \E a \in Pages :
       \/ FlexspiErase(a) \/ SpifiErase(a) \/ StmEraseSector(a)
       \/ SdTransfer(a) \/ Fetch(a)
       \/ \E b \in Pages :
            FlexspiProgram(a, b) \/ SpifiProgram(a, b) \/ StmProgramData(a, b)
  \/ Restart

(* The driver and the chip go on, and time passes.                         *)
Fairness ==
  WF_vars(Step) /\ WF_vars(ChipDone) /\ WF_vars(SysTickHandler)

Spec == Init /\ [][Next]_vars /\ Fairness

-----------------------------------------------------------------------------
(* Properties.                                                             *)

(* Whenever code may read the chip through the memory map, in an interrupt *)
(* between two pages included, it sees what the chip holds.                *)
ReadsAreFresh ==
  ready /\ ~shielded /\ ~troubled =>
    \A p \in Pages : pc = "idle" \/ board = "flexspi" => Seen(p) = chip.cell[p]

(* A call that returns success has been performed: the chip has listened   *)
(* to each command and has finished it.  Not covered: a call after a       *)
(* failed or cut one; the chip may still be busy then and not listen, and  *)
(* the event may belong to the transfer before.                            *)
SuccessIsPerformed ==
  pc = "idle" /\ ok /\ clean =>
    /\ call = "erase" => \A p \in Sector(first) : chip.cell[p] = "erased"
    /\ call = "program" => \A p \in first .. last : chip.cell[p] = "data"

(* What the drivers above may rely on: a call changes only its own pages,  *)
(* and a chip that was left alone in the middle of a command still changes *)
(* the pages of that command.                                              *)
Covered ==
  CASE call = "erase"   -> Sector(first)
    [] call = "program" -> first .. last
    [] OTHER            -> {}

InWork ==
  CASE chip.busy.kind = "erase"   -> Sector(chip.busy.page)
    [] chip.busy.kind = "program" -> {chip.busy.page}
    [] OTHER                      -> {}

Device == INSTANCE FlashDevice
            WITH content <- chip.cell,
                 active <- pc # "idle",
                 goal <- IF pc # "idle" \/ (ok /\ clean)
                           THEN [p \in Covered |->
                                   IF call = "erase" THEN "erased" ELSE "data"]
                           ELSE <<>>,
                 loose <- InWork \ (IF pc # "idle" THEN Covered ELSE {})

(* Every board is such a device, through restarts of the processor and     *)
(* calls that find the chip busy: no page changes but those of the call    *)
(* and those the chip was told of before, a call without trouble that      *)
(* succeeds has done its pages for good, and no call waits for ever.       *)
ImplementsFlashDevice == Device!DeviceSpec
=============================================================================
