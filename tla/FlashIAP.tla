---------------------------- MODULE FlashIAP ----------------------------
(* The flash drivers below the storage of the FreeRTOS ports: erase and  *)
(* program of FlashIAP on RX65N-CK, EVK-MIMXRT1060, EK-RA6M3 and         *)
(* LPCXpresso54628, and of the block devices of EK-RA6M3 (PALBlockDevice)*)
(* and LPCXpresso54628 (ExternalBlockDevice over SPIFI).                 *)
(*                                                                       *)
(* The unit is a program page; addresses count from the start of the     *)
(* flash and are whole pages, so that the checks of the page alignment   *)
(* hold. A page is erased, keeps what it had, is garbage, or holds the   *)
(* i-th page of the buffer being programmed. One action is one request   *)
(* to the flash controller: erase of a sector, write of a page.          *)
EXTENDS Integers

CONSTANTS N,             \* pages of the chip
          AreaEnd,       \* end of the area RX65N-CK gives to FlashIAP
          SectorStart,   \* [port -> [page -> first page of its sector]]
          SectorSize,    \* [port -> [page -> pages of its sector]]
          CallBound,     \* calls in one behaviour
          FailureBound   \* requests the flash controller fails

Ports == {"rx65n", "rt1060", "ra6m3", "ra6m3_bd", "lpc", "spifi_bd"}
Pages == 0 .. N - 1

Garbage == -2
Old     == -1
Erased  == 0

Boundary(d, a) == a = N \/ (a \in Pages /\ SectorStart[d][a] = a)

(* Sectors are intervals that follow each other; on LPC they are pages.  *)
ASSUME LayoutAssumption ==
  /\ N \in Nat \ {0}
  /\ AreaEnd \in 1 .. N - 1
  /\ SectorStart \in [Ports -> [Pages -> Pages]]
  /\ SectorSize \in [Ports -> [Pages -> 1 .. N]]
  /\ \A d \in Ports, p \in Pages :
       LET start == SectorStart[d][p]
           end   == start + SectorSize[d][p]
       IN /\ start <= p /\ p < end /\ end <= N
          /\ Boundary(d, end)
          /\ \A q \in start .. end - 1 : SectorStart[d][q] = start /\ SectorSize[d][q] = SectorSize[d][p]
  /\ \A p \in Pages : SectorSize["lpc"][p] = 1
  /\ CallBound \in Nat
  /\ FailureBound \in Nat

VARIABLES port,      \* the driver in use
          cell,      \* content of each page
          before,    \* content when the last call began
          call,      \* last call: "none", "erase" or "program"
          active,    \* the call has not returned
          first,     \* its address
          size,      \* its size
          source,    \* its buffer: word-aligned "ram", or "flash" or unaligned
          pos,       \* address of the next request
          status,    \* status of the last request is success
          success,   \* what the last call returned
          troubled,  \* the controller failed a request of this call
          calls,     \* calls so far
          failures   \* failed requests so far

vars == <<port, cell, before, call, active, first, size, source, pos, status, success,
          troubled, calls, failures>>
args == <<port, before, call, first, size, source, calls>>

End    == first + size
Span  == first .. End - 1
Sector(p) == SectorStart[port][p] .. SectorStart[port][p] + SectorSize[port][p] - 1
Buffered(p) == p - first + 1

TypeOK ==
  /\ port \in Ports
  /\ cell \in [Pages -> Garbage .. N + 1]
  /\ before \in [Pages -> Garbage .. N + 1]
  /\ call \in {"none", "erase", "program"}
  /\ active \in BOOLEAN /\ status \in BOOLEAN /\ success \in BOOLEAN /\ troubled \in BOOLEAN
  /\ first \in 0 .. N
  /\ size \in 0 .. N + 1
  /\ End <= N + 1
  /\ source \in {"ram", "flash"}
  /\ pos \in Nat
  /\ calls \in 0 .. CallBound
  /\ failures \in 0 .. FailureBound
  /\ active => call # "none"

Init ==
  /\ port \in Ports
  /\ \E c \in {Old, Erased} : cell = [p \in Pages |-> c]
  /\ before = cell
  /\ call = "none" /\ first = 0 /\ size = 0 /\ source = "ram" /\ pos = 0
  /\ active = FALSE /\ status = TRUE /\ success = FALSE /\ troubled = FALSE
  /\ calls = 0 /\ failures = 0

----------------------------------------------------------------------------
(* is_lay_in_boundary of RX65N-CK.                                       *)
LayInBoundary(a, n) == a <= AreaEnd /\ a + n <= AreaEnd

(* The checks erase makes before its first request. RX65N-CK wants both  *)
(* numbers aligned to the sector at the address; the common FlashIAP only*)
(* looks at the sector that follows the range; the block devices check   *)
(* nothing.                                                              *)
EraseAccepted(a, n) ==
  /\ port = "rx65n" => /\ LayInBoundary(a, n)
                       /\ a % SectorSize[port][a] = 0 /\ n % SectorSize[port][a] = 0
  /\ port \in {"rt1060", "ra6m3", "lpc"} =>
       /\ a + n <= N
       /\ a + n < N => (a + n) % SectorSize[port][a + n] = 0

(* The checks of program: the end of the range only on RX65N-CK, LPC (the*)
(* sector of the end cannot be prepared) and the external block device,  *)
(* the address on the others. IAP_CopyRamToFlash takes 256, 512, 1024 or *)
(* 4096 bytes.                                                           *)
ProgramAccepted(a, n) ==
  /\ port = "rx65n" => LayInBoundary(a, n)
  /\ port = "lpc" => a + n < N /\ n \in {1, 2, 4, 16}
  /\ port = "spifi_bd" => a + n <= N
  /\ port \in {"rt1060", "ra6m3", "ra6m3_bd"} => a < N

Call(c, a, n, s) ==
  /\ ~active /\ calls < CallBound
  /\ call' = c /\ first' = a /\ size' = n /\ source' = s /\ pos' = a
  /\ before' = cell /\ status' = TRUE /\ success' = FALSE /\ troubled' = FALSE
  /\ calls' = calls + 1
  /\ UNCHANGED <<port, cell, failures>>

Erase(a, n)      == Call("erase", a, n, "ram")  /\ active' = EraseAccepted(a, n)
Program(a, n, s) == Call("program", a, n, s) /\ active' = ProgramAccepted(a, n)

----------------------------------------------------------------------------
(* Mutants: the last page is left out; a failure does not end the loop.  *)
ErasesOneFewer == active /\ call = "erase" /\ pos < End - 1 /\ (status \/ port = "rx65n")
ErasesOn == active /\ call = "erase" /\ pos < End

(* erase: RX65N-CK counts blocks and looks at the last status only, the  *)
(* other loops end at the first failure.                                 *)
Erases == active /\ call = "erase" /\ pos < End /\ (status \/ port = "rx65n")

(* Mutant: the size of a sector is 0.                                    *)
NextSectorStays == pos

(* Where the next request goes: get_sector_size(addr) is the size at the *)
(* start of the range on RX65N-CK, at the address of the request         *)
(* elsewhere, INVALID_SIZE or 0 after the chip.                          *)
NextSector == pos + SectorSize[port][IF port = "rx65n" THEN first ELSE pos]

(* Mutant: every port erases one page more.                              *)
TargetsAsLpc == {pos, pos + 1}

(* The pages one erase request covers. On LPC the end page and the end   *)
(* sector of the request are those of the byte after the page.           *)
Targets == IF port = "lpc" THEN {pos, pos + 1} ELSE Sector(pos)

EraseSector ==
  /\ Erases
  /\ pos < N /\ Targets \subseteq Pages
  /\ cell' = [p \in Pages |-> IF p \in Targets THEN Erased ELSE cell[p]]
  /\ status' = TRUE
  /\ pos' = NextSector
  /\ UNCHANGED <<args, active, success, troubled, failures>>

(* A request outside the chip is refused, on LPC also one for its last   *)
(* page; the driver of EK-RA6M3 may refuse an address inside a sector.   *)
EraseRefused ==
  /\ Erases
  /\ \/ pos >= N
     \/ (port = "lpc" /\ pos = N - 1)
     \/ (port \in {"ra6m3", "ra6m3_bd"} /\ ~Boundary(port, pos))
  /\ status' = FALSE
  /\ pos' = End
  /\ UNCHANGED <<args, cell, active, success, troubled, failures>>

(* The controller fails; SPIFI reports no status at all.                 *)
EraseFails ==
  /\ Erases /\ port # "spifi_bd"
  /\ pos < N /\ Targets \subseteq Pages
  /\ failures < FailureBound
  /\ \E c \in {cell, [p \in Pages |-> IF p \in Targets THEN Garbage ELSE cell[p]]} : cell' = c
  /\ status' = FALSE
  /\ pos' = NextSector
  /\ troubled' = TRUE /\ failures' = failures + 1
  /\ UNCHANGED <<args, active, success>>

----------------------------------------------------------------------------
(* program: RX65N-CK always writes one page and looks at the last status,*)
(* LPC writes the range with one request, the other loops end at the     *)
(* first failure.                                                        *)
Cycles == IF port = "rx65n" /\ size = 0 THEN 1 ELSE size

Programs == active /\ call = "program" /\ pos < first + Cycles /\ (status \/ port = "rx65n")

Written == IF port = "lpc" THEN Span ELSE {pos}
NextPage == IF port = "lpc" THEN End ELSE pos + 1

(* Mutant: every page is given the first page of the buffer.             *)
GivenFirst(p) == IF port = "lpc" /\ source = "flash" /\ p # first THEN Garbage ELSE 1

(* What the controller is given for a page. A source in flash or an      *)
(* unaligned one is copied to RAM page by page, on LPC the first page    *)
(* only: the later ones are what follows the local buffer.               *)
Given(p) == IF port = "lpc" /\ source = "flash" /\ p # first THEN Garbage ELSE Buffered(p)

ProgramPage ==
  /\ Programs
  /\ pos < N
  /\ cell' = [p \in Pages |-> IF p \notin Written THEN cell[p]
                              ELSE IF cell[p] = Erased THEN Given(p) ELSE Garbage]
  /\ status' = TRUE
  /\ pos' = NextPage
  /\ UNCHANGED <<args, active, success, troubled, failures>>

(* A page after the chip: the driver of EK-RA6M3 refuses it; FlexSPI may *)
(* as well accept a command that no chip answers.                        *)
ProgramPastEnd ==
  /\ Programs
  /\ pos >= N
  /\ status' \in {FALSE, port = "rt1060"}
  /\ pos' = NextPage
  /\ UNCHANGED <<args, cell, active, success, troubled, failures>>

ProgramFails ==
  /\ Programs /\ port # "spifi_bd"
  /\ pos < N
  /\ failures < FailureBound
  /\ \E c \in {cell, [p \in Pages |-> IF p \in Written THEN Garbage ELSE cell[p]]} : cell' = c
  /\ status' = FALSE
  /\ pos' = NextPage
  /\ troubled' = TRUE /\ failures' = failures + 1
  /\ UNCHANGED <<args, active, success>>

----------------------------------------------------------------------------
(* RX65N-CK compares the whole range with the buffer after the last page.*)
Verified ==
  call = "program" /\ port = "rx65n" => \A p \in Span : cell[p] = Buffered(p)

Return ==
  /\ active /\ ~Erases /\ ~Programs
  /\ success' = (status /\ Verified)
  /\ active' = FALSE
  /\ pos' = 0
  /\ UNCHANGED <<args, cell, status, troubled, failures>>

Step == EraseSector \/ EraseRefused \/ EraseFails
        \/ ProgramPage \/ ProgramPastEnd \/ ProgramFails \/ Return

Next ==
  \/ \E a \in 0 .. N, n \in 0 .. N + 1 :
       a + n <= N + 1 /\ (Erase(a, n) \/ \E s \in {"ram", "flash"} : Program(a, n, s))
  \/ Step

Spec == Init /\ [][Next]_vars /\ WF_vars(Step)

----------------------------------------------------------------------------
Finished(c) == ~active /\ call = c
Succeeded(c) == Finished(c) /\ success

(* What FlashIAP.h asks of its callers.                                  *)
SectorAligned == Boundary(port, first) /\ Boundary(port, End)

(* An erase from the start of a sector that returns success has erased   *)
(* every page of its range. Two cases of RX65N-CK are not covered: a     *)
(* failed block followed by a good one, and a range that goes on behind  *)
(* FLASH_CF_BLOCK_7, where blocks are smaller than at its start.         *)
EraseSucceeds ==
  /\ Succeeded("erase") /\ Boundary(port, first)
  /\ port = "rx65n" => ~troubled /\ \A p \in Span : SectorSize[port][p] = SectorSize[port][first]
  => \A p \in Span : cell[p] = Erased

(* Whatever a call returns, pages outside its range keep their content,  *)
(* so that a driver never damages what its neighbour stores. Not covered:*)
(* an erase request of LPC covers one page more, and a program of no     *)
(* bytes on RX65N-CK writes one page.                                    *)
OnlyRange ==
  /\ ~active
  /\ call = "erase" => SectorAligned /\ port # "lpc"
  /\ call = "program" => ~(port = "rx65n" /\ size = 0)
  => \A p \in Pages \ Span : cell[p] = before[p]

(* A program of erased pages that returns success has put the buffer     *)
(* there, page by page; RX65N-CK promises so for any pages. Not covered: *)
(* LPC with more than one page from flash or from an unaligned buffer.   *)
ProgramWritesBuffer ==
  /\ Succeeded("program")
  /\ port # "rx65n" => \A p \in Span : p \in Pages /\ before[p] = Erased
  /\ ~(port = "lpc" /\ source = "flash" /\ size > 1)
  => \A p \in Span : cell[p] = Buffered(p)

(* A request the controller failed makes the call fail, also when later  *)
(* requests would have worked; RX65N-CK only reports the last one.       *)
NoSilentFailure ==
  ~active /\ troubled /\ port # "rx65n" => ~success

(* What the storage above may rely on. An erase covers whole sectors, on  *)
(* LPC the page behind each of its pages; a program of RX65N-CK at least *)
(* one page. Success is promised where EraseSucceeds and                 *)
(* ProgramWritesBuffer promise it.                                       *)
RequestAt(p) == IF port = "lpc" THEN {p, p + 1} ELSE Sector(p)

Covered ==
  IF call = "erase"
    THEN Span \cup {q \in Pages : \E p \in Span \cap Pages : q \in RequestAt(p)}
    ELSE first .. first + Cycles - 1

Wanted(p) == IF call = "erase" THEN Erased ELSE Buffered(p)

Promised ==
  \/ /\ call = "erase" /\ Boundary(port, first)
     /\ port = "rx65n" => ~troubled /\ \A p \in Span : SectorSize[port][p] = SectorSize[port][first]
  \/ /\ call = "program"
     /\ IF port = "rx65n" THEN size > 0
        ELSE /\ \A p \in Span : p \in Pages /\ before[p] = Erased
             /\ ~(port = "lpc" /\ source = "flash" /\ size > 1)

Device == INSTANCE FlashDevice
            WITH content <- cell,
                 goal <- IF active \/ (success /\ Promised)
                           THEN [p \in Covered |-> Wanted(p)] ELSE <<>>,
                 loose <- {}

(* Every driver is such a device: at no time does a page outside of what *)
(* its call covers change, success means that the call left what it      *)
(* promised, and every call returns, also one whose range leaves the     *)
(* chip, where the size of a sector is 0 or INVALID_SIZE.                *)
ImplementsFlashDevice == Device!DeviceSpec

=============================================================================
