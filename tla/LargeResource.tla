---------------------------- MODULE LargeResource ----------------------------
(***************************************************************************)
(* The example resource for large payloads, 5000/0/2 (pdmc_example.cpp).   *)
(* The cloud reads it in blocks; the read callback allocates one shared    *)
(* buffer, large_res_data, at offset 0 and hands out pointers into it, and *)
(* the delivery status callback frees it.  A pointer that was handed out   *)
(* is used by the client library until that block is acknowledged.         *)
(***************************************************************************)
EXTENDS Naturals

CONSTANTS
  Transfers,      \* reads of the resource the cloud may have open
  LargeResSize,   \* large_res_size
  BlockSize,      \* buffer_size the library asks for: the CoAP block size
  Overlap,        \* may a read start before the previous one was reported?
  AllocBound      \* bound on the number of allocations explored

ASSUME SizeAssumption ==
  LargeResSize \in Nat \ {0} /\ BlockSize \in Nat \ {0} /\ AllocBound \in Nat
ASSUME OverlapAssumption == Overlap \in BOOLEAN

NULL == 0               \* buffers are numbered from 1 in allocation order
Statuses == {"SENT", "DELIVERED", "SEND_FAILED"}

VARIABLES
  large_res_data,       \* the static pointer: a buffer or NULL
  allocated,            \* number of buffers allocated so far
  frees,                \* how often each buffer has been freed
  got,                  \* bytes of its read each transfer has been handed
  held,                 \* the block the library holds for each transfer
  crashed               \* a write through NULL stopped the device

largeVars == <<large_res_data, allocated, frees, got, held, crashed>>

Buffers == 1 .. AllocBound
NoBlock == [buf |-> NULL, offset |-> 0, size |-> 0]
Blocks == [buf : {NULL} \cup Buffers, offset : 0 .. LargeResSize,
           size : 0 .. LargeResSize]

LargeTypeOK ==
  /\ large_res_data \in {NULL} \cup Buffers
  /\ allocated \in 0 .. AllocBound
  /\ frees \in [Buffers -> Nat]
  /\ got \in [Transfers -> 0 .. LargeResSize]
  /\ held \in [Transfers -> Blocks]
  /\ crashed \in BOOLEAN

LargeInit ==
  /\ large_res_data = NULL
  /\ allocated = 0
  /\ frees = [b \in Buffers |-> 0]
  /\ got = [t \in Transfers |-> 0]
  /\ held = [t \in Transfers |-> NoBlock]
  /\ crashed = FALSE

Open(t) == got[t] > 0
Live(b) == b \in 1 .. allocated /\ frees[b] = 0

(* Mutant: the last block is not shortened.                                *)
LengthUnadjusted(offset) == BlockSize

(* buffer_size after "Adjust last package size".                           *)
LengthAt(offset) ==
  IF offset + BlockSize > LargeResSize
    THEN LargeResSize - offset
    ELSE BlockSize

(* The tail of the read callback, with the buffer it has by then: no       *)
(* buffer is answered with an error, which ends the read.                  *)
Respond(t, buf, offset) ==
  IF buf = NULL
    THEN /\ got' = [got EXCEPT ![t] = 0]
         /\ held' = [held EXCEPT ![t] = NoBlock]
    ELSE /\ got' = [got EXCEPT ![t] = offset + LengthAt(offset)]
         /\ held' = [held EXCEPT ![t] =
              [buf |-> buf, offset |-> offset, size |-> LengthAt(offset)]]

Malloc ==
  /\ allocated < AllocBound
  /\ allocated' = allocated + 1
  /\ large_res_data' = allocated + 1

(* A request with offset 0.  When malloc fails the memset writes through   *)
(* NULL: the device faults, or survives it and answers with an error.      *)
ReadFirst(t) ==
  /\ ~crashed
  /\ ~Open(t)
  /\ Overlap \/ \A u \in Transfers : ~Open(u)
  /\ UNCHANGED frees
  /\ \/ /\ Malloc
        /\ Respond(t, large_res_data', 0)
        /\ UNCHANGED crashed
     \/ /\ large_res_data' = NULL
        /\ crashed' \in BOOLEAN
        /\ Respond(t, NULL, 0)
        /\ UNCHANGED allocated

(* A request with offset > 0: the previous block has been acknowledged,    *)
(* and the pointer is whatever it is by now.                               *)
ReadNext(t) ==
  /\ ~crashed
  /\ got[t] \in 1 .. LargeResSize - 1
  /\ Respond(t, large_res_data, got[t])
  /\ UNCHANGED <<large_res_data, allocated, frees, crashed>>

(* Mutant: the callback frees for every status.                            *)
FreesOnAny(status) == TRUE

(* The statuses on which large_res_sent_cb frees the buffer.               *)
FreesOn(status) == status \in {"DELIVERED", "SEND_FAILED"}

(* large_res_sent_cb; the pointer keeps its value when it is freed.        *)
LargeResSentCb(status) ==
  /\ UNCHANGED <<large_res_data, allocated, crashed>>
  /\ frees' = IF FreesOn(status) /\ large_res_data # NULL
                THEN [frees EXCEPT ![large_res_data] = @ + 1]
                ELSE frees

(* What the library reports: SENT while a block waits for its              *)
(* acknowledgement, SEND_FAILED at any point of a read, DELIVERED at its   *)
(* end; the last two finish the read.                                      *)
ReportStatus(t, status) ==
  /\ ~crashed
  /\ Open(t)
  /\ status = "DELIVERED" => got[t] = LargeResSize
  /\ \A b \in Buffers : frees[b] < 2
  /\ LargeResSentCb(status)
  /\ IF status = "SENT"
       THEN UNCHANGED <<got, held>>
       ELSE /\ got' = [got EXCEPT ![t] = 0]
            /\ held' = [held EXCEPT ![t] = NoBlock]

LargeNext ==
  \E t \in Transfers :
    \/ ReadFirst(t)
    \/ ReadNext(t)
    \/ \E status \in Statuses : ReportStatus(t, status)

LargeSpec == LargeInit /\ [][LargeNext]_largeVars

-----------------------------------------------------------------------------
(* Properties.                                                             *)

(* The memory the library is sending from has been allocated and not yet   *)
(* been freed.                                                             *)
HeldBlocksAreLive ==
  \A t \in Transfers : held[t] # NoBlock => Live(held[t].buf)

(* No buffer is passed to free() twice.                                    *)
NeverFreedTwice == \A b \in Buffers : frees[b] <= 1

(* When no read is open, every buffer has been given back.                 *)
NothingLeaksAtRest ==
  (\A t \in Transfers : ~Open(t)) => \A b \in Buffers : ~Live(b)

(* Whoever sends from the shared buffer, and in whatever order reports     *)
(* come, each allocation is used while it is live and given back once.     *)
BufferIsOwned == HeldBlocksAreLive /\ NeverFreedTwice /\ NothingLeaksAtRest

(* A block never reaches past the end of the buffer, and the blocks of a   *)
(* read follow each other without a gap.                                   *)
BlocksStayInside ==
  \A t \in Transfers : held[t] # NoBlock =>
    /\ held[t].offset + held[t].size <= LargeResSize
    /\ held[t].size > 0
    /\ got[t] = held[t].offset + held[t].size
=============================================================================
