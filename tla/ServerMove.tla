----------------------------- MODULE ServerMove -----------------------------
(***************************************************************************)
(* What a migration to another bootstrap server promises, whatever fails   *)
(* and wherever power is lost: the device is pointed to the new server,    *)
(* the credentials of the old one are wiped, that both are done is put on  *)
(* record, and only then does the client run and may be issued new         *)
(* credentials.  A recorded move is not undone; it is only repeated by a   *)
(* boot that could not read the record, and then loses the credentials.    *)
(* Whether a boot that has done both and cannot put them on record gives   *)
(* up or runs is left open.                                                *)
(***************************************************************************)
CONSTANT Credentials    \* what the server of a device issues to it

VARIABLES
  pointed,      \* the device is pointed to the new server
  credentials,  \* the credentials it has
  recorded,     \* the move is on record
  doubted,      \* this boot has not been able to read the record
  running       \* the client runs

mvars == <<pointed, credentials, recorded, doubted, running>>

MoveTypeOK ==
  /\ pointed \in BOOLEAN /\ recorded \in BOOLEAN
  /\ doubted \in BOOLEAN /\ running \in BOOLEAN
  /\ credentials \subseteq Credentials

MInit ==
  /\ pointed \in BOOLEAN
  /\ credentials \subseteq Credentials
  /\ recorded = FALSE /\ doubted = FALSE /\ running = FALSE

Moving == ~running /\ (recorded => doubted)

Point ==
  /\ Moving /\ ~recorded
  /\ pointed' = TRUE
  /\ UNCHANGED <<credentials, recorded, doubted, running>>

Wipe ==
  /\ Moving
  /\ \E c \in credentials : credentials' = credentials \ {c}
  /\ UNCHANGED <<pointed, recorded, doubted, running>>

(* The record is the last thing to be written, and the client runs.        *)
Record ==
  /\ Moving /\ pointed /\ credentials = {}
  /\ recorded' = TRUE /\ running' = TRUE
  /\ UNCHANGED <<pointed, credentials, doubted>>

(* Without a record, which the next boot makes up for by moving again: the *)
(* credentials issued meanwhile are wiped.                                 *)
RunUnrecorded ==
  /\ Moving /\ pointed /\ credentials = {}
  /\ running' = TRUE
  /\ UNCHANGED <<pointed, credentials, recorded, doubted>>

Doubt ==
  /\ ~running /\ recorded /\ ~doubted
  /\ doubted' = TRUE
  /\ UNCHANGED <<pointed, credentials, recorded, running>>

RunAgain ==
  /\ ~running /\ recorded /\ ~doubted
  /\ running' = TRUE
  /\ UNCHANGED <<pointed, credentials, recorded, doubted>>

Issue ==
  /\ running
  /\ \E c \in Credentials \ credentials : credentials' = credentials \cup {c}
  /\ UNCHANGED <<pointed, recorded, doubted, running>>

Reset ==
  /\ doubted' = FALSE /\ running' = FALSE
  /\ UNCHANGED <<pointed, credentials, recorded>>

MNext ==
  \/ Point \/ Wipe \/ Record \/ RunUnrecorded \/ Doubt \/ RunAgain \/ Issue
  \/ Reset

MoveSafety == MInit /\ [][MNext]_mvars

(* A device that has nothing left to do for the move, or has done it       *)
(* before, comes up in the end.                                            *)
MoveSpec == MoveSafety /\ WF_mvars(Record \/ RunAgain)
=============================================================================
