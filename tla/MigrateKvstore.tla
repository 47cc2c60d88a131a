--------------------------- MODULE MigrateKvstore ---------------------------
(***************************************************************************)
(* The migration of a device to another bootstrap server                   *)
(* (migrate_kvstore.cpp), run by application_init at every boot.  Four     *)
(* keys of the key-value store are replaced, the LwM2M credentials of the  *)
(* old server are removed, and a flag key records that all is done.        *)
(*                                                                         *)
(* Every action is one key of the store: a write of the store is atomic,   *)
(* fails or succeeds, and power may be lost between any two of them.       *)
(***************************************************************************)
EXTENDS Integers

CONSTANTS
  NewUriLen,     \* strlen(new_BS_server)
  InitialValues, \* what the keys may hold before the migration
  ErrorBound,    \* bound on the store operations that fail
  BootBound      \* bound on the losses of power explored

ASSUME BoundsAssumption ==
  NewUriLen \in Nat /\ ErrorBound \in Nat /\ BootBound \in Nat

(* The keys in the order they are replaced: backup URI, working URI,       *)
(* backup CA, working CA.                                                  *)
Keys == 1 .. 4
UriKeys == {1, 2}

(* The keys of kvstore_clear_LwM2M_info in the order they are removed.     *)
LwM2MKeys == 1 .. 4

(* strlen(backupBootstrapURI), the length given with the new URI.          *)
KeyNameLen == 40

(* What a key may hold: the new value, the new value cut short or with     *)
(* bytes from behind its end, the old one, one of more than                *)
(* MAX_CONTENT_LEN bytes.                                                  *)
Values == {"new", "cut", "overread", "old", "oversize"}

(* The bytes kv_set is given for a key.                                    *)
Replacement(k) ==
  CASE k \notin UriKeys \/ NewUriLen = KeyNameLen -> "new"
    [] k \in UriKeys /\ NewUriLen > KeyNameLen -> "cut"
    [] k \in UriKeys /\ NewUriLen < KeyNameLen -> "overread"

ASSUME InitialValuesAssumption == InitialValues \subseteq [Keys -> Values]

VARIABLES
  present,       \* the bootstrap keys that exist
  value,         \* what they hold
  locked,        \* those stored with the write-once flag
  lwm2m,         \* the LwM2M keys that exist
  migrated,      \* does migrationKey exist?
  pc,            \* where the boot is
  at,            \* the key the loop is at
  failed,        \* status, or failed: has an operation failed in this boot?
  misread,       \* migrationKey exists but could not be read in this boot
  errors,        \* operations that have failed so far
  losses         \* losses of power so far

store == <<present, value, locked, lwm2m, migrated>>
vars == <<present, value, locked, lwm2m, migrated, pc, at, failed, misread,
          errors, losses>>

TypeOK ==
  /\ present \subseteq Keys /\ locked \subseteq present
  /\ value \in [Keys -> Values]
  /\ lwm2m \subseteq LwM2MKeys
  /\ migrated \in BOOLEAN
  /\ pc \in {"check", "replace", "clear", "flag", "running", "halted"}
  /\ at \in 1 .. 4
  /\ failed \in BOOLEAN /\ misread \in BOOLEAN
  /\ errors \in 0 .. ErrorBound
  /\ losses \in 0 .. BootBound

(* A device in the field: any of the keys may be missing, the values are   *)
(* the old ones or larger than expected, and it has been bootstrapped or   *)
(* not.                                                                    *)
Init ==
  /\ present \in SUBSET Keys
  /\ value \in InitialValues
  /\ locked = {}
  /\ lwm2m \in {{}, LwM2MKeys}
  /\ migrated = FALSE
  /\ pc = "check"
  /\ at = 1
  /\ failed = FALSE
  /\ misread = FALSE
  /\ errors = 0
  /\ losses = 0

MayFail == errors < ErrorBound
KeepKeys == UNCHANGED <<present, value, locked>>

(* Mutant: the boot does not return early.                                 *)
CheckIgnored ==
  /\ pc = "check"
  /\ pc' = "replace" /\ at' = 1 /\ failed' = FALSE
  /\ misread' = FALSE
  /\ UNCHANGED <<store, errors, losses>>

(* kv_get_info(migrationKey): any error means that migration is not done.  *)
CheckMigrated ==
  /\ pc = "check"
  /\ at' = 1
  /\ failed' = FALSE
  /\ \/ /\ pc' = (IF migrated THEN "running" ELSE "replace")
        /\ misread' = FALSE
        /\ UNCHANGED errors
     \/ /\ MayFail
        /\ pc' = "replace"
        /\ misread' = migrated
        /\ errors' = errors + 1
  /\ UNCHANGED <<store, losses>>

SetNewValue(k) ==
  /\ present' = present \cup {k}
  /\ value' = [value EXCEPT ![k] = Replacement(k)]

(* Mutant: the loop leaves out the last key.                               *)
NextKeySkipsLast(then) ==
  IF at < 3 THEN at' = at + 1 /\ UNCHANGED pc ELSE at' = 1 /\ pc' = then

(* Go on with the next of the four keys, or with what follows the loop.    *)
NextKey(then) ==
  IF at < 4 THEN at' = at + 1 /\ UNCHANGED pc ELSE at' = 1 /\ pc' = then

(* kvstore_locate_and_replace when kv_get_info succeeds.  A write-once key *)
(* holds the replacement, so no set of it is tried here.                   *)
ReplaceKnown(k) ==
  /\ k \in present
  /\ \/ /\ value[k] = "oversize"
        /\ failed' = TRUE
        /\ KeepKeys /\ UNCHANGED errors
     \/ /\ value[k] # "oversize" /\ MayFail          \* kv_get or kv_set
        /\ failed' = TRUE
        /\ errors' = errors + 1
        /\ KeepKeys
     \/ /\ value[k] = Replacement(k)
        /\ KeepKeys /\ UNCHANGED <<failed, errors>>
     \/ /\ value[k] \notin {"oversize", Replacement(k)}
        /\ SetNewValue(k)
        /\ UNCHANGED <<locked, failed, errors>>

(* ... and when it fails, because the key is missing or for another        *)
(* reason.  The flags handed to kv_set are then an uninitialized local:    *)
(* the key may become write-once, or the set be refused.  A write-once key *)
(* refuses every set.                                                      *)
ReplaceUnknown(k) ==
  /\ \/ k \notin present /\ UNCHANGED errors
     \/ MayFail /\ errors' = errors + 1
  /\ \/ /\ k \notin locked
        /\ SetNewValue(k)
        /\ locked' \in {locked, locked \cup {k}}
        /\ UNCHANGED failed
     \/ failed' = TRUE /\ KeepKeys

Replace ==
  /\ pc = "replace"
  /\ ReplaceKnown(at) \/ ReplaceUnknown(at)
  /\ NextKey("clear")
  /\ UNCHANGED <<lwm2m, migrated, misread, losses>>

(* Mutant: a key that is not there counts as a failure.                    *)
ClearMissingFails ==
  /\ pc = "clear"
  /\ \/ at \in lwm2m /\ lwm2m' = lwm2m \ {at} /\ UNCHANGED <<failed, errors>>
     \/ at \notin lwm2m /\ failed' = TRUE /\ UNCHANGED <<lwm2m, errors>>
     \/ MayFail /\ failed' = TRUE /\ errors' = errors + 1 /\ UNCHANGED lwm2m
  /\ NextKey("flag")
  /\ UNCHANGED <<present, value, locked, migrated, misread, losses>>

(* kvstore_clear_LwM2M_info: a key that is not there is fine; any failure  *)
(* is reported after the other keys have been tried.                       *)
Clear ==
  /\ pc = "clear"
  /\ \/ lwm2m' = lwm2m \ {at} /\ UNCHANGED <<failed, errors>>
     \/ MayFail /\ failed' = TRUE /\ errors' = errors + 1 /\ UNCHANGED lwm2m
  /\ NextKey("flag")
  /\ UNCHANGED <<present, value, locked, migrated, misread, losses>>

(* Mutant: the flag is written whatever happened.                          *)
WriteFlagAnyway ==
  /\ pc = "flag"
  /\ migrated' = TRUE
  /\ pc' = IF failed THEN "halted" ELSE "running"
  /\ UNCHANGED <<present, value, locked, lwm2m, at, failed, misread, errors,
                 losses>>

(* Mutant: application_init goes on after a migration that failed.         *)
WriteFlagGoesOn ==
  /\ pc = "flag"
  /\ pc' = "running"
  /\ \/ failed /\ UNCHANGED migrated
     \/ ~failed /\ migrated' = TRUE
  /\ UNCHANGED <<present, value, locked, lwm2m, at, failed, misread, errors,
                 losses>>

(* The end of migrate_kvstore: a non-zero status, that of a flag which     *)
(* could not be written included, makes application_init return false, and *)
(* main_application returns; the comment above the return says otherwise.  *)
WriteFlag ==
  /\ pc = "flag"
  /\ \/ /\ failed
        /\ pc' = "halted"
        /\ UNCHANGED <<migrated, errors>>
     \/ /\ ~failed
        /\ migrated' = TRUE
        /\ pc' = "running"
        /\ UNCHANGED errors
     \/ /\ ~failed /\ MayFail
        /\ errors' = errors + 1
        /\ pc' = "halted"
        /\ UNCHANGED migrated
  /\ UNCHANGED <<present, value, locked, lwm2m, at, failed, misread, losses>>

(* The running client is bootstrapped and stores the credentials it gets.  *)
Bootstrap ==
  /\ pc = "running"
  /\ \E k \in LwM2MKeys \ lwm2m : lwm2m' = lwm2m \cup {k}
  /\ UNCHANGED <<present, value, locked, migrated, pc, at, failed, misread,
                 errors, losses>>

(* The next boot begins: the store keeps what it has, the rest is lost.    *)
Boot ==
  /\ pc' = "check"
  /\ at' = 1
  /\ failed' = FALSE
  /\ misread' = FALSE
  /\ UNCHANGED <<store, errors>>

PowerLoss == losses < BootBound /\ losses' = losses + 1 /\ Boot

(* A device whose boot gave up is power-cycled.                            *)
PowerCycle == pc = "halted" /\ Boot /\ UNCHANGED losses

Migrate == CheckMigrated \/ Replace \/ Clear \/ WriteFlag

Next == Migrate \/ Bootstrap \/ PowerLoss \/ PowerCycle

Spec == Init /\ [][Next]_vars

(* The boot goes on, and a device that gave up is power-cycled.            *)
FairSpec == Spec /\ WF_vars(Migrate) /\ WF_vars(PowerCycle)

-----------------------------------------------------------------------------
(* Properties.                                                             *)

Replaced(k) == k \in present /\ value[k] = Replacement(k)

(* Whatever failed and wherever power was lost: once migrationKey exists,  *)
(* all four keys hold what the migration writes, for good.                 *)
MigratedIsComplete == migrated => \A k \in Keys : Replaced(k)

(* The client only ever runs on a completely migrated store, never on the  *)
(* URI of one server and the certificate of the other.                     *)
ClientRunsMigrated == pc = "running" => migrated

(* When migrationKey is written, no credential of the old server is left.  *)
FlagAfterWipe == [][migrated' /\ ~migrated => lwm2m' = {}]_vars

(* Credentials the client was given after the migration are not wiped,     *)
(* unless the flag could not be read in that boot.                         *)
NewCredentialsKept ==
  [][migrated /\ ~misread => lwm2m \subseteq lwm2m']_vars

(* A device whose keys are all there and not too large is migrated in the  *)
(* end, once power lasts and the store stops failing.                      *)
FitForMigration == present = Keys /\ \A k \in Keys : value[k] # "oversize"
MigrationCompletes == FitForMigration => <>migrated

Move == INSTANCE ServerMove
          WITH Credentials <- LwM2MKeys, credentials <- lwm2m,
               pointed <- \A k \in Keys : Replaced(k), recorded <- migrated,
               doubted <- misread, running <- pc = "running"

(* The nine writes of a migration, its repetitions and all the boots       *)
(* between them look like a move in one piece: every behaviour of the      *)
(* migration is one of ServerMove, and a device whose move is complete or  *)
(* on record comes up in the end, whatever boots were cut short before.    *)
(* The property takes no side in what a boot does that could not write the *)
(* flag: the code gives up, a comment (lines 117-119) calls it not fatal.  *)
ImplementsServerMove == Move!MoveSpec
=============================================================================
