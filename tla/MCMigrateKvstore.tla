-------------------------- MODULE MCMigrateKvstore --------------------------
(* Small instances of MigrateKvstore: all the keys hold old values, or one *)
(* of the certificates is larger than the buffer of the migration.         *)
EXTENDS MigrateKvstore

MCInitialValues ==
  {[k \in Keys |-> "old"], [k \in Keys |-> IF k = 3 THEN "oversize" ELSE "old"]}
=============================================================================
