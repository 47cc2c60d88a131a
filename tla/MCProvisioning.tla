--------------------------- MODULE MCProvisioning ---------------------------
(* Small instances of Provisioning: every build, three developer items.    *)
EXTENDS Provisioning
=============================================================================
