---------------------------- MODULE Provisioning ----------------------------
(***************************************************************************)
(* The provisioning of a device at every boot: initialize_fcc of           *)
(* application_init.cpp, and the certificate chain of an ATCA secure       *)
(* element (mcc_atca_credentials_init.c) that it copies to the storage.    *)
(*                                                                         *)
(* An action is one call of the factory configurator client (FCC) or of    *)
(* the key manager.  A call succeeds or fails, and power may be lost       *)
(* between any two of them, also inside the developer flow, which stores   *)
(* its items one after the other.  All the builds are explored: build is   *)
(* the set of compile-time options of the firmware.                        *)
(* "secure_element" stands for one with ATCA support: for others           *)
(* mcc_se_init does nothing.                                               *)
(***************************************************************************)
EXTENDS Integers

CONSTANTS
  Items,      \* number of items fcc_developer_flow stores
  ErrorBound, \* bound on the calls that fail
  LossBound   \* bound on the losses of power explored

ASSUME BoundsAssumption ==
  Items \in Nat \ {0} /\ ErrorBound \in Nat /\ LossBound \in Nat

Options == {"developer", "no_trng", "reset", "minimal", "auto_format",
            "secure_element"}

(* What the storage may hold: the developer items in the order they are    *)
(* stored; and the entropy and root of trust, the endpoint name and the    *)
(* two certificates of the secure element, what the cloud gave the client. *)
Credentials == 1 .. Items
SeItems == {"name", "leaf", "signer"}
Content == {"entropy", "rot", "lwm2m"} \cup SeItems

VARIABLES
  build,      \* the compile-time options
  creds,      \* the developer items in the storage
  store,      \* the other items of the storage
  pc,         \* the call that comes next
  stage,      \* who called sotp_initialize and verify_cloud_configuration
  at,         \* the item the developer flow is at
  bad,        \* result of verify_cloud_configuration or of mcc_se_init so far
  fcc,        \* has fcc_init succeeded, and fcc_finalize not been called?
  trouble,    \* has a call failed in this boot?
  errors,     \* calls that have failed so far
  losses      \* losses of power so far

vars == <<build, creds, store, pc, stage, at, bad, fcc, trouble, errors,
          losses>>

FccCalls == {"delete", "entropy", "rot", "develop", "verify"}
Ends == {"start", "finalize", "running", "halted"}
Chain == {"se_create", "se_name", "se_leaf", "se_signer", "se_close"}

TypeOK ==
  /\ build \subseteq Options
  /\ creds \subseteq Credentials /\ store \subseteq Content
  /\ pc \in FccCalls \cup Chain \cup Ends
  /\ stage \in {"boot", "reset", "format"}
  /\ at \in Credentials
  /\ bad \in BOOLEAN /\ fcc \in BOOLEAN /\ trouble \in BOOLEAN
  /\ errors \in 0 .. ErrorBound
  /\ losses \in 0 .. LossBound

Is(option) == option \in build

(* A blank device with any firmware.                                       *)
Init ==
  /\ build \in SUBSET Options
  /\ creds = {} /\ store = {}
  /\ pc = "start" /\ stage = "boot" /\ at = 1
  /\ bad = FALSE /\ fcc = FALSE /\ trouble = FALSE
  /\ errors = 0 /\ losses = 0

Works == UNCHANGED <<trouble, errors>>
Fails == errors < ErrorBound /\ errors' = errors + 1 /\ trouble' = TRUE

Goto(call) == pc' = call

(* verify_cloud_configuration: without the developer mode it has nothing   *)
(* to do and succeeds.                                                     *)
GotoVerify ==
  /\ Goto(IF Is("developer") THEN "develop" ELSE "running")
  /\ at' = 1 /\ bad' = FALSE

(* mcc_se_init, in a build with a secure element, then the verification.   *)
GotoSecureElement ==
  IF Is("secure_element")
    THEN Goto("se_create") /\ bad' = FALSE /\ UNCHANGED at
    ELSE GotoVerify

(* The first call of sotp_initialize.                                      *)
GotoSotp == Goto(IF Is("no_trng") THEN "entropy" ELSE "rot")

-----------------------------------------------------------------------------
(* FCC.                                                                    *)

(* fcc_initialize up to sotp_initialize.  The status of an entropy or a    *)
(* root of trust that exists is accepted.                                  *)
FccInit ==
  /\ pc = "start"
  /\ \/ ~Is("developer") /\ GotoSecureElement /\ UNCHANGED fcc /\ Works
     \/ /\ Is("developer") /\ UNCHANGED <<at, bad>>
        /\ \/ fcc' = TRUE /\ GotoSotp /\ Works
           \/ Fails /\ Goto("halted") /\ UNCHANGED fcc
  /\ UNCHANGED <<build, creds, store, stage, losses>>

(* Where sotp_initialize returns to.                                       *)
AfterSotp ==
  \/ /\ stage = "boot" /\ Is("reset")
     /\ Goto("delete") /\ stage' = "reset" /\ UNCHANGED <<at, bad>>
  \/ /\ stage = "reset" \/ (stage = "boot" /\ ~Is("reset"))
     /\ GotoSecureElement /\ UNCHANGED stage
  \/ stage = "format" /\ GotoVerify /\ UNCHANGED stage

(* A failing sotp_initialize finalizes FCC and ends the boot; called by    *)
(* fcc_initialize, it is followed by a second fcc_finalize.                *)
SotpFails ==
  /\ Fails /\ fcc' = FALSE
  /\ Goto(IF stage = "boot" THEN "finalize" ELSE "halted")
  /\ UNCHANGED <<store, stage, at, bad>>

(* The second fcc_finalize, of an FCC that is finalized: its result is     *)
(* dropped.                                                                *)
FinalizeAgain ==
  /\ pc = "finalize" /\ Goto("halted")
  /\ UNCHANGED <<build, creds, store, stage, at, bad, fcc, trouble, errors,
                 losses>>

(* fcc_entropy_set, where there is no hardware random generator.  Entropy  *)
(* that exists is as good.                                                 *)
SetEntropy ==
  /\ pc = "entropy"
  /\ \/ SotpFails
     \/ /\ store' = store \cup {"entropy"} /\ Goto("rot") /\ Works
        /\ UNCHANGED <<stage, at, bad, fcc>>
  /\ UNCHANGED <<build, creds, losses>>

(* Mutant: a failure to set the root of trust is only reported.            *)
SetRotUnchecked ==
  /\ pc = "rot"
  /\ \/ Fails /\ fcc' = FALSE /\ AfterSotp /\ UNCHANGED store
     \/ store' = store \cup {"rot"} /\ AfterSotp /\ Works /\ UNCHANGED fcc
  /\ UNCHANGED <<build, creds, losses>>

(* fcc_rot_set.                                                            *)
SetRot ==
  /\ pc = "rot"
  /\ \/ SotpFails
     \/ store' = store \cup {"rot"} /\ AfterSotp /\ Works /\ UNCHANGED fcc
  /\ UNCHANGED <<build, creds, losses>>

(* What may be deleted is gone: the items of the secure element stay.      *)
Emptied == creds' = {} /\ store' = store \cap SeItems

(* Mutant: what the deletion took is not set again.                        *)
DeleteStorageOnly ==
  /\ pc = "delete"
  /\ \/ Emptied /\ GotoVerify /\ Works
     \/ /\ Fails /\ Goto("halted") /\ UNCHANGED <<at, bad>>
        /\ \E kept \in SUBSET (store \ SeItems) :
             store' = kept \cup (store \cap SeItems)
        /\ creds' \in SUBSET creds
  /\ UNCHANGED <<build, stage, fcc, losses>>

(* reset_storage: fcc_storage_delete, of all that may be deleted.  What    *)
(* is left when it fails is open.                                          *)
DeleteStorage ==
  /\ pc = "delete"
  /\ \/ Emptied /\ GotoSotp /\ Works
     \/ /\ Fails /\ Goto("halted")
        /\ \E kept \in SUBSET (store \ SeItems) :
             store' = kept \cup (store \cap SeItems)
        /\ creds' \in SUBSET creds
  /\ UNCHANGED <<build, stage, at, bad, fcc, losses>>

-----------------------------------------------------------------------------
(* verify_cloud_configuration.                                             *)

(* The verification is not compiled into the minimal build, and neither is *)
(* the reaction to a failed developer flow.                                *)
AfterDevelop == Goto(IF Is("minimal") THEN "running" ELSE "verify")

NextItem ==
  IF at < Items THEN at' = at + 1 /\ UNCHANGED pc
                ELSE UNCHANGED at /\ AfterDevelop

StoreItem ==
  at \notin creds /\ creds' = creds \cup {at} /\ NextItem /\ Works /\ UNCHANGED bad

DevelopFails == Fails /\ bad' = TRUE /\ AfterDevelop /\ UNCHANGED <<creds, at>>

(* Mutant: credentials that exist count as a failure.                      *)
DevelopOnce ==
  /\ pc = "develop"
  /\ \/ at \in creds /\ AfterDevelop /\ bad' = TRUE /\ Works /\ UNCHANGED <<creds, at>>
     \/ StoreItem
     \/ DevelopFails
  /\ UNCHANGED <<build, store, stage, fcc, losses>>

(* One item of fcc_developer_flow.  The flow ends at the first item that   *)
(* exists, which is fine, and at the first it fails to store.              *)
Develop ==
  /\ pc = "develop"
  /\ \/ at \in creds /\ AfterDevelop /\ Works /\ UNCHANGED <<creds, at, bad>>
     \/ StoreItem
     \/ DevelopFails
  /\ UNCHANGED <<build, store, stage, fcc, losses>>

Configured == Credentials \subseteq creds

(* Mutant: no storage is formatted.                                        *)
AfterVerifyGivesUp(invalid) ==
  Goto(IF invalid THEN "halted" ELSE "running") /\ UNCHANGED stage

(* A storage without valid credentials is formatted, once, and if the      *)
(* build allows it.                                                        *)
AfterVerify(invalid) ==
  IF invalid /\ stage # "format" /\ Is("auto_format")
    THEN Goto("delete") /\ stage' = "format"
    ELSE Goto(IF invalid THEN "halted" ELSE "running") /\ UNCHANGED stage

(* fcc_verify_device_configured_4mbed_cloud: it adds to the result of the  *)
(* flow and cannot take a failure back.  An expired certificate is fine.   *)
Verify ==
  /\ pc = "verify"
  /\ \/ AfterVerify(bad \/ ~Configured) /\ Works
     \/ AfterVerify(TRUE) /\ Fails
  /\ UNCHANGED <<build, creds, store, at, bad, fcc, losses>>

-----------------------------------------------------------------------------
(* mcc_decompress_device_cert_chain.                                       *)

Close(failed) == Goto("se_close") /\ bad' = failed

(* A chain that exists is left as it is.                                   *)
SeCreate ==
  /\ pc = "se_create"
  /\ \/ "leaf" \in store /\ GotoVerify /\ Works
     \/ "leaf" \notin store /\ Goto("se_name") /\ Works /\ UNCHANGED <<at, bad>>
     \/ Fails /\ Goto("halted") /\ UNCHANGED <<at, bad>>
  /\ UNCHANGED <<build, creds, store, stage, fcc, losses>>

(* Mutant: a name that could not be stored is only reported.               *)
SeNameUnchecked ==
  /\ pc = "se_name"
  /\ \/ store' = store \cup {"name"} /\ Works
     \/ Fails /\ UNCHANGED store
  /\ Goto("se_leaf") /\ UNCHANGED <<build, creds, stage, at, bad, fcc, losses>>

(* The certificates are read from the secure element, and the common name  *)
(* of the device is stored as endpoint name.  The key manager refuses to   *)
(* create an item that exists.                                             *)
SeName ==
  /\ pc = "se_name"
  /\ \/ /\ "name" \notin store /\ store' = store \cup {"name"}
        /\ Goto("se_leaf") /\ Works /\ UNCHANGED bad
     \/ "name" \in store /\ Close(TRUE) /\ Works /\ UNCHANGED store
     \/ Fails /\ Close(TRUE) /\ UNCHANGED store
  /\ UNCHANGED <<build, creds, stage, at, fcc, losses>>

(* The two storage_cert_chain_add_next: the device certificate first.      *)
SeAdd(call, item, next) ==
  /\ pc = call
  /\ \/ store' = store \cup {item} /\ next /\ Works
     \/ Fails /\ Close(TRUE) /\ UNCHANGED store
  /\ UNCHANGED <<build, creds, stage, at, fcc, losses>>

SeLeaf == SeAdd("se_leaf", "leaf", Goto("se_signer") /\ UNCHANGED bad)
SeSigner == SeAdd("se_signer", "signer", Close(FALSE))

(* The key manager refuses to close a chain with a certificate missing;    *)
(* whether it drops the other one is open.                                 *)
SeClose ==
  /\ pc = "se_close"
  /\ \/ ~bad /\ GotoVerify /\ Works /\ UNCHANGED store
     \/ ~bad /\ Fails /\ Goto("halted") /\ UNCHANGED <<store, at, bad>>
     \/ /\ bad /\ Goto("halted") /\ Works /\ UNCHANGED <<at, bad>>
        /\ store' \in {store, store \ {"leaf"}}
  /\ UNCHANGED <<build, creds, stage, fcc, losses>>

-----------------------------------------------------------------------------
(* The device.                                                             *)

(* The running client keeps what the cloud gives it.                       *)
Bootstrap ==
  /\ pc = "running" /\ store' = store \cup {"lwm2m"}
  /\ UNCHANGED <<build, creds, pc, stage, at, bad, fcc, trouble, errors,
                 losses>>

Boot ==
  /\ pc' = "start" /\ stage' = "boot" /\ at' = 1
  /\ bad' = FALSE /\ fcc' = FALSE /\ trouble' = FALSE
  /\ UNCHANGED <<build, creds, store, errors>>

PowerLoss == losses < LossBound /\ losses' = losses + 1 /\ Boot

(* application_init returned false and the program ended: a device that    *)
(* gave up is power-cycled.                                                *)
PowerCycle == pc = "halted" /\ Boot /\ UNCHANGED losses

Call ==
  \/ FccInit \/ SetEntropy \/ SetRot \/ FinalizeAgain
  \/ DeleteStorage \/ Develop \/ Verify
  \/ SeCreate \/ SeName \/ SeLeaf \/ SeSigner \/ SeClose

Next == Call \/ Bootstrap \/ PowerLoss \/ PowerCycle

Spec == Init /\ [][Next]_vars

(* The boot goes on, and a device that gave up is power-cycled.            *)
FairSpec == Spec /\ WF_vars(Call) /\ WF_vars(PowerCycle)

-----------------------------------------------------------------------------
(* Properties.                                                             *)

(* After the fcc_finalize of a failed sotp_initialize the boot calls       *)
(* nothing of FCC but a second fcc_finalize, and nothing else is deleted,  *)
(* stored or run: each caller returns, whatever stage it is in.            *)
FccIsUp == Is("developer") /\ ~fcc => pc \in {"start", "finalize", "halted"}

(* A developer build only goes on to the client when the root of trust,    *)
(* the entropy it needs and, where it verifies, all the credentials are    *)
(* there: whatever failed, was deleted or was cut off before.              *)
RunsProvisioned ==
  pc = "running" /\ Is("developer") =>
    /\ "rot" \in store
    /\ Is("no_trng") => "entropy" \in store
    /\ ~Is("minimal") => Configured

(* A boot in which no call fails does not take credentials away from a     *)
(* device that is configured, unless the build resets the storage.         *)
CredentialsSurviveBoot ==
  [][Configured /\ ~trouble /\ ~Is("reset") =>
       creds \subseteq creds' /\ store \subseteq store']_vars

(* There is no device certificate without the endpoint name that belongs   *)
(* to it, and a client with a secure element runs with both.               *)
SecureIdentity ==
  /\ "leaf" \in store => "name" \in store
  /\ pc = "running" /\ Is("secure_element") => "leaf" \in store

(* A device whose name was stored and whose chain was not: no later boot   *)
(* stores the chain.                                                       *)
NameWithoutChain ==
  Is("secure_element") /\ "name" \in store /\ "leaf" \notin store

(* A storage that was left half written is healed: once power lasts and    *)
(* calls stop failing the device runs, unless the build may neither format *)
(* nor skip the verification, or the endpoint name is there without its    *)
(* chain for good.                                                         *)
Heals == Is("developer") => Is("auto_format") \/ Is("minimal")
ProvisioningCompletes ==
  Heals => (<>(pc = "running") \/ <>[]NameWithoutChain)
=============================================================================
