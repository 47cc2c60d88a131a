------------------------- MODULE ProvisioningProofs -------------------------
(***************************************************************************)
(* Provisioning, for every number of developer items, every build, and any *)
(* number of failing calls and losses of power.                            *)
(***************************************************************************)
EXTENDS Provisioning, TLAPS

SotpDone == "rot" \in store /\ (Is("no_trng") => "entropy" \in store)

Verifying == {"develop", "verify"}
Deleting == {"delete", "entropy", "rot"}

(* The part of the types the argument needs.                               *)
StagesOK ==
  /\ build \subseteq Options
  /\ pc \in FccCalls \cup Chain \cup Ends
  /\ stage \in {"boot", "reset", "format"}
  /\ pc = "start" => stage = "boot"
  /\ pc = "delete" => stage # "boot"
  /\ stage = "reset" => Is("reset")
  /\ pc \in FccCalls => Is("developer")

(* The root of trust and the entropy are there from sotp_initialize on,    *)
(* until the storage is deleted.                                           *)
SotpKept ==
  /\ Is("developer") /\ pc \in Verifying \cup Chain \cup {"running"} => SotpDone
  /\ pc = "rot" /\ Is("no_trng") => "entropy" \in store
VerifiedRuns == pc = "running" /\ Is("developer") /\ ~Is("minimal") => Configured

(* The endpoint name is stored before the device certificate, and a boot   *)
(* that is past mcc_se_init has both.                                      *)
NameFirst ==
  /\ "leaf" \in store => "name" \in store
  /\ pc \in {"se_leaf", "se_signer"} => "name" \in store
  /\ pc = "se_signer" \/ (pc = "se_close" /\ ~bad) => "leaf" \in store
PastChain ==
  Is("secure_element") /\ (pc \in Verifying \cup {"running"}
                           \/ (pc \in Deleting /\ stage = "format"))
    => "leaf" \in store

ProvInv ==
  StagesOK /\ FccIsUp /\ SotpKept /\ VerifiedRuns /\ NameFirst /\ PastChain

-----------------------------------------------------------------------------

LEMMA InitInv == Init => ProvInv
BY DEF Init, ProvInv, StagesOK, FccIsUp, SotpKept, VerifiedRuns, NameFirst,
   PastChain, FccCalls, Chain, Ends, Verifying, Deleting, Is

LEMMA StepInv == ProvInv /\ [Next]_vars => ProvInv'
<1> SUFFICES ASSUME ProvInv, [Next]_vars PROVE ProvInv'
  OBVIOUS
<1> USE DEF ProvInv, StagesOK, FccIsUp, SotpKept, VerifiedRuns, NameFirst,
    PastChain, FccCalls, Chain, Ends, Verifying, Deleting, Is, SotpDone, Goto
<1>1. CASE FccInit
  BY <1>1 DEF FccInit, GotoSotp, GotoSecureElement, GotoVerify
<1>2. CASE SetEntropy
  BY <1>2 DEF SetEntropy, SotpFails
<1>3. CASE SetRot
  BY <1>3 DEF SetRot, SotpFails, AfterSotp, GotoSecureElement, GotoVerify
<1>4. CASE DeleteStorage
  BY <1>4 DEF DeleteStorage, Emptied, GotoSotp, SeItems
<1>5. CASE Develop
  BY <1>5 DEF Develop, StoreItem, DevelopFails, NextItem, AfterDevelop
<1>6. CASE Verify
  BY <1>6 DEF Verify, AfterVerify, Configured
<1>7. CASE SeCreate
  BY <1>7 DEF SeCreate, GotoVerify
<1>8. CASE SeName
  BY <1>8 DEF SeName, Close
<1>9. CASE SeLeaf
  BY <1>9 DEF SeLeaf, SeAdd, Close
<1>10. CASE SeSigner
  BY <1>10 DEF SeSigner, SeAdd, Close
<1>11. CASE SeClose
  BY <1>11 DEF SeClose, GotoVerify
<1>12. CASE Bootstrap
  BY <1>12 DEF Bootstrap, Configured
<1>13. CASE PowerLoss \/ PowerCycle
  BY <1>13 DEF PowerLoss, PowerCycle, Boot
<1>14. CASE FinalizeAgain
  BY <1>14 DEF FinalizeAgain
<1>15. CASE UNCHANGED vars
  BY <1>15 DEF vars, Configured
<1>16. QED
  BY <1>1, <1>2, <1>3, <1>4, <1>5, <1>6, <1>7, <1>8, <1>9, <1>10, <1>11, <1>12,
     <1>13, <1>14, <1>15 DEF Next, Call

LEMMA AlwaysProvInv == Spec => []ProvInv
<1>1. Init => ProvInv
  BY InitInv
<1>2. ProvInv /\ [Next]_vars => ProvInv'
  BY StepInv
<1>3. QED
  BY <1>1, <1>2, PTL DEF Spec

(* Every failure of sotp_initialize ends the boot, in whatever stage it    *)
(* occurs: of FCC it only calls fcc_finalize once more.                    *)
THEOREM FinalizedFccEndsBoot == Spec => []FccIsUp
<1>1. ProvInv => FccIsUp
  BY DEF ProvInv
<1>2. QED
  BY <1>1, AlwaysProvInv, PTL

(* The client of a developer build runs on a completely provisioned        *)
(* storage, wherever earlier boots were cut off.                           *)
THEOREM ClientRunsProvisioned == Spec => []RunsProvisioned
<1>1. ProvInv => RunsProvisioned
  BY DEF ProvInv, SotpKept, SotpDone, VerifiedRuns, RunsProvisioned
<1>2. QED
  BY <1>1, AlwaysProvInv, PTL

(* No boot leaves the device certificate of the secure element without the *)
(* endpoint name, and no client runs without them.                         *)
THEOREM IdentityComesWhole == Spec => []SecureIdentity
<1>1. ProvInv => SecureIdentity
  BY DEF ProvInv, NameFirst, PastChain, SecureIdentity
<1>2. QED
  BY <1>1, AlwaysProvInv, PTL

-----------------------------------------------------------------------------
(* What a boot in which no call has failed knows: a format is for a        *)
(* storage that is not configured, and a chain that cannot be closed has   *)
(* no device certificate to lose.                                          *)
Untroubled ==
  ~trouble =>
    /\ pc \in Verifying => ~bad
    /\ pc = "delete" /\ stage = "format" => ~Configured
    /\ pc = "se_name" => "leaf" \notin store
    /\ pc = "se_close" /\ bad => "leaf" \notin store

LEMMA UntroubledInit == Init => Untroubled
BY DEF Init, Untroubled, Verifying

LEMMA UntroubledStep == ProvInv /\ Untroubled /\ [Next]_vars => Untroubled'
<1> SUFFICES ASSUME ProvInv, Untroubled, [Next]_vars PROVE Untroubled'
  OBVIOUS
<1> USE DEF ProvInv, StagesOK, Untroubled, Verifying, Goto, Works, Fails, Is,
    FccCalls, Chain, Ends
<1>1. CASE FccInit
  BY <1>1 DEF FccInit, GotoSotp, GotoSecureElement, GotoVerify
<1>2. CASE SetEntropy
  BY <1>2 DEF SetEntropy, SotpFails
<1>3. CASE SetRot
  BY <1>3 DEF SetRot, SotpFails, AfterSotp, GotoSecureElement, GotoVerify
<1>4. CASE DeleteStorage
  BY <1>4 DEF DeleteStorage, GotoSotp
<1>5. CASE Develop
  BY <1>5 DEF Develop, StoreItem, DevelopFails, NextItem, AfterDevelop
<1>6. CASE Verify
  BY <1>6 DEF Verify, AfterVerify, Configured
<1>7. CASE SeCreate
  BY <1>7 DEF SeCreate, GotoVerify
<1>8. CASE SeName
  BY <1>8 DEF SeName, Close
<1>9. CASE SeLeaf
  BY <1>9 DEF SeLeaf, SeAdd, Close
<1>10. CASE SeSigner
  BY <1>10 DEF SeSigner, SeAdd, Close
<1>11. CASE SeClose
  BY <1>11 DEF SeClose, GotoVerify
<1>12. CASE Bootstrap
  BY <1>12 DEF Bootstrap, Configured
<1>13. CASE PowerLoss \/ PowerCycle
  BY <1>13 DEF PowerLoss, PowerCycle, Boot
<1>14. CASE FinalizeAgain
  BY <1>14 DEF FinalizeAgain
<1>15. CASE UNCHANGED vars
  BY <1>15 DEF vars, Configured
<1>16. QED
  BY <1>1, <1>2, <1>3, <1>4, <1>5, <1>6, <1>7, <1>8, <1>9, <1>10, <1>11, <1>12,
     <1>13, <1>14, <1>15 DEF Next, Call

(* Items leave the storage only in a deletion and in the closing of an     *)
(* incomplete chain.                                                       *)
LEMMA OnlyTheseTakeAway ==
  ASSUME [Next]_vars, ~DeleteStorage, ~SeClose
  PROVE  creds \subseteq creds' /\ store \subseteq store'
BY DEF Next, Call, FccInit, SetEntropy, SetRot, SotpFails, FinalizeAgain, Develop, StoreItem,
   DevelopFails, Verify, SeCreate, SeName, SeLeaf, SeSigner, SeAdd, Bootstrap,
   PowerLoss, PowerCycle, Boot, vars

LEMMA KeepsCredentials ==
  ASSUME ProvInv, Untroubled, [Next]_vars, Configured, ~trouble, ~Is("reset")
  PROVE  creds \subseteq creds' /\ store \subseteq store'
<1>1. ~DeleteStorage
  BY DEF DeleteStorage, ProvInv, StagesOK, Untroubled
<1>2. CASE SeClose
  BY <1>2 DEF SeClose, Untroubled
<1>3. QED
  BY <1>1, <1>2, OnlyTheseTakeAway

(* As long as no call fails, a configured device keeps its credentials and *)
(* all else it has stored, in every build that does not reset the storage. *)
THEOREM ConfiguredDevicesKeepCredentials == Spec => CredentialsSurviveBoot
<1>1. Init => Untroubled
  BY UntroubledInit
<1>2. ProvInv /\ Untroubled /\ [Next]_vars => Untroubled'
  BY UntroubledStep
<1>3. ProvInv /\ Untroubled /\ [Next]_vars
        => [Configured /\ ~trouble /\ ~Is("reset") =>
              creds \subseteq creds' /\ store \subseteq store']_vars
  BY KeepsCredentials
<1>4. QED
  BY <1>1, <1>2, <1>3, AlwaysProvInv, PTL DEF Spec, CredentialsSurviveBoot

-----------------------------------------------------------------------------

(* The types: the storage, the boot, what is counted, and the flags.       *)
StorageOK ==
  /\ build \subseteq Options
  /\ creds \subseteq Credentials /\ store \subseteq Content
  /\ at \in Credentials
BootOK ==
  /\ pc \in FccCalls \cup Chain \cup Ends
  /\ stage \in {"boot", "reset", "format"}
CountsOK == errors \in 0 .. ErrorBound /\ losses \in 0 .. LossBound
FlagsOK == bad \in BOOLEAN /\ fcc \in BOOLEAN /\ trouble \in BOOLEAN

LEMMA FirstItem == 1 \in Credentials
BY BoundsAssumption DEF Credentials

LEMMA StorageStep == StorageOK /\ [Next]_vars => StorageOK'
<1> SUFFICES ASSUME StorageOK, [Next]_vars PROVE StorageOK'
  OBVIOUS
<1> USE FirstItem DEF StorageOK, Content, SeItems
<1>1. CASE FccInit
  BY <1>1 DEF FccInit, GotoSotp, GotoSecureElement, GotoVerify
<1>2. CASE SetEntropy
  BY <1>2 DEF SetEntropy, SotpFails
<1>3. CASE SetRot
  BY <1>3 DEF SetRot, SotpFails, AfterSotp, GotoSecureElement, GotoVerify
<1>4. CASE DeleteStorage
  BY <1>4 DEF DeleteStorage, Emptied
<1>5. CASE Develop
  <2>1. at \in Nat /\ (at < Items => at + 1 \in Credentials)
    BY BoundsAssumption DEF Credentials
  <2>2. UNCHANGED <<build, store>>
    BY <1>5 DEF Develop
  <2>3. creds' \subseteq Credentials /\ at' \in Credentials
    BY <1>5, <2>1 DEF Develop, StoreItem, DevelopFails, NextItem
  <2>4. QED
    BY <2>2, <2>3
<1>6. CASE Verify
  BY <1>6 DEF Verify, AfterVerify
<1>7. CASE SeCreate
  BY <1>7 DEF SeCreate, GotoVerify
<1>8. CASE SeName
  BY <1>8 DEF SeName, Close
<1>9. CASE SeLeaf
  BY <1>9 DEF SeLeaf, SeAdd, Close
<1>10. CASE SeSigner
  BY <1>10 DEF SeSigner, SeAdd, Close
<1>11. CASE SeClose
  BY <1>11 DEF SeClose, GotoVerify
<1>12. CASE Bootstrap
  BY <1>12 DEF Bootstrap
<1>13. CASE PowerLoss \/ PowerCycle
  BY <1>13 DEF PowerLoss, PowerCycle, Boot
<1>14. CASE FinalizeAgain
  BY <1>14 DEF FinalizeAgain
<1>15. CASE UNCHANGED vars
  BY <1>15 DEF vars
<1>16. QED
  BY <1>1, <1>2, <1>3, <1>4, <1>5, <1>6, <1>7, <1>8, <1>9, <1>10, <1>11, <1>12,
     <1>13, <1>14, <1>15 DEF Next, Call

LEMMA BootStep == BootOK /\ [Next]_vars => BootOK'
<1> SUFFICES ASSUME BootOK, [Next]_vars PROVE BootOK'
  OBVIOUS
<1> USE DEF BootOK, FccCalls, Chain, Ends, Goto
<1>1. CASE FccInit
  BY <1>1 DEF FccInit, GotoSotp, GotoSecureElement, GotoVerify
<1>2. CASE SetEntropy
  BY <1>2 DEF SetEntropy, SotpFails
<1>3. CASE SetRot
  BY <1>3 DEF SetRot, SotpFails, AfterSotp, GotoSecureElement, GotoVerify
<1>4. CASE DeleteStorage
  BY <1>4 DEF DeleteStorage, GotoSotp
<1>5. CASE Develop
  BY <1>5 DEF Develop, StoreItem, DevelopFails, NextItem, AfterDevelop
<1>6. CASE Verify
  BY <1>6 DEF Verify, AfterVerify
<1>7. CASE SeCreate
  BY <1>7 DEF SeCreate, GotoVerify
<1>8. CASE SeName
  BY <1>8 DEF SeName, Close
<1>9. CASE SeLeaf
  BY <1>9 DEF SeLeaf, SeAdd, Close
<1>10. CASE SeSigner
  BY <1>10 DEF SeSigner, SeAdd, Close
<1>11. CASE SeClose
  BY <1>11 DEF SeClose, GotoVerify
<1>12. CASE Bootstrap
  BY <1>12 DEF Bootstrap
<1>13. CASE PowerLoss \/ PowerCycle
  BY <1>13 DEF PowerLoss, PowerCycle, Boot
<1>14. CASE FinalizeAgain
  BY <1>14 DEF FinalizeAgain
<1>15. CASE UNCHANGED vars
  BY <1>15 DEF vars
<1>16. QED
  BY <1>1, <1>2, <1>3, <1>4, <1>5, <1>6, <1>7, <1>8, <1>9, <1>10, <1>11, <1>12,
     <1>13, <1>14, <1>15 DEF Next, Call

(* Every call counts at most one failure, and none beyond the bound.       *)
Counted == UNCHANGED errors \/ (errors < ErrorBound /\ errors' = errors + 1)

LEMMA CallsCount == Call => Counted /\ UNCHANGED losses
<1> SUFFICES ASSUME Call PROVE Counted /\ UNCHANGED losses
  OBVIOUS
<1> USE DEF Works, Fails, Counted
<1>1. CASE FccInit
  BY <1>1, Zenon DEF FccInit
<1>2. CASE SetEntropy
  BY <1>2, Zenon DEF SetEntropy, SotpFails
<1>3. CASE SetRot
  BY <1>3, Zenon DEF SetRot, SotpFails
<1>4. CASE DeleteStorage
  BY <1>4, Zenon DEF DeleteStorage
<1>5. CASE Develop
  BY <1>5, Zenon DEF Develop, StoreItem, DevelopFails
<1>6. CASE Verify
  BY <1>6, Zenon DEF Verify
<1>7. CASE SeCreate
  BY <1>7, Zenon DEF SeCreate
<1>8. CASE SeName
  BY <1>8, Zenon DEF SeName
<1>9. CASE SeLeaf
  BY <1>9, Zenon DEF SeLeaf, SeAdd
<1>10. CASE SeSigner
  BY <1>10, Zenon DEF SeSigner, SeAdd
<1>11. CASE SeClose
  BY <1>11, Zenon DEF SeClose
<1>12. CASE FinalizeAgain
  BY <1>12, Zenon DEF FinalizeAgain
<1>13. QED
  BY <1>1, <1>2, <1>3, <1>4, <1>5, <1>6, <1>7, <1>8, <1>9, <1>10, <1>11, <1>12
     DEF Call

LEMMA CountsStep == CountsOK /\ [Next]_vars => CountsOK'
<1> SUFFICES ASSUME CountsOK, [Next]_vars PROVE CountsOK'
  OBVIOUS
<1> USE BoundsAssumption DEF CountsOK
<1>1. CASE Call
  BY <1>1, CallsCount DEF Counted
<1>2. CASE PowerLoss
  BY <1>2 DEF PowerLoss, Boot
<1>3. CASE UNCHANGED <<errors, losses>>
  BY <1>3
<1>4. QED
  BY <1>1, <1>2, <1>3 DEF Next, Bootstrap, PowerCycle, Boot, vars

LEMMA FlagsStep == FlagsOK /\ [Next]_vars => FlagsOK'
<1> SUFFICES ASSUME FlagsOK, [Next]_vars PROVE FlagsOK'
  OBVIOUS
<1> USE DEF FlagsOK, Works, Fails
<1>1. CASE FccInit
  BY <1>1 DEF FccInit, GotoSecureElement, GotoVerify
<1>2. CASE SetEntropy
  BY <1>2 DEF SetEntropy, SotpFails
<1>3. CASE SetRot
  BY <1>3 DEF SetRot, SotpFails, AfterSotp, GotoSecureElement, GotoVerify
<1>4. CASE DeleteStorage
  BY <1>4 DEF DeleteStorage
<1>5. CASE Develop
  BY <1>5 DEF Develop, StoreItem, DevelopFails
<1>6. CASE Verify
  BY <1>6 DEF Verify
<1>7. CASE SeCreate
  BY <1>7 DEF SeCreate, GotoVerify
<1>8. CASE SeName
  BY <1>8 DEF SeName, Close
<1>9. CASE SeLeaf
  BY <1>9 DEF SeLeaf, SeAdd, Close
<1>10. CASE SeSigner
  BY <1>10 DEF SeSigner, SeAdd, Close
<1>11. CASE SeClose
  BY <1>11 DEF SeClose, GotoVerify
<1>12. CASE Bootstrap
  BY <1>12 DEF Bootstrap
<1>13. CASE PowerLoss \/ PowerCycle
  BY <1>13 DEF PowerLoss, PowerCycle, Boot
<1>14. CASE FinalizeAgain
  BY <1>14 DEF FinalizeAgain
<1>15. CASE UNCHANGED vars
  BY <1>15 DEF vars
<1>16. QED
  BY <1>1, <1>2, <1>3, <1>4, <1>5, <1>6, <1>7, <1>8, <1>9, <1>10, <1>11, <1>12,
     <1>13, <1>14, <1>15 DEF Next, Call

(* The developer flow stops at its last item, and every call leaves the    *)
(* state of the boot well formed.                                          *)
THEOREM ProvisioningTyped == Spec => []TypeOK
<1>1. Init => StorageOK /\ BootOK /\ CountsOK
  BY BoundsAssumption DEF Init, StorageOK, BootOK, CountsOK, FccCalls, Chain, Ends,
     Credentials
<1>2. Init => FlagsOK
  BY DEF Init, FlagsOK
<1>3. StorageOK /\ BootOK /\ CountsOK /\ FlagsOK => TypeOK
  BY DEF StorageOK, BootOK, CountsOK, FlagsOK, TypeOK
<1>4. QED
  BY <1>1, <1>2, <1>3, StorageStep, BootStep, CountsStep, FlagsStep, PTL DEF Spec
=============================================================================
