-------------------------- MODULE PalPlatformProofs --------------------------
(* For every number of elements, every configuration of them and any       *)
(* number of interruptions: what a deploy that reports success has brought *)
(* about, and what a finished build directory rests on.                    *)
EXTENDS PalPlatform, TLAPS

FetchSteps == {"fetch", "compare", "checkout", "submodules", "copy", "copying"}
PatchSteps == {"patch", "patching", "commit"}

(* What fetch_elements() leaves behind for one element...                  *)
Brought(e) ==
  /\ tree[e].base = seen[e]
  /\ json[e].protocol = "git" /\ json[e].submodules /\ json[e].ref # "branch" =>
       tree[e].subs = tree[e].base

(* ...and patch_elements().                                                *)
Mended(e) == json[e].patch => Integrated(tree[e])

(* The loops: elements before the present one are done.                    *)
FetchedSoFar == step \in FetchSteps => \A e \in Elements : e < element => Brought(e)

FetchedAll ==
  step \in PatchSteps \cup {"report"} /\ command # "skip_update" =>
    \A e \in Elements : Brought(e)

PatchedSoFar == step \in PatchSteps => \A e \in Elements : e < element => Mended(e)

PatchedAll == step = "report" => \A e \in Elements : Mended(e)

(* Within one element: its submodules are brought to the version asked for.*)
AtVersion == step = "submodules" => tree[element].base = seen[element]
OnlyBranches == step = "compare" => json[element].ref = "branch"

(* What may be gone while there is a build directory.                      *)
GenerateHasAll == step = "generating" => \A e \in Elements : tree[e].at # "none"
DeletesLast == step \in {"delete", "deleting"} => output = "none"
CopyOnly == step \in {"copy", "copying"} => json[element].protocol # "git"

(* A patch is only begun on a tree that has the files it changes.          *)
FilesThere ==
  step \in {"patching", "commit"} => "patched" \notin tree[element].missing

Loops ==
  /\ FetchedSoFar /\ FetchedAll /\ PatchedSoFar /\ PatchedAll
  /\ AtVersion /\ OnlyBranches /\ CopyOnly /\ FilesThere

DeployInv == TypeOK /\ Loops

OutputInv ==
  /\ TypeOK
  /\ GenerateHasAll /\ DeletesLast /\ OutputHasSources

-----------------------------------------------------------------------------
(* Types.                                                                  *)

LEMMA TreeUpdated ==
  ASSUME TypeOK, NEW t \in Tree, SetTree(t)
  PROVE  /\ tree' \in [Elements -> Tree]
         /\ tree'[element] = t
         /\ \A e \in Elements : e # element => tree'[e] = tree[e]
BY DEF TypeOK, SetTree

LEMMA AbsentTyped == Absent \in Tree
BY BoundsAssumption DEF Absent, Tree, Versions

LEMMA InitTyped == Init => TypeOK
<1> SUFFICES ASSUME Init PROVE TypeOK
  OBVIOUS
<1>1. 1 \in Elements /\ 1 \in 1 .. MaxVersion
  BY ElementsAssumption, BoundsAssumption DEF Elements
<1>2. tree \in [Elements -> Tree]
  BY AbsentTyped DEF Init
<1>3. 0 \in 0 .. MaxInterrupts
  BY BoundsAssumption
<1> QED
  BY <1>1, <1>2, <1>3 DEF Init, TypeOK, Commands, Steps

LEMMA NextElementTyped ==
  ASSUME TypeOK, NEW s \in Steps, NEW after \in Steps, NextElement(s, after)
  PROVE  /\ step' \in {s, after} /\ element' \in Elements
         /\ UNCHANGED <<json, asked, command, report, output, interrupts>>
BY ElementsAssumption DEF NextElement, TypeOK, Elements

LEMMA LearnTyped ==
  ASSUME TypeOK, Learn
  PROVE  /\ seen' \in [Elements -> 1 .. MaxVersion]
         /\ \A e \in Elements : e # element => seen'[e] = seen[e]
BY DEF TypeOK, Learn

(* Whatever a fetching step makes of the element at hand is a tree.        *)
LEMMA FetchTyped == TypeOK /\ FetchStep => TypeOK'
<1> SUFFICES ASSUME TypeOK, FetchStep PROVE TypeOK'
  OBVIOUS
<1> DEFINE t == tree[element]
<1>1. /\ t \in Tree
      /\ \A e \in Elements : seen[e] \in Versions /\ seen[e] \in 1 .. MaxVersion
      /\ 0 \in Versions /\ 1 .. MaxVersion \subseteq Versions
  BY BoundsAssumption DEF TypeOK, Versions
<1>2. CASE GitClone
  <2>1. seen' \in [Elements -> 1 .. MaxVersion]
    BY <1>2, LearnTyped DEF GitClone
  <2>2. tree' \in [Elements -> Tree]
    <3>1. /\ [Absent EXCEPT !.at = "git"] \in Tree
          /\ [Absent EXCEPT !.at = "git", !.base = seen'[element]] \in Tree
      BY <1>1, <2>1 DEF Absent, Tree, Versions, TypeOK
    <3> QED
      BY <1>2, <3>1, TreeUpdated DEF GitClone
  <2> QED
    BY <1>2, <2>1, <2>2 DEF GitClone, Continue, TypeOK, Steps
<1>3. CASE GitRefused \/ GitPullRefused \/ GitCheckoutRefused
  BY <1>3 DEF GitRefused, GitPullRefused, GitCheckoutRefused, Quit, TypeOK, Steps
<1>4. CASE GitUpdate
  <2>1. seen' \in [Elements -> 1 .. MaxVersion]
    BY <1>4, LearnTyped DEF GitUpdate
  <2> QED
    BY <1>4, <2>1 DEF GitUpdate, Continue, TypeOK, Steps
<1>5. CASE GitUpToDate
  BY <1>5, NextElementTyped DEF GitUpToDate, Fetched, TypeOK, Steps
<1>6. CASE GitPull
  <2>1. seen' \in [Elements -> 1 .. MaxVersion]
    BY <1>6, LearnTyped DEF GitPull
  <2>2. tree' \in [Elements -> Tree]
    BY <1>1, <1>6, <2>1 DEF GitPull, SetTree, Tree, TypeOK, here
  <2> QED
    BY <1>6, <2>1, <2>2 DEF GitPull, Continue, TypeOK, Steps
<1>7. CASE GitCheckout
  <2>1. tree' \in [Elements -> Tree]
    <3>1. PICK m \in SUBSET t.missing :
            SetTree([t EXCEPT !.base = seen[element], !.committed = FALSE,
                              !.missing = m])
      BY <1>7 DEF GitCheckout, StillMissing, here
    <3>2. m \in SUBSET Files
      BY <1>1, <3>1 DEF Tree
    <3>3. [t EXCEPT !.base = seen[element], !.committed = FALSE, !.missing = m]
            \in Tree
      BY <1>1, <3>2 DEF TypeOK, Tree
    <3> QED
      BY <3>1, <3>3, TreeUpdated
  <2> QED
    BY <1>7, <2>1 DEF GitCheckout, Continue, TypeOK, Steps
<1>8. CASE GitSubmodules
  <2>1. tree' \in [Elements -> Tree]
    BY <1>1, <1>8 DEF GitSubmodules, SetTree, Tree, TypeOK, here
  <2> QED
    BY <1>8, <2>1, NextElementTyped DEF GitSubmodules, Fetched, TypeOK, Steps
<1>9. CASE CopyRemoveOld
  <2>1. tree' \in [Elements -> Tree]
    BY <1>9, AbsentTyped DEF CopyRemoveOld, SetTree, TypeOK
  <2> QED
    BY <1>9, <2>1 DEF CopyRemoveOld, Continue, TypeOK, Steps
<1>10. CASE CopyBegin
  <2>1. tree' \in [Elements -> Tree]
    BY <1>1, <1>10 DEF CopyBegin, SetTree, Tree, TypeOK, here
  <2> QED
    BY <1>10, <2>1 DEF CopyBegin, Continue, TypeOK, Steps
<1>11. CASE CopyEnd
  <2>1. tree' \in [Elements -> Tree]
    BY <1>1, <1>11 DEF CopyEnd, SetTree, Tree, Absent, TypeOK
  <2> QED
    BY <1>11, <2>1, NextElementTyped DEF CopyEnd, Fetched, TypeOK, Steps
<1> QED
  BY <1>2, <1>3, <1>4, <1>5, <1>6, <1>7, <1>8, <1>9, <1>10, <1>11 DEF FetchStep

LEMMA PatchTyped == TypeOK /\ PatchStep => TypeOK'
<1> SUFFICES ASSUME TypeOK, PatchStep PROVE TypeOK'
  OBVIOUS
<1>1. tree[element] \in Tree
  BY DEF TypeOK
<1>2. CASE PatchNotNeeded
  BY <1>2, NextElementTyped DEF PatchNotNeeded, Patched, TypeOK, Steps
<1>3. CASE PatchBegin
  <2>1. tree' \in [Elements -> Tree]
    BY <1>1, <1>3 DEF PatchBegin, SetTree, Tree, TypeOK, here
  <2> QED
    BY <1>3, <2>1 DEF PatchBegin, Continue, TypeOK, Steps
<1>4. CASE PatchRefused
  BY <1>4 DEF PatchRefused, Quit, TypeOK, Steps
<1>5. CASE PatchEnd
  <2>1. tree' \in [Elements -> Tree]
    BY <1>1, <1>5 DEF PatchEnd, SetTree, Tree, TypeOK, here
  <2>2. CASE conf.protocol = "git"
    BY <1>5, <2>1, <2>2 DEF PatchEnd, Continue, TypeOK, Steps
  <2>3. CASE conf.protocol # "git"
    BY <1>5, <2>1, <2>3, NextElementTyped DEF PatchEnd, Patched, TypeOK, Steps
  <2> QED
    BY <2>2, <2>3
<1>6. CASE PatchCommit
  <2>1. tree' \in [Elements -> Tree]
    BY <1>1, <1>6 DEF PatchCommit, SetTree, Tree, TypeOK, here
  <2> QED
    BY <1>6, <2>1, NextElementTyped DEF PatchCommit, Patched, TypeOK, Steps
<1> QED
  BY <1>2, <1>3, <1>4, <1>5, <1>6 DEF PatchStep

LEMMA NextToDeleteTyped ==
  ASSUME TypeOK, NextToDelete
  PROVE  /\ step' \in {"idle", "delete"} /\ element' \in Elements
         /\ UNCHANGED <<json, asked, seen, command, report, output, interrupts>>
BY ElementsAssumption DEF NextToDelete, TypeOK, Elements

LEMMA BuildTyped == TypeOK /\ BuildStep => TypeOK'
<1> SUFFICES ASSUME TypeOK, BuildStep PROVE TypeOK'
  OBVIOUS
<1>1. CASE DeployReport
  BY <1>1 DEF DeployReport, TypeOK, Steps
<1>2. CASE GenerateRefused
  BY <1>2 DEF GenerateRefused, Quit, TypeOK, Steps
<1>3. CASE GenerateBegin \/ GenerateEnd
  BY <1>3 DEF GenerateBegin, GenerateEnd, TypeOK, Steps
<1>4. CASE CleanOutput
  <2>1. element' \in Elements
    BY <1>4, ElementsAssumption DEF CleanOutput, Elements
  <2> QED
    BY <1>4, <2>1 DEF CleanOutput, TypeOK, Steps
<1>5. CASE DeleteNothing
  BY <1>5, NextToDeleteTyped DEF DeleteNothing, TypeOK, Steps
<1>6. CASE DeleteBegin
  <2>1. tree' \in [Elements -> Tree]
    <3>1. CASE \E at \in {"plain", "broken"} : SetTree([Absent EXCEPT !.at = at])
      <4>1. PICK at \in {"plain", "broken"} : SetTree([Absent EXCEPT !.at = at])
        BY <3>1
      <4>2. [Absent EXCEPT !.at = at] \in Tree
        BY AbsentTyped DEF Tree, Absent
      <4> QED
        BY <4>1, <4>2, TreeUpdated
    <3>2. CASE \E m \in SUBSET Files, d \in {"no", "part", "full"} : Thinned(m, d)
      <4>1. PICK m \in SUBSET Files, d \in {"no", "part", "full"} : Thinned(m, d)
        BY <3>2
      <4>2. here \in Tree
        BY DEF TypeOK, here
      <4>3. here.missing \cup m \in SUBSET Files
        BY <4>2 DEF Tree
      <4>4. [here EXCEPT !.missing = here.missing \cup m, !.dirty = d] \in Tree
        BY <4>2, <4>3 DEF Tree
      <4> QED
        BY <4>1, <4>4, TreeUpdated DEF Thinned
    <3> QED
      BY <1>6, <3>1, <3>2 DEF DeleteBegin
  <2> QED
    BY <1>6, <2>1 DEF DeleteBegin, Continue, TypeOK, Steps
<1>7. CASE DeleteEnd
  <2>1. tree' \in [Elements -> Tree]
    BY <1>7, AbsentTyped, TreeUpdated DEF DeleteEnd
  <2> QED
    BY <1>7, <2>1, NextToDeleteTyped DEF DeleteEnd, TypeOK, Steps
<1> QED
  BY <1>1, <1>2, <1>3, <1>4, <1>5, <1>6, <1>7 DEF BuildStep

(* Commands, new versions and interruptions.                               *)
Outside ==
  \/ \E c \in Commands : Begin(c)
  \/ \E e \in Elements : NewVersion(e)
  \/ Interrupt

LEMMA OutsideTyped == TypeOK /\ Outside => TypeOK'
<1> SUFFICES ASSUME TypeOK, Outside PROVE TypeOK'
  OBVIOUS
<1>1. ASSUME NEW c \in Commands, Begin(c) PROVE TypeOK'
  BY <1>1, ElementsAssumption
     DEF Begin, FirstStep, TypeOK, Steps, Commands, Elements
<1>2. ASSUME NEW e \in Elements, NewVersion(e) PROVE TypeOK'
  BY <1>2, BoundsAssumption DEF NewVersion, TypeOK
<1>3. CASE Interrupt
  BY <1>3, BoundsAssumption DEF Interrupt, TypeOK, Steps
<1> QED
  BY <1>1, <1>2, <1>3 DEF Outside

LEMMA NextCases ==
  [Next]_vars => FetchStep \/ PatchStep \/ BuildStep \/ Outside \/ UNCHANGED vars
BY DEF Next, ToolStep, Outside

LEMMA NextTyped == TypeOK /\ [Next]_vars => TypeOK'
<1>1. TypeOK /\ UNCHANGED vars => TypeOK'
  BY DEF TypeOK, vars
<1> QED
  BY <1>1, NextCases, FetchTyped, PatchTyped, BuildTyped, OutsideTyped

THEOREM ToolTyped == Spec => []TypeOK
BY InitTyped, NextTyped, PTL DEF Spec

-----------------------------------------------------------------------------
(* What a deploy brings about.                                             *)

LEMMA InitDeploys == Init => DeployInv
BY InitTyped DEF Init, DeployInv, Loops, FetchedSoFar, FetchedAll, PatchedSoFar,
   PatchedAll, AtVersion, OnlyBranches, CopyOnly, FilesThere, FetchSteps, PatchSteps

(* Outside of the loops there is nothing to show.                          *)
LEMMA LoopsLeft ==
  ASSUME step' \notin FetchSteps \cup PatchSteps \cup {"report"} PROVE Loops'
BY DEF Loops, FetchedSoFar, FetchedAll, PatchedSoFar, PatchedAll, AtVersion,
   OnlyBranches, CopyOnly, FilesThere, FetchSteps, PatchSteps

(* A fetching step only touches the element at hand.                       *)
LEMMA EarlierBrought ==
  ASSUME TypeOK, Loops, step \in FetchSteps, json' = json,
         \A e \in Elements : e # element => tree'[e] = tree[e] /\ seen'[e] = seen[e]
  PROVE  \A e \in Elements : e < element => Brought(e)'
<1> SUFFICES ASSUME NEW e \in Elements, e < element PROVE Brought(e)'
  OBVIOUS
<1>1. Brought(e) /\ e # element
  BY DEF Loops, FetchedSoFar, TypeOK, Elements
<1> QED
  BY <1>1 DEF Brought

(* Going on with the same element.                                         *)
LEMMA FetchContinues ==
  ASSUME \A e \in Elements : e < element => Brought(e)',
         NEW s \in FetchSteps, Continue(s),
         s = "submodules" => tree'[element].base = seen'[element],
         s = "compare" => json[element].ref = "branch",
         s \in {"copy", "copying"} => json[element].protocol # "git"
  PROVE  Loops'
BY DEF Loops, FetchedSoFar, FetchedAll, PatchedSoFar, PatchedAll, AtVersion,
   OnlyBranches, CopyOnly, FilesThere, FetchSteps, PatchSteps, Continue

(* Going on with the next one, or to fetch_elements()'s end.               *)
LEMMA FetchAdvances ==
  ASSUME TypeOK, Fetched, \A e \in Elements : e <= element => Brought(e)'
  PROVE  Loops'
<1>1. CASE element < N
  <2>1. step' = "fetch" /\ element' = element + 1
    BY <1>1 DEF Fetched, NextElement
  <2>2. FetchedSoFar'
    BY <2>1 DEF FetchedSoFar, TypeOK, Elements
  <2> QED
    BY <2>1, <2>2 DEF Loops, FetchedAll, PatchedSoFar, PatchedAll, AtVersion,
       OnlyBranches, CopyOnly, FilesThere, PatchSteps
<1>2. CASE ~(element < N)
  <2>1. step' = "patch" /\ element' = 1
    BY <1>2 DEF Fetched, NextElement
  <2>2. \A e \in Elements : e <= element /\ ~(e < 1)
    BY <1>2, ElementsAssumption DEF TypeOK, Elements
  <2>3. FetchedAll' /\ PatchedSoFar'
    BY <2>1, <2>2 DEF FetchedAll, PatchedSoFar
  <2> QED
    BY <2>1, <2>3 DEF Loops, FetchedSoFar, PatchedAll, AtVersion, OnlyBranches, CopyOnly, FilesThere,
       FetchSteps
<1> QED
  BY <1>1, <1>2

LEMMA UpToElement ==
  ASSUME TypeOK,
         \A e \in Elements : e < element => Brought(e)',
         NEW c \in Elements, c = element, Brought(c)'
  PROVE  \A e \in Elements : e <= element => Brought(e)'
<1> SUFFICES ASSUME NEW e \in Elements, e <= element PROVE Brought(e)'
  OBVIOUS
<1>1. e < element \/ e = c
  BY DEF TypeOK, Elements
<1> QED
  BY <1>1

LEMMA FetchDeploys == TypeOK /\ Loops /\ FetchStep => Loops'
<1> SUFFICES ASSUME TypeOK, Loops, FetchStep PROVE Loops'
  OBVIOUS
<1>1. tree[element] \in Tree /\ element \in Elements /\ Absent \in Tree
  BY AbsentTyped DEF TypeOK
<1>2. CASE GitRefused \/ GitPullRefused \/ GitCheckoutRefused
  BY <1>2, LoopsLeft DEF GitRefused, GitPullRefused, GitCheckoutRefused, Quit,
     FetchSteps, PatchSteps
<1>3. CASE GitUpdate
  <2>1. \A e \in Elements : e < element => Brought(e)'
    BY <1>3, EarlierBrought, LearnTyped DEF GitUpdate, Continue, FetchSteps
  <2> QED
    BY <1>3, <2>1, FetchContinues DEF GitUpdate, FetchSteps, conf
<1>4. CASE GitClone
  <2>1. \A e \in Elements : e # element => tree'[e] = tree[e]
    BY <1>4 DEF GitClone, SetTree, TypeOK
  <2>2. \A e \in Elements : e < element => Brought(e)'
    BY <1>4, <2>1, EarlierBrought, LearnTyped DEF GitClone, Continue, FetchSteps
  <2>3. CASE conf.ref = "hash"
    BY <1>4, <2>2, <2>3, FetchContinues DEF GitClone, FetchSteps
  <2>4. CASE conf.ref # "hash"
    <3>1. tree'[element].base = seen'[element]
      BY <1>1, <1>4, <2>4 DEF GitClone, SetTree, TypeOK, Absent
    <3> QED
      BY <1>4, <2>2, <2>4, <3>1, FetchContinues DEF GitClone, FetchSteps
  <2> QED
    BY <2>3, <2>4
<1>5. CASE GitUpToDate
  <2>1. \A e \in Elements : e < element => Brought(e)'
    BY <1>5, EarlierBrought DEF GitUpToDate, Fetched, NextElement, FetchSteps
  <2>2. \A c \in Elements : c = element => Brought(c)'
    BY <1>5 DEF GitUpToDate, Fetched, NextElement, Behind, here, Brought, Loops,
       OnlyBranches
  <2> QED
    BY <1>1, <1>5, <2>1, <2>2, UpToElement, FetchAdvances DEF GitUpToDate
<1>6. CASE GitPull
  <2>1. \A e \in Elements : e # element => tree'[e] = tree[e]
    BY <1>6 DEF GitPull, SetTree, TypeOK
  <2>2. \A e \in Elements : e < element => Brought(e)'
    BY <1>6, <2>1, EarlierBrought, LearnTyped DEF GitPull, Continue, FetchSteps
  <2>3. tree'[element].base = seen'[element]
    BY <1>1, <1>6 DEF GitPull, SetTree, TypeOK, Tree, here
  <2> QED
    BY <1>6, <2>2, <2>3, FetchContinues DEF GitPull, FetchSteps
<1>7. CASE GitCheckout
  <2>1. \A e \in Elements : e # element => tree'[e] = tree[e]
    BY <1>7 DEF GitCheckout, SetTree, TypeOK
  <2>2. \A e \in Elements : e < element => Brought(e)'
    BY <1>7, <2>1, EarlierBrought DEF GitCheckout, Continue, FetchSteps
  <2>3. tree'[element].base = seen'[element]
    BY <1>1, <1>7 DEF GitCheckout, SetTree, TypeOK, Tree, here
  <2> QED
    BY <1>7, <2>2, <2>3, FetchContinues DEF GitCheckout, FetchSteps
<1>8. CASE GitSubmodules
  <2>1. \A e \in Elements : e # element => tree'[e] = tree[e]
    BY <1>8 DEF GitSubmodules, SetTree, TypeOK
  <2>2. \A e \in Elements : e < element => Brought(e)'
    BY <1>8, <2>1, EarlierBrought DEF GitSubmodules, Fetched, NextElement, FetchSteps
  <2>3. \A c \in Elements : c = element => Brought(c)'
    <3>1. tree[element].base = seen[element]
      BY <1>8 DEF GitSubmodules, Loops, AtVersion
    <3>2. /\ tree'[element].base = seen[element]
          /\ conf.submodules => tree'[element].subs = tree[element].base
      BY <1>1, <1>8, <3>1 DEF GitSubmodules, SetTree, TypeOK, Tree, here
    <3> QED
      BY <1>8, <3>1, <3>2 DEF GitSubmodules, Fetched, NextElement, Brought, conf
  <2> QED
    BY <1>1, <1>8, <2>2, <2>3, UpToElement, FetchAdvances DEF GitSubmodules
<1>9. CASE CopyRemoveOld \/ CopyBegin
  <2>1. /\ \A e \in Elements : e # element => tree'[e] = tree[e]
        /\ step \in FetchSteps /\ UNCHANGED seen
        /\ \E s \in {"copy", "copying"} : Continue(s)
        /\ json[element].protocol # "git"
    BY <1>9 DEF CopyRemoveOld, CopyBegin, SetTree, TypeOK, FetchSteps, Loops,
       CopyOnly, conf
  <2>2. \A e \in Elements : e < element => Brought(e)'
    BY <2>1, EarlierBrought DEF Continue
  <2> QED
    BY <2>1, <2>2, FetchContinues DEF FetchSteps
<1>10. CASE CopyEnd
  <2>1. \A e \in Elements : e # element => tree'[e] = tree[e]
    BY <1>10 DEF CopyEnd, SetTree, TypeOK
  <2>2. \A e \in Elements : e < element => Brought(e)'
    BY <1>10, <2>1, EarlierBrought DEF CopyEnd, Fetched, NextElement, FetchSteps
  <2>3. \A c \in Elements : c = element => Brought(c)'
    <3>1. tree'[element].base = seen[element]
      BY <1>1, <1>10 DEF CopyEnd, SetTree, TypeOK, Absent
    <3>2. json[element].protocol # "git"
      BY <1>10 DEF CopyEnd, Loops, CopyOnly
    <3> QED
      BY <1>10, <3>1, <3>2 DEF CopyEnd, Fetched, NextElement, Brought
  <2> QED
    BY <1>1, <1>10, <2>2, <2>3, UpToElement, FetchAdvances DEF CopyEnd
<1> QED
  BY <1>2, <1>3, <1>4, <1>5, <1>6, <1>7, <1>8, <1>9, <1>10 DEF FetchStep

(* patch_elements() does not touch what fetch_elements() has brought.      *)
LEMMA PatchKeepsBrought ==
  ASSUME TypeOK, PatchStep
  PROVE  /\ UNCHANGED <<json, seen, command>>
         /\ \A e \in Elements : Brought(e) => Brought(e)'
<1>1. /\ UNCHANGED <<json, seen, command>>
      /\ \A e \in Elements : /\ tree'[e].base = tree[e].base
                            /\ tree'[e].subs = tree[e].subs
  <2>1. tree[element] \in Tree
    BY DEF TypeOK
  <2>2. CASE PatchNotNeeded \/ PatchRefused
    BY <2>2 DEF PatchNotNeeded, PatchRefused, Patched, NextElement, Quit
  <2>3. CASE PatchBegin
    BY <2>1, <2>3 DEF PatchBegin, SetTree, Continue, TypeOK, Tree, here
  <2>4. CASE PatchEnd
    BY <2>1, <2>4 DEF PatchEnd, SetTree, Continue, Patched, NextElement, TypeOK,
       Tree, here
  <2>5. CASE PatchCommit
    BY <2>1, <2>5 DEF PatchCommit, SetTree, Patched, NextElement, TypeOK, Tree,
       here
  <2> QED
    BY <2>2, <2>3, <2>4, <2>5 DEF PatchStep
<1> QED
  BY <1>1 DEF Brought

(* Other elements stay patched or not.                                     *)
LEMMA PatchKeepsMended ==
  ASSUME TypeOK, Loops, PatchStep
  PROVE  \A e \in Elements : e < element => Mended(e)'
<1>1. /\ UNCHANGED json
      /\ \A e \in Elements : e # element => tree'[e] = tree[e]
  BY DEF PatchStep, PatchNotNeeded, PatchBegin, PatchRefused, PatchEnd,
     PatchCommit, SetTree, Continue, Patched, NextElement, Quit, TypeOK
<1>2. step \in PatchSteps
  BY DEF PatchStep, PatchNotNeeded, PatchBegin, PatchRefused, PatchEnd,
     PatchCommit, PatchSteps
<1>3. ASSUME NEW e \in Elements, e < element PROVE Mended(e)'
  <2>1. Mended(e) /\ e # element
    BY <1>2, <1>3 DEF Loops, PatchedSoFar, TypeOK, Elements
  <2> QED
    BY <1>1, <2>1 DEF Mended, Integrated
<1> QED
  BY <1>3

LEMMA PatchAdvances ==
  ASSUME TypeOK, Loops, PatchStep, Patched, NEW c \in Elements, c = element,
         Mended(c)'
  PROVE  Loops'
<1>1. \A e \in Elements : e <= element => Mended(e)'
  <2> SUFFICES ASSUME NEW e \in Elements, e <= element PROVE Mended(e)'
    OBVIOUS
  <2>1. e < element \/ e = c
    BY DEF TypeOK, Elements
  <2> QED
    BY <2>1, PatchKeepsMended
<1>2. step \in PatchSteps
  BY DEF PatchStep, PatchNotNeeded, PatchBegin, PatchRefused, PatchEnd,
     PatchCommit, PatchSteps
<1>3. FetchedAll' \/ command = "skip_update"
  BY <1>2, PatchKeepsBrought DEF FetchedAll, Loops
<1>4. CASE element < N
  <2>1. step' = "patch" /\ element' = element + 1
    BY <1>4 DEF Patched, NextElement
  <2>2. PatchedSoFar'
    BY <1>1, <2>1 DEF PatchedSoFar, TypeOK, Elements
  <2> QED
    BY <1>3, <2>1, <2>2, PatchKeepsBrought DEF Loops, FetchedSoFar, FetchedAll,
       PatchedAll, AtVersion, OnlyBranches, CopyOnly, FilesThere, FetchSteps
<1>5. CASE ~(element < N)
  <2>1. step' = "report" /\ element' = 1
    BY <1>5 DEF Patched, NextElement
  <2>2. \A e \in Elements : e <= element
    BY <1>5, ElementsAssumption DEF TypeOK, Elements
  <2>3. PatchedAll'
    BY <1>1, <2>2 DEF PatchedAll
  <2> QED
    BY <1>3, <2>1, <2>3, PatchKeepsBrought DEF Loops, FetchedSoFar, FetchedAll,
       PatchedSoFar, AtVersion, OnlyBranches, CopyOnly, FilesThere, FetchSteps, PatchSteps
<1> QED
  BY <1>4, <1>5

LEMMA PatchDeploys == TypeOK /\ Loops /\ PatchStep => Loops'
<1> SUFFICES ASSUME TypeOK, Loops, PatchStep PROVE Loops'
  OBVIOUS
<1>1. tree[element] \in Tree /\ element \in Elements
  BY DEF TypeOK
<1>2. CASE PatchRefused
  BY <1>2, LoopsLeft DEF PatchRefused, Quit, FetchSteps, PatchSteps
<1>3. CASE PatchNotNeeded
  <2>1. \A c \in Elements : c = element => Mended(c)'
    BY <1>3 DEF PatchNotNeeded, Patched, NextElement, Mended, Integrated, conf,
       here
  <2> QED
    BY <1>1, <1>3, <2>1, PatchAdvances DEF PatchNotNeeded
<1>4. ASSUME NEW s \in PatchSteps, Continue(s),
             "patched" \notin tree'[element].missing
      PROVE  Loops'
  <2>1. step \in PatchSteps
    BY DEF PatchStep, PatchNotNeeded, PatchBegin, PatchRefused, PatchEnd,
       PatchCommit, PatchSteps
  <2>2. FetchedAll'
    BY <1>4, <2>1, PatchKeepsBrought DEF FetchedAll, Loops
  <2>3. PatchedSoFar'
    BY <1>4, PatchKeepsMended DEF PatchedSoFar, Continue
  <2> QED
    BY <1>4, <2>2, <2>3 DEF Loops, FetchedSoFar, PatchedAll, AtVersion,
       OnlyBranches, CopyOnly, FilesThere, FetchSteps, PatchSteps, Continue
<1>5. CASE PatchBegin
  <2>1. "patched" \notin tree'[element].missing
    BY <1>1, <1>5 DEF PatchBegin, Applies, SetTree, TypeOK, Tree, here
  <2> QED
    BY <1>4, <1>5, <2>1 DEF PatchBegin, PatchSteps
<1>6. CASE PatchEnd
  <2>1. "patched" \notin tree'[element].missing /\ tree'[element].dirty = "full"
    BY <1>1, <1>6 DEF PatchEnd, Loops, FilesThere, SetTree, TypeOK, Tree, here
  <2>2. \A c \in Elements : c = element => Mended(c)'
    BY <2>1 DEF Mended, Integrated
  <2> QED
    BY <1>1, <1>4, <1>6, <2>1, <2>2, PatchAdvances DEF PatchEnd, PatchSteps
<1>7. CASE PatchCommit
  <2>1. "patched" \notin tree'[element].missing /\ tree'[element].committed
    BY <1>1, <1>7 DEF PatchCommit, Loops, FilesThere, SetTree, TypeOK, Tree, here
  <2>2. \A c \in Elements : c = element => Mended(c)'
    BY <2>1 DEF Mended, Integrated
  <2> QED
    BY <1>1, <1>7, <2>2, PatchAdvances DEF PatchCommit
<1> QED
  BY <1>2, <1>3, <1>5, <1>6, <1>7 DEF PatchStep

LEMMA BuildDeploys == TypeOK /\ Loops /\ BuildStep => Loops'
<1> SUFFICES ASSUME TypeOK, BuildStep PROVE Loops'
  BY DEF Loops
<1>1. step' \notin FetchSteps \cup PatchSteps \cup {"report"}
  BY DEF BuildStep, DeployReport, GenerateRefused, GenerateBegin, GenerateEnd,
     CleanOutput, DeleteNothing, DeleteBegin, DeleteEnd, NextToDelete, Continue,
     Quit, FetchSteps, PatchSteps
<1> QED
  BY <1>1, LoopsLeft

LEMMA OutsideDeploys == TypeOK /\ Loops /\ Outside => Loops'
<1> SUFFICES ASSUME TypeOK, Loops, Outside PROVE Loops'
  OBVIOUS
<1>1. ASSUME NEW c \in Commands, Begin(c) PROVE Loops'
  <2>1. \A e \in Elements : ~(e < 1)
    BY DEF Elements
  <2> QED
    BY <1>1, <2>1 DEF Begin, FirstStep, Commands, Loops, FetchedSoFar, FetchedAll,
       PatchedSoFar, PatchedAll, AtVersion, OnlyBranches, CopyOnly, FilesThere, FetchSteps,
       PatchSteps
<1>2. ASSUME NEW e \in Elements, NewVersion(e) PROVE Loops'
  BY <1>2 DEF NewVersion, Loops, FetchedSoFar, FetchedAll, PatchedSoFar,
     PatchedAll, AtVersion, OnlyBranches, CopyOnly, FilesThere, Brought, Mended, Integrated
<1>3. CASE Interrupt
  BY <1>3, LoopsLeft DEF Interrupt, FetchSteps, PatchSteps
<1> QED
  BY <1>1, <1>2, <1>3 DEF Outside

LEMMA DeployStep == DeployInv /\ [Next]_vars => DeployInv'
<1>1. Loops /\ UNCHANGED vars => Loops'
  BY DEF vars, Loops, FetchedSoFar, FetchedAll, PatchedSoFar, PatchedAll,
     AtVersion, OnlyBranches, CopyOnly, FilesThere, Brought, Mended, Integrated
<1> QED
  BY <1>1, NextCases, NextTyped, FetchDeploys, PatchDeploys, BuildDeploys,
     OutsideDeploys DEF DeployInv

(* A deploy that reports success has every element at the version asked    *)
(* for, with its submodules, and patched in full, whatever earlier runs    *)
(* were cut short; that no other file is missing is not said, and is wrong.*)
THEOREM SuccessfulDeploysAreUpToDate == Spec => []SuccessIsUpToDate
<1>1. DeployInv => SuccessIsUpToDate
  BY DEF DeployInv, Loops, FetchedAll, PatchedAll, SuccessIsUpToDate, UpToDate,
     Brought, Mended
<1> QED
  BY InitDeploys, DeployStep, <1>1, PTL DEF Spec

-----------------------------------------------------------------------------
(* What a finished build directory rests on.                               *)

LEMMA InitOutput == Init => OutputInv
BY InitTyped DEF Init, OutputInv, GenerateHasAll, DeletesLast, OutputHasSources

LEMMA OutputStep == OutputInv /\ [Next]_vars => OutputInv'
<1> SUFFICES ASSUME OutputInv, [Next]_vars PROVE OutputInv'
  OBVIOUS
<1> USE DEF GenerateHasAll, DeletesLast, OutputHasSources
<1>1. TypeOK /\ TypeOK'
  BY NextTyped DEF OutputInv
<1>2. ASSUME UNCHANGED output, step' \notin {"generating", "delete", "deleting"},
             \A e \in Elements : tree[e].at # "none" /\ json[e].protocol # "copy"
                                => tree'[e].at # "none",
             UNCHANGED json
      PROVE  OutputInv'
  BY <1>1, <1>2 DEF OutputInv
<1>3. CASE FetchStep
  <2>1. /\ UNCHANGED <<output, json>>
        /\ step' \notin {"generating", "delete", "deleting"}
    BY <1>3 DEF FetchStep, GitClone, GitRefused, GitUpdate, GitUpToDate, GitPull,
       GitPullRefused, GitCheckout, GitCheckoutRefused, GitSubmodules,
       CopyRemoveOld, CopyBegin, CopyEnd, Quit, Continue, Fetched, NextElement
  <2>2. tree[element] \in Tree
    BY <1>1 DEF TypeOK
  <2>3. \A e \in Elements : tree[e].at # "none" /\ json[e].protocol # "copy"
                           => tree'[e].at # "none"
    <3>1. CASE GitClone \/ CopyRemoveOld
      BY <1>1, <3>1 DEF GitClone, CopyRemoveOld, SetTree, TypeOK, here, conf, Absent
    <3>2. CASE GitPull \/ GitCheckout \/ GitSubmodules
      <4>1. \A e \in Elements : tree'[e].at = tree[e].at
        <5>1. CASE GitPull
          BY <1>1, <2>2, <5>1 DEF GitPull, SetTree, TypeOK, here, Tree
        <5>2. CASE GitCheckout
          BY <1>1, <2>2, <5>2 DEF GitCheckout, SetTree, TypeOK, here, Tree
        <5>3. CASE GitSubmodules
          BY <1>1, <2>2, <5>3 DEF GitSubmodules, SetTree, TypeOK, here, Tree
        <5> QED
          BY <3>2, <5>1, <5>2, <5>3
      <4> QED
        BY <4>1
    <3>3. CASE CopyBegin \/ CopyEnd
      <4>1. /\ tree'[element].at = "plain"
            /\ \A e \in Elements : e # element => tree'[e] = tree[e]
        <5>1. CASE CopyBegin
          BY <1>1, <2>2, <5>1 DEF CopyBegin, SetTree, TypeOK, here, Tree
        <5>2. CASE CopyEnd
          BY <1>1, <2>2, <5>2 DEF CopyEnd, SetTree, TypeOK, Absent
        <5> QED
          BY <3>3, <5>1, <5>2
      <4> QED
        BY <4>1
    <3>4. CASE UNCHANGED tree
      BY <3>4
    <3> QED
      BY <1>3, <3>1, <3>2, <3>3, <3>4 DEF FetchStep, GitRefused, GitUpdate,
         GitUpToDate, GitPullRefused, GitCheckoutRefused, Quit
  <2> QED
    BY <1>2, <2>1, <2>3
<1>4. CASE PatchStep
  <2>1. /\ UNCHANGED <<output, json>>
        /\ step' \notin {"generating", "delete", "deleting"}
    BY <1>4 DEF PatchStep, PatchNotNeeded, PatchBegin, PatchRefused, PatchEnd,
       PatchCommit, Patched, Quit, Continue, NextElement
  <2>2. tree[element] \in Tree
    BY <1>1 DEF TypeOK
  <2>3. \A e \in Elements : tree'[e].at = tree[e].at
    <3>1. CASE PatchNotNeeded \/ PatchRefused
      BY <3>1 DEF PatchNotNeeded, PatchRefused, Quit
    <3>2. CASE PatchBegin
      BY <1>1, <2>2, <3>2 DEF PatchBegin, SetTree, TypeOK, Tree, here
    <3>3. CASE PatchEnd
      BY <1>1, <2>2, <3>3 DEF PatchEnd, SetTree, TypeOK, Tree, here
    <3>4. CASE PatchCommit
      BY <1>1, <2>2, <3>4 DEF PatchCommit, SetTree, TypeOK, Tree, here
    <3> QED
      BY <1>4, <3>1, <3>2, <3>3, <3>4 DEF PatchStep
  <2> QED
    BY <1>2, <2>1, <2>3
<1>5. CASE BuildStep
  <2>1. CASE DeployReport \/ GenerateRefused
    BY <1>2, <2>1 DEF DeployReport, GenerateRefused, Quit
  <2>2. CASE GenerateBegin \/ GenerateEnd
    BY <1>1, <2>2 DEF GenerateBegin, GenerateEnd, FetchNeeded, OutputInv
  <2>3. CASE CleanOutput
    BY <1>1, <2>3 DEF CleanOutput, OutputInv
  <2>4. CASE DeleteNothing \/ DeleteBegin \/ DeleteEnd
    <3>1. output = "none" /\ UNCHANGED output /\ step' # "generating"
      BY <2>4 DEF DeleteNothing, DeleteBegin, DeleteEnd, NextToDelete, Continue,
         OutputInv
    <3> QED
      BY <1>1, <3>1 DEF OutputInv
  <2> QED
    BY <1>5, <2>1, <2>2, <2>3, <2>4 DEF BuildStep
<1>6. CASE Outside
  <2>1. CASE \E c \in Commands : Begin(c)
    BY <1>2, <2>1 DEF Begin, FirstStep, Commands
  <2>2. CASE \E e \in Elements : NewVersion(e)
    BY <1>1, <2>2 DEF NewVersion, OutputInv
  <2>3. CASE Interrupt
    <3>1. CASE UNCHANGED output
      BY <1>2, <2>3, <3>1 DEF Interrupt
    <3>2. CASE output' = "part"
      BY <1>1, <2>3, <3>2 DEF Interrupt, OutputInv
    <3> QED
      BY <2>3, <3>1, <3>2 DEF Interrupt
  <2> QED
    BY <1>6, <2>1, <2>2, <2>3 DEF Outside
<1>7. CASE UNCHANGED vars
  BY <1>7, <1>1 DEF vars, OutputInv
<1> QED
  BY <1>3, <1>4, <1>5, <1>6, <1>7, NextCases

(* A finished build directory never refers to sources that are gone.       *)
THEOREM BuildDirectoryHasSources == Spec => []OutputHasSources
<1>1. OutputInv => OutputHasSources
  BY DEF OutputInv
<1> QED
  BY InitOutput, OutputStep, <1>1, PTL DEF Spec
=============================================================================
