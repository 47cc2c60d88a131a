----------------------------- MODULE PalPlatform -----------------------------
(***************************************************************************)
(* pal-platform.py: the tool that brings the third-party sources of a      *)
(* target into the source tree (deploy), patches them, generates the build *)
(* directory __<target> (generate) and removes both (clean).  A target is  *)
(* a list of elements, the target itself first; pal-platform.json says     *)
(* where each comes from and in which version.                             *)
(*                                                                         *)
(* One command runs at a time.  Any command it calls may fail and the tool *)
(* may be killed between two of them: check_cmd logs and exits, and what   *)
(* has been done stays on the disk for the next run to find.               *)
(***************************************************************************)
EXTENDS Naturals, FiniteSets

CONSTANTS
  N,               \* number of elements of the target
  Configurations,  \* what pal-platform.json may say of them
  MaxVersion,      \* bound on the versions a reference goes through
  MaxInterrupts    \* bound on failed calls and kills

ASSUME ElementsAssumption == N \in Nat \ {0}
ASSUME BoundsAssumption == MaxVersion \in Nat \ {0} /\ MaxInterrupts \in Nat

Elements == 1 .. N

(* protocol "copy" stands for local folders and archives of one folder,    *)
(* "files" for single files and other archives, which are unpacked into    *)
(* what is there; clash: the files that the patch changes differ between   *)
(* versions.                                                               *)
Element ==
  [protocol : {"git", "copy", "files"}, ref : {"branch", "tag", "hash"},
   submodules : BOOLEAN, patch : BOOLEAN, clash : BOOLEAN]

ASSUME ConfigurationAssumption == Configurations \subseteq [Elements -> Element]

VARIABLES
  json,        \* the configuration, fixed
  asked,       \* version each reference names now
  seen,        \* version of it that the running command knows of
  tree,        \* what is at the destination of each element
  command,     \* the running command
  step,        \* what it does next
  element,     \* and for which element
  report,      \* the last deploy: "none", or "ok" when it printed success
  output,      \* the build directory
  interrupts   \* failed calls and kills so far

vars == <<json, asked, seen, tree, command, step, element, report, output,
          interrupts>>

Commands == {"deploy", "deploy_generate", "skip_update", "generate", "clean",
             "clean_keep"}
Steps == {"idle", "fetch", "compare", "checkout", "submodules", "copy",
          "copying", "patch", "patching", "commit", "report", "generate",
          "generating", "clean", "delete", "deleting"}
Versions == 0 .. MaxVersion

(* A git tree has the base version of its HEAD, the patch committed on it  *)
(* or changed in its files, and its submodules at a version; "broken" has  *)
(* a .git directory no git command accepts.  Base 0 is incomplete.  Of a   *)
(* git tree whose deletion was cut short, files may be missing that the    *)
(* patch changes, or others.                                               *)
Files == {"patched", "other"}

Tree ==
  [at : {"none", "plain", "git", "broken"}, base : Versions,
   committed : BOOLEAN, dirty : {"no", "part", "full"}, subs : Versions,
   missing : SUBSET Files]

Absent == [at |-> "none", base |-> 0, committed |-> FALSE, dirty |-> "no",
           subs |-> 0, missing |-> {}]

TypeOK ==
  /\ json \in Configurations
  /\ asked \in [Elements -> 1 .. MaxVersion]
  /\ seen \in [Elements -> 1 .. MaxVersion]
  /\ tree \in [Elements -> Tree]
  /\ command \in Commands
  /\ step \in Steps
  /\ element \in Elements
  /\ report \in {"none", "ok"}
  /\ output \in {"none", "part", "done"}
  /\ interrupts \in 0 .. MaxInterrupts

Init ==
  /\ json \in Configurations
  /\ asked = [e \in Elements |-> 1]
  /\ seen = asked
  /\ tree = [e \in Elements |-> Absent]
  /\ command = "clean"
  /\ step = "idle"
  /\ element = 1
  /\ report = "none"
  /\ output = "none"
  /\ interrupts = 0

-----------------------------------------------------------------------------
(* The developer starts a command when none is running.                    *)

FirstStep(c) ==
  CASE c \in {"deploy", "deploy_generate"} -> "fetch"
    [] c = "skip_update" -> "patch"
    [] c = "generate" -> "generate"
    [] c \in {"clean", "clean_keep"} -> "clean"

Begin(c) ==
  /\ step = "idle"
  /\ command' = c
  /\ step' = FirstStep(c)
  /\ element' = 1
  /\ seen' = asked
  /\ report' = IF c \in {"generate", "clean_keep"} THEN report ELSE "none"
  /\ UNCHANGED <<json, asked, tree, output, interrupts>>

(* The command goes on with another step, for the same element.            *)
Continue(s) ==
  /\ step' = s
  /\ UNCHANGED <<json, asked, command, element, report, output, interrupts>>

(* sys.exit(), click.Abort or an exception: the tool stops where it is.    *)
Quit ==
  /\ step' = "idle"
  /\ UNCHANGED <<json, asked, seen, tree, command, element, report, output,
                 interrupts>>

(* fetch_elements() and patch_elements() go through the elements in order. *)
NextElement(s, after) ==
  /\ IF element < N
       THEN step' = s /\ element' = element + 1
       ELSE step' = after /\ element' = 1
  /\ UNCHANGED <<json, asked, command, report, output, interrupts>>

Fetched == NextElement("fetch", "patch")
Patched == NextElement("patch", "report")

here == tree[element]
conf == json[element]

SetTree(t) == tree' = [tree EXCEPT ![element] = t]

(* git fetch, clone and pull learn where a branch is; a tag or a hash is   *)
(* what the configuration said when the command began.                     *)
Learn ==
  seen' = IF conf.ref = "branch"
            THEN [seen EXCEPT ![element] = asked[element]] ELSE seen

-----------------------------------------------------------------------------
(* Fetching an element with git.                                           *)

(* git clone: refuses a destination with something in it.  A hash is       *)
(* cloned without its files, which a checkout of its own brings.           *)
GitClone ==
  /\ step = "fetch"
  /\ conf.protocol = "git"
  /\ here.at = "none"
  /\ Learn
  /\ IF conf.ref = "hash"
       THEN SetTree([Absent EXCEPT !.at = "git"]) /\ Continue("checkout")
       ELSE /\ SetTree([Absent EXCEPT !.at = "git", !.base = seen'[element]])
            /\ Continue("submodules")

GitRefused ==
  /\ step = "fetch"
  /\ conf.protocol = "git"
  /\ here.at \in {"plain", "broken"}
  /\ Quit

(* The destination is a repository: ls-remote and fetch --all.             *)
GitUpdate ==
  /\ step = "fetch"
  /\ conf.protocol = "git"
  /\ here.at = "git"
  /\ Learn
  /\ Continue(IF conf.ref = "branch" THEN "compare" ELSE "checkout")
  /\ UNCHANGED tree

(* is_git_pull_required() compares the branch with its upstream.           *)
Behind == here.base # seen[element]

(* Up to date, or ahead by the commit of a patch: git_fetch() returns,     *)
(* before it has looked at the submodules.                                 *)
GitUpToDate ==
  /\ step = "compare"
  /\ ~Behind
  /\ Fetched
  /\ UNCHANGED <<seen, tree>>

(* A pull --rebase refuses changed and missing files.                      *)
Touched(t) == t.dirty # "no" \/ t.missing # {}

(* Behind: pull --rebase.                                                  *)
GitPull ==
  /\ step = "compare"
  /\ Behind /\ ~here.committed /\ ~Touched(here)
  /\ Learn
  /\ SetTree([here EXCEPT !.base = seen'[element]])
  /\ Continue("submodules")

(* Diverged, by the commit of a patch, or not to be pulled.                *)
GitPullRefused ==
  /\ step = "compare"
  /\ Behind /\ (here.committed \/ Touched(here))
  /\ Quit

(* git checkout of a tag or hash drops the commit of a patch, and keeps    *)
(* changed files or, when the new version changes them too, refuses.       *)
CheckoutRefused ==
  here.dirty # "no" /\ conf.clash /\ Behind

(* A checkout brings a missing file back if it differs between HEAD and    *)
(* the version asked for, as the files of a committed patch do, and only   *)
(* then.                                                                   *)
Restorable ==
  (IF here.committed \/ Behind THEN {"other"} ELSE {})
    \cup (IF here.committed \/ (conf.clash /\ Behind) THEN {"patched"} ELSE {})

StillMissing ==
  {m \in SUBSET here.missing :
     here.missing \ m \subseteq Restorable
       /\ ("patched" \in m => "patched" \notin Restorable)}

GitCheckout ==
  /\ step = "checkout"
  /\ ~CheckoutRefused
  /\ \E m \in StillMissing :
       SetTree([here EXCEPT !.base = seen[element], !.committed = FALSE,
                            !.missing = m])
  /\ Continue("submodules")
  /\ UNCHANGED seen

GitCheckoutRefused ==
  /\ step = "checkout"
  /\ CheckoutRefused
  /\ Quit

(* Mutant: what is already initialised is not updated.                     *)
GitSubmodulesOnce ==
  /\ step = "submodules"
  /\ SetTree([here EXCEPT !.subs = IF @ # 0 THEN @ ELSE
                                   IF conf.submodules THEN here.base ELSE 0])
  /\ Fetched
  /\ UNCHANGED seen

(* git submodule sync and update for each submodule of the configuration.  *)
GitSubmodules ==
  /\ step = "submodules"
  /\ SetTree([here EXCEPT !.subs = IF conf.submodules THEN here.base ELSE @])
  /\ Fetched
  /\ UNCHANGED seen

-----------------------------------------------------------------------------
(* Fetching an element by copying a folder, an unpacked archive or files.  *)

CopyRemoveOld ==
  /\ step = "fetch"
  /\ conf.protocol = "copy"
  /\ SetTree(Absent)
  /\ Continue("copy")
  /\ UNCHANGED seen

(* Files are downloaded into what is there, folders are made anew.         *)
CopyBegin ==
  /\ \/ step = "copy"
     \/ step = "fetch" /\ conf.protocol = "files"
  /\ SetTree([here EXCEPT !.at = "plain", !.base = 0])
  /\ Continue("copying")
  /\ UNCHANGED seen

CopyEnd ==
  /\ step = "copying"
  /\ SetTree([Absent EXCEPT !.at = "plain", !.base = seen[element]])
  /\ Fetched
  /\ UNCHANGED seen

-----------------------------------------------------------------------------
(* Patching an element.                                                    *)

(* Mutant: changed files are not taken for the patch.                      *)
IntegratedIfCommitted(t) == "patched" \notin t.missing /\ t.committed

(* The reversed patch would apply: it is integrated already.               *)
Integrated(t) == "patched" \notin t.missing /\ (t.committed \/ t.dirty = "full")

(* The patch applies to a tree that has all the files it changes and       *)
(* nothing of it yet.                                                      *)
Applies(t) ==
  /\ t.base # 0 /\ t.at \in {"plain", "git"}
  /\ t.dirty = "no" /\ "patched" \notin t.missing

PatchNotNeeded ==
  /\ step = "patch"
  /\ conf.patch => Integrated(here)
  /\ Patched
  /\ UNCHANGED <<seen, tree>>

PatchBegin ==
  /\ step = "patch"
  /\ conf.patch /\ ~Integrated(here) /\ Applies(here)
  /\ SetTree([here EXCEPT !.dirty = "part"])
  /\ Continue("patching")
  /\ UNCHANGED seen

PatchRefused ==
  /\ step = "patch"
  /\ conf.patch /\ ~Integrated(here) /\ ~Applies(here)
  /\ Quit

PatchEnd ==
  /\ step = "patching"
  /\ SetTree([here EXCEPT !.dirty = "full"])
  /\ IF conf.protocol = "git" THEN Continue("commit") ELSE Patched
  /\ UNCHANGED seen

(* git add --all and git commit, which also commits the deletion of other  *)
(* files that are missing.                                                 *)
PatchCommit ==
  /\ step = "commit"
  /\ SetTree([here EXCEPT !.dirty = "no", !.committed = TRUE])
  /\ Patched
  /\ UNCHANGED seen

(* The instructions are written and success is printed; a chained generate *)
(* follows in the same process.                                            *)
DeployReport ==
  /\ step = "report"
  /\ report' = "ok"
  /\ step' = IF command = "deploy_generate" THEN "generate" ELSE "idle"
  /\ UNCHANGED <<json, asked, seen, tree, command, element, output,
                 interrupts>>

-----------------------------------------------------------------------------
(* generate and clean.                                                     *)

(* is_fetch_needed(): only the existence of a destination counts.          *)
FetchNeeded == \E e \in Elements : tree[e].at = "none"

GenerateRefused ==
  /\ step = "generate"
  /\ FetchNeeded
  /\ Quit

GenerateBegin ==
  /\ step = "generate"
  /\ ~FetchNeeded
  /\ output' = "part"
  /\ step' = "generating"
  /\ UNCHANGED <<json, asked, seen, tree, command, element, report,
                 interrupts>>

GenerateEnd ==
  /\ step = "generating"
  /\ output' = "done"
  /\ step' = "idle"
  /\ UNCHANGED <<json, asked, seen, tree, command, element, report,
                 interrupts>>

(* Mutant: the build directory is left to the next generate.               *)
CleanSourcesOnly ==
  /\ step = "clean"
  /\ step' = IF command = "clean_keep" THEN "idle" ELSE "delete"
  /\ element' = IF N = 1 THEN 1 ELSE 2
  /\ UNCHANGED <<json, asked, seen, tree, command, report, output,
                 interrupts>>

(* delete_elements() removes the target itself last.                       *)
CleanOutput ==
  /\ step = "clean"
  /\ output' = "none"
  /\ step' = IF command = "clean_keep" THEN "idle" ELSE "delete"
  /\ element' = IF N = 1 THEN 1 ELSE 2
  /\ UNCHANGED <<json, asked, seen, tree, command, report, interrupts>>

NextToDelete ==
  /\ IF element = 1
       THEN step' = "idle" /\ UNCHANGED element
       ELSE /\ step' = "delete"
            /\ element' = IF element = N THEN 1 ELSE element + 1
  /\ UNCHANGED <<json, asked, seen, command, report, output, interrupts>>

DeleteNothing ==
  /\ step = "delete"
  /\ here.at = "none"
  /\ NextToDelete
  /\ UNCHANGED tree

(* Files m of the work tree are gone, all of the .git directory is there.  *)
(* Changes go with the files they are in: d says what is left of them.     *)
Thinned(m, d) ==
  /\ here.at = "git" /\ here.base # 0
  /\ m # {} /\ ("patched" \in m => conf.patch)
  /\ IF "patched" \in m /\ here.dirty # "no"
       THEN d # "full" ELSE d = here.dirty
  /\ SetTree([here EXCEPT !.missing = @ \cup m, !.dirty = d])

(* rmtree takes the files one by one, the .git directory first, last or in *)
(* between: this is what a deletion that is cut short leaves.              *)
DeleteBegin ==
  /\ step = "delete"
  /\ here.at # "none"
  /\ \/ \E at \in IF here.at = "plain" THEN {"plain"} ELSE {"plain", "broken"} :
          SetTree([Absent EXCEPT !.at = at])
     \/ \E m \in SUBSET Files, d \in {"no", "part", "full"} : Thinned(m, d)
  /\ Continue("deleting")
  /\ UNCHANGED seen

DeleteEnd ==
  /\ step = "deleting"
  /\ SetTree(Absent)
  /\ NextToDelete

-----------------------------------------------------------------------------
(* The environment.                                                        *)

(* A branch moves on, or the configuration names another version.          *)
NewVersion(e) ==
  /\ asked[e] < MaxVersion
  /\ asked' = [asked EXCEPT ![e] = @ + 1]
  /\ UNCHANGED <<json, seen, tree, command, step, element, report, output,
                 interrupts>>

(* A call fails, or the tool is killed: check_cmd() ends the process.  The *)
(* build directory may be removed in part.                                 *)
Interrupt ==
  /\ step # "idle"
  /\ interrupts < MaxInterrupts
  /\ interrupts' = interrupts + 1
  /\ step' = "idle"
  /\ \/ UNCHANGED output
     \/ step = "clean" /\ output # "none" /\ output' = "part"
  /\ UNCHANGED <<json, asked, seen, tree, command, element, report>>

FetchStep ==
  \/ GitClone \/ GitRefused \/ GitUpdate
  \/ GitUpToDate \/ GitPull \/ GitPullRefused
  \/ GitCheckout \/ GitCheckoutRefused \/ GitSubmodules
  \/ CopyRemoveOld \/ CopyBegin \/ CopyEnd

PatchStep ==
  \/ PatchNotNeeded \/ PatchBegin \/ PatchRefused
  \/ PatchEnd \/ PatchCommit

BuildStep ==
  \/ DeployReport
  \/ GenerateRefused \/ GenerateBegin \/ GenerateEnd
  \/ CleanOutput \/ DeleteNothing \/ DeleteBegin \/ DeleteEnd

ToolStep == FetchStep \/ PatchStep \/ BuildStep

Next ==
  \/ \E c \in Commands : Begin(c)
  \/ ToolStep
  \/ \E e \in Elements : NewVersion(e)
  \/ Interrupt

(* A deploy cannot get past what it finds at this element's destination.   *)
Stuck(e) ==
  LET t == tree[e] IN
  /\ json[e].protocol = "git"
  /\ \/ t.at \in {"plain", "broken"}
     \/ t.dirty = "part"
     \/ /\ t.base # asked[e]
        /\ \/ json[e].ref = "branch" /\ (t.committed \/ Touched(t))
           \/ json[e].ref # "branch" /\ json[e].clash /\ t.dirty = "full"
     \/ /\ "patched" \in t.missing
        /\ \/ json[e].ref = "branch"
           \/ ~t.committed /\ (json[e].clash => t.base = asked[e])

CleanStuck == (\E e \in Elements : Stuck(e)) /\ Begin("clean")

(***************************************************************************)
(* A running command goes on; the developer deploys again and again, and   *)
(* cleans what a deploy cannot repair.                                     *)
(***************************************************************************)
Fairness ==
  /\ WF_vars(ToolStep)
  /\ SF_vars(Begin("deploy"))
  /\ SF_vars(CleanStuck)

Spec == Init /\ [][Next]_vars /\ Fairness

-----------------------------------------------------------------------------
(* Properties.                                                             *)

(* The element is at the version the configuration wants.  Left out are    *)
(* the submodules of a branch: a branch that is up to date is not looked   *)
(* into, so the ones an interrupted deploy has left behind stay as they    *)
(* are; and the files the patch does not change, see SuccessHasAllFiles.   *)
UpToDate(e) ==
  LET t == tree[e]
      c == json[e] IN
  /\ t.base = seen[e]
  /\ c.patch => Integrated(t)
  /\ c.protocol = "git" /\ c.submodules /\ c.ref # "branch" =>
       t.subs = t.base

(* "Deployment for ... is successful": whatever earlier runs were cut      *)
(* short, a deploy that gets to its report, and so a chained generate, has *)
(* every element at the version asked for, with its submodules, and        *)
(* patched in full.                                                        *)
SuccessIsUpToDate ==
  step = "report" /\ command # "skip_update" =>
    \A e \in Elements : UpToDate(e)

(* "Fetch the required target-dependent sources for the target": a         *)
(* successful deploy has all the files of every element.  It has not,      *)
(* after a clean that was cut short: git takes what is missing from the    *)
(* work tree for a change of the developer's, and keeps it.                *)
SuccessHasAllFiles ==
  step = "report" /\ command # "skip_update" =>
    \A e \in Elements : tree[e].missing = {}

(* A finished build directory never outlives the sources it refers to,     *)
(* also when a clean is cut short; only an element that is fetched by      *)
(* copying disappears for a while, when it is replaced.                    *)
OutputHasSources ==
  output = "done" =>
    \A e \in Elements : json[e].protocol # "copy" => tree[e].at # "none"

(* Deploying again, after a clean where the tree is stuck, ends in success *)
(* whatever has failed before.                                             *)
DeploySucceeds == []<>(report = "ok")
=============================================================================
