------------------------------- MODULE PatchTree -------------------------------
(***************************************************************************)
(* The source trees under extern/ and the two that patch them: the script  *)
(* scripts/apply_patches.sh and the ExternalProject steps of               *)
(* ports/*/CMakeLists.txt.  Either may be stopped between two patches and  *)
(* started again, and each finds the trees as the other left them.  Every  *)
(* patch changes one file, so it is applied or not.                        *)
(***************************************************************************)
EXTENDS Integers, Sequences

CONSTANTS
  Last,      (* The patches are 1 .. Last, in the order of the script.     *)
  Trees,     (* The source trees ...                                       *)
  TreeOf,    (* ... and the one each patch is for.                         *)
  OpenBLAS,  (* The tree that rvforge_simd.h is copied into.               *)
  Ported,    (* Per tree, the patches its port applies itself, in order.   *)
  Tolerant,  (* The trees whose port ends the command with "|| true".      *)
  Stacks,    (* The patches that put a comment after the first line of a   *)
             (* Makefile, where patch finds its place between the comments *)
             (* of the others, however often they are there.               *)
  MaxRuns,   (* How often the script is started ...                        *)
  MaxBuilds  (* ... and how often the build directory is removed.          *)

Patches == 1 .. Last

ASSUME PatchTreeAssumption ==
  /\ Last \in Nat \ {0}
  /\ TreeOf \in [Patches -> Trees]
  /\ OpenBLAS \in Trees
  /\ Ported \in [Trees -> Seq(Patches)]
  /\ \A t \in Trees : \A n \in 1 .. Len(Ported[t]) : TreeOf[Ported[t][n]] = t
  /\ Tolerant \subseteq Trees
  /\ \A t \in Tolerant : Len(Ported[t]) = 1
  /\ Stacks \subseteq Patches
  /\ MaxRuns \in Nat
  /\ MaxBuilds \in Nat

VARIABLES
  misfit,         (* The patches upstream's files have no place for.       *)
  present,        (* The trees that have been extracted.                   *)
  applied,        (* How often each patch is in its tree.                  *)
  header,         (* Whether rvforge_simd.h is in the OpenBLAS tree.       *)
  pc, k,          (* The script, and the patch it is at.                   *)
  runs, builds,
  settled,        (* Nothing but the script has touched a tree since the   *)
                  (* script last ended well.                               *)
  stamp,          (* Per tree, the last ExternalProject step with a stamp. *)
  step,           (* Per tree, where in its patch step the build is.       *)
  library         (* Per tree, the patches in what was built from it.      *)

trees  == <<present, applied, header>>
script == <<pc, k, runs>>
build  == <<builds, stamp, step, library>>
vars   == <<misfit, trees, script, settled, build>>

Resting == {"idle", "done", "failed", "interrupted"}

Of(t) == {p \in Patches : TreeOf[p] = t}

Init ==
  /\ misfit \in SUBSET Patches
  /\ present = {}
  /\ applied = [p \in Patches |-> 0]
  /\ header = FALSE
  /\ pc = "idle"
  /\ k = 1
  /\ runs = 0
  /\ builds = 0
  /\ settled = FALSE
  /\ stamp = [t \in Trees |-> "none"]
  /\ step = [t \in Trees |-> 1]
  /\ library = [t \in Trees |-> {}]

(* What patch --dry-run finds, forwards and with -R.  A patch that is in   *)
(* its tree is known again, except among the comments of other Stacks.     *)
Fits(p) ==
  /\ p \notin misfit
  /\ \/ applied[p] = 0
     \/ p \in Stacks /\ applied[p] > 1
     \/ p \in Stacks /\ \E q \in Stacks \ {p} : TreeOf[q] = TreeOf[p] /\ applied[q] > 0

Reverses(p) == applied[p] > 0

-----------------------------------------------------------------------------
(* apply_patches.sh                                                        *)

(* Slip: the header is left out.                                           *)
MutNextPatch ==
  IF k < Last THEN k' = k + 1 /\ pc' = "patch" ELSE k' = 1 /\ pc' = "verify"

NextPatch ==
  IF k < Last THEN k' = k + 1 /\ pc' = "patch" ELSE k' = 1 /\ pc' = "header"

(* The patch files are the repository's own, all of them well formed.      *)
Start ==
  /\ pc \in Resting
  /\ runs < MaxRuns
  /\ runs' = runs + 1
  /\ k' = 1
  /\ pc' = "patch"
  /\ UNCHANGED <<misfit, trees, settled, build>>

(* Slip: a tree that has the patch is not told from one it does not fit.   *)
MutLogPatch ==
  /\ pc = "patch"
  /\ IF TreeOf[k] \notin present
     THEN NextPatch /\ UNCHANGED applied
     ELSE IF Fits(k)
     THEN NextPatch /\ applied' = [applied EXCEPT ![k] = @ + 1]
     ELSE pc' = "failed" /\ UNCHANGED <<k, applied>>
  /\ UNCHANGED <<misfit, present, header, runs, settled, build>>

(* Slip: a patch that is there already stays the current one.              *)
MutLogPatchLoop ==
  /\ pc = "patch"
  /\ IF TreeOf[k] \notin present
     THEN NextPatch /\ UNCHANGED applied
     ELSE IF Fits(k)
     THEN NextPatch /\ applied' = [applied EXCEPT ![k] = @ + 1]
     ELSE /\ pc' = IF Reverses(k) THEN "patch" ELSE "failed"
          /\ UNCHANGED <<k, applied>>
  /\ UNCHANGED <<misfit, present, header, runs, settled, build>>

(* A patch for a tree that is not there is passed over; set -e ends the    *)
(* script at one that fits neither way.                                    *)
LogPatch ==
  /\ pc = "patch"
  /\ \/ /\ TreeOf[k] \notin present \/ (~Fits(k) /\ Reverses(k))
        /\ NextPatch
        /\ UNCHANGED applied
     \/ /\ TreeOf[k] \in present /\ Fits(k)
        /\ applied' = [applied EXCEPT ![k] = @ + 1]
        /\ NextPatch
     \/ /\ TreeOf[k] \in present /\ ~Fits(k) /\ ~Reverses(k)
        /\ pc' = "failed"
        /\ UNCHANGED <<k, applied>>
  /\ UNCHANGED <<misfit, present, header, runs, settled, build>>

CopySimdHeader ==
  /\ pc = "header"
  /\ header' = (header \/ OpenBLAS \in present)
  /\ pc' = "verify"
  /\ UNCHANGED <<misfit, present, applied, k, runs, settled, build>>

(* Only warns: the grep that would end the script when it finds nothing,   *)
(* by pipefail, finds what 0002 put there.                                 *)
PostPatchVerify ==
  /\ pc = "verify"
  /\ pc' = "done"
  /\ settled' = TRUE
  /\ UNCHANGED <<misfit, trees, k, runs, build>>

Interrupt ==
  /\ pc \notin Resting
  /\ pc' = "interrupted"
  /\ UNCHANGED <<misfit, trees, k, runs, settled, build>>

-----------------------------------------------------------------------------
(* fetch-and-patch, and the ports                                          *)

(* Others change the trees only between two runs of the script.            *)
Outside == pc \in Resting /\ pc' = "idle" /\ UNCHANGED <<misfit, k, runs>>

Pristine(t) ==
  /\ present' = present \cup {t}
  /\ applied' = [p \in Patches |-> IF TreeOf[p] = t THEN 0 ELSE applied[p]]
  /\ header' = (header /\ t # OpenBLAS)
  /\ settled' = FALSE

(* The workflow extracts the archives before it runs the script.           *)
Fetch(t) ==
  /\ Outside
  /\ t \notin present
  /\ Pristine(t)
  /\ UNCHANGED build

(* The download step of a port replaces whatever is in extern/.            *)
Download(t) ==
  /\ Outside
  /\ stamp[t] = "none"
  /\ Pristine(t)
  /\ stamp' = [stamp EXCEPT ![t] = "extracted"]
  /\ step' = [step EXCEPT ![t] = 1]
  /\ UNCHANGED <<builds, library>>

(* Slip: the command of every port ends with "|| true".                    *)
MutPatchStep(t) ==
  /\ Outside
  /\ stamp[t] = "extracted"
  /\ step[t] <= Len(Ported[t])
  /\ LET p == Ported[t][step[t]] IN
     \/ /\ Fits(p)
        /\ applied' = [applied EXCEPT ![p] = @ + 1]
        /\ step' = [step EXCEPT ![t] = @ + 1]
        /\ settled' = FALSE
     \/ /\ ~Fits(p)
        /\ step' = [step EXCEPT ![t] = Len(Ported[t]) + 1]
        /\ UNCHANGED <<applied, settled>>
  /\ UNCHANGED <<present, header, builds, stamp, library>>

(* One patch of the step.  patch has nobody to ask about one that is       *)
(* already there, and fails; the next build starts at the first again.     *)
(* The two sed commands after the patches change lines no patch needs.     *)
PatchStep(t) ==
  /\ Outside
  /\ stamp[t] = "extracted"
  /\ step[t] <= Len(Ported[t])
  /\ LET p == Ported[t][step[t]] IN
     \/ /\ Fits(p)
        /\ applied' = [applied EXCEPT ![p] = @ + 1]
        /\ step' = [step EXCEPT ![t] = @ + 1]
        /\ settled' = FALSE
     \/ /\ ~Fits(p)
        /\ step' = [step EXCEPT ![t] = IF t \in Tolerant THEN Len(Ported[t]) + 1 ELSE 1]
        /\ UNCHANGED <<applied, settled>>
  /\ UNCHANGED <<present, header, builds, stamp, library>>

StampPatched(t) ==
  /\ Outside
  /\ stamp[t] = "extracted"
  /\ step[t] > Len(Ported[t])
  /\ stamp' = [stamp EXCEPT ![t] = "patched"]
  /\ UNCHANGED <<trees, settled, builds, step, library>>

InterruptBuild(t) ==
  /\ Outside
  /\ stamp[t] = "extracted"
  /\ step' = [step EXCEPT ![t] = 1]
  /\ UNCHANGED <<trees, settled, builds, stamp, library>>

(* Configure, build and install.                                           *)
Install(t) ==
  /\ Outside
  /\ stamp[t] = "patched"
  /\ stamp' = [stamp EXCEPT ![t] = "installed"]
  /\ library' = [library EXCEPT ![t] = {{p \in Of(t) : applied[p] > 0}}]
  /\ UNCHANGED <<trees, settled, builds, step>>

(* rm -rf build                                                            *)
RemoveBuild ==
  /\ Outside
  /\ builds < MaxBuilds
  /\ builds' = builds + 1
  /\ stamp' = [t \in Trees |-> "none"]
  /\ step' = [t \in Trees |-> 1]
  /\ library' = [t \in Trees |-> {}]
  /\ UNCHANGED <<trees, settled>>

-----------------------------------------------------------------------------

(* Nobody has to do anything while the script is not running.              *)
Rest == pc \in Resting /\ UNCHANGED vars

ScriptStep == LogPatch \/ CopySimdHeader \/ PostPatchVerify

Next ==
  \/ Start \/ ScriptStep \/ Interrupt \/ RemoveBuild \/ Rest
  \/ \E t \in Trees :
       \/ Fetch(t) \/ Download(t) \/ PatchStep(t) \/ StampPatched(t)
       \/ InterruptBuild(t) \/ Install(t)

(* A script that runs goes on, or is interrupted; nobody has to start it   *)
(* or a build.                                                             *)
Spec == Init /\ [][Next]_vars /\ WF_vars(ScriptStep)

-----------------------------------------------------------------------------

(* Every variable has its type.                                            *)
TypeOK ==
  /\ misfit \subseteq Patches
  /\ present \subseteq Trees
  /\ applied \in [Patches -> Nat]
  /\ header \in BOOLEAN
  /\ pc \in Resting \cup {"patch", "header", "verify"}
  /\ k \in Patches
  /\ runs \in 0 .. MaxRuns
  /\ builds \in 0 .. MaxBuilds
  /\ settled \in BOOLEAN
  /\ stamp \in [Trees -> {"none", "extracted", "patched", "installed"}]
  /\ step \in [Trees -> Nat \ {0}]
  /\ library \in [Trees -> SUBSET SUBSET Patches]

(* A script that ends well has left every patch in its tree, and the       *)
(* header beside them, whatever interrupted runs, downloads and builds     *)
(* came before.                                                            *)
SuccessIsComplete ==
  pc = "done" =>
    /\ \A p \in Patches : TreeOf[p] \in present => applied[p] > 0
    /\ OpenBLAS \in present => header

(* The script only fails at a patch that upstream's file has no place for: *)
(* a run that was interrupted, or a port that patched first, never makes a *)
(* later run fail.                                                         *)
FailureIsMisfit == pc = "failed" => k \in misfit /\ TreeOf[k] \in present

(* What is installed was built with every patch its port names, in spite   *)
(* of interrupted builds and of the script running between two steps of    *)
(* the build; only "|| true" lets a patch without a place be missing.      *)
LibraryHasPortedPatches ==
  \A t \in Trees : \A L \in library[t] : \A n \in 1 .. Len(Ported[t]) :
    LET p == Ported[t][n] IN p \in L \/ (t \in Tolerant /\ p \in misfit)

(* A run of the script that starts ends.                                   *)
ScriptEnds == pc = "patch" ~> pc \in Resting

(* "Idempotent patch application": once the script has ended well, running *)
(* it again changes nothing in the trees, until a download or a build      *)
(* does.                                                                   *)
Idempotent == [][settled /\ settled' => UNCHANGED trees]_vars
=============================================================================
