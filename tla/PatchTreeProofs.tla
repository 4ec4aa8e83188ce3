----------------------------- MODULE PatchTreeProofs -----------------------------
(***************************************************************************)
(* For any list of patches, ports and trees: a run of apply_patches.sh     *)
(* that ends well is complete, one that fails has met a patch that does    *)
(* not fit, and a port never installs a library without its patches.       *)
(***************************************************************************)
EXTENDS PatchTree, TLAPS

(* The script has dealt with every patch before the one it is at.          *)
ScriptProgress ==
  /\ pc = "patch" => \A p \in Patches : p < k /\ TreeOf[p] \in present => applied[p] > 0
  /\ pc \in {"header", "verify", "done"} =>
       \A p \in Patches : TreeOf[p] \in present => applied[p] > 0
  /\ pc \in {"verify", "done"} => (OpenBLAS \in present => header)

(* Nothing is missing that the script has put in place.                    *)
Undisturbed ==
  settled =>
    /\ \A p \in Patches : TreeOf[p] \in present => applied[p] > 0
    /\ OpenBLAS \in present => header

(* Patch number n of a port is in the tree, or its failure was ignored.    *)
Settles(t, n) ==
  applied[Ported[t][n]] > 0 \/ (t \in Tolerant /\ Ported[t][n] \in misfit)

(* A tree with a stamp has been extracted, and the patch step has dealt    *)
(* with every patch before the one it is at.                               *)
BuildProgress ==
  \A t \in Trees :
    /\ stamp[t] # "none" => t \in present
    /\ stamp[t] = "extracted" =>
         \A n \in 1 .. Len(Ported[t]) : n < step[t] => Settles(t, n)
    /\ stamp[t] \in {"patched", "installed"} =>
         \A n \in 1 .. Len(Ported[t]) : Settles(t, n)

IInv ==
  /\ TypeOK
  /\ ScriptProgress
  /\ FailureIsMisfit
  /\ Undisturbed
  /\ BuildProgress
  /\ LibraryHasPortedPatches

(* The numbers among the constants.                                        *)
LEMMA Bounds == Last \in Nat \ {0} /\ MaxRuns \in Nat /\ MaxBuilds \in Nat
BY PatchTreeAssumption

-----------------------------------------------------------------------------

(* What the ports name are patches, each for the port's own tree.          *)
LEMMA PortedPatches ==
  ASSUME NEW t \in Trees, NEW n \in 1 .. Len(Ported[t])
  PROVE  /\ Ported[t][n] \in Patches
         /\ TreeOf[Ported[t][n]] = t
         /\ Len(Ported[t]) \in Nat
<1>1. Ported[t] \in Seq(Patches)
  BY PatchTreeAssumption
<1>2. Len(Ported[t]) \in Nat /\ Ported[t][n] \in Patches
  BY <1>1
<1> QED
  BY <1>2, PatchTreeAssumption

(* The initial states satisfy the invariant: nothing is extracted yet.     *)
LEMMA InitIInv == Init => IInv
<1> SUFFICES ASSUME Init PROVE IInv
  OBVIOUS
<1>1. TypeOK
  <2>1. k \in Patches /\ runs \in 0 .. MaxRuns /\ builds \in 0 .. MaxBuilds
    BY Bounds DEF Init, Patches
  <2>2. applied \in [Patches -> Nat] /\ misfit \subseteq Patches
    BY DEF Init
  <2>3. stamp \in [Trees -> {"none", "extracted", "patched", "installed"}]
    BY DEF Init
  <2>4. step \in [Trees -> Nat \ {0}]
    BY DEF Init
  <2>5. library \in [Trees -> SUBSET SUBSET Patches]
    BY DEF Init
  <2>6. present \subseteq Trees /\ header \in BOOLEAN /\ settled \in BOOLEAN
        /\ pc \in Resting
    BY DEF Init, Resting
  <2> QED
    BY <2>1, <2>2, <2>3, <2>4, <2>5, <2>6 DEF TypeOK
<1>2. ScriptProgress /\ FailureIsMisfit /\ Undisturbed
  BY DEF Init, ScriptProgress, FailureIsMisfit, Undisturbed
<1>3. BuildProgress /\ LibraryHasPortedPatches
  BY DEF Init, BuildProgress, LibraryHasPortedPatches
<1> QED
  BY <1>1, <1>2, <1>3 DEF IInv

(* Every step keeps the types.                                             *)
LEMMA NextTypeOK == TypeOK /\ [Next]_vars => TypeOK'
<1> SUFFICES ASSUME TypeOK, [Next]_vars PROVE TypeOK'
  OBVIOUS
<1> USE DEF TypeOK, Resting, trees, script, build
<1>1. CASE Start
  <2>1. k' \in Patches
    BY <1>1, Bounds DEF Start, Patches
  <2> QED
    BY <1>1, <2>1, Bounds DEF Start
<1>2. CASE LogPatch
  <2>1. NextPatch => k' \in Patches /\ pc' \in {"patch", "header"}
    BY Bounds DEF NextPatch, Patches
  <2>2. k' \in Patches /\ pc' \in {"patch", "header", "failed"}
    BY <1>2, <2>1 DEF LogPatch
  <2>3. applied' \in [Patches -> Nat]
    BY <1>2 DEF LogPatch
  <2> QED
    BY <1>2, <2>2, <2>3 DEF LogPatch
<1>3. CASE CopySimdHeader
  BY <1>3 DEF CopySimdHeader
<1>4. CASE PostPatchVerify
  BY <1>4 DEF PostPatchVerify
<1>5. CASE Interrupt
  BY <1>5 DEF Interrupt
<1>6. CASE RemoveBuild
  <2>1. stamp' \in [Trees -> {"none", "extracted", "patched", "installed"}]
    BY <1>6 DEF RemoveBuild
  <2>2. step' \in [Trees -> Nat \ {0}] /\ library' \in [Trees -> SUBSET SUBSET Patches]
    BY <1>6 DEF RemoveBuild
  <2>3. builds' \in 0 .. MaxBuilds
    BY <1>6, Bounds DEF RemoveBuild
  <2> QED
    BY <1>6, <2>1, <2>2, <2>3 DEF RemoveBuild, Outside
<1>7. ASSUME NEW t \in Trees, Fetch(t) PROVE TypeOK'
  <2>1. applied' \in [Patches -> Nat]
    BY <1>7 DEF Fetch, Pristine
  <2> QED
    BY <1>7, <2>1 DEF Fetch, Pristine, Outside
<1>8. ASSUME NEW t \in Trees, Download(t) PROVE TypeOK'
  <2>1. applied' \in [Patches -> Nat]
    BY <1>8 DEF Download, Pristine
  <2>2. stamp' \in [Trees -> {"none", "extracted", "patched", "installed"}]
        /\ step' \in [Trees -> Nat \ {0}]
    BY <1>8 DEF Download
  <2> QED
    BY <1>8, <2>1, <2>2 DEF Download, Pristine, Outside
<1>9. ASSUME NEW t \in Trees, PatchStep(t) PROVE TypeOK'
  <2>1. step[t] \in 1 .. Len(Ported[t]) /\ Len(Ported[t]) \in Nat
    BY <1>9, PatchTreeAssumption DEF PatchStep
  <2>2. applied' \in [Patches -> Nat]
    BY <1>9 DEF PatchStep
  <2>3. step' \in [Trees -> Nat \ {0}]
    BY <1>9, <2>1 DEF PatchStep
  <2> QED
    BY <1>9, <2>2, <2>3 DEF PatchStep, Outside
<1>10. ASSUME NEW t \in Trees, StampPatched(t) PROVE TypeOK'
  BY <1>10 DEF StampPatched, Outside
<1>11. ASSUME NEW t \in Trees, InterruptBuild(t) PROVE TypeOK'
  BY <1>11 DEF InterruptBuild, Outside
<1>12. ASSUME NEW t \in Trees, Install(t) PROVE TypeOK'
  <2>1. library' \in [Trees -> SUBSET SUBSET Patches]
    BY <1>12 DEF Install, Of
  <2> QED
    BY <1>12, <2>1 DEF Install, Outside
<1>13. CASE UNCHANGED vars
  BY <1>13 DEF vars
<1> QED
  BY <1>1, <1>2, <1>3, <1>4, <1>5, <1>6, <1>7, <1>8, <1>9, <1>10, <1>11, <1>12, <1>13
  DEF Next, ScriptStep, Rest

(* Steps of a port leave the script at rest, with nothing to show for.     *)
LEMMA OutsideScript == Outside => ScriptProgress' /\ FailureIsMisfit'
BY DEF Outside, ScriptProgress, FailureIsMisfit

(* Every step keeps the progress of the script and its verdict.            *)
LEMMA NextScript ==
  TypeOK /\ ScriptProgress /\ FailureIsMisfit /\ [Next]_vars
    => ScriptProgress' /\ FailureIsMisfit'
<1> SUFFICES ASSUME TypeOK, ScriptProgress, FailureIsMisfit, [Next]_vars
             PROVE  ScriptProgress' /\ FailureIsMisfit'
  OBVIOUS
<1> USE DEF ScriptProgress, FailureIsMisfit
<1>1. CASE Start
  BY <1>1, Bounds DEF Start, Patches
<1>2. CASE LogPatch
  <2>1. /\ k \in Patches /\ applied \in [Patches -> Nat] /\ pc = "patch"
        /\ UNCHANGED <<misfit, present, header>>
    BY <1>2 DEF LogPatch, TypeOK
  <2>2. CASE pc' = "failed"
    <3>1. ~NextPatch
      BY <2>2 DEF NextPatch
    <3>2. k' = k /\ TreeOf[k] \in present /\ ~Fits(k) /\ ~Reverses(k)
      BY <1>2, <3>1 DEF LogPatch
    <3>3. k \in misfit
      BY <2>1, <3>2 DEF Fits, Reverses
    <3> QED
      BY <2>1, <2>2, <3>2, <3>3
  <2>3. CASE pc' # "failed"
    <3>1. NextPatch
      BY <1>2, <2>3 DEF LogPatch
    <3>2. \A p \in Patches : applied[p] > 0 => applied'[p] > 0
      BY <1>2, <2>1 DEF LogPatch
    <3>3. TreeOf[k] \in present => applied'[k] > 0
      BY <1>2, <2>1, <2>3 DEF LogPatch, Reverses
    <3>4. \A p \in Patches : p <= k /\ TreeOf[p] \in present => applied'[p] > 0
      BY <2>1, <3>2, <3>3 DEF Patches
    <3>5. CASE k < Last
      BY <2>1, <3>1, <3>4, <3>5 DEF NextPatch, Patches
    <3>6. CASE ~(k < Last)
      <4>1. \A p \in Patches : p <= k
        BY <2>1, <3>6, Bounds DEF Patches
      <4> QED
        BY <2>1, <3>1, <3>4, <3>6, <4>1 DEF NextPatch
    <3> QED
      BY <3>5, <3>6
  <2> QED
    BY <2>2, <2>3
<1>3. CASE CopySimdHeader
  BY <1>3 DEF CopySimdHeader
<1>4. CASE PostPatchVerify
  BY <1>4 DEF PostPatchVerify, trees
<1>5. CASE Interrupt
  BY <1>5 DEF Interrupt
<1>6. CASE Outside
  BY <1>6, OutsideScript
<1>7. CASE UNCHANGED vars
  BY <1>7 DEF vars, trees, script
<1> QED
  BY <1>1, <1>2, <1>3, <1>4, <1>5, <1>6, <1>7
  DEF Next, ScriptStep, Rest, RemoveBuild, Fetch, Download, PatchStep, StampPatched,
      InterruptBuild, Install

(* Every step keeps what the script has put in place, or is a download or  *)
(* a patch of a port.                                                      *)
LEMMA NextUndisturbed ==
  TypeOK /\ ScriptProgress /\ Undisturbed /\ [Next]_vars => Undisturbed'
<1> SUFFICES ASSUME TypeOK, ScriptProgress, Undisturbed, [Next]_vars
             PROVE  Undisturbed'
  OBVIOUS
<1>1. CASE settled' = FALSE
  BY <1>1 DEF Undisturbed
<1>2. CASE UNCHANGED <<trees, settled>>
  BY <1>2 DEF Undisturbed, trees
<1>3. CASE LogPatch
  <2>1. \A p \in Patches : applied[p] > 0 => applied'[p] > 0
    BY <1>3 DEF LogPatch, TypeOK
  <2> QED
    BY <1>3, <2>1 DEF LogPatch, Undisturbed
<1>4. CASE CopySimdHeader
  BY <1>4 DEF CopySimdHeader, Undisturbed
<1>5. CASE PostPatchVerify
  BY <1>5 DEF PostPatchVerify, ScriptProgress, Undisturbed, trees
<1>6. ASSUME NEW t \in Trees, PatchStep(t) PROVE settled' = FALSE \/ UNCHANGED <<trees, settled>>
  BY <1>6 DEF PatchStep, trees
<1> QED
  BY <1>1, <1>2, <1>3, <1>4, <1>5, <1>6
  DEF Next, ScriptStep, Rest, vars, Start, Interrupt, RemoveBuild, Fetch, Download,
      Pristine, StampPatched, InterruptBuild, Install

(* A step that takes nothing away and leaves the stamps alone keeps the    *)
(* progress of the builds.                                                 *)
LEMMA KeepBuildProgress ==
  ASSUME BuildProgress, UNCHANGED <<misfit, stamp, step>>, present \subseteq present',
         \A p \in Patches : applied[p] > 0 => applied'[p] > 0
  PROVE  BuildProgress'
<1>1. \A t \in Trees : \A n \in 1 .. Len(Ported[t]) : Settles(t, n) => Settles(t, n)'
  BY PortedPatches DEF Settles
<1> QED
  BY <1>1 DEF BuildProgress

(* Extracting one tree leaves the patches of the others where they are.    *)
LEMMA PristineElsewhere ==
  ASSUME NEW t \in Trees, NEW u \in Trees, u # t, Pristine(t), UNCHANGED misfit,
         NEW n \in 1 .. Len(Ported[u]), Settles(u, n)
  PROVE  Settles(u, n)'
<1>1. applied'[Ported[u][n]] = applied[Ported[u][n]]
  BY PortedPatches DEF Pristine
<1> QED
  BY <1>1 DEF Settles

(* Every step keeps the progress of the builds.                            *)
LEMMA NextBuild == TypeOK /\ BuildProgress /\ [Next]_vars => BuildProgress'
<1> SUFFICES ASSUME TypeOK, BuildProgress, [Next]_vars PROVE BuildProgress'
  OBVIOUS
<1>t. /\ stamp \in [Trees -> {"none", "extracted", "patched", "installed"}]
      /\ step \in [Trees -> Nat \ {0}]
      /\ applied \in [Patches -> Nat]
  BY DEF TypeOK
<1>1. CASE Start
  BY <1>1, KeepBuildProgress DEF Start, trees, build
<1>2. CASE LogPatch
  <2>1. \A p \in Patches : applied[p] > 0 => applied'[p] > 0
    BY <1>2, <1>t DEF LogPatch
  <2> QED
    BY <1>2, <2>1, KeepBuildProgress DEF LogPatch, build
<1>3. CASE CopySimdHeader
  BY <1>3, KeepBuildProgress DEF CopySimdHeader, build
<1>4. CASE PostPatchVerify
  BY <1>4, KeepBuildProgress DEF PostPatchVerify, trees, build
<1>5. CASE Interrupt
  BY <1>5, KeepBuildProgress DEF Interrupt, trees, build
<1>6. CASE RemoveBuild
  BY <1>6 DEF RemoveBuild, BuildProgress
<1>7. ASSUME NEW t \in Trees, Fetch(t) PROVE BuildProgress'
  <2>1. stamp[t] = "none" /\ Pristine(t) /\ UNCHANGED <<misfit, stamp, step>>
    BY <1>7, <1>t DEF Fetch, Outside, build, BuildProgress
  <2>2. present \subseteq present'
    BY <2>1 DEF Pristine
  <2> QED
    BY <2>1, <2>2, PristineElsewhere DEF BuildProgress
<1>8. ASSUME NEW t \in Trees, Download(t) PROVE BuildProgress'
  <2>1. /\ Pristine(t) /\ UNCHANGED misfit
        /\ stamp' = [stamp EXCEPT ![t] = "extracted"]
        /\ step' = [step EXCEPT ![t] = 1]
    BY <1>8 DEF Download, Outside
  <2>2. present' = present \cup {t}
    BY <2>1 DEF Pristine
  <2>3. \A n \in 1 .. Len(Ported[t]) : ~(n < step'[t])
    BY <2>1, <1>t
  <2> QED
    BY <2>1, <2>2, <2>3, <1>t, PristineElsewhere DEF BuildProgress
<1>9. ASSUME NEW t \in Trees, PatchStep(t) PROVE BuildProgress'
  <2> DEFINE p == Ported[t][step[t]]
  <2>1. /\ UNCHANGED <<misfit, present, stamp>> /\ stamp[t] = "extracted"
        /\ step[t] \in 1 .. Len(Ported[t])
    BY <1>9, <1>t, PatchTreeAssumption DEF PatchStep, Outside
  <2>2. p \in Patches
    BY <2>1, PortedPatches
  <2>3. \A q \in Patches : applied[q] > 0 => applied'[q] > 0
    BY <1>9, <1>t DEF PatchStep
  <2>4. \A u \in Trees : \A n \in 1 .. Len(Ported[u]) : Settles(u, n) => Settles(u, n)'
    BY <2>1, <2>3, PortedPatches DEF Settles
  <2>5. \A u \in Trees : u # t => step'[u] = step[u]
    BY <1>9, <1>t DEF PatchStep
  <2>6. \A n \in 1 .. Len(Ported[t]) : n < step'[t] => Settles(t, n)'
    <3>1. CASE Fits(p)
      <4>1. applied'[p] > 0 /\ step'[t] = step[t] + 1
        BY <1>9, <2>2, <3>1, <1>t DEF PatchStep
      <4>2. \A n \in 1 .. Len(Ported[t]) : n < step[t] => Settles(t, n)
        BY <2>1 DEF BuildProgress
      <4>3. \A n \in 1 .. Len(Ported[t]) : n = step[t] => Settles(t, n)'
        BY <4>1 DEF Settles
      <4>4. \A n \in 1 .. Len(Ported[t]) : n < step'[t] => n < step[t] \/ n = step[t]
        BY <4>1, <1>t
      <4> QED
        BY <4>2, <4>3, <4>4, <2>4
    <3>2. CASE ~Fits(p) /\ t \notin Tolerant
      <4>1. step'[t] = 1
        BY <1>9, <3>2, <1>t DEF PatchStep
      <4> QED
        BY <4>1
    <3>3. CASE ~Fits(p) /\ t \in Tolerant
      <4>1. Len(Ported[t]) = 1
        BY <3>3, PatchTreeAssumption
      <4>2. step[t] = 1
        BY <4>1, <2>1
      <4>3. p \in misfit \/ applied[p] > 0
        BY <3>3, <2>2, <1>t DEF Fits
      <4>4. Settles(t, 1)
        BY <4>2, <4>3, <3>3 DEF Settles
      <4> QED
        BY <4>1, <4>4, <2>4
    <3> QED
      BY <3>1, <3>2, <3>3
  <2> QED
    BY <2>1, <2>4, <2>5, <2>6, <1>t DEF BuildProgress
<1>10. ASSUME NEW t \in Trees, StampPatched(t) PROVE BuildProgress'
  <2>1. /\ UNCHANGED <<misfit, present, applied, step>>
        /\ stamp[t] = "extracted" /\ step[t] > Len(Ported[t])
        /\ stamp' = [stamp EXCEPT ![t] = "patched"]
    BY <1>10 DEF StampPatched, Outside, trees
  <2>2. \A n \in 1 .. Len(Ported[t]) : n < step[t]
    BY <2>1, <1>t, PatchTreeAssumption
  <2>3. \A n \in 1 .. Len(Ported[t]) : Settles(t, n)
    BY <2>1, <2>2 DEF BuildProgress
  <2> QED
    BY <2>1, <2>3, <1>t DEF BuildProgress, Settles
<1>11. ASSUME NEW t \in Trees, InterruptBuild(t) PROVE BuildProgress'
  <2>1. /\ UNCHANGED <<misfit, present, applied, stamp>>
        /\ step' = [step EXCEPT ![t] = 1]
        /\ stamp[t] = "extracted"
    BY <1>11 DEF InterruptBuild, Outside, trees
  <2>2. \A n \in 1 .. Len(Ported[t]) : ~(n < step'[t])
    BY <2>1, <1>t
  <2> QED
    BY <2>1, <2>2, <1>t DEF BuildProgress, Settles
<1>12. ASSUME NEW t \in Trees, Install(t) PROVE BuildProgress'
  <2>1. /\ UNCHANGED <<misfit, present, applied, step>>
        /\ stamp[t] = "patched"
        /\ stamp' = [stamp EXCEPT ![t] = "installed"]
    BY <1>12 DEF Install, Outside, trees
  <2> QED
    BY <2>1, <1>t DEF BuildProgress, Settles
<1>13. CASE UNCHANGED vars
  BY <1>13, KeepBuildProgress DEF vars, trees, build
<1> QED
  BY <1>1, <1>2, <1>3, <1>4, <1>5, <1>6, <1>7, <1>8, <1>9, <1>10, <1>11, <1>12, <1>13
  DEF Next, ScriptStep, Rest

(* What is installed has been through the whole patch step.                *)
LEMMA NextLibrary ==
  TypeOK /\ BuildProgress /\ LibraryHasPortedPatches /\ [Next]_vars
    => LibraryHasPortedPatches'
<1> SUFFICES ASSUME TypeOK, BuildProgress, LibraryHasPortedPatches, [Next]_vars
             PROVE  LibraryHasPortedPatches'
  OBVIOUS
<1>1. CASE UNCHANGED <<misfit, library>>
  BY <1>1 DEF LibraryHasPortedPatches
<1>2. CASE RemoveBuild
  BY <1>2 DEF RemoveBuild, LibraryHasPortedPatches
<1>3. ASSUME NEW t \in Trees, Install(t) PROVE LibraryHasPortedPatches'
  <2> DEFINE L == {p \in Of(t) : applied[p] > 0}
  <2>1. library' = [library EXCEPT ![t] = {L}] /\ UNCHANGED misfit
    BY <1>3 DEF Install, Outside
  <2>2. \A n \in 1 .. Len(Ported[t]) : Settles(t, n)
    BY <1>3 DEF Install, BuildProgress
  <2>3. \A n \in 1 .. Len(Ported[t]) :
          Ported[t][n] \in L \/ (t \in Tolerant /\ Ported[t][n] \in misfit)
    BY <2>2, PortedPatches DEF Settles, Of
  <2>4. library'[t] = {L} /\ \A u \in Trees : u # t => library'[u] = library[u]
    BY <2>1 DEF TypeOK
  <2> HIDE DEF L
  <2> QED
    BY <2>1, <2>3, <2>4 DEF LibraryHasPortedPatches
<1>4. UNCHANGED <<misfit, library>> \/ RemoveBuild \/ \E t \in Trees : Install(t)
  BY DEF Next, ScriptStep, Rest, vars, build, Start, LogPatch, CopySimdHeader,
         PostPatchVerify, Interrupt, Fetch, Download, PatchStep, StampPatched,
         InterruptBuild, Outside
<1> QED
  BY <1>1, <1>2, <1>3, <1>4

(* Every step keeps the invariant.                                         *)
LEMMA NextIInv == IInv /\ [Next]_vars => IInv'
BY NextTypeOK, NextScript, NextUndisturbed, NextBuild, NextLibrary DEF IInv

(* A patch that is in its tree, and that changes its own context, is left  *)
(* alone by the script.                                                    *)
LEMMA NextRepeats ==
  ASSUME IInv, Next, settled, settled'
  PROVE  /\ UNCHANGED <<present, header>>
         /\ \A p \in Patches \ Stacks : applied'[p] = applied[p]
<1>1. CASE LogPatch
  <2>1. UNCHANGED <<present, header>>
    BY <1>1 DEF LogPatch
  <2>2. k \in Patches /\ applied \in [Patches -> Nat]
    BY DEF IInv, TypeOK
  <2>3. CASE applied' = applied
    BY <2>1, <2>3
  <2>4. CASE applied' # applied
    <3>1. TreeOf[k] \in present /\ Fits(k) /\ applied' = [applied EXCEPT ![k] = @ + 1]
      BY <1>1, <2>4 DEF LogPatch
    <3>2. applied[k] > 0
      BY <2>2, <3>1 DEF IInv, Undisturbed
    <3>3. k \in Stacks
      BY <2>2, <3>1, <3>2 DEF Fits
    <3> QED
      BY <2>1, <2>2, <3>1, <3>3
  <2> QED
    BY <2>3, <2>4
<1>2. CASE CopySimdHeader
  BY <1>2 DEF CopySimdHeader, IInv, Undisturbed, TypeOK
<1>3. CASE UNCHANGED trees
  BY <1>3 DEF trees
<1>4. ASSUME NEW t \in Trees, PatchStep(t) PROVE UNCHANGED trees
  BY <1>4 DEF PatchStep, trees
<1> QED
  BY <1>1, <1>2, <1>3, <1>4
  DEF Next, ScriptStep, Rest, vars, Start, PostPatchVerify, Interrupt, RemoveBuild,
      Fetch, Download, Pristine, StampPatched, InterruptBuild, Install

-----------------------------------------------------------------------------

(* The inductive invariant holds throughout.                               *)
THEOREM PatchTreeInvariant == Spec => []IInv
BY InitIInv, NextIInv, PTL DEF Spec

(* Every variable keeps its type.                                          *)
THEOREM PatchTreeTypeCorrect == Spec => []TypeOK
<1>1. IInv => TypeOK
  BY DEF IInv
<1> QED
  BY <1>1, PatchTreeInvariant, PTL

(* apply_patches.sh only ends well with every patch in its tree and        *)
(* rvforge_simd.h beside them, after any history of interrupted runs,      *)
(* downloads and builds.                                                   *)
THEOREM PatchTreeSuccessIsComplete == Spec => []SuccessIsComplete
<1>1. IInv => SuccessIsComplete
  BY DEF IInv, ScriptProgress, SuccessIsComplete
<1> QED
  BY <1>1, PatchTreeInvariant, PTL

(* apply_patches.sh only fails at a patch that has no place in its tree.   *)
THEOREM PatchTreeFailureIsMisfit == Spec => []FailureIsMisfit
<1>1. IInv => FailureIsMisfit
  BY DEF IInv
<1> QED
  BY <1>1, PatchTreeInvariant, PTL

(* What a port installs was built with every patch the port names, unless  *)
(* "|| true" excused one that has no place.                                *)
THEOREM PatchTreeLibraryHasPortedPatches == Spec => []LibraryHasPortedPatches
<1>1. IInv => LibraryHasPortedPatches
  BY DEF IInv
<1> QED
  BY <1>1, PatchTreeInvariant, PTL

(* How far from idempotent the script is: once it has ended well, later    *)
(* runs, whole or interrupted, only repeat patches that find their place   *)
(* among each other's comments; all else in the trees stays, until a       *)
(* download or a build changes a tree.                                     *)
OnlyStacksRepeat ==
  [][settled /\ settled' =>
       /\ present' = present
       /\ header' = header
       /\ \A p \in Patches \ Stacks : applied'[p] = applied[p]]_vars

(* After apply_patches.sh has ended well, log_patch finds every other      *)
(* patch in place: later runs only repeat those among Stacks.               *)
THEOREM PatchTreeOnlyStacksRepeat == Spec => OnlyStacksRepeat
<1>1. ASSUME IInv, [Next]_vars
      PROVE  [settled /\ settled' =>
                /\ present' = present
                /\ header' = header
                /\ \A p \in Patches \ Stacks : applied'[p] = applied[p]]_vars
  BY <1>1, NextRepeats
<1> QED
  BY <1>1, PatchTreeInvariant, PTL DEF Spec, OnlyStacksRepeat
=============================================================================
