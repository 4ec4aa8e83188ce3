---------------------------------- MODULE CiProofs ----------------------------------
(***************************************************************************)
(* For any number of overlapping runs, any commits and any faults: the     *)
(* OpenBLAS a run hands on has the port of the run's own commit and the    *)
(* patches that port applies, and never x86 code.  A cache entry that fits a commit's key was *)
(* built from files that agree with the commit on all the key hashes; the  *)
(* invariant follows that agreement from the entry to what a job restores  *)
(* and to what it uploads.  Within a run, Progress follows the jobs: what  *)
(* runs or has succeeded has its needs fulfilled, and its uploads made.    *)
(***************************************************************************)
EXTENDS Ci, TLAPS

Agrees(j, a, c) == \A i \in KeyInputs(j) : a[i] = c[i]

(* The tables are indexed by run and job.                                  *)
Tables ==
  /\ DOMAIN commit = Runs
  /\ DOMAIN restored = Runs \X Libraries
  /\ DOMAIN artifact = Runs \X Builders

(* A run is for one commit, and has restored nothing before it has one.    *)
OneCommit ==
  \A r \in Runs :
    /\ \A c, d \in commit[r] : c = d
    /\ commit[r] = {} => \A j \in Libraries : restored[<<r, j>>] = {} /\ artifact[<<r, j>>] = {}

(* Entries, restored and uploaded libraries agree with their keys.         *)
EntriesAgree ==
  \A e \in cache : e.library \in Libraries => e.key = Key(e.library, e.install)

RestoredAgree ==
  \A r \in Runs, j \in Libraries : \A c \in commit[r], a \in restored[<<r, j>>] : Agrees(j, a, c)

UploadsAgree ==
  \A r \in Runs, j \in Libraries : \A c \in commit[r], a \in artifact[<<r, j>>] : Agrees(j, a, c)

IInv ==
  /\ Tables /\ OneCommit
  /\ EntriesAgree /\ RestoredAgree /\ UploadsAgree
  /\ KeptOpenblasIsAudited

-----------------------------------------------------------------------------

(* Equal keys mean equal versions of everything the key hashes.            *)
LEMMA KeysAgree ==
  ASSUME NEW j, NEW a, NEW c, Key(j, a) = Key(j, c)
  PROVE  Agrees(j, a, c)
<1> SUFFICES ASSUME NEW i \in KeyInputs(j) PROVE a[i] = c[i]
  BY DEF Agrees
<1>1. Key(j, a)[i] = a[i] /\ Key(j, c)[i] = c[i]
  BY DEF Key
<1> QED
  BY <1>1

(* Libraries are among the builders, OpenBLAS among the libraries.         *)
LEMMA Names ==
  /\ Libraries \subseteq Builders
  /\ "build-openblas" \in Libraries
  /\ "fetch-and-patch" \notin Libraries /\ "build-harness" \notin Libraries
  /\ "fetch-and-patch" \in Builders /\ "build-harness" \in Builders
BY DEF Builders, Libraries

(* The initial states satisfy the invariant: nothing is built.             *)
LEMMA InitIInv == Init => IInv
<1> SUFFICES ASSUME Init PROVE IInv
  OBVIOUS
<1>1. Tables
  BY DEF Init, Tables
<1>2. \A r \in Runs, j \in Libraries : restored[<<r, j>>] = {} /\ artifact[<<r, j>>] = {}
  BY Names DEF Init
<1>3. commit = [r \in Runs |-> {}] /\ cache = {}
  BY DEF Init
<1> QED
  BY <1>1, <1>2, <1>3, Names
  DEF IInv, OneCommit, EntriesAgree, RestoredAgree, UploadsAgree, KeptOpenblasIsAudited

(* Steps that leave commits, libraries and caches alone.                   *)
LEMMA KeepIInv ==
  ASSUME IInv, UNCHANGED <<commit, restored, cache>>,
         DOMAIN artifact' = DOMAIN artifact,
         \A r \in Runs, j \in Libraries : artifact'[<<r, j>>] = artifact[<<r, j>>]
  PROVE  IInv'
<1>1. Tables' /\ OneCommit' /\ EntriesAgree' /\ RestoredAgree' /\ UploadsAgree'
  BY DEF IInv, Tables, OneCommit, EntriesAgree, RestoredAgree, UploadsAgree, Agrees, Key
<1>2. KeptOpenblasIsAudited'
  BY Names DEF IInv, KeptOpenblasIsAudited
<1> QED
  BY <1>1, <1>2 DEF IInv

(* A step that uploads something that is no library changes no library.    *)
LEMMA OtherUpload ==
  ASSUME IInv, UNCHANGED <<commit, restored, cache>>,
         NEW r \in Runs, NEW j \in Builders \ Libraries, NEW c, Upload(r, j, c)
  PROVE  IInv'
<1>1. DOMAIN artifact' = DOMAIN artifact
  BY DEF Upload
<1>2. ASSUME NEW q \in Runs, NEW l \in Libraries
      PROVE  artifact'[<<q, l>>] = artifact[<<q, l>>]
  <2>1. <<q, l>> \in Runs \X Builders /\ <<q, l>> # <<r, j>>
    BY Names
  <2> QED
    BY <2>1 DEF Upload, IInv, Tables
<1> QED
  BY <1>1, <1>2, KeepIInv

(* What a run is for is decided before it has restored anything.           *)
LEMMA TriggerIInv ==
  ASSUME IInv, NEW r \in Runs, Trigger(r)
  PROVE  IInv'
<1>1. UNCHANGED <<restored, artifact, cache>> /\ commit[r] = {}
  BY DEF Trigger
<1>2. PICK d \in Commits : commit' = [commit EXCEPT ![r] = {d}]
  BY DEF Trigger
<1>3. DOMAIN commit' = Runs /\ commit'[r] = {d}
      /\ \A q \in Runs : q # r => commit'[q] = commit[q]
  BY <1>2 DEF IInv, Tables
<1>4. \A j \in Libraries : restored[<<r, j>>] = {} /\ artifact[<<r, j>>] = {}
  BY <1>1 DEF IInv, OneCommit
<1>5. Tables' /\ OneCommit' /\ EntriesAgree'
  BY <1>1, <1>3, <1>4 DEF IInv, Tables, OneCommit, EntriesAgree, Key
<1>6. RestoredAgree' /\ UploadsAgree'
  BY <1>1, <1>3, <1>4 DEF IInv, RestoredAgree, UploadsAgree, Agrees
<1>7. KeptOpenblasIsAudited'
  BY <1>1 DEF IInv, KeptOpenblasIsAudited
<1> QED
  BY <1>5, <1>6, <1>7 DEF IInv

(* What the cache step restores has the key of the run's commit.           *)
LEMMA RestoreIInv ==
  ASSUME IInv, NEW r \in Runs, NEW j \in Libraries, RestoreLibrary(r, j)
  PROVE  IInv'
<1>1. UNCHANGED <<commit, artifact, cache>> /\ commit[r] # {}
  BY DEF RestoreLibrary, Ready
<1>2. PICK c \in commit[r] : restored' = [restored EXCEPT ![<<r, j>>] =
        {e.install : e \in {x \in cache : x.library = j /\ x.key = Key(j, c)}}]
  BY DEF RestoreLibrary
<1>3. \A q \in Runs, l \in Libraries :
        <<q, l>> # <<r, j>> => restored'[<<q, l>>] = restored[<<q, l>>]
  BY <1>2 DEF IInv, Tables
<1>4. ASSUME NEW a \in restored'[<<r, j>>] PROVE Agrees(j, a, c)
  <2>1. restored'[<<r, j>>] =
          {e.install : e \in {x \in cache : x.library = j /\ x.key = Key(j, c)}}
    BY <1>2 DEF IInv, Tables
  <2>2. PICK e \in cache : e.library = j /\ e.key = Key(j, c) /\ a = e.install
    BY <2>1
  <2>3. Key(j, a) = Key(j, c)
    BY <2>2 DEF IInv, EntriesAgree
  <2> QED
    BY <2>3, KeysAgree
<1>5. \A d \in commit[r] : d = c
  BY <1>2 DEF IInv, OneCommit
<1>6. RestoredAgree'
  <2> SUFFICES ASSUME NEW q \in Runs, NEW l \in Libraries, NEW d \in commit'[q],
                      NEW a \in restored'[<<q, l>>]
               PROVE  Agrees(l, a, d)
    BY DEF RestoredAgree, Agrees, KeyInputs
  <2>1. CASE <<q, l>> = <<r, j>>
    BY <2>1, <1>1, <1>4, <1>5
  <2>2. CASE <<q, l>> # <<r, j>>
    BY <2>2, <1>1, <1>3 DEF IInv, RestoredAgree
  <2> QED
    BY <2>1, <2>2
<1>7. OneCommit'
  <2>1. \A q \in Runs : commit[q] = {} => q # r
    BY <1>1
  <2> QED
    BY <2>1, <1>1, <1>3 DEF IInv, OneCommit
<1>8. Tables' /\ EntriesAgree' /\ UploadsAgree' /\ KeptOpenblasIsAudited'
  BY <1>1, <1>2 DEF IInv, Tables, EntriesAgree, UploadsAgree, KeptOpenblasIsAudited,
                    Agrees, Key
<1> QED
  BY <1>6, <1>7, <1>8 DEF IInv

(* What a library's job uploads and saves was built from the run's commit, *)
(* or restored under the key of that commit.                               *)
LEMMA FinishIInv ==
  ASSUME IInv, NEW r \in Runs, NEW j \in Libraries, FinishLibrary(r, j)
  PROVE  IInv'
<1>1. UNCHANGED <<commit, restored>>
  BY DEF FinishLibrary
<1>2. PICK c \in commit[r] :
        \E a \in IF restored[<<r, j>>] = {} THEN {c} ELSE restored[<<r, j>>] :
          IF j = "build-openblas" /\ a \in Dirty
          THEN Mark(r, j, "failure") /\ UNCHANGED <<artifact, cache>>
          ELSE /\ Mark(r, j, "success")
               /\ Upload(r, j, a)
               /\ cache' = cache \cup Saved(r, j, c)
  BY DEF FinishLibrary
<1>3. PICK a \in IF restored[<<r, j>>] = {} THEN {c} ELSE restored[<<r, j>>] :
        IF j = "build-openblas" /\ a \in Dirty
        THEN Mark(r, j, "failure") /\ UNCHANGED <<artifact, cache>>
        ELSE /\ Mark(r, j, "success")
             /\ Upload(r, j, a)
             /\ cache' = cache \cup Saved(r, j, c)
  BY <1>2
<1> DEFINE entry == [library |-> j, key |-> Key(j, c), install |-> c]
<1>4. Agrees(j, a, c)
  BY <1>3 DEF IInv, RestoredAgree, Agrees
<1>5. CASE UNCHANGED <<artifact, cache>>
  BY <1>1, <1>5, KeepIInv
<1>6. CASE /\ ~(j = "build-openblas" /\ a \in Dirty)
           /\ Upload(r, j, a)
           /\ cache' = cache \cup Saved(r, j, c)
  <2>1. /\ DOMAIN artifact' = DOMAIN artifact
        /\ artifact'[<<r, j>>] = {a}
        /\ \A q \in Runs, l \in Libraries :
             <<q, l>> # <<r, j>> => artifact'[<<q, l>>] = artifact[<<q, l>>]
    BY <1>6, Names DEF Upload, IInv, Tables
  <2>2. /\ entry.library = j /\ entry.key = Key(j, c)
        /\ \A e \in cache' : e \in cache \/ (e = entry /\ e.install = a)
    <3>1. \A e \in Saved(r, j, c) : e = entry /\ a = c /\ e.install = c
      BY <1>3 DEF Saved
    <3> HIDE DEF entry
    <3>2. entry.library = j /\ entry.key = Key(j, c)
      BY DEF entry
    <3> QED
      BY <1>6, <3>1, <3>2
  <2>3. EntriesAgree'
    <3>1. entry.install = c
      OBVIOUS
    <3>2. \A e \in cache' : e \in cache \/ e = entry
      BY <2>2
    <3>3. \A l, d : Key(l, d)' = Key(l, d)
      BY DEF Key
    <3> HIDE DEF entry
    <3> QED
      BY <2>2, <3>1, <3>2, <3>3 DEF IInv, EntriesAgree
  <2>4. UploadsAgree'
    <3> SUFFICES ASSUME NEW q \in Runs, NEW l \in Libraries, NEW d \in commit'[q],
                        NEW b \in artifact'[<<q, l>>]
                 PROVE  Agrees(l, b, d)
      BY DEF UploadsAgree, Agrees, KeyInputs
    <3>1. CASE <<q, l>> = <<r, j>>
      <4>1. b = a /\ l = j /\ q = r
        BY <3>1, <2>1
      <4>2. d = c
        BY <4>1, <1>1, <1>2 DEF IInv, OneCommit
      <4> QED
        BY <4>1, <4>2, <1>4
    <3>2. CASE <<q, l>> # <<r, j>>
      BY <3>2, <1>1, <2>1 DEF IInv, UploadsAgree
    <3> QED
      BY <3>1, <3>2
  <2>5. OneCommit'
    <3>1. \A q \in Runs : commit[q] = {} => q # r
      BY <1>2
    <3> QED
      BY <3>1, <1>1, <2>1 DEF IInv, OneCommit
  <2>6. KeptOpenblasIsAudited'
    <3>1. \A e \in cache' : e \in cache \/ (e = entry /\ e.install = a)
      BY <2>2
    <3>2. \A e \in cache' : e.library = "build-openblas" => e.install \notin Dirty
      <4> HIDE DEF entry
      <4> QED
        BY <1>6, <2>2, <3>1 DEF IInv, KeptOpenblasIsAudited
    <3>3. \A q \in Runs : artifact'[<<q, "build-openblas">>] \cap Dirty = {}
      <4> TAKE q \in Runs
      <4>1. CASE <<q, "build-openblas">> = <<r, j>>
        <5>1. j = "build-openblas"
          BY <4>1
        <5> QED
          BY <4>1, <5>1, <1>6, <2>1
      <4>2. CASE <<q, "build-openblas">> # <<r, j>>
        BY <4>2, <2>1, Names DEF IInv, KeptOpenblasIsAudited
      <4> QED
        BY <4>1, <4>2
    <3> QED
      BY <3>2, <3>3 DEF KeptOpenblasIsAudited
  <2>7. Tables' /\ RestoredAgree'
    BY <1>1, <2>1 DEF IInv, Tables, RestoredAgree, Agrees
  <2> QED
    BY <2>3, <2>4, <2>5, <2>6, <2>7 DEF IInv
<1> QED
  BY <1>3, <1>5, <1>6

(* Dropping an entry loses nothing the others rest on.                     *)
LEMMA EvictIInv ==
  ASSUME IInv, Evict
  PROVE  IInv'
<1>1. UNCHANGED <<commit, restored, artifact>> /\ cache' \subseteq cache
  BY DEF Evict
<1> QED
  BY <1>1 DEF IInv, Tables, OneCommit, EntriesAgree, RestoredAgree, UploadsAgree,
              KeptOpenblasIsAudited, Agrees, Key

(* Every step keeps the invariant.                                         *)
LEMMA NextIInv == IInv /\ [Next]_vars => IInv'
<1> SUFFICES ASSUME IInv, [Next]_vars PROVE IInv'
  OBVIOUS
<1>1. CASE UNCHANGED <<commit, restored, artifact, cache>>
  BY <1>1, KeepIInv
<1>2. CASE Evict
  BY <1>2, EvictIInv
<1>3. ASSUME NEW r \in Runs, Trigger(r) \/ Step(r) PROVE IInv'
  <2>1. CASE Trigger(r)
    BY <2>1, TriggerIInv
  <2>2. CASE \E j \in Libraries : RestoreLibrary(r, j) \/ FinishLibrary(r, j)
    BY <2>2, RestoreIInv, FinishIInv
  <2>3. CASE FetchAndPatch(r)
    <3>1. CASE UNCHANGED artifact
      BY <2>3, <3>1, <1>1 DEF FetchAndPatch
    <3>2. CASE \E c \in commit[r] : Upload(r, "fetch-and-patch", c)
      BY <2>3, <3>2, OtherUpload, Names DEF FetchAndPatch
    <3> QED
      BY <2>3, <3>1, <3>2 DEF FetchAndPatch
  <2>4. CASE BuildHarness(r)
    <3>1. CASE UNCHANGED artifact
      BY <2>4, <3>1, <1>1 DEF BuildHarness
    <3>2. CASE \E c \in commit[r] : Upload(r, "build-harness", c)
      BY <2>4, <3>2, OtherUpload, Names DEF BuildHarness
    <3> QED
      BY <2>4, <3>1, <3>2 DEF BuildHarness
  <2>5. CASE \/ \E j \in Jobs : Skip(r, j) \/ Fault(r, j)
             \/ ToolchainProbe(r) \/ SimdAudit(r) \/ QemuValidate(r) \/ CTestSuite(r)
             \/ UpstreamTests(r) \/ BitrotGuard(r) \/ RvvCorrectness(r) \/ FinalSummary(r)
    BY <2>5, <1>1
    DEF Skip, Fault, Conclude, ToolchainProbe, SimdAudit, QemuValidate, CTestSuite,
        UpstreamTests, BitrotGuard, RvvCorrectness, FinalSummary
  <2> QED
    BY <1>3, <2>1, <2>2, <2>3, <2>4, <2>5 DEF Step
<1>4. CASE UNCHANGED vars
  BY <1>1, <1>4 DEF vars
<1> QED
  BY <1>2, <1>3, <1>4 DEF Next, Done

-----------------------------------------------------------------------------

(* The inductive invariant holds throughout.                               *)
THEOREM CiInvariant == Spec => []IInv
BY InitIInv, NextIInv, PTL DEF Spec

(* However runs overlap and whatever the cache keeps or drops, a run hands *)
(* on an OpenBLAS with the port of its own commit and that port's patches. *)
THEOREM CiOpenblasIsCurrent == Spec => []OpenblasIsCurrent
<1>1. IInv => OpenblasIsCurrent
  BY Names DEF IInv, UploadsAgree, Agrees, KeyInputs, PortInputs, OpenblasIsCurrent
<1> QED
  BY <1>1, CiInvariant, PTL

(* No OpenBLAS with x86 code in it is uploaded or saved.                   *)
THEOREM CiKeptOpenblasIsAudited == Spec => []KeptOpenblasIsAudited
<1>1. IInv => KeptOpenblasIsAudited
  BY DEF IInv
<1> QED
  BY <1>1, CiInvariant, PTL
-----------------------------------------------------------------------------

(* The cache has one entry of a library and a key.                         *)
OneEntry ==
  \A e, f \in cache : e.library = f.library /\ e.key = f.key => e = f

(* The states of a job, of which Mark sets one, and what Upload sets.      *)
Results == Concluded \cup {"waiting", "running"}

LEMMA MarkTypes ==
  ASSUME job \in [Runs \X Jobs -> Results],
         NEW r \in Runs, NEW j \in Jobs, NEW result \in Results, Mark(r, j, result)
  PROVE  job' \in [Runs \X Jobs -> Results]
BY DEF Mark

LEMMA UploadTypes ==
  ASSUME artifact \in [Runs \X Builders -> Maybe(Commits)],
         NEW r \in Runs, NEW j \in Builders, NEW c \in Commits, Upload(r, j, c)
  PROVE  artifact' \in [Runs \X Builders -> Maybe(Commits)]
<1>1. {c} \in Maybe(Commits)
  BY DEF Maybe
<1> QED
  BY <1>1 DEF Upload

(* Builders are among the jobs.                                            *)
LEMMA JobNames == Builders \subseteq Jobs /\ Libraries \subseteq Jobs
BY DEF Jobs, Builders

(* Type correctness, for which the cache must have one entry of a key: a   *)
(* job restores at most one library.                                       *)
THEOREM CiTypeCorrect == Spec => [](TypeOK /\ OneEntry)
<1>1. Init => TypeOK /\ OneEntry
  BY DEF Init, TypeOK, OneEntry, Maybe, Concluded
<1>2. TypeOK /\ OneEntry /\ [Next]_vars => (TypeOK /\ OneEntry)'
  <2> SUFFICES ASSUME TypeOK, OneEntry, [Next]_vars PROVE (TypeOK /\ OneEntry)'
    OBVIOUS
  <2>1. /\ commit \in [Runs -> Maybe(Commits)]
        /\ job \in [Runs \X Jobs -> Results]
        /\ artifact \in [Runs \X Builders -> Maybe(Commits)]
        /\ restored \in [Runs \X Libraries -> Maybe(Commits)]
    BY DEF TypeOK, Results
  <2>2. \A r \in Runs : commit[r] \subseteq Commits
    BY <2>1 DEF Maybe
  <2>3. Results = Concluded \cup {"waiting", "running"} /\ {"success", "failure", "skipped"} \subseteq Results
        /\ "running" \in Results
    BY DEF Results, Concluded
  <2>4. ASSUME NEW r \in Runs, Trigger(r) PROVE (TypeOK /\ OneEntry)'
    <3>1. PICK c \in Commits : commit' = [commit EXCEPT ![r] = {c}]
      BY <2>4 DEF Trigger
    <3>2. {c} \in Maybe(Commits)
      BY DEF Maybe
    <3>3. commit' \in [Runs -> Maybe(Commits)]
      BY <2>1, <3>1, <3>2
    <3> QED
      BY <2>4, <3>3 DEF Trigger, TypeOK, OneEntry
  <2>5. ASSUME NEW r \in Runs, NEW j \in Jobs, NEW result \in Results, Mark(r, j, result),
               UNCHANGED <<commit, restored, artifact, cache>>,
               faults' \subseteq faults \cup {<<r, j>>}
        PROVE  (TypeOK /\ OneEntry)'
    <3>1. job' \in [Runs \X Jobs -> Results]
      BY <2>1, <2>5, MarkTypes
    <3>2. faults' \subseteq Runs \X Jobs
      BY <2>5 DEF TypeOK
    <3> QED
      BY <2>1, <2>3, <2>5, <3>1, <3>2 DEF TypeOK, OneEntry
  <2>6. ASSUME NEW r \in Runs, NEW j \in {"fetch-and-patch", "build-harness"},
               NEW c \in commit[r], Mark(r, j, "success"), Upload(r, j, c),
               UNCHANGED <<commit, restored, cache, faults>>
        PROVE  (TypeOK /\ OneEntry)'
    <3>1. j \in Builders /\ j \in Jobs
      BY Names, JobNames
    <3>2. job' \in [Runs \X Jobs -> Results]
      BY <2>1, <2>3, <2>6, <3>1, MarkTypes
    <3>3. artifact' \in [Runs \X Builders -> Maybe(Commits)]
      BY <2>1, <2>2, <2>6, <3>1, UploadTypes
    <3> QED
      BY <2>1, <2>3, <2>6, <3>2, <3>3 DEF TypeOK, OneEntry
  <2>7. ASSUME NEW r \in Runs, NEW j \in Libraries, RestoreLibrary(r, j)
        PROVE  (TypeOK /\ OneEntry)'
    <3>1. PICK c \in commit[r] : restored' = [restored EXCEPT ![<<r, j>>] =
            {e.install : e \in {x \in cache : x.library = j /\ x.key = Key(j, c)}}]
      BY <2>7 DEF RestoreLibrary
    <3> DEFINE found == {e.install : e \in {x \in cache : x.library = j /\ x.key = Key(j, c)}}
    <3>2. found \in Maybe(Commits)
      <4>1. \A a, b \in found : a = b
        BY DEF OneEntry
      <4>2. found \subseteq Commits
        BY DEF TypeOK
      <4> HIDE DEF found
      <4>3. CASE found = {}
        BY <4>3 DEF Maybe
      <4>4. CASE found # {}
        <5>1. PICK a : a \in found
          BY <4>4
        <5>2. found = {a} /\ a \in Commits
          BY <4>1, <4>2, <5>1
        <5> QED
          BY <5>2 DEF Maybe
      <4> QED
        BY <4>3, <4>4
    <3>3. restored' = [restored EXCEPT ![<<r, j>>] = found]
      BY <3>1
    <3> HIDE DEF found
    <3>4. restored' \in [Runs \X Libraries -> Maybe(Commits)]
      BY <2>1, <3>2, <3>3
    <3>5. job' \in [Runs \X Jobs -> Results]
      <4>1. Mark(r, j, "running") \/ Mark(r, j, "failure")
        BY <2>7 DEF RestoreLibrary
      <4> QED
        BY <2>1, <2>3, <4>1, JobNames, MarkTypes
    <3> QED
      BY <2>1, <2>3, <2>7, <3>4, <3>5 DEF RestoreLibrary, TypeOK, OneEntry
  <2>8. ASSUME NEW r \in Runs, NEW j \in Libraries, FinishLibrary(r, j)
        PROVE  (TypeOK /\ OneEntry)'
    <3>1. PICK c \in commit[r] :
        \E a \in IF restored[<<r, j>>] = {} THEN {c} ELSE restored[<<r, j>>] :
          IF j = "build-openblas" /\ a \in Dirty
          THEN Mark(r, j, "failure") /\ UNCHANGED <<artifact, cache>>
          ELSE /\ Mark(r, j, "success")
               /\ Upload(r, j, a)
               /\ cache' = cache \cup Saved(r, j, c)
      BY <2>8 DEF FinishLibrary
    <3>2. PICK a \in IF restored[<<r, j>>] = {} THEN {c} ELSE restored[<<r, j>>] :
        IF j = "build-openblas" /\ a \in Dirty
        THEN Mark(r, j, "failure") /\ UNCHANGED <<artifact, cache>>
        ELSE /\ Mark(r, j, "success")
             /\ Upload(r, j, a)
             /\ cache' = cache \cup Saved(r, j, c)
      BY <3>1
    <3>3. a \in Commits
      <4>1. restored[<<r, j>>] \subseteq Commits
        BY <2>1 DEF Maybe
      <4> QED
        BY <2>2, <3>1, <3>2, <4>1
    <3>4. UNCHANGED <<commit, restored, faults>>
      BY <2>8 DEF FinishLibrary
    <3>5. CASE Mark(r, j, "failure") /\ UNCHANGED <<artifact, cache>>
      BY <2>3, <2>5, <3>4, <3>5, JobNames
    <3>6. CASE /\ Mark(r, j, "success") /\ Upload(r, j, a)
               /\ cache' = cache \cup Saved(r, j, c)
      <4>1. \A e \in Saved(r, j, c) :
              /\ e.library = j /\ e.install = c
              /\ \A f \in cache : f.library = e.library => f.key # e.key
              /\ \A f \in Saved(r, j, c) : f = e
        BY DEF Saved
      <4>2. job' \in [Runs \X Jobs -> Results]
        BY <2>1, <2>3, <3>6, JobNames, MarkTypes
      <4>3. artifact' \in [Runs \X Builders -> Maybe(Commits)]
        BY <2>1, <3>3, <3>6, Names, UploadTypes
      <4>4. \A e \in cache' : e.library \in Libraries /\ e.install \in Commits
        BY <2>2, <3>1, <3>6, <4>1 DEF TypeOK
      <4>5. OneEntry'
        BY <3>6, <4>1 DEF OneEntry
      <4> QED
        BY <2>1, <2>3, <3>4, <4>2, <4>3, <4>4, <4>5 DEF TypeOK
    <3> QED
      BY <3>2, <3>5, <3>6
  <2>9. ASSUME NEW r \in Runs, Step(r) PROVE (TypeOK /\ OneEntry)'
    <3>1. ASSUME NEW j \in Jobs, Skip(r, j) \/ Fault(r, j) PROVE (TypeOK /\ OneEntry)'
      BY <2>3, <2>5, <3>1 DEF Skip, Fault
    <3>2. ASSUME NEW j \in Jobs, NEW passes, Conclude(r, j, passes) PROVE (TypeOK /\ OneEntry)'
      BY <2>3, <2>5, <3>2 DEF Conclude
    <3>3. CASE FetchAndPatch(r)
      <4>1. CASE Mark(r, "fetch-and-patch", "failure") /\ UNCHANGED artifact
        BY <2>3, <2>5, <3>3, <4>1, Names, JobNames DEF FetchAndPatch
      <4>2. CASE ~(Mark(r, "fetch-and-patch", "failure") /\ UNCHANGED artifact)
        BY <2>6, <3>3, <4>2 DEF FetchAndPatch
      <4> QED
        BY <4>1, <4>2
    <3>4. CASE BuildHarness(r)
      <4>1. CASE Mark(r, "build-harness", "failure") /\ UNCHANGED artifact
        BY <2>3, <2>5, <3>4, <4>1, Names, JobNames DEF BuildHarness
      <4>2. CASE ~(Mark(r, "build-harness", "failure") /\ UNCHANGED artifact)
        BY <2>6, <3>4, <4>2 DEF BuildHarness
      <4> QED
        BY <4>1, <4>2
    <3>5. {"toolchain-probe", "simd-audit", "qemu-validate", "ctest-suite", "upstream-tests",
           "bitrot-guard", "rvv-correctness", "final-summary"} \subseteq Jobs
      BY DEF Jobs
    <3>6. CASE \/ ToolchainProbe(r) \/ SimdAudit(r) \/ QemuValidate(r) \/ CTestSuite(r)
               \/ UpstreamTests(r) \/ BitrotGuard(r) \/ RvvCorrectness(r) \/ FinalSummary(r)
      BY <3>2, <3>5, <3>6
      DEF ToolchainProbe, SimdAudit, QemuValidate, CTestSuite,
          UpstreamTests, BitrotGuard, RvvCorrectness, FinalSummary
    <3> QED
      BY <2>7, <2>8, <2>9, <3>1, <3>3, <3>4, <3>6 DEF Step
  <2>10. CASE Evict
    <3>1. cache' \subseteq cache /\ UNCHANGED <<commit, job, restored, artifact, faults>>
      BY <2>10 DEF Evict
    <3> QED
      BY <3>1 DEF TypeOK, OneEntry
  <2>11. CASE UNCHANGED vars
    BY <2>11 DEF vars, TypeOK, OneEntry
  <2> QED
    BY <2>4, <2>9, <2>10, <2>11 DEF Next, Done
<1> QED
  BY <1>1, <1>2, PTL DEF Spec

(* The needs of a job are jobs.                                            *)
LEMMA NeedsAreJobs == \A j \in Jobs : Needs(j) \subseteq Jobs
<1> SUFFICES ASSUME NEW j \in Jobs PROVE Needs(j) \subseteq Jobs
  OBVIOUS
<1>1. CASE j = "final-summary"
  BY <1>1 DEF Needs
<1>2. CASE j # "final-summary"
  BY <1>2 DEF Needs, Jobs, Builders, Libraries
<1> QED
  BY <1>1, <1>2

-----------------------------------------------------------------------------

(* What the states of the jobs say of each other: who runs or has          *)
(* succeeded has a commit and the needs of its job fulfilled, and has      *)
(* uploaded what it builds.                                                *)
Triggered ==
  \A r \in Runs, j \in Jobs : job[<<r, j>>] # "waiting" => commit[r] # {}

NeedsFulfilled ==
  \A r \in Runs, j \in Jobs \ {"final-summary"} :
    job[<<r, j>>] \in {"running", "success"} => \A n \in Needs(j) : job[<<r, n>>] = "success"

Uploaded ==
  \A r \in Runs, j \in Builders : job[<<r, j>>] = "success" => artifact[<<r, j>>] # {}

Progress ==
  /\ TypeOK /\ OneCommit /\ Triggered /\ NeedsFulfilled /\ Uploaded

(* Every artifact a job downloads is of a job it needs, or of one that a   *)
(* job it needs rests on.                                                  *)
LEMMA DownloadsAreThere == Progress => ArtifactsAreThere
<1> SUFFICES ASSUME Progress, NEW r \in Runs, NEW j \in Jobs \ {"final-summary"}, Ready(r, j)
             PROVE  CanDownload(r, j)
  BY DEF ArtifactsAreThere
<1> DEFINE done(n) == job[<<r, n>>] = "success"
<1>1. \A n \in Needs(j) : done(n)
  BY DEF Ready
<1>2. \A n \in Jobs \ {"final-summary"} : done(n) => \A m \in Needs(n) : done(m)
  BY DEF Progress, NeedsFulfilled
<1>3. \A n \in Builders : done(n) => artifact[<<r, n>>] # {}
  BY DEF Progress, Uploaded
<1> HIDE DEF done
<1>4. ASSUME done("build-mpfr")
      PROVE  done("build-gmp") /\ done("fetch-and-patch")
  <2>1. "build-mpfr" \in Jobs \ {"final-summary"} /\ "build-gmp" \in Jobs \ {"final-summary"}
    BY DEF Jobs, Builders, Libraries
  <2>2. Needs("build-mpfr") = {"build-gmp"} /\ Needs("build-gmp") = {"fetch-and-patch"}
    BY DEF Needs
  <2> QED
    BY <1>2, <1>4, <2>1, <2>2
<1>5. ASSUME done("build-harness") PROVE \A l \in Libraries : done(l)
  <2>1. "build-harness" \in Jobs \ {"final-summary"}
    BY DEF Jobs, Builders
  <2>2. Needs("build-harness") = {"build-mpfr", "build-openblas"}
    BY DEF Needs
  <2> QED
    BY <1>2, <1>4, <1>5, <2>1, <2>2 DEF Libraries
<1>6. ASSUME NEW d \in Downloads(j) PROVE d \in Builders /\ done(d)
  <2>1. CASE j \in {"build-gmp", "build-openblas", "simd-audit"}
    <3>1. Downloads(j) = {"fetch-and-patch"} /\ Needs(j) = {"fetch-and-patch"}
      BY <2>1 DEF Downloads, Needs
    <3> QED
      BY <1>1, <1>6, <3>1, Names
  <2>2. CASE j = "build-mpfr"
    <3>1. Downloads(j) = {"fetch-and-patch", "build-gmp"} /\ Needs(j) = {"build-gmp"}
      BY <2>2 DEF Downloads, Needs
    <3>2. Needs("build-gmp") = {"fetch-and-patch"} /\ "build-gmp" \in Jobs \ {"final-summary"}
      BY DEF Needs, Jobs, Builders, Libraries
    <3> QED
      BY <1>1, <1>2, <1>6, <3>1, <3>2, Names DEF Builders, Libraries
  <2>3. CASE j = "build-harness"
    <3>1. Downloads(j) = Libraries /\ Needs(j) = {"build-mpfr", "build-openblas"}
      BY <2>3 DEF Downloads, Needs
    <3> QED
      BY <1>1, <1>4, <1>6, <3>1 DEF Builders, Libraries
  <2>4. CASE j = "ctest-suite"
    <3>1. Downloads(j) = Libraries \cup {"build-harness"} /\ Needs(j) = {"build-harness"}
      BY <2>4 DEF Downloads, Needs
    <3> QED
      BY <1>1, <1>5, <1>6, <3>1 DEF Builders
  <2>5. CASE j = "upstream-tests"
    <3>1. /\ Downloads(j) = {"fetch-and-patch", "build-openblas"}
          /\ Needs(j) = {"build-mpfr", "build-openblas"}
      BY <2>5 DEF Downloads, Needs
    <3> QED
      BY <1>1, <1>4, <1>6, <3>1, Names DEF Builders
  <2>6. CASE j \in {"qemu-validate", "rvv-correctness"}
    <3>1. Downloads(j) = {"build-harness"} /\ Needs(j) = {"build-harness"}
      BY <2>6 DEF Downloads, Needs
    <3> QED
      BY <1>1, <1>6, <3>1, Names
  <2>7. CASE j \in {"toolchain-probe", "fetch-and-patch", "bitrot-guard"}
    <3>1. Downloads(j) = {}
      BY <2>7 DEF Downloads
    <3> QED
      BY <1>6, <3>1
  <2> QED
    BY <2>1, <2>2, <2>3, <2>4, <2>5, <2>6, <2>7 DEF Jobs, Builders, Libraries
<1> QED
  BY <1>3, <1>6 DEF CanDownload

(* A step of one job of one run.                                           *)
LEMMA JobStep ==
  ASSUME Progress, TypeOK', OneCommit', UNCHANGED commit,
         NEW r \in Runs, NEW j \in Jobs, NEW result \in Results, Mark(r, j, result),
         job[<<r, j>>] \in {"waiting", "running"}, commit[r] # {},
         result \in {"running", "success"} /\ j # "final-summary" =>
           \A n \in Needs(j) : job[<<r, n>>] = "success",
         \A q \in Runs, b \in Builders : artifact[<<q, b>>] # {} => artifact'[<<q, b>>] # {},
         j \in Builders /\ result = "success" => artifact'[<<r, j>>] # {}
  PROVE  Progress'
<1>1. job'[<<r, j>>] = result
  BY DEF Progress, TypeOK, Mark
<1>2. \A q \in Runs, i \in Jobs : <<q, i>> # <<r, j>> => job'[<<q, i>>] = job[<<q, i>>]
  BY DEF Progress, TypeOK, Mark
<1>3. \A q \in Runs, i \in Jobs : job[<<q, i>>] = "success" => job'[<<q, i>>] = "success"
  BY <1>2
<1>4. Triggered'
  BY <1>1, <1>2 DEF Progress, Triggered
<1>5. NeedsFulfilled'
  <2> SUFFICES ASSUME NEW q \in Runs, NEW i \in Jobs \ {"final-summary"},
                      job'[<<q, i>>] \in {"running", "success"}, NEW n \in Needs(i)
               PROVE  job'[<<q, n>>] = "success"
    BY DEF NeedsFulfilled, Needs
  <2>1. n \in Jobs
    BY NeedsAreJobs
  <2>2. job[<<q, n>>] = "success"
    <3>1. CASE <<q, i>> = <<r, j>>
      BY <1>1, <3>1
    <3>2. CASE <<q, i>> # <<r, j>>
      BY <1>2, <3>2 DEF Progress, NeedsFulfilled
    <3> QED
      BY <3>1, <3>2
  <2> QED
    BY <1>3, <2>1, <2>2
<1>6. Uploaded'
  <2> SUFFICES ASSUME NEW q \in Runs, NEW b \in Builders, job'[<<q, b>>] = "success"
               PROVE  artifact'[<<q, b>>] # {}
    BY DEF Uploaded
  <2>1. CASE <<q, b>> = <<r, j>>
    BY <1>1, <2>1
  <2>2. CASE <<q, b>> # <<r, j>>
    BY <1>2, <2>2, JobNames DEF Progress, Uploaded
  <2> QED
    BY <2>1, <2>2
<1> QED
  BY <1>4, <1>5, <1>6 DEF Progress

(* Every step keeps it.                                                    *)
LEMMA ProgressStep ==
  ASSUME Progress, TypeOK', OneCommit', [Next]_vars
  PROVE  Progress'
<1>1. CASE UNCHANGED <<commit, job, artifact>>
  BY <1>1 DEF Progress, Triggered, NeedsFulfilled, Uploaded
<1>2. ASSUME NEW r \in Runs, Trigger(r) PROVE Progress'
  <2>1. UNCHANGED <<job, artifact>>
    BY <1>2 DEF Trigger
  <2>2. \A q \in Runs : q # r => commit'[q] = commit[q]
    BY <1>2 DEF Trigger, Progress, TypeOK
  <2>3. commit'[r] # {}
    BY <1>2 DEF Trigger, Progress, TypeOK
  <2>4. Triggered'
    BY <2>1, <2>2, <2>3 DEF Progress, Triggered
  <2>5. NeedsFulfilled' /\ Uploaded'
    BY <2>1 DEF Progress, NeedsFulfilled, Uploaded
  <2> QED
    BY <2>4, <2>5 DEF Progress
<1>3. {"success", "failure", "skipped", "running"} \subseteq Results
  BY DEF Results, Concluded
<1>4. ASSUME NEW r \in Runs, NEW j \in Jobs, Skip(r, j) PROVE Progress'
  <2>1. PICK n \in Needs(j) : job[<<r, n>>] \in {"failure", "skipped"}
    BY <1>4 DEF Skip
  <2>2. commit[r] # {}
    BY <2>1, NeedsAreJobs DEF Progress, Triggered
  <2> QED
    BY <1>3, <1>4, <2>2, JobStep DEF Skip
<1>5. ASSUME NEW r \in Runs, NEW j \in Jobs, Fault(r, j) PROVE Progress'
  <2>1. commit[r] # {} /\ job[<<r, j>>] \in {"waiting", "running"}
    BY <1>5 DEF Fault, Ready, Progress, Triggered
  <2> QED
    BY <1>3, <1>5, <2>1, JobStep DEF Fault
<1>6. ASSUME NEW r \in Runs, NEW j \in Jobs, Ready(r, j)
      PROVE  /\ job[<<r, j>>] \in {"waiting", "running"} /\ commit[r] # {}
             /\ j # "final-summary" => \A n \in Needs(j) : job[<<r, n>>] = "success"
  BY <1>6 DEF Ready
<1>7. ASSUME NEW r \in Runs, NEW j \in Jobs \ Builders, NEW passes,
             Conclude(r, j, passes)
      PROVE  Progress'
  <2>1. /\ Mark(r, j, "success") \/ Mark(r, j, "failure")
        /\ UNCHANGED <<commit, artifact>> /\ Ready(r, j)
    BY <1>7 DEF Conclude
  <2> QED
    BY <1>3, <1>6, <2>1, JobStep
<1>8. ASSUME NEW r \in Runs, NEW j \in Builders, NEW c, Upload(r, j, c)
      PROVE  /\ artifact'[<<r, j>>] # {}
             /\ \A q \in Runs, b \in Builders :
                  artifact[<<q, b>>] # {} => artifact'[<<q, b>>] # {}
  <2>1. DOMAIN artifact = Runs \X Builders
    BY DEF Progress, TypeOK
  <2> QED
    BY <1>8, <2>1 DEF Upload
<1>9. ASSUME NEW r \in Runs, NEW j \in Builders, j # "final-summary",
              Ready(r, j) \/ job[<<r, j>>] = "running", UNCHANGED commit,
              \/ Mark(r, j, "success") /\ \E c : Upload(r, j, c)
              \/ (Mark(r, j, "running") \/ Mark(r, j, "failure")) /\ UNCHANGED artifact
       PROVE  Progress'
  <2>1. /\ j \in Jobs /\ job[<<r, j>>] \in {"waiting", "running"} /\ commit[r] # {}
        /\ \A n \in Needs(j) : job[<<r, n>>] = "success"
    BY <1>6, <1>9, JobNames DEF Progress, Triggered, NeedsFulfilled
  <2>2. CASE Mark(r, j, "success") /\ \E c : Upload(r, j, c)
    <3>1. /\ artifact'[<<r, j>>] # {}
          /\ \A q \in Runs, b \in Builders : artifact[<<q, b>>] # {} => artifact'[<<q, b>>] # {}
      BY <1>8, <2>2
    <3> QED
      BY <1>3, <1>9, <2>1, <2>2, <3>1, JobStep
  <2>3. CASE (Mark(r, j, "running") \/ Mark(r, j, "failure")) /\ UNCHANGED artifact
    BY <1>3, <1>9, <2>1, <2>3, JobStep
  <2> QED
    BY <1>9, <2>2, <2>3
<1>10. \A j \in Builders : j # "final-summary"
  BY DEF Builders, Libraries
<1>11. ASSUME NEW r \in Runs, FetchAndPatch(r) \/ BuildHarness(r) PROVE Progress'
  <2>1. CASE FetchAndPatch(r)
    <3>1. \/ Mark(r, "fetch-and-patch", "success") /\ \E c : Upload(r, "fetch-and-patch", c)
          \/ Mark(r, "fetch-and-patch", "failure") /\ UNCHANGED artifact
      BY <2>1 DEF FetchAndPatch
    <3> QED
      BY <1>9, <1>10, <2>1, <3>1, Names DEF FetchAndPatch
  <2>2. CASE BuildHarness(r)
    <3>1. \/ Mark(r, "build-harness", "success") /\ \E c : Upload(r, "build-harness", c)
          \/ Mark(r, "build-harness", "failure") /\ UNCHANGED artifact
      BY <2>2 DEF BuildHarness
    <3> QED
      BY <1>9, <1>10, <2>2, <3>1, Names DEF BuildHarness
  <2> QED
    BY <1>11, <2>1, <2>2
<1>12. ASSUME NEW r \in Runs, NEW j \in Libraries, RestoreLibrary(r, j) \/ FinishLibrary(r, j)
       PROVE  Progress'
  <2>1. CASE RestoreLibrary(r, j)
    <3>1. (Mark(r, j, "running") \/ Mark(r, j, "failure")) /\ UNCHANGED artifact
      BY <2>1 DEF RestoreLibrary
    <3> QED
      BY <1>9, <1>10, <2>1, <3>1, Names DEF RestoreLibrary
  <2>2. CASE FinishLibrary(r, j)
    <3>1. \/ Mark(r, j, "success") /\ \E c : Upload(r, j, c)
          \/ Mark(r, j, "failure") /\ UNCHANGED artifact
      BY <2>2 DEF FinishLibrary
    <3> QED
      BY <1>9, <1>10, <2>2, <3>1, Names DEF FinishLibrary
  <2> QED
    BY <1>12, <2>1, <2>2
<1>13. ASSUME NEW r \in Runs, Step(r) PROVE Progress'
  <2>1. {"toolchain-probe", "simd-audit", "qemu-validate", "ctest-suite", "upstream-tests",
         "bitrot-guard", "rvv-correctness", "final-summary"} \subseteq Jobs \ Builders
    BY DEF Jobs, Builders, Libraries
  <2>2. CASE \/ ToolchainProbe(r) \/ SimdAudit(r) \/ QemuValidate(r) \/ CTestSuite(r)
             \/ UpstreamTests(r) \/ BitrotGuard(r) \/ RvvCorrectness(r) \/ FinalSummary(r)
    BY <1>7, <2>1, <2>2
    DEF ToolchainProbe, SimdAudit, QemuValidate, CTestSuite, UpstreamTests, BitrotGuard,
        RvvCorrectness, FinalSummary
  <2> QED
    BY <1>4, <1>5, <1>11, <1>12, <1>13, <2>2 DEF Step
<1> QED
  BY <1>1, <1>2, <1>13 DEF Next, Evict, Done, vars

(* The states of the jobs agree throughout.                                *)
THEOREM CiProgress == Spec => []Progress
<1> DEFINE T == TypeOK /\ OneCommit
           J == Triggered /\ NeedsFulfilled /\ Uploaded
<1>1. Init => J
  <2>1. ASSUME Init PROVE \A r \in Runs, j \in Jobs : job[<<r, j>>] = "waiting"
    BY <2>1 DEF Init
  <2> QED
    BY <2>1, JobNames DEF Triggered, NeedsFulfilled, Uploaded
<1>2. T /\ T' /\ J /\ [Next]_vars => J'
  BY ProgressStep DEF Progress
<1>3. TypeOK /\ OneEntry /\ IInv => T
  BY DEF IInv
<1>4. T /\ J <=> Progress
  BY DEF Progress
<1> HIDE DEF T, J
<1> QED
  BY <1>1, <1>2, <1>3, <1>4, CiTypeCorrect, CiInvariant, PTL DEF Spec

(* A job whose needs have succeeded finds every artifact it downloads, in  *)
(* whatever order jobs of one run and of others go.                        *)
THEOREM CiArtifactsAreThere == Spec => []ArtifactsAreThere
BY DownloadsAreThere, CiProgress, PTL
================================================================================
