---------------------------------- MODULE MCCi ----------------------------------
(* Instances of Ci: a first commit, and commits that change one group of    *)
(* files each; one of them brings x86 code into OpenBLAS, one breaks a      *)
(* suite, one brings a patch that does not fit.                             *)
EXTENDS Ci

First == [i \in Inputs |-> 0]
Changed(i) == [First EXCEPT ![i] = 1]

AllCommits == {First} \cup {Changed(i) : i \in Inputs}
DirtyCommits == {Changed("patches23")}
PatchCommits == DirtyCommits \cup
  {First, Changed("patch1"), [First EXCEPT !["patches23"] = 2]}
UnhashedCommits == {First, Changed("patch1"), Changed("patches678")}
FailingCommits == {Changed("harness")}
MisfitCommits == {Changed("patches678")}
NoCommits == {}

(* The jobs that neither upload anything a job downloads nor touch a cache  *)
(* wait, where only the caches are asked about.                             *)
OnlyBuilders ==
  \A r \in Runs : \A j \in Jobs \ (Builders \cup {"toolchain-probe"}) : job[<<r, j>>] = "waiting"
=============================================================================
