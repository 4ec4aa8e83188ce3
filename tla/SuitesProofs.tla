----------------------------- MODULE SuitesProofs -----------------------------
(***************************************************************************)
(* Proofs about Suites, for every description of the programs, every       *)
(* number of cases and every number of faults: the types, the refinement   *)
(* of SuiteProgram, that the STATUS line, the table and the exit code are  *)
(* true of the cases that have been run, and what the array checks of      *)
(* epsilon.h make of them.  The last part is about the intrinsics, for     *)
(* every vector of integers and every immediate.                           *)
(***************************************************************************)
EXTENDS Suites, FiniteSetTheorems, WellFoundedInduction, TLAPS

(* Induction over the elements of an array, from the well-foundedness of   *)
(* < : a set that holds 0, and i with every i - 1, holds all up to N.      *)
LEMMA FromZero ==
  ASSUME NEW N \in Nat, NEW T, 0 \in T, \A i \in 1 .. N : i - 1 \in T => i \in T
  PROVE  \A i \in 0 .. N : i \in T
<1> DEFINE R == {ss \in Nat \X Nat : ss[1] < ss[2]}
           U == {i \in 0 .. N : i \notin T}
<1>1. IsWellFoundedOn(R, Nat)
  BY NatLessThanWellFounded DEF OpToRel
<1>2. \A m \in Nat, n \in Nat : <<n, m>> \in R <=> n < m
  OBVIOUS
<1>3. U \subseteq Nat
  OBVIOUS
<1>4. ASSUME NEW m \in U, \A n \in U : ~(n < m) PROVE FALSE
  <2>1. m \in 1 .. N /\ m - 1 < m /\ m - 1 \in 0 .. N /\ m \notin T
    OBVIOUS
  <2>2. m - 1 \notin T
    BY <2>1
  <2> QED
    BY <1>4, <2>1, <2>2
<1>5. ASSUME U # {} PROVE FALSE
  <2> HIDE DEF R, U
  <2>1. \E m \in U : \A n \in U : <<n, m>> \notin R
    BY <1>1, <1>3, <1>5, WFMin
  <2> QED
    BY <1>2, <1>3, <1>4, <2>1
<1> QED
  BY <1>5

(* A loop of N turns over the states S, that turns a state and the number  *)
(* of the turn into the next state, and the states after its turns.        *)
Turns(op, S, N) == op \in [S \X (1 .. N) -> S]

RunOf(h, op, base, S, N) ==
  /\ \A i \in 0 .. N : h[i] \in S
  /\ h[0] = base
  /\ \A i \in 1 .. N : h[i] = op[<<h[i - 1], i>>]

(* Such states exist.                                                      *)
LEMMA LoopRuns ==
  ASSUME NEW S, NEW base \in S, NEW N \in Nat, NEW op, Turns(op, S, N)
  PROVE  \E h : RunOf(h, op, base, S, N)
<1> DEFINE Runs(h, n) == /\ \A i \in 0 .. n : h[i] \in S
                         /\ h[0] = base
                         /\ \A i \in 1 .. n : h[i] = op[<<h[i - 1], i>>]
           T == {n \in 0 .. N : \E h : Runs(h, n)}
<1>0. \A s \in S, i \in 1 .. N : op[<<s, i>>] \in S
  BY DEF Turns
<1>1. 0 \in T
  <2> DEFINE h == [i \in 0 .. 0 |-> base]
  <2>1. Runs(h, 0)
    OBVIOUS
  <2> HIDE DEF Runs, h
  <2>2. \E g : Runs(g, 0)
    BY <2>1
  <2> QED
    BY <2>2
<1>2. ASSUME NEW n \in 1 .. N, n - 1 \in T PROVE n \in T
  <2>1. PICK h : Runs(h, n - 1)
    BY <1>2
  <2> DEFINE g == [i \in 0 .. n |-> IF i = n THEN op[<<h[n - 1], n>>] ELSE h[i]]
  <2>2. /\ \A i \in 0 .. n - 1 : g[i] = h[i] /\ h[i] \in S
        /\ \A i \in 1 .. n - 1 : h[i] = op[<<h[i - 1], i>>]
        /\ h[0] = base /\ g[n] = op[<<h[n - 1], n>>]
    BY <2>1
  <2>3. n - 1 \in 0 .. n - 1 /\ 0 \in 0 .. n - 1
    OBVIOUS
  <2> HIDE DEF g, Runs
  <2>4. g[n] \in S /\ g[n] = op[<<g[n - 1], n>>] /\ g[0] = base
    <3>1. op[<<h[n - 1], n>>] \in S
      BY <1>0, <2>2, <2>3
    <3> QED
      BY <2>2, <2>3, <3>1
  <2>5. ASSUME NEW i \in 1 .. n PROVE g[i] = op[<<g[i - 1], i>>]
    <3>1. i # n => i \in 1 .. n - 1 /\ i \in 0 .. n - 1 /\ i - 1 \in 0 .. n - 1
      OBVIOUS
    <3> QED
      BY <2>2, <2>4, <3>1
  <2>6. ASSUME NEW i \in 0 .. n PROVE g[i] \in S
    <3>1. i # n => i \in 0 .. n - 1
      OBVIOUS
    <3> QED
      BY <2>2, <2>4, <3>1
  <2>7. Runs(g, n)
    BY <2>4, <2>5, <2>6 DEF Runs
  <2>8. \E f : Runs(f, n)
    BY <2>7
  <2> QED
    BY <2>8
<1>3. \A n \in 0 .. N : n \in T
  <2> HIDE DEF T
  <2> QED
    BY <1>1, <1>2, FromZero
<1>4. N \in T
  <2> HIDE DEF T
  <2> QED
    BY <1>3
<1> QED
  BY <1>4 DEF RunOf

(* The loop of a maximum, turn by turn.                                    *)
LEMMA MaxErrLoop ==
  ASSUME NEW ds \in Seq(Errors)
  PROVE  \E h : /\ h[0] = 0
                /\ \A i \in 1 .. Len(ds) : h[i] = Raise(h[i - 1], ds[i])
                /\ MaxErr(ds) = h[Len(ds)]
<1> DEFINE N == Len(ds)
           step(g) == [i \in 0 .. N |-> IF i = 0 THEN 0 ELSE Raise(g[i - 1], ds[i])]
           op == [p \in Errors \X (1 .. N) |-> Raise(p[1], ds[p[2]])]
           none == 0
           m == CHOOSE g : g = step(g)
<1>1. N \in Nat /\ \A i \in 1 .. N : ds[i] \in Errors
  OBVIOUS
<1>2. MaxErr(ds) = m[N]
  BY DEF MaxErr
<1> HIDE DEF N
<1>3. ASSUME NEW s \in Errors, NEW i \in 1 .. N
      PROVE  op[<<s, i>>] = Raise(s, ds[i]) /\ op[<<s, i>>] \in Errors
  <2>1. <<s, i>> \in Errors \X (1 .. N) /\ <<s, i>>[1] = s /\ <<s, i>>[2] = i
    OBVIOUS
  <2>2. op[<<s, i>>] = Raise(s, ds[i])
    BY <2>1
  <2>3. Raise(s, ds[i]) \in Errors
    BY <1>1 DEF Raise
  <2> QED
    BY <2>2, <2>3
<1>4. none \in Errors
  BY DEF Errors
<1> HIDE DEF op, none
<1>5. PICK h : /\ \A i \in 0 .. N : h[i] \in Errors
               /\ h[0] = none
               /\ \A i \in 1 .. N : h[i] = op[<<h[i - 1], i>>]
  <2>1. Turns(op, Errors, N)
    BY <1>3 DEF op, Turns
  <2>2. N \in Nat
    BY <1>1
  <2>3. \E h : RunOf(h, op, none, Errors, N)
    BY <1>4, <2>1, <2>2, LoopRuns
  <2> QED
    BY <2>3 DEF RunOf
<1> DEFINE g == [i \in 0 .. N |-> h[i]]
<1>6. g = step(g)
  <2>1. ASSUME NEW i \in 0 .. N PROVE g[i] = step(g)[i]
    <3>1. CASE i = 0
      BY <1>5, <3>1 DEF none
    <3>2. CASE i # 0
      <4>1. i \in 1 .. N /\ i - 1 \in 0 .. N
        BY <1>1, <3>2
      <4>2. h[i] = Raise(h[i - 1], ds[i])
        BY <1>3, <1>5, <4>1
      <4> QED
        BY <3>2, <4>1, <4>2
    <3> QED
      BY <3>1, <3>2
  <2> QED
    BY <2>1, Zenon
<1>7. m = step(m)
  BY <1>6, Zenon
<1> HIDE DEF m, g
<1>8. m[0] = 0 /\ \A i \in 1 .. N : m[i] = Raise(m[i - 1], ds[i])
  BY <1>1, <1>7
<1> QED
  BY <1>2, <1>8 DEF N

(* The maximum of two errors.                                              *)
LEMMA MaxErrOfTwo ==
  ASSUME NEW ds \in [1 .. 2 -> Errors]
  PROVE  MaxErr(ds) = Raise(Raise(0, ds[1]), ds[2])
<1>1. ds \in Seq(Errors) /\ Len(ds) = 2
  <2>1. \A n \in Nat : \A s \in [1 .. n -> Errors] : s \in Seq(Errors) /\ Len(s) = n
    OBVIOUS
  <2> QED
    BY <2>1
<1>2. PICK h : /\ h[0] = 0
               /\ \A i \in 1 .. Len(ds) : h[i] = Raise(h[i - 1], ds[i])
               /\ MaxErr(ds) = h[Len(ds)]
  BY <1>1, MaxErrLoop
<1>3. h[1] = Raise(h[0], ds[1]) /\ h[2] = Raise(h[1], ds[2])
  BY <1>1, <1>2
<1> QED
  BY <1>1, <1>2, <1>3

(* The errors of an array of two.                                          *)
LEMMA TwoErrors ==
  ASSUME NEW ds \in [1 .. 2 -> Errors]
  PROVE  ds[1] \in Errors /\ ds[2] \in Errors
OBVIOUS

(* What a maximum keeps of a NaN: nothing.                                 *)
LEMMA Raised ==
  ASSUME NEW m \in {0, Eps, Above}, NEW d \in Errors
  PROVE  /\ Raise(m, d) \in {0, Eps, Above}
         /\ Raise(m, d) = 0 <=> m = 0 /\ d \in {NaN, 0}
         /\ Raise(m, d) = Above <=> m = Above \/ d = Above
BY DEF Raise, Gt, Errors, NaN, Eps, Above

(* What a comparison says of a case: one that passes has caught nothing,   *)
(* one that fails has, or has met a norm that is no number.                *)
LEMMA Judged ==
  ASSUME NEW k \in Kinds, NEW ds \in [1 .. Elements(k) -> Errors],
         NEW ok \in Passes(k, ds, Err(k, ds))
  PROVE  /\ Err(k, ds) \in Errors
         /\ ok \in BOOLEAN
         /\ ok => ~Caught(k, ds)
         /\ ~ok => Caught(k, ds) \/ (k.looks = "norm" /\ ds[1] = Above)
<1> DEFINE e == Err(k, ds)
<1>1. k.looks \in Looks /\ k.check \in Checks
  BY DEF Kinds
<1>2. CASE k.looks = "norm"
  <2>1. ds[1] \in Errors /\ e = ds[1]
    BY <1>2 DEF Elements, Err
  <2>2. Passes(k, ds, e) = IF ds[1] = Above THEN BOOLEAN ELSE {ds[1] # NaN}
    BY <1>2 DEF Passes
  <2>3. Caught(k, ds) <=> ds[1] = NaN
    BY <1>2 DEF Caught, Examined, Noticed
  <2> HIDE DEF e
  <2>4. CASE ds[1] = Above
    BY <2>1, <2>2, <2>3, <2>4, <1>2 DEF e, Above, NaN
  <2>5. CASE ds[1] # Above
    <3>1. ok = (ds[1] # NaN)
      BY <2>2, <2>5 DEF e
    <3> QED
      BY <2>1, <2>3, <3>1 DEF e
  <2> QED
    BY <2>4, <2>5
<1>3. CASE k.looks = "unused"
  <2>1. e = 0
    BY <1>3 DEF Err
  <2>2. Passes(k, ds, e) = {TRUE}
    <3> HIDE DEF e
    <3>1. Lt(e, Eps) = TRUE /\ NotMore(e) = TRUE /\ (~Le(Eps, e)) = TRUE
      BY <2>1 DEF Lt, Le, Gt, NotMore, Eps, NaN
    <3>2. k.looks # "norm"
      BY <1>3
    <3> QED
      BY <1>1, <3>1, <3>2 DEF Passes, Checks
  <2>3. ~Caught(k, ds)
    BY <1>3 DEF Caught, Noticed
  <2> QED
    BY <2>1, <2>2, <2>3 DEF Errors
<1>4. CASE k.looks \in {"array", "scalar", "ends"}
  <2>1. /\ e \in Errors
        /\ k.looks = "array" => e # NaN
        /\ k.looks # "array" => (e = NaN <=> \E i \in Examined(k) : ds[i] = NaN)
        /\ e \in {NaN, 0} <=> \A i \in Examined(k) : ds[i] \in {NaN, 0}
        /\ e = Above <=> \E i \in Examined(k) : ds[i] = Above
    <3>1. CASE k.looks = "array"
      <4>1. ds \in [1 .. 2 -> Errors] /\ Examined(k) = {1, 2}
        BY <3>1 DEF Elements, Examined
      <4>2. e = Raise(Raise(0, ds[1]), ds[2])
        BY <3>1, <4>1, MaxErrOfTwo DEF Err
      <4>3. ds[1] \in Errors /\ ds[2] \in Errors
        <5>1. ds \in [1 .. 2 -> Errors]
          BY <4>1
        <5> QED
          BY <5>1, TwoErrors
      <4> DEFINE r == Raise(0, ds[1])
      <4>4. r \in {0, Eps, Above} /\ (r = 0 <=> ds[1] \in {NaN, 0}) /\ (r = Above <=> ds[1] = Above)
        <5>1. r = 0 <=> 0 = 0 /\ ds[1] \in {NaN, 0}
          BY <4>3, Raised
        <5>2. r = Above <=> 0 = Above \/ ds[1] = Above
          BY <4>3, Raised
        <5>3. r \in {0, Eps, Above}
          BY <4>3, Raised
        <5> QED
          BY <5>1, <5>2, <5>3 DEF Above
      <4> HIDE DEF r
      <4>5. /\ e \in {0, Eps, Above}
            /\ e = 0 <=> r = 0 /\ ds[2] \in {NaN, 0}
            /\ e = Above <=> r = Above \/ ds[2] = Above
        BY <4>2, <4>3, <4>4, Raised DEF r
      <4> HIDE DEF e
      <4> QED
        BY <3>1, <4>1, <4>3, <4>4, <4>5 DEF Errors, NaN, Eps, Above
    <3>2. CASE k.looks # "array"
      <4>1. e = ds[1] /\ Examined(k) = {1} /\ ds[1] \in Errors
        BY <1>4, <3>2 DEF Err, Examined, Elements
      <4> HIDE DEF e
      <4> QED
        BY <4>1, <3>2
    <3> QED
      BY <3>1, <3>2
  <2>2. Caught(k, ds) <=> \E i \in Examined(k) : ds[i] \in Noticed(k)
    BY DEF Caught
  <2>3. \A i \in Examined(k) : ds[i] \in Errors
    BY <1>4 DEF Examined, Elements
  <2>4. CASE k.check = "less"
    <3>1. Passes(k, ds, e) = {Lt(e, Eps)}
      BY <1>4, <2>4 DEF Passes
    <3>2. Noticed(k) = {Eps, Above} \cup IF k.looks = "array" THEN {} ELSE {NaN}
      BY <1>4, <2>4 DEF Noticed
    <3> HIDE DEF e
    <3>3. ok = Lt(e, Eps)
      BY <3>1 DEF e
    <3>4. Lt(e, Eps) <=> e = 0
      BY <2>1 DEF Lt, Gt, Errors, NaN, Eps, Above
    <3>5. Caught(k, ds) <=> e # 0
      BY <2>1, <2>2, <2>3, <3>2 DEF Errors, NaN, Eps, Above
    <3> QED
      BY <2>1, <3>3, <3>4, <3>5 DEF e, Lt, Gt
  <2>5. CASE k.check = "notMore"
    <3>1. Passes(k, ds, e) = {NotMore(e)}
      BY <1>4, <2>5 DEF Passes
    <3>2. Noticed(k) = {Above}
      BY <1>4, <2>5 DEF Noticed
    <3> HIDE DEF e
    <3>3. ok = NotMore(e)
      BY <3>1 DEF e
    <3>4. NotMore(e) <=> e # Above
      BY <2>1 DEF NotMore, Gt, Errors, NaN, Eps, Above
    <3>5. Caught(k, ds) <=> e = Above
      BY <2>1, <2>2, <3>2
    <3> QED
      BY <2>1, <3>3, <3>4, <3>5 DEF e, NotMore
  <2>6. CASE k.check = "below"
    <3>1. Passes(k, ds, e) = {~Le(Eps, e)}
      BY <1>4, <2>6 DEF Passes
    <3>2. Noticed(k) = {Eps, Above}
      BY <1>4, <2>6 DEF Noticed
    <3> HIDE DEF e
    <3>3. ok = ~Le(Eps, e)
      BY <3>1 DEF e
    <3>4. Le(Eps, e) <=> e \in {Eps, Above}
      BY <2>1 DEF Le, Errors, NaN, Eps, Above
    <3>5. Caught(k, ds) <=> e \in {Eps, Above}
      BY <2>1, <2>2, <2>3, <3>2 DEF Errors, NaN, Eps, Above
    <3> QED
      BY <2>1, <3>3, <3>4, <3>5 DEF e
  <2>7. CASE k.check = "none"
    <3>1. Passes(k, ds, e) = {TRUE}
      BY <1>4, <2>7 DEF Passes
    <3>2. Noticed(k) = {}
      BY <1>4, <2>7 DEF Noticed
    <3> QED
      BY <2>1, <2>2, <3>1, <3>2
  <2> QED
    BY <1>1, <2>4, <2>5, <2>6, <2>7 DEF Checks
<1> QED
  BY <1>1, <1>2, <1>3, <1>4 DEF Looks

-----------------------------------------------------------------------------

(* What is assumed of the programs, at the test and the case of a state.   *)
LEMMA ProgramTypes ==
  ASSUME TypeOK
  PROVE  /\ P.tests \in Seq(Tests) /\ Len(P.tests) \in Nat
         /\ P.table \in Tables /\ P.verdict \in Verdicts
         /\ P.verdict = "counts" => P.table = "tests"
         /\ test \in Nat /\ case \in Nat /\ test > 0 /\ case > 0
BY ProgramsAssumption DEF TypeOK, P

(* Each test of a program, typed.                                          *)
LEMMA TestTypes ==
  ASSUME TypeOK, NEW t \in 1 .. Len(P.tests)
  PROVE  /\ P.tests[t].cases \in Seq(Kinds) /\ Len(P.tests[t].cases) \in Nat
         /\ P.tests[t].name \in STRING /\ P.tests[t].memory \subseteq Codes
         /\ \A c \in 1 .. Len(P.tests[t].cases) : P.tests[t].cases[c] \in Kinds
<1>1. P.tests[t] \in Tests
  BY ProgramTypes
<1> QED
  BY <1>1 DEF Tests

(* The test and the case that run, typed.                                  *)
LEMMA CaseTypes ==
  ASSUME TypeOK, Running
  PROVE  /\ test \in 1 .. Len(P.tests)
         /\ case \in 1 .. Len(Current.cases) + 1
         /\ case <= Len(Current.cases) =>
              case \in 1 .. Len(Current.cases) /\ Case \in Kinds
<1>1. test \in 1 .. Len(P.tests)
  BY ProgramTypes DEF Running
<1>2. ~(test > Len(P.tests))
  BY <1>1, ProgramTypes
<1>3. case \in 1 .. Len(Current.cases) + 1
  BY <1>2 DEF TypeOK
<1> QED
  BY <1>1, <1>3, TestTypes DEF Current, Case

(* What Append does to a table.                                            *)
LEMMA Appended ==
  ASSUME NEW S, NEW s \in Seq(S), NEW e \in S
  PROVE  /\ Append(s, e) \in Seq(S)
         /\ Len(s) \in Nat /\ Len(Append(s, e)) = Len(s) + 1
         /\ \A i \in 1 .. Len(s) : Append(s, e)[i] = s[i]
         /\ Append(s, e)[Len(s) + 1] = e
OBVIOUS

(* A case is run: what the library returned, and what the comparison says. *)
LEMMA Runs ==
  ASSUME TypeOK, RunCase
  PROVE  \E ds, ok :
           /\ ds \in [1 .. Elements(Case) -> Errors]
           /\ ok \in Passes(Case, ds, Err(Case, ds))
           /\ got' = ds
           /\ Look(ds, ok)
           /\ NextCase(ok, Err(Case, ds)) \/ StopAtFailure(ok)
BY DEF RunCase

(* A row of the table.                                                     *)
LEMMA RowTypes ==
  ASSUME NEW t \in 1 .. Len(P.tests), TypeOK, NEW passed \in BOOLEAN, NEW err \in Errors
  PROVE  /\ Row(P.tests[t], passed, err) \in [name : Names, passed : BOOLEAN, max_err : Errors]
         /\ Row(P.tests[t], passed, err).passed = passed
         /\ Row(P.tests[t], passed, err).name =
              IF P.tests[t].label THEN "dead" ELSE P.tests[t].name
<1> DEFINE n == IF P.tests[t].label THEN "dead" ELSE P.tests[t].name
           r == [name |-> n, passed |-> passed, max_err |-> err]
<1>1. n \in Names
  BY TestTypes, ProgramTypes DEF Names
<1>2. Row(P.tests[t], passed, err) = r
  BY DEF Row
<1> HIDE DEF n
<1>3. r \in [name : Names, passed : BOOLEAN, max_err : Errors] /\ r.passed = passed /\ r.name = n
  BY <1>1
<1> QED
  BY <1>2, <1>3 DEF n

(* Type correctness, with the numbers of the test and the case in range.   *)
THEOREM SuitesTypeCorrect == Spec => []TypeOK
<1>1. Init => TypeOK
  <2> SUFFICES ASSUME Init PROVE TypeOK
    OBVIOUS
  <2>1. P.tests \in Seq(Tests)
    BY ProgramsAssumption DEF P, Init
  <2>2. Len(P.tests) \in Nat /\ \A t \in 1 .. Len(P.tests) : Len(P.tests[t].cases) \in Nat
    BY <2>1 DEF Tests
  <2> QED
    BY <2>1, <2>2 DEF TypeOK, Init, Current
<1>2. TypeOK /\ [Next]_vars => TypeOK'
  <2> SUFFICES ASSUME TypeOK, [Next]_vars PROVE TypeOK'
    OBVIOUS
  <2>1. P' = P /\ Names' = Names
    <3>1. P' = P
      BY DEF Next, vars, RunCase, NextCase, StopAtFailure, EndTest, OutOfMemory, Finish, Done, P
    <3> QED
      BY <3>1 DEF Names
  <2>2. CASE RunCase
    <3>1. PICK ds, ok :
           /\ ds \in [1 .. Elements(Case) -> Errors]
           /\ ok \in Passes(Case, ds, Err(Case, ds))
           /\ got' = ds
           /\ Look(ds, ok)
           /\ NextCase(ok, Err(Case, ds)) \/ StopAtFailure(ok)
      BY <2>2, Runs
    <3>2. Running /\ case <= Len(Current.cases)
      BY <2>2 DEF RunCase
    <3>3. Case \in Kinds /\ case \in 1 .. Len(Current.cases) /\ test \in 1 .. Len(P.tests)
      BY <3>2, CaseTypes
    <3>4. Err(Case, ds) \in Errors /\ ok \in BOOLEAN
      BY <3>1, <3>3, Judged
    <3>5. got' \in Seq(Errors)
      BY <3>1 DEF Elements
    <3>6. failed' \subseteq (1 .. Len(P.tests)) \X (Nat \ {0})
      <4>1. Len(Current.cases) \in Nat
        BY <3>3, TestTypes DEF Current
      <4> QED
        BY <3>1, <3>3, <4>1 DEF Look, TypeOK
    <3>7. CASE NextCase(ok, Err(Case, ds))
      <4>1. case' \in 1 .. Len(Current.cases) + 1 /\ Current' = Current /\ test' = test
        <5>1. Len(Current.cases) \in Nat
          BY <3>3, TestTypes DEF Current
        <5> QED
          BY <2>1, <3>3, <3>7, <5>1 DEF NextCase, Advance, Current
      <4>2. all_ok' \in BOOLEAN /\ max_err' \in {0, Eps, Above}
        <5>1. max_err \in {0, Eps, Above}
          BY DEF TypeOK
        <5>2. Raise(max_err, Err(Case, ds)) \in {0, Eps, Above}
          BY <3>4, <5>1, Raised
        <5> QED
          BY <3>7, <5>2 DEF NextCase, Judge, TypeOK
      <4>3. results' \in Seq([name : Names, passed : BOOLEAN, max_err : Errors])
        <5>1. Row(Current, TRUE, Err(Case, ds)) \in [name : Names, passed : BOOLEAN, max_err : Errors]
          BY <3>3, <3>4, RowTypes DEF Current
        <5>2. results \in Seq([name : Names, passed : BOOLEAN, max_err : Errors])
          BY DEF TypeOK
        <5>3. results' = IF P.table = "cases" THEN Append(results, Row(Current, TRUE, Err(Case, ds))) ELSE results
          BY <3>7 DEF NextCase
        <5> QED
          BY <5>1, <5>2, <5>3, Appended
      <4>4. /\ program' \in DOMAIN Programs /\ rc' \in {0, 1}
            /\ status' \in {"none", "pass", "fail"}
            /\ exit' \in {{}, {0}} \cup {{code} : code \in Codes}
        BY <3>7 DEF NextCase, TypeOK
      <4>5. test' \in 1 .. Len(P.tests) + 1 /\ ~(test' > Len(P.tests))
        BY <3>3, <4>1, ProgramTypes
      <4> QED
        BY <2>1, <3>5, <3>6, <4>1, <4>2, <4>3, <4>4, <4>5 DEF TypeOK
    <3>8. CASE StopAtFailure(ok)
      <4>1. exit' \in {{}, {0}} \cup {{code} : code \in Codes}
        BY <3>8 DEF StopAtFailure, Codes
      <4>2. Current' = Current
        BY <2>1, <3>8 DEF StopAtFailure, Current
      <4> QED
        BY <2>1, <3>5, <3>6, <3>8, <4>1, <4>2 DEF StopAtFailure, TypeOK
    <3> QED
      BY <3>1, <3>7, <3>8
  <2>3. CASE EndTest
    <3>1. test \in 1 .. Len(P.tests)
      BY <2>3, CaseTypes DEF EndTest
    <3>2. results' \in Seq([name : Names, passed : BOOLEAN, max_err : Errors])
      <4> DEFINE err == IF Current.error = "worst" THEN max_err ELSE 0
      <4>1. all_ok \in BOOLEAN /\ err \in Errors
        BY DEF TypeOK, Errors, NaN, Eps, Above
      <4> HIDE DEF err
      <4>2. Row(Current, all_ok, err) \in [name : Names, passed : BOOLEAN, max_err : Errors]
        BY <3>1, <4>1, RowTypes DEF Current
      <4>3. results \in Seq([name : Names, passed : BOOLEAN, max_err : Errors])
        BY DEF TypeOK
      <4>4. results' = IF P.table = "tests" THEN Append(results, Row(Current, all_ok, err)) ELSE results
        BY <2>3 DEF EndTest, err
      <4> QED
        BY <4>2, <4>3, <4>4, Appended
    <3>3. test' \in 1 .. Len(P.tests) + 1
      BY <2>3, <3>1, ProgramTypes DEF EndTest
    <3>4. case' \in 1 .. IF test' > Len(P.tests) THEN 1 ELSE Len(P.tests[test'].cases) + 1
      <4>1. case' = 1
        BY <2>3 DEF EndTest, Reset
      <4>2. CASE test' > Len(P.tests)
        BY <4>1, <4>2
      <4>3. CASE ~(test' > Len(P.tests))
        <5>1. test' \in 1 .. Len(P.tests)
          BY <3>3, <4>3, ProgramTypes
        <5>2. Len(P.tests[test'].cases) \in Nat
          BY <5>1, TestTypes
        <5> QED
          BY <4>1, <4>3, <5>2
      <4> QED
        BY <4>2, <4>3
    <3>5. all_ok' \in BOOLEAN /\ max_err' \in {0, Eps, Above} /\ rc' \in {0, 1}
      BY <2>3 DEF EndTest, Reset, Take, TypeOK
    <3> QED
      BY <2>1, <2>3, <3>2, <3>3, <3>4, <3>5 DEF EndTest, TypeOK, Current
  <2>4. CASE OutOfMemory
    <3>1. exit' \in {{}, {0}} \cup {{code} : code \in Codes}
      <4>1. Current.memory \subseteq Codes
        BY <2>4, CaseTypes, TestTypes DEF OutOfMemory, Current
      <4> QED
        BY <2>4, <4>1 DEF OutOfMemory
    <3>2. Current' = Current
      BY <2>1, <2>4 DEF OutOfMemory, Current
    <3> QED
      BY <2>1, <2>4, <3>1, <3>2 DEF OutOfMemory, TypeOK
  <2>5. CASE Finish
    <3>1. exit' \in {{0}, {1}}
      BY <2>5, ProgramTypes DEF Finish, TypeOK, Verdicts
    <3>2. Current' = Current
      BY <2>1, <2>5 DEF Finish, Current
    <3> QED
      BY <2>1, <2>5, <3>1, <3>2 DEF Finish, TypeOK, Codes
  <2>6. CASE UNCHANGED vars
    BY <2>1, <2>6 DEF vars, TypeOK, Current
  <2> QED
    BY <2>2, <2>3, <2>4, <2>5, <2>6 DEF Next, Done
<1> QED
  BY <1>1, <1>2, PTL DEF Spec

-----------------------------------------------------------------------------

(* Every program ends as the scripts rely on: main returns what the STATUS *)
(* line says, and the exits before it are exit(1), return 1 and signals.   *)
THEOREM SuitesImplementsProgram == Spec => ImplementsProgram
<1>1. Init => Promise!Init
  BY DEF Init, Promise!Init
<1>2. TypeOK /\ [Next]_vars => [Promise!Next]_Promise!vars
  <2> SUFFICES ASSUME TypeOK, [Next]_vars PROVE [Promise!Next]_Promise!vars
    OBVIOUS
  <2>1. CASE RunCase
    <3>1. PICK ds, ok : NextCase(ok, Err(Case, ds)) \/ StopAtFailure(ok)
      BY <2>1, Runs
    <3>2. CASE NextCase(ok, Err(Case, ds))
      BY <3>2 DEF NextCase, Promise!vars
    <3>3. CASE StopAtFailure(ok)
      <4>1. exit = {}
        BY <2>1 DEF RunCase, Running
      <4>2. Promise!Silent
        BY <3>3, <4>1 DEF StopAtFailure, Promise!Silent
      <4> QED
        BY <4>2 DEF Promise!Next
    <3> QED
      BY <3>1, <3>2, <3>3
  <2>2. CASE EndTest
    BY <2>2 DEF EndTest, Promise!vars
  <2>3. CASE OutOfMemory
    <3>1. Current.memory \subseteq Codes
      BY <2>3, CaseTypes, TestTypes DEF OutOfMemory, Current
    <3>2. Promise!Silent
      BY <2>3, <3>1 DEF OutOfMemory, Running, Codes, Promise!Silent, Promise!Killed
    <3> QED
      BY <3>2 DEF Promise!Next
  <2>4. CASE Finish
    <3>1. exit' \in {{0}, {1}}
      BY <2>4, ProgramTypes DEF Finish, TypeOK, Verdicts
    <3>2. Promise!Pass \/ Promise!Fail
      BY <2>4, <3>1 DEF Finish, Promise!Pass, Promise!Fail
    <3> QED
      BY <3>2 DEF Promise!Next
  <2>5. CASE UNCHANGED vars
    BY <2>5 DEF vars, Promise!vars
  <2> QED
    BY <2>1, <2>2, <2>3, <2>4, <2>5 DEF Next, Done
<1> QED
  BY <1>1, <1>2, SuitesTypeCorrect, PTL DEF Spec, ImplementsProgram, Promise!Spec

-----------------------------------------------------------------------------

(* The cases that have been run.                                           *)
Past(t, c) == t \in 1 .. test - 1 \/ (t = test /\ c \in 1 .. case - 1)

Positions ==
  exit = {} => /\ \A f \in faults : Past(f[1], f[2])
               /\ \A f \in failed : Past(f[1], f[2])

Marks ==
  exit = {} => /\ all_ok <=> \A f \in failed : f[1] # test
               /\ rc = 0 <=> \A f \in failed : f[1] = test
               /\ P.verdict = "first" => failed = {}

Label(t) == IF P.tests[t].label THEN "dead" ELSE P.tests[t].name

Rows ==
  P.table = "tests" =>
    /\ Len(results) = test - 1
    /\ \A t \in 1 .. test - 1 : results[t].name = Label(t)
    /\ \A t \in 1 .. test - 1 : results[t].passed <=> \A f \in failed : f[1] # t

(* What may make the comparison of a case fail.                            *)
Cause(t, c) ==
  LET k == P.tests[t].cases[c]
  IN  Caught(k, Outcome(t, c)) \/ (k.looks = "norm" /\ Outcome(t, c)[1] = Above)

Judgements ==
  /\ \A t \in DOMAIN P.tests : \A c \in DOMAIN P.tests[t].cases :
       Past(t, c) /\ <<t, c>> \notin failed => ~Caught(P.tests[t].cases[c], Outcome(t, c))
  /\ \A f \in failed : Cause(f[1], f[2])

Endings ==
  /\ status = "none" => /\ exit # {0}
                        /\ exit = {} \/ failed # {} \/ \E f \in faults : f[3] = <<>>
  /\ status # "none" => /\ test = Len(P.tests) + 1 /\ exit # {}
                        /\ status = "pass" <=> exit = {0}
                        /\ P.verdict = "always" => exit = {0}
                        /\ P.verdict # "always" => (exit = {0} <=> failed = {})

IInv == TypeOK /\ Positions /\ Marks /\ Rows /\ Judgements /\ Endings

-----------------------------------------------------------------------------

(* A case that has been run keeps its outcome.                             *)
LEMMA OutcomeKept ==
  ASSUME TypeOK, Positions, exit = {}, P' = P,
         NEW ds, faults' = faults \/ faults' = faults \cup {<<test, case, ds>>},
         NEW t, NEW c, Past(t, c)
  PROVE  Outcome(t, c)' = Outcome(t, c)
<1>1. ~(t = test /\ c = case)
  BY ProgramTypes DEF Past
<1>2. At(t, c)' = At(t, c)
  BY <1>1 DEF At
<1> QED
  BY <1>2 DEF Outcome

(* The outcome of a case is what the library returned.                     *)
LEMMA OutcomeNew ==
  ASSUME TypeOK, Positions, exit = {}, P' = P,
         NEW ds, NEW ok, Look(ds, ok),
         NEW t, NEW c, t = test, c = case
  PROVE  Outcome(t, c)' = ds
<1>1. At(t, c) = {}
  BY ProgramTypes DEF At, Positions, Past
<1>2. CASE ds = Right(Case)
  <2>1. At(t, c)' = {}
    BY <1>1, <1>2 DEF At, Look
  <2> QED
    BY <1>2, <2>1 DEF Outcome, Case, Current
<1>3. CASE ds # Right(Case)
  <2>1. faults' = faults \cup {<<test, case, ds>>}
    BY <1>3 DEF Look
  <2>2. At(t, c)' = {<<t, c, ds>>}
    BY <1>1, <2>1 DEF At
  <2>3. Outcome(t, c)' = (CHOOSE f \in {<<t, c, ds>>} : TRUE)[3]
    BY <2>2 DEF Outcome
  <2>4. (CHOOSE f \in {<<t, c, ds>>} : TRUE) = <<t, c, ds>>
    OBVIOUS
  <2> QED
    BY <2>3, <2>4
<1> QED
  BY <1>2, <1>3

(* The total of the table is the number of its rows that are marked.       *)
LEMMA Counted ==
  ASSUME NEW S, NEW rows \in Seq([name : S, passed : BOOLEAN, max_err : Errors])
  PROVE  /\ Summary(rows).fail = Cardinality({i \in 1 .. Len(rows) : ~rows[i].passed})
         /\ Summary(rows).fail = 0 <=> \A i \in 1 .. Len(rows) : rows[i].passed
<1> DEFINE all == 1 .. Len(rows)
           yes == {i \in all : rows[i].passed}
           no  == {i \in all : ~rows[i].passed}
<1>1. Len(rows) \in Nat /\ DOMAIN rows = all
  OBVIOUS
<1>2. IsFiniteSet(all) /\ Cardinality(all) = Len(rows)
  BY <1>1, FS_Interval
<1>3. yes \in SUBSET all /\ no \in SUBSET all /\ yes \cap no = {} /\ yes \cup no = all
  OBVIOUS
<1>4. Summary(rows).fail = Len(rows) - Cardinality(yes)
  BY <1>1 DEF Summary
<1>5. no = {} <=> \A i \in 1 .. Len(rows) : rows[i].passed
  OBVIOUS
<1> HIDE DEF all, yes, no
<1>6. IsFiniteSet(yes) /\ IsFiniteSet(no)
  BY <1>2, <1>3, FS_Subset
<1>7. Cardinality(all) = Cardinality(yes) + Cardinality(no)
  <2>1. Cardinality(yes \cup no) = Cardinality(yes) + Cardinality(no) - Cardinality(yes \cap no)
    BY <1>6, FS_Union
  <2>2. Cardinality(yes) \in Nat /\ Cardinality(no) \in Nat /\ Cardinality({}) = 0
    BY <1>6, FS_CardinalityType, FS_EmptySet
  <2>3. Cardinality(all) = Cardinality(yes) + Cardinality(no) - Cardinality({})
    BY <1>3, <2>1, Zenon
  <2> QED
    BY <2>2, <2>3
<1>8. Cardinality(yes) \in Nat /\ Cardinality(no) \in Nat /\ (Cardinality(no) = 0 <=> no = {})
  BY <1>6, FS_CardinalityType, FS_EmptySet
<1>9. Summary(rows).fail = Cardinality(no)
  BY <1>2, <1>4, <1>7, <1>8
<1> QED
  BY <1>5, <1>8, <1>9 DEF no, all

-----------------------------------------------------------------------------

(* The parts of the invariant hold at the start.                           *)
LEMMA InitIInv == Init => Positions /\ Marks /\ Rows /\ Judgements /\ Endings
<1> SUFFICES ASSUME Init PROVE Positions /\ Marks /\ Rows /\ Judgements /\ Endings
  OBVIOUS
<1>1. Positions /\ Marks /\ Endings
  BY DEF Init, Positions, Marks, Endings
<1>2. Rows
  BY DEF Init, Rows
<1>3. Judgements
  <2>1. \A t \in DOMAIN P.tests : \A c \in DOMAIN P.tests[t].cases : ~Past(t, c)
    BY DEF Init, Past
  <2> QED
    BY <2>1 DEF Init, Judgements
<1> QED
  BY <1>1, <1>2, <1>3

(* A case is run.                                                          *)
LEMMA RunCaseKeeps ==
  ASSUME IInv, RunCase
  PROVE  (Positions /\ Marks /\ Rows /\ Judgements /\ Endings)'
<1> USE DEF IInv
<1>1. PICK ds, ok :
           /\ ds \in [1 .. Elements(Case) -> Errors]
           /\ ok \in Passes(Case, ds, Err(Case, ds))
           /\ got' = ds
           /\ Look(ds, ok)
           /\ NextCase(ok, Err(Case, ds)) \/ StopAtFailure(ok)
  BY Runs
<1>2. exit = {} /\ status = "none" /\ test <= Len(P.tests) /\ case <= Len(Current.cases)
  BY DEF RunCase, Running, Endings
<1>3. /\ Case \in Kinds /\ case \in 1 .. Len(Current.cases) /\ test \in 1 .. Len(P.tests)
      /\ test \in Nat /\ case \in Nat
  BY <1>2, CaseTypes, ProgramTypes DEF RunCase
<1>4. results' = results \/ P.table # "tests"
  BY <1>1 DEF NextCase, StopAtFailure, P
<1>5. P' = P /\ test' = test /\ status' = "none" /\ UNCHANGED rc
  BY <1>1, <1>2 DEF NextCase, StopAtFailure, P
<1>6. /\ ok \in BOOLEAN
      /\ ok => ~Caught(Case, ds)
      /\ ~ok => Caught(Case, ds) \/ (Case.looks = "norm" /\ ds[1] = Above)
  BY <1>1, <1>3, Judged
<1>7. failed' = IF ok THEN failed ELSE failed \cup {<<test, case>>}
  BY <1>1 DEF Look
<1>8. faults' = faults \/ faults' = faults \cup {<<test, case, ds>>}
  BY <1>1 DEF Look
<1>9. Positions'
  <2>1. CASE NextCase(ok, Err(Case, ds))
    <3>1. \A t, c : Past(t, c) \/ (t = test /\ c = case) => Past(t, c)'
      BY <1>3, <2>1 DEF NextCase, Advance, Past
    <3> QED
      BY <1>2, <1>7, <1>8, <3>1 DEF Positions
  <2>2. CASE StopAtFailure(ok)
    BY <2>2 DEF StopAtFailure, Positions
  <2> QED
    BY <1>1, <2>1, <2>2
<1>10. Marks'
  <2>1. CASE NextCase(ok, Err(Case, ds))
    <3>1. all_ok' = (all_ok /\ ok) /\ (ok \/ P.verdict # "first")
      BY <2>1 DEF NextCase, Judge
    <3>2. all_ok' <=> \A f \in failed' : f[1] # test'
      <4>1. CASE ok
        BY <1>2, <1>5, <1>7, <3>1, <4>1 DEF Marks, TypeOK
      <4>2. CASE ~ok
        <5>1. <<test, case>> \in failed' /\ <<test, case>>[1] = test
          BY <1>7, <4>2
        <5>2. \E f \in failed' : f[1] = test'
          BY <1>5, <5>1
        <5> QED
          BY <3>1, <4>2, <5>2
      <4> QED
        BY <4>1, <4>2
    <3>3. rc' = 0 <=> \A f \in failed' : f[1] = test'
      BY <1>2, <1>5, <1>6, <1>7 DEF Marks
    <3>4. P'.verdict = "first" => failed' = {}
      BY <1>2, <1>5, <1>6, <1>7, <3>1 DEF Marks
    <3> QED
      BY <3>2, <3>3, <3>4 DEF Marks
  <2>2. CASE StopAtFailure(ok)
    BY <2>2 DEF StopAtFailure, Marks
  <2> QED
    BY <1>1, <2>1, <2>2
<1>11. Rows'
  BY <1>3, <1>4, <1>5, <1>7 DEF Rows, Label
<1>12. Judgements'
  <2>1. \A t, c : Past(t, c) => Outcome(t, c)' = Outcome(t, c)
    BY <1>2, <1>5, <1>8, OutcomeKept
  <2>2. \A t, c : t = test /\ c = case => Outcome(t, c)' = ds
    BY <1>1, <1>2, <1>5, OutcomeNew
  <2>3. ASSUME NEW t \in DOMAIN P.tests, NEW c \in DOMAIN P.tests[t].cases,
               Past(t, c)', <<t, c>> \notin failed'
        PROVE  ~Caught(P.tests[t].cases[c], Outcome(t, c)')
    <3>1. Past(t, c) \/ (t = test /\ c = case)
      <4>1. case' = case \/ case' = case + 1
        BY <1>1 DEF NextCase, StopAtFailure, Advance
      <4>2. t \in 1 .. test' - 1 \/ (t = test' /\ c \in 1 .. case' - 1)
        BY <2>3 DEF Past
      <4> QED
        BY <1>3, <1>5, <4>1, <4>2 DEF Past
    <3>2. CASE Past(t, c)
      BY <1>7, <2>1, <2>3, <3>2 DEF Judgements
    <3>3. CASE t = test /\ c = case
      BY <1>6, <1>7, <2>2, <2>3, <3>3 DEF Case, Current
    <3> QED
      BY <3>1, <3>2, <3>3
  <2>4. ASSUME NEW f \in failed' PROVE Cause(f[1], f[2])'
    <3>1. CASE f \in failed
      <4>1. Past(f[1], f[2]) /\ Cause(f[1], f[2])
        BY <1>2, <3>1 DEF Positions, Judgements
      <4>2. Outcome(f[1], f[2])' = Outcome(f[1], f[2])
        BY <2>1, <4>1
      <4> QED
        BY <1>5, <4>1, <4>2 DEF Cause
    <3>2. CASE f = <<test, case>> /\ ~ok
      <4>1. f[1] = test /\ f[2] = case
        BY <3>2
      <4>2. Outcome(f[1], f[2])' = ds
        BY <2>2, <4>1
      <4>3. P.tests[f[1]].cases[f[2]] = Case
        BY <4>1 DEF Case, Current
      <4> QED
        BY <1>5, <1>6, <3>2, <4>2, <4>3 DEF Cause
    <3> QED
      BY <1>7, <2>4, <3>1, <3>2
  <2> QED
    BY <1>5, <2>3, <2>4 DEF Judgements
<1>13. Endings'
  <2>1. CASE NextCase(ok, Err(Case, ds))
    BY <1>2, <1>5, <2>1 DEF NextCase, Endings
  <2>2. CASE StopAtFailure(ok)
    <3>1. exit' = {1} /\ ~ok
      BY <2>2 DEF StopAtFailure
    <3>2. failed' # {}
      BY <1>7, <3>1
    <3>3. exit' # {0}
      BY <3>1
    <3> QED
      BY <1>5, <3>2, <3>3 DEF Endings
  <2> QED
    BY <1>1, <2>1, <2>2
<1> QED
  BY <1>9, <1>10, <1>11, <1>12, <1>13

(* A test ends.                                                            *)
LEMMA EndTestKeeps ==
  ASSUME IInv, EndTest
  PROVE  (Positions /\ Marks /\ Rows /\ Judgements /\ Endings)'
<1> USE DEF IInv
<1>1. /\ exit = {} /\ exit' = {} /\ status = "none" /\ status' = "none"
      /\ case > Len(Current.cases) /\ test' = test + 1 /\ case' = 1
      /\ all_ok' = TRUE /\ P' = P /\ UNCHANGED <<faults, failed>>
  BY DEF EndTest, Running, Reset, Endings, P
<1>2. test \in 1 .. Len(P.tests) /\ test \in Nat /\ case \in Nat /\ Len(P.tests) \in Nat
  BY CaseTypes, ProgramTypes DEF EndTest
<1>3. \A t, c : Past(t, c) => Past(t, c)' /\ t \in 1 .. test
  BY <1>1, <1>2 DEF Past
<1>4. \A f \in failed : f[1] \in 1 .. test
  BY <1>1, <1>3 DEF Positions
<1>5. Positions'
  BY <1>1, <1>3 DEF Positions
<1>6. Marks'
  <2>1. \A f \in failed' : f[1] # test'
    BY <1>1, <1>2, <1>4
  <2>2. rc' = 0 <=> all_ok /\ rc = 0
    BY <1>1 DEF EndTest, Take, TypeOK
  <2>3. rc' = 0 <=> failed = {}
    BY <1>1, <2>2 DEF Marks
  <2>4. failed = {} <=> \A f \in failed' : f[1] = test'
    BY <1>1, <2>1
  <2>5. P.verdict = "first" => failed = {}
    BY <1>1 DEF Marks
  <2> QED
    BY <1>1, <2>1, <2>3, <2>4, <2>5 DEF Marks
<1>7. Rows'
  <2> DEFINE err == IF Current.error = "worst" THEN max_err ELSE 0
             row == Row(Current, all_ok, err)
  <2>1. err \in Errors /\ all_ok \in BOOLEAN
    BY DEF TypeOK, Errors, NaN, Eps, Above
  <2>2. P.table = "tests" => results' = Append(results, row)
    BY DEF EndTest
  <2> HIDE DEF err
  <2>3. /\ row \in [name : Names, passed : BOOLEAN, max_err : Errors]
        /\ row.passed = all_ok /\ row.name = Label(test)
    BY <1>2, <2>1, RowTypes DEF Current, Label
  <2> HIDE DEF row
  <2>4. results \in Seq([name : Names, passed : BOOLEAN, max_err : Errors])
    BY DEF TypeOK
  <2> SUFFICES ASSUME P.table = "tests"
               PROVE  /\ Len(results') = test
                      /\ \A t \in 1 .. test : results'[t].name = Label(t)
                      /\ \A t \in 1 .. test : results'[t].passed <=> \A f \in failed : f[1] # t
    BY <1>1, <1>2 DEF Rows, Label
  <2>5. Len(results) = test - 1
    BY DEF Rows
  <2>6. Len(results') = test
    BY <1>2, <2>2, <2>3, <2>4, <2>5, Appended
  <2>7. \A t \in 1 .. test - 1 : results'[t] = results[t]
    BY <2>2, <2>3, <2>4, <2>5, Appended
  <2>8. results'[test] = row
    BY <1>2, <2>2, <2>3, <2>4, <2>5, Appended
  <2>9. row.passed <=> \A f \in failed : f[1] # test
    BY <1>1, <2>3 DEF Marks
  <2>10. \A t \in 1 .. test : t \in 1 .. test - 1 \/ t = test
    BY <1>2
  <2> QED
    BY <2>3, <2>6, <2>7, <2>8, <2>9, <2>10 DEF Rows
<1>8. Judgements'
  <2>1. \A t, c : Outcome(t, c)' = Outcome(t, c)
    BY <1>1 DEF Outcome, At
  <2>2. ASSUME NEW t \in DOMAIN P.tests, NEW c \in DOMAIN P.tests[t].cases, Past(t, c)'
        PROVE  Past(t, c)
    <3>1. t \in 1 .. test
      BY <1>1, <1>2, <2>2 DEF Past
    <3>2. t = test => c \in 1 .. case - 1
      <4>1. P.tests[test].cases \in Seq(Kinds)
        BY <1>2, TestTypes
      <4> QED
        BY <1>1, <1>2, <2>2, <4>1 DEF Current
    <3> QED
      BY <1>2, <3>1, <3>2 DEF Past
  <2>3. \A f \in failed' : Cause(f[1], f[2])'
    BY <1>1, <2>1 DEF Judgements, Cause
  <2> QED
    BY <1>1, <2>1, <2>2, <2>3 DEF Judgements
<1>9. Endings'
  BY <1>1 DEF Endings
<1> QED
  BY <1>5, <1>6, <1>7, <1>8, <1>9

(* The memory runs out.                                                    *)
LEMMA OutOfMemoryKeeps ==
  ASSUME IInv, OutOfMemory
  PROVE  (Positions /\ Marks /\ Rows /\ Judgements /\ Endings)'
<1> USE DEF IInv
<1>1. /\ exit = {} /\ status = "none" /\ P' = P
      /\ UNCHANGED <<test, case, results, status, failed>>
      /\ faults' = faults \cup {<<test, case, <<>>>>}
  BY DEF OutOfMemory, Running, Endings, P
<1>2. exit' # {} /\ exit' # {0}
  <2>1. Current.memory \subseteq Codes
    BY CaseTypes, TestTypes DEF OutOfMemory, Current
  <2> QED
    BY <2>1 DEF OutOfMemory, Codes
<1>3. Positions' /\ Marks'
  BY <1>2 DEF Positions, Marks
<1>4. Rows'
  BY <1>1 DEF Rows, Label
<1>5. Judgements'
  <2>1. \A t, c : Past(t, c) => Outcome(t, c)' = Outcome(t, c)
    BY <1>1, OutcomeKept
  <2>2. \A t, c : Past(t, c)' = Past(t, c)
    BY <1>1 DEF Past
  <2>3. ASSUME NEW f \in failed PROVE Cause(f[1], f[2])'
    <3>1. Past(f[1], f[2]) /\ Cause(f[1], f[2])
      BY <1>1, <2>3 DEF Positions, Judgements
    <3>2. Outcome(f[1], f[2])' = Outcome(f[1], f[2])
      BY <2>1, <3>1
    <3> QED
      BY <1>1, <3>1, <3>2 DEF Cause
  <2> QED
    BY <1>1, <2>1, <2>2, <2>3 DEF Judgements
<1>6. Endings'
  <2>1. \E f \in faults' : f[3] = <<>>
    <3>1. <<test, case, <<>>>> \in faults' /\ <<test, case, <<>>>>[3] = <<>>
      BY <1>1
    <3> QED
      BY <3>1
  <2> QED
    BY <1>1, <1>2, <2>1 DEF Endings
<1> QED
  BY <1>3, <1>4, <1>5, <1>6

(* The program ends.                                                       *)
LEMMA FinishKeeps ==
  ASSUME IInv, Finish
  PROVE  (Positions /\ Marks /\ Rows /\ Judgements /\ Endings)'
<1> USE DEF IInv
<1>1. /\ exit = {} /\ status = "none" /\ P' = P
      /\ UNCHANGED <<test, case, results, faults, failed>>
      /\ status' = IF exit' = {0} THEN "pass" ELSE "fail"
  BY DEF Finish, Endings, P
<1>2. test = Len(P.tests) + 1 /\ Len(P.tests) \in Nat
  BY ProgramTypes DEF Finish, TypeOK
<1>3. \A f \in failed : f[1] \in 1 .. Len(P.tests)
  BY DEF TypeOK
<1>4. /\ exit' # {}
      /\ P.verdict = "always" => exit' = {0}
      /\ P.verdict # "always" => (exit' = {0} <=> failed = {})
  <2>1. exit' # {}
    BY DEF Finish
  <2>2. CASE P.verdict = "rc"
    <3>1. exit' = {rc}
      BY <2>2 DEF Finish
    <3>2. rc = 0 <=> failed = {}
      BY <1>1, <1>2, <1>3 DEF Marks
    <3> QED
      BY <2>2, <3>1, <3>2
  <2>3. CASE P.verdict = "counts"
    <3>1. exit' = {IF Summary(results).fail = 0 THEN 0 ELSE 1}
      BY <2>3 DEF Finish
    <3>2. P.table = "tests"
      BY <2>3, ProgramTypes
    <3>3. results \in Seq([name : Names, passed : BOOLEAN, max_err : Errors])
      BY DEF TypeOK
    <3>4. Summary(results).fail = 0 <=> \A t \in 1 .. Len(results) : results[t].passed
      BY <3>3, Counted
    <3>5. Len(results) = Len(P.tests)
      BY <1>2, <3>2 DEF Rows
    <3>6. \A t \in 1 .. Len(P.tests) : results[t].passed <=> \A f \in failed : f[1] # t
      BY <1>2, <3>2 DEF Rows
    <3>7. Summary(results).fail = 0 <=> failed = {}
      BY <1>3, <3>4, <3>5, <3>6
    <3> QED
      BY <2>3, <3>1, <3>7
  <2>4. CASE P.verdict \in {"first", "always"}
    <3>1. exit' = {0}
      BY <2>4 DEF Finish
    <3>2. P.verdict = "first" => failed = {}
      BY <1>1 DEF Marks
    <3> QED
      BY <2>4, <3>1, <3>2
  <2> QED
    BY <2>1, <2>2, <2>3, <2>4, ProgramTypes DEF Verdicts
<1>5. Positions' /\ Marks'
  BY <1>4 DEF Positions, Marks
<1>6. Rows'
  BY <1>1 DEF Rows, Label
<1>7. Judgements'
  <2>1. \A t, c : Outcome(t, c)' = Outcome(t, c) /\ Past(t, c)' = Past(t, c)
    BY <1>1 DEF Outcome, At, Past
  <2> QED
    BY <1>1, <2>1 DEF Judgements, Cause
<1>8. Endings'
  BY <1>1, <1>2, <1>4 DEF Endings
<1> QED
  BY <1>5, <1>6, <1>7, <1>8

-----------------------------------------------------------------------------

(* Nothing happens.                                                        *)
LEMMA StutterKeeps ==
  ASSUME IInv, UNCHANGED vars
  PROVE  (Positions /\ Marks /\ Rows /\ Judgements /\ Endings)'
<1>1. P' = P
  BY DEF vars, P
<1>2. \A t, c : Outcome(t, c)' = Outcome(t, c) /\ Past(t, c)' = Past(t, c)
  BY <1>1 DEF vars, Outcome, At, Past
<1>3. Positions' /\ Marks' /\ Endings'
  BY <1>1 DEF IInv, vars, Positions, Marks, Endings, Past
<1>4. Rows'
  BY <1>1 DEF IInv, vars, Rows, Label
<1>5. Judgements'
  BY <1>1, <1>2 DEF IInv, vars, Judgements, Cause
<1> QED
  BY <1>3, <1>4, <1>5

(* The inductive invariant: while the program runs, the marks, the verdict *)
(* and the table say of the cases run so far what the STATUS line is to    *)
(* say of all, and a case is among the failed ones exactly for a cause.    *)
THEOREM SuitesInvariant == Spec => []IInv
<1> DEFINE J == Positions /\ Marks /\ Rows /\ Judgements /\ Endings
<1>1. Init => J
  BY InitIInv
<1>2. TypeOK /\ J /\ [Next]_vars => J'
  <2> SUFFICES ASSUME IInv, [Next]_vars PROVE J'
    BY DEF IInv
  <2>1. CASE RunCase
    BY <2>1, RunCaseKeeps
  <2>2. CASE EndTest
    BY <2>2, EndTestKeeps
  <2>3. CASE OutOfMemory
    BY <2>3, OutOfMemoryKeeps
  <2>4. CASE Finish
    BY <2>4, FinishKeeps
  <2>5. CASE UNCHANGED vars
    BY <2>5, StutterKeeps
  <2> QED
    BY <2>1, <2>2, <2>3, <2>4, <2>5 DEF Next, Done
<1>3. TypeOK /\ J => IInv
  BY DEF IInv
<1> HIDE DEF J
<1> QED
  BY <1>1, <1>2, <1>3, SuitesTypeCorrect, PTL DEF Spec

(* At a STATUS line every test has run and the table, the total and the    *)
(* line say what the cases came to: record, print_summary and main.        *)
THEOREM SuitesStatusIsTrue == Spec => []StatusIsTrue
<1>1. IInv => StatusIsTrue
  <2> SUFFICES ASSUME IInv, status # "none" PROVE StatusIsTrue
    BY DEF StatusIsTrue
  <2>1. test = Len(P.tests) + 1 /\ Len(P.tests) \in Nat
    BY ProgramTypes DEF IInv, Endings
  <2>2. P.verdict # "always" => (status = "pass" <=> failed = {})
    BY DEF IInv, Endings
  <2>3. ASSUME P.table = "tests"
        PROVE  /\ Len(results) = Len(P.tests)
               /\ \A t \in DOMAIN results :
                    /\ results[t].name = P.tests[t].name
                    /\ results[t].passed <=> \A f \in failed : f[1] # t
               /\ Summary(results).fail = Cardinality({f[1] : f \in failed})
    <3>1. results \in Seq([name : Names, passed : BOOLEAN, max_err : Errors])
      BY DEF IInv, TypeOK
    <3>2. Len(results) = Len(P.tests)
      BY <2>1, <2>3 DEF IInv, Rows
    <3>3. \A t \in 1 .. Len(results) : results[t].name = P.tests[t].name
      <4>1. \A t \in 1 .. Len(results) : results[t].name = Label(t)
        BY <2>1, <2>3, <3>2 DEF IInv, Rows
      <4>2. \A t \in 1 .. Len(results) : ~P.tests[t].label
        BY <2>1, <2>3, <3>2, ProgramsAssumption DEF IInv, TypeOK, P
      <4> QED
        BY <4>1, <4>2 DEF Label
    <3>4. \A t \in 1 .. Len(results) : results[t].passed <=> \A f \in failed : f[1] # t
      BY <2>1, <2>3, <3>2 DEF IInv, Rows
    <3>5. \A f \in failed : f[1] \in 1 .. Len(results)
      BY <3>2 DEF IInv, TypeOK
    <3>6. {i \in 1 .. Len(results) : ~results[i].passed} = {f[1] : f \in failed}
      BY <3>4, <3>5
    <3>7. Summary(results).fail = Cardinality({i \in 1 .. Len(results) : ~results[i].passed})
      BY <3>1, Counted
    <3>8. DOMAIN results = 1 .. Len(results)
      BY <3>1
    <3> QED
      BY <3>2, <3>3, <3>4, <3>6, <3>7, <3>8
  <2> QED
    BY <2>1, <2>2, <2>3 DEF StatusIsTrue
<1> QED
  BY <1>1, SuitesInvariant, PTL

(* An exit code of zero is earned by every case of every test.             *)
THEOREM SuitesPassIsEarned == Spec => []ProgramPassIsEarned
<1>1. IInv => ProgramPassIsEarned
  <2> SUFFICES ASSUME IInv, exit = {0} PROVE ProgramPassIsEarned
    BY DEF ProgramPassIsEarned
  <2>1. /\ test = Len(P.tests) + 1 /\ Len(P.tests) \in Nat
        /\ P.verdict # "always" => failed = {}
    BY ProgramTypes DEF IInv, Endings
  <2>2. ASSUME NEW t \in DOMAIN P.tests, NEW c \in DOMAIN P.tests[t].cases, failed = {}
        PROVE  ~Caught(P.tests[t].cases[c], Outcome(t, c))
    <3>1. t \in 1 .. Len(P.tests)
      BY ProgramTypes DEF IInv
    <3>2. Past(t, c)
      BY <2>1, <3>1 DEF Past
    <3> QED
      BY <2>2, <3>2 DEF IInv, Judgements
  <2> QED
    BY <2>1, <2>2 DEF ProgramPassIsEarned
<1> QED
  BY <1>1, SuitesInvariant, PTL

(* An exit code other than zero has a cause: memory, or a case over the    *)
(* threshold.                                                              *)
THEOREM SuitesFailureHasCause == Spec => []FailureHasCause
<1>1. IInv => FailureHasCause
  <2> SUFFICES ASSUME IInv, exit \notin {{}, {0}} PROVE FailureHasCause
    BY DEF FailureHasCause
  <2>1. failed # {} \/ \E f \in faults : f[3] = <<>>
    BY DEF IInv, Endings
  <2>2. \A f \in failed : Cause(f[1], f[2])
    BY DEF IInv, Judgements
  <2> QED
    BY <2>1, <2>2 DEF FailureHasCause, Cause
<1> QED
  BY <1>1, SuitesInvariant, PTL

-----------------------------------------------------------------------------

(* The largest of some errors, NaNs left out, by what is among them.       *)
LEMMA LargestOf ==
  ASSUME NEW errs \in SUBSET Errors
  PROVE  /\ Largest(errs) \in {0, Eps, Above}
         /\ Largest(errs) = 0 <=> errs \subseteq {NaN, 0}
         /\ Largest(errs) = Above <=> Above \in errs
<1> DEFINE best(m) == m \in (errs \cup {0}) \ {NaN} /\ \A e \in errs : e <= m
           w == IF Above \in errs THEN Above ELSE IF Eps \in errs THEN Eps ELSE 0
<1>1. best(w)
  BY DEF Errors, NaN, Eps, Above
<1>2. best(Largest(errs))
  BY <1>1 DEF Largest
<1> HIDE DEF w
<1> DEFINE l == Largest(errs)
<1>3. l \in {0, Eps, Above} /\ (l = 0 \/ l \in errs) /\ \A e \in errs : e <= l
  BY <1>2 DEF Errors
<1> HIDE DEF l
<1>4. l = Above <=> Above \in errs
  BY <1>3 DEF Eps, Above
<1>5. l = 0 => errs \subseteq {NaN, 0}
  BY <1>3 DEF Errors, NaN, Eps, Above
<1>6. errs \subseteq {NaN, 0} => l = 0
  BY <1>3 DEF NaN, Eps, Above
<1> QED
  BY <1>3, <1>4, <1>5, <1>6 DEF l

(* The maximum of the first error and the zero it starts from.             *)
LEMMA RaisedFirst ==
  ASSUME NEW d \in Errors
  PROVE  /\ Raise(0, d) \in {0, Eps, Above}
         /\ Raise(0, d) = 0 <=> d \in {NaN, 0}
         /\ Raise(0, d) = Above <=> d = Above
BY DEF Raise, Gt, Errors, NaN, Eps, Above

(* The largest error seen, after one more case.                            *)
LEMMA LargestGrows ==
  ASSUME NEW k \in Kinds, k.looks \notin {"ends", "unused"},
         NEW ds \in [1 .. Elements(k) -> Errors], NEW seen \in SUBSET Errors
  PROVE  /\ ElementsOf(ds) \subseteq Errors
         /\ Raise(Largest(seen), Err(k, ds)) = Largest(seen \cup ElementsOf(ds))
<1> DEFINE e   == Err(k, ds)
           new == ElementsOf(ds)
           l   == Largest(seen)
           m   == Largest(seen \cup new)
<1>1. /\ new \subseteq Errors /\ e \in Errors
      /\ e \in {NaN, 0} <=> new \subseteq {NaN, 0}
      /\ e = Above <=> Above \in new
  <2>1. CASE k.looks = "array"
    <3> DEFINE r == Raise(0, ds[1])
    <3>1. ds \in [1 .. 2 -> Errors]
      BY <2>1 DEF Elements
    <3>2. new = {ds[1], ds[2]} /\ ds[1] \in Errors /\ ds[2] \in Errors
      <4>1. ds[1] \in Errors /\ ds[2] \in Errors
        BY <3>1, TwoErrors
      <4>2. DOMAIN ds = {1, 2}
        <5>1. DOMAIN ds = 1 .. 2
          BY <3>1
        <5>2. 1 .. 2 = {1, 2}
          OBVIOUS
        <5> QED
          BY <5>1, <5>2, Zenon
      <4>3. new = {ds[1], ds[2]}
        BY <4>2 DEF ElementsOf
      <4> QED
        BY <4>1, <4>3
    <3>3. e = Raise(r, ds[2])
      BY <2>1, <3>1, MaxErrOfTwo DEF Err
    <3>4. r \in {0, Eps, Above} /\ (r = 0 <=> ds[1] \in {NaN, 0}) /\ (r = Above <=> ds[1] = Above)
      BY <3>2, RaisedFirst
    <3> HIDE DEF r, new
    <3>5. /\ e \in {0, Eps, Above}
          /\ e = 0 <=> r = 0 /\ ds[2] \in {NaN, 0}
          /\ e = Above <=> r = Above \/ ds[2] = Above
      BY <3>2, <3>3, <3>4, Raised
    <3> HIDE DEF e
    <3> QED
      BY <3>2, <3>4, <3>5 DEF Errors, NaN, Eps, Above
  <2>2. CASE k.looks # "array"
    <3>1. e = ds[1] /\ new = {ds[1]} /\ ds[1] \in Errors
      BY <2>2 DEF Err, Elements, ElementsOf
    <3> HIDE DEF e, new
    <3> QED
      BY <3>1
  <2> QED
    BY <2>1, <2>2
<1> HIDE DEF e, new
<1>2. /\ l \in {0, Eps, Above} /\ (l = 0 <=> seen \subseteq {NaN, 0})
      /\ l = Above <=> Above \in seen
  BY LargestOf
<1>3. /\ m \in {0, Eps, Above} /\ (m = 0 <=> seen \cup new \subseteq {NaN, 0})
      /\ m = Above <=> Above \in seen \cup new
  <2>1. seen \cup new \in SUBSET Errors
    BY <1>1
  <2> QED
    BY <2>1, LargestOf
<1> HIDE DEF l, m
<1>4. /\ Raise(l, e) \in {0, Eps, Above}
      /\ Raise(l, e) = 0 <=> l = 0 /\ e \in {NaN, 0}
      /\ Raise(l, e) = Above <=> l = Above \/ e = Above
  BY <1>1, <1>2, Raised
<1>5. Raise(l, e) = m
  <2>1. Raise(l, e) = 0 <=> m = 0
    BY <1>1, <1>2, <1>3, <1>4
  <2>2. Raise(l, e) = Above <=> m = Above
    BY <1>1, <1>2, <1>3, <1>4
  <2> QED
    BY <1>3, <1>4, <2>1, <2>2
<1> QED
  BY <1>1, <1>5 DEF e, l, m, new

-----------------------------------------------------------------------------

(* The errors of the cases of test t that have been run.                   *)
PastCases(t) == {c \in DOMAIN P.tests[t].cases : Past(t, c)}
Seen(t)      == UNION {ElementsOf(Outcome(t, c)) : c \in PastCases(t)}
Measured(t)  == P.table = "tests" /\ P.tests[t].error = "worst"

Worst ==
  /\ \A t \in DOMAIN P.tests : Seen(t) \subseteq Errors
  /\ exit = {} =>
       \A t \in DOMAIN P.tests : t = test /\ Measured(t) => max_err = Largest(Seen(t))
  /\ \A t \in 1 .. test - 1 : Measured(t) => results[t].max_err = Largest(Seen(t))

(* Of a test that is over every case has been run, of one to come none.    *)
LEMMA PastCasesOf ==
  ASSUME TypeOK, NEW t \in DOMAIN P.tests
  PROVE  /\ t < test => PastCases(t) = DOMAIN P.tests[t].cases
         /\ t > test => PastCases(t) = {}
<1>1. t \in Nat /\ t > 0 /\ test \in Nat
  BY ProgramTypes
<1>2. \A c : /\ t < test => Past(t, c)
             /\ t > test => ~Past(t, c)
  BY <1>1 DEF Past
<1> QED
  BY <1>2 DEF PastCases

(* What has been seen of a test stays while none of its cases is added.    *)
LEMMA SeenKept ==
  ASSUME P' = P, NEW t \in DOMAIN P.tests, PastCases(t)' = PastCases(t),
         \A c : Past(t, c) => Outcome(t, c)' = Outcome(t, c)
  PROVE  Seen(t)' = Seen(t)
<1>1. \A c \in PastCases(t) : Outcome(t, c)' = Outcome(t, c)
  BY DEF PastCases
<1> QED
  BY <1>1 DEF Seen

(* A case is run: what it adds to what has been seen of its test.          *)
LEMMA RunCaseSees ==
  ASSUME IInv, Worst, RunCase
  PROVE  Worst'
<1>1. PICK ds, ok :
           /\ ds \in [1 .. Elements(Case) -> Errors]
           /\ ok \in Passes(Case, ds, Err(Case, ds))
           /\ got' = ds
           /\ Look(ds, ok)
           /\ NextCase(ok, Err(Case, ds)) \/ StopAtFailure(ok)
  BY Runs DEF IInv
<1>2. TypeOK /\ Positions /\ exit = {}
  BY DEF IInv, RunCase, Running
<1>3. /\ Case \in Kinds /\ case \in 1 .. Len(Current.cases) /\ test \in 1 .. Len(P.tests)
      /\ test \in Nat /\ case \in Nat
  BY <1>2, CaseTypes, ProgramTypes DEF RunCase
<1>4. P' = P /\ test' = test /\ (P.table = "tests" => results' = results)
  BY <1>1 DEF NextCase, StopAtFailure, P
<1>5. faults' = faults \/ faults' = faults \cup {<<test, case, ds>>}
  BY <1>1 DEF Look
<1>6. \A t, c : Past(t, c) => Outcome(t, c)' = Outcome(t, c)
  BY <1>2, <1>4, <1>5, OutcomeKept
<1>7. DOMAIN P.tests = 1 .. Len(P.tests) /\ DOMAIN Current.cases = 1 .. Len(Current.cases)
  BY <1>2, <1>3, ProgramTypes, TestTypes DEF Current
<1>8. CASE StopAtFailure(ok)
  <2>1. ASSUME NEW t \in DOMAIN P.tests PROVE Seen(t)' = Seen(t)
    <3>1. PastCases(t)' = PastCases(t)
      BY <1>4, <1>8 DEF PastCases, Past, StopAtFailure
    <3> QED
      BY <1>4, <1>6, <3>1, SeenKept
  <2>2. exit' # {}
    BY <1>8 DEF StopAtFailure
  <2>3. 1 .. test - 1 \subseteq DOMAIN P.tests
    BY <1>3, <1>7
  <2> QED
    BY <1>4, <2>1, <2>2, <2>3 DEF Worst, Measured
<1>9. CASE NextCase(ok, Err(Case, ds))
  <2>1. case' = case + 1 /\ max_err' = Raise(max_err, Err(Case, ds))
    BY <1>9 DEF NextCase, Advance, Judge
  <2>2. ASSUME NEW t \in DOMAIN P.tests, t # test PROVE Seen(t)' = Seen(t)
    <3>1. PastCases(t)' = PastCases(t)
      BY <1>4, <2>2 DEF PastCases, Past
    <3> QED
      BY <1>4, <1>6, <3>1, SeenKept
  <2>3. ASSUME NEW t \in DOMAIN P.tests, t = test
        PROVE  Seen(t)' = Seen(t) \cup ElementsOf(ds)
    <3>1. PastCases(t)' = PastCases(t) \cup {case}
      <4>1. \A c \in 1 .. Len(Current.cases) : Past(t, c) <=> c \in 1 .. case - 1
        BY <1>3, <2>3 DEF Past
      <4>2. \A c \in 1 .. Len(Current.cases) : Past(t, c)' <=> c \in 1 .. case
        BY <1>3, <1>4, <2>1, <2>3 DEF Past
      <4>3. PastCases(t) = {c \in 1 .. Len(Current.cases) : Past(t, c)}
        BY <1>7, <2>3 DEF PastCases, Current
      <4>4. PastCases(t)' = {c \in 1 .. Len(Current.cases) : Past(t, c)'}
        BY <1>4, <1>7, <2>3 DEF PastCases, Current
      <4> QED
        BY <1>3, <4>1, <4>2, <4>3, <4>4
    <3>2. \A c : c = case => Outcome(t, c)' = ds
      BY <1>1, <1>2, <1>4, <2>3, OutcomeNew
    <3>3. \A c \in PastCases(t) : Outcome(t, c)' = Outcome(t, c)
      BY <1>6 DEF PastCases
    <3>4. Seen(t)' = UNION {ElementsOf(Outcome(t, c)') : c \in PastCases(t)'}
      BY DEF Seen, ElementsOf
    <3> QED
      BY <3>1, <3>2, <3>3, <3>4 DEF Seen
  <2>4. ElementsOf(ds) \subseteq Errors
    BY <1>1 DEF ElementsOf
  <2>5. ASSUME NEW t \in DOMAIN P.tests, t = test, Measured(t)
        PROVE  max_err' = Largest(Seen(t)')
    <3>1. max_err = Largest(Seen(t)) /\ Seen(t) \in SUBSET Errors
      BY <1>2, <2>5 DEF Worst
    <3>2. Case.looks \notin {"ends", "unused"}
      BY <1>2, <1>3, <1>7, <2>5, WorstAssumption DEF Measured, TypeOK, P, Case, Current
    <3> QED
      BY <1>1, <1>3, <2>1, <2>3, <2>5, <3>1, <3>2, LargestGrows
  <2>6. 1 .. test - 1 \subseteq DOMAIN P.tests \ {test}
    BY <1>3, <1>7
  <2> QED
    BY <1>4, <2>2, <2>3, <2>4, <2>5, <2>6 DEF Worst, Measured
<1> QED
  BY <1>1, <1>8, <1>9

(* A test ends: the largest error goes to the table, and 0 is the largest  *)
(* of what has been seen of the next.                                      *)
LEMMA EndTestSees ==
  ASSUME IInv, Worst, EndTest
  PROVE  Worst'
<1>1. /\ exit = {} /\ case > Len(Current.cases) /\ test' = test + 1 /\ case' = 1
      /\ max_err' = 0 /\ P' = P /\ UNCHANGED faults
  BY DEF EndTest, Running, Reset, P
<1>2. /\ TypeOK /\ Rows /\ test \in 1 .. Len(P.tests)
      /\ test \in Nat /\ case \in Nat /\ Len(P.tests) \in Nat
  BY CaseTypes, ProgramTypes DEF EndTest, IInv
<1>3. DOMAIN P.tests = 1 .. Len(P.tests) /\ DOMAIN Current.cases = 1 .. Len(Current.cases)
  BY <1>2, ProgramTypes, TestTypes DEF Current
<1>4. ASSUME NEW t \in DOMAIN P.tests PROVE Seen(t)' = Seen(t)
  <2>1. \A c \in DOMAIN P.tests[t].cases : Past(t, c)' <=> Past(t, c)
    <3>1. CASE t = test
      <4>1. \A c \in 1 .. Len(Current.cases) : Past(t, c) /\ Past(t, c)'
        <5>1. Len(Current.cases) \in Nat
          BY <1>2, TestTypes DEF Current
        <5> QED
          BY <1>1, <1>2, <3>1, <5>1 DEF Past
      <4> QED
        BY <1>3, <3>1, <4>1 DEF Current
    <3>2. CASE t # test
      BY <1>1, <1>2, <1>3, <3>2 DEF Past
    <3> QED
      BY <3>1, <3>2
  <2>2. PastCases(t)' = PastCases(t)
    BY <1>1, <2>1 DEF PastCases
  <2>3. \A c : Outcome(t, c)' = Outcome(t, c)
    BY <1>1 DEF Outcome, At
  <2> QED
    BY <1>1, <2>2, <2>3, SeenKept
<1>5. ASSUME NEW t \in DOMAIN P.tests, t = test' PROVE Seen(t)' = {}
  <2>1. PastCases(t) = {}
    BY <1>1, <1>2, <1>5, PastCasesOf
  <2>2. Seen(t) = {}
    BY <2>1 DEF Seen
  <2> QED
    BY <1>4, <2>2
<1>6. Largest({}) = 0
  BY LargestOf
<1>7. ASSUME NEW t \in 1 .. test, Measured(t)
      PROVE  results'[t].max_err = Largest(Seen(t))
  <2> DEFINE row == Row(Current, all_ok, IF Current.error = "worst" THEN max_err ELSE 0)
  <2>1. results' = Append(results, row)
    BY <1>7 DEF EndTest, Measured
  <2>2. row \in [name : Names, passed : BOOLEAN, max_err : Errors]
    <3> DEFINE err == IF Current.error = "worst" THEN max_err ELSE 0
    <3>1. err \in Errors /\ all_ok \in BOOLEAN
      BY <1>2 DEF TypeOK, Errors, NaN, Eps, Above
    <3> HIDE DEF err
    <3> QED
      BY <1>2, <3>1, RowTypes DEF Current, err
  <2>3. /\ results \in Seq([name : Names, passed : BOOLEAN, max_err : Errors])
        /\ Len(results) = test - 1
    BY <1>2, <1>7 DEF TypeOK, Rows, Measured
  <2>4. t = test => row.max_err = max_err
    BY <1>7 DEF Measured, Row, Current
  <2> HIDE DEF row
  <2>5. /\ \A i \in 1 .. test - 1 : results'[i] = results[i]
        /\ results'[test] = row
    BY <1>2, <2>1, <2>2, <2>3, Appended
  <2>6. CASE t = test
    BY <1>1, <1>2, <1>3, <1>7, <2>4, <2>5, <2>6 DEF Worst
  <2>7. CASE t # test
    <3>1. t \in 1 .. test - 1
      BY <1>2, <2>7
    <3> QED
      BY <1>7, <2>5, <3>1 DEF Worst
  <2> QED
    BY <2>6, <2>7
<1>8. 1 .. test' - 1 = 1 .. test /\ 1 .. test \subseteq DOMAIN P.tests
  BY <1>1, <1>2, <1>3
<1>9. ASSUME NEW t \in 1 .. test, Measured(t)'
      PROVE  results'[t].max_err = Largest(Seen(t)')
  BY <1>1, <1>4, <1>7, <1>8, <1>9 DEF Measured
<1>10. ASSUME NEW t \in DOMAIN P.tests, t = test' PROVE max_err' = Largest(Seen(t)')
  BY <1>1, <1>5, <1>6, <1>10
<1>11. \A t \in DOMAIN P'.tests : Seen(t)' \subseteq Errors
  BY <1>1, <1>4 DEF Worst
<1> QED
  BY <1>1, <1>8, <1>9, <1>10, <1>11 DEF Worst

(* The other steps leave alone what has been seen.                         *)
LEMMA OthersSee ==
  ASSUME IInv, Worst, OutOfMemory \/ Finish \/ UNCHANGED vars
  PROVE  Worst'
<1>1. P' = P /\ UNCHANGED <<test, case, max_err, results>>
  BY DEF OutOfMemory, Finish, vars, P
<1>2. exit' = {} => exit = {}
  BY DEF OutOfMemory, Running, Finish, vars
<1>3. \A t, c : Past(t, c) => Outcome(t, c)' = Outcome(t, c)
  <2>1. CASE OutOfMemory
    <3>1. /\ TypeOK /\ Positions /\ exit = {}
          /\ faults' = faults \cup {<<test, case, <<>>>>}
      BY <2>1 DEF IInv, OutOfMemory, Running
    <3> QED
      BY <1>1, <3>1, OutcomeKept
  <2>2. CASE UNCHANGED faults
    BY <1>1, <2>2 DEF Outcome, At
  <2> QED
    BY <2>1, <2>2 DEF Finish, vars
<1>4. ASSUME NEW t \in DOMAIN P.tests PROVE Seen(t)' = Seen(t)
  <2>1. PastCases(t)' = PastCases(t)
    BY <1>1 DEF PastCases, Past
  <2> QED
    BY <1>1, <1>3, <2>1, SeenKept
<1>5. 1 .. test - 1 \subseteq DOMAIN P.tests
  BY ProgramTypes DEF IInv, TypeOK
<1> QED
  BY <1>1, <1>2, <1>4, <1>5 DEF Worst, Measured

(* The table shows for each test the largest error of all elements of all  *)
(* its cases: what record keeps of a test is all that has been seen of it. *)
THEOREM SuitesErrorsAreWorst == Spec => []ErrorsAreWorst
<1>1. Init => Worst
  <2> SUFFICES ASSUME Init PROVE Worst
    OBVIOUS
  <2>1. \A t \in DOMAIN P.tests : PastCases(t) = {}
    BY DEF Init, PastCases, Past
  <2>2. \A t \in DOMAIN P.tests : Seen(t) = {}
    BY <2>1 DEF Seen
  <2>3. Largest({}) = 0
    BY LargestOf
  <2>4. test = 1 /\ max_err = 0
    BY DEF Init
  <2> QED
    BY <2>2, <2>3, <2>4 DEF Worst
<1>2. IInv /\ Worst /\ [Next]_vars => Worst'
  BY RunCaseSees, EndTestSees, OthersSee DEF Next, Done
<1>3. IInv /\ Worst => ErrorsAreWorst
  <2> SUFFICES ASSUME IInv, Worst, status # "none", P.table = "tests",
                      NEW t \in DOMAIN results, P.tests[t].error = "worst"
               PROVE  results[t].max_err =
                        Largest(UNION {ElementsOf(Outcome(t, c)) : c \in DOMAIN P.tests[t].cases})
    BY DEF ErrorsAreWorst
  <2>1. /\ TypeOK /\ test = Len(P.tests) + 1 /\ Len(P.tests) \in Nat /\ P.tests \in Seq(Tests)
        /\ Len(results) = Len(P.tests)
    BY ProgramTypes DEF IInv, Endings, Rows
  <2>2. t \in 1 .. Len(P.tests)
    <3>1. results \in Seq([name : Names, passed : BOOLEAN, max_err : Errors])
      BY <2>1 DEF TypeOK
    <3> QED
      BY <2>1, <3>1
  <2>3. PastCases(t) = DOMAIN P.tests[t].cases
    BY <2>1, <2>2, PastCasesOf
  <2> QED
    BY <2>1, <2>2, <2>3 DEF Worst, Measured, Seen
<1> QED
  BY <1>1, <1>2, <1>3, SuitesInvariant, PTL DEF Spec

-----------------------------------------------------------------------------

(* One turn of the loop of each of the array checks, at the element with   *)
(* index i and error d.                                                    *)
CheckOne(s, d, i) ==
  [all_pass |-> s.all_pass /\ CheckDouble(d).passed,
   max_err  |-> Raise(s.max_err, CheckDouble(d).actual_error),
   max_idx  |-> IF Gt(CheckDouble(d).actual_error, s.max_err) THEN i ELSE s.max_idx]

CheckOneF(s, d, i) ==
  [all_pass |-> s.all_pass /\ ~Gt(d, Eps),
   max_err  |-> IF ~s.all_pass \/ Gt(d, s.max_err) THEN d ELSE s.max_err,
   max_idx  |-> IF ~s.all_pass \/ Gt(d, s.max_err) THEN i ELSE s.max_idx]

(* What a turn makes of the state of the loop.                             *)
LEMMA Checked ==
  ASSUME NEW s, NEW d \in Errors, NEW i
  PROVE  /\ CheckOne(s, d, i).all_pass <=> s.all_pass /\ d \in {0, Eps}
         /\ CheckOne(s, d, i).max_err = Raise(s.max_err, d)
         /\ CheckOne(s, d, i).max_idx = IF Gt(d, s.max_err) THEN i ELSE s.max_idx
         /\ CheckOneF(s, d, i).all_pass <=> s.all_pass /\ d # Above
         /\ CheckOneF(s, d, i).max_err = IF ~s.all_pass \/ Gt(d, s.max_err)
                                         THEN d ELSE s.max_err
         /\ CheckOneF(s, d, i).max_idx = IF ~s.all_pass \/ Gt(d, s.max_err)
                                         THEN i ELSE s.max_idx
<1>1. CheckDouble(d).passed = Le(d, Eps) /\ CheckDouble(d).actual_error = d
  BY DEF CheckDouble
<1>2. CheckOne(s, d, i).all_pass = (s.all_pass /\ Le(d, Eps))
  BY <1>1 DEF CheckOne
<1>3. CheckOneF(s, d, i).all_pass = (s.all_pass /\ ~Gt(d, Eps))
  BY DEF CheckOneF
<1>4. Le(d, Eps) <=> d \in {0, Eps}
  BY DEF Le, Errors, NaN, Eps, Above
<1>5. Gt(d, Eps) <=> d = Above
  BY DEF Gt, Errors, NaN, Eps, Above
<1>6. CheckOne(s, d, i).max_err = Raise(s.max_err, d)
  BY <1>1 DEF CheckOne
<1>7. CheckOne(s, d, i).max_idx = IF Gt(d, s.max_err) THEN i ELSE s.max_idx
  BY <1>1 DEF CheckOne
<1>8. /\ CheckOneF(s, d, i).max_err = IF ~s.all_pass \/ Gt(d, s.max_err)
                                      THEN d ELSE s.max_err
      /\ CheckOneF(s, d, i).max_idx = IF ~s.all_pass \/ Gt(d, s.max_err)
                                      THEN i ELSE s.max_idx
  BY DEF CheckOneF
<1> QED
  BY <1>2, <1>3, <1>4, <1>5, <1>6, <1>7, <1>8

(* The states the loops of the array checks are in.                        *)
LoopStates == [all_pass : BOOLEAN, max_err : Errors, max_idx : Nat]

(* A turn leads from one to another.                                       *)
LEMMA CheckedType ==
  ASSUME NEW s \in LoopStates, NEW d \in Errors, NEW i \in Nat
  PROVE  CheckOne(s, d, i) \in LoopStates /\ CheckOneF(s, d, i) \in LoopStates
<1>1. s.all_pass \in BOOLEAN /\ s.max_err \in Errors /\ s.max_idx \in Nat
  BY DEF LoopStates
<1>2. /\ (s.all_pass /\ CheckDouble(d).passed) \in BOOLEAN
      /\ (s.all_pass /\ ~Gt(d, Eps)) \in BOOLEAN
  OBVIOUS
<1>3. CheckDouble(d).actual_error = d
  BY DEF CheckDouble
<1>4. Raise(s.max_err, d) \in Errors
  BY <1>1 DEF Raise
<1>5. (IF Gt(d, s.max_err) THEN i ELSE s.max_idx) \in Nat
  BY <1>1
<1>6. /\ (IF ~s.all_pass \/ Gt(d, s.max_err) THEN d ELSE s.max_err) \in Errors
      /\ (IF ~s.all_pass \/ Gt(d, s.max_err) THEN i ELSE s.max_idx) \in Nat
  BY <1>1
<1>7. CheckOne(s, d, i) \in LoopStates
  BY <1>2, <1>3, <1>4, <1>5 DEF CheckOne, LoopStates
<1>8. CheckOneF(s, d, i) \in LoopStates
  BY <1>2, <1>6 DEF CheckOneF, LoopStates
<1> QED
  BY <1>7, <1>8

(* The loop of rvforge_check_array, turn by turn.                          *)
LEMMA CheckArrayLoop ==
  ASSUME NEW ds \in Seq(Errors)
  PROVE  \E h : /\ h[0] = CheckBegin
                /\ \A i \in 1 .. Len(ds) : h[i] = CheckOne(h[i - 1], ds[i], i - 1)
                /\ rvforge_check_array(ds) = h[Len(ds)]
<1> DEFINE N == Len(ds)
           step(g) == [i \in 0 .. Len(ds) |->
                         IF i = 0 THEN CheckBegin
                         ELSE LET s == g[i - 1]
                                  r == CheckDouble(ds[i])
                              IN [all_pass |-> s.all_pass /\ r.passed,
                                  max_err  |-> Raise(s.max_err, r.actual_error),
                                  max_idx  |-> IF Gt(r.actual_error, s.max_err) THEN i - 1
                                               ELSE s.max_idx]]
           op == [p \in LoopStates \X (1 .. N) |-> CheckOne(p[1], ds[p[2]], p[2] - 1)]
           m == CHOOSE g : g = step(g)
<1>1. N \in Nat /\ \A i \in 1 .. N : ds[i] \in Errors
  OBVIOUS
<1>2. rvforge_check_array(ds) = m[N]
  BY DEF rvforge_check_array
<1>3. \A g : step(g) = [i \in 0 .. N |-> IF i = 0 THEN CheckBegin
                                         ELSE CheckOne(g[i - 1], ds[i], i - 1)]
  BY DEF CheckOne
<1> HIDE DEF step, N
<1>4. ASSUME NEW s \in LoopStates, NEW i \in 1 .. N
      PROVE  op[<<s, i>>] = CheckOne(s, ds[i], i - 1) /\ op[<<s, i>>] \in LoopStates
  <2>1. <<s, i>> \in LoopStates \X (1 .. N) /\ <<s, i>>[1] = s /\ <<s, i>>[2] = i
    OBVIOUS
  <2>2. op[<<s, i>>] = CheckOne(s, ds[i], i - 1)
    BY <2>1
  <2>3. ds[i] \in Errors /\ i - 1 \in Nat
    BY <1>1
  <2> HIDE DEF op
  <2> QED
    BY <2>2, <2>3, CheckedType
<1>5. CheckBegin \in LoopStates
  BY DEF CheckBegin, LoopStates, Errors
<1> HIDE DEF op
<1>6. PICK h : /\ \A i \in 0 .. N : h[i] \in LoopStates
               /\ h[0] = CheckBegin
               /\ \A i \in 1 .. N : h[i] = op[<<h[i - 1], i>>]
  <2>1. Turns(op, LoopStates, N)
    BY <1>4 DEF op, Turns
  <2>2. N \in Nat
    BY <1>1
  <2>3. \E h : RunOf(h, op, CheckBegin, LoopStates, N)
    BY <1>5, <2>1, <2>2, LoopRuns
  <2> QED
    BY <2>3 DEF RunOf
<1> DEFINE g == [i \in 0 .. N |-> h[i]]
<1>7. g = step(g)
  <2>1. ASSUME NEW i \in 0 .. N
        PROVE  g[i] = IF i = 0 THEN CheckBegin ELSE CheckOne(g[i - 1], ds[i], i - 1)
    <3>1. CASE i = 0
      BY <1>6, <3>1
    <3>2. CASE i # 0
      <4>1. i \in 1 .. N /\ i - 1 \in 0 .. N
        BY <1>1, <3>2
      <4>2. h[i] = CheckOne(h[i - 1], ds[i], i - 1)
        BY <1>4, <1>6, <4>1
      <4> QED
        BY <3>2, <4>1, <4>2
    <3> QED
      BY <3>1, <3>2
  <2>2. g = [i \in 0 .. N |-> g[i]]
    OBVIOUS
  <2> HIDE DEF g
  <2>3. g = [i \in 0 .. N |-> IF i = 0 THEN CheckBegin
                              ELSE CheckOne(g[i - 1], ds[i], i - 1)]
    BY <2>1, <2>2
  <2> QED
    BY <1>3, <2>3
<1>8. m = step(m)
  BY <1>7, Zenon
<1> HIDE DEF m, g
<1>9. m = [i \in 0 .. N |-> IF i = 0 THEN CheckBegin
                            ELSE CheckOne(m[i - 1], ds[i], i - 1)]
  BY <1>3, <1>8
<1>10. /\ m[0] = CheckBegin
       /\ \A i \in 1 .. N : m[i] = CheckOne(m[i - 1], ds[i], i - 1)
  BY <1>1, <1>9
<1> QED
  BY <1>2, <1>10 DEF N

(* The loop of rvforge_check_array_f, turn by turn.                        *)
LEMMA CheckArrayFLoop ==
  ASSUME NEW ds \in Seq(Errors)
  PROVE  \E h : /\ h[0] = CheckBegin
                /\ \A i \in 1 .. Len(ds) : h[i] = CheckOneF(h[i - 1], ds[i], i - 1)
                /\ rvforge_check_array_f(ds) = h[Len(ds)]
<1> DEFINE N == Len(ds)
           step(g) == [i \in 0 .. Len(ds) |->
                         IF i = 0 THEN CheckBegin
                         ELSE LET s == g[i - 1]
                                  replaced == ~s.all_pass \/ Gt(ds[i], s.max_err)
                              IN [all_pass |-> s.all_pass /\ ~Gt(ds[i], Eps),
                                  max_err  |-> IF replaced THEN ds[i] ELSE s.max_err,
                                  max_idx  |-> IF replaced THEN i - 1 ELSE s.max_idx]]
           op == [p \in LoopStates \X (1 .. N) |-> CheckOneF(p[1], ds[p[2]], p[2] - 1)]
           m == CHOOSE g : g = step(g)
<1>1. N \in Nat /\ \A i \in 1 .. N : ds[i] \in Errors
  OBVIOUS
<1>2. rvforge_check_array_f(ds) = m[N]
  BY DEF rvforge_check_array_f
<1>3. \A g : step(g) = [i \in 0 .. N |-> IF i = 0 THEN CheckBegin
                                         ELSE CheckOneF(g[i - 1], ds[i], i - 1)]
  BY DEF CheckOneF
<1> HIDE DEF step, N
<1>4. ASSUME NEW s \in LoopStates, NEW i \in 1 .. N
      PROVE  op[<<s, i>>] = CheckOneF(s, ds[i], i - 1) /\ op[<<s, i>>] \in LoopStates
  <2>1. <<s, i>> \in LoopStates \X (1 .. N) /\ <<s, i>>[1] = s /\ <<s, i>>[2] = i
    OBVIOUS
  <2>2. op[<<s, i>>] = CheckOneF(s, ds[i], i - 1)
    BY <2>1
  <2>3. ds[i] \in Errors /\ i - 1 \in Nat
    BY <1>1
  <2> HIDE DEF op
  <2> QED
    BY <2>2, <2>3, CheckedType
<1>5. CheckBegin \in LoopStates
  BY DEF CheckBegin, LoopStates, Errors
<1> HIDE DEF op
<1>6. PICK h : /\ \A i \in 0 .. N : h[i] \in LoopStates
               /\ h[0] = CheckBegin
               /\ \A i \in 1 .. N : h[i] = op[<<h[i - 1], i>>]
  <2>1. Turns(op, LoopStates, N)
    BY <1>4 DEF op, Turns
  <2>2. N \in Nat
    BY <1>1
  <2>3. \E h : RunOf(h, op, CheckBegin, LoopStates, N)
    BY <1>5, <2>1, <2>2, LoopRuns
  <2> QED
    BY <2>3 DEF RunOf
<1> DEFINE g == [i \in 0 .. N |-> h[i]]
<1>7. g = step(g)
  <2>1. ASSUME NEW i \in 0 .. N
        PROVE  g[i] = IF i = 0 THEN CheckBegin ELSE CheckOneF(g[i - 1], ds[i], i - 1)
    <3>1. CASE i = 0
      BY <1>6, <3>1
    <3>2. CASE i # 0
      <4>1. i \in 1 .. N /\ i - 1 \in 0 .. N
        BY <1>1, <3>2
      <4>2. h[i] = CheckOneF(h[i - 1], ds[i], i - 1)
        BY <1>4, <1>6, <4>1
      <4> QED
        BY <3>2, <4>1, <4>2
    <3> QED
      BY <3>1, <3>2
  <2>2. g = [i \in 0 .. N |-> g[i]]
    OBVIOUS
  <2> HIDE DEF g
  <2>3. g = [i \in 0 .. N |-> IF i = 0 THEN CheckBegin
                              ELSE CheckOneF(g[i - 1], ds[i], i - 1)]
    BY <2>1, <2>2
  <2> QED
    BY <1>3, <2>3
<1>8. m = step(m)
  BY <1>7, Zenon
<1> HIDE DEF m, g
<1>9. m = [i \in 0 .. N |-> IF i = 0 THEN CheckBegin
                            ELSE CheckOneF(m[i - 1], ds[i], i - 1)]
  BY <1>3, <1>8
<1>10. /\ m[0] = CheckBegin
       /\ \A i \in 1 .. N : m[i] = CheckOneF(m[i - 1], ds[i], i - 1)
  BY <1>1, <1>9
<1> QED
  BY <1>2, <1>10 DEF N

(* The errors of the first i elements.                                     *)
FirstOf(ds, i) == {ds[j] : j \in 1 .. i}

(* One more element in a set of errors.                                    *)
LEMMA LargestOfOneMore ==
  ASSUME NEW errs \in SUBSET Errors, NEW d \in Errors
  PROVE  Largest(errs \cup {d}) = Raise(Largest(errs), d)
<1> DEFINE l == Largest(errs)
           m == Largest(errs \cup {d})
<1>1. /\ l \in {0, Eps, Above}
      /\ l = 0 <=> errs \subseteq {NaN, 0}
      /\ l = Above <=> Above \in errs
  BY LargestOf
<1>2. /\ m \in {0, Eps, Above}
      /\ m = 0 <=> errs \cup {d} \subseteq {NaN, 0}
      /\ m = Above <=> Above \in errs \cup {d}
  <2>1. errs \cup {d} \in SUBSET Errors
    OBVIOUS
  <2> QED
    BY <2>1, LargestOf
<1> HIDE DEF l, m
<1>3. m = 0 <=> l = 0 /\ d \in {NaN, 0}
  BY <1>1, <1>2
<1>4. m = Above <=> l = Above \/ d = Above
  BY <1>1, <1>2
<1>5. m = Raise(l, d)
  BY <1>1, <1>2, <1>3, <1>4 DEF Raise, Gt, Errors, NaN, Eps, Above
<1> QED
  BY <1>5 DEF l, m

(* The first elements of an array, turn by turn.                           *)
LEMMA FirstOneMore ==
  ASSUME NEW ds \in Seq(Errors), NEW i \in 1 .. Len(ds)
  PROVE  /\ FirstOf(ds, i) = FirstOf(ds, i - 1) \cup {ds[i]}
         /\ FirstOf(ds, i - 1) \in SUBSET Errors /\ ds[i] \in Errors
         /\ Largest(FirstOf(ds, i)) = Raise(Largest(FirstOf(ds, i - 1)), ds[i])
<1>1. \A j \in 1 .. Len(ds) : ds[j] \in Errors
  OBVIOUS
<1>2. i \in Nat /\ 1 .. i = (1 .. i - 1) \cup {i} /\ 1 .. i - 1 \subseteq 1 .. Len(ds)
  OBVIOUS
<1>3. FirstOf(ds, i) = FirstOf(ds, i - 1) \cup {ds[i]}
  BY <1>2 DEF FirstOf
<1>4. FirstOf(ds, i - 1) \in SUBSET Errors /\ ds[i] \in Errors
  BY <1>1, <1>2 DEF FirstOf
<1> QED
  BY <1>3, <1>4, LargestOfOneMore

(* Among no elements the largest error is zero.                            *)
LEMMA FirstOfNone ==
  ASSUME NEW ds
  PROVE  Largest(FirstOf(ds, 0)) = 0
<1>1. FirstOf(ds, 0) = {} /\ {} \in SUBSET Errors
  BY DEF FirstOf
<1> QED
  BY <1>1, LargestOf

(* The first elements, as many as there are, are all of them.              *)
LEMMA AllOfThem ==
  ASSUME NEW ds \in Seq(Errors)
  PROVE  FirstOf(ds, Len(ds)) = ElementsOf(ds)
<1>1. DOMAIN ds = 1 .. Len(ds)
  OBVIOUS
<1> QED
  BY <1>1 DEF FirstOf, ElementsOf

(* A maximum is the largest of all the errors, whatever their number.      *)
LEMMA MaxErrIsLargest ==
  ASSUME NEW ds \in Seq(Errors)
  PROVE  MaxErr(ds) = Largest(ElementsOf(ds))
<1>1. PICK h : /\ h[0] = 0
               /\ \A i \in 1 .. Len(ds) : h[i] = Raise(h[i - 1], ds[i])
               /\ MaxErr(ds) = h[Len(ds)]
  BY MaxErrLoop
<1> DEFINE T == {i \in 0 .. Len(ds) : h[i] = Largest(FirstOf(ds, i))}
<1>2. Len(ds) \in Nat
  OBVIOUS
<1>3. 0 \in T
  BY <1>1, <1>2, FirstOfNone
<1>4. ASSUME NEW i \in 1 .. Len(ds), i - 1 \in T PROVE i \in T
  BY <1>1, <1>2, <1>4, FirstOneMore
<1>5. \A i \in 0 .. Len(ds) : i \in T
  <2> HIDE DEF T
  <2> QED
    BY <1>2, <1>3, <1>4, FromZero
<1>6. h[Len(ds)] = Largest(FirstOf(ds, Len(ds)))
  <2>1. Len(ds) \in T
    <3> HIDE DEF T
    <3> QED
      BY <1>2, <1>5
  <2> QED
    BY <2>1
<1> QED
  BY <1>1, <1>6, AllOfThem

(* What the two checks come to for the elements of a case.                 *)
HeaderChecksOf(ds) ==
  LET d == rvforge_check_array(ds)
      f == rvforge_check_array_f(ds)
      last == Len(ds)
  IN  /\ d.all_pass <=> \A i \in 1 .. last : ds[i] \in {0, Eps}
      /\ f.all_pass <=> NotMore(MaxErr(ds))
      /\ d.max_err = Largest(ElementsOf(ds))
      /\ f.max_err = IF \E i \in 1 .. last - 1 : ds[i] = Above
                     THEN ds[last] ELSE Largest(ElementsOf(ds))
      /\ \A r \in {d, f} : r.max_err # 0 => ds[r.max_idx + 1] = r.max_err

(* What rvforge_check_array says of an array: it passes if all elements    *)
(* are within the threshold, and knows the largest error and where it is.  *)
LEMMA CheckArrayIsRight ==
  ASSUME NEW ds \in Seq(Errors)
  PROVE  LET d == rvforge_check_array(ds) IN
         /\ d.all_pass <=> \A j \in 1 .. Len(ds) : ds[j] \in {0, Eps}
         /\ d.max_err = Largest(ElementsOf(ds))
         /\ d.max_err # 0 => ds[d.max_idx + 1] = d.max_err
<1>1. PICK h : /\ h[0] = CheckBegin
               /\ \A i \in 1 .. Len(ds) : h[i] = CheckOne(h[i - 1], ds[i], i - 1)
               /\ rvforge_check_array(ds) = h[Len(ds)]
  BY CheckArrayLoop
<1> DEFINE T == {i \in 0 .. Len(ds) :
                   /\ h[i].all_pass <=> \A j \in 1 .. i : ds[j] \in {0, Eps}
                   /\ h[i].max_err = Largest(FirstOf(ds, i))
                   /\ h[i].max_err # 0 => ds[h[i].max_idx + 1] = h[i].max_err}
<1>2. Len(ds) \in Nat
  OBVIOUS
<1>3. 0 \in T
  <2>1. h[0].all_pass = TRUE /\ h[0].max_err = 0
    BY <1>1 DEF CheckBegin
  <2> QED
    BY <1>2, <2>1, FirstOfNone
<1>4. ASSUME NEW i \in 1 .. Len(ds), i - 1 \in T PROVE i \in T
  <2> DEFINE s == h[i - 1]
             d == ds[i]
  <2>1. /\ s.all_pass <=> \A j \in 1 .. i - 1 : ds[j] \in {0, Eps}
        /\ s.max_err = Largest(FirstOf(ds, i - 1))
        /\ s.max_err # 0 => ds[s.max_idx + 1] = s.max_err
    BY <1>4
  <2>2. d \in Errors /\ Largest(FirstOf(ds, i)) = Raise(Largest(FirstOf(ds, i - 1)), d)
    BY FirstOneMore
  <2>3. /\ h[i].all_pass <=> s.all_pass /\ d \in {0, Eps}
        /\ h[i].max_err = Raise(s.max_err, d)
        /\ h[i].max_idx = IF Gt(d, s.max_err) THEN i - 1 ELSE s.max_idx
    <3>1. h[i] = CheckOne(s, d, i - 1)
      BY <1>1
    <3> HIDE DEF s, d
    <3> QED
      BY <2>2, <3>1, Checked
  <2>4. h[i].all_pass <=> \A j \in 1 .. i : ds[j] \in {0, Eps}
    <3>1. 1 .. i = (1 .. i - 1) \cup {i}
      BY <1>2
    <3> QED
      BY <2>1, <2>3, <3>1
  <2>5. h[i].max_err # 0 => ds[h[i].max_idx + 1] = h[i].max_err
    <3>1. (i - 1) + 1 = i
      BY <1>2
    <3> HIDE DEF s
    <3> QED
      BY <2>1, <2>3, <3>1 DEF Raise
  <2>6. i \in 0 .. Len(ds)
    BY <1>2
  <2> QED
    BY <2>1, <2>2, <2>3, <2>4, <2>5, <2>6
<1>5. \A i \in 0 .. Len(ds) : i \in T
  <2> HIDE DEF T
  <2> QED
    BY <1>2, <1>3, <1>4, FromZero
<1>6. Len(ds) \in T
  <2> HIDE DEF T
  <2> QED
    BY <1>2, <1>5
<1> QED
  BY <1>1, <1>6, AllOfThem

(* What rvforge_check_array_f says: it fails if an element is over the     *)
(* threshold, and once one is, the error it shows is the last.             *)
LEMMA CheckArrayFIsRight ==
  ASSUME NEW ds \in Seq(Errors)
  PROVE  LET f == rvforge_check_array_f(ds) IN
         /\ f.all_pass <=> \A j \in 1 .. Len(ds) : ds[j] # Above
         /\ f.max_err = IF \E j \in 1 .. Len(ds) - 1 : ds[j] = Above
                        THEN ds[Len(ds)] ELSE Largest(ElementsOf(ds))
         /\ f.max_err # 0 => ds[f.max_idx + 1] = f.max_err
<1>1. PICK h : /\ h[0] = CheckBegin
               /\ \A i \in 1 .. Len(ds) : h[i] = CheckOneF(h[i - 1], ds[i], i - 1)
               /\ rvforge_check_array_f(ds) = h[Len(ds)]
  BY CheckArrayFLoop
<1> DEFINE Over(i) == \E j \in 1 .. i : ds[j] = Above
           T == {i \in 0 .. Len(ds) :
                   /\ h[i].all_pass <=> ~Over(i)
                   /\ h[i].max_err = IF Over(i - 1) THEN ds[i] ELSE Largest(FirstOf(ds, i))
                   /\ h[i].max_err # 0 => ds[h[i].max_idx + 1] = h[i].max_err}
<1>2. Len(ds) \in Nat
  OBVIOUS
<1>3. 0 \in T
  <2>1. h[0].all_pass = TRUE /\ h[0].max_err = 0
    BY <1>1 DEF CheckBegin
  <2>2. ~Over(0) /\ ~Over(0 - 1)
    OBVIOUS
  <2> HIDE DEF Over
  <2> QED
    BY <1>2, <2>1, <2>2, FirstOfNone
<1>4. ASSUME NEW i \in 1 .. Len(ds), i - 1 \in T PROVE i \in T
  <2> DEFINE s == h[i - 1]
             d == ds[i]
  <2>1. /\ s.all_pass <=> ~Over(i - 1)
        /\ s.max_err = IF Over((i - 1) - 1) THEN ds[i - 1] ELSE Largest(FirstOf(ds, i - 1))
        /\ s.max_err # 0 => ds[s.max_idx + 1] = s.max_err
    <3> HIDE DEF Over
    <3> QED
      BY <1>4
  <2>2. d \in Errors /\ Largest(FirstOf(ds, i)) = Raise(Largest(FirstOf(ds, i - 1)), d)
    BY FirstOneMore
  <2>3. /\ h[i].all_pass <=> s.all_pass /\ d # Above
        /\ h[i].max_err = IF ~s.all_pass \/ Gt(d, s.max_err) THEN d ELSE s.max_err
        /\ h[i].max_idx = IF ~s.all_pass \/ Gt(d, s.max_err) THEN i - 1 ELSE s.max_idx
    <3>1. h[i] = CheckOneF(s, d, i - 1)
      BY <1>1
    <3> HIDE DEF s, d
    <3> QED
      BY <2>2, <3>1, Checked
  <2>4. Over(i) <=> Over(i - 1) \/ d = Above
    <3>1. 1 .. i = (1 .. i - 1) \cup {i}
      BY <1>2
    <3> QED
      BY <3>1
  <2>5. Over((i - 1) - 1) => Over(i - 1)
    <3>1. 1 .. (i - 1) - 1 \subseteq 1 .. i - 1
      BY <1>2
    <3> QED
      BY <3>1
  <2> HIDE DEF Over, s
  <2>6. h[i].max_err = IF Over(i - 1) THEN d ELSE Largest(FirstOf(ds, i))
    BY <2>1, <2>2, <2>3, <2>5 DEF Raise
  <2>7. h[i].max_err # 0 => ds[h[i].max_idx + 1] = h[i].max_err
    <3>1. (i - 1) + 1 = i
      BY <1>2
    <3> QED
      BY <2>1, <2>3, <3>1
  <2>8. i \in 0 .. Len(ds)
    BY <1>2
  <2> QED
    BY <2>1, <2>3, <2>4, <2>6, <2>7, <2>8
<1>5. \A i \in 0 .. Len(ds) : i \in T
  <2> HIDE DEF T
  <2> QED
    BY <1>2, <1>3, <1>4, FromZero
<1>6. Len(ds) \in T
  <2> HIDE DEF T
  <2> QED
    BY <1>2, <1>5
<1> QED
  BY <1>1, <1>6, AllOfThem

(* Both, for arrays of any length: rvforge_check_array passes exactly the  *)
(* arrays whose elements are all within the threshold; the one for floats  *)
(* fails exactly on an error over it, so that it passes a NaN, and shows   *)
(* the last error instead of the largest once an element has failed.       *)
THEOREM HeaderChecksOfAnyArray ==
  ASSUME NEW ds \in Seq(Errors)
  PROVE  HeaderChecksOf(ds)
<1> DEFINE d == rvforge_check_array(ds)
           f == rvforge_check_array_f(ds)
           l == Largest(ElementsOf(ds))
<1>1. /\ d.all_pass <=> \A j \in 1 .. Len(ds) : ds[j] \in {0, Eps}
      /\ d.max_err = l
      /\ d.max_err # 0 => ds[d.max_idx + 1] = d.max_err
  BY CheckArrayIsRight
<1>2. /\ f.all_pass <=> \A j \in 1 .. Len(ds) : ds[j] # Above
      /\ f.max_err = IF \E j \in 1 .. Len(ds) - 1 : ds[j] = Above THEN ds[Len(ds)] ELSE l
      /\ f.max_err # 0 => ds[f.max_idx + 1] = f.max_err
  BY CheckArrayFIsRight
<1>3. MaxErr(ds) = l
  BY MaxErrIsLargest
<1>4. /\ ElementsOf(ds) \in SUBSET Errors
      /\ Above \in ElementsOf(ds) <=> \E j \in 1 .. Len(ds) : ds[j] = Above
  <2>1. DOMAIN ds = 1 .. Len(ds) /\ \A j \in 1 .. Len(ds) : ds[j] \in Errors
    OBVIOUS
  <2> QED
    BY <2>1 DEF ElementsOf
<1>5. NotMore(l) <=> Above \notin ElementsOf(ds)
  <2>1. l \in {0, Eps, Above} /\ (l = Above <=> Above \in ElementsOf(ds))
    BY <1>4, LargestOf
  <2> HIDE DEF l
  <2> QED
    BY <2>1 DEF NotMore, Gt, NaN, Eps, Above
<1> HIDE DEF d, f, l
<1>6. f.all_pass <=> NotMore(MaxErr(ds))
  BY <1>2, <1>3, <1>4, <1>5
<1>7. \A r \in {d, f} : r.max_err # 0 => ds[r.max_idx + 1] = r.max_err
  BY <1>1, <1>2
<1> QED
  BY <1>1, <1>2, <1>6, <1>7 DEF HeaderChecksOf, d, f, l

(* Whatever a suite compared, the array checks of epsilon.h would have said *)
(* what HeaderChecks states of them: the one for floats passes a NaN, and  *)
(* loses the largest error once an element has failed.                     *)
THEOREM SuitesHeaderChecks == Spec => []HeaderChecks
<1>1. TypeOK => HeaderChecks
  <2> SUFFICES ASSUME TypeOK, got # <<>> PROVE HeaderChecksOf(got)
    BY DEF HeaderChecks, HeaderChecksOf
  <2>1. got \in Seq(Errors)
    BY DEF TypeOK
  <2> QED
    BY <2>1, HeaderChecksOfAnyArray
<1> QED
  BY <1>1, SuitesTypeCorrect, PTL

-----------------------------------------------------------------------------

(* The fields of a structure of two lanes.                                 *)
LEMMA FieldsOf ==
  ASSUME NEW x, NEW y
  PROVE  M128d(x, y).lo = x /\ M128d(x, y).hi = y
BY DEF M128d

(* The lanes of a structure of four, and its halves.                       *)
LEMMA LanesOf ==
  ASSUME NEW a, NEW b, NEW c, NEW d
  PROVE  /\ M256d(a, b, c, d)[0] = a /\ M256d(a, b, c, d)[1] = b
         /\ M256d(a, b, c, d)[2] = c /\ M256d(a, b, c, d)[3] = d
         /\ Half(M256d(a, b, c, d), 0) = M128d(a, b)
         /\ Half(M256d(a, b, c, d), 1) = M128d(c, d)
<1>1. M256d(a, b, c, d)[0] = a
  BY DEF M256d
<1>2. M256d(a, b, c, d)[1] = b
  BY DEF M256d
<1>3. M256d(a, b, c, d)[2] = c
  BY DEF M256d
<1>4. M256d(a, b, c, d)[3] = d
  BY DEF M256d
<1> QED
  BY <1>1, <1>2, <1>3, <1>4 DEF Half

(* The halves of any vector.                                               *)
LEMMA HalvesOf ==
  ASSUME NEW a
  PROVE  Half(a, 0) = M128d(a[0], a[1]) /\ Half(a, 1) = M128d(a[2], a[3])
BY DEF Half

(* What combines lanes does so within each half.                           *)
LEMMA LanesCombined ==
  ASSUME NEW a, NEW b, NEW h \in 0 .. 1
  PROVE  /\ Half(mm256_hadd_pd(a, b), h) = mm_hadd_pd(Half(a, h), Half(b, h))
         /\ Half(mm256_unpacklo_pd(a, b), h) = mm_unpacklo_pd(Half(a, h), Half(b, h))
         /\ Half(mm256_unpackhi_pd(a, b), h) = mm_unpackhi_pd(Half(a, h), Half(b, h))
         /\ Half(mm256_moveldup_pd(a), h) = mm_movedup_pd(Half(a, h))
         /\ Half(mm256_movehdup_pd(a), h) = mm_unpackhi_pd(Half(a, h), Half(a, h))
<1> DEFINE al == M128d(a[0], a[1])
           ah == M128d(a[2], a[3])
           bl == M128d(b[0], b[1])
           bh == M128d(b[2], b[3])
<1>1. Half(a, 0) = al /\ Half(a, 1) = ah /\ Half(b, 0) = bl /\ Half(b, 1) = bh
  BY HalvesOf
<1>2. /\ al.lo = a[0] /\ al.hi = a[1] /\ ah.lo = a[2] /\ ah.hi = a[3]
      /\ bl.lo = b[0] /\ bl.hi = b[1] /\ bh.lo = b[2] /\ bh.hi = b[3]
  BY FieldsOf
<1> HIDE DEF al, ah, bl, bh
<1>3. /\ Half(mm256_hadd_pd(a, b), 0) = mm_hadd_pd(al, bl)
      /\ Half(mm256_hadd_pd(a, b), 1) = mm_hadd_pd(ah, bh)
  BY <1>2, LanesOf DEF mm256_hadd_pd, mm_hadd_pd
<1>4. /\ Half(mm256_unpacklo_pd(a, b), 0) = mm_unpacklo_pd(al, bl)
      /\ Half(mm256_unpacklo_pd(a, b), 1) = mm_unpacklo_pd(ah, bh)
      /\ Half(mm256_unpackhi_pd(a, b), 0) = mm_unpackhi_pd(al, bl)
      /\ Half(mm256_unpackhi_pd(a, b), 1) = mm_unpackhi_pd(ah, bh)
  BY <1>2, LanesOf
     DEF mm256_unpacklo_pd, mm_unpacklo_pd, mm256_unpackhi_pd, mm_unpackhi_pd
<1>5. /\ Half(mm256_moveldup_pd(a), 0) = mm_movedup_pd(al)
      /\ Half(mm256_moveldup_pd(a), 1) = mm_movedup_pd(ah)
      /\ Half(mm256_movehdup_pd(a), 0) = mm_unpackhi_pd(al, al)
      /\ Half(mm256_movehdup_pd(a), 1) = mm_unpackhi_pd(ah, ah)
  BY <1>2, LanesOf
     DEF mm256_moveldup_pd, mm_movedup_pd, mm256_movehdup_pd, mm_unpackhi_pd
<1> QED
  BY <1>1, <1>3, <1>4, <1>5

(* addsub blends a difference and a sum; fmsub is fmadd less what it took  *)
(* for zero.                                                               *)
LEMMA SumsAgree ==
  ASSUME NEW a \in [0 .. 3 -> Int], NEW b \in [0 .. 3 -> Int]
  PROVE  /\ mm256_addsub_pd(a, b) =
              mm256_blend_pd(mm256_sub_pd(a, b), mm256_add_pd(a, b), 10)
         /\ mm256_fmsub_pd(a, b, b) =
              mm256_sub_pd(mm256_fmadd_pd(a, b, mm256_sub_pd(b, b)), b)
<1>1. Bit(10, 1) /\ Bit(10, 3) /\ ~Bit(10, 0) /\ ~Bit(10, 2)
  BY DEF Bit
<1>2. mm256_addsub_pd(a, b) =
        mm256_blend_pd(mm256_sub_pd(a, b), mm256_add_pd(a, b), 10)
  BY <1>1, LanesOf DEF mm256_addsub_pd, mm256_blend_pd, mm256_sub_pd, mm256_add_pd
<1>3. ASSUME NEW i \in 0 .. 3
      PROVE  fma(a[i], b[i], -b[i]) = fma(a[i], b[i], b[i] - b[i]) - b[i]
  BY DEF fma
<1>4. mm256_fmsub_pd(a, b, b) =
        mm256_sub_pd(mm256_fmadd_pd(a, b, mm256_sub_pd(b, b)), b)
  BY <1>3, LanesOf DEF mm256_fmsub_pd, mm256_sub_pd, mm256_fmadd_pd
<1> QED
  BY <1>2, <1>4

(* The bits of the second half of an immediate are those of the first half *)
(* of it shifted.                                                          *)
LEMMA ShiftedBits ==
  ASSUME NEW imm8 \in Nat
  PROVE  /\ Bit(imm8 \div 4^0, 0) = Bit(imm8, 0) /\ Bit(imm8 \div 4^0, 1) = Bit(imm8, 1)
         /\ Bit(imm8 \div 4^1, 0) = Bit(imm8, 2) /\ Bit(imm8 \div 4^1, 1) = Bit(imm8, 3)
         /\ (imm8 \div 16^0) % 2 = IF Bit(imm8, 0) THEN 1 ELSE 0
         /\ (imm8 \div 16^1) % 2 = IF Bit(imm8, 4) THEN 1 ELSE 0
<1>1. /\ imm8 \div 4^0 = imm8 /\ imm8 \div 4^1 = imm8 \div 4
      /\ imm8 \div 16^0 = imm8 /\ imm8 \div 16^1 = imm8 \div 16
  OBVIOUS
<1>2. /\ imm8 \div 2^0 = imm8 /\ (imm8 \div 4) \div 2^0 = imm8 \div 2^2
      /\ (imm8 \div 4) \div 2^1 = imm8 \div 2^3 /\ imm8 \div 2^4 = imm8 \div 16
  OBVIOUS
<1>3. /\ Bit(imm8 \div 4^1, 0) = Bit(imm8, 2)
      /\ Bit(imm8 \div 4^1, 1) = Bit(imm8, 3)
  BY <1>1, <1>2 DEF Bit
<1>4. /\ (imm8 \div 16^0) % 2 = IF Bit(imm8, 0) THEN 1 ELSE 0
      /\ (imm8 \div 16^1) % 2 = IF Bit(imm8, 4) THEN 1 ELSE 0
  BY <1>1, <1>2 DEF Bit
<1> QED
  BY <1>1, <1>3, <1>4

(* A blend is a shuffle of each half; a permutation takes a whole half.    *)
LEMMA ChoicesAgree ==
  ASSUME NEW a, NEW b, NEW imm8 \in Nat, NEW h \in 0 .. 1
  PROVE  /\ Half(mm256_blend_pd(a, b, imm8), h) =
              mm_shuffle_pd(M128d(a[2 * h], b[2 * h]), M128d(a[2 * h + 1], b[2 * h + 1]),
                            imm8 \div 4^h)
         /\ Half(mm256_permute2f128_pd(a, b, imm8), h) =
              mm256_extractf128_pd(IF Bit(imm8, 4 * h + 1) THEN b ELSE a,
                                   (imm8 \div 16^h) % 2)
<1>1. CASE h = 0
  <2>1. Half(mm256_blend_pd(a, b, imm8), 0) =
          mm_shuffle_pd(M128d(a[0], b[0]), M128d(a[1], b[1]), imm8 \div 4^0)
    BY ShiftedBits, LanesOf, FieldsOf DEF mm256_blend_pd, mm_shuffle_pd
  <2>2. Half(mm256_permute2f128_pd(a, b, imm8), 0) =
          mm256_extractf128_pd(IF Bit(imm8, 1) THEN b ELSE a, (imm8 \div 16^0) % 2)
    BY ShiftedBits, LanesOf DEF mm256_permute2f128_pd, mm256_extractf128_pd
  <2> QED
    BY <1>1, <2>1, <2>2
<1>2. CASE h = 1
  <2>1. Half(mm256_blend_pd(a, b, imm8), 1) =
          mm_shuffle_pd(M128d(a[2], b[2]), M128d(a[3], b[3]), imm8 \div 4^1)
    BY ShiftedBits, LanesOf, FieldsOf DEF mm256_blend_pd, mm_shuffle_pd
  <2>2. Half(mm256_permute2f128_pd(a, b, imm8), 1) =
          mm256_extractf128_pd(IF Bit(imm8, 5) THEN b ELSE a, (imm8 \div 16^1) % 2)
    BY ShiftedBits, LanesOf DEF mm256_permute2f128_pd, mm256_extractf128_pd
  <2> QED
    BY <1>2, <2>1, <2>2
<1> QED
  BY <1>1, <1>2

(* What was inserted is extracted again, and the other half is kept.       *)
LEMMA InsertedIsExtracted ==
  ASSUME NEW a \in [0 .. 3 -> Int], NEW b \in [0 .. 3 -> Int], NEW i \in 0 .. 1
  PROVE  LET r == mm256_insertf128_pd(a, Half(b, i), i) IN
         /\ mm256_extractf128_pd(r, i) = Half(b, i)
         /\ mm256_extractf128_pd(r, 1 - i) = Half(a, 1 - i)
<1> DEFINE r == mm256_insertf128_pd(a, Half(b, i), i)
<1>1. Half(b, i).lo = b[2 * i] /\ Half(b, i).hi = b[2 * i + 1]
  BY FieldsOf DEF Half
<1>2. r = [a EXCEPT ![i * 2] = b[2 * i], ![i * 2 + 1] = b[2 * i + 1]]
  BY <1>1 DEF mm256_insertf128_pd
<1> HIDE DEF r
<1>3. /\ r[i * 2] = b[2 * i] /\ r[i * 2 + 1] = b[2 * i + 1]
      /\ r[(1 - i) * 2] = a[2 * (1 - i)] /\ r[(1 - i) * 2 + 1] = a[2 * (1 - i) + 1]
  BY <1>2
<1> QED
  BY <1>3 DEF mm256_extractf128_pd, Half, r

(* set takes the lanes from the highest to the lowest.                     *)
LEMMA SetRestores ==
  ASSUME NEW a \in [0 .. 3 -> Int]
  PROVE  mm256_set_pd(a[3], a[2], a[1], a[0]) = a
BY DEF mm256_set_pd, M256d

(* For every vector of integers and every immediate, the intrinsics of 256 *)
(* bits do in each half what those of 128 bits do.                         *)
THEOREM IntrinsicsAgreeByHalves ==
  ASSUME NEW a \in [0 .. 3 -> Int], NEW b \in [0 .. 3 -> Int], NEW imm8 \in Nat
  PROVE  LanesAgree(a, b, imm8)
<1>1. /\ ByHalves(mm256_hadd_pd(a, b), LAMBDA h : mm_hadd_pd(Half(a, h), Half(b, h)))
      /\ ByHalves(mm256_unpacklo_pd(a, b), LAMBDA h : mm_unpacklo_pd(Half(a, h), Half(b, h)))
      /\ ByHalves(mm256_unpackhi_pd(a, b), LAMBDA h : mm_unpackhi_pd(Half(a, h), Half(b, h)))
      /\ ByHalves(mm256_moveldup_pd(a), LAMBDA h : mm_movedup_pd(Half(a, h)))
      /\ ByHalves(mm256_movehdup_pd(a), LAMBDA h : mm_unpackhi_pd(Half(a, h), Half(a, h)))
  BY LanesCombined DEF ByHalves
<1>2. /\ ByHalves(mm256_blend_pd(a, b, imm8),
           LAMBDA h : LET c == M128d(a[2 * h], b[2 * h])
                          d == M128d(a[2 * h + 1], b[2 * h + 1])
                      IN  mm_shuffle_pd(c, d, imm8 \div 4^h))
      /\ ByHalves(mm256_permute2f128_pd(a, b, imm8),
           LAMBDA h : mm256_extractf128_pd(IF Bit(imm8, 4 * h + 1) THEN b ELSE a,
                                           (imm8 \div 16^h) % 2))
  BY ChoicesAgree DEF ByHalves
<1> QED
  BY <1>1, <1>2, SumsAgree, InsertedIsExtracted, SetRestores DEF LanesAgree, ByHalves

(* The audit of simd_audit_report tries four immediates; its intrinsics    *)
(* agree half by half at all the others as well.                           *)
THEOREM SuitesIntrinsicsAgree == Spec => []IntrinsicsAgree
<1>1. IntrinsicsAgree
  <2>1. /\ M256d(2, 3, 5, 7) \in [0 .. 3 -> Int]
        /\ M256d(11, 13, 17, 19) \in [0 .. 3 -> Int]
    BY DEF M256d
  <2> QED
    BY <2>1, IntrinsicsAgreeByHalves DEF IntrinsicsAgree
<1> QED
  BY <1>1, PTL
=============================================================================
