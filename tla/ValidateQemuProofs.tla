--------------------------- MODULE ValidateQemuProofs ---------------------------
(***************************************************************************)
(* For any number of suites, any programs and any number of runs over the  *)
(* same directories: the exit code and the report of validate_qemu.sh say  *)
(* of this run what they seem to say, and its diffs find what they should, *)
(* for outputs of any length.                                              *)
(***************************************************************************)
EXTENDS ValidateQemu, FiniteSetTheorems, SequenceTheorems, WellFoundedInduction, TLAPS

(* How far the loops of a run are with a suite.                            *)
AfterQemu   == {"diff", "report", "exit"}
AfterNative == AfterQemu \cup {"qemu", "status", "crash"}
AfterAudit  == AfterNative \cup {"native"}

Audited(s)       == pc \in AfterAudit \/ (pc = "audit" /\ s < k)
NativeRun(s)     == pc \in AfterNative \/ (pc = "native" /\ s < k)
Tried(s)         == pc \in AfterQemu \/ (pc \in {"qemu", "status", "crash"} /\ s < k)
QemuRun(s)       == Tried(s) \/ (pc \in {"status", "crash"} /\ s = k)
StatusChecked(s) == Tried(s) \/ (pc = "crash" /\ s = k)
Diffed(s)        == pc \in {"report", "exit"} \/ (pc = "diff" /\ s < k)

(* What a stage that is done with a suite has found, as long as the        *)
(* verdict is good, ...                                                    *)
AuditFound ==
  \A s \in Suites : Audited(s) /\ OVERALL_RC = 0 => \A p \in built[s] : ~p.x86

NativeFound ==
  \A s \in Suites : NativeRun(s) =>
    /\ \A n \in native[s] :
         x86File[s] = {[run |-> run, available |-> TRUE, output |-> n]}
    /\ \A x \in x86File[s] : x.available => x.output \in native[s]

QemuFound ==
  \A s \in Suites : QemuRun(s) =>
    \A p \in built[s] :
      /\ riscvFile[s] = {[run |-> run, program |-> p]}
      /\ BINARY_RC[s] = {p.rc}
      /\ OVERALL_RC = 0 => p.rc = 0

(* ... or else the run has ended.                                          *)
ChecksFound ==
  \A s \in Suites : \A p \in built[s] :
    /\ StatusChecked(s) => p.status # "fail"
    /\ Tried(s) => ~p.crash

DiffFound ==
  \A s \in Suites : Diffed(s) /\ OVERALL_RC = 0 =>
    \A p \in built[s] : \A n \in native[s] : Agree(n, p.output)

(* A result file is overwritten, never added to.                           *)
OneOutput ==
  \A s \in Suites :
    /\ \A x \in x86File[s], y \in x86File[s] : x = y
    /\ \A f \in riscvFile[s], g \in riscvFile[s] : f = g

(* The diff of a suite that is done with is that of the outputs there are. *)
DiffIsCurrent ==
  \A s \in Suites : Diffed(s) =>
    \A x \in x86File[s], f \in riscvFile[s] :
      x.available =>
        \E d \in diffFile[s] :
          d.run = run /\ (d.passed <=> Agree(x.output, f.program.output))

(* A bad verdict has a cause.                                              *)
VerdictHasCause ==
  pc \notin Ended \cup {"idle"} /\ OVERALL_RC = 1 =>
    \/ \E s \in Suites : \E p \in built[s] : Misbehaves(p)
    \/ \E s \in Suites :
         /\ Diffed(s)
         /\ \E n \in native[s], f \in riscvFile[s] : ~Agree(n, f.program.output)

(* There is a report of this run only once it is written.                  *)
ReportAtTheEnd ==
  /\ \A r \in report : r.run = run => pc \in {"exit", "exited", "idle"}
  /\ pc = "exit" =>
       \E r \in report : report = {r} /\ r.run = run /\ (r.passed <=> OVERALL_RC = 0)

(* A run starts at the first suite, and the files are kept by suite.       *)
Shape ==
  /\ pc # "idle" => run > 0
  /\ pc = "prerequisites" => k = 1
  /\ DOMAIN x86File = Suites
  /\ DOMAIN riscvFile = Suites
  /\ DOMAIN diffFile = Suites
  /\ DOMAIN BINARY_RC = Suites

(* What is checked has been run.                                           *)
SuiteIsBuilt == pc \in {"status", "crash"} => built[k] # {}

Found == AuditFound /\ NativeFound /\ QemuFound /\ ChecksFound /\ DiffFound

IInv ==
  /\ TypeOK
  /\ Shape
  /\ SuiteIsBuilt
  /\ Found
  /\ OneOutput
  /\ DiffIsCurrent
  /\ PassIsEarned
  /\ VerdictHasCause
  /\ FailureIsReal
  /\ ReportAtTheEnd
  /\ ReportMatchesExit
  /\ ReportIsComplete

-----------------------------------------------------------------------------

(* The numbers among the constants.                                        *)
LEMMA Bounds == LastSuite \in Nat \ {0} /\ MaxRuns \in Nat
BY ValidateAssumption

(* The loops visit every suite.                                            *)
LEMMA AdvanceSuite ==
  ASSUME k \in Suites, NEW loop, NEW next, Advance(loop, next)
  PROVE  /\ k' \in Suites
         /\ \/ pc' = loop /\ \A s \in Suites : s < k' => s < k \/ s = k
            \/ pc' = next /\ k' = 1 /\ \A s \in Suites : s < k \/ s = k
BY Bounds DEF Advance, Suites

(* A thing that may be absent is at most one.                              *)
LEMMA MaybeOne ==
  ASSUME NEW S, NEW m \in Maybe(S), NEW x \in m
  PROVE  m = {x} /\ x \in S
BY DEF Maybe

(* The initial states satisfy the invariant: there has been no run.        *)
LEMMA InitIInv == Init => IInv
<1> SUFFICES ASSUME Init PROVE IInv
  OBVIOUS
<1>1. k \in Suites /\ run \in 0 .. MaxRuns
  BY Bounds DEF Init, Suites
<1>2. TypeOK
  BY <1>1 DEF Init, TypeOK, Maybe
<1>3. Shape /\ SuiteIsBuilt
  BY DEF Init, Shape, SuiteIsBuilt
<1>4. Found
  BY DEF Init, Found, AuditFound, NativeFound, QemuFound, ChecksFound, DiffFound,
         Audited, NativeRun, Tried, QemuRun, StatusChecked, Diffed,
         AfterQemu, AfterNative, AfterAudit
<1>5. OneOutput /\ DiffIsCurrent
  BY DEF Init, OneOutput, DiffIsCurrent, Diffed
<1>6. PassIsEarned /\ VerdictHasCause /\ FailureIsReal
  BY DEF Init, PassIsEarned, VerdictHasCause, FailureIsReal, Ended
<1>7. ReportAtTheEnd /\ ReportMatchesExit /\ ReportIsComplete
  BY DEF Init, ReportAtTheEnd, ReportMatchesExit, ReportIsComplete
<1> QED
  BY <1>2, <1>3, <1>4, <1>5, <1>6, <1>7 DEF IInv

-----------------------------------------------------------------------------

(* Induction over the positions of a sequence, from the well-foundedness   *)
(* of < : a set that holds 1, and i + 1 with every i, holds them all.      *)
LEMMA UpTo ==
  ASSUME NEW N \in Nat, NEW T, N # 0 => 1 \in T,
         \A i \in 1 .. N - 1 : i \in T => i + 1 \in T
  PROVE  \A i \in 1 .. N : i \in T
<1> DEFINE R == {ss \in Nat \X Nat : ss[1] < ss[2]}
           U == {i \in 1 .. N : i \notin T}
<1>1. IsWellFoundedOn(R, Nat)
  BY NatLessThanWellFounded DEF OpToRel
<1>2. \A m \in Nat, n \in Nat : <<n, m>> \in R <=> n < m
  OBVIOUS
<1>3. U \subseteq Nat
  OBVIOUS
<1>4. ASSUME NEW m \in U, \A n \in U : ~(n < m) PROVE FALSE
  <2>1. CASE m = 1
    BY <2>1
  <2>2. CASE m # 1
    <3>1. m - 1 \in 1 .. N - 1 /\ m - 1 < m /\ m = (m - 1) + 1 /\ m \notin T
      BY <2>2
    <3>2. m - 1 \in U
      <4>1. m - 1 \notin T
        BY <3>1
      <4>2. m - 1 \in 1 .. N
        BY <3>1
      <4> QED
        BY <4>1, <4>2
    <3> QED
      BY <1>4, <3>1, <3>2
  <2> QED
    BY <2>1, <2>2
<1>5. ASSUME U # {} PROVE FALSE
  <2> HIDE DEF R, U
  <2>1. \E m \in U : \A n \in U : <<n, m>> \notin R
    BY <1>1, <1>3, <1>5, WFMin
  <2> QED
    BY <1>2, <1>3, <1>4, <2>1
<1> QED
  BY <1>5

(* What FlattenSeq defines by recursion, up to position n.                 *)
Step(seqs, n, g) ==
  [i \in 1 .. n |-> IF i = 1 THEN seqs[i] ELSE g[i - 1] \o seqs[i]]

(* There is such a function.                                               *)
LEMMA StepsExist ==
  ASSUME NEW seqs, NEW N \in Nat
  PROVE  \A n \in 1 .. N : \E g : g = Step(seqs, n, g)
<1> DEFINE T == {n \in 1 .. N : \E g : g = Step(seqs, n, g)}
<1>1. ASSUME N # 0 PROVE 1 \in T
  <2> DEFINE h == [i \in 1 .. 1 |-> seqs[i]]
  <2>1. h = Step(seqs, 1, h)
    BY DEF Step
  <2>2. \E g : g = Step(seqs, 1, g)
    BY <2>1, Zenon
  <2>3. 1 \in 1 .. N
    BY <1>1
  <2> QED
    BY <2>2, <2>3
<1>2. ASSUME NEW m \in 1 .. N - 1, m \in T PROVE m + 1 \in T
  <2>1. PICK g : g = Step(seqs, m, g)
    BY <1>2
  <2> DEFINE h == [i \in 1 .. m + 1 |-> IF i = 1 THEN seqs[i] ELSE g[i - 1] \o seqs[i]]
  <2>2. ASSUME NEW i \in 1 .. m PROVE h[i] = g[i]
    <3>1. i \in 1 .. m + 1
      BY <1>2
    <3>2. h[i] = IF i = 1 THEN seqs[i] ELSE g[i - 1] \o seqs[i]
      BY <3>1
    <3>3. Step(seqs, m, g)[i] = IF i = 1 THEN seqs[i] ELSE g[i - 1] \o seqs[i]
      BY DEF Step
    <3> HIDE DEF h
    <3> QED
      BY <2>1, <3>2, <3>3
  <2>3. ASSUME NEW i \in 1 .. m + 1, i # 1 PROVE h[i - 1] = g[i - 1]
    <3>1. i - 1 \in 1 .. m
      BY <1>2, <2>3
    <3> HIDE DEF h
    <3> QED
      BY <2>2, <3>1
  <2>4. ASSUME NEW i \in 1 .. m + 1
        PROVE  h[i] = IF i = 1 THEN seqs[i] ELSE h[i - 1] \o seqs[i]
    <3>1. h[i] = IF i = 1 THEN seqs[i] ELSE g[i - 1] \o seqs[i]
      OBVIOUS
    <3> HIDE DEF h
    <3> QED
      BY <2>3, <3>1
  <2>5. h = Step(seqs, m + 1, h)
    <3>1. h = [i \in 1 .. m + 1 |-> h[i]]
      OBVIOUS
    <3> HIDE DEF h
    <3> QED
      BY <2>4, <3>1 DEF Step
  <2>6. \E f : f = Step(seqs, m + 1, f)
    BY <2>5, Zenon
  <2>7. m + 1 \in 1 .. N
    BY <1>2
  <2> QED
    BY <2>6, <2>7
<1>3. \A n \in 1 .. N : n \in T
  <2> HIDE DEF T
  <2> QED
    BY <1>1, <1>2, UpTo
<1> QED
  BY <1>3

(* FlattenSeq appends one sequence after the other.                        *)
LEMMA FlattenedByPrefix ==
  ASSUME NEW S, NEW seqs \in Seq(Seq(S)), Len(seqs) # 0
  PROVE  \E g :
           /\ \A i \in 1 .. Len(seqs) : g[i] \in Seq(S)
           /\ g[1] = seqs[1]
           /\ \A i \in 1 .. Len(seqs) - 1 : g[i + 1] = g[i] \o seqs[i + 1]
           /\ FlattenSeq(seqs) = g[Len(seqs)]
<1> DEFINE f == CHOOSE g : g = Step(seqs, Len(seqs), g)
           T == {i \in 1 .. Len(seqs) : f[i] \in Seq(S)}
<1>1. Len(seqs) \in Nat \ {0} /\ \A i \in 1 .. Len(seqs) : seqs[i] \in Seq(S)
  OBVIOUS
<1>2. \E g : g = Step(seqs, Len(seqs), g)
  <2>1. \A n \in 1 .. Len(seqs) : \E g : g = Step(seqs, n, g)
    BY <1>1, StepsExist
  <2>2. Len(seqs) \in 1 .. Len(seqs)
    BY <1>1
  <2> HIDE DEF f, T
  <2> QED
    BY <2>1, <2>2
<1>3. f = Step(seqs, Len(seqs), f)
  BY <1>2, Zenon
<1>4. FlattenSeq(seqs) = f[Len(seqs)]
  BY DEF FlattenSeq, Step
<1> HIDE DEF f
<1>5. f[1] = seqs[1]
  BY <1>1, <1>3 DEF Step
<1>6. ASSUME NEW i \in 1 .. Len(seqs) - 1 PROVE f[i + 1] = f[i] \o seqs[i + 1]
  <2>1. i + 1 \in 1 .. Len(seqs) /\ i + 1 # 1 /\ (i + 1) - 1 = i
    BY <1>1
  <2>2. Step(seqs, Len(seqs), f)[i + 1] = f[(i + 1) - 1] \o seqs[i + 1]
    BY <2>1 DEF Step
  <2> QED
    BY <1>3, <2>1, <2>2
<1>7. 1 \in T
  BY <1>1, <1>5
<1>8. ASSUME NEW i \in 1 .. Len(seqs) - 1, i \in T PROVE i + 1 \in T
  <2>1. i + 1 \in 1 .. Len(seqs) /\ f[i] \in Seq(S)
    BY <1>1, <1>8
  <2>2. seqs[i + 1] \in Seq(S)
    BY <1>1, <2>1
  <2>3. f[i] \o seqs[i + 1] \in Seq(S)
    BY <2>1, <2>2
  <2> QED
    BY <1>6, <2>1, <2>3
<1>9. \A i \in 1 .. Len(seqs) : i \in T
  <2> HIDE DEF T
  <2> QED
    BY <1>1, <1>7, <1>8, UpTo
<1> QED
  BY <1>4, <1>5, <1>6, <1>9

-----------------------------------------------------------------------------

(* Two lists of numbers pair off, and no pair differs.                     *)
Even(a, b) ==
  Len(a) = Len(b) /\ \A i \in 1 .. Len(a) : a[i].value = b[i].value

(* So do two lists in two parts that pair off.                             *)
LEMMA EvenParts ==
  ASSUME NEW S, NEW a \in Seq(S), NEW b \in Seq(S), NEW c \in Seq(S), NEW d \in Seq(S),
         Len(a) = Len(b), Len(c) = Len(d)
  PROVE  /\ Len(a \o c) = Len(b \o d)
         /\ Even(a \o c, b \o d) <=> Even(a, b) /\ Even(c, d)
<1>1. /\ Len(a \o c) = Len(a) + Len(c) /\ Len(b \o d) = Len(a) + Len(c)
      /\ Len(a) \in Nat /\ Len(c) \in Nat
  <2>1. Len(a) \in Nat /\ Len(c) \in Nat
    OBVIOUS
  <2>2. Len(a \o c) = Len(a) + Len(c)
    OBVIOUS
  <2>3. Len(b \o d) = Len(b) + Len(d)
    OBVIOUS
  <2> QED
    BY <2>1, <2>2, <2>3
<1>2. \A i \in 1 .. Len(a) : (a \o c)[i] = a[i] /\ (b \o d)[i] = b[i]
  OBVIOUS
<1>3. ASSUME NEW i \in 1 .. Len(c)
      PROVE  (a \o c)[Len(a) + i] = c[i] /\ (b \o d)[Len(a) + i] = d[i]
  OBVIOUS
<1>4. ASSUME Even(a \o c, b \o d) PROVE Even(a, b) /\ Even(c, d)
  <2>1. ASSUME NEW i \in 1 .. Len(a) PROVE a[i].value = b[i].value
    <3>1. i \in 1 .. Len(a \o c)
      BY <1>1
    <3> QED
      BY <1>2, <1>4, <3>1 DEF Even
  <2>2. ASSUME NEW i \in 1 .. Len(c) PROVE c[i].value = d[i].value
    <3>1. Len(a) + i \in 1 .. Len(a \o c)
      BY <1>1
    <3> QED
      BY <1>3, <1>4, <3>1 DEF Even
  <2> QED
    BY <2>1, <2>2 DEF Even
<1>5. ASSUME Even(a, b), Even(c, d) PROVE Even(a \o c, b \o d)
  <2> SUFFICES ASSUME NEW i \in 1 .. Len(a \o c)
               PROVE  (a \o c)[i].value = (b \o d)[i].value
    BY <1>1 DEF Even
  <2>1. CASE i <= Len(a)
    <3>1. i \in 1 .. Len(a)
      BY <1>1, <2>1
    <3> QED
      BY <1>2, <1>5, <3>1 DEF Even
  <2>2. CASE i > Len(a)
    <3>1. i - Len(a) \in 1 .. Len(c) /\ Len(a) + (i - Len(a)) = i
      BY <1>1, <2>2
    <3> QED
      BY <1>3, <1>5, <3>1 DEF Even
  <2> QED
    BY <1>1, <2>1, <2>2
<1> QED
  BY <1>1, <1>4, <1>5

(* And two lists of lists that pair off one by one.                        *)
LEMMA EvenFlattened ==
  ASSUME NEW S, NEW s \in Seq(Seq(S)), NEW t \in Seq(Seq(S)),
         Len(s) = Len(t), \A n \in 1 .. Len(s) : Len(s[n]) = Len(t[n])
  PROVE  /\ Len(FlattenSeq(s)) = Len(FlattenSeq(t))
         /\ FlattenSeq(s) \in Seq(S) /\ FlattenSeq(t) \in Seq(S)
         /\ Even(FlattenSeq(s), FlattenSeq(t)) <=>
              \A n \in 1 .. Len(s) : Even(s[n], t[n])
<1>1. /\ Len(s) \in Nat
      /\ \A n \in 1 .. Len(s) : s[n] \in Seq(S) /\ t[n] \in Seq(S)
  OBVIOUS
<1>2. CASE Len(s) = 0
  <2>1. s = <<>> /\ t = <<>>
    BY <1>2, EmptySeq
  <2>2. FlattenSeq(s) = <<>> /\ FlattenSeq(t) = <<>>
    BY <1>2, <2>1 DEF FlattenSeq
  <2> QED
    BY <1>2, <2>2 DEF Even
<1>3. CASE Len(s) # 0
  <2>1. PICK g :
          /\ \A i \in 1 .. Len(s) : g[i] \in Seq(S)
          /\ g[1] = s[1]
          /\ \A i \in 1 .. Len(s) - 1 : g[i + 1] = g[i] \o s[i + 1]
          /\ FlattenSeq(s) = g[Len(s)]
    BY <1>3, FlattenedByPrefix
  <2>2. PICK h :
          /\ \A i \in 1 .. Len(t) : h[i] \in Seq(S)
          /\ h[1] = t[1]
          /\ \A i \in 1 .. Len(t) - 1 : h[i + 1] = h[i] \o t[i + 1]
          /\ FlattenSeq(t) = h[Len(t)]
    <3>1. Len(t) # 0
      BY <1>3
    <3> QED
      BY <3>1, FlattenedByPrefix
  <2> DEFINE T == {i \in 1 .. Len(s) :
                     /\ Len(g[i]) = Len(h[i])
                     /\ Even(g[i], h[i]) <=> \A n \in 1 .. i : Even(s[n], t[n])}
  <2>3. 1 \in T
    <3>1. 1 \in 1 .. Len(s) /\ 1 .. 1 = {1}
      BY <1>1, <1>3
    <3> QED
      BY <2>1, <2>2, <3>1
  <2>4. ASSUME NEW i \in 1 .. Len(s) - 1, i \in T PROVE i + 1 \in T
    <3>1. /\ i \in 1 .. Len(s) /\ i + 1 \in 1 .. Len(s)
          /\ 1 .. i + 1 = (1 .. i) \cup {i + 1}
      BY <1>1
    <3>2. /\ g[i] \in Seq(S) /\ h[i] \in Seq(S)
          /\ s[i + 1] \in Seq(S) /\ t[i + 1] \in Seq(S)
          /\ Len(g[i]) = Len(h[i]) /\ Len(s[i + 1]) = Len(t[i + 1])
      BY <1>1, <2>1, <2>2, <2>4, <3>1
    <3>3. /\ Len(g[i + 1]) = Len(h[i + 1])
          /\ Even(g[i + 1], h[i + 1]) <=> Even(g[i], h[i]) /\ Even(s[i + 1], t[i + 1])
      <4>1. g[i + 1] = g[i] \o s[i + 1] /\ h[i + 1] = h[i] \o t[i + 1]
        BY <2>1, <2>2
      <4>2. /\ Len(g[i] \o s[i + 1]) = Len(h[i] \o t[i + 1])
            /\ Even(g[i] \o s[i + 1], h[i] \o t[i + 1]) <=>
                 Even(g[i], h[i]) /\ Even(s[i + 1], t[i + 1])
        BY <3>2, EvenParts
      <4> QED
        BY <4>1, <4>2
    <3>4. Even(g[i], h[i]) <=> \A n \in 1 .. i : Even(s[n], t[n])
      BY <2>4
    <3>5. Even(g[i + 1], h[i + 1]) <=> \A n \in 1 .. i + 1 : Even(s[n], t[n])
      BY <3>1, <3>3, <3>4
    <3> QED
      BY <3>1, <3>3, <3>5
  <2>5. \A i \in 1 .. Len(s) : i \in T
    <3> HIDE DEF T
    <3> QED
      BY <1>1, <2>3, <2>4, UpTo
  <2>6. Len(s) \in T /\ Len(s) \in 1 .. Len(s)
    <3>1. Len(s) \in 1 .. Len(s)
      BY <1>1, <1>3
    <3> HIDE DEF T
    <3> QED
      BY <2>5, <3>1
  <2> QED
    BY <2>1, <2>2, <2>6
<1> QED
  BY <1>2, <1>3

-----------------------------------------------------------------------------

(* Two lines have numbers of the same forms in the same fields.            *)
SameFields(l, m) ==
  /\ Len(l.fields) = Len(m.fields)
  /\ \A i \in 1 .. Len(l.fields) :
       /\ l.fields[i].form = m.fields[i].form
       /\ l.fields[i].value = <<>> <=> m.fields[i].value = <<>>

(* A list of one.                                                          *)
LEMMA EvenOfOne ==
  ASSUME NEW f, NEW g
  PROVE  Len(<<f>>) = Len(<<g>>) /\ (Even(<<f>>, <<g>>) <=> f.value = g.value)
<1>1. Len(<<f>>) = 1 /\ Len(<<g>>) = 1 /\ <<f>>[1] = f /\ <<g>>[1] = g
  OBVIOUS
<1> QED
  BY <1>1 DEF Even

(* One pattern finds the same fields in both, and sees all of their        *)
(* differences in these.                                                   *)
LEMMA MatchesPairOff ==
  ASSUME NEW l \in LineType, NEW m \in LineType, SameFields(l, m), NEW forms
  PROVE  /\ Len(Matches(l, forms)) = Len(Matches(m, forms))
         /\ Matches(l, forms) \in Seq(FieldType) /\ Matches(m, forms) \in Seq(FieldType)
         /\ Even(Matches(l, forms), Matches(m, forms)) <=>
              \A i \in 1 .. Len(l.fields) :
                l.fields[i].form \in forms => l.fields[i].value = m.fields[i].value
<1> DEFINE found(line) ==
             [i \in 1 .. Len(line.fields) |->
                IF line.fields[i].form \in forms /\ line.fields[i].value # <<>>
                THEN <<line.fields[i]>> ELSE <<>>]
           s == found(l)
           t == found(m)
<1>1. /\ l.fields \in Seq(FieldType) /\ m.fields \in Seq(FieldType)
      /\ Len(l.fields) \in Nat /\ Len(m.fields) = Len(l.fields)
  BY DEF LineType, SameFields
<1>2. ASSUME NEW line \in LineType
      PROVE  found(line) \in Seq(Seq(FieldType)) /\ Len(found(line)) = Len(line.fields)
  <2>1. line.fields \in Seq(FieldType) /\ Len(line.fields) \in Nat
    BY DEF LineType
  <2>2. ASSUME NEW i \in 1 .. Len(line.fields) PROVE found(line)[i] \in Seq(FieldType)
    <3>1. line.fields[i] \in FieldType
      BY <2>1
    <3>2. <<line.fields[i]>> \in Seq(FieldType) /\ <<>> \in Seq(FieldType)
      BY <3>1
    <3> QED
      BY <3>2
  <2> QED
    BY <2>1, <2>2
<1>3. /\ s \in Seq(Seq(FieldType)) /\ t \in Seq(Seq(FieldType))
      /\ Len(s) = Len(l.fields) /\ Len(t) = Len(l.fields)
  BY <1>1, <1>2
<1>4. ASSUME NEW i \in 1 .. Len(l.fields)
      PROVE  /\ Len(s[i]) = Len(t[i])
             /\ Even(s[i], t[i]) <=>
                  (l.fields[i].form \in forms => l.fields[i].value = m.fields[i].value)
  <2>1. /\ m.fields[i].form = l.fields[i].form
        /\ l.fields[i].value = <<>> <=> m.fields[i].value = <<>>
    BY DEF SameFields
  <2>2. CASE l.fields[i].form \in forms /\ l.fields[i].value # <<>>
    <3>1. s[i] = <<l.fields[i]>> /\ t[i] = <<m.fields[i]>>
      BY <1>1, <2>1, <2>2
    <3>2. /\ Len(<<l.fields[i]>>) = Len(<<m.fields[i]>>)
          /\ Even(<<l.fields[i]>>, <<m.fields[i]>>) <=> l.fields[i].value = m.fields[i].value
      BY EvenOfOne
    <3> HIDE DEF found
    <3> QED
      BY <2>2, <3>1, <3>2
  <2>3. CASE ~(l.fields[i].form \in forms /\ l.fields[i].value # <<>>)
    <3>1. s[i] = <<>> /\ t[i] = <<>>
      BY <1>1, <2>1, <2>3
    <3> QED
      BY <2>1, <2>3, <3>1 DEF Even
  <2> QED
    BY <2>2, <2>3
<1>5. Matches(l, forms) = FlattenSeq(s) /\ Matches(m, forms) = FlattenSeq(t)
  BY DEF Matches
<1> HIDE DEF found
<1> QED
  BY <1>1, <1>3, <1>4, <1>5, EvenFlattened

(* All patterns together see the differences in all but bare numbers,      *)
(* however often they find a number.                                       *)
LEMMA EntriesPairOff ==
  ASSUME NEW l \in LineType, NEW m \in LineType, SameFields(l, m)
  PROVE  /\ Len(Entries(l)) = Len(Entries(m))
         /\ Entries(l) \in Seq(FieldType) /\ Entries(m) \in Seq(FieldType)
         /\ Even(Entries(l), Entries(m)) <=>
              \A i \in 1 .. Len(l.fields) :
                l.fields[i].form # "bare" => l.fields[i].value = m.fields[i].value
<1> DEFINE all(line) == [n \in 1 .. Len(Patterns) |-> Matches(line, Patterns[n])]
           s == all(l)
           t == all(m)
<1>1. /\ Len(Patterns) = 4
      /\ Patterns[1] = {"equals", "err", "norm"} /\ Patterns[2] = {"spaced"}
      /\ Patterns[3] = {"err"} /\ Patterns[4] = {"norm"}
  BY DEF Patterns
<1>2. ASSUME NEW n \in 1 .. 4
      PROVE  /\ s[n] = Matches(l, Patterns[n]) /\ t[n] = Matches(m, Patterns[n])
             /\ s[n] \in Seq(FieldType) /\ t[n] \in Seq(FieldType)
             /\ Len(s[n]) = Len(t[n])
             /\ Even(s[n], t[n]) <=>
                  \A i \in 1 .. Len(l.fields) :
                    l.fields[i].form \in Patterns[n] =>
                      l.fields[i].value = m.fields[i].value
  <2>1. s[n] = Matches(l, Patterns[n]) /\ t[n] = Matches(m, Patterns[n])
    BY <1>1
  <2> HIDE DEF all
  <2> QED
    BY <2>1, MatchesPairOff
<1>3. /\ s \in Seq(Seq(FieldType)) /\ t \in Seq(Seq(FieldType))
      /\ Len(s) = 4 /\ Len(t) = 4
  <2>1. s = [n \in 1 .. 4 |-> s[n]] /\ t = [n \in 1 .. 4 |-> t[n]]
    BY <1>1
  <2> HIDE DEF all
  <2> QED
    BY <1>2, <2>1
<1>4. Entries(l) = FlattenSeq(s) /\ Entries(m) = FlattenSeq(t)
  BY DEF Entries
<1> HIDE DEF all
<1>5. /\ Len(Entries(l)) = Len(Entries(m))
      /\ Entries(l) \in Seq(FieldType) /\ Entries(m) \in Seq(FieldType)
      /\ Even(Entries(l), Entries(m)) <=> \A n \in 1 .. 4 : Even(s[n], t[n])
  <2>1. \A n \in 1 .. Len(s) : Len(s[n]) = Len(t[n])
    BY <1>2, <1>3
  <2>2. /\ Len(FlattenSeq(s)) = Len(FlattenSeq(t))
        /\ FlattenSeq(s) \in Seq(FieldType) /\ FlattenSeq(t) \in Seq(FieldType)
        /\ Even(FlattenSeq(s), FlattenSeq(t)) <=> \A n \in 1 .. Len(s) : Even(s[n], t[n])
    BY <1>3, <2>1, EvenFlattened
  <2> QED
    BY <1>3, <1>4, <2>2
<1>6. ASSUME NEW i \in 1 .. Len(l.fields)
      PROVE  l.fields[i].form # "bare" <=> \E n \in 1 .. 4 : l.fields[i].form \in Patterns[n]
  <2>1. l.fields \in Seq(FieldType)
    BY DEF LineType
  <2>2. l.fields[i] \in FieldType
    BY <2>1
  <2>3. l.fields[i].form \in Forms
    BY <2>2 DEF FieldType
  <2> QED
    BY <1>1, <2>3 DEF Forms
<1>7. (\A n \in 1 .. 4 : Even(s[n], t[n])) <=>
        \A i \in 1 .. Len(l.fields) :
          l.fields[i].form # "bare" => l.fields[i].value = m.fields[i].value
  BY <1>2, <1>6
<1> QED
  BY <1>5, <1>7

(* Outputs of the same shape pair off line by line.                        *)
LEMMA NumericsPairOff ==
  ASSUME NEW x86 \in OutputType, NEW riscv \in OutputType, SameShape(x86, riscv)
  PROVE  /\ Len(ExtractNumerics(x86)) = Len(ExtractNumerics(riscv))
         /\ ExtractNumerics(x86) \in Seq(FieldType)
         /\ Even(ExtractNumerics(x86), ExtractNumerics(riscv)) <=> ~Differ(x86, riscv)
<1> DEFINE kept(output) ==
             [n \in 1 .. Len(output) |->
                IF Skipped(output[n]) THEN <<>> ELSE Entries(output[n])]
           s == kept(x86)
           t == kept(riscv)
<1>1. /\ Len(x86) \in Nat /\ Len(riscv) = Len(x86)
      /\ \A n \in 1 .. Len(x86) : x86[n] \in LineType /\ riscv[n] \in LineType
  BY DEF OutputType, SameShape
<1>2. ASSUME NEW n \in 1 .. Len(x86)
      PROVE  /\ s[n] \in Seq(FieldType) /\ t[n] \in Seq(FieldType)
             /\ Len(s[n]) = Len(t[n])
             /\ Even(s[n], t[n]) <=>
                  (~x86[n].verdict =>
                     \A i \in 1 .. Len(x86[n].fields) :
                       x86[n].fields[i].form # "bare" =>
                         x86[n].fields[i].value = riscv[n].fields[i].value)
  <2>1. x86[n].verdict = riscv[n].verdict /\ SameFields(x86[n], riscv[n])
    BY DEF SameShape, SameFields
  <2>2. CASE x86[n].verdict
    <3>1. s[n] = <<>> /\ t[n] = <<>>
      BY <1>1, <2>1, <2>2 DEF Skipped
    <3>2. Even(<<>>, <<>>) /\ <<>> \in Seq(FieldType)
      BY DEF Even
    <3> HIDE DEF kept
    <3> QED
      BY <2>2, <3>1, <3>2
  <2>3. CASE ~x86[n].verdict
    <3>1. s[n] = Entries(x86[n]) /\ t[n] = Entries(riscv[n])
      BY <1>1, <2>1, <2>3 DEF Skipped
    <3>2. x86[n] \in LineType /\ riscv[n] \in LineType
      BY <1>1
    <3> HIDE DEF kept
    <3> QED
      BY <2>1, <2>3, <3>1, <3>2, EntriesPairOff
  <2> QED
    BY <2>2, <2>3
<1>3. /\ s \in Seq(Seq(FieldType)) /\ t \in Seq(Seq(FieldType))
      /\ Len(s) = Len(x86) /\ Len(t) = Len(x86)
  <2>1. /\ s = [n \in 1 .. Len(x86) |-> s[n]] /\ t = [n \in 1 .. Len(x86) |-> t[n]]
    BY <1>1
  <2> HIDE DEF kept
  <2> QED
    BY <1>1, <1>2, <2>1
<1>4. ExtractNumerics(x86) = FlattenSeq(s) /\ ExtractNumerics(riscv) = FlattenSeq(t)
  BY DEF ExtractNumerics
<1> HIDE DEF kept
<1>5. /\ Len(ExtractNumerics(x86)) = Len(ExtractNumerics(riscv))
      /\ ExtractNumerics(x86) \in Seq(FieldType)
      /\ Even(ExtractNumerics(x86), ExtractNumerics(riscv)) <=>
           \A n \in 1 .. Len(x86) : Even(s[n], t[n])
  BY <1>2, <1>3, <1>4, EvenFlattened
<1>6. (\A n \in 1 .. Len(x86) : Even(s[n], t[n])) <=> ~Differ(x86, riscv)
  BY <1>2 DEF Differ
<1> QED
  BY <1>5, <1>6

(* compare_outputs.py finds a difference between two outputs of the same   *)
(* shape if and only if a number differs that is not bare and on no        *)
(* verdict line: skipping lines, extracting a number twice and pairing by  *)
(* position change nothing about that, for outputs of any length.          *)
THEOREM CompareFindsDifferences ==
  ASSUME NEW x86 \in OutputType, NEW riscv \in OutputType, SameShape(x86, riscv)
  PROVE  CompareOutputs(x86, riscv) = 0 <=> ~Differ(x86, riscv)
<1> DEFINE x == ExtractNumerics(x86)
           r == ExtractNumerics(riscv)
           N == Shorter(x, r)
           differing == {n \in 1 .. N : x[n].value # r[n].value}
<1>1. /\ Len(x) = Len(r) /\ Len(x) \in Nat
      /\ Even(x, r) <=> ~Differ(x86, riscv)
  BY NumericsPairOff
<1>2. N = Len(x)
  BY <1>1 DEF Shorter
<1>3. CompareFiles(x86, riscv).failed = Cardinality(differing)
  BY DEF CompareFiles
<1> HIDE DEF x, r, N
<1>4. IsFiniteSet(differing)
  <2>1. IsFiniteSet(1 .. N)
    BY <1>1, <1>2, FS_Interval
  <2>2. differing \subseteq 1 .. N
    OBVIOUS
  <2> QED
    BY <2>1, <2>2, FS_Subset
<1>5. differing = {} <=> Even(x, r)
  BY <1>1, <1>2 DEF Even
<1> HIDE DEF differing
<1>6. Cardinality(differing) = 0 <=> differing = {}
  BY <1>4, FS_EmptySet
<1> QED
  BY <1>1, <1>3, <1>5, <1>6 DEF CompareOutputs

-----------------------------------------------------------------------------

(* Every step keeps the types.                                             *)
LEMMA NextTypeOK == TypeOK /\ Shape /\ [Next]_vars => TypeOK' /\ Shape'
<1> SUFFICES ASSUME TypeOK, Shape, [Next]_vars PROVE TypeOK' /\ Shape'
  OBVIOUS
<1>0. pc # "idle" => run \in 1 .. run
  BY Bounds DEF TypeOK, Shape
<1> USE DEF TypeOK, Shape, Ended, files
<1>1. CASE Start
  <2>1. k' \in Suites /\ run' \in 1 .. MaxRuns /\ 1 .. run \subseteq 1 .. run'
    BY <1>1, Bounds DEF Start, Suites
  <2>3. /\ \A s \in Suites :
             /\ \A f \in x86File'[s] : f.run \in 1 .. run' /\ f.available \in BOOLEAN
             /\ \A f \in riscvFile'[s] : f.run \in 1 .. run' /\ f.program \in Programs
             /\ \A f \in diffFile'[s] : f.run \in 1 .. run' /\ f.passed \in BOOLEAN
        /\ \A r \in report' : r.run \in 1 .. run' /\ r.passed \in BOOLEAN
    BY <1>1, <2>1 DEF Start
  <2>2. \A s \in Suites : BINARY_RC'[s] \in Maybe({p.rc : p \in Programs})
    BY <1>1 DEF Start, Maybe
  <2> QED
    BY <1>1, <2>1, <2>2, <2>3 DEF Start
<1>2. CASE CheckPrerequisites
  BY <1>2 DEF CheckPrerequisites
<1>3. CASE AuditBinarySymbols
  BY <1>3, AdvanceSuite DEF AuditBinarySymbols
<1>4. CASE RunNativeX86
  <2>1. \A f \in x86File'[k] : f.run \in 1 .. run /\ f.available \in BOOLEAN
    <3>1. k \in Suites /\ run \in 1 .. run
      BY <1>0, <1>4 DEF RunNativeX86
    <3>2. x86File'[k] = IF native[k] = {} THEN {[run |-> run, available |-> FALSE, output |-> <<>>]}
            ELSE {[run |-> run, available |-> TRUE, output |-> n] : n \in native[k]}
      BY <1>4, <3>1 DEF RunNativeX86
    <3> SUFFICES ASSUME NEW f \in x86File'[k]
                 PROVE  f.run \in 1 .. run /\ f.available \in BOOLEAN
      OBVIOUS
    <3>3. CASE f = [run |-> run, available |-> FALSE, output |-> <<>>]
      BY <3>1, <3>3
    <3>4. CASE \E n \in native[k] : f = [run |-> run, available |-> TRUE, output |-> n]
      BY <3>1, <3>4
    <3> QED
      BY <3>2, <3>3, <3>4
  <2>2. \A s \in Suites : s # k => x86File'[s] = x86File[s]
    BY <1>4 DEF RunNativeX86
  <2>3. /\ DOMAIN x86File' = Suites
        /\ UNCHANGED <<built, native, riscvFile, diffFile, report, run, OVERALL_RC,
                       BINARY_RC, exit>>
    BY <1>4 DEF RunNativeX86
  <2>4. k' \in Suites /\ pc' \in {"native", "qemu"}
    BY <1>4, AdvanceSuite DEF RunNativeX86
  <2> HIDE DEF files
  <2> QED
    BY <1>4, <2>1, <2>2, <2>3, <2>4 DEF RunNativeX86
<1>5. CASE RunQemuRiscv
  <2> PICK p \in built[k] :
        /\ riscvFile' = [riscvFile EXCEPT ![k] = {[run |-> run, program |-> p]}]
        /\ BINARY_RC' = [BINARY_RC EXCEPT ![k] = {p.rc}]
        /\ OVERALL_RC' = IF p.rc = 0 THEN OVERALL_RC ELSE 1
    BY <1>5 DEF RunQemuRiscv
  <2>1. p \in Programs
    BY MaybeOne
  <2>2. {p.rc} \in Maybe({q.rc : q \in Programs})
    BY <2>1 DEF Maybe
  <2>3. \A s \in Suites : BINARY_RC'[s] \in Maybe({q.rc : q \in Programs})
    BY <2>2
  <2>4. \A s \in Suites : \A f \in riscvFile'[s] : f.run \in 1 .. run /\ f.program \in Programs
    <3>1. k \in Suites /\ run \in 1 .. run
      BY <1>0, <1>5 DEF RunQemuRiscv
    <3>2. /\ riscvFile'[k] = {[run |-> run, program |-> p]}
          /\ \A s \in Suites : s # k => riscvFile'[s] = riscvFile[s]
      BY <3>1
    <3>3. \A f \in riscvFile'[k] : f.run = run /\ f.program = p
      BY <3>2
    <3> QED
      BY <2>1, <3>1, <3>2, <3>3
  <2> QED
    BY <1>5, <2>3, <2>4 DEF RunQemuRiscv
<1>6. CASE SkipSuite
  BY <1>6, AdvanceSuite DEF SkipSuite
<1>7. CASE CheckStatusLine
  BY <1>7 DEF CheckStatusLine, Abort
<1>8. CASE CheckNoCrash
  BY <1>8, AdvanceSuite DEF CheckNoCrash, Abort
<1>9. CASE RunEpsilonDiff
  <2>1. CASE UNCHANGED <<diffFile, OVERALL_RC>>
    BY <1>9, <2>1, AdvanceSuite DEF RunEpsilonDiff
  <2>2. CASE ~UNCHANGED <<diffFile, OVERALL_RC>>
    <3>1. PICK b \in BOOLEAN :
            /\ diffFile' = [diffFile EXCEPT ![k] = {[run |-> run, passed |-> b]}]
            /\ OVERALL_RC' = IF b THEN OVERALL_RC ELSE 1
      BY <1>9, <2>2 DEF RunEpsilonDiff, Agree
    <3>2. \A s \in Suites : \A f \in diffFile'[s] : f.run \in 1 .. run /\ f.passed \in BOOLEAN
      <4>1. k \in Suites /\ run \in 1 .. run
        BY <1>0, <1>9 DEF RunEpsilonDiff
      <4> DEFINE d == [run |-> run, passed |-> b]
      <4>2. d.run = run /\ d.passed = b
        OBVIOUS
      <4>3. d.passed \in BOOLEAN
        BY <4>2, Zenon
      <4> HIDE DEF d
      <4>4. diffFile'[k] = {d} /\ \A s \in Suites : s # k => diffFile'[s] = diffFile[s]
        BY <3>1, <4>1 DEF d
      <4> QED
        BY <4>1, <4>2, <4>3, <4>4
    <3> QED
      BY <1>9, <3>1, <3>2, AdvanceSuite DEF RunEpsilonDiff
  <2> QED
    BY <2>1, <2>2
<1>10. CASE GenerateValidationReport
  <2>1. \A r \in report' : r.run \in 1 .. run /\ r.passed \in BOOLEAN
    <3> DEFINE r == [run |-> run, passed |-> OVERALL_RC = 0, diffs |-> diffFile]
    <3>1. r.run = run /\ r.passed \in BOOLEAN
      OBVIOUS
    <3>2. report' = {r} /\ run \in 1 .. run
      BY <1>0, <1>10 DEF GenerateValidationReport
    <3> HIDE DEF r
    <3> QED
      BY <3>1, <3>2
  <2> QED
    BY <1>10, <2>1 DEF GenerateValidationReport
<1>11. CASE Exit
  BY <1>11 DEF Exit
<1>12. ASSUME NEW s \in Suites, Rebuild(s) PROVE TypeOK' /\ Shape'
  <2>1. built' \in [Suites -> Maybe(Programs)] /\ native' \in [Suites -> Maybe(References)]
    BY <1>12 DEF Rebuild
  <2> QED
    BY <1>12, <2>1 DEF Rebuild
<1>13. CASE UNCHANGED vars
  BY <1>13 DEF vars
<1> QED
  BY <1>1, <1>2, <1>3, <1>4, <1>5, <1>6, <1>7, <1>8, <1>9, <1>10, <1>11, <1>12, <1>13
  DEF Next, Script, Done

(* Every step keeps what the audit has found.                              *)
LEMMA NextAudit ==
  TypeOK /\ Shape /\ AuditFound /\ [Next]_vars => AuditFound'
<1> SUFFICES ASSUME TypeOK, Shape, AuditFound, [Next]_vars PROVE AuditFound'
  OBVIOUS
<1> USE DEF AuditFound, Audited, files, AfterQemu, AfterNative, AfterAudit
<1>0. k \in Suites /\ \A s \in Suites : ~(s < 1)
  BY DEF TypeOK, Suites
<1>1. CASE Start
  BY <1>0, <1>1 DEF Start
<1>2. CASE CheckPrerequisites
  BY <1>0, <1>2 DEF CheckPrerequisites, Shape
<1>3. CASE AuditBinarySymbols
  BY <1>0, <1>3, AdvanceSuite DEF AuditBinarySymbols
<1>4. CASE RunNativeX86
  BY <1>0, <1>4, AdvanceSuite DEF RunNativeX86
<1>5. CASE RunQemuRiscv
  BY <1>0, <1>5 DEF RunQemuRiscv
<1>6. CASE SkipSuite
  BY <1>0, <1>6, AdvanceSuite DEF SkipSuite
<1>7. CASE CheckStatusLine
  BY <1>0, <1>7 DEF CheckStatusLine, Abort
<1>8. CASE CheckNoCrash
  BY <1>0, <1>8, AdvanceSuite DEF CheckNoCrash, Abort
<1>9. CASE RunEpsilonDiff
  BY <1>0, <1>9, AdvanceSuite DEF RunEpsilonDiff
<1>10. CASE GenerateValidationReport
  BY <1>0, <1>10 DEF GenerateValidationReport
<1>11. CASE Exit
  BY <1>0, <1>11 DEF Exit
<1>12. ASSUME NEW s \in Suites, Rebuild(s) PROVE AuditFound'
  BY <1>12 DEF Rebuild
<1>13. CASE UNCHANGED vars
  BY <1>13 DEF vars
<1> QED
  BY <1>1, <1>2, <1>3, <1>4, <1>5, <1>6, <1>7, <1>8, <1>9, <1>10, <1>11, <1>12, <1>13
  DEF Next, Script, Done

(* Every step keeps what the native runs have left.                        *)
LEMMA NextNative ==
  TypeOK /\ Shape /\ NativeFound /\ [Next]_vars => NativeFound'
<1> SUFFICES ASSUME TypeOK, Shape, NativeFound, [Next]_vars PROVE NativeFound'
  OBVIOUS
<1> USE DEF NativeFound, NativeRun, files, AfterQemu, AfterNative, AfterAudit
<1>0. k \in Suites /\ \A s \in Suites : ~(s < 1)
  BY DEF TypeOK, Suites
<1>1. CASE Start
  BY <1>0, <1>1 DEF Start
<1>2. CASE CheckPrerequisites
  BY <1>0, <1>2 DEF CheckPrerequisites, Shape
<1>3. CASE AuditBinarySymbols
  BY <1>0, <1>3, AdvanceSuite DEF AuditBinarySymbols
<1>4. CASE RunNativeX86
  <2>1. /\ native[k] \in Maybe(References) /\ UNCHANGED <<native, run>>
        /\ \A s \in Suites : s # k => x86File'[s] = x86File[s]
        /\ x86File'[k] =
             IF native[k] = {} THEN {[run |-> run, available |-> FALSE, output |-> <<>>]}
             ELSE {[run |-> run, available |-> TRUE, output |-> n] : n \in native[k]}
    BY <1>0, <1>4 DEF RunNativeX86, TypeOK, Shape
  <2>2. ASSUME NEW n \in native[k]
        PROVE  x86File'[k] = {[run |-> run, available |-> TRUE, output |-> n]}
    <3>1. native[k] = {n}
      BY <2>1, MaybeOne
    <3> QED
      BY <2>1, <3>1
  <2>3. ASSUME NEW x \in x86File'[k], x.available PROVE x.output \in native[k]
    <3>1. CASE native[k] = {}
      BY <2>1, <2>3, <3>1
    <3>2. CASE native[k] # {}
      <4>1. PICK n \in native[k] : x = [run |-> run, available |-> TRUE, output |-> n]
        BY <2>1, <3>2
      <4> QED
        BY <4>1
    <3> QED
      BY <3>1, <3>2
  <2>4. \A s \in Suites : NativeRun(s)' => s = k \/ NativeRun(s)
    BY <1>0, <1>4, AdvanceSuite DEF RunNativeX86
  <2> HIDE DEF NativeRun
  <2> QED
    BY <2>1, <2>2, <2>3, <2>4
<1>5. CASE RunQemuRiscv
  BY <1>0, <1>5 DEF RunQemuRiscv
<1>6. CASE SkipSuite
  BY <1>0, <1>6, AdvanceSuite DEF SkipSuite
<1>7. CASE CheckStatusLine
  BY <1>0, <1>7 DEF CheckStatusLine, Abort
<1>8. CASE CheckNoCrash
  BY <1>0, <1>8, AdvanceSuite DEF CheckNoCrash, Abort
<1>9. CASE RunEpsilonDiff
  BY <1>0, <1>9, AdvanceSuite DEF RunEpsilonDiff
<1>10. CASE GenerateValidationReport
  BY <1>0, <1>10 DEF GenerateValidationReport
<1>11. CASE Exit
  BY <1>0, <1>11 DEF Exit
<1>12. ASSUME NEW s \in Suites, Rebuild(s) PROVE NativeFound'
  BY <1>12 DEF Rebuild
<1>13. CASE UNCHANGED vars
  BY <1>13 DEF vars
<1> QED
  BY <1>1, <1>2, <1>3, <1>4, <1>5, <1>6, <1>7, <1>8, <1>9, <1>10, <1>11, <1>12, <1>13
  DEF Next, Script, Done

(* Every step keeps what the runs under QEMU have left.                    *)
LEMMA NextQemu ==
  TypeOK /\ Shape /\ QemuFound /\ [Next]_vars => QemuFound'
<1> SUFFICES ASSUME TypeOK, Shape, QemuFound, [Next]_vars PROVE QemuFound'
  OBVIOUS
<1> USE DEF QemuFound, QemuRun, Tried, files, AfterQemu, AfterNative, AfterAudit
<1>0. k \in Suites /\ \A s \in Suites : ~(s < 1)
  BY DEF TypeOK, Suites
<1>1. CASE Start
  BY <1>0, <1>1 DEF Start
<1>2. CASE CheckPrerequisites
  BY <1>0, <1>2 DEF CheckPrerequisites, Shape
<1>3. CASE AuditBinarySymbols
  BY <1>0, <1>3, AdvanceSuite DEF AuditBinarySymbols
<1>4. CASE RunNativeX86
  BY <1>0, <1>4, AdvanceSuite DEF RunNativeX86
<1>5. CASE RunQemuRiscv
  <2>1. PICK p \in built[k] :
          /\ riscvFile' = [riscvFile EXCEPT ![k] = {[run |-> run, program |-> p]}]
          /\ BINARY_RC' = [BINARY_RC EXCEPT ![k] = {p.rc}]
          /\ OVERALL_RC' = IF p.rc = 0 THEN OVERALL_RC ELSE 1
    BY <1>5 DEF RunQemuRiscv
  <2>2. built[k] = {p}
    BY <1>0, MaybeOne DEF TypeOK
  <2>3. \A s \in Suites : QemuRun(s)' => s = k \/ QemuRun(s)
    BY <1>0, <1>5 DEF RunQemuRiscv
  <2> HIDE DEF QemuRun
  <2> QED
    BY <1>0, <1>5, <2>1, <2>2, <2>3 DEF RunQemuRiscv, Shape
<1>6. CASE SkipSuite
  BY <1>0, <1>6, AdvanceSuite DEF SkipSuite
<1>7. CASE CheckStatusLine
  BY <1>0, <1>7 DEF CheckStatusLine, Abort
<1>8. CASE CheckNoCrash
  BY <1>0, <1>8, AdvanceSuite DEF CheckNoCrash, Abort
<1>9. CASE RunEpsilonDiff
  BY <1>0, <1>9, AdvanceSuite DEF RunEpsilonDiff
<1>10. CASE GenerateValidationReport
  BY <1>0, <1>10 DEF GenerateValidationReport
<1>11. CASE Exit
  BY <1>0, <1>11 DEF Exit
<1>12. ASSUME NEW s \in Suites, Rebuild(s) PROVE QemuFound'
  BY <1>12 DEF Rebuild
<1>13. CASE UNCHANGED vars
  BY <1>13 DEF vars
<1> QED
  BY <1>1, <1>2, <1>3, <1>4, <1>5, <1>6, <1>7, <1>8, <1>9, <1>10, <1>11, <1>12, <1>13
  DEF Next, Script, Done

(* Every step keeps what the checks have let pass.                         *)
LEMMA NextChecks ==
  TypeOK /\ Shape /\ ChecksFound /\ QemuFound /\ [Next]_vars => ChecksFound'
<1> SUFFICES ASSUME TypeOK, Shape, ChecksFound, QemuFound, [Next]_vars
             PROVE  ChecksFound'
  OBVIOUS
<1> USE DEF ChecksFound, StatusChecked, Tried, files, AfterQemu, AfterNative, AfterAudit
<1>0. k \in Suites /\ \A s \in Suites : ~(s < 1)
  BY DEF TypeOK, Suites
<1>1. CASE Start
  BY <1>0, <1>1 DEF Start
<1>2. CASE CheckPrerequisites
  BY <1>0, <1>2 DEF CheckPrerequisites, Shape
<1>3. CASE AuditBinarySymbols
  BY <1>0, <1>3, AdvanceSuite DEF AuditBinarySymbols
<1>4. CASE RunNativeX86
  BY <1>0, <1>4, AdvanceSuite DEF RunNativeX86
<1>5. CASE RunQemuRiscv
  BY <1>0, <1>5 DEF RunQemuRiscv
<1>6. CASE SkipSuite
  BY <1>0, <1>6, AdvanceSuite DEF SkipSuite
<1>7. CASE CheckStatusLine
  <2>1. \A p \in built[k] : riscvFile[k] = {[run |-> run, program |-> p]}
    BY <1>0, <1>7 DEF CheckStatusLine, QemuFound, QemuRun
  <2> QED
    BY <1>0, <1>7, <2>1 DEF CheckStatusLine, Abort
<1>8. CASE CheckNoCrash
  <2>1. \A p \in built[k] : riscvFile[k] = {[run |-> run, program |-> p]}
    BY <1>0, <1>8 DEF CheckNoCrash, QemuFound, QemuRun
  <2> QED
    BY <1>0, <1>8, <2>1, AdvanceSuite DEF CheckNoCrash, Abort
<1>9. CASE RunEpsilonDiff
  BY <1>0, <1>9, AdvanceSuite DEF RunEpsilonDiff
<1>10. CASE GenerateValidationReport
  BY <1>0, <1>10 DEF GenerateValidationReport
<1>11. CASE Exit
  BY <1>0, <1>11 DEF Exit
<1>12. ASSUME NEW s \in Suites, Rebuild(s) PROVE ChecksFound'
  BY <1>12 DEF Rebuild
<1>13. CASE UNCHANGED vars
  BY <1>13 DEF vars
<1> QED
  BY <1>1, <1>2, <1>3, <1>4, <1>5, <1>6, <1>7, <1>8, <1>9, <1>10, <1>11, <1>12, <1>13
  DEF Next, Script, Done

(* Every step keeps what the comparisons have found.                       *)
LEMMA NextDiff ==
  TypeOK /\ Shape /\ DiffFound /\ NativeFound /\ QemuFound /\ [Next]_vars => DiffFound'
<1> SUFFICES ASSUME TypeOK, Shape, DiffFound, NativeFound, QemuFound, [Next]_vars
             PROVE  DiffFound'
  OBVIOUS
<1> USE DEF DiffFound, Diffed, files, AfterQemu, AfterNative, AfterAudit
<1>0. k \in Suites /\ \A s \in Suites : ~(s < 1)
  BY DEF TypeOK, Suites
<1>1. CASE Start
  BY <1>0, <1>1 DEF Start
<1>2. CASE CheckPrerequisites
  BY <1>0, <1>2 DEF CheckPrerequisites, Shape
<1>3. CASE AuditBinarySymbols
  BY <1>0, <1>3, AdvanceSuite DEF AuditBinarySymbols
<1>4. CASE RunNativeX86
  BY <1>0, <1>4, AdvanceSuite DEF RunNativeX86
<1>5. CASE RunQemuRiscv
  BY <1>0, <1>5 DEF RunQemuRiscv
<1>6. CASE SkipSuite
  BY <1>0, <1>6, AdvanceSuite DEF SkipSuite
<1>7. CASE CheckStatusLine
  BY <1>0, <1>7 DEF CheckStatusLine, Abort
<1>8. CASE CheckNoCrash
  BY <1>0, <1>8, AdvanceSuite DEF CheckNoCrash, Abort
<1>9. CASE RunEpsilonDiff
  <2>1. /\ UNCHANGED <<built, native>> /\ (OVERALL_RC' = 0 => OVERALL_RC = 0)
        /\ \A s \in Suites : Diffed(s)' => s = k \/ Diffed(s)
    BY <1>0, <1>9, AdvanceSuite DEF RunEpsilonDiff
  <2>2. ASSUME NEW p \in built[k], NEW n \in native[k], OVERALL_RC' = 0
        PROVE  Agree(n, p.output)
    <3>1. /\ x86File[k] = {[run |-> run, available |-> TRUE, output |-> n]}
          /\ riscvFile[k] = {[run |-> run, program |-> p]}
      BY <1>0, <1>9, <2>2
      DEF RunEpsilonDiff, NativeFound, NativeRun, QemuFound, QemuRun, Tried
    <3>2. riscvFile[k] # {} /\ \A x \in x86File[k] : x.available
      BY <3>1
    <3>3. \E x \in x86File[k], f \in riscvFile[k] :
            OVERALL_RC' = IF Agree(x.output, f.program.output) THEN OVERALL_RC ELSE 1
      BY <1>9, <3>2 DEF RunEpsilonDiff
    <3>4. OVERALL_RC' = IF Agree(n, p.output) THEN OVERALL_RC ELSE 1
      BY <3>1, <3>3
    <3> QED
      BY <2>2, <3>4
  <2> HIDE DEF Diffed
  <2> QED
    BY <2>1, <2>2
<1>10. CASE GenerateValidationReport
  BY <1>0, <1>10 DEF GenerateValidationReport
<1>11. CASE Exit
  BY <1>0, <1>11 DEF Exit
<1>12. ASSUME NEW s \in Suites, Rebuild(s) PROVE DiffFound'
  BY <1>12 DEF Rebuild
<1>13. CASE UNCHANGED vars
  BY <1>13 DEF vars
<1> QED
  BY <1>1, <1>2, <1>3, <1>4, <1>5, <1>6, <1>7, <1>8, <1>9, <1>10, <1>11, <1>12, <1>13
  DEF Next, Script, Done

(* Every step leaves at most one output of a kind and suite.               *)
LEMMA NextOneOutput ==
  TypeOK /\ Shape /\ OneOutput /\ [Next]_vars => OneOutput'
<1> SUFFICES ASSUME TypeOK, Shape, OneOutput, [Next]_vars PROVE OneOutput'
  OBVIOUS
<1>1. CASE UNCHANGED <<x86File, riscvFile>>
  BY <1>1 DEF OneOutput
<1>2. CASE RunNativeX86
  <2>1. /\ native[k] \in Maybe(References) /\ UNCHANGED riscvFile
        /\ \A s \in Suites : s # k => x86File'[s] = x86File[s]
        /\ x86File'[k] =
             IF native[k] = {} THEN {[run |-> run, available |-> FALSE, output |-> <<>>]}
             ELSE {[run |-> run, available |-> TRUE, output |-> n] : n \in native[k]}
    BY <1>2 DEF RunNativeX86, TypeOK, Shape
  <2>2. \A n \in native[k], m \in native[k] : n = m
    BY <2>1 DEF Maybe
  <2>3. \A x \in x86File'[k], y \in x86File'[k] : x = y
    BY <2>1, <2>2
  <2> QED
    BY <2>1, <2>3 DEF OneOutput
<1>3. CASE RunQemuRiscv
  <2>1. PICK p \in built[k] :
          riscvFile' = [riscvFile EXCEPT ![k] = {[run |-> run, program |-> p]}]
    BY <1>3 DEF RunQemuRiscv
  <2>2. /\ riscvFile'[k] = {[run |-> run, program |-> p]} /\ UNCHANGED x86File
        /\ \A s \in Suites : s # k => riscvFile'[s] = riscvFile[s]
    BY <1>3, <2>1 DEF RunQemuRiscv, TypeOK, Shape
  <2> QED
    BY <2>2 DEF OneOutput
<1> QED
  BY <1>1, <1>2, <1>3
  DEF Next, Script, Done, vars, files, Start, CheckPrerequisites, AuditBinarySymbols,
      SkipSuite, CheckStatusLine, CheckNoCrash, RunEpsilonDiff,
      GenerateValidationReport, Exit, Rebuild

(* Every step keeps the diffs of this run right.                           *)
LEMMA NextDiffIsCurrent ==
  TypeOK /\ Shape /\ OneOutput /\ DiffIsCurrent /\ [Next]_vars => DiffIsCurrent'
<1> SUFFICES ASSUME TypeOK, Shape, OneOutput, DiffIsCurrent, [Next]_vars
             PROVE  DiffIsCurrent'
  OBVIOUS
<1> USE DEF DiffIsCurrent, Diffed, files
<1>0. k \in Suites /\ \A s \in Suites : ~(s < 1)
  BY DEF TypeOK, Suites
<1>1. CASE Start
  BY <1>0, <1>1 DEF Start
<1>2. CASE CheckPrerequisites
  BY <1>0, <1>2 DEF CheckPrerequisites, Shape
<1>3. CASE AuditBinarySymbols
  BY <1>0, <1>3, AdvanceSuite DEF AuditBinarySymbols
<1>4. CASE RunNativeX86
  BY <1>0, <1>4, AdvanceSuite DEF RunNativeX86
<1>5. CASE RunQemuRiscv
  BY <1>0, <1>5 DEF RunQemuRiscv
<1>6. CASE SkipSuite
  BY <1>0, <1>6, AdvanceSuite DEF SkipSuite
<1>7. CASE CheckStatusLine
  BY <1>0, <1>7 DEF CheckStatusLine, Abort
<1>8. CASE CheckNoCrash
  BY <1>0, <1>8, AdvanceSuite DEF CheckNoCrash, Abort
<1>9. CASE RunEpsilonDiff
  <2>1. /\ UNCHANGED <<x86File, riscvFile, run>>
        /\ \A s \in Suites : Diffed(s)' => s = k \/ Diffed(s)
        /\ \A s \in Suites : s # k => diffFile'[s] = diffFile[s]
    BY <1>0, <1>9, AdvanceSuite DEF RunEpsilonDiff, TypeOK, Shape
  <2>2. ASSUME NEW x \in x86File[k], NEW f \in riscvFile[k], x.available
        PROVE  \E d \in diffFile'[k] :
                 d.run = run /\ (d.passed <=> Agree(x.output, f.program.output))
    <3>1. ~(riscvFile[k] = {} \/ \E y \in x86File[k] : ~y.available)
      BY <1>0, <2>2 DEF OneOutput
    <3>2. PICK y \in x86File[k], g \in riscvFile[k] :
            diffFile' = [diffFile EXCEPT ![k] =
              {[run |-> run, passed |-> Agree(y.output, g.program.output)]}]
      BY <1>9, <3>1 DEF RunEpsilonDiff
    <3>3. y = x /\ g = f
      BY <1>0, <2>2 DEF OneOutput
    <3> DEFINE d == [run |-> run, passed |-> Agree(x.output, f.program.output)]
    <3>4. d.run = run /\ d.passed = Agree(x.output, f.program.output)
      OBVIOUS
    <3>5. d \in diffFile'[k]
      BY <1>0, <3>2, <3>3 DEF Shape
    <3> HIDE DEF d
    <3>6. d.passed <=> Agree(x.output, f.program.output)
      BY <3>4, Zenon
    <3> QED
      BY <3>4, <3>5, <3>6
  <2> HIDE DEF Diffed
  <2> QED
    BY <2>1, <2>2
<1>10. CASE GenerateValidationReport
  BY <1>0, <1>10 DEF GenerateValidationReport
<1>11. CASE Exit
  BY <1>0, <1>11 DEF Exit
<1>12. ASSUME NEW s \in Suites, Rebuild(s) PROVE DiffIsCurrent'
  BY <1>12 DEF Rebuild
<1>13. CASE UNCHANGED vars
  BY <1>13 DEF vars
<1> QED
  BY <1>1, <1>2, <1>3, <1>4, <1>5, <1>6, <1>7, <1>8, <1>9, <1>10, <1>11, <1>12, <1>13
  DEF Next, Script, Done

(* A check that ends the run has a program that is built to show for it.   *)
LEMMA AbortHasCause ==
  ASSUME TypeOK, SuiteIsBuilt, QemuFound, pc \in {"status", "crash"},
         NEW f \in riscvFile[k], f.program.status = "fail" \/ f.program.crash
  PROVE  \E p \in built[k] : Misbehaves(p)
<1>1. PICK p \in built[k] : TRUE
  BY DEF SuiteIsBuilt
<1>2. riscvFile[k] = {[run |-> run, program |-> p]}
  BY DEF QemuFound, QemuRun, TypeOK
<1>3. f.program = p
  BY <1>2
<1> QED
  BY <1>3 DEF Misbehaves

(* A check follows a run under QEMU.                                       *)
LEMMA NextBuilt ==
  TypeOK /\ Shape /\ SuiteIsBuilt /\ [Next]_vars => SuiteIsBuilt'
<1> SUFFICES ASSUME TypeOK, Shape, SuiteIsBuilt, [Next]_vars PROVE SuiteIsBuilt'
  OBVIOUS
<1> USE DEF SuiteIsBuilt, files
<1>0. k \in Suites
  BY DEF TypeOK
<1>1. CASE Start
  BY <1>0, <1>1 DEF Start
<1>2. CASE CheckPrerequisites
  BY <1>0, <1>2 DEF CheckPrerequisites
<1>3. CASE AuditBinarySymbols
  BY <1>0, <1>3, AdvanceSuite DEF AuditBinarySymbols
<1>4. CASE RunNativeX86
  BY <1>0, <1>4, AdvanceSuite DEF RunNativeX86
<1>5. CASE RunQemuRiscv
  BY <1>0, <1>5 DEF RunQemuRiscv
<1>6. CASE SkipSuite
  BY <1>0, <1>6, AdvanceSuite DEF SkipSuite
<1>7. CASE CheckStatusLine
  BY <1>0, <1>7 DEF CheckStatusLine, Abort
<1>8. CASE CheckNoCrash
  BY <1>0, <1>8, AdvanceSuite DEF CheckNoCrash, Abort
<1>9. CASE RunEpsilonDiff
  BY <1>0, <1>9, AdvanceSuite DEF RunEpsilonDiff
<1>10. CASE GenerateValidationReport
  BY <1>0, <1>10 DEF GenerateValidationReport
<1>11. CASE Exit
  BY <1>0, <1>11 DEF Exit
<1>12. ASSUME NEW s \in Suites, Rebuild(s) PROVE SuiteIsBuilt'
  BY <1>12 DEF Rebuild
<1>13. CASE UNCHANGED vars
  BY <1>13 DEF vars
<1> QED
  BY <1>1, <1>2, <1>3, <1>4, <1>5, <1>6, <1>7, <1>8, <1>9, <1>10, <1>11, <1>12, <1>13
  DEF Next, Script, Done

(* Every step that spoils the verdict has a cause.                         *)
LEMMA NextVerdict ==
  TypeOK /\ Shape /\ VerdictHasCause /\ QemuFound /\ NativeFound /\ [Next]_vars
    => VerdictHasCause'
<1> SUFFICES ASSUME TypeOK, Shape, VerdictHasCause, QemuFound, NativeFound, [Next]_vars
             PROVE  VerdictHasCause'
  OBVIOUS
<1> USE DEF VerdictHasCause, Diffed, Ended, files
<1>0. k \in Suites
  BY DEF TypeOK
<1>1. CASE Start
  BY <1>0, <1>1 DEF Start
<1>2. CASE CheckPrerequisites
  BY <1>0, <1>2 DEF CheckPrerequisites
<1>3. CASE AuditBinarySymbols
  <2>1. CASE OVERALL_RC = 1
    BY <1>0, <1>3, <2>1, AdvanceSuite DEF AuditBinarySymbols
  <2>2. CASE \E p \in built[k] : p.x86
    BY <1>0, <1>3, <2>2 DEF AuditBinarySymbols, Misbehaves
  <2>3. OVERALL_RC = 1 \/ OVERALL_RC' = 0 \/ \E p \in built[k] : p.x86
    BY <1>3 DEF AuditBinarySymbols, TypeOK
  <2> QED
    BY <2>1, <2>2, <2>3
<1>4. CASE RunNativeX86
  BY <1>0, <1>4, AdvanceSuite DEF RunNativeX86
<1>5. CASE RunQemuRiscv
  <2>1. PICK p \in built[k] : OVERALL_RC' = IF p.rc = 0 THEN OVERALL_RC ELSE 1
    BY <1>5 DEF RunQemuRiscv
  <2>2. CASE p.rc = 0
    BY <1>5, <2>1, <2>2 DEF RunQemuRiscv
  <2>3. CASE p.rc # 0
    BY <1>0, <1>5, <2>3 DEF RunQemuRiscv, Misbehaves
  <2> QED
    BY <2>2, <2>3
<1>6. CASE SkipSuite
  BY <1>0, <1>6, AdvanceSuite DEF SkipSuite
<1>7. CASE CheckStatusLine
  BY <1>0, <1>7 DEF CheckStatusLine, Abort
<1>8. CASE CheckNoCrash
  BY <1>0, <1>8, AdvanceSuite DEF CheckNoCrash, Abort
<1>9. CASE RunEpsilonDiff
  <2>1. /\ UNCHANGED <<built, native, riscvFile>>
        /\ \A s \in Suites : Diffed(s) => Diffed(s)'
        /\ pc' = "report" \/ (pc' = "diff" /\ k < k')
    <3>1. pc' = "report" \/ (pc' = "diff" /\ k' = k + 1 /\ k \in Nat)
      BY <1>0, <1>9, Bounds DEF RunEpsilonDiff, Advance, Suites
    <3>2. pc = "diff" /\ UNCHANGED <<built, native, riscvFile>>
      BY <1>9 DEF RunEpsilonDiff
    <3> QED
      BY <3>1, <3>2 DEF Suites
  <2>2. CASE UNCHANGED OVERALL_RC
    <3> HIDE DEF Diffed
    <3> QED
      BY <1>9, <2>1, <2>2 DEF RunEpsilonDiff
  <2>3. CASE ~UNCHANGED OVERALL_RC
    <3>1. PICK x \in x86File[k] : \E f \in riscvFile[k] :
            x.available /\ ~Agree(x.output, f.program.output)
      BY <1>9, <2>3 DEF RunEpsilonDiff
    <3>2. x.output \in native[k]
      BY <1>0, <1>9, <3>1 DEF RunEpsilonDiff, NativeFound, NativeRun, AfterNative, AfterQemu
    <3>3. \E n \in native'[k], f \in riscvFile'[k] : ~Agree(n, f.program.output)
      BY <2>1, <3>1, <3>2
    <3>4. PICK s \in Suites : s = k
      BY <1>0
    <3>5. Diffed(s)'
      BY <2>1, <3>4
    <3> HIDE DEF Diffed
    <3> QED
      BY <3>3, <3>4, <3>5
  <2> QED
    BY <2>2, <2>3
<1>10. CASE GenerateValidationReport
  BY <1>0, <1>10 DEF GenerateValidationReport
<1>11. CASE Exit
  BY <1>0, <1>11 DEF Exit
<1>12. ASSUME NEW s \in Suites, Rebuild(s) PROVE VerdictHasCause'
  BY <1>12 DEF Rebuild
<1>13. CASE UNCHANGED vars
  BY <1>13 DEF vars
<1> QED
  BY <1>1, <1>2, <1>3, <1>4, <1>5, <1>6, <1>7, <1>8, <1>9, <1>10, <1>11, <1>12, <1>13
  DEF Next, Script, Done

(* A run only exits with one for a cause.                                  *)
LEMMA NextFailure ==
  TypeOK /\ Shape /\ FailureIsReal /\ VerdictHasCause /\ SuiteIsBuilt /\ QemuFound /\ [Next]_vars
    => FailureIsReal'
<1> SUFFICES ASSUME TypeOK, Shape, FailureIsReal, VerdictHasCause, SuiteIsBuilt, QemuFound, [Next]_vars
             PROVE  FailureIsReal'
  OBVIOUS
<1> USE DEF FailureIsReal, VerdictHasCause, Ended, files
<1>0. k \in Suites
  BY DEF TypeOK
<1>1. CASE Start
  BY <1>0, <1>1 DEF Start
<1>2. CASE CheckPrerequisites
  BY <1>0, <1>2 DEF CheckPrerequisites
<1>3. CASE AuditBinarySymbols
  BY <1>0, <1>3, AdvanceSuite DEF AuditBinarySymbols
<1>4. CASE RunNativeX86
  BY <1>0, <1>4, AdvanceSuite DEF RunNativeX86
<1>5. CASE RunQemuRiscv
  BY <1>0, <1>5 DEF RunQemuRiscv
<1>6. CASE SkipSuite
  BY <1>0, <1>6, AdvanceSuite DEF SkipSuite
<1>7. CASE CheckStatusLine
  <2>1. CASE \E f \in riscvFile[k] : f.program.status = "fail"
    <3>1. \E p \in built[k] : Misbehaves(p)
      BY <1>7, <2>1, AbortHasCause DEF CheckStatusLine
    <3> QED
      BY <1>0, <1>7, <3>1 DEF CheckStatusLine
  <2>2. CASE ~\E f \in riscvFile[k] : f.program.status = "fail"
    BY <1>7, <2>2 DEF CheckStatusLine
  <2> QED
    BY <2>1, <2>2
<1>8. CASE CheckNoCrash
  <2>1. CASE \E f \in riscvFile[k] : f.program.crash
    <3>1. \E p \in built[k] : Misbehaves(p)
      BY <1>8, <2>1, AbortHasCause DEF CheckNoCrash
    <3> QED
      BY <1>0, <1>8, <3>1 DEF CheckNoCrash
  <2>2. CASE ~\E f \in riscvFile[k] : f.program.crash
    BY <1>0, <1>8, <2>2, AdvanceSuite DEF CheckNoCrash
  <2> QED
    BY <2>1, <2>2
<1>9. CASE RunEpsilonDiff
  BY <1>0, <1>9, AdvanceSuite DEF RunEpsilonDiff
<1>10. CASE GenerateValidationReport
  BY <1>0, <1>10 DEF GenerateValidationReport
<1>11. CASE Exit
  BY <1>0, <1>11 DEF Exit
<1>12. ASSUME NEW s \in Suites, Rebuild(s) PROVE FailureIsReal'
  BY <1>12 DEF Rebuild
<1>13. CASE UNCHANGED vars
  BY <1>13 DEF vars
<1> QED
  BY <1>1, <1>2, <1>3, <1>4, <1>5, <1>6, <1>7, <1>8, <1>9, <1>10, <1>11, <1>12, <1>13
  DEF Next, Script, Done

(* A run only exits with zero when it has found nothing.                   *)
LEMMA NextPass ==
  TypeOK /\ Shape /\ PassIsEarned /\ Found /\ [Next]_vars => PassIsEarned'
<1> SUFFICES ASSUME TypeOK, Shape, PassIsEarned, Found, [Next]_vars PROVE PassIsEarned'
  OBVIOUS
<1> USE DEF PassIsEarned, files
<1>0. k \in Suites
  BY DEF TypeOK
<1>1. CASE Start
  BY <1>0, <1>1 DEF Start
<1>2. CASE CheckPrerequisites
  BY <1>0, <1>2 DEF CheckPrerequisites
<1>3. CASE AuditBinarySymbols
  BY <1>0, <1>3, AdvanceSuite DEF AuditBinarySymbols
<1>4. CASE RunNativeX86
  BY <1>0, <1>4, AdvanceSuite DEF RunNativeX86
<1>5. CASE RunQemuRiscv
  BY <1>0, <1>5 DEF RunQemuRiscv
<1>6. CASE SkipSuite
  BY <1>0, <1>6, AdvanceSuite DEF SkipSuite
<1>7. CASE CheckStatusLine
  BY <1>0, <1>7 DEF CheckStatusLine, Abort
<1>8. CASE CheckNoCrash
  BY <1>0, <1>8, AdvanceSuite DEF CheckNoCrash, Abort
<1>9. CASE RunEpsilonDiff
  BY <1>0, <1>9, AdvanceSuite DEF RunEpsilonDiff
<1>10. CASE GenerateValidationReport
  BY <1>0, <1>10 DEF GenerateValidationReport
<1>11. CASE Exit
  <2>1. CASE exit' # 0
    BY <2>1
  <2>2. CASE exit' = 0
    <3>1. pc = "exit" /\ OVERALL_RC = 0 /\ UNCHANGED <<built, native, files, run, BINARY_RC>>
      BY <1>11, <2>2 DEF Exit
    <3> SUFFICES ASSUME NEW s \in Suites, NEW p \in built[s]
                 PROVE  /\ ~Misbehaves(p)
                        /\ BINARY_RC[s] = {0}
                        /\ riscvFile[s] = {[run |-> run, program |-> p]}
                        /\ \A n \in native[s] : Agree(n, p.output)
      BY <3>1
    <3>2. Audited(s) /\ QemuRun(s) /\ StatusChecked(s) /\ Tried(s) /\ Diffed(s)
      BY <3>1 DEF Audited, QemuRun, StatusChecked, Tried, Diffed, AfterQemu, AfterNative, AfterAudit
    <3>3. p.rc = 0 /\ BINARY_RC[s] = {0} /\ riscvFile[s] = {[run |-> run, program |-> p]}
      BY <3>1, <3>2 DEF Found, QemuFound
    <3>4. ~p.x86 /\ p.status # "fail" /\ ~p.crash
      BY <3>1, <3>2 DEF Found, AuditFound, ChecksFound
    <3>5. \A n \in native[s] : Agree(n, p.output)
      BY <3>1, <3>2 DEF Found, DiffFound
    <3> QED
      BY <3>3, <3>4, <3>5 DEF Misbehaves
  <2> QED
    BY <2>1, <2>2
<1>12. ASSUME NEW s \in Suites, Rebuild(s) PROVE PassIsEarned'
  BY <1>12 DEF Rebuild
<1>13. CASE UNCHANGED vars
  BY <1>13 DEF vars
<1> QED
  BY <1>1, <1>2, <1>3, <1>4, <1>5, <1>6, <1>7, <1>8, <1>9, <1>10, <1>11, <1>12, <1>13
  DEF Next, Script, Done

(* Every step keeps what the report says of this run.                      *)
LEMMA NextReport ==
  TypeOK /\ Shape /\ ReportAtTheEnd /\ [Next]_vars => ReportAtTheEnd'
<1> SUFFICES ASSUME TypeOK, Shape, ReportAtTheEnd, [Next]_vars PROVE ReportAtTheEnd'
  OBVIOUS
<1> USE DEF ReportAtTheEnd, files
<1>0. k \in Suites
  BY DEF TypeOK
<1>1. CASE Start
  <2>1. \A r \in report : r.run # run'
    BY <1>1, Bounds DEF Start, TypeOK
  <2> QED
    BY <1>1, <2>1 DEF Start
<1>2. CASE CheckPrerequisites
  BY <1>0, <1>2 DEF CheckPrerequisites
<1>3. CASE AuditBinarySymbols
  BY <1>0, <1>3, AdvanceSuite DEF AuditBinarySymbols
<1>4. CASE RunNativeX86
  BY <1>0, <1>4, AdvanceSuite DEF RunNativeX86
<1>5. CASE RunQemuRiscv
  BY <1>0, <1>5 DEF RunQemuRiscv
<1>6. CASE SkipSuite
  BY <1>0, <1>6, AdvanceSuite DEF SkipSuite
<1>7. CASE CheckStatusLine
  BY <1>0, <1>7 DEF CheckStatusLine, Abort
<1>8. CASE CheckNoCrash
  BY <1>0, <1>8, AdvanceSuite DEF CheckNoCrash, Abort
<1>9. CASE RunEpsilonDiff
  BY <1>0, <1>9, AdvanceSuite DEF RunEpsilonDiff
<1>10. CASE GenerateValidationReport
  BY <1>0, <1>10 DEF GenerateValidationReport
<1>11. CASE Exit
  BY <1>0, <1>11 DEF Exit
<1>12. ASSUME NEW s \in Suites, Rebuild(s) PROVE ReportAtTheEnd'
  BY <1>12 DEF Rebuild
<1>13. CASE UNCHANGED vars
  BY <1>13 DEF vars
<1> QED
  BY <1>1, <1>2, <1>3, <1>4, <1>5, <1>6, <1>7, <1>8, <1>9, <1>10, <1>11, <1>12, <1>13
  DEF Next, Script, Done

(* The exit code is the report's verdict.                                  *)
LEMMA NextMatches ==
  TypeOK /\ Shape /\ ReportMatchesExit /\ ReportAtTheEnd /\ [Next]_vars
    => ReportMatchesExit'
<1> SUFFICES ASSUME TypeOK, Shape, ReportMatchesExit, ReportAtTheEnd, [Next]_vars
             PROVE  ReportMatchesExit'
  OBVIOUS
<1> USE DEF ReportMatchesExit, ReportAtTheEnd, files
<1>0. k \in Suites
  BY DEF TypeOK
<1>1. CASE Start
  <2>1. \A r \in report : r.run # run'
    BY <1>1, Bounds DEF Start, TypeOK
  <2> QED
    BY <1>1, <2>1 DEF Start
<1>2. CASE CheckPrerequisites
  BY <1>0, <1>2 DEF CheckPrerequisites
<1>3. CASE AuditBinarySymbols
  BY <1>0, <1>3, AdvanceSuite DEF AuditBinarySymbols
<1>4. CASE RunNativeX86
  BY <1>0, <1>4, AdvanceSuite DEF RunNativeX86
<1>5. CASE RunQemuRiscv
  BY <1>0, <1>5 DEF RunQemuRiscv
<1>6. CASE SkipSuite
  BY <1>0, <1>6, AdvanceSuite DEF SkipSuite
<1>7. CASE CheckStatusLine
  BY <1>0, <1>7 DEF CheckStatusLine, Abort
<1>8. CASE CheckNoCrash
  BY <1>0, <1>8, AdvanceSuite DEF CheckNoCrash, Abort
<1>9. CASE RunEpsilonDiff
  BY <1>0, <1>9, AdvanceSuite DEF RunEpsilonDiff
<1>10. CASE GenerateValidationReport
  BY <1>0, <1>10 DEF GenerateValidationReport
<1>11. CASE Exit
  BY <1>0, <1>11 DEF Exit
<1>12. ASSUME NEW s \in Suites, Rebuild(s) PROVE ReportMatchesExit'
  BY <1>12 DEF Rebuild
<1>13. CASE UNCHANGED vars
  BY <1>13 DEF vars
<1> QED
  BY <1>1, <1>2, <1>3, <1>4, <1>5, <1>6, <1>7, <1>8, <1>9, <1>10, <1>11, <1>12, <1>13
  DEF Next, Script, Done

(* The report is written after the last suite.                             *)
LEMMA NextComplete ==
  TypeOK /\ Shape /\ ReportIsComplete /\ ReportAtTheEnd /\ QemuFound /\ [Next]_vars
    => ReportIsComplete'
<1> SUFFICES ASSUME TypeOK, Shape, ReportIsComplete, ReportAtTheEnd, QemuFound, [Next]_vars
             PROVE  ReportIsComplete'
  OBVIOUS
<1> USE DEF ReportIsComplete, ReportAtTheEnd, files
<1>0. k \in Suites
  BY DEF TypeOK
<1>1. CASE Start
  <2>1. \A r \in report : r.run # run'
    BY <1>1, Bounds DEF Start, TypeOK
  <2> QED
    BY <1>1, <2>1 DEF Start
<1>2. CASE CheckPrerequisites
  BY <1>0, <1>2 DEF CheckPrerequisites
<1>3. CASE AuditBinarySymbols
  BY <1>0, <1>3, AdvanceSuite DEF AuditBinarySymbols
<1>4. CASE RunNativeX86
  BY <1>0, <1>4, AdvanceSuite DEF RunNativeX86
<1>5. CASE RunQemuRiscv
  BY <1>0, <1>5 DEF RunQemuRiscv
<1>6. CASE SkipSuite
  BY <1>0, <1>6, AdvanceSuite DEF SkipSuite
<1>7. CASE CheckStatusLine
  BY <1>0, <1>7 DEF CheckStatusLine, Abort
<1>8. CASE CheckNoCrash
  BY <1>0, <1>8, AdvanceSuite DEF CheckNoCrash, Abort
<1>9. CASE RunEpsilonDiff
  BY <1>0, <1>9, AdvanceSuite DEF RunEpsilonDiff
<1>10. CASE GenerateValidationReport
  <2>1. \A s \in Suites : built[s] # {} => BINARY_RC[s] # {}
    BY <1>10 DEF GenerateValidationReport, QemuFound, QemuRun, Tried, AfterQemu
  <2> QED
    BY <1>10, <2>1 DEF GenerateValidationReport
<1>11. CASE Exit
  BY <1>0, <1>11 DEF Exit
<1>12. ASSUME NEW s \in Suites, Rebuild(s) PROVE ReportIsComplete'
  BY <1>12 DEF Rebuild
<1>13. CASE UNCHANGED vars
  BY <1>13 DEF vars
<1> QED
  BY <1>1, <1>2, <1>3, <1>4, <1>5, <1>6, <1>7, <1>8, <1>9, <1>10, <1>11, <1>12, <1>13
  DEF Next, Script, Done

(* Every step keeps the invariant.                                         *)
LEMMA NextIInv == IInv /\ [Next]_vars => IInv'
BY NextTypeOK, NextBuilt, NextAudit, NextNative, NextQemu, NextChecks, NextDiff,
   NextOneOutput, NextDiffIsCurrent,
   NextVerdict, NextFailure, NextPass, NextReport, NextMatches, NextComplete
DEF IInv, Found

-----------------------------------------------------------------------------

(* The inductive invariant holds throughout.                               *)
THEOREM ValidateInvariant == Spec => []IInv
BY InitIInv, NextIInv, PTL DEF Spec

(* Every variable keeps its type.                                          *)
THEOREM ValidateTypeCorrect == Spec => []TypeOK
<1>1. IInv => TypeOK
  BY DEF IInv
<1> QED
  BY <1>1, ValidateInvariant, PTL

(* validate_qemu.sh exits with zero only after this very run has audited,  *)
(* run, checked and compared every suite that is built, whatever earlier   *)
(* runs have left in its directories.                                      *)
THEOREM ValidatePassIsEarned == Spec => []PassIsEarned
<1>1. IInv => PassIsEarned
  BY DEF IInv
<1> QED
  BY <1>1, ValidateInvariant, PTL

(* A run that fails has a suite to show for it.                            *)
THEOREM ValidateFailureIsReal == Spec => []FailureIsReal
<1>1. IInv => FailureIsReal
  BY DEF IInv
<1> QED
  BY <1>1, ValidateInvariant, PTL

(* The report of a run has the verdict the run exits with.                 *)
THEOREM ValidateReportMatchesExit == Spec => []ReportMatchesExit
<1>1. IInv => ReportMatchesExit
  BY DEF IInv
<1> QED
  BY <1>1, ValidateInvariant, PTL

(* No report is written before every suite has been run.                   *)
THEOREM ValidateReportIsComplete == Spec => []ReportIsComplete
<1>1. IInv => ReportIsComplete
  BY DEF IInv
<1> QED
  BY <1>1, ValidateInvariant, PTL

(* The diff of every suite that has two outputs of the same shape passes   *)
(* if and only if no number differs, for outputs of any length.            *)
THEOREM ValidateDiffFindsDifferences == Spec => []DiffFindsDifferences
<1>1. IInv => DiffFindsDifferences
  <2> SUFFICES ASSUME IInv, pc \in {"report", "exit"}, NEW s \in Suites,
                      NEW x \in x86File[s], NEW f \in riscvFile[s],
                      x.available, SameShape(x.output, f.program.output)
               PROVE  \E d \in diffFile[s] :
                        d.run = run /\ (d.passed <=> ~Differ(x.output, f.program.output))
    BY DEF DiffFindsDifferences
  <2>1. PICK d \in diffFile[s] :
          d.run = run /\ (d.passed <=> Agree(x.output, f.program.output))
    BY DEF IInv, DiffIsCurrent, Diffed
  <2>2. x.output \in OutputType
    <3>1. x.output \in native[s]
      BY DEF IInv, Found, NativeFound, NativeRun, AfterNative, AfterQemu
    <3>2. native[s] \in Maybe(References)
      BY DEF IInv, TypeOK
    <3> QED
      BY <3>1, <3>2, MaybeOne, ValidateAssumption
  <2>3. f.program.output \in OutputType
    <3>1. f.program \in Programs
      BY DEF IInv, TypeOK
    <3> QED
      BY <3>1, ValidateAssumption DEF ProgramType
  <2>4. Agree(x.output, f.program.output) <=> ~Differ(x.output, f.program.output)
    BY <2>2, <2>3, CompareFindsDifferences DEF Agree
  <2> QED
    BY <2>1, <2>4
<1> QED
  BY <1>1, ValidateInvariant, PTL
=============================================================================
