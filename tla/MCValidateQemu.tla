---------------------------- MODULE MCValidateQemu ----------------------------
(* Instances of ValidateQemu: two suites and two runs, so that a run finds  *)
(* files another one left, and a suite that ends the script has one after   *)
(* it.  The programs are a clean one, one that only prints NaNs and no      *)
(* STATUS line, a failing, a hanging and a crashing one, and a clean one    *)
(* with x86 code in it.                                                     *)
EXTENDS ValidateQemu

Field(form, v) == [form |-> form, value |-> <<v>>]
Line(fields)        == [verdict |-> FALSE, fields |-> fields]
VerdictLine(fields) == [verdict |-> TRUE, fields |-> fields]

(* As blas_smoke does: a norm that two patterns find, a plain number, and a *)
(* line with a verdict, whose number differs all the time.                  *)
Smoke(a, b, c) ==
  <<Line(<<Field("norm", a), Field("spaced", a)>>), Line(<<Field("equals", b)>>),
    VerdictLine(<<Field("err", c)>>)>>

NaNs == <<Line(<<[form |-> "norm", value |-> <<>>], [form |-> "spaced", value |-> <<>>]>>)>>

Program(rc, status, crash, output, x86) ==
  [rc |-> rc, status |-> status, crash |-> crash, output |-> output, x86 |-> x86]

MCPrograms ==
  {Program(0, "pass", FALSE, Smoke(1, 2, 3), FALSE),
   Program(0, "none", FALSE, NaNs, FALSE),
   Program(1, "fail", FALSE, Smoke(1, 2, 3), FALSE),
   Program(124, "none", FALSE, SubSeq(Smoke(1, 2, 3), 1, 1), FALSE),
   Program(139, "none", TRUE, <<>>, FALSE),
   Program(0, "pass", FALSE, Smoke(1, 2, 3), TRUE)}

MCReferences == {Smoke(1, 2, 4), Smoke(1, 5, 4)}
=============================================================================
