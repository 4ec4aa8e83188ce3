---------------------------- MODULE CompareOutputs ----------------------------
(***************************************************************************)
(* validation/compare_outputs.py: which numbers of two captured outputs    *)
(* are compared with each other, and the verdict.                          *)
(*                                                                         *)
(* An output is a sequence of lines.  A line that mentions PASS, FAIL, OK, *)
(* STATUS and the like is a verdict line.  A field of a line is a number:  *)
(* its value, <<>> for one that is printed as a NaN or an infinity, with   *)
(* the form it has:                                                        *)
(*   "equals"  label = number, or label: number                            *)
(*   "err"     label=number without blanks, with a label that ends in err  *)
(*   "norm"    label = number, with a label that ends in norm              *)
(*   "spaced"  label number, with a decimal point                          *)
(*   "bare"    anything else, as after a label with a closing parenthesis  *)
(* Two numbers within one of the three tolerances are the same value.      *)
(***************************************************************************)
EXTENDS Integers, SequencesExt

Forms == {"equals", "err", "norm", "spaced", "bare"}

FieldType  == [form : Forms, value : Seq(Int)]
LineType   == [verdict : BOOLEAN, fields : Seq(FieldType)]
OutputType == Seq(LineType)

(* The forms each of NUMERIC_PATTERNS finds.  They overlap, so that some   *)
(* numbers are extracted twice.                                            *)
Patterns == <<{"equals", "err", "norm"}, {"spaced"}, {"err"}, {"norm"}>>

(* should_skip                                                             *)
Skipped(line) == line.verdict

(* The numbers of a line that one pattern finds.                           *)
Matches(line, forms) ==
  FlattenSeq([i \in 1 .. Len(line.fields) |->
    IF line.fields[i].form \in forms /\ line.fields[i].value # <<>>
    THEN <<line.fields[i]>> ELSE <<>>])

(* All of them: those of the first pattern, of the second, ...             *)
Entries(line) ==
  FlattenSeq([n \in 1 .. Len(Patterns) |-> Matches(line, Patterns[n])])

ExtractNumerics(output) ==
  FlattenSeq([n \in 1 .. Len(output) |->
    IF Skipped(output[n]) THEN <<>> ELSE Entries(output[n])])

Shorter(a, b) == IF Len(a) <= Len(b) THEN Len(a) ELSE Len(b)

(* Slip: the last pair is left out.                                        *)
MutCompareFiles(x86, riscv) ==
  LET x == ExtractNumerics(x86)
      r == ExtractNumerics(riscv)
      pairs == 1 .. Shorter(x, r) - 1
  IN  [total |-> Cardinality(pairs),
       failed |-> Cardinality({n \in pairs : x[n].value # r[n].value})]

(* The numbers are paired by position, up to the end of the shorter list.  *)
CompareFiles(x86, riscv) ==
  LET x == ExtractNumerics(x86)
      r == ExtractNumerics(riscv)
      pairs == 1 .. Shorter(x, r)
  IN  [total |-> Cardinality(pairs),
       failed |-> Cardinality({n \in pairs : x[n].value # r[n].value})]

(* The exit code.                                                          *)
CompareOutputs(x86, riscv) == IF CompareFiles(x86, riscv).failed = 0 THEN 0 ELSE 1

-----------------------------------------------------------------------------

(* What the comparison is for, without lists and positions: two outputs    *)
(* have the same lines with the same fields, numbers where the other has   *)
(* numbers ...                                                             *)
SameShape(x86, riscv) ==
  /\ Len(x86) = Len(riscv)
  /\ \A n \in 1 .. Len(x86) :
       /\ x86[n].verdict = riscv[n].verdict
       /\ Len(x86[n].fields) = Len(riscv[n].fields)
       /\ \A i \in 1 .. Len(x86[n].fields) :
            LET f == x86[n].fields[i]
                g == riscv[n].fields[i]
            IN  f.form = g.form /\ (f.value = <<>> <=> g.value = <<>>)

(* ... and somewhere, but for verdict lines and bare numbers, another one. *)
Differ(x86, riscv) ==
  \E n \in 1 .. Len(x86) :
    /\ ~x86[n].verdict
    /\ \E i \in 1 .. Len(x86[n].fields) :
         /\ x86[n].fields[i].form # "bare"
         /\ x86[n].fields[i].value # riscv[n].fields[i].value
=============================================================================
