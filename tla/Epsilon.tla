-------------------------------- MODULE Epsilon --------------------------------
(***************************************************************************)
(* Errors and the comparisons made of them: the array checks of            *)
(* validation/epsilon.h and the maximum the suites of harness/ compute for *)
(* themselves.                                                             *)
(*                                                                         *)
(* An error is the distance of a result from its reference, by all that a  *)
(* comparison with a threshold can tell: none to speak of, exactly the     *)
(* threshold, more than that, or a NaN, with which every comparison of     *)
(* IEEE 754 but # is false.                                                *)
(***************************************************************************)
EXTENDS Integers, Sequences

NaN    == -1
Eps    == 1
Above  == 2
Errors == {NaN, 0, Eps, Above}

Gt(a, b) == a # NaN /\ b # NaN /\ a > b
Lt(a, b) == Gt(b, a)
Le(a, b) == a # NaN /\ b # NaN /\ a <= b

-----------------------------------------------------------------------------

(* if (d > m) m = d.                                                       *)
Raise(m, d) == IF Gt(d, m) THEN d ELSE m

(* Slip: fabs of the last element and no maximum.                          *)
MutMaxErr(ds) == ds[Len(ds)]

(* dmax_err of one suite, max_abs_err_d of another, the loops of the rest. *)
MaxErr(ds) ==
  LET m[i \in 0 .. Len(ds)] == IF i = 0 THEN 0 ELSE Raise(m[i - 1], ds[i])
  IN  m[Len(ds)]

(* rvforge_check_double with CMP_ABSOLUTE: what has to hold is passed, so  *)
(* that a NaN is not.                                                      *)
CheckDouble(err) == [passed |-> Le(err, Eps), actual_error |-> err]

CheckBegin == [all_pass |-> TRUE, max_err |-> 0, max_idx |-> 0]

rvforge_check_array(ds) ==
  LET after[i \in 0 .. Len(ds)] ==
        IF i = 0 THEN CheckBegin
        ELSE LET s == after[i - 1]
                 r == CheckDouble(ds[i])
             IN [all_pass |-> s.all_pass /\ r.passed,
                 max_err  |-> Raise(s.max_err, r.actual_error),
                 max_idx  |-> IF Gt(r.actual_error, s.max_err) THEN i - 1 ELSE s.max_idx]
  IN  after[Len(ds)]

(* Slip: fails whatever is not within epsilon, as the check for doubles.   *)
MutCheckArrayF(ds) == rvforge_check_array(ds)

(* What must not hold is tested, so that a NaN passes; and once an element *)
(* has failed, each one after it takes the place of the maximum.           *)
rvforge_check_array_f(ds) ==
  LET after[i \in 0 .. Len(ds)] ==
        IF i = 0 THEN CheckBegin
        ELSE LET s == after[i - 1]
                 replaced == ~s.all_pass \/ Gt(ds[i], s.max_err)
             IN [all_pass |-> s.all_pass /\ ~Gt(ds[i], Eps),
                 max_err  |-> IF replaced THEN ds[i] ELSE s.max_err,
                 max_idx  |-> IF replaced THEN i - 1 ELSE s.max_idx]
  IN  after[Len(ds)]
=============================================================================
