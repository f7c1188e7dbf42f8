------------------------------ MODULE MCManual ------------------------------
(* Promises that the manual and the comments make of mpf, and calls that     *)
(* break them.  A behaviour is any sequence of the calls below, and          *)
(* remembers which promises it saw broken.                                   *)
EXTENDS MCNumbers

VARIABLE broken  \* the promises that the calls before this one have broken

vars == <<task, broken>>

Ones(n, e) == Float(FALSE, B ^ n - 1, n, e)
One(e) == Float(FALSE, 1, 1, e)
Padding(k, n) == Float(FALSE, k * B ^ (n - 1), n, 1)
Tasks ==
  [fn : {"mpf_add"}, u : {Ones(3, 3), Ones(4, 4)}, v : {One(1), One(2)}]
    \cup [fn : {"mpf_add_ui"}, u : {Ones(3, 3), Ones(4, 4)}, k : {1, 2}]
    \cup [fn : {"mpf_sub"}, u : {One(1), Ones(2, 1)}, v : {One(0), One(-4)}]
    \cup [fn : {"mpf_mul"}, u : {Float(FALSE, m, 4, 0) : m \in {132, 135}}, v : {Ones(4, 0), Float(FALSE, 127, 4, 0)}]
    \cup [fn : {"mpf_ui_sub"}, v : {Ones(2, 0), Ones(5, 0), Padding(1, 1), Padding(1, 2)}, k : {1, 2}]
    \cup [fn : {"mpf_fits"}, u : {Float(neg, 1, 1, e) : neg \in Signs, e \in {0, 1}}, k : {B - 1}]
    \cup [fn : {"mpf_ceil"}, u : {Ones(2, 2), Float(FALSE, B ^ 3 + 1, 4, 4), Float(FALSE, B ^ 4 + 1, 5, 5)}]

\* Whatever the precision of a truncation is, the highest limb survives it.
Truncated(r, value) ==
  LET low == LowOf(r, value) IN Cut(In(r, low), 1) = Cut(Units(value, low), 1)

\* An error not larger than the value itself, so that at least the sign is certain.
Informs(r, value) ==
  LET low == LowOf(r, value) IN Abs(In(r, low) - Units(value, low)) <= Abs(Units(value, low))

\* The promises the last call was to keep, each with whether it has:
\*  - of mpf_add, mpf_add_ui, mpf_sub and mpf_mul, "Each function is defined to calculate
\*    with ``infinite precision'' followed by a truncation" (mpir.texi:4402);
\*  - of mpf_ui_sub, that the same words leave an error less than the difference;
\*  - "Zero is represented by _mp_size and _mp_exp both set to zero" (mpir.texi:9794);
\*  - mpf_fits_ulong_p is "non-zero if op would fit in the respective C data type, when
\*    truncated to an integer" (mpir.texi:4921);
\*  - "mpf_ceil and mpf_floor are equivalent to mpf_set if u is already an integer"
\*    (ceilfloor.c:28).
Keeps(promise) ==
  Asked({promise}) =>
    CASE promise = "mpf_add" -> Truncated(Add(task.u, task.v, Prec), SumOf(task.u, task.v))
      [] promise = "mpf_add_ui" -> Truncated(AddUi(task.u, task.k, Prec), SumOf(task.u, SetUi(task.k)))
      [] promise = "mpf_sub" -> Truncated(Sub(task.u, task.v, Prec), DifferenceOf(task.u, task.v))
      [] promise = "mpf_mul" -> Truncated(Mul(task.u, task.v, Prec), ProductOf(task.u, task.v))
      [] promise = "mpf_ui_sub" -> Informs(UiSub(task.k, task.v, Prec), DifferenceOf(SetUi(task.k), task.v))
      [] promise = "mpf_fits" -> FitsU(task.u, task.k) = (Whole(task.u) \in 0 .. task.k)
      [] promise = "mpf_ceil" -> HasFraction(task.u) \/ CeilOrFloor(task.u, FALSE, Prec) = Set(task.u, Prec)

\* A zero is always stored the same way.
KeepsZero == Asked({"mpf_ui_sub"}) => LET r == UiSub(task.k, task.v, Prec) IN r.n = 0 => r.e = 0

Promises == {"mpf_add", "mpf_add_ui", "mpf_sub", "mpf_mul", "mpf_ui_sub", "mpf_fits", "mpf_ceil"}
Broken == {promise \in Promises : ~Keeps(promise)} \cup {promise \in {"zero"} : ~KeepsZero}

Init == task \in Tasks /\ broken = {}
Next == broken' = broken \cup Broken /\ task' \in Tasks
Spec == Init /\ [][Next]_vars

\* At least one of the promises is kept by every call.  A counterexample is a sequence
\* of calls that break them all, each call one of them.
SomePromiseKept == broken # Promises \cup {"zero"}

=============================================================================
