-------------------------------- MODULE Mpq --------------------------------
(***************************************************************************)
(* The mpq functions as they are written: each assigns the numerator and   *)
(* the denominator of its destination one after the other, in an order     *)
(* that lets the destination be one of the operands, and comparisons look  *)
(* at limb and bit counts before they multiply.  An operator of a store f  *)
(* of variables is the store the function leaves.                          *)
(***************************************************************************)
EXTENDS Words

CONSTANTS Var, Fixed, Initial, Terms, Literals, MaxShift

VARIABLES q,       \* the numerators and denominators
          call,    \* the call being made
          answer   \* what the last call returned

vars == <<q, call, answer>>

Calculator == INSTANCE MpqCalc WITH val <- q

\* mpz_gcd, and mpz_divexact_gcd by a divisor that is positive.
Gcd(x, y) == Calculator!GcdOf(x, y)
Exact(x, d) == IF x < 0 THEN -((-x) \div d) ELSE x \div d

----------------------------------------------------------------------------
(* Arithmetic.  "ROP might be identical to either operand, so don't store  *)
(* the result there until we are finished with the input operands."        *)

\* mpq_aors, where fun is mpz_add (sign 1) or mpz_sub (sign -1).
Aors(f, w, x, y, sign) ==
  LET gcd == Gcd(f[x].den, f[y].den)
      tmp1 == Exact(f[y].den, gcd) * f[x].num
      tmp2 == Exact(f[x].den, gcd) * f[y].num
      t == tmp1 + sign * tmp2
      rest == Exact(f[x].den, gcd)
      gcd2 == Gcd(t, gcd)
      simple == [f EXCEPT ![w].num = f[x].num * f[y].den + sign * (f[y].num * f[x].den)]
      divided == [f EXCEPT ![w].num = IF gcd2 = 1 THEN t ELSE Exact(t, gcd2)]
  IN  IF gcd = 1 THEN [simple EXCEPT ![w].den = simple[x].den * simple[y].den]
      ELSE [divided EXCEPT ![w].den =
              (IF gcd2 = 1 THEN divided[y].den ELSE Exact(divided[y].den, gcd2)) * rest]

Mul(f, w, x, y) ==
  LET square == [f EXCEPT ![w].num = f[x].num * f[x].num]
      gcd1 == Gcd(f[x].num, f[y].den)
      gcd2 == Gcd(f[y].num, f[x].den)
      num == [f EXCEPT ![w].num = Exact(f[x].num, gcd1) * Exact(f[y].num, gcd2)]
  IN  IF x = y THEN [square EXCEPT ![w].den = square[x].den * square[x].den]
      ELSE [num EXCEPT ![w].den = Exact(num[y].den, gcd1) * Exact(num[x].den, gcd2)]

\* Mutant: without numtmp, the numerator is stored before the denominator.
DivNumFirst(f, w, x, y) ==
  LET gcd1 == Gcd(f[x].num, f[y].num)
      gcd2 == Gcd(f[y].den, f[x].den)
      num == [f EXCEPT ![w].num = Exact(f[x].num, gcd1) * Exact(f[y].den, gcd2)]
      den == [num EXCEPT ![w].den = Exact(num[y].num, gcd1) * Exact(num[x].den, gcd2)]
  IN  IF den[w].den < 0 THEN [den EXCEPT ![w].den = -den[w].den, ![w].num = -num[w].num] ELSE den

\* The denominator first: its operands are both numerators and denominators.
Div(f, w, x, y) ==
  LET gcd1 == Gcd(f[x].num, f[y].num)
      gcd2 == Gcd(f[y].den, f[x].den)
      numtmp == Exact(f[x].num, gcd1) * Exact(f[y].den, gcd2)
      den == [f EXCEPT ![w].den = Exact(f[y].num, gcd1) * Exact(f[x].den, gcd2)]
      num == [den EXCEPT ![w].num = numtmp]
  IN  IF num[w].den < 0 THEN [num EXCEPT ![w].den = -num[w].den, ![w].num = -numtmp] ELSE num

\* The parts change places, in the same variable or from one to another, and the
\* sign stays above.
Inv(f, w, x) ==
  [f EXCEPT ![w].num = IF f[x].num < 0 THEN -f[x].den ELSE f[x].den,
            ![w].den = Abs(f[x].num)]

Canonicalize(f, w) ==
  LET gcd == Gcd(f[w].num, f[w].den)
      num == [f EXCEPT ![w].num = Exact(f[w].num, gcd)]
      both == [num EXCEPT ![w].den = Exact(num[w].den, gcd)]
  IN  IF both[w].den < 0
      THEN [both EXCEPT ![w].num = -both[w].num, ![w].den = -both[w].den] ELSE both

\* The limbs of r that mord_2exp drops: they are zero, and n reaches over them.
ZeroLimbs(r, n) == Max({i \in 0 .. n \div LimbBits : \A j \in 0 .. i - 1 : LimbAt(r, j) = 0})

\* MPN_COPY_DECR of the limbs of r from k up to the place of r itself: it begins
\* with the last one, and a limb below which the place of another one lies is read
\* after that one has been stored there.
CopiedDown(r, k) ==
  LET len == Limbs(r) - k
      dst[i \in 0 .. len - 1] == IF i + k < len THEN dst[i + k] ELSE LimbAt(r, i + k)
      Place(i) == dst[i] * B ^ i
  IN  MapThenSumSet(Place, 0 .. len - 1)

\* mord_2exp, where the number shifted right may be in its place already (rdst =
\* rsrc): r is shifted by limbs that are zero and then by the zero bits of the next
\* one, and l is shifted left for the rest of n.
Mord2exp(l, r, n, inPlace) ==
  LET limbs == ZeroLimbs(r, n)
      left == n - limbs * LimbBits
      plow == LimbAt(r, limbs)
      copied == IF inPlace /\ limbs > 0 THEN CopiedDown(r, limbs) ELSE Abs(r) \div B ^ limbs
      shift == IF plow = 0 THEN left ELSE MinOf(TrailingZeros(plow), left)
  IN  IF plow % 2 = 1 \/ left = 0 THEN [l |-> l * 2 ^ left, r |-> SignOf(r) * copied]
      ELSE [l |-> l * 2 ^ (left - shift), r |-> Exact(r, B ^ limbs * 2 ^ shift)]

Mul2exp(f, w, x, n) ==
  LET shifted == Mord2exp(f[x].num, f[x].den, n, w = x)
  IN  [f EXCEPT ![w].num = shifted.l, ![w].den = shifted.r]

Div2exp(f, w, x, n) ==
  LET shifted == Mord2exp(f[x].den, f[x].num, n, w = x)
  IN  IF f[x].num = 0 THEN [f EXCEPT ![w] = Calculator!Fraction(0, 1)]
      ELSE [f EXCEPT ![w].den = shifted.l, ![w].num = shifted.r]

----------------------------------------------------------------------------
(* Assignments: the numerator, then the denominator.                       *)

Set(f, w, x) == LET num == [f EXCEPT ![w].num = f[x].num] IN [num EXCEPT ![w].den = num[x].den]

Neg(f, w, x) ==
  LET den == IF x = w THEN f ELSE [f EXCEPT ![w].den = f[x].den] IN [den EXCEPT ![w].num = -f[x].num]

AbsQ(f, w, x) ==
  LET den == IF x = w THEN f ELSE [f EXCEPT ![w].den = f[x].den] IN [den EXCEPT ![w].num = Abs(f[x].num)]

Swap(f, w, x) ==
  LET nums == [f EXCEPT ![x].num = f[w].num, ![w].num = f[x].num]
  IN  [nums EXCEPT ![x].den = f[w].den, ![w].den = f[x].den]

SetZ(f, w, z) == [f EXCEPT ![w].num = z, ![w].den = 1]
SetNum(f, w, z) == [f EXCEPT ![w].num = z]
SetDen(f, w, z) == [f EXCEPT ![w].den = z]

\* "Canonicalize 0/d to 0/1."
SetSi(f, w, n, d) == [f EXCEPT ![w] = Calculator!Fraction(n, IF n = 0 THEN 1 ELSE d)]

----------------------------------------------------------------------------
(* Comparisons.                                                            *)

BitLength(x) == Limbs(x) * LimbBits - LeadingZeros(LimbAt(x, Limbs(x) - 1))

\* mpq_cmp_numden: by sign, by sizes in limbs, by sizes in bits, and at last by
\* the products, where num1 * 1 is left as it is.
CmpNumden(op1, num2, den2) ==
  LET isInt == IF den2 = 1 THEN 1 ELSE 0
      size1 == Limbs(op1.num) + Limbs(den2)
      size2 == Limbs(num2) + Limbs(op1.den)
      bits1 == BitLength(op1.num) + BitLength(den2)
      bits2 == BitLength(num2) + BitLength(op1.den)
      sign == SignOf(op1.num)
  IN  IF op1.num = 0 THEN -SignOf(num2)
      ELSE IF num2 = 0 \/ ~SameSign(op1.num, num2) THEN sign
      ELSE IF isInt = 1 /\ op1.den = 1
      THEN IF Siz(op1.num) # Siz(num2) THEN SignOf(Siz(op1.num) - Siz(num2))
           ELSE sign * SignOf(Abs(op1.num) - Abs(num2))
      ELSE IF size1 > size2 + 1 THEN sign
      ELSE IF size2 + isInt > size1 + 1 THEN -sign
      ELSE IF bits1 > bits2 + 1 THEN sign
      ELSE IF bits2 + isInt > bits1 + 1 THEN -sign
      ELSE sign * SignOf(Abs(op1.num) * den2 - Abs(num2) * op1.den)

\* _mpq_cmp_ui and, by absolute values, _mpq_cmp_si.
CmpUi(op1, n, d) ==
  IF op1.num = 0 THEN (IF n # 0 THEN -1 ELSE 0)
  ELSE IF op1.num < 0 \/ n = 0 THEN SignOf(op1.num)
  ELSE IF Limbs(op1.num) > Limbs(op1.den) + 1 THEN 1
  ELSE IF Limbs(op1.den) > Limbs(op1.num) + 1 THEN -1
  ELSE SignOf(op1.num * d - op1.den * n)

CmpSi(op1, n, d) ==
  IF op1.num >= 0 THEN (IF n >= 0 THEN CmpUi(op1, n, d) ELSE 1)
  ELSE IF n >= 0 THEN -1 ELSE -CmpUi(Calculator!Fraction(-op1.num, op1.den), -n, d)

\* mpq_equal
Equal(op1, op2) == op1.num = op2.num /\ op1.den = op2.den

----------------------------------------------------------------------------
Init == Calculator!Init
Invoke == Calculator!Invoke

DivideByZero ==
  \/ call.fn = "div" /\ q[call.y].num = 0
  \/ call.fn = "inv" /\ q[call.x].num = 0
  \/ call.fn = "canonicalize" /\ q[call.w].den = 0

\* Call fn is made: it leaves the variables as they are in store.
Does(fn, store) ==
  /\ call.fn = fn
  /\ ~DivideByZero
  /\ q' = store
  /\ answer' = 0
  /\ call' = Calculator!NoCall

Answers(fn, value) ==
  /\ call.fn = fn
  /\ answer' = value
  /\ call' = Calculator!NoCall
  /\ UNCHANGED q

Operand(x) == IF call.part = "num" THEN q[x].num ELSE q[x].den

Raise ==
  /\ DivideByZero
  /\ call' = Calculator!Raised
  /\ UNCHANGED <<q, answer>>

Next ==
  \/ Invoke
  \/ Does("add", Aors(q, call.w, call.x, call.y, 1))
  \/ Does("sub", Aors(q, call.w, call.x, call.y, -1))
  \/ Does("mul", Mul(q, call.w, call.x, call.y))
  \/ Does("div", Div(q, call.w, call.x, call.y))
  \/ Does("inv", Inv(q, call.w, call.x))
  \/ Does("canonicalize", Canonicalize(q, call.w))
  \/ Does("mul_2exp", Mul2exp(q, call.w, call.x, call.k))
  \/ Does("div_2exp", Div2exp(q, call.w, call.x, call.k))
  \/ Does("set", Set(q, call.w, call.x))
  \/ Does("neg", Neg(q, call.w, call.x))
  \/ Does("abs", AbsQ(q, call.w, call.x))
  \/ Does("swap", Swap(q, call.w, call.x))
  \/ Does("set_z", SetZ(q, call.w, Operand(call.x)))
  \/ Does("set_num", SetNum(q, call.w, Operand(call.x)))
  \/ Does("set_den", SetDen(q, call.w, Operand(call.x)))
  \/ Does("set_si", SetSi(q, call.w, call.n, call.d))
  \/ Answers("cmp", CmpNumden(q[call.x], q[call.y].num, q[call.y].den))
  \/ Answers("cmp_z", CmpNumden(q[call.x], Operand(call.y), 1))
  \/ Answers("cmp_si", CmpSi(q[call.x], call.n, call.d))
  \/ Answers("equal", IF Equal(q[call.x], q[call.y]) THEN 1 ELSE 0)
  \/ Raise

Spec == Init /\ [][Next]_vars

----------------------------------------------------------------------------
\* Whatever is the same variable, a shift by a power of two gives the exact result in
\* canonical form and leaves the other variables alone.
ShiftsExact == [][call.fn \in {"mul_2exp", "div_2exp"} => Calculator!Complete]_vars

\* The calls of which mord_2exp copies two limbs or more onto limbs it has not read:
\* the number is in its place, a zero limb is dropped, and no bits are left to shift.
OverlappingCopy ==
  /\ call.fn \in {"mul_2exp", "div_2exp"}
  /\ call.w = call.x
  /\ LET r == IF call.fn = "mul_2exp" THEN q[call.x].den ELSE q[call.x].num
         limbs == ZeroLimbs(r, call.k)
     IN  /\ limbs > 0
         /\ Limbs(r) >= limbs + 2
         /\ LimbAt(r, limbs) % 2 = 1 \/ call.k = limbs * LimbBits

\* What is left of the promise for them: the numbers have the signs and the sizes of
\* the result, and no other variable changes.
RightSizes ==
  LET after == Calculator!After(call, q)
  IN  /\ \A v \in Var \ {call.w} : q'[v] = q[v]
      /\ Siz(q'[call.w].num) = Siz(after[call.w].num)
      /\ Siz(q'[call.w].den) = Siz(after[call.w].den)
      /\ answer' = 0
      /\ call' = Calculator!NoCall

\* Whatever is the same variable, arithmetic on canonical operands gives the exact
\* result in canonical form and leaves the other variables alone, and comparisons
\* answer for the values; the overlapping copy of md_2exp.c alone gives a wrong
\* number, of the right size.
Implements == Init /\ [][Calculator!Next \/ (OverlappingCopy /\ RightSizes)]_vars

=============================================================================
