------------------------------- MODULE Jacobi -------------------------------
(***************************************************************************)
(* Jacobi and Kronecker symbols.  The steps are those of the gcd; the sign *)
(* changes of the law of reciprocity and of the factors of two are         *)
(* gathered on the way, in one bit, and long operands keep in "bits" the   *)
(* low two bits of both numbers besides, so that a quotient modulo four    *)
(* leads to the next state by a table.                                     *)
(***************************************************************************)
EXTENDS Gcd

\* The macros of gmp-impl.h.  Sign changes are counted, and their parity counts.
PlusOrMinus(changes) == IF changes % 2 = 0 THEN 1 ELSE -1
Bit1(x) == (x \div 2) % 2
Recip(a, b) == Bit1(a) * Bit1(b)
Twos(twos, b) == twos * (Bit1(b) + Bit1(b \div 2))
Minus(b) == Bit1(b)
Unit(a) == IF Abs(a) = 1 THEN 1 ELSE 0
Asgn(a, b) == IF a < 0 THEN Minus(b) ELSE 0
Bsgn(a, b) == IF a < 0 /\ b < 0 THEN 1 ELSE 0

\* Mutant: the sign change of modexact_1_odd is forgotten.
ModOddSign(a, b) ==
  IF LimbBits % 2 # 0 \/ Limbs(a) < ModexactThreshold THEN [rem |-> Abs(a) % b, changes |-> 0]
  ELSE [rem |-> ModexactOdd(a, b, 0), changes |-> 0]

\* JACOBI_MOD_OR_MODEXACT_1_ODD: "modexact_1_odd effectively calculates -a mod b".
ModOdd(a, b) ==
  IF LimbBits % 2 # 0 \/ Limbs(a) < ModexactThreshold THEN [rem |-> Abs(a) % b, changes |-> 0]
  ELSE [rem |-> ModexactOdd(a, b, 0), changes |-> Minus(b)]

----------------------------------------------------------------------------
(* One and two limbs.                                                      *)

\* mpn_jacobi_base, b odd and greater than one.
RECURSIVE JacobiBase(_, _, _)
JacobiBase(a, b, changes) ==
  LET odd == StripTwos(a)
      now == changes + Twos(TrailingZeros(a), b)
  IN  IF a = 0 THEN 0
      ELSE IF odd = 1 THEN PlusOrMinus(now)
      ELSE IF odd >= b THEN JacobiBase(odd - b, b, now)
      ELSE JacobiBase(b - odd, odd, now + Recip(odd, b))

\* "Compute (a|b), with b a single limb."
RECURSIVE JacobiReduced(_, _, _)
JacobiReduced(a, b, changes) ==
  LET rest == a - b
      zeros == TrailingZeros(Lo(rest))
      high == TrailingZeros(Hi(rest))
  IN  IF b = 1 THEN PlusOrMinus(changes)
      ELSE IF Hi(a) = 0 THEN JacobiBase(a, b, changes)
      ELSE IF rest = 0 THEN 0
      ELSE IF Lo(rest) = 0
      THEN JacobiBase(Hi(rest) \div 2 ^ high, b, changes + Twos(LimbBits + high, b))
      ELSE JacobiReduced(rest \div 2 ^ zeros, b, changes + Twos(zeros, b))

\* The high limbs are equal, and cancel.
JacobiCancel(a, b, changes) ==
  LET less == MinOf(a, b)
      diff == MaxOf(a, b) - less
      zeros == TrailingZeros(diff)
      odd == diff \div 2 ^ zeros
      now == changes + (IF a < b THEN Recip(a, b) ELSE 0) + Twos(zeros, less)
  IN  IF diff = 0 THEN 0
      ELSE IF odd = 1 THEN PlusOrMinus(now)
      ELSE JacobiReduced(less, odd, now + Recip(odd, less))

\* Both odd, and a of two limbs: "Compute (a|b)", and in turn "Compute (b|a)".
RECURSIVE JacobiLoop(_, _, _)
JacobiLoop(a, b, changes) ==
  LET diff == a - b
      zeros == TrailingZeros(Lo(diff))
      high == TrailingZeros(Hi(diff))
      odd == Hi(diff) \div 2 ^ high
  IN  IF Hi(b) = 0 THEN JacobiReduced(a, b, changes)
      ELSE IF Hi(a) = Hi(b) THEN JacobiCancel(a, b, changes)
      ELSE IF Hi(a) < Hi(b) THEN JacobiLoop(b, a, changes + Recip(a, b))
      ELSE IF Lo(diff) = 0
      THEN JacobiReduced(b, odd, changes + Twos(LimbBits + high, b) + Recip(b, odd))
      ELSE JacobiLoop(diff \div 2 ^ zeros, b, changes + Twos(zeros, b))

\* mpn_jacobi_2, method 2.
Jacobi2(a, b, changes) ==
  LET high == TrailingZeros(Hi(a))
      odd == Hi(a) \div 2 ^ high
      now == changes + Twos(TrailingZeros(Lo(a)), b)
      x == StripLow(a)
  IN  IF b = 1 THEN PlusOrMinus(changes)
      ELSE IF a = 0 THEN 0
      ELSE IF Lo(a) = 0 /\ odd = 1 THEN PlusOrMinus(changes + Twos(LimbBits + high, b))
      ELSE IF Lo(a) = 0
      THEN JacobiReduced(b, odd, changes + Twos(LimbBits + high, b) + Recip(b, odd))
      ELSE IF Hi(x) # 0 THEN JacobiLoop(x, b, now)
      ELSE IF Hi(b) # 0 THEN JacobiReduced(b, x, now + Recip(x, b))
      ELSE JacobiBase(x, b, now)

----------------------------------------------------------------------------
(* The bits of long operands.                                              *)

jacobi_table ==
  << 0, 0, 0, 0, 0,12, 8, 4, 1, 1, 1, 1, 1,13, 9, 5, 2, 2, 2, 2, 2, 6,10,14, 3, 3, 3, 3, 3, 7,11,15,
     4,16, 6,18, 4, 0,12, 8, 5,17, 7,19, 5, 1,13, 9, 6,18, 4,16, 6,10,14, 2, 7,19, 5,17, 7,11,15, 3,
     8,10, 9,11, 8, 4, 0,12, 9,11, 8,10, 9, 5, 1,13,10, 9,11, 8,10,14, 2, 6,11, 8,10, 9,11,15, 3, 7,
    12,22,24,20,12, 8, 4, 0,13,23,25,21,13, 9, 5, 1,25,21,13,23,14, 2, 6,10,24,20,12,22,15, 3, 7,11,
    16, 6,18, 4,16,16,16,16,17, 7,19, 5,17,17,17,17,18, 4,16, 6,18,22,19,23,19, 5,17, 7,19,23,18,22,
    20,12,22,24,20,20,20,20,21,13,23,25,21,21,21,21,22,24,20,12,22,19,23,18,23,25,21,13,23,18,22,19,
    24,20,12,22,15, 3, 7,11,25,21,13,23,14, 2, 6,10 >>

JacobiInit(a, b, s) == 4 * (a % 4) + 2 * Bit1(b) + s
JacobiUpdate(bits, d, q) == jacobi_table[8 * bits + 4 * d + (q % 4) + 1]
JacobiUpdates(bits, steps) ==
  LET After[i \in 0 .. Len(steps)] ==
        IF i = 0 THEN bits ELSE JacobiUpdate(After[i - 1], steps[i].d, steps[i].q)
  IN  After[Len(steps)]

\* mpn_jacobi_n, with jacobi_hook; from 16 on, bits say that the numbers are swapped.
RECURSIVE JacobiN(_, _, _, _)
JacobiN(a, b, n, bits) ==
  LET m == MatrixOf(a, b, n)
      next == InverseVector(m, a, b, n)
      step == SubdivStep(a, b)
      x == IF bits >= 16 THEN b ELSE a
      y == IF bits >= 16 THEN a ELSE b
  IN  IF n > 2 /\ m.found THEN JacobiN(next.u, next.v, next.n, JacobiUpdates(bits, m.steps))
      ELSE IF n > 2 /\ step.g = 0 THEN JacobiN(step.u, step.v, step.n, JacobiUpdates(bits, step.steps))
      ELSE IF n > 2
      THEN IF step.g = 1 THEN PlusOrMinus(JacobiUpdates(bits, step.steps \o step.last)) ELSE 0
      ELSE IF n = 2 THEN Jacobi2(x, y, bits)
      ELSE IF y = 1 THEN PlusOrMinus(bits)
      ELSE JacobiBase(x, y, bits)

----------------------------------------------------------------------------
(* The functions of mpz.                                                   *)

WithoutZeroLimbs(x) == Abs(x) \div B ^ ZeroLimbs(x)
\* The sign changes of stripping low zero limbs of x.
LimbTwos(x, a) == (LimbBits % 2) * Twos(ZeroLimbs(x), a)

\* A denominator: its twos, its low limb without them, and its limbs, which are one
\* if two of them become one.
Denominator(x) ==
  LET twos == TrailingZeros(Lo(x))
      odd == x \div 2 ^ twos
  IN  [x |-> x, twos |-> twos, low |-> Lo(odd), n |-> IF Limbs(x) = 2 THEN Limbs(odd) ELSE Limbs(x)]

\* Operands that are not zero, and not both even.
JacobiOf(a, b) ==
  LET numerator == WithoutZeroLimbs(a)
      given == Denominator(WithoutZeroLimbs(b))
      swap == Limbs(numerator) < given.n
      x == IF swap THEN given.x ELSE numerator
      low == IF swap THEN given.low ELSE Lo(numerator)
      y == IF swap THEN Denominator(numerator) ELSE given
      changes == Bsgn(a, b) + LimbTwos(b, Lo(Abs(a))) + Asgn(a, given.low) + LimbTwos(a, given.low)
                   + (IF swap THEN Recip(low, y.low) ELSE 0) + Twos(y.twos, low)
      rest == IF Limbs(x) > y.n THEN x % y.x ELSE x
      odd == y.x \div 2 ^ y.twos
      shorter == y.twos > 0 /\ rest < B ^ (y.n - 1) /\ odd < B ^ (y.n - 1)
  IN  IF y.n > 1
      THEN JacobiN(rest, odd, IF shorter THEN y.n - 1 ELSE y.n, JacobiInit(Lo(rest), y.low, changes % 2))
      ELSE IF y.low = 1 THEN PlusOrMinus(changes)
      ELSE IF Limbs(x) > 1
      THEN JacobiBase(ModOdd(x, y.low).rem, y.low, changes + ModOdd(x, y.low).changes)
      ELSE JacobiBase(low, y.low, changes)

MpzJacobi(a, b) ==
  IF b = 0 THEN Unit(a)
  ELSE IF a = 0 THEN Unit(b)
  ELSE IF a % 2 = 0 /\ b % 2 = 0 THEN 0
  ELSE JacobiOf(a, b)

\* mpz_kronecker_si and, for b that are not negative, mpz_kronecker_ui.
KroneckerSi(a, b) ==
  LET odd == StripTwos(Abs(b))
      changes == Bsgn(a, b) + Twos(TrailingZeros(Abs(b)), LimbAt(a, 0))
      r == ModOdd(a, odd)
  IN  IF a = 0 THEN Unit(b)
      ELSE IF b = 0 THEN Unit(a)
      ELSE IF b % 2 = 0 /\ LimbAt(a, 0) % 2 = 0 THEN 0
      ELSE IF odd = 1 THEN PlusOrMinus(changes)
      ELSE JacobiBase(r.rem, odd, changes + Asgn(a, odd) + r.changes)

\* The low limb of b, without its low zero bits if they are shifted out: if only
\* its highest bit is set, the bits come from the limb above.
ShiftedLow(b) ==
  LET low == Lo(b) IN IF low = HighBit THEN Wrap(2 * LimbAt(b, 1)) ELSE StripTwos(low)

\* mpz_si_kronecker and, for a that are not negative, mpz_ui_kronecker.
SiKronecker(a, b) ==
  LET size == WithoutZeroLimbs(b)
      changes == Bsgn(a, b) + (IF b % 2 = 0 THEN LimbTwos(b, a) ELSE Twos(TrailingZeros(Abs(a)), Lo(Abs(b))))
      low == IF b % 2 = 0 THEN ShiftedLow(size) ELSE Lo(Abs(b))
      odd == StripTwos(Abs(a))
      signed == changes + Asgn(a, low)
      r == ModOdd(size, odd)
  IN  IF b = 0 THEN Unit(a)
      ELSE IF a = 0 THEN Unit(b)
      ELSE IF a % 2 = 0 /\ b % 2 = 0 THEN 0
      ELSE IF size = HighBit /\ b % 2 = 0
      THEN PlusOrMinus(changes + (IF LimbBits % 2 = 0 THEN Twos(1, a) ELSE 0))
      ELSE IF odd = 1 THEN PlusOrMinus(signed)
      ELSE JacobiBase(r.rem, odd, signed + r.changes + Recip(odd, low))

=============================================================================
