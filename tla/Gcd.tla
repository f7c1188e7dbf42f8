-------------------------------- MODULE Gcd --------------------------------
(***************************************************************************)
(* Greatest common divisors.  Long operands are reduced by Lehmer's        *)
(* method: mpn_hgcd2 finds, from the two highest limbs of both, a matrix   *)
(* of limbs whose inverse makes both shorter; where it finds none,         *)
(* mpn_gcd_subdiv_step subtracts once and divides once.  Short ones are    *)
(* reduced by the binary method.  Sizes stay below GCD_DC_THRESHOLD, and   *)
(* an operand is a number, with n the limbs of the larger one.             *)
(***************************************************************************)
EXTENDS MpzQuery

CONSTANT GcdShift  \* the bits by which mpn_gcd_1 compares the sizes of two limbs

StripTwos(limb) == limb \div 2 ^ TrailingZeros(limb)

\* A number of two limbs without the zeros at the end of the low one.
StripLow(x) == x \div 2 ^ TrailingZeros(Lo(x))

----------------------------------------------------------------------------
(* One and two limbs.                                                      *)

\* The binary method on halves of odd limbs: "v <-- min (u, v)", "u <-- |u - v|".
RECURSIVE BinaryGcd(_, _)
BinaryGcd(u, v) ==
  LET t == Wrap(u - v)
      vgtu == t >= HighBit
      diff == IF vgtu THEN Wrap(-t) ELSE t
  IN  IF u = v THEN 2 * v + 1
      ELSE BinaryGcd(diff \div 2 ^ (TrailingZeros(t) + 1), IF vgtu THEN Wrap(v + t) ELSE v)

\* strip_u_maybe: u is not zero, and v odd.
StripU(u, v) == BinaryGcd(u \div 2 ^ (TrailingZeros(u) + 1), v \div 2)

\* mpn_gcd_1 of a number that is not zero and a limb that is not zero.
Gcd1(u, un, v) ==
  LET low == LimbAt(u, 0)
      odd == StripTwos(v)
      twos == IF low = 0 THEN TrailingZeros(v) ELSE MinOf(TrailingZeros(v), TrailingZeros(low))
      rest == IF un < ModexactThreshold THEN u % odd ELSE ModexactOdd(u, odd, 0)
      bigger == MaxOf(StripTwos(low), odd)
      smaller == MinOf(StripTwos(low), odd)
      far == bigger \div 2 ^ GcdShift > smaller
      gcd == IF un > 1 THEN IF rest = 0 THEN odd ELSE StripU(rest, odd)
             ELSE IF ~far THEN BinaryGcd(bigger \div 2, smaller \div 2)
             ELSE IF bigger % smaller = 0 THEN smaller ELSE StripU(bigger % smaller, smaller)
  IN  gcd * 2 ^ twos

\* gcd_2: odd numbers of two limbs, until a limb of one equals that of the other.
RECURSIVE Gcd2(_, _)
Gcd2(u, v) ==
  LET limb == IF Lo(u) = Lo(v) THEN Abs(Hi(u) - Hi(v)) ELSE Abs(Lo(u) - Lo(v))
  IN  IF Hi(u) # Hi(v) /\ Lo(u) # Lo(v)
      THEN IF Hi(u) > Hi(v) THEN Gcd2(StripLow(u - v), v) ELSE Gcd2(u, StripLow(v - u))
      ELSE IF u = v THEN u
      ELSE Gcd1(u, IF Hi(u) # 0 THEN 2 ELSE 1, limb)

----------------------------------------------------------------------------
(* mpn_hgcd2.  The matrix has a column for a, <<u00, u10>>, and one for b; *)
(* x is the one of a and b that is being reduced, y the other, and cx and  *)
(* cy are their columns.  steps are the quotients, with d = 1 where b was  *)
(* subtracted from a: what mpn_hgcd2_jacobi tells mpn_jacobi_update.       *)

Half == 2 ^ (LimbBits \div 2)

\* x less q times y: the column of y takes q times the column of x.
Shrunk(s, x, q) ==
  [s EXCEPT !.x = x, !.cy = [i \in {1, 2} |-> @[i] + q * s.cx[i]],
            !.steps = Append(@, [d |-> s.d, q |-> q])]
Turned(s) == [s EXCEPT !.x = s.y, !.y = s.x, !.cx = s.cy, !.cy = s.cx, !.d = 1 - @]

\* One subtraction, and the rest of the quotient if there is one: if what is left
\* is too small, "q is correct", and the subtraction is not counted.
Subtract(s, Small(_), Larger(_, _)) ==
  LET x == s.x - s.y
      q == x \div s.y
  IN  IF Small(x) THEN [s EXCEPT !.done = TRUE]
      ELSE IF ~Larger(x, s.y) THEN Turned(Shrunk(s, x, 1))
      ELSE IF Small(x % s.y) THEN [Shrunk(s, x % s.y, q) EXCEPT !.done = TRUE]
      ELSE Turned(Shrunk(s, x % s.y, q + 1))

\* "Single precision loop", on the highest limb and a half of both.
RECURSIVE SingleLoop(_)
SingleLoop(s) ==
  LET Small(x) == x < 2 * Half
      Larger(x, y) == x > y
  IN  IF s.done \/ s.x = s.y THEN s ELSE SingleLoop(Subtract(s, Small, Larger))

RECURSIVE DoubleLoop(_)
DoubleLoop(s) ==
  LET Small(x) == Hi(x) < 2
      Larger(x, y) == Hi(x) > Hi(y)
  IN  IF s.done \/ Hi(s.x) = Hi(s.y) THEN s
      ELSE IF Hi(s.x) < Half
      THEN SingleLoop([s EXCEPT !.x = @ \div Half, !.y = @ \div Half])
      ELSE DoubleLoop(Subtract(s, Small, Larger))

\* The matrix for two pairs of limbs, or a failure if it would be the identity.
Hgcd2(a, b) ==
  LET fromA == a > b
      first == [x |-> IF fromA THEN a ELSE b, y |-> IF fromA THEN b ELSE a,
                cx |-> IF fromA THEN <<1, 0>> ELSE <<0, 1>>,
                cy |-> IF fromA THEN <<0, 1>> ELSE <<1, 0>>,
                d |-> IF fromA THEN 1 ELSE 0, steps |-> <<>>, done |-> FALSE]
      s == Shrunk(first, first.x - first.y, 1)
      end == DoubleLoop(IF Hi(s.x) < Hi(s.y) \/ (Hi(s.x) = Hi(s.y) /\ s.d = 0) THEN Turned(s) ELSE s)
  IN  IF Hi(a) < 2 \/ Hi(b) < 2 \/ Hi(s.x) < 2 THEN [found |-> FALSE]
      ELSE [found |-> TRUE, steps |-> end.steps,
            u00 |-> IF end.d = 1 THEN end.cx[1] ELSE end.cy[1],
            u10 |-> IF end.d = 1 THEN end.cx[2] ELSE end.cy[2],
            u01 |-> IF end.d = 1 THEN end.cy[1] ELSE end.cx[1],
            u11 |-> IF end.d = 1 THEN end.cy[2] ELSE end.cx[2]]

\* The two highest limbs of the n limbs of x, shifted to where the highest bit
\* of the larger number is the highest bit of a limb.
CommonZeros(u, v, n) == LeadingZeros(LimbAt(u, n - 1) | LimbAt(v, n - 1))
HighPair(x, n, shift) == (x * 2 ^ shift * B) \div B ^ (n - 1)
MatrixOf(u, v, n) ==
  LET shift == CommonZeros(u, v, n) IN Hgcd2(HighPair(u, n, shift), HighPair(v, n, shift))

\* mpn_matrix22_mul1_inverse_vector; it makes the numbers at most one limb shorter.
InverseVector(m, u, v, n) ==
  LET r == m.u11 * u - m.u01 * v
      s == m.u00 * v - m.u10 * u
  IN  [u |-> r, v |-> s, n |-> IF r < B ^ (n - 1) /\ s < B ^ (n - 1) THEN n - 1 ELSE n]

----------------------------------------------------------------------------
(* mpn_gcd_subdiv_step, with s = 0.                                        *)

\* The quotients reported are in steps, each with d = 1 where a multiple of v was
\* taken from u; a gcd found is in g, with the d of the last call of the hook
\* and the quotients it gives; or else g is zero.
SubdivStep(u, v) ==
  LET d == IF u > v THEN 1 ELSE 0
      a == MinOf(u, v)
      b == MaxOf(u, v) - a
      d2 == IF a > b THEN 1 - d ELSE d
      lower == MinOf(a, b)
      upper == MaxOf(a, b)
      subtracted == <<[d |-> d, q |-> 1]>>
      divided == <<[d |-> d2, q |-> upper \div lower]>>
      rest == upper % lower
      Found(g, dg, steps, last) == [g |-> g, d |-> dg, steps |-> steps, last |-> last]
  IN  IF u = v THEN Found(u, -1, <<>>, <<>>)
      ELSE IF a = 0 THEN Found(b, 1 - d, <<>>, <<>>)
      ELSE IF a = b THEN Found(b, d, <<>>, <<>>)
      ELSE IF rest = 0 THEN Found(lower, d2, subtracted, divided)
      ELSE [g |-> 0, steps |-> subtracted \o divided, n |-> Limbs(lower),
            u |-> IF d2 = 1 THEN rest ELSE lower, v |-> IF d2 = 1 THEN lower ELSE rest]

----------------------------------------------------------------------------
(* mpn_gcd and the functions of mpz.                                       *)

\* The operands have one or two limbs, "at most one can be even".
GcdShort(u, v, n) ==
  LET odd == IF u % 2 = 1 THEN u ELSE v
      other == IF u % 2 = 1 THEN v ELSE u
  IN  IF n = 1 THEN Gcd1(u, 1, v)
      ELSE IF Lo(other) = 0 THEN Gcd1(odd, 2, Hi(other))
      ELSE Gcd2(odd, StripLow(other))

RECURSIVE GcdLehmer(_, _, _)
GcdLehmer(u, v, n) ==
  LET m == MatrixOf(u, v, n)
      next == IF m.found THEN InverseVector(m, u, v, n) ELSE SubdivStep(u, v)
  IN  IF n <= 2 THEN GcdShort(u, v, n)
      ELSE IF ~m.found /\ next.g # 0 THEN next.g
      ELSE GcdLehmer(next.u, next.v, next.n)

MpnGcd(u, v) ==
  LET n == Limbs(v)
      rest == IF Limbs(u) > n THEN u % v ELSE u
  IN  IF rest = 0 THEN v ELSE GcdLehmer(rest, v, n)

\* The low zero limbs of a number and the low zero bits of the limb above.
ZeroLimbs(x) == Min({i \in 0 .. Limbs(x) - 1 : LimbAt(x, i) # 0})
ZeroBits(x) == TrailingZeros(LimbAt(x, ZeroLimbs(x)))

MpzGcd(u, v) ==
  LET Odd(x) == Abs(x) \div (B ^ ZeroLimbs(x) * 2 ^ ZeroBits(x))
      limbs == MinOf(ZeroLimbs(u), ZeroLimbs(v))
      bits == IF ZeroLimbs(u) > ZeroLimbs(v) THEN ZeroBits(v)
              ELSE IF ZeroLimbs(u) < ZeroLimbs(v) THEN ZeroBits(u)
              ELSE MinOf(ZeroBits(u), ZeroBits(v))
      n == Limbs(Odd(u))
      less == \/ n < Limbs(Odd(v))
              \/ n = Limbs(Odd(v)) /\ LimbAt(Odd(u), n - 1) < LimbAt(Odd(v), n - 1)
      gcd == IF less THEN MpnGcd(Odd(v), Odd(u)) ELSE MpnGcd(Odd(u), Odd(v))
  IN  IF u = 0 \/ v = 0 THEN Abs(u) + Abs(v)
      ELSE IF Limbs(u) = 1 THEN Gcd1(Abs(v), Limbs(v), Abs(u))
      ELSE IF Limbs(v) = 1 THEN Gcd1(Abs(u), Limbs(u), Abs(v))
      ELSE gcd * B ^ limbs * 2 ^ bits

\* mpz_gcd_ui: the number stored, and the one returned.
GcdUi(u, v) ==
  IF u = 0 THEN [w |-> v, ret |-> v]
  ELSE IF v = 0 THEN [w |-> Abs(u), ret |-> IF Limbs(u) = 1 THEN Abs(u) ELSE 0]
  ELSE LET g == Gcd1(Abs(u), Limbs(u), v) IN [w |-> g, ret |-> g]

LcmUi(u, v) ==
  IF u = 0 \/ v = 0 THEN 0 ELSE Abs(u) * (v \div Gcd1(Abs(u), Limbs(u), v))

Lcm(u, v) ==
  IF u = 0 \/ v = 0 THEN 0
  ELSE IF Limbs(v) = 1 THEN LcmUi(u, Abs(v))
  ELSE IF Limbs(u) = 1 THEN LcmUi(v, Abs(u))
  ELSE Abs((u \div MpzGcd(u, v)) * v)

----------------------------------------------------------------------------
(* The extended gcd.  <<u0, u1>> is the second row of the reduction        *)
(* matrix: with A and B the operands, a = u1 A and b = -u0 A (mod B).      *)

\* mpn_gcdext_hook of the quotients, and the cofactor of a gcd that was found.
Cofactors(c, steps) ==
  LET After[i \in 0 .. Len(steps)] ==
        IF i = 0 THEN c
        ELSE LET was == After[i - 1]
             IN  IF steps[i].d = 1 THEN <<was[1], was[2] + steps[i].q * was[1]>>
                 ELSE <<was[1] + steps[i].q * was[2], was[2]>>
  IN  After[Len(steps)]

\* "Must return the smallest cofactor, +u1 or -u0".
SmallerCofactor(c) == IF c[1] < c[2] THEN -c[1] ELSE c[2]
\* Mutant: the cofactors are taken for the wrong one of the numbers.
FoundCofactorSwapped(c, d) == IF d < 0 THEN SmallerCofactor(c) ELSE IF d = 1 THEN c[2] ELSE -c[1]
FoundCofactor(c, d) == IF d < 0 THEN SmallerCofactor(c) ELSE IF d = 1 THEN -c[1] ELSE c[2]

\* mpn_gcdext_1: <<a, u0, v0>> and <<b, u1, v1>>, in signed limbs.
SignedLimb(x) == ((x + HighBit) % B) - HighBit
RECURSIVE Euclid(_, _)
Euclid(x, y) ==
  LET q == x[1] \div y[1]
      rest == <<x[1] - q * y[1], SignedLimb(x[2] - q * y[2]), SignedLimb(x[3] - q * y[3])>>
  IN  IF rest[1] = 0 THEN y ELSE Euclid(y, rest)
Gcdext1(a, b) ==
  IF a < b THEN Euclid(<<b, 0, 1>>, <<a, 1, 0>>) ELSE Euclid(<<a, 1, 0>>, <<b, 0, 1>>)

\* mpn_gcdext_lehmer_n: the gcd and the cofactor of the first operand.
RECURSIVE GcdextLehmer(_, _, _, _)
GcdextLehmer(a, b, n, c) ==
  LET m == MatrixOf(a, b, n)
      step == SubdivStep(a, b)
      next == InverseVector(m, a, b, n)
      after == Cofactors(c, step.steps)
      e == Gcdext1(a, b)
  IN  IF n >= 2 /\ m.found
      THEN GcdextLehmer(next.u, next.v, next.n,
                        <<m.u00 * c[1] + m.u10 * c[2], m.u11 * c[2] + m.u01 * c[1]>>)
      ELSE IF n >= 2 /\ step.g # 0 THEN [g |-> step.g, s |-> FoundCofactor(after, step.d)]
      ELSE IF n >= 2 THEN GcdextLehmer(step.u, step.v, step.n, after)
      ELSE IF a = b THEN [g |-> a, s |-> SmallerCofactor(c)]
      ELSE [g |-> e[1], s |-> IF e[2] = 0 THEN -c[1] ELSE IF e[3] = 0 THEN c[2] ELSE e[2] * c[2] - e[3] * c[1]]

MpnGcdext(a, b) ==
  LET rest == IF Limbs(a) > Limbs(b) THEN a % b ELSE a
  IN  IF rest = 0 THEN [g |-> b, s |-> 0] ELSE GcdextLehmer(rest, b, Limbs(b), <<0, 1>>)

\* mpz_gcdext, which wants both cofactors: the other one is divided out.
Gcdext(a, b) ==
  LET swap == Limbs(a) < Limbs(b)
      x == IF swap THEN b ELSE a
      y == IF swap THEN a ELSE b
      r == MpnGcdext(Abs(x), Abs(y))
      s == IF x >= 0 THEN r.s ELSE -r.s
      t == (r.g - s * x) \div y
  IN  IF y = 0 THEN [g |-> Abs(x), s |-> IF swap THEN 0 ELSE SignOf(x), t |-> IF swap THEN SignOf(x) ELSE 0]
      ELSE [g |-> r.g, s |-> IF swap THEN t ELSE s, t |-> IF swap THEN s ELSE t]

Invert(x, n) ==
  LET e == Gcdext(x, n)
  IN  IF x = 0 \/ Abs(n) = 1 \/ e.g # 1 THEN [exists |-> FALSE]
      ELSE [exists |-> TRUE, inverse |-> IF e.s >= 0 THEN e.s ELSE IF n < 0 THEN e.s - n ELSE e.s + n]

=============================================================================
