------------------------------ MODULE MpfFloat ------------------------------
(***************************************************************************)
(* The functions of mpf.  A float has a sign, n limbs m, the highest of    *)
(* them not zero, and an exponent e: it stands for m * B ^ (e - n).  A     *)
(* function gives its result for a destination of prec limbs, of which     *)
(* there is room for one more.  Results are accurate and not rounded: what *)
(* they leave out of the operands is what could have changed the value.    *)
(***************************************************************************)
EXTENDS MpnDivision

Float(neg, m, n, e) == [neg |-> neg, m |-> m, n |-> n, e |-> e]
Zero == Float(FALSE, 0, 0, 0)
SetUi(k) == IF k = 0 THEN Zero ELSE Float(FALSE, k, 1, 1)
Negated(u) == IF u.n = 0 THEN u ELSE [u EXCEPT !.neg = ~@]

\* The highest k limbs, if there are more, and what is left without the highest k.
Keep(x, k) == IF x.n > k THEN [x EXCEPT !.m = @ \div B ^ (x.n - k), !.n = k] ELSE x
Drop(x, k) == [x EXCEPT !.m = @ % B ^ (x.n - k), !.n = @ - k]

\* The highest limb, which may be zero in what is left; the limbs of x as the
\* highest of n.
Top(x) == LimbAt(x.m, x.n - 1)
Padded(x, n) == x.m * B ^ (n - x.n)

\* "Full normalize": each high limb that is zero goes and lowers the exponent.
\* mpf_sub then has zero for the exponent of a zero; mpf_ui_sub leaves what remains.
Stripped(x) == [x EXCEPT !.n = Limbs(x.m), !.e = @ - (x.n - Limbs(x.m))]
Normalize(x) == IF x.m = 0 THEN Zero ELSE Stripped(x)

\* "Lie not to lose precision in assignment."
Set(u, prec) == Keep(u, prec + 1)
Neg(u, prec) == Negated(Set(u, prec))
SetZ(z, prec) == Keep(Float(z < 0, Abs(z), Limbs(z), Limbs(z)), prec + 1)

----------------------------------------------------------------------------
(* Sums and differences.                                                   *)

\* mpf_add of operands of one sign, u with the larger exponent.
AddMagnitudes(u, v, prec) ==
  LET ediff == u.e - v.e
      up == Keep(u, prec)
      vp == Keep(v, prec - ediff)
      n == MaxOf(up.n, vp.n + ediff)
      sum == Padded(up, n) + Padded(vp, n - ediff)
  IN  IF ediff >= prec THEN up
      ELSE IF sum < B ^ n THEN Float(u.neg, sum, n, u.e) ELSE Float(u.neg, sum, n + 1, u.e + 1)

\* The difference where the parts of both that are kept are subtracted: v of a
\* lower exponent may be left out, and one that is left with zeros.
General(u, v, ediff, p) ==
  LET up == Keep(u, p)
      vp == Keep(v, p - ediff)
      n == MaxOf(up.n, vp.n + ediff)
  IN  IF ediff >= p \/ vp.m = 0 THEN up
      ELSE IF up.m = 0 THEN [vp EXCEPT !.neg = ~u.neg, !.e = u.e]
      ELSE Normalize([u EXCEPT !.m = Padded(up, n) - Padded(vp, n - ediff), !.n = n])

\* How many of the highest limbs of x are all equal to limb.
Leading(x, limb) ==
  Max({k \in 0 .. x.n : \A i \in x.n - k .. x.n - 1 : LimbAt(x.m, i) = limb})
LeadingEqual(u, v) ==
  Max({k \in 0 .. MinOf(u.n, v.n) : u.m \div B ^ (u.n - k) = v.m \div B ^ (v.n - k)})

\* "Skip sequences of 00000000/ffffffff": one is above u, and above v nothing.
CloseDifference(u, v, p) ==
  LET k == MinOf(Leading(u, 0), Leading(v, B - 1))
      more == IF u.n = k THEN Leading(Drop(v, k), B - 1) ELSE 0
      up == Keep(Drop(u, k), p - 1)
      vp == Keep(Drop(v, k + more), p - 1)
      n == MaxOf(up.n, vp.n)
      e == u.e - k - more
      m == B ^ n + Padded(up, n) - Padded(vp, n)
  IN  IF m < B ^ n THEN Normalize([u EXCEPT !.m = m, !.n = n, !.e = e])
      ELSE Normalize([u EXCEPT !.m = m, !.n = n + 1, !.e = e + 1])

\* Equal exponents: "Skip leading limbs in U and V that are equal"; what is left
\* of one when the other has none left is stripped of zeros and copied.
SkippedDifference(u, v, p) ==
  LET k == LeadingEqual(u, v)
      up == [Drop(u, k) EXCEPT !.e = @ - k]
      vp == [Drop(v, k) EXCEPT !.neg = ~u.neg, !.e = u.e - k]
      Less(x, y) ==
        IF Top(x) # Top(y) + 1 THEN General(x, y, 0, p)
        ELSE CloseDifference([Drop(x, 1) EXCEPT !.e = @ - 1], Drop(y, 1), p)
  IN  IF up.n = 0 THEN Keep(Normalize(vp), p)
      ELSE IF vp.n = 0 THEN Keep(Normalize(up), p)
      ELSE IF Top(up) < Top(vp) THEN Less(vp, up) ELSE Less(up, vp)

\* Mutant: nearly equal operands are not looked for.
SubGeneral(u, v, prec) ==
  IF u.e = v.e THEN SkippedDifference(u, v, prec + 1) ELSE General(u, v, u.e - v.e, prec + 1)

\* mpf_sub of operands of one sign, u with the larger exponent.
SubMagnitudes(u, v, prec) ==
  LET ediff == u.e - v.e
      close == /\ Top(u) = 1 /\ Top(v) = B - 1
               /\ u.n < 2 \/ LimbAt(u.m, u.n - 2) = 0
  IN  IF ediff = 0 THEN SkippedDifference(u, v, prec + 1)
      ELSE IF ediff = 1 /\ close THEN CloseDifference([Drop(u, 1) EXCEPT !.e = @ - 1], v, prec + 1)
      ELSE General(u, v, ediff, prec + 1)

\* A zero has no sign.
Signed(x) == IF x.n = 0 THEN Zero ELSE x

Combine(u, v, prec) ==
  IF u.neg = v.neg
  THEN IF u.e < v.e THEN AddMagnitudes(v, u, prec) ELSE AddMagnitudes(u, v, prec)
  ELSE Signed(IF u.e < v.e THEN SubMagnitudes(v, u, prec) ELSE SubMagnitudes(u, v, prec))

Add(u, v, prec) ==
  IF u.n = 0 THEN Set(v, prec) ELSE IF v.n = 0 THEN Set(u, prec) ELSE Combine(u, v, prec)

Sub(u, v, prec) ==
  IF u.n = 0 THEN Neg(v, prec) ELSE IF v.n = 0 THEN Set(u, prec) ELSE Combine(u, Negated(v), prec)

SubUi(u, k, prec) == IF k = 0 THEN Set(u, prec) ELSE Sub(u, SetUi(k), prec)

\* A positive u and a limb, which is above, below or within the limbs of u.
AddLimb(u, k, prec) ==
  LET over == u.n - u.e + 1 - prec
      up == IF over > 0 THEN Keep(u, u.n - over) ELSE u
      upper == Keep(u, prec)
      m == upper.m + k * B ^ (upper.n - u.e)
  IN  IF u.e > prec THEN Set(u, prec)
      ELSE IF u.e > u.n THEN Float(FALSE, Padded(u, u.e) + k, u.e, u.e)
      ELSE IF u.e > 0
      THEN IF m < B ^ upper.n THEN [upper EXCEPT !.m = m]
           ELSE Float(FALSE, m, upper.n + 1, u.e + 1)
      ELSE IF -u.e >= prec THEN SetUi(k)
      ELSE Float(FALSE, k * B ^ (up.n - u.e) + up.m, up.n - u.e + 1, 1)

AddUi(u, k, prec) ==
  IF u.n = 0 THEN SetUi(k)
  ELSE IF u.neg THEN Negated(SubUi(Negated(u), k, prec))
  ELSE IF k = 0 THEN Set(u, prec)
  ELSE AddLimb(u, k, prec)

\* mpf_ui_sub: the limbs that are equal are skipped, but no sequences of zeros and
\* ones; where k is the higher operand it has a limb less than mpf_sub keeps.
UiSubMagnitudes(k, v, prec) ==
  LET limb == [SetUi(k) EXCEPT !.neg = FALSE]
      u == IF v.e > 1 THEN [v EXCEPT !.neg = TRUE] ELSE limb
      w == IF v.e > 1 THEN limb ELSE v
      p == IF v.e > 1 THEN prec + 1 ELSE prec
      skip == IF u.e = w.e THEN LeadingEqual(u, w) ELSE 0
      up == [Drop(u, skip) EXCEPT !.e = @ - skip]
      wp == [Drop(w, skip) EXCEPT !.neg = ~u.neg, !.e = u.e - skip]
      n == MaxOf(Keep(up, p).n, Keep(wp, p).n)
      diff == Padded(Keep(up, p), n) - Padded(Keep(wp, p), n)
  IN  IF u.e # w.e THEN General(u, w, u.e - w.e, p)
      ELSE IF up.n = 0 THEN Keep(Stripped(wp), p)
      ELSE IF wp.n = 0 THEN Keep(Stripped(up), p)
      ELSE Stripped(Float(diff < 0, Abs(diff), n, up.e))

UiSub(k, v, prec) ==
  IF k = 0 THEN Neg(v, prec)
  ELSE IF v.n = 0 THEN SetUi(k)
  ELSE IF v.neg THEN AddUi(Negated(v), k, prec)
  ELSE LET diff == UiSubMagnitudes(k, v, prec)
       IN  IF diff.n = 0 THEN [diff EXCEPT !.neg = FALSE] ELSE diff

----------------------------------------------------------------------------
(* Products and quotients.                                                 *)

Mul(u, v, prec) ==
  LET up == Keep(u, prec)
      vp == Keep(v, prec)
      m == up.m * vp.m
      adj == IF m < B ^ (up.n + vp.n - 1) THEN 1 ELSE 0
  IN  IF up.n = 0 \/ vp.n = 0 THEN Zero
      ELSE Keep(Float(u.neg # v.neg, m, up.n + vp.n - adj, u.e + v.e - adj), prec + 1)

\* A product with a limb: what is left out of u gives the carry in, from the
\* product of the highest limb of it and the carry of those below.
MulUi(u, k, prec) ==
  LET up == Keep(u, prec)
      excess == u.n - up.n
      Sum(i) == Hi(LimbAt(u.m, i) * k) + Lo(LimbAt(u.m, i + 1) * k)
      \* "Continue only if the sum is GMP_NUMB_MAX."
      CarryFrom[i \in -1 .. excess] ==
        IF i = -1 THEN 0
        ELSE IF Sum(i) >= B THEN 1 ELSE IF Sum(i) # B - 1 THEN 0 ELSE CarryFrom[i - 1]
      cin == IF excess = 0 THEN 0
             ELSE Hi(LimbAt(u.m, excess - 1) * k) + CarryFrom[excess - 2]
      m == up.m * k + cin
  IN  IF k = 0 \/ u.n = 0 THEN Zero
      ELSE IF m < B ^ up.n THEN [up EXCEPT !.m = m] ELSE Float(u.neg, m, up.n + 1, u.e + 1)

\* The quotient of prec + 1 limbs of the number u, cut or filled with zeros, by d.
\* A zero high limb is stripped.
QuotientOf(u, d, neg, e, prec) ==
  LET n == prec + d.n
      q == TdivQr(IF u.n > n THEN Keep(u, n).m ELSE Padded(u, n), n, d.m, d.n).q
      zero == q < B ^ prec
  IN  IF zero THEN Float(neg, q, prec, e - 1) ELSE Float(neg, q, prec + 1, e)

Div(u, v, prec) ==
  IF u.n = 0 THEN Zero ELSE QuotientOf(u, v, u.neg # v.neg, u.e - v.e + 1, prec)
UiDiv(k, v, prec) ==
  IF k = 0 THEN Zero ELSE QuotientOf(SetUi(k), v, v.neg, 1 - v.e + 1, prec)
DivUi(u, k, prec) ==
  LET n == prec + 1
      q == Divrem1(IF u.n > n THEN Keep(u, n).m ELSE Padded(u, n), n, k, 0).q
      zero == IF q < B ^ prec THEN 1 ELSE 0
  IN  IF u.n = 0 THEN Zero ELSE Float(u.neg, q, n - zero, u.e - zero)

\* mpf_set_q: the numerator is cut or filled, never the denominator.
SetQ(num, den, prec) ==
  LET u == SetZ(num, Limbs(num))
      d == SetZ(den, Limbs(den))
  IN  IF num = 0 THEN Zero ELSE QuotientOf(u, d, u.neg, u.n - d.n + 1, prec)

\* Whole limbs only change the exponent; other shifts have room for prec limbs
\* and the limb shifted out.
Shifted(u, limbs, bits, prec) ==
  LET up == Keep(u, prec)
      m == up.m * 2 ^ bits
  IN  IF u.n = 0 THEN Zero
      ELSE IF bits = 0 THEN [Keep(u, prec + 1) EXCEPT !.e = @ + limbs]
      ELSE IF m < B ^ up.n THEN [up EXCEPT !.m = m, !.e = @ + limbs]
      ELSE Float(u.neg, m, up.n + 1, u.e + limbs + 1)

Mul2exp(u, k, prec) == Shifted(u, k \div LimbBits, k % LimbBits, prec)

\* To the right by bits is to the left by the other bits of a limb, a limb lower.
Div2exp(u, k, prec) ==
  IF k % LimbBits = 0 THEN Shifted(u, -(k \div LimbBits), 0, prec)
  ELSE Shifted(u, -(k \div LimbBits) - 1, LimbBits - (k % LimbBits), prec)

\* mpf_reldiff: what mpf_div wants from the dividend is kept of the difference.
Reldiff(u, v, prec) ==
  IF u.n = 0 THEN SetUi(IF v.n = 0 THEN 0 ELSE 1)
  ELSE Div([Sub(u, v, prec + u.n) EXCEPT !.neg = FALSE], u, prec)

----------------------------------------------------------------------------
(* Integers, and comparisons.                                              *)

\* The limbs of u above the point, as many as the destination takes.
WholeLimbs(u, prec) == Keep(u, MinOf(u.e, prec + 1))

Trunc(u, prec) == IF u.n = 0 \/ u.e <= 0 THEN Zero ELSE WholeLimbs(u, prec)

\* Mutant: a carry out of the highest limb is lost.
CeilOrFloorNoCarry(u, neg, prec) ==
  LET whole == WholeLimbs(u, prec)
      ignored == u.m % B ^ (u.n - whole.n) # 0
  IN  IF u.n = 0 THEN Zero
      ELSE IF u.e <= 0 THEN IF u.neg # neg THEN Zero ELSE Float(neg, 1, 1, 1)
      ELSE IF u.neg # neg \/ ~ignored THEN whole
      ELSE [whole EXCEPT !.m = (@ + 1) % B ^ whole.n]

\* Away from zero if "ignored part is non-zero": neg is the sign of the direction.
CeilOrFloor(u, neg, prec) ==
  LET whole == WholeLimbs(u, prec)
      ignored == u.m % B ^ (u.n - whole.n) # 0
  IN  IF u.n = 0 THEN Zero
      ELSE IF u.e <= 0 THEN IF u.neg # neg THEN Zero ELSE Float(neg, 1, 1, 1)
      ELSE IF u.neg # neg \/ ~ignored THEN whole
      ELSE IF whole.m + 1 = B ^ whole.n THEN Float(neg, 1, 1, u.e + 1)
      ELSE [whole EXCEPT !.m = @ + 1]

IntegerP(u) == u.n = 0 \/ (u.e > 0 /\ (u.n <= u.e \/ u.m % B ^ (u.n - u.e) = 0))

\* The limb above the point, if it is among those of u.
UnitsLimb(u) == IF u.e > 0 /\ u.n >= u.e THEN LimbAt(u.m, u.n - u.e) ELSE 0
GetUi(u) == UnitsLimb(u)
GetSi(u) ==
  LET fl == UnitsLimb(u)
  IN  IF u.e <= 0 THEN 0
      ELSE IF ~u.neg THEN fl % HighBit ELSE -((Wrap(fl - 1) % HighBit) + 1)

\* mpf_fits_*_p for a type with the given least and largest value.
FitsU(u, max) == IF u.neg THEN FALSE ELSE u.n = 0 \/ u.e < 1 \/ (u.e = 1 /\ Top(u) <= max)
FitsS(u, min, max) == u.n = 0 \/ u.e < 1 \/ (u.e = 1 /\ Top(u) <= (IF u.neg THEN -min ELSE max))

\* "Ignore zeroes at the low end of U and V."
StripLow(x) ==
  LET k == Max({i \in 0 .. x.n - 1 : x.m % B ^ i = 0})
  IN  [x EXCEPT !.m = @ \div B ^ k, !.n = @ - k]

CmpMagnitudes(u, v) ==
  LET up == StripLow(u)
      vp == StripLow(v)
      n == MinOf(up.n, vp.n)
      high == Keep(up, n).m - Keep(vp, n).m
  IN  IF u.e # v.e THEN SignOf(u.e - v.e) ELSE IF high # 0 THEN SignOf(high) ELSE SignOf(up.n - vp.n)

FloatCmp(u, v) ==
  IF u.neg # v.neg THEN IF u.neg THEN -1 ELSE 1
  ELSE IF u.n = 0 THEN IF v.n = 0 THEN 0 ELSE -1
  ELSE IF v.n = 0 THEN IF u.neg THEN -1 ELSE 1
  ELSE IF u.neg THEN -CmpMagnitudes(u, v) ELSE CmpMagnitudes(u, v)

\* The magnitude of u against a limb that is not zero.
CmpLimb(u, k) ==
  IF u.e # 1 THEN SignOf(u.e - 1)
  ELSE IF Top(u) # k THEN SignOf(Top(u) - k)
  ELSE IF StripLow(u).n > 1 THEN 1 ELSE 0

FloatCmpUi(u, k) ==
  IF u.neg THEN -1 ELSE IF k = 0 THEN SignOf(u.n) ELSE CmpLimb(u, k)
FloatCmpSi(u, k) ==
  IF u.neg # (k < 0) THEN IF u.neg THEN -1 ELSE 1
  ELSE IF u.n = 0 THEN IF k = 0 THEN 0 ELSE -1
  ELSE IF k = 0 THEN 1
  ELSE IF u.neg THEN -CmpLimb(u, -k) ELSE CmpLimb(u, k)

\* mpf_eq: the bits of the lowest limb to be compared above k, and the limbs above
\* it; limbs that are not there are zero.  bits is at least one.
Eq(u, v, bits) ==
  LET lead == LeadingZeros(Top(u))
      n == (bits + lead + LimbBits - 1) \div LimbBits
      k == n * LimbBits - bits - lead
      Below(x, i) == IF x.n >= i THEN LimbAt(x.m, x.n - i) ELSE 0
  IN  IF u.neg # v.neg THEN FALSE
      ELSE IF u.n = 0 \/ v.n = 0 THEN u.n = v.n
      ELSE /\ u.e = v.e
           /\ lead = LeadingZeros(Top(v))
           /\ Below(u, n) \div 2 ^ k = Below(v, n) \div 2 ^ k
           /\ \A i \in 1 .. n - 1 : Below(u, i) = Below(v, i)

=============================================================================
