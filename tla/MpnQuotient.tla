---------------------------- MODULE MpnQuotient ----------------------------
(***************************************************************************)
(* Quotients without remainders.  The divisor loses a limb for every limb  *)
(* of the quotient, since what is left out changes the result by one at    *)
(* most, and only if what remains is small is the quotient checked with    *)
(* all limbs.  Truncation can break the order of remainder and divisor     *)
(* that the division of three limbs by two relies on; the limbs that       *)
(* follow are then all ones.                                               *)
(*                                                                         *)
(* The approximate functions return a quotient q and the three limbs r     *)
(* that they leave above the limbs of the dividend they do not touch.      *)
(***************************************************************************)
EXTENDS MpnDivision

CONSTANTS Fudge,               \* FUDGE, at least 2
          SbDivapprCutoff,     \* SB_DIVAPPR_Q_CUTOFF, at least 3
          DcDivQThreshold,     \* DC_DIV_Q_THRESHOLD
          DcDivapprQThreshold  \* DC_DIVAPPR_Q_THRESHOLD, at least 5

\* The limbs of the operands that do not reach the quotient.
Cut(nn, dn) == MaxOf(0, 2 * dn - nn - 1)

\* The steps made with the whole of d, as long as it is no longer than what is
\* left of the quotient; the remainder takes one limb more of n, if there is one.
Untruncated(n, nn, d, dn) ==
  LET qn == nn - dn
      steps == MaxOf(0, qn - dn + 1)
      qh == IF n \div B ^ qn >= d THEN 1 ELSE 0
      rest == n - qh * d * B ^ qn
      below == qn - steps
      Step(r, limb) == SbStep(r, limb, d, dn)
      div == LongDivision(Step, rest \div B ^ qn, Part(rest, below, qn), steps)
  IN  [q |-> (qh * B ^ steps + div.q) * B ^ below,
       r |-> IF qn = 0 THEN rest ELSE div.r * B + LimbAt(n, below - 1)]

----------------------------------------------------------------------------
(* mpn_sb_div_q.                                                           *)

\* One limb of the quotient from r, which has a limb more than e, the n limbs of
\* the divisor that are left.  The flag is cleared when the remainder could not be
\* brought below the divisor.
SbTruncatedStep(r, e, n, flag) ==
  LET n1 == r \div B ^ n
      w == (r % B ^ n) - (B - 1) * e
      cy == -(w \div B ^ n)
      back == flag /\ n1 < cy
      step == SbStep(r \div B, r % B, e, n)
  IN  IF ~flag \/ n1 >= LimbAt(e, n - 1)
      THEN [q |-> IF back THEN B - 2 ELSE B - 1,
            r |-> (w + (IF back THEN e ELSE 0)) % B ^ n,
            flag |-> flag /\ n1 <= cy]
      ELSE [q |-> step.q, r |-> step.r, flag |-> flag]

SbTruncated(r, e, n) ==
  LET After[i \in 0 .. n - 1] ==
        IF i = 0 THEN [q |-> 0, r |-> r, flag |-> TRUE]
        ELSE LET before == After[i - 1]
                 step == SbTruncatedStep(before.r, e \div B ^ (i - 1), n + 1 - i, before.flag)
             IN  [step EXCEPT !.q = before.q * B + @]
  IN  After[n - 1]

\* "Compensate for triangularization": the limbs of the divisor e, of n limbs, that
\* were dropped, times the limbs of the quotient after which they were.
Triangle(q, e, n) ==
  LET Row(i) == LimbAt(q, i) * (e % B ^ (n - 2 - i)) * B ^ i IN MapThenSumSet(Row, 0 .. n - 3)

SbDivQ(n, nn, d, dn) ==
  LET cut == Cut(nn, dn)
      size == dn - cut
      e == d \div B ^ cut
      high == Untruncated(n \div B ^ cut, nn - cut, e, size)
      low == SbTruncated(high.r, e, size)
      q == high.q + low.q
      kept == MinOf(2, size)
      n1 == low.r \div B ^ (kept - 1)
      left == low.r * B ^ (dn - kept) + (n % B ^ (dn - kept))
      tails == Triangle(q, e, size) * B ^ cut + q * (d % B ^ cut)
  IN  IF low.flag /\ n1 < dn /\ left < tails THEN q - 1 ELSE q

----------------------------------------------------------------------------
(* mpn_sb_divappr_q and mpn_dc_divappr_q.                                  *)

\* __divappr_helper: m limbs of ones, from a remainder v that has reached the m + 1
\* limbs of e.
AllOnes(v, e, m) ==
  LET LimbOf(i) == LimbAt(e, i)
  IN  [q |-> B ^ m - 1,
       r |-> (v - B * e + B * LimbAt(e, m) + MapThenSumSet(LimbOf, 0 .. m - 1)) % B ^ 3]

DivapprStep(r, e, n) ==
  LET w == r - (B - 1) * e
      equal == r \div B ^ n = LimbAt(e, n - 1) /\ LimbAt(r, n - 1) >= LimbAt(e, n - 2)
      back == w < 0 \/ w >= B ^ n
  IN  IF ~equal THEN SbStep(r \div B, r % B, e, n)
      ELSE [q |-> IF back THEN B - 2 ELSE B - 1, r |-> (w + (IF back THEN e ELSE 0)) % B ^ n]

\* The last n - 1 limbs of the quotient; "rare case where truncation ruins
\* normalisation" first.
RECURSIVE DivapprTruncated(_, _, _)
DivapprTruncated(r, e, n) ==
  LET step == DivapprStep(r, e, n)
      rest == DivapprTruncated(step.r, e \div B, n - 1)
  IN  IF r \div B >= e THEN AllOnes(r, e, n - 1)
      ELSE IF n = 2 THEN [q |-> step.q, r |-> step.r]
      ELSE [q |-> step.q * B ^ (n - 2) + rest.q, r |-> rest.r]

SbDivapprQ(n, nn, d, dn) ==
  LET cut == Cut(nn, dn)
      e == d \div B ^ cut
      high == Untruncated(n \div B ^ cut, nn - cut, e, dn - cut)
      low == DivapprTruncated(high.r, e, dn - cut)
  IN  [q |-> high.q + low.q, r |-> low.r]

\* mpn_mulmid: the limbs in the middle of the product of u and v, of un and vn limbs.
Mulmid(u, un, v, vn) ==
  LET Row(j) == LimbAt(v, j) * Part(u, vn - 1 - j, un - j) IN MapThenSumSet(Row, 0 .. vn - 1)

\* "Reduce until dn - 1 >= qn": the highest limbs of the quotient, exactly.
RECURSIVE Reduced(_, _, _, _)
Reduced(n, qn, d, dn) ==
  LET sh == MinOf(dn, qn - dn + 1)
      below == B ^ (qn - sh)
      div == IF sh <= DcDivQrThreshold THEN SbDivQr(n \div below, dn + sh, d, dn)
             ELSE DcDivQr(n \div below, dn + sh, d, dn)
      rest == Reduced(div.r * below + (n % below), qn - sh, d, dn)
  IN  IF dn - 1 >= qn THEN [q |-> 0, r |-> n, qn |-> qn]
      ELSE [rest EXCEPT !.q = div.q * below + @]

\* "Ensure quotient is not too big": one less, and the divisor added back; "digits of
\* quotient aren't base B but in base varying with truncation", so that every limb
\* that has become all ones brings a limb of the divisor more.
TooBig(q, w, d, dn, sh, sl) ==
  LET less == (q - 1) % B ^ sh
      ones == {i \in 0 .. sh - 2 : \A j \in 0 .. i : LimbAt(less, j) = B - 1}
      Dropped(i) == LimbAt(d, dn - sl - 3 - i)
  IN  [q |-> q - 1, w |-> w + (d \div B ^ (dn - sl - 2)) + MapThenSumSet(Dropped, ones)]

\* Both halves of a quotient of qn < dn limbs: what the higher half times the
\* limbs that matter of d takes from the remainder may make it negative.
RECURSIVE DcDivapprQ(_, _, _, _)
DivapprHalves(n, qn, d, dn) ==
  LET sh == qn \div 2
      sl == qn - sh
      Half(x, size) ==
        IF size < SbDivapprCutoff THEN SbDivapprQ(x, dn + size, d, dn)
        ELSE DcDivapprQ(x, dn + size, d, dn)
      Reaches(v, size) == v \div B >= d \div B ^ (dn - size - 1)
      Ones(v, size) == AllOnes(v, d \div B ^ (dn - size - 1), size)
      top == n \div B ^ (dn + sl - 2)
      high == IF Reaches(top, sh) THEN Ones(top, sh) ELSE Half(n \div B ^ sl, sh)
      middle == Mulmid(Part(d, dn - qn - 1, dn - 2), qn - 1, high.q, sh)
      w == (high.r * B ^ sl + Part(n, dn - 2, dn + sl - 2) - middle) % B ^ (sl + 3)
      negative == w \div B ^ (sl + 2) >= HighBit
      right == IF negative THEN TooBig(high.q, w, d, dn, sh, sl) ELSE [q |-> high.q, w |-> w]
      v == right.w % B ^ (sl + 3)
      low == IF Reaches(v, sl) THEN Ones(v, sl)
             ELSE Half(v * B ^ (dn - 2) + (n % B ^ (dn - 2)), sl)
  IN  IF n \div B ^ dn >= d \div B ^ (dn - qn) THEN Ones(n \div B ^ (dn - 2), qn)
      ELSE [q |-> right.q * B ^ sl + low.q, r |-> low.r]

DcDivapprQ(n, nn, d, dn) ==
  LET cut == Cut(nn, dn)
      qn == nn - dn
      e == d \div B ^ cut
      x == n \div B ^ cut
      qh == IF x \div B ^ qn >= e THEN 1 ELSE 0
      high == Reduced(x - qh * e * B ^ qn, qn, e, dn - cut)
      low == DivapprHalves(high.r, high.qn, e, dn - cut)
  IN  [q |-> qh * B ^ qn + high.q + low.q, r |-> low.r]

----------------------------------------------------------------------------
(* mpn_dc_div_q and mpn_tdiv_q.                                            *)

\* A limb more of an approximate quotient: only if it is zero can the others be
\* too large.  "At most is wrong by one."
DcDivQ(n, nn, d, dn) ==
  LET w == DcDivapprQ(n * B, nn + 1, d, dn).q
      q == w \div B
  IN  IF w % B = 0 /\ q * d > n THEN q - 1 ELSE q

\* "This happens only when the quotient is close to B^n" and too large.
Clipped(q, n, out) == IF out /\ q >= B ^ n THEN B ^ n - 1 ELSE q

\* A divisor not much longer than the quotient is used with all its limbs.
TdivQFull(n, nn, d, dn) ==
  LET norm == 2 ^ LeadingZeros(LimbAt(d, dn - 1))
      x == n * norm
      out == x >= B ^ nn
      size == IF out THEN nn + 1 ELSE nn
      q == IF dn = 2 THEN Divrem2(x, size, d * norm).q
           ELSE IF dn < DcDivQThreshold \/ size - dn < DcDivQThreshold
           THEN SbDivQ(x, size, d * norm, dn)
           ELSE DcDivQ(x, size, d * norm, dn)
  IN  Clipped(q, size - dn, out)

\* From a longer divisor qn + 1 limbs are taken, which give a limb of the quotient
\* more than is wanted.
TdivQTop(n, nn, d, dn) ==
  LET qn == nn - dn + 1
      norm == 2 ^ LeadingZeros(LimbAt(d, dn - 1))
      x == (n \div B ^ (nn - 2 * qn - 1)) * norm
      e == (d * norm) \div B ^ (dn - qn - 1)
      out == x >= B ^ (2 * qn + 1)
      size == IF out THEN 2 * qn + 2 ELSE 2 * qn + 1
      t == Clipped(IF qn = 1 THEN Divrem2(x, size, e).q
                   ELSE IF qn - 1 < DcDivapprQThreshold THEN SbDivapprQ(x, size, e, qn + 1).q
                   ELSE DcDivapprQ(x, size, e, qn + 1).q, size - qn - 1, out)
      q == t \div B
  IN  IF t % B <= 4 /\ q * d > n THEN q - 1 ELSE q

TdivQ(n, nn, d, dn) ==
  IF dn = 1 THEN Divrem1(n, nn, d, 0).q
  ELSE IF nn - dn + 1 + Fudge >= dn THEN TdivQFull(n, nn, d, dn)
  ELSE TdivQTop(n, nn, d, dn)

=============================================================================
