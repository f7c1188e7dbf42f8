---------------------------- MODULE MpnDivision ----------------------------
(***************************************************************************)
(* Division of numbers of limbs: an estimate of a limb of the quotient     *)
(* from the highest limbs, or of half of the quotient from the highest     *)
(* half of the operands, then the rest of the divisor times the estimate   *)
(* subtracted, and the estimate corrected while the remainder is negative. *)
(* Results are records of the quotient q and the remainder r.              *)
(***************************************************************************)
EXTENDS Words

CONSTANTS DivremNormThreshold,    \* DIVREM_1_NORM_THRESHOLD
          DivremUnnormThreshold,  \* DIVREM_1_UNNORM_THRESHOLD
          EuclidHenselThreshold,  \* DIVREM_EUCLID_HENSEL_THRESHOLD
          RshHenselThreshold,     \* RSH_DIVREM_HENSEL_QR_1_THRESHOLD
          DcDivQrThreshold        \* DC_DIV_QR_THRESHOLD

Pair(hi, lo) == hi * B + lo

\* C arithmetic on pairs of limbs: add_ssaaaa and sub_ddmmss.
Wrap2(x) == x % (B * B)

----------------------------------------------------------------------------
(* Two limbs by one, and three limbs by two.                               *)

\* The divide instruction; the high limb is less than d.
UdivQrnnd(nh, nl, d) == [q |-> Pair(nh, nl) \div d, r |-> Pair(nh, nl) % d]

InvertLimb(d) == UdivQrnnd(B - 1 - d, B - 1, d).q

\* udiv_qrnnd_preinv2, without branches: x estimates minus the quotient.
UdivQrnndPreinv(nh, nl, d, di) ==
  LET nmask == IF nl >= HighBit THEN B - 1 ELSE 0
      nadj == Wrap(nl + (nmask & d))
      q1 == B - 1 - Hi(Wrap2(di * Wrap(nh - nmask) + Pair(nh, nadj)))
      x == Wrap2(q1 * d + Pair(nh, nl))
      xh == Wrap(Hi(x) - d)
  IN  [q |-> Wrap(xh - q1), r |-> Wrap(Lo(x) + (d & xh))]

\* mpir_invert_pi1: the inverse of the two highest limbs of a divisor.
InvertPi1(d1, d0) ==
  LET v == InvertLimb(d1)
      p == Wrap(d1 * v + d0)
      over == IF p >= d0 THEN 0 ELSE IF p >= d1 THEN 2 ELSE 1
      p2 == Wrap(p - over * d1)
      t == d0 * (v - over)
      p3 == Wrap(p2 + Hi(t))
  IN  Wrap(v - over - (IF p3 >= Hi(t) THEN 0
                       ELSE IF p3 > d1 \/ (p3 = d1 /\ Lo(t) >= d0) THEN 2 ELSE 1))

\* udiv_qr_3by2: q is first one more than the estimate.
UdivQr3by2(n2, n1, n0, d1, d0, dinv) ==
  LET x == Wrap2(n2 * dinv + Pair(n2, n1))
      d == Pair(d1, d0)
      r == Wrap2(Pair(Wrap(n1 - d1 * Hi(x)), n0) - d - d0 * Hi(x))
      back == Hi(r) >= Lo(x)
      q2 == Hi(x) + (IF back THEN 0 ELSE 1)
      r2 == IF back THEN Wrap2(r + d) ELSE r
  IN  IF r2 >= d THEN [q |-> Wrap(q2 + 1), r |-> r2 - d] ELSE [q |-> Wrap(q2), r |-> r2]

----------------------------------------------------------------------------
(* Division by one limb, by two, and by more, a limb of the quotient after *)
(* another from the high end.                                              *)

\* The steps of a division of rest and, below it, the limbs of x, from limb
\* n - 1 down: each divides what remains and the next limb.
LongDivision(Step(_, _), rest, x, n) ==
  LET After[i \in 0 .. n] ==
        IF i = 0 THEN [q |-> 0, r |-> rest]
        ELSE LET step == Step(After[i - 1].r, LimbAt(x, n - i))
             IN  [q |-> After[i - 1].q * B + step.q, r |-> step.r]
  IN  After[n]

\* mpn_divrem_hensel_qr_1_1: from the low end, the limb of the quotient is what
\* cancels the limb of x, and t is taken from the next; x = q * d - r * B ^ n, with
\* t = cin to begin with.
HenselStep(before, limb, d, i) ==
  LET q == Wrap(Wrap(limb - before.r) * InverseOf(d))
  IN  [q |-> before.q + q * B ^ i, r |-> Hi(q * d) + (IF before.r > limb THEN 1 ELSE 0)]

HenselQr1(x, n, d, cin) ==
  LET After[i \in 0 .. n] ==
        IF i = 0 THEN [q |-> 0, r |-> cin]
        ELSE HenselStep(After[i - 1], LimbAt(x, i - 1), d, i - 1)
  IN  After[n]

\* Mutant: the borrow out of both limbs is forgotten.
HenselPairStepNoBorrow(before, xl, xh, d, i) ==
  LET ml == InverseOf(d)
      mh == Wrap(ml * Wrap(-Hi(d * ml)))
      x == Wrap2(Pair(xh, xl) - before.r)
      ql == Lo(x) * ml
      qh == Wrap(Hi(ql) + Hi(x) * ml + Lo(x) * mh)
  IN  [q |-> before.q + Pair(qh, Lo(ql)) * B ^ i,
       r |-> Hi(qh * d) + (IF Lo(qh * d) > Hi(x) THEN 1 ELSE 0)]

\* mpn_divrem_hensel_qr_1_2: two limbs at a time, with an inverse of two limbs.
HenselPairStep(before, xl, xh, d, i) ==
  LET ml == InverseOf(d)
      mh == Wrap(ml * Wrap(-Hi(d * ml)))
      c == IF xh = 0 /\ before.r > xl THEN 1 ELSE 0
      x == Wrap2(Pair(xh, xl) - before.r)
      ql == Lo(x) * ml
      qh == Wrap(Hi(ql) + Hi(x) * ml + Lo(x) * mh)
  IN  [q |-> before.q + Pair(qh, Lo(ql)) * B ^ i,
       r |-> Hi(qh * d) + (IF Lo(qh * d) > Hi(x) THEN 1 ELSE 0) + c]

\* The pairs begin after first limbs, none or one; a last limb may be left.
HenselQr2(x, n, d, cin, first) ==
  LET After[i \in 0 .. n] ==
        IF i = 0 THEN [q |-> 0, r |-> cin]
        ELSE IF i > first /\ (i - first) % 2 = 0
        THEN HenselPairStep(After[i - 2], LimbAt(x, i - 2), LimbAt(x, i - 1), d, i - 2)
        ELSE HenselStep(After[i - 1], LimbAt(x, i - 1), d, i - 1)
  IN  After[n]

\* mpn_rsh_divrem_hensel_qr_1: the division of x - cin, the quotient shifted by s.
RshDivremHensel(x, n, d, s, cin) ==
  LET div == IF n < RshHenselThreshold THEN HenselQr1(x, n, d, cin) ELSE HenselQr2(x, n, d, cin, 1)
  IN  [q |-> div.q \div 2 ^ s, r |-> div.r]

\* mpn_divrem_1, with qxn limbs of fraction.  The first limb of the quotient of a
\* normalised divisor is zero or one, and one that is zero is skipped.
Divrem1Norm(u, un, d, qxn) ==
  LET top == LimbAt(u, un - 1)
      q == IF un # 0 /\ top >= d THEN 1 ELSE 0
      first == IF un # 0 THEN top - q * d ELSE 0
      n == MaxOf(un - 1, 0) + qxn
      Udiv(r, limb) == UdivQrnnd(r, limb, d)
      Preinv(r, limb) == UdivQrnndPreinv(r, limb, d, InvertLimb(d))
      low == (u * B ^ qxn) % B ^ n
      rest == IF n < DivremNormThreshold THEN LongDivision(Udiv, first, low, n)
              ELSE LongDivision(Preinv, first, low, n)
  IN  [q |-> q * B ^ n + rest.q, r |-> rest.r]

Divrem1Unnorm(u, un, d, qxn) ==
  LET skip == un # 0 /\ LimbAt(u, un - 1) < d
      n == un + qxn - (IF skip THEN 1 ELSE 0)
      norm == 2 ^ LeadingZeros(d)
      x == u * B ^ qxn * norm
      Preinv(r, limb) == UdivQrnndPreinv(r, limb, d * norm, InvertLimb(d * norm))
      Udiv(r, limb) == UdivQrnnd(r, limb, d * norm)
      first == x \div B ^ n
      shifted == IF n < DivremUnnormThreshold THEN LongDivision(Udiv, first, x % B ^ n, n)
                 ELSE LongDivision(Preinv, first, x % B ^ n, n)
  IN  IF n = 0 THEN [q |-> 0, r |-> u] ELSE [q |-> shifted.q, r |-> shifted.r \div norm]

Divrem1(u, un, d, qxn) ==
  IF un + qxn = 0 THEN [q |-> 0, r |-> 0]
  ELSE IF qxn = 0 /\ d <= HighBit \div 2 + 1 /\ un >= EuclidHenselThreshold
  THEN [q |-> RshDivremHensel(u, un, d \div 2 ^ TrailingZeros(d), TrailingZeros(d), u % d).q,
        r |-> u % d]
  ELSE IF d >= HighBit THEN Divrem1Norm(u, un, d, qxn) ELSE Divrem1Unnorm(u, un, d, qxn)

\* q_test in mpn_divrem_2: the estimate q, with p = q * d0 to be subtracted, is
\* too large as long as the remainder r of the high limbs does not reach.
RECURSIVE TestQ(_, _, _, _, _, _)
TestQ(q, p, r, limb, d1, d0) ==
  IF p > Pair(r, limb)
  THEN IF r + d1 < B THEN TestQ(q - 1, p - d0, r + d1, limb, d1, d0)
       ELSE [q |-> q - 1, r |-> Wrap2(Pair(Wrap(r + d1), limb) - (p - d0))]
  ELSE [q |-> q, r |-> Pair(r, limb) - p]

Divrem2Step(rest, limb, d) ==
  LET d1 == Hi(d)
      d0 == Lo(d)
      r == Wrap(Lo(rest) + d1)
      step == UdivQrnndPreinv(Hi(rest), Lo(rest), d1, InvertLimb(d1))
  IN  IF Hi(rest) # d1 THEN TestQ(step.q, d0 * step.q, step.r, limb, d1, d0)
      ELSE IF r < d1 THEN [q |-> B - 1, r |-> Wrap2(Pair(Wrap(r - d0), limb) + d0)]
      ELSE TestQ(B - 1, Pair(d0 - (IF d0 # 0 THEN 1 ELSE 0), Wrap(-d0)), r, limb, d1, d0)

\* mpn_divrem_2, and mpn_sb_div_qr with a step of its own: the quotient has a
\* high limb that is zero or one.
Normalised(Step(_, _), n, nn, d, dn) ==
  LET top == n \div B ^ (nn - dn)
      qh == IF top >= d THEN 1 ELSE 0
      rest == LongDivision(Step, top - qh * d, n % B ^ (nn - dn), nn - dn)
  IN  [q |-> qh * B ^ (nn - dn) + rest.q, r |-> rest.r]

Divrem2(n, nn, d) ==
  LET Step(rest, limb) == Divrem2Step(rest, limb, d) IN Normalised(Step, n, nn, d, 2)

\* A limb of the quotient from the three highest limbs, then the lower limbs of
\* d subtracted, and d added back if that borrows.
SbStep(rest, limb, d, dn) ==
  LET w == rest * B + limb
      d1 == LimbAt(d, dn - 1)
      d0 == LimbAt(d, dn - 2)
      n2 == LimbAt(w, dn)
      n1 == LimbAt(w, dn - 1)
      step == UdivQr3by2(n2, n1, LimbAt(w, dn - 2), d1, d0, InvertPi1(d1, d0))
      low == B ^ (dn - 2)
      r == step.r * low + (w % low) - step.q * (d % low)
  IN  IF n2 = d1 /\ n1 = d0 THEN [q |-> B - 1, r |-> (w - (B - 1) * d) % B ^ dn]
      ELSE IF r < 0 THEN [q |-> step.q - 1, r |-> (r + d) % B ^ dn]
      ELSE [q |-> step.q, r |-> r]

SbDivQr(n, nn, d, dn) ==
  LET Step(rest, limb) == SbStep(rest, limb, d, dn) IN Normalised(Step, n, nn, d, dn)

----------------------------------------------------------------------------
(* Division by halves.                                                     *)

\* Mutant: d is added back once.
AddBackOnce(q, r, d) == IF r < 0 THEN [q |-> q - 1, r |-> r + d] ELSE [q |-> q, r |-> r]

\* A remainder that is negative: one less in the quotient, and d added back.
RECURSIVE AddBack(_, _, _)
AddBack(q, r, d) == IF r < 0 THEN AddBack(q - 1, r + d, d) ELSE [q |-> q, r |-> r]

\* The quotient of a number of dn + qn limbs from the 2 * qn highest of its limbs
\* and the qn highest of d, then the other limbs of d times that subtracted.
Block(Estimate(_, _), n, d, dn, qn) ==
  LET low == B ^ (dn - qn)
      high == Estimate(n \div low, d \div low)
  IN  IF qn = dn THEN high
      ELSE AddBack(high.q, high.r * low + (n % low) - high.q * (d % low), d)

\* mpn_dc_div_qr_n: 2 * n limbs by n; the first half of the quotient may have a
\* high limb, which is returned, the second has none after the corrections.
RECURSIVE DcDivQrN(_, _, _)
DcDivQrN(x, d, n) ==
  LET lo == n \div 2
      hi == n - lo
      Half(size, y, e) ==
        IF size < DcDivQrThreshold THEN SbDivQr(y, 2 * size, e, size) ELSE DcDivQrN(y, e, size)
      High(y, e) == Half(hi, y, e)
      Low(y, e) == Half(lo, y, e)
      high == Block(High, x \div B ^ lo, d, n, hi)
      low == Block(Low, high.r * B ^ lo + (x % B ^ lo), d, n, lo)
  IN  [q |-> high.q * B ^ lo + (low.q % B ^ lo), r |-> low.r]

\* mpn_dc_div_qr: the quotient in blocks of dn limbs, the first one of fewer.
DcDivQr(n, nn, d, dn) ==
  LET all == nn - dn
      qn == IF all > dn THEN ((all - 1) % dn) + 1 ELSE all
      rest == all - qn
      Estimate(y, e) ==
        IF qn = 2 /\ all > dn THEN Divrem2(y, 4, e)
        ELSE IF qn < DcDivQrThreshold THEN SbDivQr(y, 2 * qn, e, qn) ELSE DcDivQrN(y, e, qn)
      top == n \div B ^ rest
      first == IF qn = 1 THEN SbDivQr(top, dn + 1, d, dn) ELSE Block(Estimate, top, d, dn, qn)
      After[i \in 0 .. rest \div dn] ==
        IF i = 0 THEN first
        ELSE LET before == After[i - 1]
                 next == Part(n, rest - i * dn, rest - (i - 1) * dn)
                 block == DcDivQrN(before.r * B ^ dn + next, d, dn)
             IN  [q |-> before.q * B ^ dn + block.q, r |-> block.r]
  IN  After[rest \div dn]

----------------------------------------------------------------------------
(* mpn_tdiv_qr, a quotient and remainder of any operands.                  *)

\* Divisors of two limbs: a normalised one, and the quotient has nn - 1 limbs.
TdivQr2(n, nn, d) ==
  LET norm == 2 ^ LeadingZeros(LimbAt(d, 1))
      out == n * norm >= B ^ nn
      div == Divrem2(n * norm, IF out THEN nn + 1 ELSE nn, d * norm)
  IN  [q |-> div.q, r |-> div.r \div norm, stray |-> FALSE]

\* A quotient of at least as many limbs as the divisor.
TdivQrLong(n, nn, d, dn, adjust) ==
  LET norm == 2 ^ LeadingZeros(LimbAt(d, dn - 1))
      size == nn + adjust
      x == (n * norm) % B ^ size
      div == IF dn < DcDivQrThreshold THEN SbDivQr(x, size, d * norm, dn)
             ELSE DcDivQr(x, size, d * norm, dn)
  IN  [q |-> div.q % B ^ (size - dn), r |-> div.r \div norm, stray |-> FALSE]

\* The quotient of qn limbs that the 2 * qn highest limbs of the normalised
\* dividend and the qn highest of the divisor d2 give.
EstimateQ(n2, d2, qn) ==
  IF qn = 1 THEN UdivQrnnd(LimbAt(n2, 1), LimbAt(n2, 0), d2)
  ELSE IF qn = 2 THEN Divrem2(n2, 4, d2)
  ELSE IF qn < DcDivQrThreshold THEN SbDivQr(n2, 2 * qn, d2, qn)
  ELSE DcDivQrN(n2, d2, qn)

\* "If that product is > the partial remainder's most significant limb, we know
\* the quotient is too large": x is the first limb of the divisor left out.
QuickTest(est, d2, x, qn) ==
  IF LimbAt(est.r, qn - 1) < Hi(x * LimbAt(est.q, qn - 1))
  THEN [q |-> est.q - 1, r |-> est.r + d2] ELSE est

\* The limbs used in part: the remainder is shifted back to where the operands
\* are, and the low bits of a limb of the divisor times q are subtracted.  When
\* the test has made the remainder longer, there is no borrow.
PartLimb(est, n, d, in, qn, bits) ==
  LET r == est.r * 2 ^ bits + (LimbAt(n, in - 1) % 2 ^ bits)
      longer == est.r >= B ^ qn
      whole == (IF longer THEN r % B ^ (qn + 1) ELSE r) - est.q * (LimbAt(d, in - 1) % 2 ^ bits)
  IN  [q |-> est.q, r |-> whole % B ^ (qn + 1), large |-> ~longer /\ whole < 0]

\* A quotient shorter than the divisor: it is estimated, and the in lowest limbs
\* of the divisor times it subtracted.  stray: a borrow runs past the remainder.
TdivQrShort(n, nn, d, dn, adjust) ==
  LET qn == nn - dn + adjust
      all == dn - qn
      bits == LimbBits - LeadingZeros(LimbAt(d, dn - 1))
      norm == 2 ^ (LimbBits - bits)
      d2 == Part(d * norm, all, dn)
      n2 == Part(n * norm, nn - 2 * qn + adjust, nn + adjust)
      est == EstimateQ(n2, d2, qn)
      test == QuickTest([q |-> est.q % B ^ qn, r |-> est.r], d2, LimbAt(d * norm, all - 1), qn)
      in == IF norm = 1 THEN all ELSE all - 1
      part == IF norm = 1 THEN [q |-> test.q, r |-> test.r, large |-> FALSE]
              ELSE PartLimb(test, n, d, all, qn, bits)
      rn == IF norm # 1 \/ part.r >= B ^ qn THEN qn + 1 ELSE qn
      product == part.q * (d % B ^ in)
      high == part.r - (product \div B ^ in)
      borrow == IF n % B ^ in < product % B ^ in THEN 1 ELSE 0
      top == (high % B ^ rn) % B ^ (dn - in)
      tooLarge == part.large \/ high < 0 \/ top < borrow
      r == (top * B ^ in + (n % B ^ in) - (product % B ^ in)) % B ^ dn
  IN  IF qn = 0 THEN [q |-> 0, r |-> n, stray |-> FALSE]
      ELSE [q |-> part.q - (IF tooLarge THEN 1 ELSE 0),
            r |-> IF tooLarge THEN (r + d) % B ^ dn ELSE r,
            stray |-> rn > dn - in /\ top < borrow]

TdivQr(n, nn, d, dn) ==
  LET adjust == IF LimbAt(n, nn - 1) >= LimbAt(d, dn - 1) THEN 1 ELSE 0
      one == Divrem1(n, nn, d, 0)
  IN  IF dn = 1 THEN [q |-> one.q, r |-> one.r, stray |-> FALSE]
      ELSE IF dn = 2 THEN TdivQr2(n, nn, d)
      ELSE IF nn + adjust >= 2 * dn THEN TdivQrLong(n, nn, d, dn, adjust)
      ELSE TdivQrShort(n, nn, d, dn, adjust)

=============================================================================
