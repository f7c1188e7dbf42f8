----------------------------- MODULE MpnHensel -----------------------------
(***************************************************************************)
(* Division from the low end: an odd divisor has an inverse modulo powers  *)
(* of the base, and each limb of the quotient is the one that cancels the  *)
(* lowest limb left.  Exact quotients, quotients modulo a power of the     *)
(* base, and Montgomery's reduction, where multiples of the divisor are    *)
(* added; and remainders by one limb, from residues of powers of the base. *)
(***************************************************************************)
EXTENDS MpnQuotient

CONSTANTS HenselQrThreshold,   \* DIVREM_HENSEL_QR_1_THRESHOLD, at least 2
          Divexact1Threshold,  \* DIVEXACT_1_THRESHOLD
          DcBdivQrThreshold,   \* DC_BDIV_QR_THRESHOLD, at least 2
          DcBdivQThreshold,    \* DC_BDIV_Q_THRESHOLD
          Mod11Threshold,      \* MOD_1_1_THRESHOLD
          Mod12Threshold,      \* MOD_1_2_THRESHOLD
          Mod13Threshold       \* MOD_1_3_THRESHOLD

----------------------------------------------------------------------------
(* One limb.  x = q * d - r * B ^ n, with 0 <= r < d.                      *)

DivremHenselQr(x, n, d) ==
  IF n < HenselQrThreshold THEN HenselQr1(x, n, d, 0) ELSE HenselQr2(x, n, d, 0, 0)

\* The dividend is shifted instead: mpn_divrem_hensel_rsh_qr_1.
DivremHenselRsh(x, n, d, s) == HenselQr1(x \div 2 ^ s, n, d, 0)

Divexact1(x, n, d) ==
  LET twos == TrailingZeros(d)
  IN  IF n = 1 THEN x \div d ELSE HenselQr1(x \div 2 ^ twos, n, d \div 2 ^ twos, 0).q

\* mpn_divexact_byfobm1 by a factor f of B - 1, m = (B - 1) / f: the quotient by
\* B - 1 of m * x, without the product.
ByFactor(x, n, f, cin) ==
  LET m == (B - 1) \div f
      After[i \in 0 .. n] ==
        IF i = 0 THEN [q |-> 0, acc |-> Wrap(cin * m)]
        ELSE LET before == After[i - 1]
                 p == LimbAt(x, i - 1) * m
                 limb == Wrap(before.acc - Lo(p))
                 c == IF before.acc < Lo(p) THEN 1 ELSE 0
             IN  [q |-> before.q + limb * B ^ (i - 1), acc |-> Wrap(limb - Hi(p) - c)]
  IN  [q |-> After[n].q, r |-> Wrap(-f * After[n].acc)]

DivexactByfobm1(x, n, f) == ByFactor(x, n, f, 0)
DivexactBy3c(x, n, cin) == ByFactor(x, n, 3, cin)

\* mpn_divexact_byff, by B - 1 itself.
DivexactByff(x, n) ==
  LET After[i \in 0 .. n] ==
        IF i = 0 THEN [q |-> 0, r |-> 0]
        ELSE LET before == After[i - 1]
                 t == LimbAt(x, i - 1)
                 limb == Wrap(before.r - t)
             IN  [q |-> before.q + limb * B ^ (i - 1),
                  r |-> Wrap(limb - (IF t > before.r THEN 1 ELSE 0))]
  IN  After[n]

----------------------------------------------------------------------------
(* More limbs: quotients and remainders.  n - q * d = (r - cy * B ^ dn) *   *)
(* B ^ qn, where qn = nn - dn.                                             *)

\* Multiples of the odd d, of dn limbs, added to x until its m <= dn low limbs are
\* zero.  The carry of each row is kept in the limb that has become zero, and all of
\* them are added at the end, dn limbs above.  Rows are of one limb of q, or two.
CancelLow(x, d, dn, m, wide) ==
  LET InverseModulo(w) == CHOOSE y \in 0 .. B ^ w - 1 : (y * d) % B ^ w = 1
      Row(before, i, w) ==
        LET q == (-InverseModulo(w) * Part(before.x, i, i + w)) % B ^ w
            old == Part(before.x, i, i + dn)
            new == old + q * d
        IN  [x |-> before.x + ((new % B ^ dn) - old) * B ^ i,
             q |-> before.q + q * B ^ i,
             carries |-> before.carries + (new \div B ^ dn) * B ^ i]
      After[i \in 0 .. m] ==
        IF i = 0 THEN [x |-> x, q |-> 0, carries |-> 0]
        ELSE IF wide /\ i > m % 2 /\ (i - m) % 2 = 0 THEN Row(After[i - 2], i - 2, 2)
        ELSE Row(After[i - 1], i - 1, 1)
  IN  [q |-> After[m].q, r |-> (After[m].x \div B ^ m) + After[m].carries * B ^ (dn - m)]

\* Blocks of dn limbs of the quotient, and a last one: over counts the carries out.
RECURSIVE SbBlocks(_, _, _, _)
SbBlocks(x, qn, d, dn) ==
  LET m == MinOf(qn, dn)
      size == B ^ (qn - m + dn)
      block == CancelLow(x, d, dn, m, FALSE)
      rest == SbBlocks(block.r % size, qn - m, d, dn)
  IN  IF qn = 0 THEN [q |-> 0, r |-> x, over |-> 0]
      ELSE [q |-> block.q + rest.q * B ^ m, r |-> rest.r, over |-> (block.r \div size) + rest.over]

\* The multiples were added: q is their complement, and d is subtracted once, unless
\* q is zero.
SbBdivQr(n, nn, d, dn) ==
  LET sum == SbBlocks(n, nn - dn, d, dn)
      borrow == IF sum.r < d THEN 1 ELSE 0
  IN  IF sum.q = 0 THEN [q |-> 0, r |-> sum.r, cy |-> 0]
      ELSE [q |-> B ^ (nn - dn) - sum.q, r |-> (sum.r - d) % B ^ dn, cy |-> borrow - sum.over]

\* qn limbs of the quotient of x, of xn limbs, from its 2 * qn lowest and the qn lowest
\* of d, then the other limbs of d times them subtracted, with the borrow.
LowBlock(Divide(_, _), x, xn, d, qn) ==
  LET low == B ^ qn
      div == Divide(x % (low * low), d % low)
      rest == (x \div (low * low)) * low + div.r - (d \div low) * div.q - div.cy * low
  IN  [q |-> div.q, r |-> rest % B ^ (xn - qn), cy |-> IF rest < 0 THEN 1 ELSE 0]

\* mpn_dc_bdiv_qr_n: 2 * n limbs by n.
RECURSIVE DcBdivQrN(_, _, _)
DcBdivQrN(x, d, n) ==
  LET lo == n \div 2
      hi == n - lo
      Half(y, e, size) ==
        IF size < DcBdivQrThreshold THEN SbBdivQr(y, 2 * size, e, size) ELSE DcBdivQrN(y, e, size)
      Low(y, e) == Half(y, e, lo)
      High(y, e) == Half(y, e, hi)
      low == LowBlock(Low, x, 2 * n, d, lo)
      high == LowBlock(High, low.r, n + hi, d, hi)
  IN  [q |-> low.q + high.q * B ^ lo, r |-> high.r, cy |-> low.cy + high.cy]

\* The quotient in blocks of dn limbs, the first one of fewer.
DcBdivQr(n, nn, d, dn) ==
  LET all == nn - dn
      qn == IF all > dn THEN ((all - 1) % dn) + 1 ELSE all
      First(y, e) ==
        IF qn < DcBdivQrThreshold THEN SbBdivQr(y, 2 * qn, e, qn) ELSE DcBdivQrN(y, e, qn)
      Next(y, e) == DcBdivQrN(y, e, dn)
      After[i \in 0 .. (all - qn) \div dn] ==
        IF i = 0 THEN LowBlock(First, n, nn, d, qn)
        ELSE LET before == After[i - 1]
                 done == qn + (i - 1) * dn
                 block == LowBlock(Next, before.r, nn - done, d, dn)
             IN  [q |-> before.q + block.q * B ^ done, r |-> block.r, cy |-> before.cy + block.cy]
  IN  After[(all - qn) \div dn]

----------------------------------------------------------------------------
(* Quotients modulo B ^ nn.  The overflow w, two limbs, is what the        *)
(* products of limbs of q and d that reach the lowest nn limbs have above. *)

SbBdivQ(n, nn, d, dn) ==
  LET After[i \in 0 .. nn] ==
        IF i = 0 THEN [q |-> 0, r |-> n, w |-> 0]
        ELSE LET before == After[i - 1]
                 size == B ^ (nn - i + 1)
                 limb == Wrap(before.r * InverseOf(Lo(d)))
                 r == before.r - limb * (d % size)
             IN  [q |-> before.q + limb * B ^ (i - 1), r |-> (r % size) \div B,
                  w |-> Wrap2(before.w - (r \div size))]
  IN  After[nn]

\* mpn_dc_bdiv_q_n: the low half of the quotient, its products with the upper limbs
\* of d, as far as they are wanted, and the high half.
RECURSIVE DcBdivQN(_, _, _)
DcBdivQN(x, d, n) ==
  LET t == n \div 2
      s == n - t
      Half(y, e, size) ==
        IF size <= DcBdivQThreshold THEN SbBdivQ(y, size, e, size) ELSE DcBdivQN(y, e, size)
      low == Half(x % B ^ s, d % B ^ s, s)
      first == IF n % 2 = 1 THEN LimbAt(low.q, 0) * Part(d, s, n) ELSE 0
      middle == Mulmid(Part(d, 1, 2 * t), 2 * t - 1, Part(low.q, n % 2, s), t) + first + low.w
      rest == (x \div B ^ s) - (middle % B ^ t)
      high == Half(rest % B ^ t, d % B ^ t, t)
      over == (middle \div B ^ t) + (IF rest < 0 THEN 1 ELSE 0)
  IN  [q |-> low.q + high.q * B ^ s, w |-> Wrap2(high.w + over)]

DcBdivQ(n, nn, d, dn) ==
  LET high == DcBdivQr(n, nn, d, dn)
  IN  IF nn > dn THEN high.q + DcBdivQN(high.r, d, dn).q * B ^ (nn - dn)
      ELSE IF nn < DcBdivQThreshold THEN SbBdivQ(n, nn, d, nn).q
      ELSE DcBdivQN(n, d, nn).q

\* mpn_bdivmod: the quotient modulo 2 ^ bits, and the rest of u.
Bdivmod(u, un, v, vn, bits) ==
  LET Row(before, i, q) ==
        [q |-> before.q + q * B ^ i, r |-> (before.r - q * v * B ^ i) % B ^ un]
      LimbOf(r, i) == Wrap(LimbAt(r, i) * InverseOf(Lo(v)))
      whole == bits \div LimbBits
      After[i \in 0 .. whole] ==
        IF i = 0 THEN [q |-> 0, r |-> u]
        ELSE Row(After[i - 1], i - 1, LimbOf(After[i - 1].r, i - 1))
  IN  IF bits % LimbBits = 0 THEN After[whole]
      ELSE Row(After[whole], whole, LimbOf(After[whole].r, whole) % 2 ^ (bits % LimbBits))

\* mpn_divexact, below INV_DIV_QR_THRESHOLD: without the low zeros of d, and of the
\* operands only as much as the quotient depends on.
RECURSIVE Divexact(_, _, _, _)
Divexact(n, nn, d, dn) ==
  LET qn == nn + 1 - dn
      kept == MinOf(dn, qn)
      twos == 2 ^ TrailingZeros(Lo(d))
      e == ((d % B ^ (qn + 1)) \div twos) % B ^ kept
      x == ((n % B ^ (qn + 1)) \div twos) % B ^ qn
  IN  IF Lo(d) = 0 THEN Divexact(n \div B, nn - 1, d \div B, dn - 1)
      ELSE IF dn = 1
      THEN (IF nn < Divexact1Threshold THEN Divrem1(n, nn, d, 0).q ELSE Divexact1(n, nn, d))
      ELSE IF kept < DcBdivQThreshold THEN SbBdivQ(x, qn, e, kept).q
      ELSE DcBdivQ(x, qn, e, kept)

----------------------------------------------------------------------------
(* mpn_redc_1 and mpn_redc_2: t / B ^ n modulo m, in n limbs.              *)

Redc(t, m, n, wide) ==
  LET sum == CancelLow(t, m, n, n, wide).r
  IN  IF sum >= B ^ n THEN (sum - m) % B ^ n ELSE sum

Redc1(t, m, n) == Redc(t, m, n, FALSE)
Redc2(t, m, n) == Redc(t, m, n, TRUE)

----------------------------------------------------------------------------
(* Remainders by one limb.                                                 *)

PreinvMod1(u, un, d) ==
  LET top == LimbAt(u, un - 1)
      Step(r, limb) == UdivQrnndPreinv(r, limb, d, InvertLimb(d))
  IN  LongDivision(Step, top - (IF top >= d THEN d ELSE 0), u, un - 1).r

\* mpn_mod_1_1, _2, _3 and mpn_mod_1_k: k limbs in each round are multiplied with the
\* residues of powers of B, which leaves two limbs, short of wrapping around if
\* (k + 1) * (d - 1) <= B.
Mod1K(x, xn, d, k) ==
  LET norm == 2 ^ LeadingZeros(d)
      inv == InvertLimb(d * norm)
      Reduce(hi, lo) == UdivQrnndPreinv(hi, lo, d * norm, inv).r
      Power[j \in 0 .. k] == IF j = 0 THEN Reduce(norm, 0) ELSE Reduce(Power[j - 1], 0)
      db(j) == Power[j] \div norm
      Row(i, limb) == IF i = 0 THEN limb ELSE limb * db(i - 1)
      Round(pair, j, size) ==
        LET Term(i) == Row(i, LimbAt(x, j + i))
        IN  Wrap2(MapThenSumSet(Term, 0 .. size - 1) + Row(size, Lo(pair)) + Row(size + 1, Hi(pair)))
      rounds == (xn - 2) \div k
      left == (xn - 2) % k
      After[i \in 0 .. rounds] ==
        IF i = 0 THEN Part(x, xn - 2, xn) ELSE Round(After[i - 1], xn - 2 - k * i, k)
      pair == IF left > 0 THEN Round(After[rounds], 0, left) ELSE After[rounds]
      last == Wrap2(Wrap2(Hi(pair) * db(0) + Lo(pair)) * norm)
  IN  IF xn = 0 THEN 0 ELSE IF xn = 1 THEN x % d ELSE Reduce(Hi(last), Lo(last)) \div norm

\* A limb after another from the high end, all of them shifted.
EuclideanQr1(x, n, d) ==
  LET norm == 2 ^ LeadingZeros(d)
      inv == InvertLimb(d * norm)
      Step(r, limb) == UdivQrnndPreinv(Hi(limb * norm) + r, Lo(limb * norm), d * norm, inv)
      div == LongDivision(Step, 0, x, n)
  IN  [q |-> div.q, r |-> div.r \div norm]

EuclideanR1(x, n, d) ==
  IF d <= HighBit \div 2 + 1 /\ n >= Mod13Threshold THEN Mod1K(x, n, d, 3)
  ELSE IF d <= (B - 1) \div 3 + 1 /\ n >= Mod12Threshold THEN Mod1K(x, n, d, 2)
  ELSE IF d <= HighBit + 1 /\ n >= Mod11Threshold THEN Mod1K(x, n, d, 1)
  ELSE EuclideanQr1(x, n, d).r

\* mpn_divrem_euclidean_qr_2, a normalised d of two limbs.
EuclideanStep2(rest, limb, d) ==
  LET d1 == Hi(d)
      d2 == Lo(d)
      step == UdivQrnndPreinv(Hi(rest), Lo(rest), d1, InvertLimb(d1))
      sum == Pair(Lo(rest), limb) + d
      t == Wrap2(sum) - d2 * B
      c4 == (sum \div (B * B)) - (IF t < 0 THEN 1 ELSE 0)
  IN  IF Hi(rest) < d1 THEN AddBack(step.q, Pair(step.r, limb) - step.q * d2, d)
      ELSE IF Lo(rest) >= d1 \/ c4 = 0 THEN [q |-> B - 1, r |-> Wrap2(t)]
      ELSE [q |-> B - 2, r |-> Wrap2(t + d)]

EuclideanQr2(n, nn, d) ==
  LET Step(rest, limb) == EuclideanStep2(rest, limb, d) IN Normalised(Step, n, nn, d, 2)

=============================================================================
