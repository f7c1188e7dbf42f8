----------------------------- MODULE MpnInverse -----------------------------
(***************************************************************************)
(* Reciprocals and the divisions that use them.  The reciprocal of a       *)
(* normalised a of n limbs is X = B^n + x with a * X < B^(2n) <= a*(X + 1);*)
(* x is what is stored.  Newton's iteration makes it from the reciprocal   *)
(* of the highest half, and asks mpn_is_invert only where the limb below   *)
(* the result says that it may be too small.  The divisions take a         *)
(* quotient from a product with the reciprocal, and correct it.            *)
(*                                                                         *)
(* Two of the functions read a limb below the dividend, which is whatever  *)
(* stands there: the parameter stray.                                      *)
(***************************************************************************)
EXTENDS MpnQuotient

CONSTANTS WrapAroundBound,         \* WRAP_AROUND_BOUND
          MpnFftMulNMinsize,       \* MPN_FFT_MUL_N_MINSIZE
          InvDivQrThreshold,       \* INV_DIV_QR_THRESHOLD
          InvDivapprQNThreshold    \* INV_DIVAPPR_Q_N_THRESHOLD

\* mpn_is_invert: whether x is the reciprocal of a.
IsInvert(x, a, n) ==
  LET p == x * a + a * B ^ n IN p < B ^ (2 * n) /\ B ^ (2 * n) - p <= a

----------------------------------------------------------------------------
(* mpn_invert.                                                             *)

\* The product t is too large for len limbs: less in x, and a added that often.
RECURSIVE Lowered(_, _, _, _)
Lowered(x, t, a, len) == IF t >= B ^ len THEN Lowered(x - 1, t - a, a, len) ELSE [x |-> x, t |-> t]

\* More in x, as long as a fits below B ^ len once again.
RECURSIVE Raised(_, _, _, _)
Raised(x, t, a, len) == IF t + a < B ^ len THEN Raised(x + 1, t + a, a, len) ELSE x

\* "n == 2": the high limb from the high limb of a, the other from what is missing.
Invert2(a) ==
  LET v == InvertLimb(LimbAt(a, 1))
      high == Lowered(v, a * v + a * B, a, 3)
      s == (-high.t) % B ^ 2
      x0 == Wrap(Hi(LimbAt(s, 1) * high.x) + LimbAt(s, 1))
  IN  Raised(high.x * B + x0, (high.t * B + a * x0) % B ^ 4, a, 4)

\* A multiple of B^m + 1 too much is subtracted until t, of len limbs and what is
\* above, is "surely" less than B^len, or B^len and something less than 2 * B^n.
RECURSIVE Unwrapped(_, _, _, _)
Unwrapped(t, n, m, len) ==
  IF t < B ^ len \/ (t \div B ^ len = 1 /\ t % B ^ len < 2 * B ^ n) THEN t
  ELSE Unwrapped(t - B ^ m - 1, n, m, len)

\* a times B^h + xh from the product modulo B^m + 1, m = n + 1.  The limbs of a * B^h
\* that are above m come back with a minus.
WrapAround(a, xh, n, h) ==
  LET m == n + 1
      len == n + h
      s == ((a * xh) % (B ^ m + 1)) + (a % B ^ (m - h)) * B ^ h - (a \div B ^ (m - h))
      v == IF s < 0 THEN s + B ^ m + 1 ELSE s
  IN  Unwrapped(B ^ len + v + B ^ (len - m), n, m, len)

RECURSIVE MpnInvert(_, _)
MpnInvertHalves(a, n) ==
  LET l == (n - 1) \div 2
      h == n - l
      half == MpnInvert(a \div B ^ l, h)
      t == IF n <= WrapAroundBound THEN a * half + a * B ^ h ELSE WrapAround(a, half, n, h)
      high == Lowered(half, t, a, n + h)
      e == (-high.t) % B ^ n
      f == e \div B ^ l
      up == f * high.x + f * B ^ h
      x == high.x * B ^ l + Part(up, 2 * h - l, 2 * h)
      near == Wrap(LimbAt(up, 2 * h - l - 1) + 3) <= 2
  IN  IF near /\ ~IsInvert(x, a, n) THEN (x + 1) % B ^ n ELSE x

MpnInvert(a, n) ==
  IF n = 1 THEN InvertLimb(a) ELSE IF n = 2 THEN Invert2(a) ELSE MpnInvertHalves(a, n)

\* mpn_invert_trunc: the reciprocal of the m highest limbs of a from that of all n.
InvertTrunc(x, n, a, m) ==
  LET b == a \div B ^ (n - m)
      high == x \div B ^ (n - m)
      t == (-(high * b + b * B ^ m)) % B ^ (m + 1)
      Raise[r \in 0 .. B ^ (m + 1)] == IF r > b THEN 1 + Raise[r - b] ELSE 0
  IN  (high + Raise[t]) % B ^ m

----------------------------------------------------------------------------
(* 2 * dn limbs by dn.                                                     *)

\* The quotient from the reciprocal, extra more, and the limb below it.  sound: it
\* fits, as is asserted.
FromInverse(n, dn, inv, extra) ==
  LET t == (n \div B ^ (dn - 1)) * inv
      below == LimbAt(n, dn - 1) + LimbAt(t, dn)
      q == (t \div B ^ (dn + 1)) + (n \div B ^ dn) + Hi(below) + extra
      less == IF q >= B ^ dn THEN q - 1 ELSE q
  IN  [q |-> less, lo |-> Lo(below), sound |-> less < B ^ dn]

\* The lowest dn + 1 limbs of q * d, if q * d is not more than n, from the product
\* modulo B^m + 1: the limbs above m are those of n, but for a difference that the
\* lowest limb shows.
FoldedProduct(q, d, n, m) ==
  LET p == ((q * d) % (B ^ m + 1)) % B ^ m
      t == (p + (n \div B ^ m)) % B ^ m
  IN  (t - Wrap(LimbAt(t, 0) - LimbAt(d, 0) * LimbAt(q, 0))) % B ^ m

\* What remains of n, corrected while the divisor goes into it.
Multiplied(q, n, d, p, dn) ==
  LET r == (n - p) % B ^ (dn + 1) IN [q |-> q + (r \div d), r |-> r % d]

\* mpn_inv_div_qr_n
InvDivQrN(x, d, dn, inv) ==
  LET qh == IF x \div B ^ dn >= d THEN 1 ELSE 0
      n == x - qh * d * B ^ dn
      first == FromInverse(n, dn, inv, 0)
      q == MaxOf(first.q - 1, 0)
      p == IF dn <= MpnFftMulNMinsize THEN q * d ELSE FoldedProduct(q, d, n, dn + 1)
      last == Multiplied(q, n, d, p, dn)
  IN  [q |-> last.q + qh * B ^ dn, r |-> last.r,
       sound |-> first.sound /\ (last.q \div B ^ dn) + qh < 2]

\* mpn_inv_divappr_q_n: one is added, unless the limb below is so large that the
\* quotient has to be made exact.
InvDivapprQN(x, d, dn, inv) ==
  LET qh == IF x \div B ^ dn >= d THEN 1 ELSE 0
      n == x - qh * d * B ^ dn
      first == FromInverse(n, dn, inv, 1)
      q == MaxOf(first.q - 1, 0)
      exact == Multiplied(q, n, d, q * d, dn)
      special == first.lo >= B - 2
  IN  [q |-> (IF special THEN exact.q ELSE first.q) + qh * B ^ dn,
       sound |-> first.sound /\ (special => (exact.q \div B ^ dn) + qh < 2)]

----------------------------------------------------------------------------
(* Operands of any lengths.                                                *)

\* The first block, of qn limbs, as in mpn_dc_div_qr, the largest with the reciprocal.
InvFirstBlock(n, d, dn, inv, qn, two) ==
  LET Estimate(y, e) ==
        IF qn = 2 /\ two THEN Divrem2(y, 4, e)
        ELSE IF qn < DcDivQrThreshold THEN SbDivQr(y, 2 * qn, e, qn)
        ELSE IF qn < InvDivQrThreshold THEN DcDivQrN(y, e, qn)
        ELSE InvDivQrN(y, e, qn, InvertTrunc(inv, dn, d, qn))
      block == IF qn = 1 /\ two THEN SbDivQr(n, dn + 1, d, dn) ELSE Block(Estimate, n, d, dn, qn)
  IN  [q |-> block.q, r |-> block.r, sound |-> TRUE]

\* blocks of dn limbs of the quotient more, with the limbs of n that follow; ASSERT_NOCARRY.
InvBlocks(first, n, rest, blocks, d, dn, inv) ==
  LET After[i \in 0 .. blocks] ==
        IF i = 0 THEN first
        ELSE LET before == After[i - 1]
                 next == Part(n, rest - i * dn, rest - (i - 1) * dn)
                 block == InvDivQrN(before.r * B ^ dn + next, d, dn, inv)
             IN  [q |-> before.q * B ^ dn + block.q, r |-> block.r,
                  sound |-> before.sound /\ block.sound /\ block.q < B ^ dn]
  IN  After[blocks]

\* mpn_inv_div_qr
InvDivQr(n, nn, d, dn, inv) ==
  LET all == nn - dn
      qn == IF all > dn THEN ((all - 1) % dn) + 1 ELSE all
      first == InvFirstBlock(n \div B ^ (all - qn), d, dn, inv, qn, all > dn)
  IN  InvBlocks(first, n, all - qn, (all - qn) \div dn, d, dn, inv)

\* mpn_inv_divappr_q.  With at least dn limbs a guard limb is asked for, the last
\* limb of the last block, and dropped; the dividend is then a limb short.
InvDivapprLong(n, nn, d, dn, inv, stray) ==
  LET all == nn - dn + 1
      x == n * B + stray
      qn == ((all - 1) % dn) + 1
      first == InvFirstBlock(x \div B ^ (all - qn), d, dn, inv, qn, TRUE)
      exact == InvBlocks(first, x, all - qn, (all - qn) \div dn - 1, d, dn, inv)
      low == InvDivapprQN(exact.r * B ^ dn + (x % B ^ dn), d, dn, inv)
      q == IF low.q >= B ^ dn THEN low.q - 1 ELSE low.q
  IN  [q |-> exact.q * B ^ (dn - 1) + ((q % B ^ dn) \div B), sound |-> exact.sound /\ low.sound]

\* With fewer, the highest qn + 1 limbs of the divisor give the quotient and a guard.
InvDivapprShort(n, qn, d, dn, inv, stray) ==
  LET cut == dn - qn - 1
      x == (n * B + stray) \div B ^ cut
      e == d \div B ^ cut
      low == InvDivapprQN(x, e, qn + 1, InvertTrunc(inv, dn, d, qn + 1))
  IN  IF qn = 1 THEN [q |-> Divrem2(x, 4, e).q \div B, sound |-> TRUE]
      ELSE IF qn < DcDivapprQThreshold
      THEN [q |-> SbDivapprQ(x, 2 * qn + 2, e, qn + 1).q \div B, sound |-> TRUE]
      ELSE IF qn < InvDivapprQNThreshold
      THEN [q |-> DcDivapprQ(x, 2 * qn + 2, e, qn + 1).q \div B, sound |-> TRUE]
      ELSE [low EXCEPT !.q = @ \div B]

InvDivapprQ(n, nn, d, dn, inv, stray) ==
  IF nn - dn >= dn THEN InvDivapprLong(n, nn, d, dn, inv, stray)
  ELSE InvDivapprShort(n, nn - dn, d, dn, inv, stray)

\* mpn_inv_div_q: "at most is wrong by one".
InvDivQ(n, nn, d, dn, inv, stray) ==
  LET w == InvDivapprQ(n * B, nn + 1, d, dn, inv, stray)
      q == w.q \div B
  IN  [q |-> IF w.q % B = 0 /\ q * d > n THEN q - 1 ELSE q, sound |-> w.sound]

=============================================================================
