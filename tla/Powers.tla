------------------------------- MODULE Powers -------------------------------
(***************************************************************************)
(* Powers, roots, and the numbers of Fibonacci and Lucas.  mpn_pow_1 and   *)
(* mpz_n_pow_ui swap two buffers at every squaring and must end in that of *)
(* the result; powers modulo m read the exponent in windows that begin     *)
(* with a one and may reach over two limbs; and mpz_remove divides by      *)
(* squares of squares.                                                     *)
(*                                                                         *)
(* A square root is that of the highest half, and a division for the rest; *)
(* other roots are made of more and more bits.  Each step may be too large *)
(* by one, and is corrected at most once.  Fibonacci numbers have 2 or 4   *)
(* added to their lowest limb, or subtracted from it, without a carry.     *)
(*                                                                         *)
(* Not modelled: the array of sizes of mpn_rootrem, which has one entry    *)
(* for each bit of a limb, and the sizes of the blocks of the Fibonacci    *)
(* numbers, which are rounded for limbs of 32 bits and more.               *)
(***************************************************************************)
EXTENDS MpnHensel, Gcd

CONSTANTS PowmThreshold,        \* POWM_THRESHOLD
          ApproxBits,           \* bits of the roots in approx_tab: 8
          RootremThreshold,     \* ROOTREM_THRESHOLD
          Primes,               \* primes of perfpow.c, without 2
          SmallestOmittedPrime  \* SMALLEST_OMITTED_PRIME

\* The number of bits of x, and the bits from at up, len of them.
BitLength(x) == CHOOSE n \in 0 .. 31 : x < 2 ^ n /\ (n = 0 \/ x >= 2 ^ (n - 1))
BitAt(x, i) == (x \div 2 ^ i) % 2
BitsAt(x, at, len) == (x \div 2 ^ at) % 2 ^ len

\* The size of v, computed to be n limbs, without the highest one if that is zero.
Trimmed(v, n) == IF LimbAt(v, n - 1) = 0 THEN n - 1 ELSE n

----------------------------------------------------------------------------
(* A power p of n limbs in one of two buffers: home says in that of the    *)
(* result, cap how many limbs there are in it, other in the other one;     *)
(* fits, that no product was longer than where it went.                    *)

Squared(s) ==
  LET p == s.p * s.p
  IN  [p |-> p, n |-> Trimmed(p, 2 * s.n), cap |-> s.other, other |-> s.cap, home |-> ~s.home,
       fits |-> s.fits /\ 2 * s.n <= s.other]

\* The product with b, of bn limbs, goes to the other buffer, with a limb in place.
TimesAway(s, b, bn) ==
  LET p == s.p * b
  IN  [p |-> p, n |-> Trimmed(p, s.n + bn), cap |-> s.other, other |-> s.cap, home |-> ~s.home,
       fits |-> s.fits /\ s.n + bn <= s.other]
TimesLimb(s, limb) ==
  [s EXCEPT !.p = @ * limb, !.n = Trimmed(s.p * limb, s.n + 1), !.fits = @ /\ s.n + 1 <= s.cap]
ShiftedLeft(s, bits) == TimesLimb(s, 2 ^ bits)

\* The bits of e below the first, from the highest: a squaring for each.
Powered(s, b, bn, e) ==
  LET n == BitLength(e)
      After[i \in 1 .. n] ==
        IF i = 1 THEN s
        ELSE LET square == Squared(After[i - 1])
             IN  IF BitAt(e, n - i) = 0 THEN square
                 ELSE IF bn = 1 THEN TimesLimb(square, b) ELSE TimesAway(square, b, bn)
  IN  After[n]

\* mpn_pow_1.  The first square does not swap: the base is neither buffer.
Ones(e) == BitsOf(e)
Pow1(b, bn, e, rcap, tcap) ==
  LET cnt == LimbBits - BitLength(e)
      away == IF bn = 1 THEN cnt % 2 # 0 ELSE ((Ones(e) % 2) + cnt) % 2 = 0
      source == [p |-> b, n |-> bn, home |-> away, fits |-> TRUE,
                 cap |-> IF away THEN rcap ELSE tcap, other |-> IF away THEN tcap ELSE rcap]
  IN  IF e = 0 THEN [p |-> 1, n |-> 1, home |-> TRUE, fits |-> TRUE]
      ELSE IF e = 1 THEN [p |-> b, n |-> bn, home |-> TRUE, fits |-> bn <= rcap]
      ELSE Powered(source, b, bn, e)

----------------------------------------------------------------------------
(* mpz_n_pow_ui: the zeros at the end of the base are powers of two in the *)
(* result, and a base of one limb is first powered inside a limb.          *)

HalfMax == 2 ^ (LimbBits \div 2) - 1

\* What is left of e, blimb ^ e being the rest of the power, and rl the factor.
RECURSIVE SmallPower(_, _, _)
SmallPower(blimb, e, rl) ==
  LET factor == IF e % 2 = 1 THEN Wrap(rl * blimb) ELSE rl
  IN  IF blimb > HalfMax \/ e = 0 THEN [blimb |-> blimb, e |-> e, rl |-> rl]
      ELSE IF e \div 2 = 0 THEN [blimb |-> blimb, e |-> 0, rl |-> factor]
      ELSE SmallPower(Wrap(blimb * blimb), e \div 2, factor)

NPowUi(b, e) ==
  LET zeros == CHOOSE i \in 0 .. Limbs(b) - 1 : LimbAt(b, i) # 0 /\ b % B ^ i = 0
      twos == TrailingZeros(LimbAt(b, zeros))
      base == Abs(b) \div (B ^ zeros * 2 ^ twos)
      bn == Limbs(base)
      bits == (e * twos) % LimbBits
      small == IF bn = 1 THEN SmallPower(base, e, 1) ELSE [blimb |-> LimbAt(base, bn - 1), e |-> e, rl |-> 1]
      merged == bn = 1 /\ bits # 0 /\ small.rl # 1 /\ small.rl \div 2 ^ (LimbBits - bits) = 0
      rl == IF merged THEN small.rl * 2 ^ bits ELSE small.rl
      factor == IF bn = 1 THEN small.blimb ELSE base
      alloc == ((bn * LimbBits - LeadingZeros(small.blimb)) * small.e) \div LimbBits + 5
      talloc == IF bn <= 1 \/ small.e % 2 = 0 THEN alloc \div 2 ELSE alloc
      i == BitLength(small.e) - 2
      away == IF bn = 1 THEN i % 2 = 0 ELSE (Ones(small.e) + i) % 2 # 0
      start == [p |-> factor, n |-> bn, home |-> ~away, fits |-> TRUE,
                cap |-> IF away THEN talloc ELSE alloc, other |-> IF away THEN alloc ELSE talloc]
      power == Powered(start, factor, bn, small.e)
      whole == IF small.e = 0 THEN [p |-> rl, n |-> 1, home |-> TRUE, fits |-> TRUE, cap |-> alloc]
               ELSE IF bn = 1 /\ rl # 1 THEN TimesLimb(power, rl) ELSE power
      shifted == IF merged \/ bits = 0 THEN whole ELSE ShiftedLeft(whole, bits)
      low == zeros * e + (e * twos) \div LimbBits
      sign == IF b < 0 /\ e % 2 = 1 THEN -1 ELSE 1
  IN  IF e = 0 \/ b = 0 THEN [v |-> IF e = 0 THEN 1 ELSE 0, n |-> IF e = 0 THEN 1 ELSE 0, home |-> TRUE, fits |-> TRUE]
      ELSE [v |-> sign * shifted.p * B ^ low, n |-> shifted.n + low, home |-> shifted.home, fits |-> shifted.fits]

----------------------------------------------------------------------------
(* mpz_powm.                                                               *)

\* The bits of the exponent looked at together.
RECURSIVE WindowBits(_, _)
WindowBits(bits, k) ==
  IF 2 * bits > 2 ^ k * (2 + k * (3 + k)) /\ k < 10 THEN WindowBits(bits, k + 1) ELSE k

\* Mutant: a window over two limbs takes the lowest bits of the lower one.
WindowLowest(e, i, sh, k) ==
  IF sh >= k \/ i = 0
  THEN [c |-> (LimbAt(e, i) \div 2 ^ MaxOf(sh - k, 0)) % 2 ^ MinOf(sh, k), i |-> i, sh |-> sh - k, l |-> MinOf(sh, k)]
  ELSE [c |-> (LimbAt(e, i) * 2 ^ (k - sh) + (LimbAt(e, i - 1) % 2 ^ (k - sh))) % 2 ^ k,
        i |-> i - 1, sh |-> sh - k + LimbBits, l |-> k]

\* The next window of k bits or what is left, below bit sh of limb i.
Window(e, i, sh, k) ==
  LET down == sh - k
  IN  IF down >= 0 THEN [c |-> (LimbAt(e, i) \div 2 ^ down) % 2 ^ k, i |-> i, sh |-> down, l |-> k]
      ELSE IF i > 0
      THEN [c |-> (Wrap(LimbAt(e, i) * 2 ^ (-down)) + (LimbAt(e, i - 1) \div 2 ^ (down + LimbBits))) % 2 ^ k,
            i |-> i - 1, sh |-> down + LimbBits, l |-> k]
      ELSE [c |-> LimbAt(e, 0) % 2 ^ sh, i |-> 0, sh |-> down, l |-> sh]

More(w) == w.i > 0 \/ w.sh > 0

\* "Loop while the most significant bit of c is zero": the window slides, n squarings.
RECURSIVE Slid(_, _, _)
Slid(e, w, n) ==
  IF w.c \div 2 ^ (w.l - 1) # 0 \/ ~More(w) THEN [w |-> w, n |-> n]
  ELSE IF w.sh # 0
  THEN Slid(e, [w EXCEPT !.sh = @ - 1, !.c = 2 * @ + BitAt(LimbAt(e, w.i), w.sh - 1)], n + 1)
  ELSE Slid(e, [w EXCEPT !.i = @ - 1, !.sh = LimbBits - 1, !.c = 2 * @ + BitAt(LimbAt(e, w.i - 1), LimbBits - 1)], n + 1)

\* Products modulo m, normalised in the divisions; redc: the operands are times B^n.
ModularProduct(x, y, m, n, redc) ==
  IF redc THEN Redc1(x * y, m, n) ELSE TdivQr(x * y, 2 * n, m, n).r

RECURSIVE SquaredTimes(_, _, _, _, _)
SquaredTimes(x, times, m, n, redc) ==
  IF times = 0 THEN x ELSE SquaredTimes(ModularProduct(x, x, m, n, redc), times - 1, m, n, redc)

\* The rest of the exponent, from window to window; Odd gives the odd powers.
RECURSIVE Windows(_, _, _, _, _, _, _, _)
Windows(x, e, i, sh, k, m, n, Odd) ==
  LET redc == n < PowmThreshold /\ m % 2 = 1
      slid == Slid(e, Window(e, i, sh, k), 0)
      w == slid.w
      j == IF w.c = 0 THEN w.l ELSE TrailingZeros(w.c)
      high == SquaredTimes(x, slid.n + w.l - j, m, n, redc)
      next == IF w.c = 0 THEN high ELSE ModularProduct(high, Odd[w.c \div 2 ^ (j + 1)], m, n, redc)
  IN  IF ~(i > 0 \/ sh > 0) THEN x
      ELSE Windows(SquaredTimes(next, j, m, n, redc), e, w.i, w.sh, k, m, n, Odd)

\* The power of |b| by e > 0 modulo m of n limbs.
PowmBody(b, e, m, n) ==
  LET redc == n < PowmThreshold /\ m % 2 = 1
      norm == IF redc THEN 1 ELSE 2 ^ LeadingZeros(LimbAt(m, n - 1))
      mp == m * norm
      en == Limbs(e)
      sh == LimbBits - LeadingZeros(LimbAt(e, en - 1))
      k == WindowBits(en * LimbBits - LeadingZeros(LimbAt(e, en - 1)), 1)
      bn == Limbs(b)
      less == IF bn > n \/ (bn = n /\ Abs(b) >= mp) THEN TdivQr(Abs(b), bn, mp, n).r ELSE Abs(b)
      x == IF redc THEN TdivQr(less * B ^ n, 2 * n, m, n).r ELSE less
      square == ModularProduct(x, x, mp, n, redc)
      Odd[i \in 0 .. 2 ^ (k - 1) - 1] == IF i = 0 THEN x ELSE ModularProduct(Odd[i - 1], square, mp, n, redc)
      first == Window(e, en - 1, sh, k)
      j == TrailingZeros(first.c)
      high == SquaredTimes(Odd[first.c \div 2 ^ (j + 1)], j, mp, n, redc)
      power == Windows(high, e, first.i, first.sh, k, mp, n, Odd)
      back == Redc1(power, m, n)
      shifted == power * norm
  IN  IF redc THEN IF back >= m THEN back - m ELSE back
      ELSE IF norm = 1 THEN power
      ELSE TdivQr(shifted, IF shifted >= B ^ n THEN n + 1 ELSE n, mp, n).r \div norm

Negated(x, m, b, e) == IF e % 2 = 1 /\ b < 0 /\ x # 0 THEN m - x ELSE x

\* The guard of mpz_powm; a division by zero otherwise.
PowmDefined(b, e, m) == m # 0 /\ (e < 0 => Invert(b, m).exists)

MpzPowm(b, e, m) ==
  LET mod == Abs(m)
      base == IF e < 0 THEN Invert(b, m).inverse ELSE b
  IN  IF e = 0 THEN (IF mod = 1 THEN 0 ELSE 1)
      ELSE Negated(PowmBody(base, Abs(e), mod, Limbs(mod)), mod, base, e)

\* mpz_powm_ui: bits from the high end, and a division only of what has as many
\* limbs as m.
PowmUi(b, el, m) ==
  LET mod == Abs(m)
      n == Limbs(mod)
      norm == 2 ^ LeadingZeros(LimbAt(mod, n - 1))
      mp == mod * norm
      base == IF Limbs(b) > n THEN TdivQr(Abs(b), Limbs(b), mp, n).r ELSE Abs(b)
      Reduce(t, tn) == IF tn < n THEN [x |-> t, n |-> tn] ELSE [x |-> TdivQr(t, tn, mp, n).r, n |-> n]
      Times(s, y, yn) == Reduce(s.x * y, Trimmed(s.x * y, s.n + yn))
      bits == BitLength(el)
      After[i \in 1 .. bits] ==
        IF i = 1 THEN [x |-> base, n |-> Limbs(base)]
        ELSE LET square == Times(After[i - 1], After[i - 1].x, After[i - 1].n)
             IN  IF BitAt(el, bits - i) = 1 THEN Times(square, base, Limbs(base)) ELSE square
      last == IF bits = 1 /\ Limbs(base) = n /\ base >= mp THEN [x |-> base - mp, n |-> n] ELSE After[bits]
      shifted == last.x * norm
      x == IF norm = 1 THEN last.x
           ELSE Reduce(shifted, IF shifted >= B ^ last.n THEN last.n + 1 ELSE last.n).x \div norm
  IN  IF el = 0 THEN (IF mod = 1 THEN 0 ELSE 1)
      ELSE IF base = 0 THEN 0 ELSE Negated(x, mod, b, el)

\* mpz_remove: f, f^2, f^4 ... and then those again that divide what is left.
RECURSIVE RemoveUp(_, _, _), RemoveDown(_, _, _, _)
RemoveDown(x, f, p, power) ==
  LET fp == f ^ (2 ^ p)
  IN  IF p < 0 THEN [dest |-> x, ret |-> power]
      ELSE IF x % fp = 0 THEN RemoveDown(x \div fp, f, p - 1, power + 2 ^ p)
      ELSE RemoveDown(x, f, p - 1, power)
RemoveUp(x, f, p) ==
  IF x % f ^ (2 ^ p) # 0 THEN RemoveDown(x, f, p - 1, 2 ^ p - 1) ELSE RemoveUp(x \div f ^ (2 ^ p), f, p + 1)
Remove(src, f) ==
  LET found == RemoveUp(Abs(src), f, 0)
      zeros == CHOOSE i \in 0 .. BitLength(Abs(src)) : BitAt(Abs(src), i) = 1 /\ Abs(src) % 2 ^ i = 0
  IN  IF src = 0 THEN [dest |-> 0, ret |-> 0]
      ELSE IF f = 2 THEN [dest |-> src \div 2 ^ zeros, ret |-> zeros]
      ELSE [found EXCEPT !.dest = SignOf(src) * @]

----------------------------------------------------------------------------
(* Square roots; results are the root s and the remainder.                 *)

\* approx_tab, as the program in the comment makes it.
ApproxTab ==
  [i \in 2 ^ (ApproxBits - 2) .. 2 ^ ApproxBits - 1 |->
     CHOOSE s \in 0 .. 2 ^ ApproxBits - 1 : s * s <= i * 2 ^ ApproxBits /\ (s + 1) * (s + 1) > i * 2 ^ ApproxBits]

\* The bits are doubled until they are those of half a limb: what remains, divided by
\* twice the root, gives the next ones.
RECURSIVE Doubled(_, _, _, _)
Doubled(s, r, x, prec) ==
  LET next == Wrap(Wrap(r * 2 ^ prec) + BitsAt(x, LimbBits - 3 * prec, prec))
      q == next \div (2 * s)
      u == Wrap((next % (2 * s)) * 2 ^ prec + BitsAt(x, LimbBits - 4 * prec, prec))
      root == s * 2 ^ prec + q
      large == u < q * q
  IN  IF 2 * prec >= LimbBits THEN [s |-> s, r |-> r]
      ELSE Doubled(IF large THEN root - 1 ELSE root,
                   Wrap(u - q * q + (IF large THEN 2 * root - 1 ELSE 0)), x, 2 * prec)

\* mpn_sqrtrem1
Sqrtrem1(x) ==
  LET s == ApproxTab[x \div 2 ^ (LimbBits - ApproxBits)]
      r == (x \div 2 ^ (LimbBits - 2 * ApproxBits)) - s * s
  IN  IF r > 2 * s THEN Doubled(s + 1, r - 2 * s - 1, x, ApproxBits) ELSE Doubled(s, r, x, ApproxBits)

\* Prec
HalfPrec == LimbBits \div 2

\* mpn_sqrtrem2: half a limb from the remainder of the other, which may exceed the
\* root; c is what the remainder has above its limb.
Sqrtrem2(x) ==
  LET high == Sqrtrem1(x \div B)
      low == x % B
      times == high.r \div high.s
      part == Wrap((high.r % high.s) * 2 ^ HalfPrec + BitsAt(low, HalfPrec, HalfPrec))
      q == (part \div (2 * high.s)) + (times % 2) * 2 ^ (HalfPrec - 1)
      u == part % (2 * high.s)
      more == times \div 2
      s == Wrap((high.s + more) * 2 ^ HalfPrec + q)
      rest == Wrap(u * 2 ^ HalfPrec) + BitsAt(low, 0, HalfPrec) - Wrap(q * q)
      c == (u \div 2 ^ HalfPrec) + Hi(rest) - more
      back == Lo(rest) + (IF s # 0 THEN s ELSE B) + Wrap(s - 1)
  IN  IF c < 0 THEN [s |-> Wrap(s - 1), r |-> Lo(back), c |-> c + Hi(back)]
      ELSE [s |-> s, r |-> Lo(rest), c |-> c]

\* mpn_dc_sqrtrem: the root of 2 * n limbs.
RECURSIVE DcSqrtrem(_, _)
DcSqrtrem(x, n) ==
  LET l == n \div 2
      h == n - l
      high == DcSqrtrem(x \div B ^ (2 * l), h)
      rest == IF high.c # 0 THEN (high.r - high.s) % B ^ h ELSE high.r
      y == rest * B ^ l + Part(x, l, 2 * l)
      q == high.c + (y \div (high.s * B ^ l))
      odd == (y \div high.s) % 2
      low == (((y \div high.s) % B ^ l) \div 2) + Wrap(q * HighBit) * B ^ (l - 1)
      r == (y % high.s) + odd * high.s
      whole == r * B ^ l + (x % B ^ l) - low * low - (q \div 2) * B ^ (2 * l)
      s == (high.s + (q \div 2)) * B ^ l + low
      back == whole + 2 * s - 1
  IN  IF n = 1 THEN Sqrtrem2(x)
      ELSE IF whole < 0 THEN [s |-> (s - 1) % B ^ n, r |-> back % B ^ n, c |-> back \div B ^ n]
      ELSE [s |-> s % B ^ n, r |-> whole % B ^ n, c |-> whole \div B ^ n]

\* mpn_sqrtrem: x times a power of four has an even number of limbs and a high bit in
\* the upper half of its highest one; s0 are the bits of the root which that made.
Sqrtrem(x) ==
  LET nn == Limbs(x)
      c == LeadingZeros(LimbAt(x, nn - 1)) \div 2
      tn == (nn + 1) \div 2
      k == c + (nn % 2) * (LimbBits \div 2)
      full == DcSqrtrem(x * 4 ^ k, tn)
      s0 == full.s % 2 ^ k
      r == full.c * B ^ tn + full.r + 2 * s0 * full.s - s0 * s0
      one == Sqrtrem1(x)
  IN  IF x = 0 THEN [s |-> 0, r |-> 0]
      ELSE IF nn = 1 /\ x >= HighBit THEN one
      ELSE [s |-> full.s \div 2 ^ k, r |-> r \div 4 ^ k]

----------------------------------------------------------------------------
(* Other roots.  Results are the root, what is returned -- the remainder,  *)
(* or something other than zero if there is one --, and sound: no product  *)
(* was longer than its buffer and what is asserted is so.                  *)

\* The root has xnb bits; if that is one, it is one.
RootBits(u, k) == ((BitLength(u) - 1) \div k) + 1
RootOne(u) == [root |-> 1, rem |-> u - 1, sound |-> TRUE]

\* Newton's iteration in full precision, from above.
RECURSIVE Newton(_, _, _, _, _, _)
Newton(s, u, nth, xn, valid, adj) ==
  LET alloc == 2 + (Limbs(u) * 1585) \div 1000
      power == Pow1(s.x, xn, nth - 1, alloc, alloc)
      q == u \div power.p
      sum == (q % B ^ xn) + s.x * (nth - 1)
      cy == (sum \div B ^ xn) + (q \div B ^ xn)
      next == IF Limbs(u) - power.n = xn /\ cy = nth THEN nth * B ^ xn - 1 ELSE cy * B ^ xn + (sum % B ^ xn)
  IN  IF valid > RootBits(u, nth) THEN s
      ELSE Newton([x |-> next \div nth,
                   sound |-> s.sound /\ power.fits /\ power.n < alloc /\ Limbs(u) - power.n + 1 >= xn - 1],
                  u, nth, xn, 2 * valid - adj, adj)

\* mpn_rootrem_basecase: from a root of ones, as many bits as nth has, one after
\* another, then Newton's iteration, and one less if the power is too large.
RootremBasecase(u, nth) ==
  LET xnb == RootBits(u, nth)
      xn == (xnb + LimbBits - 1) \div LimbBits
      alloc == 2 + (Limbs(u) * 1585) \div 1000
      Power(x) == Pow1(x, xn, nth, alloc, alloc)
      Sound(x) == Power(x).fits /\ Power(x).n < alloc
      valid == MinOf(BitLength(nth), xnb - 1)
      Bits[i \in 0 .. valid] ==
        IF i = 0 THEN [x |-> 2 ^ xnb - 1, sound |-> TRUE]
        ELSE LET x == Bits[i - 1].x - 2 ^ (xnb - 1 - i)
             IN  [x |-> IF Power(x).p > u THEN x ELSE Bits[i - 1].x, sound |-> Bits[i - 1].sound /\ Sound(x)]
      close == IF valid = xnb - 1 THEN Bits[valid] ELSE Newton(Bits[valid], u, nth, xn, valid, valid - 1)
      root == IF Power(close.x).p > u THEN close.x - 1 ELSE close.x
  IN  IF xnb = 1 THEN RootOne(u)
      ELSE [root |-> root, rem |-> u - Power(root).p,
            sound |-> close.sound /\ Sound(close.x) /\ Sound(root) /\ Power(root).p <= u]

\* Mutant: a root of half the bits is good for all of them, whatever the power.
RECURSIVE RootSizesSmall(_, _)
RootSizesSmall(b, logk) == IF b = 0 THEN <<0>> ELSE <<b>> \o RootSizesSmall(b \div 2, logk)

\* The numbers of bits after the first, from all of them down to none.
RECURSIVE RootSizes(_, _)
RootSizes(b, logk) ==
  IF b = 0 THEN <<0>> ELSE <<b>> \o RootSizes(MinOf((b + logk + 1) \div 2, b - 1), logk)

\* mpn_rootrem_internal
RootremInternal(u, k, approx) ==
  LET un == Limbs(u)
      xnb == RootBits(u, k)
      alloc == un + 2 + (585 * k) \div (1000 * LimbBits)
      sizes == RootSizes(xnb - 1, BitLength(k - 1))
      ni == Len(sizes) - 1
      kk == k * (xnb - 1)
      \* The root of what is left of u without its lowest bits, too large by at most one.
      Corrected(s, top, skip) == IF ~skip /\ s ^ k > top THEN s - 1 ELSE s
      Fits(s, last) ==
        LET sn == Limbs(s)
            power == Pow1(s, sn, IF last THEN k ELSE k - 1, alloc, alloc)
        IN  power.fits /\ power.n + 1 <= alloc /\ (last \/ (power.home /\ power.n + sn <= alloc))
      After[i \in 0 .. ni] ==
        IF i = 0 THEN [s |-> 1, r |-> (u \div 2 ^ kk) - 1, kk |-> kk, sound |-> TRUE]
        ELSE LET before == After[i - 1]
                 b == sizes[ni - i + 1] - sizes[ni - i + 2]
                 at == before.kk - b
                 r == before.r * 2 ^ b + BitsAt(u, at, b)
                 q == MinOf(r \div (k * before.s ^ (k - 1)), 2 ^ b - 1)
                 s == before.s * 2 ^ b + q
                 left == at - (k - 1) * b
                 top == u \div 2 ^ left
                 skip == i = ni /\ approx /\ LimbAt(s, 0) > 1
                 root == Corrected(s, top, skip)
             IN  [s |-> root, r |-> IF skip THEN top ELSE top - root ^ k, kk |-> left,
                  sound |-> /\ before.sound
                            /\ skip \/ (root ^ k <= top /\ Fits(s, i = ni) /\ Fits(root, i = ni))]
  IN  IF xnb = 1 THEN RootOne(u)
      ELSE [root |-> After[ni].s, rem |-> After[ni].r, sound |-> After[ni].sound]

\* mpn_rootrem: without a remainder, the root of u and k limbs of zeros has a limb more
\* than that of u; unless that limb is zero or one, it decides.
Rootrem(u, k, wanted) ==
  LET padded == RootremInternal(u * B ^ k, k, TRUE)
  IN  IF Limbs(u) < RootremThreshold THEN RootremBasecase(u, k)
      ELSE IF ~wanted /\ Limbs(u) \div k > 2 THEN [padded EXCEPT !.root = @ \div B]
      ELSE RootremInternal(u, k, FALSE)

\* The guards of mpz_root, mpz_rootrem and mpz_nthroot; exceptions otherwise.
RootDefined(u, nth) == nth # 0 /\ (u < 0 => nth % 2 = 1)

\* mpz_root and mpz_nthroot, which does not say whether the root is exact.
MpzRoot(u, nth) ==
  LET result == IF nth = 1 THEN [root |-> Abs(u), rem |-> 0, sound |-> TRUE] ELSE Rootrem(Abs(u), nth, FALSE)
  IN  IF u = 0 THEN [root |-> 0, exact |-> TRUE, sound |-> TRUE]
      ELSE [root |-> SignOf(u) * result.root, exact |-> result.rem = 0, sound |-> result.sound]

\* mpz_rootrem
MpzRootrem(u, nth) ==
  LET result == IF nth = 1 THEN [root |-> Abs(u), rem |-> 0, sound |-> TRUE] ELSE Rootrem(Abs(u), nth, TRUE)
  IN  IF u = 0 THEN [root |-> 0, rem |-> 0, sound |-> TRUE]
      ELSE [result EXCEPT !.root = SignOf(u) * @, !.rem = SignOf(u) * @]

----------------------------------------------------------------------------
(* mpz_perfect_power_p.                                                    *)

IsPrime(t) == t > 1 /\ \A d \in 2 .. t - 1 : d * d <= t => t % d # 0
Pow2P(n) == BitsOf(n) = 1
RECURSIVE GreatestDivisor(_, _)
GreatestDivisor(x, y) == IF y = 0 THEN x ELSE GreatestDivisor(y, x % y)
Multiplicity(x, p) == CHOOSE n \in 0 .. 30 : x % p ^ n = 0 /\ (x \div p ^ n) % p # 0

\* The table's primes, one after another: n2 is the gcd of the multiplicities, u2 what
\* is left; an answer, or none, or that n2 has become a prime.
RECURSIVE Factored(_, _, _, _)
Factored(u2, n2, i, negative) ==
  LET prime == Primes[i]
      n == Multiplicity(u2, prime)
      rest == SignOf(u2) * (Abs(u2) \div prime ^ n)
      both == GreatestDivisor(n2, n)
      Answer(a) == [answer |-> a, u2 |-> rest, n2 |-> both, prime |-> FALSE]
  IN  IF i > Len(Primes) THEN [answer |-> "undecided", u2 |-> u2, n2 |-> n2, prime |-> FALSE]
      ELSE IF u2 % prime # 0 THEN Factored(u2, n2, i + 1, negative)
      ELSE IF n = 1 \/ (Pow2P(n) /\ negative) \/ both = 1 THEN Answer("no")
      ELSE IF Abs(rest) = 1 THEN Answer(IF negative /\ Pow2P(both) THEN "no" ELSE "yes")
      ELSE IF IsPrime(both) THEN [Answer("undecided") EXCEPT !.prime = TRUE]
      ELSE Factored(rest, both, i + 1, negative)

\* Exponents from nth on, those that divide n2 or, if that is zero, all.
RECURSIVE SomeRoot(_, _, _)
SomeRoot(u2, n2, nth) ==
  LET result == MpzRoot(u2, nth)
  IN  IF n2 # 0 /\ nth > n2 THEN FALSE
      ELSE IF ~IsPrime(nth) \/ (n2 # 0 /\ n2 % nth # 0) THEN SomeRoot(u2, n2, nth + 1)
      ELSE IF result.exact THEN TRUE
      ELSE IF Abs(result.root) < SmallestOmittedPrime THEN FALSE
      ELSE SomeRoot(u2, n2, nth + 1)

PrimePower(u2, n2, negative) == ~(n2 = 2 /\ negative) /\ MpzRoot(u2, n2).exact

PerfectPowerP(u) ==
  LET n2 == Multiplicity(u, 2)
      odd == SignOf(u) * (Abs(u) \div 2 ^ n2)
      found == Factored(odd, n2, 1, u < 0)
  IN  IF u = 0 THEN TRUE
      ELSE IF n2 = 1 \/ (n2 > 1 /\ Pow2P(n2) /\ u < 0) THEN FALSE
      ELSE IF IsPrime(n2) THEN PrimePower(odd, n2, u < 0)
      ELSE IF found.answer # "undecided" THEN found.answer = "yes"
      ELSE IF found.prime THEN PrimePower(found.u2, found.n2, u < 0)
      ELSE SomeRoot(found.u2, found.n2, IF u < 0 THEN 3 ELSE 2)

----------------------------------------------------------------------------
(* Fibonacci and Lucas numbers, n being less than B.                       *)

FibTable ==
  LET Two[k \in 0 .. 44] ==
        IF k = 0 THEN [f |-> 0, f1 |-> 1]
        ELSE LET before == Two[k - 1] IN [f |-> before.f + before.f1, f1 |-> before.f]
  IN  [i \in -1 .. 44 |-> IF i = -1 THEN 1 ELSE Two[i].f]
FibTableLimit == Max({i \in 0 .. 44 : FibTable[i] < B})
FibTableLucnumLimit == Max({i \in 0 .. 43 : FibTable[i] + 2 * FibTable[i - 1] < B})

\* The lowest limb alone changed, without a carry.
LowLimbPlus(v, x) == v - (v % B) + Wrap(v + x)

\* mpn_fib2_ui: F[n] and F[n - 1] from those of n \div 2; 4 * F^2 ends in two zeros.
RECURSIVE Fib2Ui(_)
Fib2Ui(n) ==
  LET half == Fib2Ui(n \div 2)
      oddHalf == (n \div 2) % 2 = 1
      square == 4 * half.f * half.f
      above == LowLimbPlus((IF oddHalf THEN square ELSE square + 2) - half.f1 * half.f1, IF oddHalf THEN -2 ELSE 0)
      below == half.f * half.f + half.f1 * half.f1
  IN  IF n <= FibTableLimit THEN [f |-> FibTable[n], f1 |-> FibTable[n - 1]]
      ELSE IF n % 2 = 1 THEN [f |-> above, f1 |-> above - below]
      ELSE [f |-> above - below, f1 |-> below]

\* mpz_fib_ui
FibUi(n) ==
  LET half == Fib2Ui(n \div 2)
      x == half.f
      y == half.f1
  IN  IF n <= FibTableLimit THEN FibTable[n]
      ELSE IF n % 2 = 0 THEN x * (x + 2 * y)
      ELSE LowLimbPlus((2 * x + y) * (2 * x - y), IF (n \div 2) % 2 = 1 THEN -2 ELSE 2)

\* mpz_lucnum_ui: halves of n down to an odd one or one of the table, then squares.
RECURSIVE LucnumUi(_)
LucnumUi(n) ==
  LET half == Fib2Ui(n \div 2)
      product == 5 * (2 * half.f + half.f1) * half.f1
      square == LucnumUi(n \div 2) * LucnumUi(n \div 2)
  IN  IF n <= FibTableLucnumLimit THEN FibTable[n] + 2 * FibTable[n - 1]
      ELSE IF n % 2 = 1 THEN IF (n \div 2) % 2 = 1 THEN LowLimbPlus(product, 4) ELSE product - 4
      ELSE IF (n \div 2) % 2 = 1 THEN LowLimbPlus(square, 2) ELSE square - 2

\* mpz_lucnum2_ui
Lucnum2Ui(n) ==
  LET pair == IF n <= FibTableLucnumLimit THEN [f |-> FibTable[n], f1 |-> FibTable[n - 1]] ELSE Fib2Ui(n)
  IN  [l |-> pair.f + 2 * pair.f1, l1 |-> IF n = 0 THEN -1 ELSE 2 * pair.f - pair.f1]

=============================================================================
