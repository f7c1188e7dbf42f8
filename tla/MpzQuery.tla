----------------------------- MODULE MpzQuery -----------------------------
(***************************************************************************)
(* The mpz functions that look at numbers and change none: comparisons;    *)
(* bits of numbers that behave as if written in two's complement, though   *)
(* they are a sign and a magnitude; divisibility and congruence.           *)
(***************************************************************************)
EXTENDS Words

CONSTANT ModexactThreshold  \* MODEXACT_1_ODD_THRESHOLD

\* __GMP_BITCNT_MAX: there is no such bit.
BitcntMax == -1

----------------------------------------------------------------------------
(* Comparisons: the sign of the result is what counts.                     *)

\* MPN_CMP of numbers of as many limbs: the highest limbs that differ decide.
MpnCmp(u, v, n) ==
  LET differ == {i \in 0 .. n - 1 : LimbAt(u, i) # LimbAt(v, i)}
  IN  IF differ = {} THEN 0
      ELSE IF LimbAt(u, Max(differ)) > LimbAt(v, Max(differ)) THEN 1 ELSE -1

Cmp(u, v) ==
  IF Siz(u) # Siz(v) THEN Siz(u) - Siz(v)
  ELSE LET cmp == MpnCmp(u, v, Limbs(u)) IN IF Siz(u) >= 0 THEN cmp ELSE -cmp

Cmpabs(u, v) ==
  IF Limbs(u) # Limbs(v) THEN Limbs(u) - Limbs(v) ELSE MpnCmp(u, v, Limbs(u))

CmpUi(u, k) ==
  IF u = 0 THEN (IF k # 0 THEN -1 ELSE 0)
  ELSE IF Siz(u) = 1 THEN SignOf(LimbAt(u, 0) - k)
  ELSE IF Siz(u) > 0 THEN 1 ELSE -1

CmpabsUi(u, k) ==
  IF u = 0 THEN (IF k # 0 THEN -1 ELSE 0)
  ELSE IF Limbs(u) = 1 THEN SignOf(LimbAt(u, 0) - k) ELSE 1

CmpSi(u, k) ==
  IF Siz(u) # SignOf(k) THEN Siz(u) - SignOf(k)
  ELSE IF Siz(u) = 0 \/ LimbAt(u, 0) = Abs(k) THEN 0
  ELSE IF LimbAt(u, 0) > Abs(k) THEN Siz(u) ELSE -Siz(u)

----------------------------------------------------------------------------
(* Bits.                                                                   *)

\* Limb p of a negative number: "twos complement is used if there's only zero
\* limbs below the one being tested", else one's complement.
NonZeroBelow(u, p) == \E q \in 0 .. p - 1 : LimbAt(u, q) # 0

Tstbit(u, k) ==
  LET p == k \div LimbBits
      limb == LimbAt(u, p)
      complement == IF NonZeroBelow(u, p) THEN Wrap(-limb - 1) ELSE Wrap(-limb)
  IN  IF p >= Limbs(u) THEN (IF u < 0 THEN 1 ELSE 0)
      ELSE ((IF u < 0 THEN complement ELSE limb) \div 2 ^ (k % LimbBits)) % 2

\* The limb with the bits below the starting bit set, or cleared.
SetBelow(limb, k) == LET low == 2 ^ (k % LimbBits) IN limb - (limb % low) + low - 1
ClearBelow(limb, k) == limb - (limb % 2 ^ (k % LimbBits))

\* The lowest zero from bit k: in limb p, whose limb is as given, or in those
\* above; if all are ones, "the zero bit immediately past the end".
FirstZero(u, p, limb, k) ==
  LET At(i) == IF i = p THEN SetBelow(limb, k) ELSE LimbAt(u, i)
      open == {i \in p .. Limbs(u) - 1 : At(i) # B - 1}
  IN  IF open = {} THEN Limbs(u) * LimbBits
      ELSE Min(open) * LimbBits + TrailingZeros(B - 1 - At(Min(open)))

\* The lowest one from bit k, if there is one.
FirstOne(u, p, limb, k) ==
  LET At(i) == IF i = p THEN ClearBelow(limb, k) ELSE LimbAt(u, i)
      some == {i \in p .. Limbs(u) - 1 : At(i) # 0}
  IN  IF some = {} THEN BitcntMax ELSE Min(some) * LimbBits + TrailingZeros(At(Min(some)))

\* In a negative number the bits are the complements, and the limb is made less
\* by one if the complement begins with it.
Scan0(u, k) ==
  LET p == k \div LimbBits
      limb == LimbAt(u, p)
  IN  IF p >= Limbs(u) THEN (IF u >= 0 THEN k ELSE BitcntMax)
      ELSE IF u >= 0 THEN FirstZero(u, p, limb, k)
      ELSE FirstOne(u, p, IF NonZeroBelow(u, p) THEN limb ELSE Wrap(limb - 1), k)

\* Mutant: a zero limb below the first that is not zero is not skipped.
Scan1NoSkip(u, k) ==
  LET p == k \div LimbBits
      limb == LimbAt(u, p)
  IN  IF p >= Limbs(u) THEN (IF u >= 0 THEN BitcntMax ELSE k)
      ELSE IF u >= 0 THEN FirstOne(u, p, limb, k)
      ELSE FirstZero(u, p, IF NonZeroBelow(u, p) THEN limb ELSE Wrap(limb - 1), k)

\* Zero limbs are skipped "so the -limb is applied at the right spot".
Scan1(u, k) ==
  LET p == k \div LimbBits
      limb == LimbAt(u, p)
      skipped == Min({i \in p .. Limbs(u) - 1 : LimbAt(u, i) # 0})
  IN  IF p >= Limbs(u) THEN (IF u >= 0 THEN BitcntMax ELSE k)
      ELSE IF u >= 0 THEN FirstOne(u, p, limb, k)
      ELSE IF NonZeroBelow(u, p) THEN FirstZero(u, p, limb, k)
      ELSE IF limb = 0
      THEN skipped * LimbBits + TrailingZeros(Wrap(-LimbAt(u, skipped)))
      ELSE FirstZero(u, p, Wrap(limb - 1), k)

\* mpz_popcount
Popcount(u) == IF u < 0 THEN BitcntMax ELSE BitsOf(u)

\* Two negative numbers, of which x has its first limb that is not zero at i,
\* and y has none lower: limb i of both in two's complement; if that of y is
\* zero, ones complement x against the zeros of y up to its first limb j, which
\* is still in two's complement; above, both are in one's complement.
HamdistNegative(x, y, i) ==
  LET m == Limbs(x)
      n == Limbs(y)
      first == BitsOf(Wrap(-LimbAt(x, i)) ^^ Wrap(-LimbAt(y, i)))
      j == Min({q \in i + 1 .. n - 1 : LimbAt(y, q) # 0})
      steps == MinOf(j - i - 1, m - i - 1)
      between == (j - i - 1) * LimbBits - BitsOf(Part(x, i + 1, i + 1 + steps))
                   + BitsOf((LimbAt(y, j) - 1) ^^ (IF j < m THEN LimbAt(x, j) ELSE 0))
      Above(q) == LET both == MaxOf(q, MinOf(m, n))
                  IN  BitsOf(Part(x, q, both) ^^ Part(y, q, both))
                        + (IF m > both THEN BitsOf(Part(x, both, m)) ELSE 0)
                        + (IF n > both THEN BitsOf(Part(y, both, n)) ELSE 0)
  IN  IF LimbAt(y, i) # 0 THEN first + Above(i + 1) ELSE first + between + Above(j + 1)

Hamdist(u, v) ==
  IF ~SameSign(u, v) THEN BitcntMax
  ELSE IF u >= 0
  THEN LET n == MinOf(Limbs(u), Limbs(v))
       IN  BitsOf(Part(u, 0, n) ^^ Part(v, 0, n))
             + BitsOf(Abs(u) \div B ^ n) + BitsOf(Abs(v) \div B ^ n)
  ELSE LET i == Min({q \in 0 .. MinOf(Limbs(u), Limbs(v)) - 1 : LimbAt(u, q) # 0 \/ LimbAt(v, q) # 0})
       IN  IF LimbAt(u, i) # 0 THEN HamdistNegative(u, v, i) ELSE HamdistNegative(v, u, i)

----------------------------------------------------------------------------
(* Divisibility and congruence.                                            *)

Divisible2exp(a, k) ==
  LET limbs == k \div LimbBits
  IN  IF Limbs(a) <= limbs THEN a = 0
      ELSE /\ \A i \in 0 .. limbs - 1 : LimbAt(a, i) = 0
           /\ LimbAt(a, limbs) % 2 ^ (k % LimbBits) = 0

\* a has at least as many limbs as c.  Of the same sign: equal limbs, and zeros
\* where there is no more c.
Congruent2expSame(a, c, limbs, mask) ==
  /\ c # 0 => \A i \in 0 .. MinOf(Limbs(c), limbs) - 1 : LimbAt(a, i) = LimbAt(c, i)
  /\ IF c # 0 /\ Limbs(c) > limbs THEN Wrap(LimbAt(a, limbs) - LimbAt(c, limbs)) % mask = 0
     ELSE IF Limbs(a) <= limbs THEN Limbs(a) = Limbs(c)
     ELSE /\ \A i \in Limbs(c) .. limbs - 1 : LimbAt(a, i) = 0
          /\ LimbAt(a, limbs) % mask = 0

\* Of different signs: the first limbs that are not zero match as two's
\* complements, the others as one's complements, and a must go on with ones.
Congruent2expOpposite(a, c, limbs, mask) ==
  LET first == Min({i \in 0 .. Limbs(c) - 1 : LimbAt(a, i) # 0 \/ LimbAt(c, i) # 0})
      Sum(i, one) == Wrap(LimbAt(a, i) + LimbAt(c, i) + one)
  IN  IF first >= limbs THEN Sum(limbs, 0) % mask = 0
      ELSE /\ Sum(first, 0) = 0
           /\ \A i \in first + 1 .. MinOf(limbs, Limbs(c)) - 1 : Sum(i, 1) = 0
           /\ IF limbs < Limbs(c) THEN Sum(limbs, 1) % mask = 0
              ELSE /\ Limbs(a) >= limbs
                   /\ \A i \in Limbs(c) .. limbs - 1 : LimbAt(a, i) = B - 1
                   /\ \/ mask = 1
                      \/ Limbs(a) # limbs /\ Wrap(LimbAt(a, limbs) + 1) % mask = 0

Congruent2exp(x, y, k) ==
  LET a == IF Limbs(x) < Limbs(y) THEN y ELSE x
      c == IF Limbs(x) < Limbs(y) THEN x ELSE y
      limbs == k \div LimbBits
      mask == 2 ^ (k % LimbBits)
  IN  IF c = 0 \/ SameSign(a, c) THEN Congruent2expSame(a, c, limbs, mask)
      ELSE Congruent2expOpposite(a, c, limbs, mask)

\* NEG_MOD: something congruent to -a modulo d, not always less than d.
NegMod(a, d) ==
  LET norm == d * 2 ^ LeadingZeros(d)
  IN  IF a <= d THEN d - a ELSE Wrap((IF a <= norm THEN norm ELSE 2 * norm) - a)

\* mpn_modexact_1c_odd: quotient limbs are chosen so that each limb of a becomes
\* zero, from the low end; the carry is what remains.
ModexactOdd(a, d, orig) ==
  LET n == Limbs(a)
      Step(s, c) == (Wrap(Wrap(s - c) * InverseOf(d)) * d) \div B + (IF s < c THEN 1 ELSE 0)
      Carry[i \in 0 .. n] == IF i = 0 THEN orig ELSE Step(LimbAt(a, i - 1), Carry[i - 1])
      top == LimbAt(a, n - 1)
      c == Carry[n - 1]
      rest == (top - orig) % d
  IN  IF n = 1
      THEN IF top > orig THEN (IF rest = 0 THEN 0 ELSE d - rest) ELSE (orig - top) % d
      ELSE IF top <= d THEN Wrap(c - top + (IF c < top THEN d ELSE 0))
      ELSE Carry[n]

\* Is a congruent to c modulo d, limbs both, with the factors of two of d taken
\* out for mpn_modexact_1c_odd?
Congruent1(a, c, d) ==
  LET odd == d \div 2 ^ TrailingZeros(d)
  IN  IF Limbs(a) < ModexactThreshold THEN Abs(a) % d = (IF c < d THEN c ELSE c % d)
      ELSE ModexactOdd(a, odd, c) \in {0, odd}

CongruentUi(a, c, d) ==
  LET limb == IF a < 0 THEN NegMod(c, d) ELSE c
  IN  IF d = 0 THEN CmpUi(a, c) = 0
      ELSE IF a = 0 THEN (IF c < d THEN c = 0 ELSE c % d = 0)
      ELSE /\ \/ Limbs(a) < ModexactThreshold
              \/ d % 2 = 1
              \/ Wrap(LimbAt(a, 0) - limb) % LowZeros(d) = 0
           /\ Congruent1(a, limb, d)

\* First modulo the factors of two of the low limb of d; then modulo d if that
\* can be made one limb; or the difference is divided.
Congruent(x, y, d) ==
  LET a == IF Limbs(x) < Limbs(y) THEN y ELSE x
      c == IF Limbs(x) < Limbs(y) THEN x ELSE y
      low == LimbAt(d, 0)
      second == LimbAt(d, 1)
      mask == LowZeros(low)
      alow == IF SameSign(a, c) THEN LimbAt(a, 0) ELSE Wrap(-LimbAt(a, 0))
      shifted == (low \div mask) + Wrap(second * 2 ^ (LimbBits - TrailingZeros(low)))
      Low(e) == Congruent1(a, IF SameSign(a, c) THEN LimbAt(c, 0) ELSE NegMod(LimbAt(c, 0), e), e)
  IN  CASE d = 0 -> Cmp(x, y) = 0
        [] d # 0 /\ c = 0 -> Abs(a) % Abs(d) = 0
        [] d # 0 /\ c # 0 ->
             /\ Wrap(alow - LimbAt(c, 0)) % mask = 0
             /\ IF Limbs(c) = 1 /\ Limbs(d) = 1 THEN Low(low)
                ELSE IF Limbs(c) = 1 /\ Limbs(d) = 2 /\ low # 0 /\ second <= mask - 1
                THEN Low(shifted)
                ELSE (IF SameSign(a, c) THEN Abs(Abs(a) - Abs(c)) ELSE Abs(a) + Abs(c)) % Abs(d) = 0

Divisible(a, d) == IF d = 0 THEN a = 0 ELSE Abs(a) % Abs(d) = 0

DivisibleUi(a, d) ==
  LET odd == d \div 2 ^ TrailingZeros(d)
  IN  IF d = 0 THEN a = 0
      ELSE IF a = 0 THEN TRUE
      ELSE IF Limbs(a) < ModexactThreshold THEN Abs(a) % d = 0
      ELSE /\ d % 2 = 0 => LimbAt(a, 0) % LowZeros(d) = 0
           /\ ModexactOdd(a, odd, 0) = 0

=============================================================================
