------------------------------- MODULE Words -------------------------------
(***************************************************************************)
(* Numbers as rows of limbs, for the functions whose results are compared  *)
(* with a definition: the limbs and bits of a number, and the limb         *)
(* operations of gmp-impl.h and longlong.h.  The algorithms are written    *)
(* with these, limb by limb where the code goes limb by limb.              *)
(***************************************************************************)
EXTENDS Integers, Sequences, FiniteSets, FiniteSetsExt, Bitwise

CONSTANT LimbBits  \* GMP_NUMB_BITS

ASSUME WordAssumption == LimbBits \in Nat \ {0}

B == 2 ^ LimbBits
Abs(x) == IF x < 0 THEN -x ELSE x
MinOf(x, y) == IF x < y THEN x ELSE y
MaxOf(x, y) == IF x < y THEN y ELSE x
SignOf(x) == IF x < 0 THEN -1 ELSE IF x = 0 THEN 0 ELSE 1
SameSign(x, y) == (x < 0) = (y < 0)

\* C arithmetic on mp_limb_t, and the limbs of a pair.
HighBit == B \div 2
Wrap(x) == x % B
Hi(x) == x \div B
Lo(x) == x % B

\* Limb i of the magnitude of x, the limbs from i up to j, not included, as a
\* number, and how many limbs it has: ABSIZ.  (No number here has more than 31 bits.)
LimbAt(x, i) == (Abs(x) \div B ^ i) % B
Part(x, i, j) == (Abs(x) \div B ^ i) % B ^ (j - i)
Limbs(x) == CHOOSE n \in 0 .. 31 : Abs(x) < B ^ n /\ (n = 0 \/ Abs(x) >= B ^ (n - 1))

\* SIZ, with the sign of the number.
Siz(x) == SignOf(x) * Limbs(x)

\* count_trailing_zeros and count_leading_zeros of a limb that is not zero.
TrailingZeros(limb) == Min({i \in 0 .. LimbBits - 1 : (limb \div 2 ^ i) % 2 = 1})
LeadingZeros(limb) == LimbBits - 1 - Max({i \in 0 .. LimbBits - 1 : (limb \div 2 ^ i) % 2 = 1})

\* The bits of x that are set: mpn_popcount.
BitsOf(x) == LET Count[y \in Nat] == IF y = 0 THEN 0 ELSE (y % 2) + Count[y \div 2] IN Count[x]

\* The limb which, multiplied with an odd d, gives one: modlimb_invert.
InverseOf(d) == CHOOSE i \in 0 .. B - 1 : Wrap(i * d) = 1

\* LOW_ZEROS_MASK: the bits below the lowest one that is set, or all of them.
LowZeros(limb) == IF limb = 0 THEN B ELSE 2 ^ TrailingZeros(limb)

=============================================================================
