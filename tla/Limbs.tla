------------------------------- MODULE Limbs -------------------------------
(***************************************************************************)
(* Limbs, the words mpn arithmetic is made of, and the operations on one   *)
(* limb that every mpn loop repeats (mpn/generic).  A limb is a number     *)
(* below B = 2^GMP_NUMB_BITS (no nails); C arithmetic on limbs wraps.      *)
(***************************************************************************)
EXTENDS Integers

CONSTANT B  \* the limb base

ASSUME BaseAssumption == B \in Nat /\ B >= 2

Limb == 0 .. B - 1

\* The result of C arithmetic on mp_limb_t.
Wrap(x) == x % B

\* The two halves umul_ppmm produces.
HiLimb(u, v) == (u * v) \div B
LoLimb(u, v) == (u * v) % B

\* A C comparison used as a number.
Bit(b) == IF b THEN 1 ELSE 0

----------------------------------------------------------------------------
(* One iteration of each carry loop: the limb stored and the carry kept.   *)

AddLimb(u, v, c) ==
  LET sl == Wrap(u + v)
      rl == Wrap(sl + c)
  IN  [limb |-> rl, carry |-> Bit(sl < u \/ rl < sl)]

SubLimb(u, v, c) ==
  LET sl == Wrap(u - v)
      rl == Wrap(sl - c)
  IN  [limb |-> rl, carry |-> Bit(sl > u \/ rl > sl)]

MulLimb(u, v, c) ==
  LET lpl == Wrap(LoLimb(u, v) + c)
  IN  [limb |-> lpl, carry |-> Wrap(Bit(lpl < c) + HiLimb(u, v))]

\* Mutant: the carry of the second addition is lost.
AddMulLimbLostCarry(r, u, v, c) ==
  [limb |-> Wrap(r + MulLimb(u, v, c).limb), carry |-> MulLimb(u, v, c).carry]

AddMulLimb(r, u, v, c) ==
  LET m == MulLimb(u, v, c)
      l == Wrap(r + m.limb)
  IN  [limb |-> l, carry |-> Wrap(m.carry + Bit(l < r))]

SubMulLimb(r, u, v, c) ==
  LET m == MulLimb(u, v, c)
      l == Wrap(r - m.limb)
  IN  [limb |-> l, carry |-> Wrap(m.carry + Bit(l > r))]

ComLimb(u) == B - 1 - u

============================================================================
