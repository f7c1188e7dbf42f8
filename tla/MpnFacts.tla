------------------------------ MODULE MpnFacts ------------------------------
(***************************************************************************)
(* The operations of Limbs compute what they stand for, in every base: the *)
(* limb stored and the carry kept are the two digits of the result, so no  *)
(* carry is ever lost although every C operation wraps around.             *)
(*                                                                         *)
(* A promise of MpnContract kept digit by digit is kept as whole numbers:  *)
(* whatever the base and the length, a chain of carries through right      *)
(* digits makes the right sum, difference, product, shift or complement.   *)
(***************************************************************************)
EXTENDS MpnContract, TLAPS, WellFoundedInduction

-----------------------------------------------------------------------------
(* Induction and definition by recursion.  The theorems of the library ask   *)
(* for an operator, which the provers do not instantiate; here they are       *)
(* stated of sets and functions.                                              *)

\* A set of natural numbers that is not empty has a least element.
LEMMA LeastElement ==
  ASSUME NEW T, T \subseteq Nat, T # {}
  PROVE  \E x \in T : \A y \in T : x <= y
<1> DEFINE R == OpToRel(<, Nat)
<1>1. IsWellFoundedOn(R, Nat)
  BY NatLessThanWellFounded
<1>2. \A x, y \in Nat : y < x => <<y, x>> \in R
  BY DEF R, OpToRel
<1> HIDE DEF R
<1>3. PICK x \in T : \A y \in T : ~ (<<y, x>> \in R)
  BY <1>1, WFMin
<1>4. ASSUME NEW y \in T PROVE x <= y
  <2>1. x \in Nat /\ y \in Nat /\ ~(y < x)
    BY <1>2, <1>3
  <2> QED
    BY <2>1
<1> QED
  BY <1>4

\* Induction up to n, for a set of numbers.
LEMMA SetInduction ==
  ASSUME NEW n \in Nat, NEW P, 0 \in P, \A k \in 0 .. n - 1 : k \in P => k + 1 \in P
  PROVE  0 .. n \subseteq P
<1> DEFINE T == (0 .. n) \ P
<1> SUFFICES ASSUME T # {} PROVE FALSE
  OBVIOUS
<1>1. T \subseteq Nat
  OBVIOUS
<1> HIDE DEF T
<1>2. PICK x \in T : \A y \in T : x <= y
  BY <1>1, LeastElement
<1> USE DEF T
<1>3. x # 0 /\ x - 1 \in 0 .. n - 1 /\ x - 1 \notin T
  BY <1>2
<1> QED
  BY <1>2, <1>3

\* A function on 0 .. n may be defined by its first value and a step.
Follows(f, n, V, base, step) ==
  /\ f \in [0 .. n -> V]
  /\ f[0] = base
  /\ \A k \in 0 .. n - 1 : f[k + 1] = step[<<k, f[k]>>]

\* What is defined step by step, up to n, exists.
LEMMA Recursion ==
  ASSUME NEW n \in Nat, NEW V, NEW base \in V, NEW step \in [(0 .. n) \X V -> V]
  PROVE  \E f : Follows(f, n, V, base, step)
<1> DEFINE Rec(f, j) ==
             /\ f \in [0 .. n -> V]
             /\ f[0] = base /\ \A k \in 0 .. j - 1 : f[k + 1] = step[<<k, f[k]>>]
           P == {j \in 0 .. n : \E f : Rec(f, j)}
<1>1. 0 \in P
  <2>1. Rec([k \in 0 .. n |-> base], 0) /\ 0 \in 0 .. n
    OBVIOUS
  <2> HIDE DEF Rec
  <2> QED
    BY <2>1, Zenon
<1>2. ASSUME NEW j \in 0 .. n - 1, j \in P PROVE j + 1 \in P
  <2>1. PICK f : Rec(f, j)
    BY <1>2
  <2> DEFINE g == [f EXCEPT ![j + 1] = step[<<j, f[j]>>]]
  <2>2. Rec(g, j + 1)
    <3>1. g \in [0 .. n -> V] /\ g[0] = base
      BY <2>1
    <3>2. ASSUME NEW k \in 0 .. j PROVE g[k + 1] = step[<<k, g[k]>>]
      BY <2>1
    <3> QED
      BY <3>1, <3>2
  <2>3. j + 1 \in 0 .. n
    OBVIOUS
  <2> HIDE DEF Rec, g
  <2> QED
    BY <2>2, <2>3, Zenon
<1> HIDE DEF P
<1>3. 0 .. n \subseteq P
  BY <1>1, <1>2, SetInduction, Zenon
<1>4. n \in P
  BY <1>3
<1> QED
  BY <1>4 DEF P, Follows

-----------------------------------------------------------------------------

\* A sum or a difference of two limbs wraps around at most once.
LEMMA WrapFacts ==
  /\ \A x \in Int : Wrap(x) \in Limb
  /\ \A x \in Limb : Wrap(x) = x
  /\ \A x \in B .. 2 * B - 1 : Wrap(x) = x - B
  /\ \A x \in -B .. -1 : Wrap(x) = x + B
BY BaseAssumption DEF Wrap, Limb

\* umul_ppmm splits a product into two limbs, and the high one leaves room
\* for a carry.
LEMMA ProductFacts ==
  ASSUME NEW u \in Limb, NEW v \in Limb
  PROVE  /\ u * v = B * HiLimb(u, v) + LoLimb(u, v)
         /\ LoLimb(u, v) \in Limb
         /\ HiLimb(u, v) \in 0 .. B - 2
BY BaseAssumption DEF HiLimb, LoLimb, Limb

\* An iteration of mpn_add_n.
LEMMA AddLimbExact ==
  ASSUME NEW u \in Limb, NEW v \in Limb, NEW c \in {0, 1}
  PROVE  LET s == AddLimb(u, v, c)
         IN  s.limb \in Limb /\ s.carry \in {0, 1} /\ s.limb + B * s.carry = u + v + c
<1> DEFINE sl == Wrap(u + v)  rl == Wrap(sl + c)
<1>1. sl \in Limb /\ (IF u + v < B THEN sl = u + v ELSE sl = u + v - B)
  BY WrapFacts, BaseAssumption DEF Limb
<1>2. rl \in Limb /\ (IF sl + c < B THEN rl = sl + c ELSE rl = sl + c - B)
  BY WrapFacts, BaseAssumption, <1>1 DEF Limb
<1>3. AddLimb(u, v, c) = [limb |-> rl, carry |-> Bit(sl < u \/ rl < sl)]
  BY DEF AddLimb
<1> QED
  BY <1>1, <1>2, <1>3, BaseAssumption DEF Limb, Bit

\* An iteration of mpn_sub_n.
LEMMA SubLimbExact ==
  ASSUME NEW u \in Limb, NEW v \in Limb, NEW c \in {0, 1}
  PROVE  LET s == SubLimb(u, v, c)
         IN  s.limb \in Limb /\ s.carry \in {0, 1} /\ s.limb - B * s.carry = u - v - c
<1> DEFINE sl == Wrap(u - v)  rl == Wrap(sl - c)
<1>1. sl \in Limb /\ (IF u >= v THEN sl = u - v ELSE sl = u - v + B)
  BY WrapFacts, BaseAssumption DEF Limb
<1>2. rl \in Limb /\ (IF sl >= c THEN rl = sl - c ELSE rl = sl - c + B)
  BY WrapFacts, BaseAssumption, <1>1 DEF Limb
<1>3. SubLimb(u, v, c) = [limb |-> rl, carry |-> Bit(sl > u \/ rl > sl)]
  BY DEF SubLimb
<1> QED
  BY <1>1, <1>2, <1>3, BaseAssumption DEF Limb, Bit

\* An iteration of mpn_mul_1: the carry limb takes the high product and the
\* carry of the low one without overflow.
LEMMA MulLimbExact ==
  ASSUME NEW u \in Limb, NEW v \in Limb, NEW c \in Limb
  PROVE  LET s == MulLimb(u, v, c)
         IN  s.limb \in Limb /\ s.carry \in Limb /\ s.limb + B * s.carry = u * v + c
<1> DEFINE h == HiLimb(u, v)  l == LoLimb(u, v)  lpl == Wrap(l + c)
<1>1. u * v = B * h + l /\ l \in Limb /\ h \in 0 .. B - 2
  BY ProductFacts
<1>2. lpl \in Limb /\ (IF l + c < B THEN lpl = l + c ELSE lpl = l + c - B)
  BY WrapFacts, BaseAssumption, <1>1 DEF Limb
<1> HIDE DEF h, l, lpl
<1>3. Bit(lpl < c) + h \in Limb
      /\ lpl + B * (Bit(lpl < c) + h) = u * v + c
  <2>1. CASE l + c < B
    BY <2>1, <1>1, <1>2, BaseAssumption DEF Limb, Bit
  <2>2. CASE ~(l + c < B)
    <3>1. Bit(lpl < c) = 1
      BY <2>2, <1>1, <1>2, BaseAssumption DEF Limb, Bit
    <3>2. B * (1 + h) = B + B * h
      BY <1>1, BaseAssumption
    <3> QED
      BY <2>2, <3>1, <3>2, <1>1, <1>2, BaseAssumption DEF Limb
  <2> QED
    BY <2>1, <2>2
<1>4. MulLimb(u, v, c) = [limb |-> lpl, carry |-> Bit(lpl < c) + h]
  BY <1>3, WrapFacts DEF MulLimb, h, l, lpl
<1> QED
  BY <1>2, <1>3, <1>4

\* A product of limbs plus a carry leaves room for one more limb.
LEMMA ProductBound ==
  ASSUME NEW u \in Limb, NEW v \in Limb, NEW c \in Limb
  PROVE  u * v + c <= B * (B - 1)
<1>1. u * v <= (B - 1) * (B - 1)
  BY BaseAssumption DEF Limb
<1> QED
  BY <1>1, BaseAssumption DEF Limb

\* Adding a limb to a number of two limbs, or subtracting from it, when the
\* result is known to fit: the wrap-around of the low limb tells the carry.
LEMMA CarryInto ==
  ASSUME NEW r \in Limb, NEW x \in Limb, NEW h \in Limb, NEW p \in Int,
         x + B * h = p, p <= B * (B - 1), NEW l \in Limb,
         IF r + x < B THEN l = r + x ELSE l = r + x - B
  PROVE  /\ h + Bit(l < r) \in Limb
         /\ l + B * (h + Bit(l < r)) = r + p
<1>1. CASE r + x < B
  BY <1>1, BaseAssumption DEF Limb, Bit
<1>2. CASE ~(r + x < B)
  <2>1. Bit(l < r) = 1
    BY <1>2, BaseAssumption DEF Limb, Bit
  <2>2. B * (h + 1) = B + B * h
    BY BaseAssumption DEF Limb
  <2>3. h # B - 1
    <3>1. SUFFICES ASSUME h = B - 1 PROVE FALSE
      OBVIOUS
    <3>2. x = 0
      BY <3>1, BaseAssumption DEF Limb
    <3> QED
      BY <3>2, <1>2, BaseAssumption DEF Limb
  <2> QED
    BY <1>2, <2>1, <2>2, <2>3, BaseAssumption DEF Limb
<1> QED
  BY <1>1, <1>2

\* The same for a subtraction and its borrow.
LEMMA BorrowInto ==
  ASSUME NEW r \in Limb, NEW x \in Limb, NEW h \in Limb, NEW p \in Int,
         x + B * h = p, p <= B * (B - 1), NEW l \in Limb,
         IF r >= x THEN l = r - x ELSE l = r - x + B
  PROVE  /\ h + Bit(l > r) \in Limb
         /\ l - B * (h + Bit(l > r)) = r - p
<1>1. CASE r >= x
  BY <1>1, BaseAssumption DEF Limb, Bit
<1>2. CASE ~(r >= x)
  <2>1. Bit(l > r) = 1
    BY <1>2, BaseAssumption DEF Limb, Bit
  <2>2. B * (h + 1) = B + B * h
    BY BaseAssumption DEF Limb
  <2>3. h # B - 1
    <3>1. SUFFICES ASSUME h = B - 1 PROVE FALSE
      OBVIOUS
    <3>2. x = 0
      BY <3>1, BaseAssumption DEF Limb
    <3> QED
      BY <3>2, <1>2, BaseAssumption DEF Limb
  <2> QED
    BY <1>2, <2>1, <2>2, <2>3, BaseAssumption DEF Limb
<1> QED
  BY <1>1, <1>2

\* An iteration of mpn_addmul_1: the largest result, (B-1) + (B-1)^2 + (B-1),
\* is B^2 - 1, so its high digit fits the carry limb.
LEMMA AddMulLimbExact ==
  ASSUME NEW r \in Limb, NEW u \in Limb, NEW v \in Limb, NEW c \in Limb
  PROVE  LET s == AddMulLimb(r, u, v, c)
         IN  s.limb \in Limb /\ s.carry \in Limb /\ s.limb + B * s.carry = r + u * v + c
<1> DEFINE m == MulLimb(u, v, c)  x == m.limb  cl == m.carry  p == u * v + c
           l == Wrap(r + x)
<1>1. x \in Limb /\ cl \in Limb /\ x + B * cl = p
  BY MulLimbExact
<1>2. p \in Int /\ p <= B * (B - 1)
  BY ProductBound, BaseAssumption DEF Limb
<1>3. l \in Limb /\ (IF r + x < B THEN l = r + x ELSE l = r + x - B)
  BY WrapFacts, BaseAssumption, <1>1 DEF Limb
<1>4. AddMulLimb(r, u, v, c) = [limb |-> l, carry |-> Wrap(cl + Bit(l < r))]
  BY DEF AddMulLimb
<1> HIDE DEF m, x, cl, p, l
<1>5. cl + Bit(l < r) \in Limb /\ l + B * (cl + Bit(l < r)) = r + p
  BY CarryInto, <1>1, <1>2, <1>3
<1>6. r + p = r + u * v + c
  BY BaseAssumption DEF p, Limb
<1> QED
  BY <1>3, <1>4, <1>5, <1>6, WrapFacts

\* An iteration of mpn_submul_1: the borrow fits the carry limb.
LEMMA SubMulLimbExact ==
  ASSUME NEW r \in Limb, NEW u \in Limb, NEW v \in Limb, NEW c \in Limb
  PROVE  LET s == SubMulLimb(r, u, v, c)
         IN  s.limb \in Limb /\ s.carry \in Limb /\ s.limb - B * s.carry = r - u * v - c
<1> DEFINE m == MulLimb(u, v, c)  x == m.limb  cl == m.carry  p == u * v + c
           l == Wrap(r - x)
<1>1. x \in Limb /\ cl \in Limb /\ x + B * cl = p
  BY MulLimbExact
<1>2. p \in Int /\ p <= B * (B - 1)
  BY ProductBound, BaseAssumption DEF Limb
<1>3. l \in Limb /\ (IF r >= x THEN l = r - x ELSE l = r - x + B)
  BY WrapFacts, BaseAssumption, <1>1 DEF Limb
<1>4. SubMulLimb(r, u, v, c) = [limb |-> l, carry |-> Wrap(cl + Bit(l > r))]
  BY DEF SubMulLimb
<1> HIDE DEF m, x, cl, p, l
<1>5. cl + Bit(l > r) \in Limb /\ l - B * (cl + Bit(l > r)) = r - p
  BY BorrowInto, <1>1, <1>2, <1>3
<1>6. r - p = r - u * v - c
  BY BaseAssumption DEF p, Limb
<1> QED
  BY <1>3, <1>4, <1>5, <1>6, WrapFacts

\* Division by a limb.
LEMMA DivFacts ==
  ASSUME NEW x \in Limb, NEW d \in 1 .. B - 1
  PROVE  /\ x = d * (x \div d) + (x % d)
         /\ x \div d \in Limb
         /\ x % d \in 0 .. d - 1
BY BaseAssumption DEF Limb

\* A shift by cnt, where v = 2^cnt and q = 2^(GMP_NUMB_BITS - cnt): x << cnt
\* keeps the low bits as a multiple of v, x >> tnc the high ones below v.
LEMMA LeftShiftFacts ==
  ASSUME NEW v \in 2 .. B - 1, NEW q \in 2 .. B - 1, v * q = B, NEW x \in Limb
  PROVE  /\ x * v = B * (x \div q) + Wrap(x * v)
         /\ x \div q \in 0 .. v - 1
         /\ Wrap(x * v) \in 0 .. B - v
<1> DEFINE h == x \div q  l == x % q
<1>0. q \in 1 .. B - 1
  BY BaseAssumption
<1>1. x = q * h + l /\ h \in Limb /\ l \in 0 .. q - 1
  BY <1>0, DivFacts
<1> HIDE DEF h, l
<1>2. h < v
  <2>1. SUFFICES ASSUME h >= v PROVE FALSE
    BY <1>1, BaseAssumption DEF Limb
  <2>2. q * h >= q * v
    BY <2>1, <1>1, BaseAssumption DEF Limb
  <2> QED
    BY <2>2, <1>1, BaseAssumption DEF Limb
<1>3. x * v = B * h + l * v
  <2>1. (q * h + l) * v = (v * q) * h + l * v
    BY <1>1, BaseAssumption DEF Limb
  <2> QED
    BY <2>1, <1>1
<1>4. l * v \in 0 .. B - v
  <2>1. l * v <= (q - 1) * v /\ l * v >= 0
    BY <1>1, BaseAssumption DEF Limb
  <2>2. (q - 1) * v = B - v
    BY BaseAssumption
  <2> QED
    BY <2>1, <2>2, <1>1, BaseAssumption DEF Limb
<1>5. Wrap(x * v) = l * v
  <2> DEFINE y == l * v
  <2>1. y \in 0 .. B - 1 /\ h \in Nat
    BY <1>1, <1>4, BaseAssumption DEF Limb
  <2> HIDE DEF y
  <2>2. (B * h + y) % B = y
    BY <2>1, BaseAssumption
  <2> QED
    BY <2>2, <1>3 DEF Wrap, y
<1> QED
  BY <1>1, <1>2, <1>3, <1>4, <1>5 DEF h, Limb

\* The same for a shift to the right: x << tnc keeps the cnt low bits, as a
\* multiple of q, and x >> cnt the others.
LEMMA RightShiftFacts ==
  ASSUME NEW v \in 2 .. B - 1, NEW q \in 2 .. B - 1, v * q = B, NEW x \in Limb
  PROVE  /\ x = v * (x \div v) + (x % v)
         /\ x \div v \in 0 .. q - 1
         /\ x % v \in 0 .. v - 1
         /\ Wrap(x * q) = q * (x % v)
<1> DEFINE h == x \div v  l == x % v
<1>0. v \in 1 .. B - 1
  BY BaseAssumption
<1>1. x = v * h + l /\ h \in Limb /\ l \in 0 .. v - 1
  BY <1>0, DivFacts
<1>2. q * v = B
  BY BaseAssumption
<1>3. x * q = B * h + Wrap(x * q) /\ h \in 0 .. q - 1
  BY <1>2, LeftShiftFacts
<1> HIDE DEF h, l
<1>4. x * q = B * h + q * l
  <2>1. (v * h + l) * q = (v * q) * h + q * l
    BY <1>1, BaseAssumption DEF Limb
  <2> QED
    BY <2>1, <1>1
<1>5. Wrap(x * q) \in Int /\ B * h \in Int /\ q * l \in Int
  BY <1>1, WrapFacts, BaseAssumption DEF Limb
<1>6. Wrap(x * q) = q * l
  BY <1>3, <1>4, <1>5
<1> QED
  BY <1>1, <1>3, <1>6 DEF h, l

----------------------------------------------------------------------------
(* The weights of the limbs, and numbers.                                  *)

\* The weights are the powers of the base.
LEMMA WeightFacts ==
  /\ Weight \in [0 .. MemSize -> Nat]
  /\ Weight[0] = 1
  /\ \A k \in 0 .. MemSize - 1 : Weight[k + 1] = B * Weight[k]
<1> DEFINE V == Nat
           base == 1
           step == [kv \in (0 .. MemSize) \X V |-> B * kv[2]]
           Is(f) == f = [k \in 0 .. MemSize |-> IF k = 0 THEN 1 ELSE B * f[k - 1]]
<1>0. MemSize \in Nat
  BY MemSizeAssumption
<1>1. base \in V /\ step \in [(0 .. MemSize) \X V -> V]
  BY BaseAssumption
<1>2. \A k \in 0 .. MemSize, v \in V : step[<<k, v>>] = B * v
  OBVIOUS
<1> HIDE DEF step, V, base
<1>3. PICK f : Follows(f, MemSize, V, base, step)
  BY <1>0, <1>1, Recursion, Zenon
<1>4. Is(f)
  <2>1. ASSUME NEW k \in 0 .. MemSize, k # 0 PROVE f[k] = B * f[k - 1]
    <3>1. k - 1 \in 0 .. MemSize - 1 /\ k - 1 \in 0 .. MemSize /\ f[k - 1] \in V
      BY <1>0, <1>3, <2>1 DEF Follows
    <3>2. f[(k - 1) + 1] = step[<<k - 1, f[k - 1]>>]
      BY <1>3, <3>1 DEF Follows
    <3> QED
      BY <3>1, <3>2, <1>2
  <2> QED
    BY <1>3, <2>1 DEF Follows, base
<1>5. Is(Weight)
  <2>1. Weight = CHOOSE g : Is(g)
    BY DEF Weight
  <2> HIDE DEF Is
  <2> QED
    BY <1>4, <2>1, Zenon
<1> DEFINE F(g) == [k \in 0 .. MemSize |-> IF k = 0 THEN 1 ELSE B * g[k - 1]]
<1>6. Weight = F(Weight)
  BY <1>5, Zenon
<1>7. /\ \A g : DOMAIN F(g) = 0 .. MemSize /\ F(g)[0] = 1
      /\ \A g : \A k \in 0 .. MemSize - 1 : F(g)[k + 1] = B * g[k]
  <2>1. \A g : DOMAIN F(g) = 0 .. MemSize /\ F(g)[0] = 1
    BY <1>0
  <2>2. ASSUME NEW g, NEW k \in 0 .. MemSize - 1 PROVE F(g)[k + 1] = B * g[k]
    <3>1. k + 1 \in 0 .. MemSize /\ k + 1 # 0 /\ (k + 1) - 1 = k
      BY <1>0
    <3> QED
      BY <3>1
  <2> HIDE DEF F
  <2> QED
    BY <2>1, <2>2
<1> HIDE DEF F, Is
<1>8. /\ DOMAIN Weight = 0 .. MemSize /\ Weight[0] = 1
      /\ \A k \in 0 .. MemSize - 1 : Weight[k + 1] = B * Weight[k]
  BY <1>6, <1>7, Zenon
<1> DEFINE P == {k \in 0 .. MemSize : Weight[k] \in Nat}
<1>9. 0 .. MemSize \subseteq P
  <2>1. 0 \in P
    BY <1>0, <1>8
  <2>2. ASSUME NEW k \in 0 .. MemSize - 1, k \in P PROVE k + 1 \in P
    <3>1. Weight[k] \in Nat /\ k + 1 \in 0 .. MemSize
      BY <1>0, <2>2
    <3>2. B * Weight[k] \in Nat
      BY <3>1, BaseAssumption
    <3> QED
      BY <3>1, <3>2, <1>8
  <2> HIDE DEF P
  <2> QED
    BY <1>0, <2>1, <2>2, SetInduction, Zenon
<1>10. Weight = [k \in 0 .. MemSize |-> Weight[k]]
  BY <1>6 DEF F
<1> QED
  BY <1>8, <1>9, <1>10

\* A number gets one limb longer: the limb counts its weight.
LEMMA NumberFacts ==
  ASSUME NEW m \in Memory, NEW p \in Addr
  PROVE  /\ \A k \in 0 .. MemSize - p : Value(m, p, k) \in Nat
         /\ Value(m, p, 0) = 0
         /\ \A k \in 0 .. MemSize - p - 1 :
              Value(m, p, k + 1) = Value(m, p, k) + m[p + k] * Weight[k]
<1> DEFINE V == Nat
           base == 0
           n == MemSize - p
           digit == [k \in 0 .. n |-> IF k < n THEN m[p + k] * Weight[k] ELSE 0]
           step == [kv \in (0 .. n) \X V |-> kv[2] + digit[kv[1]]]
           F(g) == [k \in 0 .. n |-> IF k = 0 THEN 0 ELSE g[k - 1] + m[p + k - 1] * Weight[k - 1]]
           Is(g) == g = F(g)
<1>0. n \in Nat /\ \A k \in 0 .. n - 1 : p + k \in Addr /\ k \in 0 .. MemSize
  BY MemSizeAssumption DEF Addr
<1>1. digit \in [0 .. n -> Nat] /\ \A k \in 0 .. n - 1 : digit[k] = m[p + k] * Weight[k]
  <2>1. ASSUME NEW k \in 0 .. n - 1 PROVE m[p + k] * Weight[k] \in Nat
    <3>1. m[p + k] \in Nat /\ Weight[k] \in Nat
      BY <1>0, WeightFacts, BaseAssumption DEF Memory, Limb
    <3> QED
      BY <3>1
  <2> QED
    BY <1>0, <2>1
<1> HIDE DEF digit, n
<1>2. base \in V /\ step \in [(0 .. n) \X V -> V]
  BY <1>1
<1>3. \A k \in 0 .. n, v \in V : step[<<k, v>>] = v + digit[k]
  OBVIOUS
<1> HIDE DEF step, V, base
<1>4. PICK f : Follows(f, n, V, base, step)
  BY <1>0, <1>2, Recursion, Zenon
<1>5. ASSUME NEW k \in 0 .. n, k # 0
      PROVE  f[k] = f[k - 1] + m[p + k - 1] * Weight[k - 1]
  <2>1. k - 1 \in 0 .. n - 1 /\ k - 1 \in 0 .. n /\ (k - 1) + 1 = k /\ p + (k - 1) = p + k - 1
    BY <1>0, <1>5, MemSizeAssumption DEF Addr
  <2>2. f[k - 1] \in V /\ f[(k - 1) + 1] = step[<<k - 1, f[k - 1]>>]
    BY <1>4, <2>1 DEF Follows
  <2> QED
    BY <2>1, <2>2, <1>1, <1>3
<1>6. f = F(f)
  <2>1. f \in [0 .. n -> V] /\ f[0] = 0
    BY <1>4 DEF Follows, base
  <2>2. \A k \in 0 .. n : F(f)[k] = f[k]
    BY <1>5, <2>1
  <2> QED
    BY <2>1, <2>2
<1> HIDE DEF F
<1>7. Is(Numbers(m, p))
  <2>1. Numbers(m, p) = CHOOSE g : Is(g)
    BY DEF Numbers, F, n
  <2>2. Is(f)
    BY <1>6
  <2> HIDE DEF Is
  <2> QED
    BY <2>1, <2>2, Zenon
<1> DEFINE N == Numbers(m, p)
<1>8. N = F(N)
  BY <1>7, Zenon
<1>9. /\ \A g : F(g)[0] = 0
      /\ \A g : \A k \in 0 .. n - 1 : F(g)[k + 1] = g[k] + m[p + k] * Weight[k]
  <2>1. ASSUME NEW g PROVE F(g)[0] = 0
    BY <1>0 DEF F
  <2>2. ASSUME NEW g, NEW k \in 0 .. n - 1 PROVE F(g)[k + 1] = g[k] + m[p + k] * Weight[k]
    <3>1. k + 1 \in 0 .. n /\ k + 1 # 0 /\ (k + 1) - 1 = k /\ p + (k + 1) - 1 = p + k
      BY <1>0, MemSizeAssumption DEF Addr
    <3>2. F(g)[k + 1] = g[(k + 1) - 1] + m[p + (k + 1) - 1] * Weight[(k + 1) - 1]
      BY <3>1 DEF F
    <3> QED
      BY <3>1, <3>2
  <2> QED
    BY <2>1, <2>2
<1> HIDE DEF N
<1>10. N[0] = 0 /\ \A k \in 0 .. n - 1 : N[k + 1] = N[k] + m[p + k] * Weight[k]
  BY <1>8, <1>9, Zenon
<1> DEFINE P == {k \in 0 .. n : N[k] \in Nat}
<1>11. 0 .. n \subseteq P
  <2>1. 0 \in P
    BY <1>0, <1>10
  <2>2. ASSUME NEW k \in 0 .. n - 1, k \in P PROVE k + 1 \in P
    <3>1. N[k] \in Nat /\ k + 1 \in 0 .. n /\ digit[k] \in Nat
      BY <1>0, <1>1, <2>2
    <3>2. N[k + 1] = N[k] + digit[k]
      BY <1>1, <1>10
    <3> QED
      BY <3>1, <3>2
  <2> HIDE DEF P
  <2> QED
    BY <1>0, <2>1, <2>2, SetInduction, Zenon
<1>12. \A k : Value(m, p, k) = N[k]
  BY DEF Value, N
<1>13. MemSize - p - 1 = n - 1
  BY DEF n
<1> QED
  BY <1>10, <1>11, <1>12, <1>13 DEF n

----------------------------------------------------------------------------
(* Digits and whole numbers.                                               *)

\* Partial sums that differ, from one limb to the next, by what the chain takes in and
\* gives out, differ as a whole by its two ends.
LEMMA Telescope ==
  ASSUME NEW n \in 0 .. MemSize, NEW S \in [0 .. n -> Int], NEW chain \in [0 .. n -> Int],
         S[0] = 0,
         \A k \in 0 .. n - 1 : S[k + 1] = S[k] + (B * chain[k + 1] - chain[k]) * Weight[k]
  PROVE  S[n] = chain[n] * Weight[n] - chain[0]
<1> DEFINE P == {k \in 0 .. n : S[k] = chain[k] * Weight[k] - chain[0]}
<1>0. n \in Nat /\ \A k \in 0 .. n : k \in 0 .. MemSize /\ Weight[k] \in Nat
  BY WeightFacts, MemSizeAssumption
<1>1. 0 \in P
  BY <1>0, WeightFacts
<1>2. ASSUME NEW k \in 0 .. n - 1, k \in P PROVE k + 1 \in P
  <2>1. k \in 0 .. n /\ k + 1 \in 0 .. n /\ k \in 0 .. MemSize - 1
    BY <1>0, MemSizeAssumption
  <2> DEFINE c == chain[k]  d == chain[k + 1]  w == Weight[k]
  <2>2. c \in Int /\ d \in Int /\ w \in Int /\ chain[0] \in Int /\ B \in Int
    BY <1>0, <2>1, BaseAssumption
  <2>3. S[k] = c * w - chain[0] /\ S[k + 1] = S[k] + (B * d - c) * w /\ Weight[k + 1] = B * w
    BY <1>2, <2>1, WeightFacts
  <2> HIDE DEF c, d, w
  <2>4. c * w - chain[0] + (B * d - c) * w = d * (B * w) - chain[0]
    BY <2>2
  <2> QED
    BY <2>1, <2>3, <2>4 DEF d
<1> HIDE DEF P
<1>3. 0 .. n \subseteq P
  BY <1>0, <1>1, <1>2, SetInduction, Zenon
<1> QED
  BY <1>0, <1>3 DEF P

\* The complement of a shift count, as a factor.
LEMMA ShiftFactorFacts ==
  ASSUME NEW v \in ShiftFactor
  PROVE  v \in 2 .. B - 1 /\ B \div v \in 2 .. B - 1 /\ v * (B \div v) = B
<1>1. v \in 2 .. B - 1 /\ B % v = 0
  BY DEF ShiftFactor, Limb
<1> DEFINE q == B \div v
<1>2. B = v * q /\ q \in Nat
  BY <1>1, BaseAssumption
<1> HIDE DEF q
<1>3. q # 0 /\ q # 1 /\ q < B
  BY <1>1, <1>2, BaseAssumption
<1> QED
  BY <1>1, <1>2, <1>3, BaseAssumption DEF q

\* What a call gets: addresses, limbs and lengths.
LEMMA ArgumentFacts ==
  ASSUME NEW c \in Calls(Op)
  PROVE  /\ c.op \in Op /\ c.v \in Limb
         /\ c.up \in Addr /\ c.vp \in Addr /\ c.rp \in Addr
         /\ c.n \in 1 .. MemSize /\ c.n <= MemSize - c.up /\ c.n <= MemSize - c.rp
         /\ c.m \in 0 .. c.n /\ c.m <= MemSize - c.vp
         /\ c.op \in {"add_n", "sub_n"} => c.m = c.n
         /\ c.op \in ShiftOps => c.v \in ShiftFactor
BY MemSizeAssumption
   DEF Calls, CallRecord, InMemory, Op, Addr, TwoVectorOps, LimbOps, ShiftOps

\* The limbs of a number are in memory.
LEMMA InRange ==
  ASSUME NEW p \in Addr, NEW n \in 0 .. MemSize, n <= MemSize - p, NEW k \in 0 .. n - 1
  PROVE  k \in 0 .. MemSize - p - 1 /\ p + k \in Addr /\ k \in 0 .. MemSize /\ k + 1 \in 0 .. n
BY MemSizeAssumption DEF Addr

\* The limbs of an operand are no more than there are behind its address.
LEMMA LengthInRange ==
  ASSUME NEW p \in Addr, NEW n \in Int, n <= MemSize - p, NEW k \in 0 .. n
  PROVE  k \in 0 .. MemSize - p
BY MemSizeAssumption DEF Addr

\* A limb is a number.
LEMMA LimbIsInt == \A m \in Memory, j \in Addr : m[j] \in Nat /\ m[j] \in Int
BY BaseAssumption DEF Memory, Limb

\* The digit of the second operand, which may be shorter than the result.
SecondDigit(c, old, j) == IF j < c.m THEN old[c.vp + j] ELSE 0

\* A linear relation of the four numbers of a call, digit by digit and as a whole.
InDigits(c, old, new, a, b, d, e, chain) ==
  \A j \in 0 .. c.n - 1 :
    a * old[c.up + j] + b * SecondDigit(c, old, j) + d * new[c.rp + j] + e * old[c.rp + j]
      = B * chain[j + 1] - chain[j]

AsWhole(c, old, new, a, b, d, e, chain) ==
  a * Value(old, c.up, c.n) + b * Value(old, c.vp, c.m)
    + d * Value(new, c.rp, c.n) + e * Value(old, c.rp, c.n)
      = chain[c.n] * Weight[c.n] - chain[0]

\* If it holds digit by digit it holds for the numbers.
LEMMA Combination ==
  ASSUME NEW c \in Calls(Op), NEW old \in Memory, NEW new \in Memory,
         NEW a \in Int, NEW b \in Int, NEW d \in Int, NEW e \in Int,
         NEW chain \in [0 .. c.n -> Int],
         InDigits(c, old, new, a, b, d, e, chain)
  PROVE  AsWhole(c, old, new, a, b, d, e, chain)
<1> DEFINE n == c.n
           U(k) == Value(old, c.up, k)
           V(k) == Value(old, c.vp, IF k <= c.m THEN k ELSE c.m)
           R(k) == Value(new, c.rp, k)
           Q(k) == Value(old, c.rp, k)
           S == [k \in 0 .. n |-> a * U(k) + b * V(k) + d * R(k) + e * Q(k)]
<1>0. /\ c.up \in Addr /\ c.vp \in Addr /\ c.rp \in Addr
      /\ n \in 1 .. MemSize /\ n <= MemSize - c.up /\ n <= MemSize - c.rp
      /\ c.m \in 0 .. n /\ c.m <= MemSize - c.vp
  BY ArgumentFacts
<1>1. ASSUME NEW k \in 0 .. n
      PROVE  U(k) \in Int /\ V(k) \in Int /\ R(k) \in Int /\ Q(k) \in Int
  <2>1. /\ k \in 0 .. MemSize - c.up /\ k \in 0 .. MemSize - c.rp
    <3>1. n \in Int
      BY <1>0
    <3> HIDE DEF n
    <3> QED
      BY <1>0, <3>1, LengthInRange
  <2>2. (IF k <= c.m THEN k ELSE c.m) \in 0 .. MemSize - c.vp
    <3>1. c.m \in Int /\ (IF k <= c.m THEN k ELSE c.m) \in 0 .. c.m
      BY <1>0
    <3> QED
      BY <1>0, <3>1, LengthInRange
  <2>3. Q(k) \in Int /\ U(k) \in Int /\ R(k) \in Int
    BY <2>1, <1>0, NumberFacts
  <2>4. V(k) \in Int
    BY <2>2, <1>0, NumberFacts
  <2> QED
    BY <2>3, <2>4
<1>2. U(0) = 0 /\ V(0) = 0 /\ R(0) = 0 /\ Q(0) = 0
  <2>1. 0 <= c.m
    BY <1>0
  <2> QED
    BY <2>1, <1>0, NumberFacts
<1>3. ASSUME NEW k \in 0 .. n - 1
      PROVE  LET w == Weight[k]
             IN  /\ w \in Int
                 /\ old[c.up + k] \in Int /\ U(k + 1) = U(k) + old[c.up + k] * w
                 /\ SecondDigit(c, old, k) \in Int /\ V(k + 1) = V(k) + SecondDigit(c, old, k) * w
                 /\ new[c.rp + k] \in Int /\ R(k + 1) = R(k) + new[c.rp + k] * w
                 /\ old[c.rp + k] \in Int /\ Q(k + 1) = Q(k) + old[c.rp + k] * w
  <2>1. /\ k \in 0 .. MemSize - c.up - 1 /\ k \in 0 .. MemSize - c.rp - 1
        /\ c.up + k \in Addr /\ c.rp + k \in Addr /\ k \in 0 .. MemSize
    <3>1. n \in 0 .. MemSize
      BY <1>0, MemSizeAssumption
    <3> HIDE DEF n
    <3> QED
      BY <1>0, <3>1, InRange
  <2>2. Weight[k] \in Int
    BY <2>1, WeightFacts
  <2>3. old[c.up + k] \in Int /\ new[c.rp + k] \in Int /\ old[c.rp + k] \in Int
    BY <2>1, LimbIsInt
  <2>4. /\ U(k + 1) = U(k) + old[c.up + k] * Weight[k]
        /\ R(k + 1) = R(k) + new[c.rp + k] * Weight[k]
        /\ Q(k + 1) = Q(k) + old[c.rp + k] * Weight[k]
    BY <1>0, <2>1, NumberFacts
  <2>5. SecondDigit(c, old, k) \in Int /\ V(k + 1) = V(k) + SecondDigit(c, old, k) * Weight[k]
    <3>1. CASE k < c.m
      <4>1. k \in 0 .. MemSize - c.vp - 1 /\ c.vp + k \in Addr /\ k <= c.m /\ k + 1 <= c.m
        <5>1. c.m \in 0 .. MemSize /\ k \in 0 .. c.m - 1
          BY <3>1, <1>0, MemSizeAssumption
        <5>2. k \in 0 .. MemSize - c.vp - 1 /\ c.vp + k \in Addr
          BY <5>1, <1>0, InRange
        <5> QED
          BY <5>1, <5>2
      <4>2. old[c.vp + k] \in Int
        BY <4>1, LimbIsInt
      <4>3. Value(old, c.vp, k + 1) = Value(old, c.vp, k) + old[c.vp + k] * Weight[k]
        BY <4>1, <1>0, NumberFacts
      <4> QED
        BY <4>1, <4>2, <4>3, <3>1 DEF SecondDigit
    <3>2. CASE ~(k < c.m)
      <4>1. (IF k + 1 <= c.m THEN k + 1 ELSE c.m) = c.m /\ (IF k <= c.m THEN k ELSE c.m) = c.m
        BY <3>2, <1>0
      <4>2. V(k + 1) = V(k) /\ SecondDigit(c, old, k) = 0
        BY <4>1, <3>2 DEF SecondDigit
      <4>3. V(k) \in Int /\ 0 * Weight[k] = 0
        <5>1. k \in 0 .. n
          BY <1>0
        <5> HIDE DEF V
        <5> QED
          BY <1>1, <2>2, <5>1
      <4> HIDE DEF V
      <4> QED
        BY <4>2, <4>3
    <3> QED
      BY <3>1, <3>2
  <2> QED
    BY <2>2, <2>3, <2>4, <2>5
<1> HIDE DEF U, V, R, Q
<1>4. S \in [0 .. n -> Int]
  BY <1>1
<1>5. S[0] = 0
  BY <1>2, <1>0
<1>6. ASSUME NEW k \in 0 .. n - 1
      PROVE  S[k + 1] = S[k] + (B * chain[k + 1] - chain[k]) * Weight[k]
  <2> DEFINE u == old[c.up + k]  v == SecondDigit(c, old, k)  r == new[c.rp + k]
             q == old[c.rp + k]  w == Weight[k]  U0 == U(k)  V0 == V(k)  R0 == R(k)  Q0 == Q(k)
  <2>1. k \in 0 .. n /\ k + 1 \in 0 .. n
    BY <1>0
  <2>2. /\ u \in Int /\ v \in Int /\ r \in Int /\ q \in Int /\ w \in Int
        /\ U0 \in Int /\ V0 \in Int /\ R0 \in Int /\ Q0 \in Int
    BY <1>1, <1>3, <2>1
  <2>3. S[k] = a * U0 + b * V0 + d * R0 + e * Q0
    BY <2>1
  <2>4. S[k + 1] = a * (U0 + u * w) + b * (V0 + v * w) + d * (R0 + r * w) + e * (Q0 + q * w)
    BY <1>3, <2>1
  <2>5. B * chain[k + 1] - chain[k] = a * u + b * v + d * r + e * q
    BY DEF InDigits
  <2> HIDE DEF u, v, r, q, w, U0, V0, R0, Q0
  <2>6. a * (U0 + u * w) + b * (V0 + v * w) + d * (R0 + r * w) + e * (Q0 + q * w)
          = (a * U0 + b * V0 + d * R0 + e * Q0) + (a * u + b * v + d * r + e * q) * w
    BY <2>2
  <2> QED
    BY <2>3, <2>4, <2>5, <2>6 DEF w
<1> HIDE DEF S
<1>7. S[n] = chain[n] * Weight[n] - chain[0]
  <2>1. n \in 0 .. MemSize
    BY <1>0
  <2> QED
    BY <2>1, <1>4, <1>5, <1>6, Telescope
<1>8. n \in 0 .. n /\ V(n) = Value(old, c.vp, c.m)
  BY <1>0 DEF V
<1> QED
  BY <1>7, <1>8 DEF S, U, R, Q, AsWhole

\* Every call that keeps its promise digit by digit keeps it as whole numbers: the limbs
\* stored and the value returned are the exact sum, difference, product, shift, copy,
\* complement or negative of the operands as they were when the call was made.
THEOREM PromiseExact ==
  ASSUME NEW c \in Calls(Op), NEW old \in Memory, NEW new \in Memory, NEW ret \in Limb,
         NEW chain \in Chain, Promise(c, old, new, ret, chain)
  PROVE  ExactResult(c, old, new, ret)
<1> DEFINE n == c.n
           Ch == [k \in 0 .. n |-> chain[k]]
           u(j) == old[c.up + j]  v(j) == SecondDigit(c, old, j)
           r(j) == new[c.rp + j]  q(j) == old[c.rp + j]
           U == Value(old, c.up, n)
           V == Value(old, c.vp, c.m)
           R == Value(new, c.rp, n)
           Q == Value(old, c.rp, n)
           W == Weight[n]
<1>0. /\ n \in 1 .. MemSize /\ n \in Nat /\ 0 \in 0 .. n /\ n \in 0 .. n
      /\ \A k \in 0 .. n : k \in 0 .. MemSize
  BY ArgumentFacts, MemSizeAssumption
<1>1. U \in Int /\ V \in Int /\ R \in Int /\ Q \in Int /\ W \in Int /\ c.v \in Int /\ ret \in Int
  <2>1. /\ n \in 0 .. MemSize - c.up /\ n \in 0 .. MemSize - c.rp
        /\ c.m \in 0 .. MemSize - c.vp
    BY ArgumentFacts, MemSizeAssumption DEF Addr
  <2>2. W \in Int /\ c.v \in Int /\ ret \in Int
    BY <1>0, WeightFacts, ArgumentFacts, BaseAssumption DEF Limb
  <2> QED
    BY <2>1, <2>2, ArgumentFacts, NumberFacts
<1>2. Ch \in [0 .. n -> Int] /\ \A k \in 0 .. n : Ch[k] = chain[k] /\ chain[k] \in Int
  BY <1>0, BaseAssumption DEF Chain, Limb
<1>3. ASSUME NEW j \in 0 .. n - 1
      PROVE  /\ j \in 0 .. n /\ j + 1 \in 0 .. n
             /\ old[c.up + j] \in Int /\ SecondDigit(c, old, j) \in Int
             /\ new[c.rp + j] \in Int /\ old[c.rp + j] \in Int
             /\ Digit(c, old, j, new[c.rp + j], chain[j], chain[j + 1])
  <2>1. n \in 0 .. MemSize
    BY <1>0
  <2>2. j \in 0 .. n /\ j + 1 \in 0 .. n
    BY <1>0
  <2>3. Digit(c, old, j, new[c.rp + j], chain[j], chain[j + 1])
    BY DEF Promise
  <2> HIDE DEF n
  <2>4. c.up + j \in Addr /\ c.rp + j \in Addr
    BY <2>1, ArgumentFacts, InRange DEF n
  <2>5. old[c.up + j] \in Int /\ new[c.rp + j] \in Int /\ old[c.rp + j] \in Int
    BY <2>4, LimbIsInt
  <2>6. SecondDigit(c, old, j) \in Int
    <3>1. CASE j < c.m
      <4>1. c.m \in 0 .. MemSize /\ j \in 0 .. c.m - 1
        BY <3>1, ArgumentFacts, MemSizeAssumption
      <4>2. c.vp + j \in Addr
        BY <4>1, ArgumentFacts, InRange
      <4> QED
        BY <3>1, <4>2, LimbIsInt DEF SecondDigit
    <3>2. CASE ~(j < c.m)
      BY <3>2 DEF SecondDigit
    <3> QED
      BY <3>1, <3>2
  <2> QED
    BY <2>2, <2>3, <2>5, <2>6
<1> DEFINE Dig(a, b, d, e, f) ==
             \A j \in 0 .. n - 1 :
               a * u(j) + b * v(j) + d * r(j) + e * q(j) = B * f[j + 1] - f[j]
           Tot(a, b, d, e, f) == a * U + b * V + d * R + e * Q = f[n] * W - f[0]
<1>4. ASSUME NEW a \in Int, NEW b \in Int, NEW d \in Int, NEW e \in Int,
             NEW f \in [0 .. n -> Int], Dig(a, b, d, e, f)
      PROVE  Tot(a, b, d, e, f)
  <2>1. InDigits(c, old, new, a, b, d, e, f)
    BY <1>4 DEF InDigits
  <2>2. AsWhole(c, old, new, a, b, d, e, f)
    BY <2>1, Combination
  <2> QED
    BY <2>2 DEF AsWhole
<1>5. Ends(c, chain, ret)
  BY DEF Promise
<1>6. ASSUME NEW j \in 0 .. n - 1
      PROVE  /\ u(j) \in Int /\ v(j) \in Int /\ r(j) \in Int /\ q(j) \in Int
             /\ Ch[j] \in Int /\ Ch[j + 1] \in Int
             /\ c.op \in {"add_n", "add"} => r(j) + B * Ch[j + 1] = u(j) + v(j) + Ch[j]
             /\ c.op \in {"sub_n", "sub"} => r(j) - B * Ch[j + 1] = u(j) - v(j) - Ch[j]
             /\ c.op = "add_1" => r(j) + B * Ch[j + 1] = u(j) + Ch[j]
             /\ c.op = "sub_1" => r(j) - B * Ch[j + 1] = u(j) - Ch[j]
             /\ c.op \in {"mul_1", "lshift"} => r(j) + B * Ch[j + 1] = u(j) * c.v + Ch[j]
             /\ c.op = "addmul_1" => r(j) + B * Ch[j + 1] = q(j) + u(j) * c.v + Ch[j]
             /\ c.op = "submul_1" => r(j) - B * Ch[j + 1] = q(j) - u(j) * c.v - Ch[j]
             /\ c.op = "neg_n" => r(j) - B * Ch[j + 1] = 0 - u(j) - Ch[j]
             /\ c.op = "com_n" => r(j) + u(j) = B - 1
             /\ c.op \in {"copyi", "copyd"} => r(j) = u(j)
             /\ c.op = "rshift" => c.v * r(j) + Ch[j] = u(j) + B * Ch[j + 1]
  <2>1. Ch[j] = chain[j] /\ Ch[j + 1] = chain[j + 1] /\ chain[j] \in Int /\ chain[j + 1] \in Int
    BY <1>2, <1>3
  <2>2. c.op \in {"add_n", "sub_n"} => j < c.m
    BY ArgumentFacts
  <2>3. /\ u(j) \in Int /\ v(j) \in Int /\ r(j) \in Int /\ q(j) \in Int
        /\ Ch[j] \in Int /\ Ch[j + 1] \in Int
        /\ Digit(c, old, j, r(j), Ch[j], Ch[j + 1])
        /\ v(j) = IF j < c.m THEN old[c.vp + j] ELSE 0
    BY <1>3, <2>1 DEF SecondDigit
  <2> HIDE DEF v, r, Ch
  <2>4. c.op \in {"add_n", "add", "sub_n", "sub"} =>
          \/ c.op = "add_n" /\ v(j) = old[c.vp + j]
          \/ c.op = "sub_n" /\ v(j) = old[c.vp + j]
          \/ c.op = "add"
          \/ c.op = "sub"
    BY <2>2, <2>3, ArgumentFacts DEF n
  <2>5. CASE c.op \in TwoVectorOps
    <3>1. CASE c.op = "add_n"
      BY <2>3, <2>4, <3>1 DEF Digit
    <3>2. CASE c.op = "sub_n"
      BY <2>3, <2>4, <3>2 DEF Digit
    <3>3. CASE c.op = "add"
      BY <2>3, <3>3 DEF Digit
    <3>4. CASE c.op = "sub"
      BY <2>3, <3>4 DEF Digit
    <3> QED
      BY <2>5, <3>1, <3>2, <3>3, <3>4 DEF TwoVectorOps
  <2>6. CASE c.op \notin TwoVectorOps
    BY <2>3, <2>6 DEF Digit, TwoVectorOps
  <2> QED
    BY <2>5, <2>6
<1>7. \A j \in 0 .. n - 1 : /\ u(j) \in Int /\ v(j) \in Int /\ r(j) \in Int /\ q(j) \in Int
                             /\ Ch[j] \in Int /\ Ch[j + 1] \in Int
  BY <1>6, Zenon
<1> HIDE DEF U, V, R, Q, W, Ch, n, u, v, r, q, Dig, Tot
<1>8. /\ c.op \in {"add_1", "sub_1"} => Ch[0] = c.v
      /\ c.op \notin {"add_1", "sub_1", "rshift"} => Ch[0] = 0
      /\ c.op # "rshift" => Ch[n] = ret
      /\ c.op = "rshift" => Ch[n] = 0 /\ ret = Ch[0] * (B \div c.v)
  BY <1>0, <1>2, <1>5 DEF Ends, n
<1>9. ASSUME c.op \in {"add_n", "add"} PROVE R + ret * W = U + V
  <2>1. ASSUME NEW j \in 0 .. n - 1 PROVE r(j) + B * Ch[j + 1] = u(j) + v(j) + Ch[j]
    BY <1>6, <1>9, Zenon
  <2>2. Dig(1, 1, -1, 0, Ch)
    BY <1>7, <2>1, BaseAssumption DEF Dig
  <2>3. Tot(1, 1, -1, 0, Ch)
    BY <1>1, <1>2, <1>4, <2>2
  <2>4. Ch[n] = ret /\ Ch[0] = 0
    BY <1>8, <1>9
  <2> QED
    BY <1>1, <2>3, <2>4 DEF Tot
<1>10. ASSUME c.op \in {"sub_n", "sub"} PROVE R - ret * W = U - V
  <2>1. ASSUME NEW j \in 0 .. n - 1 PROVE r(j) - B * Ch[j + 1] = u(j) - v(j) - Ch[j]
    BY <1>6, <1>10, Zenon
  <2>2. Dig(-1, 1, 1, 0, Ch)
    BY <1>7, <2>1, BaseAssumption DEF Dig
  <2>3. Tot(-1, 1, 1, 0, Ch)
    BY <1>1, <1>2, <1>4, <2>2
  <2>4. Ch[n] = ret /\ Ch[0] = 0
    BY <1>8, <1>10
  <2> QED
    BY <1>1, <2>3, <2>4 DEF Tot
<1>11. ASSUME c.op \in {"add_1"} PROVE R + ret * W = U + c.v
  <2>1. ASSUME NEW j \in 0 .. n - 1 PROVE r(j) + B * Ch[j + 1] = u(j) + Ch[j]
    BY <1>6, <1>11, Zenon
  <2>2. Dig(1, 0, -1, 0, Ch)
    BY <1>7, <2>1, BaseAssumption DEF Dig
  <2>3. Tot(1, 0, -1, 0, Ch)
    BY <1>1, <1>2, <1>4, <2>2
  <2>4. Ch[n] = ret /\ Ch[0] = c.v
    BY <1>8, <1>11
  <2> QED
    BY <1>1, <2>3, <2>4 DEF Tot
<1>12. ASSUME c.op \in {"sub_1"} PROVE R - ret * W = U - c.v
  <2>1. ASSUME NEW j \in 0 .. n - 1 PROVE r(j) - B * Ch[j + 1] = u(j) - Ch[j]
    BY <1>6, <1>12, Zenon
  <2>2. Dig(-1, 0, 1, 0, Ch)
    BY <1>7, <2>1, BaseAssumption DEF Dig
  <2>3. Tot(-1, 0, 1, 0, Ch)
    BY <1>1, <1>2, <1>4, <2>2
  <2>4. Ch[n] = ret /\ Ch[0] = c.v
    BY <1>8, <1>12
  <2> QED
    BY <1>1, <2>3, <2>4 DEF Tot
<1>13. ASSUME c.op \in {"mul_1", "lshift"} PROVE R + ret * W = U * c.v
  <2>1. ASSUME NEW j \in 0 .. n - 1 PROVE r(j) + B * Ch[j + 1] = u(j) * c.v + Ch[j]
    BY <1>6, <1>13, Zenon
  <2>2. Dig(c.v, 0, -1, 0, Ch)
    BY <1>1, <1>7, <2>1, BaseAssumption DEF Dig
  <2>3. Tot(c.v, 0, -1, 0, Ch)
    BY <1>1, <1>2, <1>4, <2>2
  <2>4. Ch[n] = ret /\ Ch[0] = 0
    BY <1>8, <1>13
  <2> QED
    BY <1>1, <2>3, <2>4 DEF Tot
<1>14. ASSUME c.op \in {"addmul_1"} PROVE R + ret * W = Q + U * c.v
  <2>1. ASSUME NEW j \in 0 .. n - 1 PROVE r(j) + B * Ch[j + 1] = q(j) + u(j) * c.v + Ch[j]
    BY <1>6, <1>14, Zenon
  <2>2. Dig(c.v, 0, -1, 1, Ch)
    BY <1>1, <1>7, <2>1, BaseAssumption DEF Dig
  <2>3. Tot(c.v, 0, -1, 1, Ch)
    BY <1>1, <1>2, <1>4, <2>2
  <2>4. Ch[n] = ret /\ Ch[0] = 0
    BY <1>8, <1>14
  <2>5. c.v * U + 0 * V + (-1) * R + 1 * Q = ret * W - 0
    BY <2>3, <2>4 DEF Tot
  <2> DEFINE p == c.v * U  t == ret * W
  <2>6. p \in Int /\ t \in Int
    BY <1>1
  <2>7. p = U * c.v
    BY <1>1
  <2> HIDE DEF p, t
  <2>8. p + 0 * V + (-1) * R + 1 * Q = t - 0
    BY <2>5 DEF p, t
  <2>9. R + t = Q + p
    BY <1>1, <2>6, <2>8
  <2>10. R + t = Q + U * c.v
    BY <2>9, <2>7, Zenon
  <2> QED
    BY <2>10, Zenon DEF t
<1>15. ASSUME c.op \in {"submul_1"} PROVE R - ret * W = Q - U * c.v
  <2>1. ASSUME NEW j \in 0 .. n - 1 PROVE r(j) - B * Ch[j + 1] = q(j) - u(j) * c.v - Ch[j]
    BY <1>6, <1>15, Zenon
  <2>2. Dig(c.v, 0, 1, -1, Ch)
    BY <1>1, <1>7, <2>1, BaseAssumption DEF Dig
  <2>3. Tot(c.v, 0, 1, -1, Ch)
    BY <1>1, <1>2, <1>4, <2>2
  <2>4. Ch[n] = ret /\ Ch[0] = 0
    BY <1>8, <1>15
  <2> QED
    BY <1>1, <2>3, <2>4 DEF Tot
<1>16. ASSUME c.op \in {"neg_n"} PROVE R - ret * W = 0 - U
  <2>1. ASSUME NEW j \in 0 .. n - 1 PROVE r(j) - B * Ch[j + 1] = 0 - u(j) - Ch[j]
    BY <1>6, <1>16, Zenon
  <2>2. Dig(1, 0, 1, 0, Ch)
    BY <1>7, <2>1, BaseAssumption DEF Dig
  <2>3. Tot(1, 0, 1, 0, Ch)
    BY <1>1, <1>2, <1>4, <2>2
  <2>4. Ch[n] = ret /\ Ch[0] = 0
    BY <1>8, <1>16
  <2> QED
    BY <1>1, <2>3, <2>4 DEF Tot
<1> DEFINE One == [k \in 0 .. n |-> 1]
           Zero == [k \in 0 .. n |-> 0]
<1>17. ASSUME c.op \in {"com_n"} PROVE R + U = W - 1
  <2>1. ASSUME NEW j \in 0 .. n - 1 PROVE r(j) + u(j) = B - 1
    BY <1>6, <1>17, Zenon
  <2>2. One \in [0 .. n -> Int] /\ One[0] = 1 /\ One[n] = 1
        /\ \A j \in 0 .. n - 1 : One[j] = 1 /\ One[j + 1] = 1
    BY <1>0
  <2> HIDE DEF One
  <2>3. Dig(1, 0, 1, 0, One)
    BY <1>7, <2>1, <2>2, BaseAssumption DEF Dig
  <2>4. Tot(1, 0, 1, 0, One)
    BY <1>4, <2>2, <2>3
  <2> QED
    BY <1>1, <2>2, <2>4 DEF Tot
<1>18. ASSUME c.op \in {"copyi", "copyd"} PROVE R = U
  <2>1. ASSUME NEW j \in 0 .. n - 1 PROVE r(j) = u(j)
    BY <1>6, <1>18, Zenon
  <2>2. Zero \in [0 .. n -> Int] /\ Zero[0] = 0 /\ Zero[n] = 0
        /\ \A j \in 0 .. n - 1 : Zero[j] = 0 /\ Zero[j + 1] = 0
    BY <1>0
  <2> HIDE DEF Zero
  <2>3. Dig(-1, 0, 1, 0, Zero)
    BY <1>7, <2>1, <2>2, BaseAssumption DEF Dig
  <2>4. Tot(-1, 0, 1, 0, Zero)
    BY <1>4, <2>2, <2>3
  <2> QED
    BY <1>1, <2>2, <2>4 DEF Tot
<1>19. ASSUME c.op = "rshift" PROVE R * B + ret = U * (B \div c.v)
  <2>1. ASSUME NEW j \in 0 .. n - 1 PROVE c.v * r(j) + Ch[j] = u(j) + B * Ch[j + 1]
    BY <1>6, <1>19, Zenon
  <2>2. Dig(-1, 0, c.v, 0, Ch)
    BY <1>1, <1>7, <2>1, BaseAssumption DEF Dig
  <2>3. Tot(-1, 0, c.v, 0, Ch)
    BY <1>1, <1>2, <1>4, <2>2
  <2> DEFINE v0 == c.v  w0 == B \div c.v  lo == Ch[0]
  <2>4. v0 \in Int /\ w0 \in Int /\ v0 * w0 = B
    BY <1>19, ArgumentFacts, ShiftFactorFacts, BaseAssumption DEF ShiftOps
  <2>5. lo \in Int /\ Ch[n] = 0 /\ ret = lo * w0
    BY <1>0, <1>2, <1>8, <1>19
  <2>6. v0 * R + lo = U
    BY <1>1, <2>3, <2>5 DEF Tot
  <2> HIDE DEF v0, w0, lo
  <2>7. U * w0 = (v0 * R + lo) * w0 /\ (v0 * R + lo) * w0 = R * (v0 * w0) + lo * w0
    BY <1>1, <2>4, <2>5, <2>6
  <2> QED
    BY <2>4, <2>5, <2>7 DEF w0
<1> QED
  BY <1>9, <1>10, <1>11, <1>12, <1>13, <1>14, <1>15, <1>16, <1>17, <1>18, <1>19
     DEF ExactResult, U, V, R, Q, W, n, TwoVectorOps

============================================================================
