---------------------------- MODULE MpnContract ----------------------------
(***************************************************************************)
(* What the mpn functions ask of their arguments and promise of their      *)
(* results.                                                                *)
(*                                                                         *)
(* All operands lie in one memory of limbs and a pointer is an address in  *)
(* it, so operands may overlap in every way the function's ASSERTs allow.  *)
(* Of a result the functions promise that its limbs are related to the     *)
(* operands as they were when the call was made, digit by digit, through a *)
(* chain of carries, and that no limb outside it changes.                  *)
(***************************************************************************)
EXTENDS Limbs

CONSTANT MemSize  \* limbs of memory

ASSUME MemSizeAssumption == MemSize \in Nat \ {0}

Addr == 0 .. MemSize - 1
Memory == [Addr -> Limb]

Region(p, n) == p .. p + n - 1

\* Chains of carries, for regions of any length: chain[j] goes from digit
\* j - 1 into digit j.
Chain == [0 .. MemSize -> Limb]

----------------------------------------------------------------------------
(* The overlap predicates the functions assert of their arguments.         *)

\* Mutants: regions that share one limb count as separate, and the directions
\* in which source and destination may overlap are swapped.
OverlapByTwo(xp, xsize, yp, ysize) == xp + xsize > yp + 1 /\ yp + ysize > xp + 1
SameOrBelow(dst, src, n) == dst <= src
SameOrAbove(dst, src, n) == dst >= src

Overlap(xp, xsize, yp, ysize) == xp + xsize > yp /\ yp + ysize > xp

SameOrSeparate2(xp, xsize, yp, ysize) ==
  xp = yp \/ ~Overlap(xp, xsize, yp, ysize)

SameOrSeparate(xp, yp, n) == SameOrSeparate2(xp, n, yp, n)

SameOrIncr(dst, src, n) == dst <= src \/ ~Overlap(dst, n, src, n)

SameOrDecr(dst, src, n) == dst >= src \/ ~Overlap(dst, n, src, n)

----------------------------------------------------------------------------
(* Calls.  rp, up, vp and n are the pointers and the size; m is the size   *)
(* of the second operand where it has one of its own, v the limb operand,  *)
(* 2^cnt for a shift by cnt.  An operand the function does not have is 0.  *)

TwoVectorOps == {"add_n", "sub_n", "add", "sub"}
LimbOps == {"mul_1", "addmul_1", "submul_1", "add_1", "sub_1"}
ShiftOps == {"lshift", "rshift"}
Op == TwoVectorOps \cup LimbOps \cup ShiftOps
        \cup {"com_n", "neg_n", "copyi", "copyd"}

CallRecord ==
  [op : Op, rp : Addr, up : Addr, vp : Addr, n : 1 .. MemSize,
   m : 0 .. MemSize, v : Limb]

NoCall == [op |-> "none", rp |-> 0, up |-> 0, vp |-> 0, n |-> 0, m |-> 0, v |-> 0]

\* 0 < cnt < GMP_NUMB_BITS: 2^cnt divides B and is neither 1 nor B.
ShiftFactor == {v \in Limb : v >= 2 /\ B % v = 0}

InMemory(c) ==
  /\ c.rp + c.n <= MemSize
  /\ c.up + c.n <= MemSize
  /\ IF c.op \in TwoVectorOps THEN c.vp + c.m <= MemSize ELSE c.vp = 0
  /\ c.op \in {"add_n", "sub_n"} => c.m = c.n
  /\ c.op \in {"add", "sub"} => c.m <= c.n
  /\ c.op \notin TwoVectorOps => c.m = 0
  /\ c.op \in ShiftOps => c.v \in ShiftFactor
  /\ c.op \notin LimbOps \cup ShiftOps => c.v = 0

\* The ASSERT of the function on how its operands may overlap.
Asserted(c) ==
  IF c.op \in {"mul_1", "copyi", "rshift"} THEN SameOrIncr(c.rp, c.up, c.n)
  ELSE IF c.op \in {"copyd", "lshift"} THEN SameOrDecr(c.rp, c.up, c.n)
  ELSE /\ SameOrSeparate(c.rp, c.up, c.n)
       /\ c.op \in TwoVectorOps => SameOrSeparate2(c.rp, c.n, c.vp, c.m)

Calls(ops) == {c \in CallRecord : c.op \in ops /\ InMemory(c) /\ Asserted(c)}

----------------------------------------------------------------------------
(* Results.                                                                *)

\* The digit equation of limb j: r is the limb stored, old the memory when
\* the call was made, lo and hi the carries into and out of the digit.
Digit(c, old, j, r, lo, hi) ==
  LET u == old[c.up + j]
  IN  /\ c.op = "add_n" => r + B * hi = u + old[c.vp + j] + lo
      /\ c.op = "sub_n" => r - B * hi = u - old[c.vp + j] - lo
      /\ c.op \in {"mul_1", "lshift"} => r + B * hi = u * c.v + lo
      /\ c.op = "addmul_1" => r + B * hi = old[c.rp + j] + u * c.v + lo
      /\ c.op = "submul_1" => r - B * hi = old[c.rp + j] - u * c.v - lo
      /\ c.op = "rshift" => c.v * r + lo = u + B * hi /\ lo < c.v
      /\ c.op = "com_n" => r + u = B - 1 /\ hi = 0
      /\ c.op \in {"copyi", "copyd"} => r = u /\ hi = 0
      /\ c.op = "add" => r + B * hi = u + (IF j < c.m THEN old[c.vp + j] ELSE 0) + lo
      /\ c.op = "sub" => r - B * hi = u - (IF j < c.m THEN old[c.vp + j] ELSE 0) - lo
      /\ c.op = "add_1" => r + B * hi = u + lo
      /\ c.op = "sub_1" => r - B * hi = u - lo
      /\ c.op = "neg_n" => r - B * hi = 0 - u - lo

\* Where the chain starts, and the value returned in terms of its ends.
Ends(c, chain, r) ==
  IF c.op = "rshift" THEN chain[c.n] = 0 /\ r = chain[0] * (B \div c.v)
  ELSE /\ chain[0] = IF c.op \in {"add_1", "sub_1"} THEN c.v ELSE 0
       /\ r = chain[c.n]

\* The weight of limb k, B^k, and the number in n limbs from p of memory m.
Weight[k \in 0 .. MemSize] == IF k = 0 THEN 1 ELSE B * Weight[k - 1]

Numbers(m, p) ==
  LET Val[k \in 0 .. MemSize - p] ==
        IF k = 0 THEN 0 ELSE Val[k - 1] + m[p + k - 1] * Weight[k - 1]
  IN  Val
Value(m, p, n) == Numbers(m, p)[n]

\* What a completed call promises of memory new and return value r.
Promise(c, old, new, r, chain) ==
  /\ \A j \in 0 .. c.n - 1 : Digit(c, old, j, new[c.rp + j], chain[j], chain[j + 1])
  /\ Ends(c, chain, r)
  /\ \A a \in Addr \ Region(c.rp, c.n) : new[a] = old[a]

\* The result of a completed call as whole numbers, with the value returned.
ExactResult(c, old, new, ret) ==
  LET r == Value(new, c.rp, c.n)
      r0 == Value(old, c.rp, c.n)
      u == Value(old, c.up, c.n)
      v == IF c.op \in TwoVectorOps THEN Value(old, c.vp, c.m) ELSE c.v
      top == ret * Weight[c.n]
  IN  /\ c.op \in {"add_n", "add", "add_1"} => r + top = u + v
      /\ c.op \in {"sub_n", "sub", "sub_1"} => r - top = u - v
      /\ c.op \in {"mul_1", "lshift"} => r + top = u * v
      /\ c.op = "addmul_1" => r + top = r0 + u * v
      /\ c.op = "submul_1" => r - top = r0 - u * v
      /\ c.op = "com_n" => r + u = Weight[c.n] - 1
      /\ c.op = "neg_n" => r - top = 0 - u
      /\ c.op \in {"copyi", "copyd"} => r = u
      /\ c.op = "rshift" => r * B + ret = u * (B \div v)

============================================================================
