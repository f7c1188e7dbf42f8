----------------------------- MODULE MpzBitwise -----------------------------
(***************************************************************************)
(* The bit operations on the blocks of MpzHeap: mpz_and, mpz_ior, mpz_xor, *)
(* mpz_com, mpz_setbit, mpz_clrbit and mpz_combit.                         *)
(*                                                                         *)
(* A number is a sign and a magnitude, and behaves as if it were written   *)
(* in two's complement without end: of a negative operand the functions    *)
(* take magnitude - 1, which has the complements of its bits.              *)
(***************************************************************************)
EXTENDS MpzHeap

\* The limb operations, on numbers of any length.
And(x, y) == From(x, y, Calculator!BitBy(Calculator!BitAnd, x, y))
Ior(x, y) == From(x, y, Calculator!BitBy(Calculator!BitOr, x, y))
Xor(x, y) == From(x, y, Calculator!BitBy(Calculator!BitXor, x, y))
AndNot(x, y) == From(x, y, x - And(x, y))

MinOf(x, y) == IF x < y THEN x ELSE y

----------------------------------------------------------------------------
(* mpz_and, mpz_ior, mpz_xor.                                              *)

BitFn == {"and", "ior", "xor"}

\* Both operands are positive, both negative, or one of each; then they are
\* exchanged so that the second is the negative one.
First == IF Size(c.u) < 0 /\ Size(c.v) >= 0 THEN c.v ELSE c.u
Second == IF Size(c.u) < 0 /\ Size(c.v) >= 0 THEN c.u ELSE c.v
SignsOf(us, vs) == IF us < 0 THEN "--" ELSE IF vs < 0 THEN "+-" ELSE "++"

\* The limbs of a negative operand that are copied, less one: all, but of two
\* negative operands of mpz_ior only those both have.
Copied(x) ==
  IF c.fn = "ior" /\ Size(First) < 0 THEN MinOf(Abs(Size(First)), Abs(Size(Second)))
  ELSE Abs(Size(x))

\* A copy of x, less one modulo its limbs: mpn_sub_1.
LessOne(x) ==
  LET n == Copied(x)
      u == Read(var[x].d, n)
  IN  Filled(Fresh(n), n, From(u, u, (u + Base(n) - 1) % Base(n)))

BitCopy ==
  /\ At("enter", BitFn)
  /\ LET saved == IF Size(First) < 0 THEN With(heap, CopyU, LessOne(First)) ELSE heap
     IN  heap' = IF Size(Second) < 0 THEN With(saved, CopyV, LessOne(Second)) ELSE saved
  /\ loc' = Notes(Signed(Size(First) < 0, Copied(First)), Signed(Size(Second) < 0, Copied(Second)),
                  IF Size(First) < 0 THEN CopyU ELSE var[First].d,
                  IF Size(Second) < 0 THEN CopyV ELSE var[Second].d, None, None)
  /\ UNCHANGED var
  /\ Goto("room")

\* The limbs of the result before the addition of one that ends some cases: of
\* the longer operand, or as many as are not zero, where that must be found out.
Na == Abs(loc.us)
Nb == Abs(loc.vs)
UValue == Read(loc.up, Na)
VValue == Read(loc.vp, Nb)
Signs == SignsOf(loc.us, loc.vs)
Most == MaxOf(Na, Nb)

ResultLimbs ==
  LET a == UValue
      b == VValue
      nb == LessTop(Nb, b)
  IN  CASE c.fn = "and" /\ Signs = "++" -> Normalized(MinOf(Na, Nb), And(a, b))
        [] c.fn = "and" /\ Signs = "+-" -> IF Na > Nb THEN Na ELSE Normalized(Na, AndNot(a, b))
        [] c.fn = "ior" /\ Signs = "--" -> Normalized(Na, And(a, b))
        [] c.fn = "ior" /\ Signs = "+-" -> IF Na >= nb THEN Normalized(nb, AndNot(b, a)) ELSE nb
        [] OTHER -> Most

\* The limbs the destination must have room for when the result has n before that
\* addition.  Where a carry is possible one
\* more; mpz_ior ends with an addition, too, but to less than it started from.
Room(n) ==
  CASE <<c.fn, Signs>> \in {<<"and", "--">>, <<"xor", "+-">>} -> 1 + Most
    [] <<c.fn, Signs>> = <<"ior", "--">> -> Na
    [] <<c.fn, Signs>> = <<"ior", "+-">> -> Nb
    [] OTHER -> n

\* "Don't re-read OP2_PTR.  It points to temporary space."
BitGrow ==
  /\ At("room", BitFn)
  /\ Grow(c.w, Room(ResultLimbs))
  /\ loc' = [loc EXCEPT !.ws = ResultLimbs,
                        !.up = IF @ = CopyU THEN @ ELSE var'[First].d,
                        !.vp = IF @ = CopyV THEN @ ELSE var'[Second].d,
                        !.wp = var'[c.w].d]
  /\ Goto("compute")

BitCompute ==
  /\ At("compute", BitFn)
  /\ LET a == UValue
         b == VValue
         n == loc.ws
         Gets(limbs, x, negative, size) ==
           /\ heap' = Without(Written(heap, loc.wp, limbs, x), {CopyU, CopyV})
           /\ SetSize(c.w, negative, size)
         \* One is added; the carry, if there is one, is one more limb.
         PlusOne(x, normalize) ==
           LET y == From(x, x, x + 1)
               m == LessTop(n + 1, y)
           IN  Gets(m, y, TRUE, IF normalize THEN Normalized(m, y) ELSE m)
     IN  CASE <<c.fn, Signs>> = <<"and", "++">> -> Gets(n, And(a, b), FALSE, n)
           [] <<c.fn, Signs>> = <<"and", "--">> -> PlusOne(Ior(a, b), FALSE)
           [] <<c.fn, Signs>> = <<"and", "+-">> -> Gets(n, AndNot(a, b), FALSE, n)
           [] <<c.fn, Signs>> = <<"ior", "++">> -> Gets(n, Ior(a, b), FALSE, n)
           [] <<c.fn, Signs>> = <<"ior", "--">> -> PlusOne(And(a, b), FALSE)
           [] <<c.fn, Signs>> = <<"ior", "+-">> -> PlusOne(AndNot(b, a), FALSE)
           [] <<c.fn, Signs>> = <<"xor", "+-">> -> PlusOne(Xor(a, b), TRUE)
           [] OTHER -> Gets(n, Xor(a, b), FALSE, Normalized(n, Xor(a, b)))
  /\ Finish

----------------------------------------------------------------------------
(* mpz_com.                                                                *)

ComGrow ==
  /\ At("enter", {"com"})
  /\ Grow(c.w, Abs(Size(c.u)) + (IF Size(c.u) >= 0 THEN 1 ELSE 0))
  /\ NoteOperand
  /\ Goto("compute")

\* ~x is -(x + 1), and of a negative number magnitude - 1.
Com ==
  /\ At("compute", {"com"})
  /\ LET n == Abs(loc.us)
         u == Read(loc.up, n)
         x == From(u, u, IF loc.us >= 0 THEN u + 1 ELSE u - 1)
         m == IF loc.us >= 0 THEN LessTop(n + 1, x) ELSE n
     IN  /\ heap' = Written(heap, loc.wp, m, x)
         /\ SetSize(c.w, loc.us >= 0, IF loc.us >= 0 THEN m ELSE LessTop(n, x))
  /\ Finish

----------------------------------------------------------------------------
(* mpz_setbit, mpz_clrbit and mpz_combit change their variable.            *)

LimbIndex == c.k \div LimbBits
BitValue == Two[c.k]
Value == Read(var[c.w].d, Abs(Size(c.w)))
LimbOf(x, i) == (x \div Base(i)) % B
HasBit(x) == (x \div BitValue) % 2 = 1

\* The lowest limb that is not zero: from the next one on, the limbs of a
\* negative number are the complements.
ZeroBound == CHOOSE i \in 0 .. Abs(Size(c.w)) - 1 :
               LimbOf(Value, i) # 0 /\ \A j \in 0 .. i - 1 : LimbOf(Value, j) = 0

\* Limb i of x replaced; a limb that becomes zero carries on to the next.
WithLimb(x, i, limb) == x + (limb - LimbOf(x, i)) * Base(i)

\* The variable gets number x in n limbs, growing if it must, of which the low
\* "size" count.
Becomes(x, n, size) ==
  LET old == var[c.w].d
      block == Fresh(MaxOf(heap[old].len, n))
  IN  \E p \in (Block \ DOMAIN heap) \cup {old} :
        /\ var[c.w].alloc >= n => p = old
        /\ heap' = With(Without(heap, {old}), p, Filled(block, n, x))
        /\ var' = [var EXCEPT ![c.w] = [alloc |-> MaxOf(@.alloc, n), d |-> p,
                                        size |-> Signed(Size(c.w) < 0, size)]]

Same == UNCHANGED <<heap, var>>
Limbs == Abs(Size(c.w))
Enough == MaxOf(Limbs, LimbIndex + 1)

\* The limb with the bit, less one: what it is in one's complement.
LimbLess == (LimbOf(Value, LimbIndex) - 1) % B
BitInLimb == Two[c.k % LimbBits]
LimbSet == IF (LimbLess \div BitInLimb) % 2 = 1 THEN LimbLess ELSE LimbLess + BitInLimb
LimbCleared == IF (LimbLess \div BitInLimb) % 2 = 1 THEN LimbLess - BitInLimb ELSE LimbLess

SetBitPositive ==
  /\ At("enter", {"setbit"}) /\ Size(c.w) >= 0
  /\ IF HasBit(Value) THEN Same ELSE Becomes(Value + BitValue, Enough, Enough)
  /\ Finish

\* Of a negative number the bit is cleared: above the lowest limb that is not
\* zero in the magnitude, in that limb before one is added, below it by a borrow.
SetBitNegative ==
  /\ At("enter", {"setbit"}) /\ Size(c.w) < 0
  /\ LET less == Value - BitValue
     IN  CASE LimbIndex > ZeroBound ->
                IF HasBit(Value) THEN Becomes(less, Limbs, Normalized(Limbs, less)) ELSE Same
           [] LimbIndex = ZeroBound ->
                Becomes(WithLimb(Value, LimbIndex, LimbCleared + 1), Limbs, Limbs)
           [] OTHER -> Becomes(less, Limbs, LessTop(Limbs, less))
  /\ Finish

ClrBitPositive ==
  /\ At("enter", {"clrbit"}) /\ Size(c.w) >= 0
  /\ LET less == Value - BitValue
     IN  IF HasBit(Value) THEN Becomes(less, Limbs, Normalized(Limbs, less)) ELSE Same
  /\ Finish

\* In that limb the addition can carry, out of the number too.
ClrBitNegative ==
  /\ At("enter", {"clrbit"}) /\ Size(c.w) < 0
  /\ LET x == WithLimb(Value, LimbIndex, LimbSet + 1)
         n == LessTop(Limbs + 1, x)
     IN  CASE LimbIndex > ZeroBound ->
                IF HasBit(Value) THEN Same ELSE Becomes(Value + BitValue, Enough, Enough)
           [] LimbIndex = ZeroBound -> Becomes(x, n, n)
           [] OTHER -> Same
  /\ Finish

\* mpz_combit makes room for the bit, and in a negative number looks whether a
\* lower limb is not zero to know if its limb is in two's or one's complement.
ComBit ==
  /\ At("enter", {"combit"})
  /\ LET twos == (B - LimbOf(Value, LimbIndex)) % B
         limb == IF Value % Base(LimbIndex) # 0 THEN (twos + B - 1) % B ELSE twos
         Gets(x, n) == Becomes(x, n, Normalized(n, x))
     IN  IF Size(c.w) >= 0
         THEN Gets(IF HasBit(Value) THEN Value - BitValue ELSE Value + BitValue, Enough)
         ELSE IF (limb \div BitInLimb) % 2 = 1 THEN Gets(Value + BitValue, Enough + 1)
         ELSE Gets(Value - BitValue, Enough)
  /\ Finish

BitStep ==
  \/ BitCopy \/ BitGrow \/ BitCompute
  \/ ComGrow \/ Com
  \/ SetBitPositive \/ SetBitNegative \/ ClrBitPositive \/ ClrBitNegative \/ ComBit

=============================================================================
