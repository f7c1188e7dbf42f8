----------------------------- MODULE MpzMulAdd -----------------------------
(***************************************************************************)
(* Sums and products with a limb or into the destination, on the blocks of *)
(* MpzHeap: mpz_addmul and mpz_submul (aorsmul.c), mpz_addmul_ui and       *)
(* mpz_submul_ui (aorsmul_i.c), mpz_mul_ui and mpz_mul_si (mul_i.h),       *)
(* mpz_ui_sub; and mpz_abs and mpz_set_si.                                 *)
(***************************************************************************)
EXTENDS MpzHeap

\* The operands of aorsmul: the one with more limbs first.
Longer == IF Abs(Size(c.v)) > Abs(Size(c.u)) THEN c.v ELSE c.u
Shorter == IF Abs(Size(c.v)) > Abs(Size(c.u)) THEN c.u ELSE c.v
AorsFns == {"addmul", "submul"}
AorsUiFns == {"addmul_ui", "submul_ui"}

SameValue == UNCHANGED <<heap, var>>
Top(x, n) == From(x, x, x \div Base(n))

----------------------------------------------------------------------------
(* mpz_addmul and mpz_submul.                                              *)

AorsmulZero ==
  /\ At("enter", AorsFns)
  /\ Size(c.u) = 0 \/ Size(c.v) = 0
  /\ SameValue
  /\ Finish

\* An operand of one limb: mpz_aorsmul_1, with the sign of that operand.
AorsmulLimb ==
  /\ At("enter", AorsFns)
  /\ Size(c.u) # 0 /\ Abs(Size(Shorter)) = 1
  /\ SameValue
  /\ LET sub == (c.fn = "submul") # (Size(Shorter) < 0)
     IN  todo' = << [c EXCEPT !.fn = IF sub THEN "submul_ui" ELSE "addmul_ui", !.u = Longer,
                              !.v = c.w, !.k = Read(var[Shorter].d, 1)] >> \o Tail(todo)
  /\ UNCHANGED <<pc, loc, ret>>

AorsmulGrow ==
  /\ At("enter", AorsFns)
  /\ Abs(Size(Shorter)) > 1
  /\ Grow(c.w, MaxOf(Abs(Size(c.w)), Abs(Size(c.u)) + Abs(Size(c.v))) + 1)
  /\ loc' = Notes(Size(Longer), Size(Shorter), var'[Longer].d, var'[Shorter].d, var'[c.w].d, None)
  /\ Goto("compute")

\* The product goes to the destination if that is zero, or else to temporary
\* memory; the destination keeps its sign unless the difference changes it.
Aorsmul ==
  /\ At("compute", AorsFns)
  /\ LET u == Read(loc.up, Abs(loc.us))
         v == Read(loc.vp, Abs(loc.vs))
         n == Abs(Size(c.w))
         w == Read(loc.wp, n)
         m == Abs(loc.us) + Abs(loc.vs)
         product == IF n = 0 /\ loc.wp \in {loc.up, loc.vp} THEN Junk ELSE From(u, v, u * v)
         most == MaxOf(n, LessTop(m, product))
         sub == (c.fn = "submul") # OppositeSigns(loc.us, loc.vs)
         sum == From(w, product, w + product)
         diff == From(w, product, Abs(w - product))
         less == From(w, product, w < product) = TRUE
     IN  IF n = 0
         THEN /\ heap' = Written(heap, loc.wp, m, product)
              /\ SetSize(c.w, sub, LessTop(m, product))
         ELSE IF sub = (Size(c.w) < 0)
         THEN /\ heap' = Written(heap, loc.wp, most + 1, sum)
              /\ SetSize(c.w, Size(c.w) < 0, LessTop(most + 1, sum))
         ELSE /\ heap' = Written(heap, loc.wp, most, diff)
              /\ SetSize(c.w, (Size(c.w) < 0) # less, Normalized(most, diff))
  /\ Finish

----------------------------------------------------------------------------
(* mpz_addmul_ui and mpz_submul_ui: mpz_aorsmul_1.                         *)

Aorsmul1Zero ==
  /\ At("enter", AorsUiFns)
  /\ Size(c.u) = 0 \/ c.k = 0
  /\ SameValue
  /\ Finish

Aorsmul1Grow ==
  /\ At("enter", AorsUiFns)
  /\ Size(c.u) # 0 /\ c.k # 0
  /\ Grow(c.w, MaxOf(Abs(Size(c.w)), Abs(Size(c.u))) + 1)
  /\ NoteOperand
  /\ Goto("compute")

\* The difference of n limbs of w and x * k, less than zero: mpn_submul_1 and
\* mpn_sub_1 leave it modulo n limbs and a borrow, which are negated together.
Negated(n, w, x) ==
  LET low == (w - x * c.k) % Base(n)
      borrow == -((w - x * c.k) \div Base(n))
  IN  (borrow - 1) * Base(n) + (Base(n) - 1 - low) + 1

\* Mutant: the -1 that remains of the borrow is not applied.
BeyondKeepsOne(n, w, x) ==
  LET low == (w - (x % Base(n)) * c.k) % Base(n)
      borrow == -((w - (x % Base(n)) * c.k) \div Base(n))
      carry == (borrow + (IF low = 0 THEN 1 ELSE 0) - 1) % B
      minus == IF carry = B - 1 THEN 1 ELSE 0
      high == (x \div Base(n)) * c.k + ((carry + minus) % B)
  IN  high * Base(n) + ((Base(n) - low) % Base(n))

\* The operand is longer than the destination's n limbs: the low limbs of the
\* difference are negated, and the limbs above are those of the product, with
\* the carry, in a limb: "that value always indicates a -1", applied at last.
Beyond(n, w, x) ==
  LET low == (w - (x % Base(n)) * c.k) % Base(n)
      borrow == -((w - (x % Base(n)) * c.k) \div Base(n))
      carry == (borrow + (IF low = 0 THEN 1 ELSE 0) - 1) % B
      minus == IF carry = B - 1 THEN 1 ELSE 0
      high == (x \div Base(n)) * c.k + ((carry + minus) % B)
  IN  (high - minus) * Base(n) + ((Base(n) - low) % Base(n))

Aorsmul1 ==
  /\ At("compute", AorsUiFns)
  /\ LET m == Abs(loc.us)
         n == Abs(Size(c.w))
         most == MaxOf(m, n)
         x == Read(loc.up, m)
         w == Read(loc.wp, n)
         sub == (c.fn = "submul_ui") # OppositeSigns(loc.us, Size(c.w))
         Gets(y, flip, limbs, size) ==
           /\ heap' = Written(heap, loc.wp, limbs, y)
           /\ SetSize(c.w, (Size(c.w) < 0) # flip, size)
         Product == From(x, x, x * c.k)
         Sum == From(w, x, w + x * c.k)
         Difference == From(w, x, w - x * c.k)
     IN  IF n = 0
         THEN /\ heap' = Written(heap, loc.wp, m + 1, Product)
              /\ SetSize(c.w, (c.fn = "submul_ui") # (loc.us < 0), LessTop(m + 1, Product))
         ELSE IF ~sub THEN Gets(Sum, FALSE, most + 1, LessTop(most + 1, Sum))
         ELSE IF n < m
         THEN LET y == From(w, x, Beyond(n, w, x))
              IN  Gets(y, TRUE, most + 1, Normalized(most + 1, y))
         ELSE IF From(w, x, w < x * c.k) = TRUE
         THEN LET y == Negated(n, w, x) IN Gets(y, TRUE, most + 1, Normalized(most + 1, y))
         ELSE Gets(Difference, FALSE, most, Normalized(most, Difference))
  /\ Finish

----------------------------------------------------------------------------
(* mpz_mul_ui and mpz_mul_si, whose operand is -k.                         *)

MulUiZero ==
  /\ At("enter", {"mul_ui", "mul_si"})
  /\ Size(c.u) = 0 \/ c.k = 0
  /\ SetSize(c.w, FALSE, 0)
  /\ UNCHANGED heap
  /\ Finish

MulUiGrow ==
  /\ At("enter", {"mul_ui", "mul_si"})
  /\ Size(c.u) # 0 /\ c.k # 0
  /\ Grow(c.w, Abs(Size(c.u)) + 1)
  /\ NoteOperand
  /\ Goto("compute")

MulUi ==
  /\ At("compute", {"mul_ui", "mul_si"})
  /\ LET n == Abs(loc.us)
         u == Read(loc.up, n)
         x == From(u, u, u * c.k)
     IN  /\ heap' = Written(heap, loc.wp, n + 1, x)
         /\ SetSize(c.w, (loc.us < 0) # (c.fn = "mul_si"), LessTop(n + 1, x))
  /\ Finish

----------------------------------------------------------------------------
(* mpz_ui_sub: only operands of two limbs and more, or negative, need room.*)

UiSubGrow ==
  /\ At("enter", {"ui_sub"})
  /\ IF Size(c.u) > 1 THEN Grow(c.w, Size(c.u))
     ELSE IF Size(c.u) < 0 THEN Grow(c.w, -Size(c.u) + 1)
     ELSE SameValue
  /\ NoteOperand
  /\ Goto("compute")

UiSub ==
  /\ At("compute", {"ui_sub"})
  /\ LET n == Abs(loc.us)
         u == Read(loc.up, n)
         Gets(limbs, x, negative, size) ==
           /\ heap' = Written(heap, loc.wp, limbs, x)
           /\ SetSize(c.w, negative, size)
     IN  IF loc.us > 1
         THEN LET x == From(u, u, u - c.k) IN Gets(n, x, TRUE, LessTop(n, x))
         ELSE IF loc.us >= 0
         THEN LET x == From(u, u, Abs(c.k - u))
              IN  Gets(1, x, From(u, u, c.k < u) = TRUE, Normalized(1, x))
         ELSE LET x == From(u, u, u + c.k) IN Gets(n + 1, x, FALSE, LessTop(n + 1, x))
  /\ Finish

----------------------------------------------------------------------------
(* mpz_abs, and mpz_set_si of -k.                                          *)

AbsGrow ==
  /\ At("enter", {"abs"})
  /\ IF c.u = c.w THEN SameValue ELSE Grow(c.w, Abs(Size(c.u)))
  /\ NoteOperand
  /\ Goto("compute")

AbsCopy ==
  /\ At("compute", {"abs"})
  /\ LET n == Abs(loc.us)
     IN  /\ heap' = IF c.u = c.w THEN heap ELSE Written(heap, loc.wp, n, Read(loc.up, n))
         /\ SetSize(c.w, FALSE, n)
  /\ Finish

SetSi ==
  /\ At("enter", {"set_si"})
  /\ heap' = Written(heap, var[c.w].d, 1, c.k)
  /\ SetSize(c.w, c.k # 0, IF c.k = 0 THEN 0 ELSE 1)
  /\ Finish

MulAddStep ==
  \/ AorsmulZero \/ AorsmulLimb \/ AorsmulGrow \/ Aorsmul
  \/ Aorsmul1Zero \/ Aorsmul1Grow \/ Aorsmul1
  \/ MulUiZero \/ MulUiGrow \/ MulUi
  \/ UiSubGrow \/ UiSub
  \/ AbsGrow \/ AbsCopy \/ SetSi

=============================================================================
