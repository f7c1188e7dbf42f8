------------------------------ MODULE MpzShift ------------------------------
(***************************************************************************)
(* Products and divisions by powers of two on the blocks of MpzHeap:       *)
(* mpz_mul_2exp, mpz_tdiv_q_2exp, mpz_tdiv_r_2exp, mpz_[cf]div_q_2exp      *)
(* (cfdiv_q_2exp.c), mpz_[cf]div_r_2exp (cfdiv_r_2exp.c), and mpz_realloc2.*)
(***************************************************************************)
EXTENDS MpzHeap

\* A count of bits is limbs, and bits within a limb.
LimbCnt == c.k \div LimbBits
InLimb == Two[c.k % LimbBits]
Power == Two[c.k]

\* Limbs i and up, and the limbs below i, of x.
High(x, i) == From(x, x, x \div Base(i))
Low(x, i) == From(x, x, x % Base(i))
LimbAt(x, i) == Low(High(x, i), 1)

Operand == Read(loc.up, Abs(loc.us))

\* The result is n limbs of x, of which the low "size" count.
Results(n, x, negative, size) ==
  /\ heap' = Written(heap, loc.wp, n, x)
  /\ SetSize(c.w, negative, size)
  /\ Finish

ResultsZero ==
  /\ SetSize(c.w, FALSE, 0)
  /\ UNCHANGED heap
  /\ Finish

----------------------------------------------------------------------------
(* mpz_mul_2exp, mpz_tdiv_q_2exp.                                          *)

Mul2expZero == At("enter", {"mul_2exp"}) /\ Size(c.u) = 0 /\ ResultsZero

Mul2expGrow ==
  /\ At("enter", {"mul_2exp"})
  /\ Size(c.u) # 0
  /\ Grow(c.w, Abs(Size(c.u)) + LimbCnt + 1)
  /\ NoteOperand
  /\ Goto("compute")

\* "Do it here and not before calling mpn_lshift, not to lose for U == W."
Mul2exp ==
  /\ At("compute", {"mul_2exp"})
  /\ LET n == Abs(loc.us) + LimbCnt
         x == From(Operand, Operand, Operand * Power)
         size == LessTop(n + 1, x)
     IN  Results(size, x, loc.us < 0, size)

TdivQ2expSmall ==
  At("enter", {"tdiv_q_2exp"}) /\ Abs(Size(c.u)) <= LimbCnt /\ ResultsZero

TdivQ2expGrow ==
  /\ At("enter", {"tdiv_q_2exp"})
  /\ Abs(Size(c.u)) > LimbCnt
  /\ Grow(c.w, Abs(Size(c.u)) - LimbCnt)
  /\ NoteOperand
  /\ Goto("compute")

TdivQ2exp ==
  /\ At("compute", {"tdiv_q_2exp"})
  /\ LET n == Abs(loc.us) - LimbCnt
         x == From(Operand, Operand, Operand \div Power)
     IN  Results(n, x, loc.us < 0, LessTop(n, x))

----------------------------------------------------------------------------
(* mpz_tdiv_r_2exp.  The top limb of the result is stored before the rest  *)
(* is copied.                                                              *)

\* What is left of the limb the power is in.
Partial(x) == From(x, x, LimbAt(x, LimbCnt) % InLimb)

TdivR2expGrow ==
  /\ At("enter", {"tdiv_r_2exp"})
  /\ LET n == Abs(Size(c.u))
         u == Read(var[c.u].d, n)
         size == IF n <= LimbCnt THEN n
                 ELSE IF Partial(u) # 0 THEN LimbCnt + 1
                 ELSE Normalized(LimbCnt, Low(u, LimbCnt))
     IN  /\ Grow(c.w, size)
         /\ loc' = Notes(Size(c.u), size, var'[c.u].d, var'[c.u].d, var'[c.w].d, None)
  /\ Goto("compute")

TdivR2exp ==
  /\ At("compute", {"tdiv_r_2exp"})
  /\ LET n == loc.vs
         x == IF n = LimbCnt + 1
              THEN From(Operand, Operand, Operand % Power) ELSE Low(Operand, n)
     IN  Results(n, x, loc.us < 0, n)

----------------------------------------------------------------------------
(* mpz_cdiv_q_2exp and mpz_fdiv_q_2exp.                                    *)

\* Away from zero: the sign of the operand is that of the rounding.
Away(fns) == (Size(c.u) >= 0) = (c.fn \in fns)
UpFns == {"cdiv_q_2exp", "cdiv_r_2exp"}

CfdivQ2expSmall ==
  /\ At("enter", {"cdiv_q_2exp", "fdiv_q_2exp"})
  /\ Abs(Size(c.u)) <= LimbCnt
  /\ heap' = Written(heap, var[c.w].d, 1, 1)
  /\ SetSize(c.w, c.fn \notin UpFns, IF Size(c.u) = 0 \/ ~Away(UpFns) THEN 0 ELSE 1)
  /\ Finish

CfdivQ2expGrow ==
  /\ At("enter", {"cdiv_q_2exp", "fdiv_q_2exp"})
  /\ Abs(Size(c.u)) > LimbCnt
  /\ Grow(c.w, Abs(Size(c.u)) - LimbCnt + 1)
  /\ NoteOperand
  /\ Goto("compute")

\* The bits shifted out, and the limbs skipped, decide the rounding.
CfdivQ2exp ==
  /\ At("compute", {"cdiv_q_2exp", "fdiv_q_2exp"})
  /\ LET n == Abs(loc.us) - LimbCnt
         u == Operand
         round == (loc.us >= 0) = (c.fn \in UpFns) /\ (Low(u, LimbCnt) # 0 \/ Partial(u) # 0)
         shifted == From(u, u, u \div Power)
         size == IF c.k % LimbBits # 0 THEN LessTop(n, shifted) ELSE n
         x == From(u, u, shifted + 1)
     IN  IF round THEN Results(size + 1, x, loc.us < 0, LessTop(size + 1, x))
         ELSE Results(n, shifted, loc.us < 0, size)

----------------------------------------------------------------------------
(* mpz_cdiv_r_2exp and mpz_fdiv_r_2exp.                                    *)

CfdivR == {"cdiv_r_2exp", "fdiv_r_2exp"}
Covers == Abs(Size(c.u)) <= LimbCnt
LowIsZero == LET u == Read(var[c.u].d, Abs(Size(c.u)))
             IN  From(u, u, u % Power) = 0

\* Zero, a multiple of the power, or in place and small enough.
CfdivR2expZero ==
  /\ At("enter", CfdivR)
  /\ Size(c.u) = 0 \/ (Away(UpFns) /\ LowIsZero)
  /\ ResultsZero

CfdivR2expKeep ==
  /\ At("enter", CfdivR)
  /\ Size(c.u) # 0 /\ ~Away(UpFns) /\ c.w = c.u /\ Covers
  /\ UNCHANGED <<heap, var>>
  /\ Finish

\* "MPZ_REALLOC(w) below is only when w!=u", or the pointer is fetched again.
CfdivR2expGrow ==
  /\ At("enter", CfdivR)
  /\ Size(c.u) # 0
  /\ \/ ~Away(UpFns) /\ c.w # c.u
        /\ Grow(c.w, IF Covers THEN Abs(Size(c.u)) ELSE LimbCnt + 1)
     \/ ~Away(UpFns) /\ c.w = c.u /\ ~Covers /\ UNCHANGED <<heap, var>>
     \/ Away(UpFns) /\ ~LowIsZero /\ Grow(c.w, LimbCnt + 1)
  /\ NoteOperand
  /\ Goto("compute")

\* Toward zero the low part is taken; away from zero its complement, of the
\* other sign, over as many limbs as the power has.
CfdivR2exp ==
  /\ At("compute", CfdivR)
  /\ LET u == Operand
         away == (loc.us >= 0) = (c.fn \in UpFns)
         n == IF ~away /\ Abs(loc.us) <= LimbCnt THEN Abs(loc.us) ELSE LimbCnt + 1
         x == IF away
              THEN From(u, u, (Base(n) - (u % Base(n))) % Power)
              ELSE From(u, u, u % Power)
     IN  Results(n, x, (loc.us < 0) # away, Normalized(n, x))

----------------------------------------------------------------------------
\* mpz_realloc2.  The counts for which the rounding up wraps around are left out.
Realloc2 ==
  /\ At("enter", {"realloc2"})
  /\ Reallocate(c.w, MaxOf((c.k + LimbBits - 1) \div LimbBits, 1))
  /\ Finish

ShiftStep ==
  \/ Mul2expZero \/ Mul2expGrow \/ Mul2exp
  \/ TdivQ2expSmall \/ TdivQ2expGrow \/ TdivQ2exp
  \/ TdivR2expGrow \/ TdivR2exp
  \/ CfdivQ2expSmall \/ CfdivQ2expGrow \/ CfdivQ2exp
  \/ CfdivR2expZero \/ CfdivR2expKeep \/ CfdivR2expGrow \/ CfdivR2exp
  \/ Realloc2

=============================================================================
