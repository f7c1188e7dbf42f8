----------------------------- MODULE MpzDivide -----------------------------
(***************************************************************************)
(* The divisions that give a quotient or a remainder only, and those by an *)
(* unsigned long, on the blocks of MpzHeap: mpz_tdiv_q, mpz_tdiv_r,        *)
(* mpz_fdiv_q, mpz_cdiv_q, mpz_fdiv_r, mpz_cdiv_r, mpz_mod and the twelve  *)
(* functions mpz_[tfc]div_(q|r|qr)_ui and mpz_[tfc]div_ui.                 *)
(*                                                                         *)
(* An unsigned long is no larger than a limb.                              *)
(***************************************************************************)
EXTENDS MpzHeap

\* DIVIDE_BY_ZERO
DivideByZero ==
  /\ \/ At("enter", {"tdiv_q", "tdiv_r"}) /\ Size(c.v) = 0
     \/ At("enter", Calculator!DivUiFns) /\ c.k = 0
  /\ Goto("raised")
  /\ UNCHANGED <<heap, var, loc>>

LongEnough == Abs(Size(c.u)) >= Abs(Size(c.v))

----------------------------------------------------------------------------
(* mpz_tdiv_q and mpz_tdiv_r.                                              *)

TdivQSmall ==
  /\ At("enter", {"tdiv_q"})
  /\ Size(c.v) # 0 /\ ~LongEnough
  /\ SetSize(c.w, FALSE, 0)
  /\ UNCHANGED heap
  /\ Finish

TdivQGrow ==
  /\ At("enter", {"tdiv_q"})
  /\ Size(c.v) # 0 /\ LongEnough
  /\ Grow(c.w, Abs(Size(c.u)) - Abs(Size(c.v)) + 1)
  /\ loc' = OperandSizes
  /\ Goto("copy")

TdivQCopy == CopyOperands({"tdiv_q"})

\* mpn_tdiv_q
TdivQCompute ==
  /\ At("compute", {"tdiv_q"})
  /\ LET u == Read(loc.up, Abs(loc.us))
         v == Read(loc.vp, Abs(loc.vs))
         q == IF loc.wp \in {loc.up, loc.vp} THEN Junk ELSE From(u, v, u \div v)
     IN  /\ heap' = Without(Written(heap, loc.wp, QuotSize, q), {CopyU, CopyV})
         /\ SetSize(c.w, OppositeSigns(loc.us, loc.vs), LessTop(QuotSize, q))
  /\ Finish

TdivRGrow ==
  /\ At("enter", {"tdiv_r"})
  /\ Size(c.v) # 0
  /\ Grow(c.w, Abs(Size(c.v)))
  /\ loc' = OperandSizes
  /\ Goto(IF LongEnough THEN "copy" ELSE "quot")

TdivRSmall ==
  /\ At("quot", {"tdiv_r"})
  /\ IF c.u # c.w
     THEN LET n == Abs(loc.us)
          IN  /\ heap' = Written(heap, var[c.w].d, n, Read(var[c.u].d, n))
              /\ var' = [var EXCEPT ![c.w].size = Size(c.u)]
     ELSE UNCHANGED <<heap, var>>
  /\ Finish

TdivRCopy == CopyOperands({"tdiv_r"})

\* mpn_tdiv_qr, its quotient to temporary memory.
TdivRCompute ==
  /\ At("compute", {"tdiv_r"})
  /\ LET n == Abs(loc.vs)
         u == Read(loc.up, Abs(loc.us))
         v == Read(loc.vp, n)
         r == IF loc.wp \in {loc.up, loc.vp} THEN Junk ELSE From(u, v, u % v)
     IN  /\ heap' = Without(Written(heap, loc.wp, n, r), {CopyU, CopyV})
         /\ SetSize(c.w, loc.us < 0, Normalized(n, r))
  /\ Finish

----------------------------------------------------------------------------
(* The functions that round another way call those and correct the result. *)

\* The call, the corrections that follow it, and what is left to do after.
Then(steps) == todo' = steps \o Tail(todo) /\ UNCHANGED <<pc, loc, ret>>

\* A remainder in temporary memory, as long as the divisor.
RoundQ(fn, correct) ==
  /\ At("enter", {fn})
  /\ Then(<< [c EXCEPT !.fn = "tdiv_qr", !.r = Temp],
             [c EXCEPT !.fn = correct, !.r = Temp,
                       !.k = IF OppositeSigns(Size(c.u), Size(c.v)) THEN 1 ELSE 0] >>)
  /\ heap' = With(heap, CopyD, Fresh(Abs(Size(c.v))))
  /\ var' = [var EXCEPT ![Temp] = [alloc |-> Abs(Size(c.v)), size |-> 0, d |-> CopyD]]

FdivQ == RoundQ("fdiv_q", "floor_q")
CdivQ == RoundQ("cdiv_q", "ceiling_q")

CorrectQ ==
  /\ At("enter", {"floor_q", "ceiling_q"})
  /\ UNCHANGED <<heap, var>>
  /\ IF Size(c.r) # 0 /\ c.k = (IF c.fn = "floor_q" THEN 1 ELSE 0)
     THEN Then(<< [c EXCEPT !.fn = IF @ = "floor_q" THEN "sub_ui" ELSE "add_ui",
                            !.r = c.w, !.u = c.w, !.v = c.w, !.k = 1] >>)
     ELSE Finish

\* A divisor that is also the remainder is copied.
RoundR(fn, correct) ==
  /\ At("enter", {fn})
  /\ LET n == Abs(Size(c.v))
         divisor == IF c.v = c.w THEN Temp ELSE c.v
     IN  /\ Then(<< [c EXCEPT !.fn = "tdiv_r", !.v = divisor],
                    [c EXCEPT !.fn = correct, !.v = divisor,
                              !.k = IF Size(c.v) < 0 THEN 1 ELSE 0] >>)
         /\ IF c.v = c.w
            THEN /\ heap' = With(heap, CopyD, Filled(Fresh(n), n, Read(var[c.v].d, n)))
                 /\ var' = [var EXCEPT ![Temp] = [alloc |-> n, size |-> Size(c.v), d |-> CopyD]]
            ELSE UNCHANGED <<heap, var>>

FdivR == RoundR("fdiv_r", "floor_r")
CdivR == RoundR("cdiv_r", "ceiling_r")
Mod == RoundR("mod", "least_r")

\* The sign of the dividend is read again: it may have become the remainder,
\* which has its sign unless it is zero.
CorrectR ==
  /\ At("enter", {"floor_r", "ceiling_r", "least_r"})
  /\ UNCHANGED <<heap, var>>
  /\ LET opposite == (c.k = 1) # (Size(c.u) < 0)
         Aors(fn) == Then(<< [c EXCEPT !.fn = fn, !.u = c.w, !.k = 0] >>)
     IN  CASE Size(c.w) = 0 -> Finish
           [] Size(c.w) # 0 /\ c.fn = "floor_r" -> IF opposite THEN Aors("add") ELSE Finish
           [] Size(c.w) # 0 /\ c.fn = "ceiling_r" -> IF opposite THEN Finish ELSE Aors("sub")
           [] Size(c.w) # 0 /\ c.fn = "least_r" ->
                IF Size(c.u) >= 0 THEN Finish ELSE Aors(IF Size(c.v) < 0 THEN "sub" ELSE "add")

----------------------------------------------------------------------------
(* Divisions by an unsigned long.                                          *)

HasQuot(fn) == fn \in Calculator!QuotUiFns \cup Calculator!QuotRemUiFns
HasRem(fn) == fn \in Calculator!RemUiFns \cup Calculator!QuotRemUiFns

UiOfZero ==
  /\ At("enter", Calculator!DivUiFns)
  /\ c.k # 0 /\ Size(c.u) = 0
  /\ var' = IF c.fn \in Calculator!OnlyUiFns THEN var
            ELSE [var EXCEPT ![c.w].size = 0, ![c.r].size = 0]
  /\ UNCHANGED heap
  /\ Finish

UiDivGrow ==
  /\ At("enter", Calculator!DivUiFns)
  /\ c.k # 0 /\ Size(c.u) # 0
  /\ IF HasQuot(c.fn) THEN Grow(c.w, Abs(Size(c.u))) ELSE UNCHANGED <<heap, var>>
  /\ NoteOperand
  /\ Goto("compute")

\* mpn_divrem_1 in place, or mpn_mod_1; "away" is the sign of the dividend for
\* which the quotient is rounded away from zero, "sign" that of the remainder.
UiDiv(fn, away, sign) ==
  /\ At("compute", {fn})
  /\ LET n == Abs(loc.us)
         u == Read(loc.up, n)
         down == From(u, u, u % c.k)
         inexact == down \notin {0, Junk} /\ away
         rem == IF inexact THEN c.k - down ELSE down
         quot == From(u, u, u \div c.k + (IF inexact THEN 1 ELSE 0))
         r == IF HasQuot(fn) THEN c.r ELSE c.w
         divided == IF HasQuot(fn) THEN Written(heap, loc.wp, n, quot) ELSE heap
     IN  /\ heap' = IF HasRem(fn) /\ rem # 0 THEN Written(divided, var[r].d, 1, rem) ELSE divided
         /\ var' = [x \in DOMAIN var |-> [var[x] EXCEPT !.size =
              IF HasQuot(fn) /\ x = c.w THEN Signed(loc.us < 0, LessTop(n, quot))
              ELSE IF HasRem(fn) /\ x = r THEN (IF rem = 0 THEN 0 ELSE sign) ELSE @]]
         /\ FinishWith(rem)

SignOf(size) == IF size < 0 THEN -1 ELSE 1

TdivQUi == UiDiv("tdiv_q_ui", FALSE, SignOf(loc.us))
TdivRUi == UiDiv("tdiv_r_ui", FALSE, SignOf(loc.us))
TdivQrUi == UiDiv("tdiv_qr_ui", FALSE, SignOf(loc.us))
TdivUi == UiDiv("tdiv_ui", FALSE, SignOf(loc.us))
FdivQUi == UiDiv("fdiv_q_ui", loc.us < 0, 1)
FdivRUi == UiDiv("fdiv_r_ui", loc.us < 0, 1)
FdivQrUi == UiDiv("fdiv_qr_ui", loc.us < 0, 1)
FdivUi == UiDiv("fdiv_ui", loc.us < 0, 1)
CdivQUi == UiDiv("cdiv_q_ui", loc.us >= 0, -1)
CdivRUi == UiDiv("cdiv_r_ui", loc.us >= 0, -1)
CdivQrUi == UiDiv("cdiv_qr_ui", loc.us >= 0, -1)
CdivUi == UiDiv("cdiv_ui", loc.us >= 0, -1)

DivideStep ==
  \/ DivideByZero
  \/ TdivQSmall \/ TdivQGrow \/ TdivQCopy \/ TdivQCompute
  \/ TdivRGrow \/ TdivRSmall \/ TdivRCopy \/ TdivRCompute
  \/ FdivQ \/ CdivQ \/ CorrectQ
  \/ FdivR \/ CdivR \/ Mod \/ CorrectR
  \/ UiOfZero \/ UiDivGrow
  \/ TdivQUi \/ TdivRUi \/ TdivQrUi \/ TdivUi
  \/ FdivQUi \/ FdivRUi \/ FdivQrUi \/ FdivUi
  \/ CdivQUi \/ CdivRUi \/ CdivQrUi \/ CdivUi

=============================================================================
