------------------------------ MODULE MpzHeap ------------------------------
(***************************************************************************)
(* The mpz functions on the memory their variables live in: mpz_add and    *)
(* mpz_sub (aors.h), mpz_add_ui and mpz_sub_ui (aors_ui.h), mpz_mul,       *)
(* mpz_tdiv_qr, mpz_fdiv_qr, mpz_cdiv_qr, mpz_set, mpz_neg, mpz_swap,      *)
(* mpz_set_ui and _mpz_realloc.                                            *)
(*                                                                         *)
(* A variable is a pointer to a block of limbs, its length, and a size     *)
(* whose sign is that of the number.  A block may move when it grows, any  *)
(* of a function's variables may be the same, and the mpn functions        *)
(* compute nothing useful when source and result overlap.                  *)
(*                                                                         *)
(* Of a block, its length is kept, how many of its low limbs have been     *)
(* written, and the number in them.                                        *)
(***************************************************************************)
EXTENDS Integers, Sequences, FiniteSets

CONSTANTS B, LimbBits,          \* the limb base, and its bits
          Var, Fns,
          Temp,                 \* temp_divisor of mpz_fdiv_qr and mpz_cdiv_qr
          Block,                \* what the allocation function returns: addresses
          CopyU, CopyV, CopyD,  \* TMP_ALLOC: copies of operands and of a divisor
          None, Junk,           \* no block; limbs nobody has written
          Karatsuba,            \* MUL_KARATSUBA_THRESHOLD
          Numbers,              \* bound: the numbers the variables hold at first
          MaxSize, MaxAlloc,    \* bound: limbs of a number, of a block, at first
          MaxBits,              \* bound: bit counts and bit indices
          MaxCalls              \* bound: calls

\* 2 ^ n and, for a row of n limbs, B ^ n.
Two[n \in Nat] == IF n = 0 THEN 1 ELSE 2 * Two[n - 1]
Base(n) == Two[LimbBits * n]

ASSUME HeapAssumption ==
  /\ LimbBits \in Nat \ {0} /\ B = Base(1)
  /\ Temp \notin Var
  /\ \E f \in [Var -> Block] : \A x, y \in Var : x # y => f[x] # f[y]
  /\ Cardinality({CopyU, CopyV, CopyD, None}) = 4
  /\ {CopyU, CopyV, CopyD, None} \cap Block = {}
  /\ Junk \notin Int
  /\ {Karatsuba, MaxSize, MaxAlloc, MaxBits, MaxCalls} \subseteq Nat
  /\ MaxSize <= MaxAlloc /\ MaxAlloc >= 1
  /\ Numbers \subseteq -(Base(MaxSize)) + 1 .. Base(MaxSize) - 1

VARIABLES heap,   \* the blocks allocated: [len, known, num]
          var,    \* the variables: [alloc, size, d]
          pc,     \* where the running function is
          todo,   \* the calls to make, the running function first
          loc,    \* its locals: sizes and pointers
          call,   \* the call the program made
          ret,    \* what the last function returned: 0 unless it returns a limb
          entry,  \* history: the values when it was made
          calls   \* calls made

vars == <<heap, var, pc, todo, loc, call, ret, entry, calls>>

Copy == {CopyU, CopyV, CopyD}
NoVar == [alloc |-> 0, size |-> 0, d |-> None]

\* What a function notes of its operands and its destination: signed sizes,
\* pointers, and the block to free.
Notes(us, vs, up, vp, wp, free) ==
  [us |-> us, vs |-> vs, ws |-> 0, up |-> up, vp |-> vp, wp |-> wp, rp |-> None, free |-> free]
NoLoc == Notes(0, 0, None, None, None, None)

Abs(x) == IF x < 0 THEN -x ELSE x
MaxOf(x, y) == IF x < y THEN y ELSE x
OppositeSigns(x, y) == (x < 0) # (y < 0)
Signed(negative, x) == IF negative THEN -x ELSE x

----------------------------------------------------------------------------
(* Limbs in blocks.                                                        *)

\* The number in the low n limbs of block p.
Read(p, n) ==
  IF p \in DOMAIN heap /\ n <= heap[p].known THEN heap[p].num % Base(n) ELSE Junk

Fresh(len) == [len |-> len, known |-> 0, num |-> 0]

\* A block after n limbs of the number x have been written to it: a write
\* beyond its end spoils it.
Filled(b, n, x) ==
  IF n <= b.len /\ x # Junk THEN [len |-> b.len, known |-> n, num |-> x % Base(n)]
  ELSE Fresh(b.len)

\* Heap h after n limbs of x have been written to p, and with a block b put at
\* p, and without block p.
Written(h, p, n, x) == [q \in DOMAIN h |-> IF q = p THEN Filled(h[q], n, x) ELSE h[q]]
With(h, p, b) == [q \in DOMAIN h \cup {p} |-> IF q = p THEN b ELSE h[q]]
Without(h, ps) == [q \in DOMAIN h \ ps |-> h[q]]

\* What is computed from u and v, neither of which may be junk.
From(u, v, x) == IF u = Junk \/ v = Junk THEN Junk ELSE x

\* n, or n - 1 if the top one of the n limbs of x is zero.
LessTop(n, x) == IF x # Junk /\ x < Base(n - 1) THEN n - 1 ELSE n

\* MPN_NORMALIZE: limbs are taken off from the top, of n, while they are zero.
Normalized(n, x) ==
  IF x = Junk THEN n
  ELSE CHOOSE k \in 0 .. n : (k = n \/ x < Base(k)) /\ (k = 0 \/ ~ (x < Base(k - 1)))

\* The integer variable x holds.
ValueOf(x) ==
  LET m == Read(var[x].d, Abs(var[x].size))
  IN  IF m = Junk THEN Junk ELSE Signed(var[x].size < 0, m)
Values == [x \in Var |-> ValueOf(x)]

----------------------------------------------------------------------------
(* Allocation.                                                             *)

\* _mpz_realloc: the block may move, to a place that is free; a number that
\* does not fit any more becomes zero.
Reallocate(x, len) ==
  LET old == var[x].d
      kept == IF heap[old].known < len THEN heap[old].known ELSE len
  IN  \E p \in (Block \ DOMAIN heap) \cup {old} :
        /\ heap' = With(Without(heap, {old}), p,
                        [len |-> len, known |-> kept, num |-> heap[old].num % Base(kept)])
        /\ var' = [var EXCEPT ![x] =
             [alloc |-> len, size |-> IF Abs(@.size) > len THEN 0 ELSE @.size, d |-> p]]

\* MPZ_REALLOC
Grow(x, len) ==
  IF var[x].alloc < len THEN Reallocate(x, len) ELSE UNCHANGED <<heap, var>>

----------------------------------------------------------------------------
(* Calls.  A function that calls others puts them on todo.                 *)

Calculator == INSTANCE MpzCalc WITH
  val <- IF pc \in {"idle", "done", "raised"} THEN Values ELSE entry,
  phase <- CASE pc = "done" -> "returned" [] pc \in {"idle", "raised"} -> pc [] OTHER -> "called"

Calls ==
  {c \in [fn : Fns, w : Var, r : Var, u : Var, v : Var, k : 0 .. MaxOf(MaxBits, 3)] :
     Calculator!Legal(c)}

Place == CHOOSE f \in [Var -> Block] : \A x, y \in Var : x # y => f[x] # f[y]

\* Any of the numbers, in blocks that just hold them and in larger
\* ones.
Sizes0(value) == [x \in Var |-> Normalized(MaxSize, Abs(value[x]))]
Lengths0(size, large) == [x \in Var |-> IF x \in large THEN MaxAlloc ELSE MaxOf(size[x], 1)]
Blocks0(value, size, len) ==
  [p \in {Place[x] : x \in Var} |->
     LET x == CHOOSE y \in Var : Place[y] = p
     IN  [len |-> len[x], known |-> size[x], num |-> Abs(value[x])]]
Vars0(value, size, len) ==
  [x \in Var \cup {Temp} |->
     IF x = Temp THEN NoVar
     ELSE [alloc |-> len[x], size |-> Signed(value[x] < 0, size[x]), d |-> Place[x]]]

Init ==
  /\ \E value \in [Var -> Numbers], large \in SUBSET Var :
       LET size == Sizes0(value)
           len == Lengths0(size, large)
       IN  /\ heap = Blocks0(value, size, len)
           /\ var = Vars0(value, size, len)
           /\ entry = value
  /\ pc = "idle"
  /\ todo = <<>>
  /\ loc = NoLoc
  /\ call = Calculator!NoCall
  /\ ret = 0
  /\ calls = 0

Invoke ==
  /\ pc = "idle"
  /\ calls < MaxCalls
  /\ call' \in Calls
  /\ todo' = <<call'>>
  /\ pc' = "enter"
  /\ entry' = Values
  /\ ret' = 0
  /\ calls' = calls + 1
  /\ UNCHANGED <<heap, var, loc>>

c == Head(todo)
At(place, fns) == pc = place /\ c.fn \in fns /\ UNCHANGED <<call, entry, calls>>

Goto(place) == pc' = place /\ UNCHANGED <<todo, ret>>

\* The running function returns, a value or nothing.
FinishWith(value) ==
  /\ todo' = Tail(todo)
  /\ pc' = IF Len(todo) = 1 THEN "done" ELSE "enter"
  /\ loc' = NoLoc
  /\ ret' = value
Finish == FinishWith(0)

\* ... to the program; TMP_FREE of temp_divisor.
Return ==
  /\ pc = "done"
  /\ pc' = "idle"
  /\ heap' = Without(heap, {CopyD})
  /\ var' = [var EXCEPT ![Temp] = NoVar]
  /\ call' = Calculator!NoCall
  /\ entry' = Values
  /\ UNCHANGED <<todo, loc, ret, calls>>

Size(x) == var[x].size

OperandSizes == Notes(Size(c.u), Size(c.v), None, None, None, None)
NoteOperand == loc' = Notes(Size(c.u), 0, var'[c.u].d, None, var'[c.w].d, None)

\* Variable x gets a size, negative or not.
SetSize(x, negative, size) == var' = [var EXCEPT ![x].size = Signed(negative, size)]

----------------------------------------------------------------------------
(* mpz_add and mpz_sub.                                                    *)

\* The operands: the one with more limbs first, and the second of mpz_sub
\* with the other sign.
AorsLoc(f) ==
  LET vs == IF c.fn = "sub" THEN -Size(c.v) ELSE Size(c.v)
      swap == Abs(Size(c.u)) < Abs(vs)
  IN  Notes(IF swap THEN vs ELSE Size(c.u), IF swap THEN Size(c.u) ELSE vs,
            f[IF swap THEN c.v ELSE c.u].d, f[IF swap THEN c.u ELSE c.v].d, f[c.w].d, None)

\* Mutant: the pointers are taken before.
AorsGrowEarly ==
  /\ At("enter", {"add", "sub"})
  /\ Grow(c.w, MaxOf(Abs(Size(c.u)), Abs(Size(c.v))) + 1)
  /\ loc' = AorsLoc(var)
  /\ Goto("compute")

\* "These must be after realloc (u or v may be the same as w)."
AorsGrow ==
  /\ At("enter", {"add", "sub"})
  /\ Grow(c.w, MaxOf(Abs(Size(c.u)), Abs(Size(c.v))) + 1)
  /\ loc' = AorsLoc(var')
  /\ Goto("compute")

\* mpn_add, or mpn_sub or mpn_sub_n of the smaller number from the larger.
AorsAdd ==
  /\ At("compute", {"add", "sub"})
  /\ ~OppositeSigns(loc.us, loc.vs)
  /\ LET n == Abs(loc.us)
         u == Read(loc.up, n)
         v == Read(loc.vp, Abs(loc.vs))
         sum == From(u, v, u + v)
     IN  /\ heap' = Written(heap, loc.wp, n + 1, sum)
         /\ SetSize(c.w, loc.us < 0, LessTop(n + 1, sum))
  /\ Finish

AorsSub ==
  /\ At("compute", {"add", "sub"})
  /\ OppositeSigns(loc.us, loc.vs)
  /\ LET n == Abs(loc.us)
         u == Read(loc.up, n)
         v == Read(loc.vp, Abs(loc.vs))
         diff == From(u, v, Abs(u - v))
         negative == IF From(u, v, u < v) = TRUE THEN loc.us >= 0 ELSE loc.us < 0
     IN  /\ heap' = Written(heap, loc.wp, n, diff)
         /\ SetSize(c.w, negative, Normalized(n, diff))
  /\ Finish

----------------------------------------------------------------------------
(* mpz_add_ui and mpz_sub_ui.                                              *)

UiGrow ==
  /\ At("enter", {"add_ui", "sub_ui"})
  /\ Grow(c.w, Abs(Size(c.u)) + 1)
  /\ NoteOperand
  /\ Goto("compute")

\* The sign the limb operand has in the sum.
UiNegative == c.fn = "sub_ui"

UiCompute ==
  /\ At("compute", {"add_ui", "sub_ui"})
  /\ LET n == Abs(loc.us)
         u == Read(loc.up, n)
         Becomes(limbs, x, negative, size) ==
           /\ heap' = Written(heap, loc.wp, limbs, x)
           /\ SetSize(c.w, negative, size)
     IN  IF n = 0 THEN Becomes(1, c.k, UiNegative, IF c.k = 0 THEN 0 ELSE 1)
         ELSE IF (loc.us < 0) = UiNegative
         THEN LET x == From(u, u, u + c.k)
              IN  Becomes(n + 1, x, UiNegative, LessTop(n + 1, x))
         ELSE IF n = 1 /\ From(u, u, u < c.k) = TRUE
         THEN Becomes(1, c.k - u, UiNegative, 1)
         ELSE LET x == From(u, u, u - c.k)
              IN  Becomes(n, x, ~UiNegative, LessTop(n, x))
  /\ Finish

----------------------------------------------------------------------------
(* mpz_mul.                                                                *)

MulSize == Abs(Size(c.u)) + Abs(Size(c.v))
MulLoc(f, up, vp, free) == Notes(Size(c.u), Size(c.v), up, vp, f[c.w].d, free)

MulZero ==
  /\ At("enter", {"mul"})
  /\ Size(c.u) = 0 \/ Size(c.v) = 0
  /\ SetSize(c.w, FALSE, 0)
  /\ UNCHANGED heap
  /\ Finish

\* mpn_mul_1 may overwrite its operand; mpn_mul_basecase may not, and is used
\* when the destination is neither operand.
MulByLimb == Abs(Size(c.v)) = 1
MulBasecase == MulSize <= Karatsuba /\ c.w \notin {c.u, c.v}

MulGrow ==
  /\ At("enter", {"mul"})
  /\ Size(c.u) # 0 /\ Size(c.v) # 0
  /\ MulByLimb \/ MulBasecase
  /\ Grow(c.w, MulSize)
  /\ loc' = MulLoc(var', var'[c.u].d, var'[c.v].d, None)
  /\ Goto("compute")

\* Otherwise the destination gets a new block if its own is too small, and the
\* old one is kept as long as it is an operand ...
MulFresh ==
  /\ At("enter", {"mul"})
  /\ Size(c.u) # 0 /\ Size(c.v) # 0 /\ ~MulByLimb /\ ~MulBasecase
  /\ var[c.w].alloc < MulSize
  /\ LET old == var[c.w].d
         free == IF old \in {var[c.u].d, var[c.v].d} THEN old ELSE None
         rest == IF free = None THEN Without(heap, {old}) ELSE heap
     IN  \E p \in Block \ DOMAIN rest :
           /\ heap' = With(rest, p, Fresh(MulSize))
           /\ var' = [var EXCEPT ![c.w].alloc = MulSize, ![c.w].d = p]
           /\ loc' = MulLoc(var', var[c.u].d, var[c.v].d, free)
  /\ Goto("compute")

\* ... or stays, and an operand it is becomes a copy.
MulCopy ==
  /\ At("enter", {"mul"})
  /\ Size(c.u) # 0 /\ Size(c.v) # 0 /\ ~MulByLimb /\ ~MulBasecase
  /\ var[c.w].alloc >= MulSize
  /\ LET wp == var[c.w].d
         Of(x, copy) == IF var[x].d = wp THEN copy ELSE var[x].d
         Saved(x) == LET n == Abs(Size(x)) IN Filled(Fresh(n), n, Read(wp, n))
     IN  IF var[c.u].d = wp
         THEN /\ heap' = With(heap, CopyU, Saved(c.u))
              /\ loc' = MulLoc(var, CopyU, Of(c.v, CopyU), None)
         ELSE IF var[c.v].d = wp
         THEN /\ heap' = With(heap, CopyV, Saved(c.v))
              /\ loc' = MulLoc(var, var[c.u].d, CopyV, None)
         ELSE /\ heap' = heap
              /\ loc' = MulLoc(var, var[c.u].d, var[c.v].d, None)
  /\ UNCHANGED var
  /\ Goto("compute")

\* Mutant: the old block of the destination is not freed.
MulComputeLeak ==
  /\ At("compute", {"mul"})
  /\ LET n == Abs(loc.us) + Abs(loc.vs)
         u == Read(loc.up, Abs(loc.us))
         v == Read(loc.vp, Abs(loc.vs))
         separate == Abs(loc.vs) = 1 \/ loc.wp \notin {loc.up, loc.vp}
         x == IF separate THEN From(u, v, u * v) ELSE Junk
     IN  /\ heap' = Without(Written(heap, loc.wp, n, x), {CopyU, CopyV})
         /\ SetSize(c.w, OppositeSigns(loc.us, loc.vs), LessTop(n, x))
  /\ Finish

MulCompute ==
  /\ At("compute", {"mul"})
  /\ LET n == Abs(loc.us) + Abs(loc.vs)
         u == Read(loc.up, Abs(loc.us))
         v == Read(loc.vp, Abs(loc.vs))
         separate == Abs(loc.vs) = 1 \/ loc.wp \notin {loc.up, loc.vp}
         x == IF separate THEN From(u, v, u * v) ELSE Junk
     IN  /\ heap' = Without(Written(heap, loc.wp, n, x), {loc.free, CopyU, CopyV})
         /\ SetSize(c.w, OppositeSigns(loc.us, loc.vs), LessTop(n, x))
  /\ Finish

----------------------------------------------------------------------------
(* mpz_tdiv_qr.                                                            *)

\* DIVIDE_BY_ZERO
TdivByZero ==
  /\ At("enter", {"tdiv_qr"})
  /\ Size(c.v) = 0
  /\ Goto("raised")
  /\ UNCHANGED <<heap, var, loc>>

TdivGrowRem ==
  /\ At("enter", {"tdiv_qr"})
  /\ Size(c.v) # 0
  /\ Grow(c.r, Abs(Size(c.v)))
  /\ loc' = OperandSizes
  /\ Goto("quot")

QuotSize == Abs(loc.us) - Abs(loc.vs) + 1

\* The numerator is the remainder.  "This needs to follow the assignment to rem,
\* in case the numerator and quotient are the same."
TdivSmall ==
  /\ At("quot", {"tdiv_qr"})
  /\ QuotSize <= 0
  /\ IF c.u # c.r
     THEN LET n == Abs(loc.us)
          IN  /\ heap' = Written(heap, var[c.r].d, n, Read(var[c.u].d, n))
              /\ var' = [var EXCEPT ![c.r].size = Size(c.u), ![c.w].size = 0]
     ELSE /\ UNCHANGED heap
          /\ var' = [var EXCEPT ![c.w].size = 0]
  /\ Finish

TdivGrowQuot ==
  /\ At("quot", {"tdiv_qr"})
  /\ QuotSize > 0
  /\ Grow(c.w, QuotSize)
  /\ UNCHANGED loc
  /\ Goto("copy")

\* Operands that are the quotient or the remainder are copied.
CopyOperands(fns) ==
  /\ At("copy", fns)
  /\ LET results == {var[c.w].d, var[c.r].d}
         Of(x, copy) == IF var[x].d \in results THEN copy ELSE var[x].d
         up == Of(c.u, CopyU)
         vp == Of(c.v, CopyV)
     IN  /\ heap' = [p \in DOMAIN heap \cup ({up, vp} \cap Copy) |->
              IF p \in DOMAIN heap THEN heap[p]
              ELSE LET x == IF p = CopyU THEN c.u ELSE c.v
                       n == Abs(IF p = CopyU THEN loc.us ELSE loc.vs)
                   IN  Filled(Fresh(n), n, Read(var[x].d, n))]
         /\ loc' = [loc EXCEPT !.up = up, !.vp = vp, !.wp = var[c.w].d, !.rp = var[c.r].d]
  /\ UNCHANGED var
  /\ Goto("compute")

TdivCopy == CopyOperands({"tdiv_qr"})

\* mpn_tdiv_qr
TdivCompute ==
  /\ At("compute", {"tdiv_qr"})
  /\ LET n == Abs(loc.vs)
         u == Read(loc.up, Abs(loc.us))
         v == Read(loc.vp, n)
         separate == {loc.up, loc.vp} \cap {loc.wp, loc.rp} = {}
         q == IF separate THEN From(u, v, u \div v) ELSE Junk
         r == IF separate THEN From(u, v, u % v) ELSE Junk
     IN  /\ heap' = Without(Written(Written(heap, loc.wp, QuotSize, q), loc.rp, n, r),
                            {CopyU, CopyV})
         /\ var' = [var EXCEPT
              ![c.w].size = Signed(OppositeSigns(loc.us, loc.vs), LessTop(QuotSize, q)),
              ![c.r].size = Signed(loc.us < 0, Normalized(n, r))]
  /\ Finish

----------------------------------------------------------------------------
(* mpz_fdiv_qr and mpz_cdiv_qr.                                            *)

\* Mutant: only a divisor that is the quotient is copied.
DivCopyQuot(divisor) == divisor = c.w

\* A divisor that is the quotient or the remainder is copied to temp_divisor:
\* it is needed again after mpz_tdiv_qr.
DivCopy(divisor) == divisor \in {c.w, c.r}

DivTruncate ==
  /\ At("enter", {"fdiv_qr", "cdiv_qr"})
  /\ LET n == Abs(Size(c.v))
         divisor == IF DivCopy(c.v) THEN Temp ELSE c.v
         opposite == IF OppositeSigns(Size(c.u), Size(c.v)) THEN 1 ELSE 0
     IN  /\ todo' = << [c EXCEPT !.fn = "tdiv_qr", !.v = divisor],
                       [c EXCEPT !.fn = IF @ = "fdiv_qr" THEN "floor" ELSE "ceiling",
                                 !.v = divisor, !.k = opposite] >> \o Tail(todo)
         /\ IF DivCopy(c.v)
            THEN /\ heap' = With(heap, CopyD, Filled(Fresh(n), n, Read(var[c.v].d, n)))
                 /\ var' = [var EXCEPT ![Temp] = [alloc |-> n, size |-> Size(c.v), d |-> CopyD]]
            ELSE UNCHANGED <<heap, var>>
  /\ UNCHANGED <<pc, loc, ret>>

\* The quotient was rounded the wrong way.
Adjusts == Size(c.r) # 0 /\ c.k = (IF c.fn = "floor" THEN 1 ELSE 0)

DivAdjust ==
  /\ At("enter", {"floor", "ceiling"})
  /\ Adjusts
  /\ LET Next2(ui, aors) ==
           << [c EXCEPT !.fn = ui, !.r = c.w, !.u = c.w, !.v = c.w, !.k = 1],
              [c EXCEPT !.fn = aors, !.w = c.r, !.u = c.r, !.k = 0] >>
     IN  todo' = (IF c.fn = "floor" THEN Next2("sub_ui", "add") ELSE Next2("add_ui", "sub"))
                   \o Tail(todo)
  /\ UNCHANGED <<heap, var, pc, loc, ret>>

DivDone ==
  /\ At("enter", {"floor", "ceiling"})
  /\ ~Adjusts
  /\ UNCHANGED <<heap, var>>
  /\ Finish

----------------------------------------------------------------------------
(* mpz_set, mpz_neg, mpz_swap, mpz_set_ui and _mpz_realloc.                *)

NegInPlace ==
  /\ At("enter", {"neg"})
  /\ c.u = c.w
  /\ var' = [var EXCEPT ![c.w].size = -@]
  /\ UNCHANGED heap
  /\ Finish

SetGrow ==
  /\ At("enter", {"set", "neg"})
  /\ c.fn = "neg" => c.u # c.w
  /\ Grow(c.w, Abs(Size(c.u)))
  /\ NoteOperand
  /\ Goto("compute")

SetCopy ==
  /\ At("compute", {"set", "neg"})
  /\ LET n == Abs(loc.us)
     IN  heap' = Written(heap, loc.wp, n, Read(loc.up, n))
  /\ var' = [var EXCEPT ![c.w].size = IF c.fn = "neg" THEN -loc.us ELSE loc.us]
  /\ Finish

Swap ==
  /\ At("enter", {"swap"})
  /\ var' = [var EXCEPT ![c.w] = var[c.u], ![c.u] = var[c.w]]
  /\ UNCHANGED heap
  /\ Finish

SetUi ==
  /\ At("enter", {"set_ui"})
  /\ heap' = Written(heap, var[c.w].d, 1, c.k)
  /\ SetSize(c.w, FALSE, IF c.k = 0 THEN 0 ELSE 1)
  /\ Finish

\* Mutant: zero space is allocated.
ReallocZero ==
  /\ At("enter", {"realloc"})
  /\ Reallocate(c.w, c.k)
  /\ Finish

\* "Never allocate zero space."
Realloc ==
  /\ At("enter", {"realloc"})
  /\ Reallocate(c.w, MaxOf(c.k, 1))
  /\ Finish

HeapStep ==
  \/ Invoke \/ Return
  \/ AorsGrow \/ AorsAdd \/ AorsSub
  \/ UiGrow \/ UiCompute
  \/ MulZero \/ MulGrow \/ MulFresh \/ MulCopy \/ MulCompute
  \/ TdivByZero \/ TdivGrowRem \/ TdivSmall \/ TdivGrowQuot \/ TdivCopy \/ TdivCompute
  \/ DivTruncate \/ DivAdjust \/ DivDone
  \/ NegInPlace \/ SetGrow \/ SetCopy \/ Swap \/ SetUi \/ Realloc

----------------------------------------------------------------------------
TypeOK ==
  /\ DOMAIN heap \subseteq Block \cup Copy
  /\ \A p \in DOMAIN heap :
       /\ heap[p] \in [len : Nat, known : Nat, num : Nat]
       /\ heap[p].known <= heap[p].len /\ heap[p].num < Base(heap[p].known)
  /\ \A x \in Var : var[x] \in [alloc : Nat, size : Int, d : Block]
  /\ var[Temp] = NoVar \/ var[Temp] \in [alloc : Nat, size : Int, d : {CopyD}]
  /\ pc \in {"idle", "enter", "quot", "room", "copy", "compute", "done", "raised"}
  /\ pc \in {"idle", "done"} <=> todo = <<>>
  /\ ret \in 0 .. B - 1
  /\ calls \in 0 .. MaxCalls

\* Every block has one owner: a variable, or the function that will free it.
OwnedOnce ==
  /\ \A x, y \in Var : x # y => var[x].d # var[y].d
  /\ LET freed == {loc.free, loc.up, loc.vp, var[Temp].d} \ {var[x].d : x \in Var}
     IN  DOMAIN heap \subseteq {var[x].d : x \in Var} \cup (freed \ {None})
  /\ pc = "idle" => DOMAIN heap = {var[x].d : x \in Var}

\* A call gives the variables the values MpzCalc says.
Implements == Calculator!Spec

=============================================================================
