------------------------------- MODULE MCMpz -------------------------------
(* A program that calls any of the mpz functions of MpzHeap, MpzDivide,     *)
(* MpzShift, MpzBitwise and MpzMulAdd, and the calls that they make of each *)
(* other; with one address more than there are variables, so that a block   *)
(* that is freed is the next one to be allocated.                           *)
EXTENDS MpzDivide, MpzShift, MpzBitwise, MpzMulAdd

CONSTANTS v1, v2, v3, temp, b1, b2, b3, b4

Next == HeapStep \/ DivideStep \/ ShiftStep \/ BitStep \/ MulAddStep

Spec == Init /\ [][Next]_vars

\* The program calls functions that there are.
ASSUME FnsAssumption ==
  Fns \subseteq Calculator!BinaryFns \cup Calculator!DivFns \cup Calculator!OneOperand \cup Calculator!NoOperand

----------------------------------------------------------------------------
\* The limbs the running function may write to its destination.
Needed ==
  LET us == Abs(loc.us)
      vs == Abs(loc.vs)
      n == Abs(Size(c.w))
  IN  CASE c.fn \in {"add", "sub", "add_ui", "sub_ui", "mul_ui", "mul_si"} -> us + 1
        [] c.fn = "mul" -> us + vs
        [] c.fn \in AorsFns -> MaxOf(n, us + vs) + 1
        [] c.fn \in AorsUiFns -> MaxOf(n, us) + 1
        [] c.fn = "ui_sub" -> IF loc.us < 0 THEN us + 1 ELSE MaxOf(us, 1)
        [] c.fn = "com" -> IF loc.us < 0 THEN us ELSE us + 1
        [] c.fn \in BitFn -> Room(loc.ws)
        [] c.fn \in {"tdiv_qr", "tdiv_q"} -> QuotSize
        [] c.fn \in {"tdiv_r", "tdiv_r_2exp"} -> vs
        [] c.fn = "mul_2exp" -> us + LimbCnt + 1
        [] c.fn = "tdiv_q_2exp" -> us - LimbCnt
        [] c.fn \in {"cdiv_q_2exp", "fdiv_q_2exp"} -> us - LimbCnt + 1
        [] c.fn \in CfdivR -> IF (loc.us >= 0) # (c.fn \in UpFns) /\ us <= LimbCnt THEN us ELSE LimbCnt + 1
        [] c.fn \in Calculator!DivUiFns -> IF HasQuot(c.fn) THEN us ELSE 1
        [] OTHER -> us

\* When an mpn function is called its pointers are to blocks that are still
\* there, those of the results to the blocks the results will be in, and no
\* block is shorter than what is read from it or written to it.
PointersLive ==
  pc = "compute" =>
    /\ loc.up \in DOMAIN heap /\ Abs(loc.us) <= heap[loc.up].len
    /\ loc.vs # 0 => loc.vp \in DOMAIN heap /\ Abs(loc.vs) <= heap[loc.vp].len
    /\ loc.wp = var[c.w].d /\ Needed <= heap[loc.wp].len
    /\ c.fn = "tdiv_qr" => loc.rp = var[c.r].d /\ Abs(loc.vs) <= heap[loc.rp].len

\* mpz_ior adds one to the limbs of its result without asking for one more: the carry
\* dies inside them, since a magnitude less one has a zero bit somewhere.
IorFits ==
  pc = "compute" /\ c.fn = "ior" /\ Signs # "++" =>
    LET x == IF Signs = "--" THEN And(UValue, VValue) ELSE AndNot(VValue, UValue)
    IN  LessTop(loc.ws + 1, From(x, x, x + 1)) <= Room(loc.ws)

\* Outside the functions, each variable has a number in its block that uses no
\* more limbs than it must, and the length it tells the allocation function
\* when the block is freed is the block's.  When an mpn function is called its
\* operands are all there, and mpz_ior's result fits.
WellFormed ==
  /\ TypeOK
  /\ pc \in {"idle", "done", "raised"} => \A x \in Var :
       LET m == Read(var[x].d, Abs(var[x].size))
       IN  /\ var[x].alloc >= 1 /\ heap[var[x].d].len = var[x].alloc
           /\ m # Junk /\ Normalized(Abs(var[x].size), m) = Abs(var[x].size)
  /\ pc = "compute" => /\ Read(loc.up, Abs(loc.us)) # Junk
                       /\ loc.vs # 0 => Read(loc.vp, Abs(loc.vs)) # Junk
  /\ IorFits

----------------------------------------------------------------------------
(* The inductive invariant.                                                 *)

\* Where a pointer may point, and what the variables, the locals and the calls
\* to make are; k, in a call, is a limb that was read, or a number.
Pointer == Block \cup Copy \cup {None}
Fields == [alloc : Nat, size : Int, d : Pointer]
Locals == [us : Int, vs : Int, ws : Nat, up : Pointer, vp : Pointer, wp : Pointer, rp : Pointer,
           free : Pointer]
CalledFns ==
  {"tdiv_qr", "tdiv_r", "add", "sub", "add_ui", "sub_ui", "floor", "ceiling", "floor_q", "ceiling_q",
   "floor_r", "ceiling_r", "least_r"} \cup AorsUiFns
Task(K) ==
  [fn : Fns \cup CalledFns, w : Var, r : Var \cup {Temp}, u : Var, v : Var \cup {Temp}, k : K]
Tasked(s) == s \in Seq(Task({s[i].k : i \in 1 .. Len(s)}))

Typing ==
  /\ var \in [Var \cup {Temp} -> Fields]
  /\ \A x \in Var : var[x].d \in Block
  /\ var[Temp].d \in {CopyD, None}
  /\ loc \in Locals
  /\ Tasked(todo)

\* A function has locals once it has entered its steps, and the program has no
\* temp_divisor.
Control ==
  /\ pc \in {"idle", "enter", "quot", "room", "copy", "compute", "done", "raised"}
  /\ pc \in {"idle", "done"} <=> todo = <<>>
  /\ pc \in {"idle", "enter", "done", "raised"} => loc = NoLoc
  /\ pc = "idle" => var[Temp].d = None

\* temp_divisor is used where there is one, and only by the functions that a
\* division calls.
TempUse(t) ==
  /\ t.r = Temp => t.fn \in {"tdiv_qr", "floor_q", "ceiling_q"}
  /\ t.v = Temp => t.fn \in {"tdiv_qr", "floor", "ceiling", "tdiv_r", "floor_r", "ceiling_r", "least_r",
                            "add", "sub"}
  /\ t.r = Temp \/ t.v = Temp => var[Temp].d = CopyD

\* As a remainder it is as long as the divisor, and so never grows.
TempRoom ==
  pc = "enter" /\ c.fn = "tdiv_qr" /\ c.r = Temp => c.v \in Var /\ var[Temp].alloc = Abs(Size(c.v))

Tasks ==
  /\ \A i \in 1 .. Len(todo) :
       /\ TempUse(todo[i])
       /\ todo[i].fn \notin AorsUiFns => todo[i].k \in Nat
       /\ i # 1 => todo[i].fn # "tdiv_qr"
  /\ TempRoom

\* The functions that copy operands, where there are copies.
Copying == pc \in {"room", "compute"} /\ c.fn \in BitFn \cup {"mul", "tdiv_qr", "tdiv_q", "tdiv_r"}

Held == {var[x].d : x \in Var}

\* A block that no variable has: who will free it.
Freed(p) ==
  \/ p = CopyD /\ var[Temp].d = CopyD
  \/ p = CopyU /\ Copying /\ loc.up = CopyU
  \/ p = CopyV /\ Copying /\ loc.vp = CopyV
  \/ p = loc.free /\ p \in Block

Ownership ==
  /\ Held \subseteq DOMAIN heap
  /\ \A x, y \in Var : x # y => var[x].d # var[y].d
  /\ \A p \in DOMAIN heap \ Held : Freed(p)
  /\ loc.free # None => pc = "compute" /\ c.fn = "mul" /\ loc.free \in Block \ Held
  /\ var[Temp].d = CopyD => CopyD \in DOMAIN heap

IInv == Typing /\ Control /\ Tasks /\ Ownership

\* The length a variable knows is the block's, and its size is no larger.
InBlock(x) == heap[var[x].d].len = var[x].alloc /\ Abs(var[x].size) <= var[x].alloc

Sizes ==
  /\ \A x \in Var : InBlock(x) /\ var[x].alloc >= 1
  /\ var[Temp].d = CopyD => InBlock(Temp)

\* Before the division, the locals are the operands' sizes, and there is room for
\* the remainder, then for the quotient.
Dividing ==
  pc \in {"quot", "copy"} =>
    /\ c.fn \in {"tdiv_qr", "tdiv_q", "tdiv_r"}
    /\ loc.us = Size(c.u) /\ loc.vs = Size(c.v)
    /\ c.fn = "tdiv_qr" => Abs(loc.vs) <= var[c.r].alloc
    /\ c.fn = "tdiv_r" => Abs(loc.vs) <= var[c.w].alloc /\ (pc = "quot" => Abs(loc.us) < Abs(loc.vs))
    /\ pc = "copy" /\ c.fn # "tdiv_r" => QuotSize >= 1 /\ QuotSize <= var[c.w].alloc

\* Before the destination grows, copies are as long as they say.
Copied2 ==
  pc = "room" =>
    /\ c.fn \in BitFn
    /\ IF loc.up = CopyU THEN CopyU \in DOMAIN heap /\ heap[CopyU].len = Abs(loc.us)
       ELSE Abs(loc.us) <= Abs(Size(First))
    /\ IF loc.vp = CopyV THEN CopyV \in DOMAIN heap /\ heap[CopyV].len = Abs(loc.vs)
       ELSE Abs(loc.vs) <= Abs(Size(Second))

\* What the sizes of the results rely on.
Computing ==
  pc = "compute" =>
    /\ c.fn \in {"tdiv_qr", "tdiv_q"} => QuotSize >= 1
    /\ c.fn \in BitFn => loc.ws \in 0 .. Most
    /\ c.fn \in {"tdiv_q_2exp", "cdiv_q_2exp", "fdiv_q_2exp"} => Abs(loc.us) > LimbCnt

Bounds == Sizes /\ Dividing /\ Copied2 /\ Computing /\ PointersLive

----------------------------------------------------------------------------
(* What the blocks hold.                                                    *)

\* x has n limbs and not fewer.
Exactly(n, x) == x < Base(n) /\ (n = 0 \/ x >= Base(n - 1))

BlockOK(b) == b \in [len : Nat, known : Nat, num : Nat] /\ b.known <= b.len /\ b.num < Base(b.known)
BlocksOK == \A p \in DOMAIN heap : BlockOK(heap[p])

\* A block that holds a number of that size.
Whole(b, size) == Abs(size) <= b.known /\ Exactly(Abs(size), b.num % Base(Abs(size)))
NumberAt(p, size) == p \in DOMAIN heap /\ Whole(heap[p], size)

\* Each variable has a number, until mpz_mul gives its destination a new block.
Renewed(x) == pc = "compute" /\ c.fn = "mul" /\ x = c.w
NumbersOK ==
  /\ \A x \in Var : NumberAt(var[x].d, Size(x)) \/ Renewed(x)
  /\ IF var[Temp].d = CopyD THEN NumberAt(CopyD, Size(Temp)) ELSE var[Temp] = NoVar

\* The arguments of the calls to make.
TaskOK(t) ==
  /\ t.k \in Nat
  /\ t.fn \in Calculator!UiFns \cup Calculator!DivUiFns \cup {"set_ui", "set_si"} => t.k < B
  /\ IF t.fn \in Calculator!TwoResults \cup {"floor", "ceiling", "floor_q", "ceiling_q"}
     THEN t.r # t.w ELSE t.r = t.w
TasksOK == \A i \in 1 .. Len(todo) : TaskOK(todo[i])

\* Size s and pointer p are those of variable x; or p is a copy that is the same; or, if
\* x is negative, a copy of what a bit operation needs of it, less one.
Points(s, p, x) == s = Size(x) /\ p = var[x].d
SameLimbs(s, p, x) == s = Size(x) /\ p \in DOMAIN heap /\ Read(p, Abs(s)) = Read(var[x].d, Abs(s))
OneLess(s, p, x, copy) ==
  LET n == Copied(x)
  IN  /\ s = Signed(Size(x) < 0, n)
      /\ IF Size(x) < 0
         THEN /\ p = copy /\ p \in DOMAIN heap /\ heap[p].known = n
              /\ heap[p].num = (Read(var[x].d, n) + Base(n) - 1) % Base(n)
         ELSE p = var[x].d

\* What a division, a bit operation, a product and the others know when they compute.
DivisionNoted ==
  /\ pc \in {"quot", "copy"} => loc.vs # 0
  /\ pc = "compute" /\ c.fn \in {"tdiv_qr", "tdiv_q", "tdiv_r"} =>
       /\ SameLimbs(loc.us, loc.up, c.u) /\ SameLimbs(loc.vs, loc.vp, c.v) /\ loc.vs # 0
       /\ {loc.up, loc.vp} \cap {var[c.w].d, var[c.r].d} = {}
       /\ loc.rp = var[c.r].d

BitsNoted ==
  pc \in {"room", "compute"} /\ c.fn \in BitFn =>
    /\ OneLess(loc.us, loc.up, First, CopyU) /\ OneLess(loc.vs, loc.vp, Second, CopyV)
    /\ pc = "compute" => loc.ws = ResultLimbs

ProductNoted ==
  pc = "compute" /\ c.fn = "mul" =>
    /\ loc.us = Size(c.u) /\ loc.vs = Size(c.v) /\ loc.us # 0 /\ loc.vs # 0
    /\ NumberAt(loc.up, loc.us) /\ NumberAt(loc.vp, loc.vs)
    /\ Abs(loc.vs) = 1 \/ loc.wp \notin {loc.up, loc.vp}
    /\ c.u # c.w => loc.up = var[c.u].d
    /\ c.v # c.w => loc.vp = var[c.v].d
    /\ c.u = c.v => loc.up = loc.vp

SumNoted ==
  /\ pc = "compute" /\ c.fn \in {"add", "sub"} => loc = AorsLoc(var)
  /\ pc = "compute" /\ c.fn \in AorsFns =>
       Points(loc.us, loc.up, Longer) /\ Points(loc.vs, loc.vp, Shorter) /\ loc.vs # 0

\* The limbs of the remainder by the power, of n limbs of u.
RemainderLimbs(n, u) ==
  IF n <= LimbCnt THEN n
  ELSE IF Partial(u) # 0 THEN LimbCnt + 1
  ELSE Normalized(LimbCnt, Low(u, LimbCnt))

OneNoted ==
  pc = "compute" =>
    /\ c.fn \in Calculator!OneOperand => Points(loc.us, loc.up, c.u)
    /\ c.fn \in Calculator!DivUiFns \cup AorsUiFns \cup {"mul_ui", "mul_si"} => c.k # 0 /\ loc.us # 0
    /\ c.fn = "mul_2exp" => loc.us # 0
    /\ c.fn = "tdiv_r_2exp" =>
         loc.vs = RemainderLimbs(Abs(Size(c.u)), Read(var[c.u].d, Abs(Size(c.u))))

LocalsOK == DivisionNoted /\ BitsNoted /\ ProductNoted /\ SumNoted /\ OneNoted

CountsOK == ret \in 0 .. B - 1 /\ calls \in 0 .. MaxCalls

Contents == BlocksOK /\ NumbersOK /\ TasksOK /\ LocalsOK /\ CountsOK

----------------------------------------------------------------------------
MCTriple == {v1, v2, v3}
MCPair == {v1, v2}
MCBlock == {b1, b2, b3, b4}

MCArithmetic ==
  {"add", "sub", "mul", "addmul", "submul", "add_ui", "sub_ui", "set", "neg", "swap", "set_ui",
   "realloc", "tdiv_q", "fdiv_q", "cdiv_q", "tdiv_r", "fdiv_r", "cdiv_r", "mod",
   "tdiv_qr", "fdiv_qr", "cdiv_qr", "and", "ior", "xor"}
MCLimb ==
  {"and", "ior", "xor", "com", "abs", "setbit", "clrbit", "combit",
   "add_ui", "sub_ui", "ui_sub", "mul_ui", "mul_si", "addmul_ui", "submul_ui",
   "addmul", "submul", "mul", "set_si", "realloc2", "mul_2exp",
   "tdiv_q_2exp", "fdiv_q_2exp", "cdiv_q_2exp", "tdiv_r_2exp", "fdiv_r_2exp", "cdiv_r_2exp",
   "tdiv_q_ui", "fdiv_q_ui", "cdiv_q_ui", "tdiv_r_ui", "fdiv_r_ui", "cdiv_r_ui",
   "tdiv_qr_ui", "fdiv_qr_ui", "cdiv_qr_ui", "tdiv_ui", "fdiv_ui", "cdiv_ui"}

MCSmall == {-3, -1, 0, 2}
MCNumbers == {-63, -48, -17, -16, -4, -1, 0, 1, 3, 7, 16, 31, 60, 63}

=============================================================================
