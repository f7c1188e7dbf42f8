----------------------------- MODULE CarryLoops -----------------------------
(***************************************************************************)
(* The mpn functions that pass once over their operands, from the low limb *)
(* up, with a carry: mpn_add_n, mpn_sub_n, mpn_mul_1, mpn_addmul_1,        *)
(* mpn_submul_1 and mpn_com_n (mpn/generic).  A step is one iteration of   *)
(* the loop: it reads limb i of the operands from the memory as it is by   *)
(* then, and stores limb i of the result.                                  *)
(***************************************************************************)
EXTENDS MpnContract

VARIABLES mem,     \* the memory
          pc,      \* "idle", "loop" or "done"
          call,    \* the arguments
          i,       \* iterations done
          carry,   \* cy, or cl
          entry,   \* history: the memory when the function was called
          carries  \* history: the carries so far

\* The call this loop implements (see MpnCall).
AbsMem == IF pc = "loop" THEN entry ELSE mem
AbsPhase == IF pc = "idle" THEN "idle" ELSE IF pc = "loop" THEN "called" ELSE "returned"
AbsRet == IF pc = "done" THEN carry ELSE 0
Abs == INSTANCE MpnCall WITH mem <- AbsMem, phase <- AbsPhase, ret <- AbsRet

Ops == {"add_n", "sub_n", "mul_1", "addmul_1", "submul_1", "com_n"}
NoCarries == [j \in 0 .. MemSize |-> 0]

vars == <<mem, pc, call, i, carry, entry, carries>>

Init ==
  /\ mem \in Memory
  /\ pc = "idle"
  /\ call = NoCall
  /\ i = 0
  /\ carry = 0
  /\ entry = mem
  /\ carries = NoCarries

Invoke ==
  /\ pc = "idle"
  /\ call' \in Calls(Ops)
  /\ pc' = "loop"
  /\ UNCHANGED <<mem, i, carry, entry, carries>>

\* The operand limbs of this iteration.
U == mem[call.up + i]
V == mem[call.vp + i]
R == mem[call.rp + i]

\* One iteration of the loop of op, which computes res.
Iterate(op, res) ==
  /\ pc = "loop"
  /\ call.op = op
  /\ mem' = [mem EXCEPT ![call.rp + i] = res.limb]
  /\ carry' = res.carry
  /\ carries' = [carries EXCEPT ![i + 1] = res.carry]
  /\ i' = i + 1
  /\ pc' = IF i + 1 = call.n THEN "done" ELSE "loop"
  /\ UNCHANGED <<call, entry>>

AddN == Iterate("add_n", AddLimb(U, V, carry))
SubN == Iterate("sub_n", SubLimb(U, V, carry))
Mul1 == Iterate("mul_1", MulLimb(U, call.v, carry))
AddMul1 == Iterate("addmul_1", AddMulLimb(R, U, call.v, carry))
SubMul1 == Iterate("submul_1", SubMulLimb(R, U, call.v, carry))
ComN == Iterate("com_n", [limb |-> ComLimb(U), carry |-> 0])

Return ==
  /\ pc = "done"
  /\ pc' = "idle"
  /\ call' = NoCall
  /\ i' = 0
  /\ carry' = 0
  /\ entry' = mem
  /\ carries' = NoCarries
  /\ UNCHANGED mem

Next ==
  \/ Invoke
  \/ AddN \/ SubN \/ Mul1 \/ AddMul1 \/ SubMul1 \/ ComN
  \/ Return

Spec == Init /\ [][Next]_vars

----------------------------------------------------------------------------
TypeOK ==
  /\ mem \in Memory
  /\ pc \in {"idle", "loop", "done"}
  /\ IF pc = "idle" THEN call = NoCall ELSE call \in Calls(Ops)
  /\ i \in 0 .. MemSize
  /\ carry \in Limb
  /\ entry \in Memory
  /\ carries \in Chain

\* No limb an iteration has still to read has been overwritten, although the
\* operands may overlap the result: the limbs of the operands from i up are
\* those the caller passed.
ReadsOriginal ==
  pc = "loop" => \A j \in i .. call.n - 1 :
    /\ mem[call.up + j] = entry[call.up + j]
    /\ mem[call.rp + j] = entry[call.rp + j]
    /\ call.op \in TwoVectorOps => mem[call.vp + j] = entry[call.vp + j]

\* A function changes no limb outside its result region, not even while it
\* runs (the result region may lie against another number's limbs).
Frame ==
  \A a \in Addr : mem[a] # entry[a] => pc # "idle" /\ a \in call.rp .. call.rp + i - 1

\* Limb by limb, what has been stored is the digit of the result, and the
\* carry kept in one limb never loses a bit: no wrap-around in cl.
DigitsExact ==
  pc # "idle" =>
    \A j \in 0 .. i - 1 :
      Digit(call, entry, j, mem[call.rp + j], carries[j], carries[j + 1])

\* Where a call stands: the part of the inductive invariant that links the
\* iteration, the carry and their histories.
LoopState ==
  /\ pc = "idle" => i = 0 /\ carry = 0 /\ entry = mem /\ carries = NoCarries
  /\ pc = "loop" => i < call.n
  /\ pc = "done" => i = call.n
  /\ pc # "idle" => carries[0] = 0 /\ carries[i] = carry
  /\ call.op \in {"add_n", "sub_n"} => carry \in {0, 1}
  /\ call.op = "com_n" => carry = 0

IInv == TypeOK /\ LoopState /\ ReadsOriginal /\ Frame /\ DigitsExact

\* When a function returns, its result is the sum, difference, product or
\* complement of the numbers it was called with, as whole numbers, whatever
\* the overlap of its operands.
ResultExact == pc = "done" => ExactResult(call, entry, mem, carry)

\* The loops implement the calls of MpnCall: a call that returns has done what
\* its function promises, and nothing else.
Implements == Abs!Spec

============================================================================
