-------------------------- MODULE CarryLoopsProofs --------------------------
(***************************************************************************)
(* CarryLoops keeps its invariants and implements MpnCall in every base    *)
(* and for every size of memory, hence for every legal overlap of operands *)
(* of any length.                                                          *)
(*                                                                         *)
(* IInv is inductive.  LoopStep does the work once for all six loops: an   *)
(* iteration that stores a right digit at limb i keeps IInv, because the   *)
(* overlaps the functions accept make limb rp + i none of the limbs still  *)
(* to be read.  The actions then only differ in why the digit is right.    *)
(***************************************************************************)
EXTENDS CarryLoops, MpnFacts

USE BaseAssumption, MemSizeAssumption

\* The fields of a legal call, and where its operands lie.
LEMMA CallFacts ==
  ASSUME NEW c \in Calls(Ops)
  PROVE  /\ c.op \in Ops
         /\ c.rp \in Addr /\ c.up \in Addr /\ c.vp \in Addr
         /\ c.n \in 1 .. MemSize /\ c.v \in Limb
         /\ \A j \in 0 .. c.n - 1 : c.rp + j \in Addr /\ c.up + j \in Addr
         /\ c.op \in TwoVectorOps => \A j \in 0 .. c.n - 1 : c.vp + j \in Addr
BY DEF Ops, Addr, Calls, CallRecord, InMemory, Addr, TwoVectorOps

\* Storing limb j of the result overwrites no operand limb above j.
LEMMA StoreIsSafe ==
  ASSUME NEW c \in Calls(Ops),
         NEW j \in 0 .. c.n - 1, NEW k \in j + 1 .. c.n - 1
  PROVE  /\ c.rp + j # c.rp + k
         /\ c.rp + j # c.up + k
         /\ c.op \in TwoVectorOps => c.rp + j # c.vp + k
BY CallFacts
   DEF Ops, Addr, Calls, InMemory, Asserted, TwoVectorOps,
       SameOrIncr, SameOrSeparate, SameOrSeparate2, Overlap

\* Before the first call there is nothing the invariant could be about.
LEMMA InitInv == Init => IInv
BY DEF Init, IInv, TypeOK, LoopState, ReadsOriginal, Frame, DigitsExact,
       NoCarries, Chain, NoCall, Limb

\* An iteration that computes the right digit and carry keeps the invariant.
LEMMA LoopStep ==
  ASSUME IInv, NEW op \in Ops, NEW l \in Limb, NEW c \in Limb,
         Iterate(op, [limb |-> l, carry |-> c]),
         Digit(call, entry, i, l, carry, c),
         op \in {"add_n", "sub_n"} => c \in {0, 1},
         op = "com_n" => c = 0
  PROVE  IInv'
<1> USE DEF IInv
<1>0. /\ pc = "loop" /\ call.op = op /\ call' = call /\ entry' = entry
      /\ call \in Calls(Ops) /\ call.n \in 1 .. MemSize
  BY CallFacts DEF Iterate, TypeOK
<1>1. /\ pc = "loop" /\ call.op = op /\ call \in Calls(Ops) /\ i \in 0 .. call.n - 1
      /\ mem' = [mem EXCEPT ![call.rp + i] = l]
      /\ carry' = c
      /\ carries' = [carries EXCEPT ![i + 1] = c]
      /\ i' = i + 1
      /\ pc' = IF i + 1 = call.n THEN "done" ELSE "loop"
      /\ call' = call /\ entry' = entry
  BY <1>0 DEF Iterate, TypeOK, LoopState
<1>2. /\ \A j \in 0 .. call.n - 1 : call.rp + j \in Addr /\ call.up + j \in Addr
      /\ call.rp \in Nat /\ call.up \in Nat /\ call.vp \in Nat /\ call.n \in 1 .. MemSize
      /\ op \in TwoVectorOps => \A j \in 0 .. call.n - 1 : call.vp + j \in Addr
  BY <1>1, CallFacts DEF Addr
<1>3. \A a \in Addr : mem'[a] = IF a = call.rp + i THEN l ELSE mem[a]
  BY <1>1, <1>2 DEF TypeOK, Memory
<1>4. \A j \in 0 .. MemSize : carries'[j] = IF j = i + 1 THEN c ELSE carries[j]
  BY <1>1, <1>2 DEF TypeOK, Chain
<1>5. TypeOK'
  BY <1>1, <1>2 DEF TypeOK, Memory, Chain
<1>6. LoopState'
  BY <1>1, <1>2, <1>4 DEF LoopState, TypeOK
<1>7. ReadsOriginal'
  <2> SUFFICES ASSUME pc' = "loop", NEW j \in i + 1 .. call.n - 1
               PROVE  /\ mem'[call.up + j] = entry[call.up + j]
                      /\ mem'[call.rp + j] = entry[call.rp + j]
                      /\ op \in TwoVectorOps => mem'[call.vp + j] = entry[call.vp + j]
    BY <1>1 DEF ReadsOriginal
  <2>1. /\ call.rp + i # call.rp + j
        /\ call.rp + i # call.up + j
        /\ op \in TwoVectorOps => call.rp + i # call.vp + j
    BY <1>1, StoreIsSafe
  <2>2. j \in 0 .. call.n - 1 /\ j \in i .. call.n - 1
    BY <1>1, <1>2
  <2> QED
    BY <2>1, <2>2, <1>1, <1>2, <1>3 DEF ReadsOriginal
<1>8. Frame'
  <2> SUFFICES ASSUME NEW a \in Addr, mem'[a] # entry[a]
               PROVE  a \in call.rp .. call.rp + i
    BY <1>1, <1>2 DEF Frame
  <2> QED
    BY <1>1, <1>2, <1>3 DEF Frame, Addr
<1>9. DigitsExact'
  <2> SUFFICES ASSUME NEW j \in 0 .. i
               PROVE  Digit(call, entry, j, mem'[call.rp + j], carries'[j], carries'[j + 1])
    BY <1>1 DEF DigitsExact
  <2>1. CASE j = i
    BY <2>1, <1>1, <1>2, <1>3, <1>4 DEF LoopState, TypeOK
  <2>2. CASE j \in 0 .. i - 1
    <3>1. /\ mem'[call.rp + j] = mem[call.rp + j]
          /\ carries'[j] = carries[j] /\ carries'[j + 1] = carries[j + 1]
      BY <2>2, <1>1, <1>2, <1>3, <1>4
    <3> QED
      BY <3>1, <2>2, <1>1 DEF DigitsExact
  <2> QED
    BY <2>1, <2>2, <1>1
<1> QED
  BY <1>5, <1>6, <1>7, <1>8, <1>9

\* The operand limbs an iteration reads are those of the call.
LEMMA OperandLimbs ==
  ASSUME IInv, pc = "loop"
  PROVE  /\ U \in Limb /\ U = entry[call.up + i]
         /\ R \in Limb /\ R = entry[call.rp + i]
         /\ call.op \in TwoVectorOps => V \in Limb /\ V = entry[call.vp + i]
         /\ call.v \in Limb
<1>1. call \in Calls(Ops) /\ i \in 0 .. call.n - 1 /\ i \in i .. call.n - 1
  BY CallFacts DEF IInv, TypeOK, LoopState
<1> QED
  BY <1>1, CallFacts DEF U, V, R, IInv, TypeOK, ReadsOriginal, Memory

\* A call, an iteration of any of the six loops and a return keep the invariant.
LEMMA NextInv == IInv /\ [Next]_vars => IInv'
<1> SUFFICES ASSUME IInv, [Next]_vars
             PROVE  IInv'
  OBVIOUS
<1>1. CASE Invoke
  <2>1. call' \in Calls(Ops) /\ call'.n \in 1 .. MemSize
    BY <1>1, CallFacts DEF Invoke
  <2>2. /\ pc = "idle" /\ pc' = "loop" /\ i = 0 /\ carry = 0 /\ entry = mem
        /\ carries = NoCarries
        /\ UNCHANGED <<mem, i, carry, entry, carries>>
    BY <1>1 DEF Invoke, IInv, LoopState
  <2> QED
    BY <2>1, <2>2
       DEF IInv, TypeOK, LoopState, ReadsOriginal, Frame, DigitsExact, NoCarries
<1>2. CASE AddN
  <2> DEFINE s == AddLimb(U, V, carry)
  <2>1. pc = "loop" /\ call.op = "add_n" /\ carry \in {0, 1}
    BY <1>2 DEF AddN, Iterate, IInv, LoopState
  <2>2. s.limb \in Limb /\ s.carry \in {0, 1} /\ s.limb + B * s.carry = U + V + carry
    BY <2>1, OperandLimbs, AddLimbExact DEF TwoVectorOps
  <2>3. Digit(call, entry, i, s.limb, carry, s.carry)
    BY <2>1, <2>2, OperandLimbs DEF Digit, TwoVectorOps
  <2>4. s = [limb |-> s.limb, carry |-> s.carry] /\ s.carry \in Limb
    BY <2>2 DEF AddLimb, Limb
  <2> QED
    BY <1>2, <2>2, <2>3, <2>4, LoopStep DEF AddN, Ops
<1>3. CASE SubN
  <2> DEFINE s == SubLimb(U, V, carry)
  <2>1. pc = "loop" /\ call.op = "sub_n" /\ carry \in {0, 1}
    BY <1>3 DEF SubN, Iterate, IInv, LoopState
  <2>2. s.limb \in Limb /\ s.carry \in {0, 1} /\ s.limb - B * s.carry = U - V - carry
    BY <2>1, OperandLimbs, SubLimbExact DEF TwoVectorOps
  <2>3. Digit(call, entry, i, s.limb, carry, s.carry)
    BY <2>1, <2>2, OperandLimbs DEF Digit, TwoVectorOps
  <2>4. s = [limb |-> s.limb, carry |-> s.carry] /\ s.carry \in Limb
    BY <2>2 DEF SubLimb, Limb
  <2> QED
    BY <1>3, <2>2, <2>3, <2>4, LoopStep DEF SubN, Ops
<1>4. CASE Mul1
  <2> DEFINE s == MulLimb(U, call.v, carry)
  <2>1. pc = "loop" /\ call.op = "mul_1" /\ carry \in Limb
    BY <1>4 DEF Mul1, Iterate, IInv, TypeOK
  <2>2. s.limb \in Limb /\ s.carry \in Limb /\ s.limb + B * s.carry = U * call.v + carry
    BY <2>1, OperandLimbs, MulLimbExact
  <2>3. Digit(call, entry, i, s.limb, carry, s.carry)
    BY <2>1, <2>2, OperandLimbs DEF Digit
  <2>4. s = [limb |-> s.limb, carry |-> s.carry]
    BY DEF MulLimb
  <2> QED
    BY <1>4, <2>2, <2>3, <2>4, LoopStep DEF Mul1, Ops
<1>5. CASE AddMul1
  <2> DEFINE s == AddMulLimb(R, U, call.v, carry)
  <2>1. pc = "loop" /\ call.op = "addmul_1" /\ carry \in Limb
    BY <1>5 DEF AddMul1, Iterate, IInv, TypeOK
  <2>2. s.limb \in Limb /\ s.carry \in Limb /\ s.limb + B * s.carry = R + U * call.v + carry
    BY <2>1, OperandLimbs, AddMulLimbExact
  <2>3. Digit(call, entry, i, s.limb, carry, s.carry)
    BY <2>1, <2>2, OperandLimbs DEF Digit
  <2>4. s = [limb |-> s.limb, carry |-> s.carry]
    BY DEF AddMulLimb
  <2> QED
    BY <1>5, <2>2, <2>3, <2>4, LoopStep DEF AddMul1, Ops
<1>6. CASE SubMul1
  <2> DEFINE s == SubMulLimb(R, U, call.v, carry)
  <2>1. pc = "loop" /\ call.op = "submul_1" /\ carry \in Limb
    BY <1>6 DEF SubMul1, Iterate, IInv, TypeOK
  <2>2. s.limb \in Limb /\ s.carry \in Limb /\ s.limb - B * s.carry = R - U * call.v - carry
    BY <2>1, OperandLimbs, SubMulLimbExact
  <2>3. Digit(call, entry, i, s.limb, carry, s.carry)
    BY <2>1, <2>2, OperandLimbs DEF Digit
  <2>4. s = [limb |-> s.limb, carry |-> s.carry]
    BY DEF SubMulLimb
  <2> QED
    BY <1>6, <2>2, <2>3, <2>4, LoopStep DEF SubMul1, Ops
<1>7. CASE ComN
  <2>1. pc = "loop" /\ call.op = "com_n"
    BY <1>7 DEF ComN, Iterate
  <2>2. ComLimb(U) \in Limb /\ ComLimb(U) + U = B - 1 /\ 0 \in Limb
    BY <2>1, OperandLimbs DEF ComLimb, Limb
  <2>3. Digit(call, entry, i, ComLimb(U), carry, 0)
    BY <2>1, <2>2, OperandLimbs DEF Digit
  <2> QED
    BY <1>7, <2>2, <2>3, LoopStep DEF ComN, Ops
<1>8. CASE Return
  BY <1>8 DEF Return, IInv, TypeOK, LoopState, ReadsOriginal, Frame, DigitsExact,
              NoCarries, NoCall, Chain, Limb
<1>9. CASE UNCHANGED vars
  BY <1>9 DEF vars, IInv, TypeOK, LoopState, ReadsOriginal, Frame, DigitsExact
<1> QED
  BY <1>1, <1>2, <1>3, <1>4, <1>5, <1>6, <1>7, <1>8, <1>9 DEF Next

\* The inductive invariant holds in every reachable state.
THEOREM Invariance == Spec => []IInv
BY InitInv, NextInv, PTL DEF Spec

\* The variables keep their types; in particular no carry outgrows a limb and
\* no access leaves the memory.
THEOREM TypeCorrect == Spec => []TypeOK
BY Invariance, PTL DEF IInv

\* No loop reads a limb it has overwritten.
THEOREM ReadsOriginalHolds == Spec => []ReadsOriginal
BY Invariance, PTL DEF IInv

\* No loop writes outside the part of the result it has computed.
THEOREM FrameHolds == Spec => []Frame
BY Invariance, PTL DEF IInv

\* Every limb stored is the digit of the exact result.
THEOREM DigitsExactHolds == Spec => []DigitsExact
BY Invariance, PTL DEF IInv

\* A call that ends has kept its promise, with the carries it went through.
LEMMA DonePromise ==
  IInv /\ pc = "done" => carries \in Chain /\ Promise(call, entry, mem, carry, carries)
<1> SUFFICES ASSUME IInv, pc = "done"
             PROVE  carries \in Chain /\ Promise(call, entry, mem, carry, carries)
  OBVIOUS
<1>1. call \in Calls(Ops) /\ i = call.n /\ call.n \in 1 .. MemSize
  BY CallFacts DEF IInv, TypeOK, LoopState
<1>2. Ends(call, carries, carry)
  BY <1>1, CallFacts DEF Ends, Ops, IInv, LoopState
<1>3. \A a \in Addr \ Region(call.rp, call.n) : mem[a] = entry[a]
  BY <1>1 DEF IInv, Frame, Region
<1> QED
  BY <1>1, <1>2, <1>3 DEF Promise, IInv, TypeOK, DigitsExact

\* A call that ends has stored the exact result and returned its carry, as whole numbers:
\* for operands of any length, in every base.
THEOREM ResultExactHolds == Spec => []ResultExact
<1>1. ASSUME IInv PROVE ResultExact
  <2> SUFFICES ASSUME pc = "done" PROVE ExactResult(call, entry, mem, carry)
    BY DEF ResultExact
  <2>1. call \in Calls(Op) /\ entry \in Memory /\ mem \in Memory /\ carry \in Limb
    BY <1>1 DEF IInv, TypeOK, Calls, Ops, Op, TwoVectorOps, LimbOps
  <2>2. carries \in Chain /\ Promise(call, entry, mem, carry, carries)
    BY <1>1, DonePromise
  <2> QED
    BY <2>1, <2>2, PromiseExact
<1> QED
  BY <1>1, Invariance, PTL

\* The contract MpnCall refers to is the one the loops are called under.
LEMMA SameContract ==
  /\ Abs!NoCall = NoCall /\ Abs!Memory = Memory /\ Abs!Limb = Limb
  /\ Calls(Ops) \subseteq Abs!Calls(Abs!Op)
  /\ \A c, old, new, r, chain :
       chain \in Chain /\ Promise(c, old, new, r, chain)
         => chain \in Abs!Chain /\ Abs!Promise(c, old, new, r, chain)
<1>1. Abs!NoCall = NoCall /\ Abs!Memory = Memory /\ Abs!Limb = Limb /\ Abs!Chain = Chain
      /\ Abs!Addr = Addr
  BY DEF Abs!NoCall, NoCall, Abs!Memory, Memory, Abs!Addr, Addr, Abs!Limb, Limb,
         Abs!Chain, Chain
<1>2. Abs!Op = Op /\ Abs!CallRecord = CallRecord
  BY <1>1 DEF Abs!Op, Op, Abs!TwoVectorOps, TwoVectorOps, Abs!LimbOps, LimbOps,
              Abs!ShiftOps, ShiftOps, Abs!CallRecord, CallRecord
<1>3. ASSUME NEW c PROVE InMemory(c) = Abs!InMemory(c)
  BY <1>1 DEF Abs!InMemory, InMemory, Abs!TwoVectorOps, TwoVectorOps, Abs!LimbOps, LimbOps,
              Abs!ShiftOps, ShiftOps, Abs!ShiftFactor, ShiftFactor
<1>4. ASSUME NEW c PROVE Asserted(c) = Abs!Asserted(c)
  BY DEF Abs!Asserted, Asserted, Abs!TwoVectorOps, TwoVectorOps,
         Abs!SameOrIncr, SameOrIncr, Abs!SameOrDecr, SameOrDecr, Abs!SameOrSeparate,
         SameOrSeparate, Abs!SameOrSeparate2, SameOrSeparate2, Abs!Overlap, Overlap
<1>5. Calls(Ops) \subseteq Abs!Calls(Abs!Op)
  BY <1>2, <1>3, <1>4 DEF Calls, Abs!Calls, Ops, Op, TwoVectorOps, LimbOps
<1>6. ASSUME NEW c, NEW old, NEW j, NEW r, NEW lo, NEW hi
      PROVE  Digit(c, old, j, r, lo, hi) = Abs!Digit(c, old, j, r, lo, hi)
  BY DEF Digit, Abs!Digit
<1>7. ASSUME NEW c, NEW chain, NEW r
      PROVE  Ends(c, chain, r) = Abs!Ends(c, chain, r)
  BY DEF Ends, Abs!Ends
<1>8. ASSUME NEW c, NEW old, NEW new, NEW r, NEW chain, Promise(c, old, new, r, chain)
      PROVE  Abs!Promise(c, old, new, r, chain)
  BY <1>8, <1>1, <1>6, <1>7 DEF Promise, Abs!Promise, Region, Abs!Region
<1> QED
  BY <1>1, <1>5, <1>8

\* Every step of the loops is a step of a call, or none.
THEOREM Refinement == Spec => Implements
<1>1. Init => Abs!Init
  BY SameContract DEF Init, Abs!Init, AbsMem, AbsPhase, AbsRet
<1>2. (IInv /\ pc = "done" => carries \in Chain /\ Promise(call, entry, mem, carry, carries))'
  BY DonePromise, PTL
<1>3. IInv /\ IInv' /\ [Next]_vars => [Abs!Next]_(Abs!vars)
  <2> SUFFICES ASSUME IInv, IInv', [Next]_vars
               PROVE  [Abs!Next]_(Abs!vars)
    OBVIOUS
  <2> USE DEF AbsMem, AbsPhase, AbsRet
  <2>1. CASE Invoke
    <3>1. Abs!Invoke
      BY <2>1, SameContract DEF Invoke, Abs!Invoke, IInv, LoopState
    <3> QED
      BY <3>1 DEF Abs!Next
  <2>2. ASSUME NEW op, NEW res, Iterate(op, res)
        PROVE  [Abs!Next]_(Abs!vars)
    <3>1. CASE pc' = "loop"
      BY <2>2, <3>1 DEF Iterate, Abs!vars
    <3>2. CASE pc' = "done"
      <4>1. Promise(call, entry, mem, carry, carries)' /\ (carries \in Chain)'
        BY <3>2, <1>2
      <4>2. Abs!Complete
        BY <2>2, <3>2, <4>1, SameContract DEF Iterate, Abs!Complete, IInv, TypeOK
      <4> QED
        BY <4>2 DEF Abs!Next
    <3> QED
      BY <2>2, <3>1, <3>2 DEF Iterate
  <2>3. CASE Return
    <3>1. Abs!Return
      BY <2>3, SameContract DEF Return, Abs!Return
    <3> QED
      BY <3>1 DEF Abs!Next
  <2>4. CASE UNCHANGED vars
    BY <2>4 DEF vars, Abs!vars
  <2> QED
    BY <2>1, <2>2, <2>3, <2>4 DEF Next, AddN, SubN, Mul1, AddMul1, SubMul1, ComN
<1> QED
  BY <1>1, <1>3, Invariance, PTL DEF Spec, Abs!Spec, Implements

============================================================================
