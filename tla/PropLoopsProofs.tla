--------------------------- MODULE PropLoopsProofs ---------------------------
(***************************************************************************)
(* PropLoops keeps its invariants and implements MpnCall in every base and *)
(* for every size of memory, hence for every legal overlap of operands of  *)
(* any length and wherever the carry dies out.                             *)
(*                                                                         *)
(* IInv is inductive.  StoreInv does the work once for the three loops     *)
(* that compute digits: a right digit stored at limb i keeps IInv.  The    *)
(* rest, that the carry does not reach, is right because a digit without a *)
(* carry is the limb of the source (RestDigit), copied or left in place.   *)
(***************************************************************************)
EXTENDS PropLoops, MpnFacts

USE BaseAssumption, MemSizeAssumption

\* The fields of a legal call, and where its operands lie.
LEMMA CallFacts ==
  ASSUME NEW c \in Calls(Ops)
  PROVE  /\ c.op \in Ops
         /\ c.rp \in Addr /\ c.up \in Addr /\ c.vp \in Addr
         /\ c.n \in 1 .. MemSize /\ c.v \in Limb /\ c.m \in 0 .. c.n
         /\ \A j \in 0 .. c.n - 1 : c.rp + j \in Addr /\ c.up + j \in Addr
         /\ \A j \in 0 .. c.m - 1 : c.vp + j \in Addr
         /\ c.op \notin {"add", "sub"} => c.m = 0
         /\ c.op \notin {"add_1", "sub_1"} => c.v = 0
BY DEF Ops, Addr, Calls, CallRecord, InMemory, TwoVectorOps, LimbOps, ShiftOps

\* Storing limb j of the result overwrites no operand limb above j.
LEMMA StoreIsSafe ==
  ASSUME NEW c \in Calls(Ops), NEW j \in 0 .. c.n - 1
  PROVE  /\ \A k \in j + 1 .. c.n - 1 : c.rp + j # c.rp + k /\ c.rp + j # c.up + k
         /\ \A k \in j + 1 .. c.m - 1 : c.rp + j # c.vp + k
BY CallFacts
   DEF Ops, Addr, Calls, InMemory, Asserted, TwoVectorOps,
       SameOrIncr, SameOrSeparate, SameOrSeparate2, Overlap

\* Before the first call there is nothing the invariant could be about.
LEMMA InitInv == Init => IInv
BY DEF Init, IInv, TypeOK, LoopState, ReadsOriginal, Frame, DigitsExact, Running,
       Negating, Chain, NoCall, Limb

\* The chain of a call starts with its limb operand and carries no digit yet.
LEMMA StartChainFacts ==
  ASSUME NEW c \in Calls(Ops)
  PROVE  /\ StartChain(c) \in Chain
         /\ StartChain(c)[0] = c.v
         /\ \A j \in 1 .. MemSize : StartChain(c)[j] = IF c.op = "neg_n" THEN 1 ELSE 0
BY CallFacts DEF StartChain, Chain, Limb, Ops

\* A digit that no carry enters is the limb of the source, complemented by mpn_neg_n, and
\* gives no carry out.
LEMMA RestDigit ==
  ASSUME NEW c \in Calls(Ops), NEW old \in Memory, NEW j \in c.m .. c.n - 1
  PROVE  /\ c.op = "neg_n" => Digit(c, old, j, ComLimb(old[c.up + j]), 1, 1)
         /\ c.op # "neg_n" => Digit(c, old, j, old[c.up + j], 0, 0)
<1>1. old[c.up + j] \in Limb /\ c.op \in Ops /\ j \notin 0 .. c.m - 1 /\ ~(j < c.m)
  BY CallFacts DEF Memory
<1> DEFINE u == old[c.up + j]
<1>2. u \in Int /\ ComLimb(u) = B - 1 - u
  BY <1>1 DEF ComLimb, Limb
<1> QED
  BY <1>1, <1>2 DEF Digit, Ops

\* A call is made, with the chain of its carries.
LEMMA InvokeInv == IInv /\ Invoke => IInv'
<1> SUFFICES ASSUME IInv, Invoke PROVE IInv'
  OBVIOUS
<1>1. /\ call' \in Calls(Ops) /\ chain' = StartChain(call') /\ i = 0 /\ cout = 0 /\ entry = mem
      /\ UNCHANGED <<mem, i, cout, entry>> /\ pc # "done"
      /\ pc' \in {"both", "rest", "com", "first"}
      /\ pc' = "both" => call'.op \in {"add", "sub"} /\ call'.m # 0
      /\ pc' = "rest" => call'.op \in {"add", "sub"} /\ call'.m = 0
      /\ pc' = "com" => call'.op = "neg_n"
      /\ pc' = "first" => call'.op \in {"add_1", "sub_1"}
  BY CallFacts DEF Invoke, IInv, LoopState, Ops
<1>2. /\ chain' \in Chain /\ chain'[0] = call'.v
      /\ call'.n \in 1 .. MemSize /\ call'.m \in 0 .. call'.n
      /\ call'.op \notin {"add_1", "sub_1"} => call'.v = 0
      /\ call'.op \notin {"add", "sub"} => call'.m = 0
  BY <1>1, StartChainFacts, CallFacts
<1>3. TypeOK'
  BY <1>1, <1>2 DEF IInv, TypeOK
<1>4. LoopState'
  BY <1>1, <1>2 DEF LoopState, Negating
<1>5. ReadsOriginal'
  BY <1>1, <1>2 DEF ReadsOriginal, Running, Src, Negating
<1>6. Frame' /\ DigitsExact'
  BY <1>1, <1>2 DEF Frame, DigitsExact
<1> QED
  BY <1>3, <1>4, <1>5, <1>6 DEF IInv

\* Storing the right digit in limb i keeps the invariant.
LEMMA StoreInv ==
  ASSUME IInv, pc \in {"both", "first", "prop"}, i < call.n, NEW res, Store(res),
         res.limb \in Limb, res.carry \in {0, 1},
         pc # "both" => i + 1 >= call.m,
         Digit(call, entry, i, res.limb, chain[i],
               IF Negating THEN 1 - res.carry ELSE res.carry)
  PROVE  IInv'
<1> DEFINE hi == IF Negating THEN 1 - res.carry ELSE res.carry
<1>1. /\ call \in Calls(Ops) /\ mem \in Memory /\ entry \in Memory /\ chain \in Chain
      /\ i \in 0 .. call.n - 1 /\ call.n \in 1 .. MemSize /\ call.m \in 0 .. call.n
      /\ call.rp \in Nat /\ call.rp + i \in Addr /\ hi \in {0, 1}
      /\ \A j \in 0 .. call.n - 1 : call.rp + j \in Addr /\ call.up + j \in Addr
      /\ \A j \in 0 .. call.m - 1 : call.vp + j \in Addr
  <2>1. call \in Calls(Ops) /\ i \in 0 .. MemSize
    BY DEF IInv, TypeOK
  <2>2. i \in 0 .. call.n - 1 /\ call.rp \in Nat
    BY <2>1, CallFacts DEF Addr
  <2> QED
    BY <2>1, <2>2, CallFacts DEF IInv, TypeOK
<1>2. /\ call' = call /\ entry' = entry /\ i' = i + 1 /\ cout' = res.carry
      /\ mem' = [mem EXCEPT ![call.rp + i] = res.limb]
      /\ chain' = [chain EXCEPT ![i + 1] = hi]
      /\ pc' = IF pc = "both" /\ i + 1 < call.m THEN "both"
               ELSE IF res.carry # 0 THEN "prop" ELSE "rest"
      /\ Negating' = Negating /\ Src' = Src
  BY DEF Store, Negating, Src
<1> HIDE DEF hi
<1>3. /\ mem' \in Memory /\ mem'[call.rp + i] = res.limb
      /\ \A a \in Addr : a # call.rp + i => mem'[a] = mem[a]
  BY <1>1, <1>2 DEF Memory
<1>4. /\ chain' \in Chain /\ chain'[i + 1] = hi
      /\ \A j \in 0 .. MemSize : j # i + 1 => chain'[j] = chain[j]
  <2>1. hi \in Limb /\ i + 1 \in 0 .. MemSize /\ chain \in [0 .. MemSize -> Limb]
    BY <1>1 DEF Chain, Limb
  <2> QED
    BY <1>2, <2>1 DEF Chain
<1>5. TypeOK'
  BY <1>1, <1>2, <1>3, <1>4 DEF IInv, TypeOK
<1>6. LoopState'
  <2>1. chain'[0] = StartChain(call)[0] /\ \A j \in i + 2 .. MemSize : chain'[j] = StartChain(call)[j]
    BY <1>1, <1>4 DEF IInv, LoopState
  <2>2. i + 1 \in 0 .. call.n
    BY <1>1
  <2>3. pc' # "both" => i + 1 \in call.m .. call.n
    BY <1>1, <1>2
  <2>4. pc' = "both" => call.op \in {"add", "sub"} /\ i + 1 < call.m /\ chain'[i + 1] = res.carry
    BY <1>2, <1>4 DEF IInv, LoopState, Negating, hi
  <2>5. pc' = "prop" => chain'[i + 1] = IF Negating THEN 0 ELSE 1
    BY <1>2, <1>4 DEF hi
  <2>6. pc' = "rest" => chain'[i + 1] = IF Negating THEN 1 ELSE 0
    BY <1>2, <1>4 DEF hi
  <2>7. (i + 1) + 1 = i + 2
    BY <1>1
  <2>8. pc' \in {"both", "prop", "rest"}
    BY <1>2
  <2> QED
    BY <1>2, <2>1, <2>2, <2>3, <2>4, <2>5, <2>6, <2>7, <2>8 DEF LoopState
<1>7. ReadsOriginal'
  <2>1. \A j \in i + 1 .. call.n - 1 :
           mem[Src + j] = IF Negating THEN ComLimb(entry[call.up + j]) ELSE entry[call.up + j]
    BY <1>1 DEF IInv, ReadsOriginal, Running
  <2>2. ASSUME NEW j \in i + 1 .. call.n - 1 PROVE mem'[Src + j] = mem[Src + j]
    BY <1>1, <1>3, StoreIsSafe DEF Src
  <2>3. ASSUME pc' = "both", NEW j \in i + 1 .. call.m - 1
        PROVE  mem'[call.vp + j] = entry[call.vp + j]
    <3>1. pc = "both"
      BY <1>2, <2>3
    <3>2. mem[call.vp + j] = entry[call.vp + j]
      BY <1>1, <3>1 DEF IInv, ReadsOriginal
    <3>3. call.vp + j \in Addr /\ call.vp + j # call.rp + i
      BY <1>1, StoreIsSafe
    <3> QED
      BY <1>3, <3>2, <3>3
  <2>4. pc' # "com"
    BY <1>2
  <2> QED
    BY <1>2, <2>1, <2>2, <2>3, <2>4 DEF ReadsOriginal
<1>8. Frame'
  <2>1. call.rp + i \in Region(call.rp, call.n)
    BY <1>1 DEF Region
  <2>2. pc' # "idle"
    BY <1>2
  <2> QED
    BY <1>2, <1>3, <2>1, <2>2 DEF IInv, Frame
<1>9. DigitsExact'
  <2>1. ASSUME NEW j \in 0 .. i
        PROVE  Digit(call, entry, j, mem'[call.rp + j], chain'[j], chain'[j + 1])
    <3>1. CASE j = i
      <4>1. chain'[i] = chain[i]
        BY <1>1, <1>4
      <4> QED
        BY <1>3, <1>4, <3>1, <4>1 DEF hi
    <3>2. CASE j # i
      <4>1. j \in 0 .. i - 1 /\ j \in 0 .. call.n - 1
        BY <1>1, <3>2
      <4>2. Digit(call, entry, j, mem[call.rp + j], chain[j], chain[j + 1])
        BY <4>1 DEF IInv, DigitsExact
      <4>3. /\ call.rp + j # call.rp + i /\ call.rp + j \in Addr
            /\ j \in 0 .. MemSize /\ j + 1 \in 0 .. MemSize /\ j # i + 1 /\ j + 1 # i + 1
        BY <1>1, <3>2, <4>1
      <4> QED
        BY <1>3, <1>4, <4>2, <4>3
    <3> QED
      BY <3>1, <3>2
  <2>2. pc' # "done" /\ (i + 1) - 1 = i
    BY <1>1, <1>2
  <2> QED
    BY <1>2, <2>1, <2>2 DEF DigitsExact
<1> QED
  BY <1>5, <1>6, <1>7, <1>8, <1>9 DEF IInv


\* What a loop that computes digits reads at limb i.
LEMMA SourceLimb ==
  ASSUME IInv, pc \in {"both", "first", "prop", "rest"}, i < call.n
  PROVE  /\ call \in Calls(Ops) /\ call.op \in Ops /\ i \in 0 .. call.n - 1
         /\ entry[call.up + i] \in Limb /\ X \in Limb
         /\ X = IF Negating THEN B - 1 - entry[call.up + i] ELSE entry[call.up + i]
<1>1. call \in Calls(Ops) /\ i \in 0 .. MemSize /\ entry \in Memory
  BY DEF IInv, TypeOK
<1>2. call.op \in Ops /\ i \in 0 .. call.n - 1 /\ call.up + i \in Addr
  BY <1>1, CallFacts
<1>3. entry[call.up + i] \in Limb /\ B - 1 - entry[call.up + i] \in Limb
  BY <1>1, <1>2 DEF Memory, Limb
<1>4. X = IF Negating THEN ComLimb(entry[call.up + i]) ELSE entry[call.up + i]
  BY <1>2 DEF IInv, ReadsOriginal, Running, X
<1> QED
  BY <1>1, <1>2, <1>3, <1>4 DEF ComLimb

\* The limb that takes a carry of y: the sum or the difference, exactly.
LEMMA PlusExact ==
  ASSUME NEW x \in Limb, NEW y \in Limb
  PROVE  LET s == Plus(x, y)
         IN  /\ s.limb \in Limb /\ s.carry \in {0, 1}
             /\ Adding => s.limb + B * s.carry = x + y
             /\ ~Adding => s.limb - B * s.carry = x - y
<1>1. CASE Adding
  <2>1. Plus(x, y) = AddLimb(x, y, 0)
    BY <1>1 DEF Plus
  <2>2. LET s == AddLimb(x, y, 0)
        IN  s.limb \in Limb /\ s.carry \in {0, 1} /\ s.limb + B * s.carry = x + y + 0
    BY AddLimbExact
  <2> QED
    BY <1>1, <2>1, <2>2 DEF Limb
<1>2. CASE ~Adding
  <2>1. Plus(x, y) = SubLimb(x, y, 0)
    BY <1>2 DEF Plus
  <2>2. LET s == SubLimb(x, y, 0)
        IN  s.limb \in Limb /\ s.carry \in {0, 1} /\ s.limb - B * s.carry = x - y - 0
    BY SubLimbExact
  <2> QED
    BY <1>2, <2>1, <2>2 DEF Limb
<1> QED
  BY <1>1, <1>2

\* The loop of mpn_add_n or mpn_sub_n over both operands.
LEMMA BothInv == IInv /\ Both => IInv'
<1> SUFFICES ASSUME IInv, Both PROVE IInv'
  OBVIOUS
<1> DEFINE v == mem[call.vp + i]  u == entry[call.up + i]
           res == IF Adding THEN AddLimb(X, v, cout) ELSE SubLimb(X, v, cout)
<1>1. /\ pc = "both" /\ call \in Calls(Ops) /\ i \in 0 .. call.m - 1 /\ i < call.n
      /\ chain[i] = cout /\ cout \in {0, 1} /\ call.op \in {"add", "sub"}
      /\ mem \in Memory /\ call.vp + i \in Addr
  BY CallFacts DEF Both, IInv, TypeOK, LoopState
<1>2. X = u /\ u \in Limb
  BY <1>1, SourceLimb DEF Negating
<1>3. v = entry[call.vp + i] /\ v \in Limb
  BY <1>1 DEF IInv, ReadsOriginal, Memory
<1>4. Store(res)
  BY DEF Both
<1> HIDE DEF v, u
<1>5. /\ res.limb \in Limb /\ res.carry \in {0, 1}
      /\ call.op = "add" => res.limb + B * res.carry = u + v + cout
      /\ call.op = "sub" => res.limb - B * res.carry = u - v - cout
  <2>1. CASE call.op = "add"
    BY <1>1, <1>2, <1>3, <2>1, AddLimbExact DEF Adding
  <2>2. CASE call.op = "sub"
    BY <1>1, <1>2, <1>3, <2>2, SubLimbExact DEF Adding
  <2> QED
    BY <1>1, <2>1, <2>2
<1> HIDE DEF res
<1>6. Digit(call, entry, i, res.limb, chain[i], IF Negating THEN 1 - res.carry ELSE res.carry)
  <2>1. i < call.m /\ (IF Negating THEN 1 - res.carry ELSE res.carry) = res.carry
    BY <1>1, CallFacts DEF Negating
  <2>2. CASE call.op = "add"
    BY <1>1, <1>3, <1>5, <2>1, <2>2 DEF Digit, u
  <2>3. CASE call.op = "sub"
    BY <1>1, <1>3, <1>5, <2>1, <2>3 DEF Digit, u
  <2> QED
    BY <1>1, <2>2, <2>3
<1> QED
  BY <1>1, <1>4, <1>5, <1>6, StoreInv

\* mpn_add_1 and mpn_sub_1 at the first limb, and the loop that propagates a carry: the
\* carry into the digit is y.
LEMMA PlusInv ==
  ASSUME IInv, pc \in {"first", "prop"}, i < call.n, i + 1 >= call.m,
         NEW y \in Limb, Store(Plus(X, y)),
         Negating => y = 1 /\ chain[i] = 0,
         ~Negating => y = chain[i] /\ (call.op \in {"add", "sub"} => i >= call.m)
  PROVE  IInv'
<1> DEFINE res == Plus(X, y)  u == entry[call.up + i]
           hi == IF Negating THEN 1 - res.carry ELSE res.carry
<1>1. /\ call \in Calls(Ops) /\ call.op \in Ops /\ i \in 0 .. call.n - 1
      /\ u \in Limb /\ X \in Limb /\ X = IF Negating THEN B - 1 - u ELSE u
  BY SourceLimb
<1>2. /\ res.limb \in Limb /\ res.carry \in {0, 1}
      /\ Adding => res.limb + B * res.carry = X + y
      /\ ~Adding => res.limb - B * res.carry = X - y
  BY <1>1, PlusExact
<1>3. Store(res)
  OBVIOUS
<1> HIDE DEF res
<1>4. Digit(call, entry, i, res.limb, chain[i], hi)
  <2> HIDE DEF u
  <2>1. CASE Negating
    <3>1. res.limb + B * res.carry = B - u
      BY <1>1, <1>2, <2>1 DEF Adding, Negating, Limb
    <3>2. res.limb - B * (1 - res.carry) = 0 - u - 0
      BY <1>1, <1>2, <3>1 DEF Limb
    <3> QED
      BY <1>1, <2>1, <3>2 DEF Digit, Negating, u
  <2>2. CASE call.op = "add_1"
    BY <1>1, <1>2, <2>2 DEF Digit, Adding, Negating, u
  <2>3. CASE call.op = "sub_1"
    BY <1>1, <1>2, <2>3 DEF Digit, Adding, Negating, u
  <2>4. CASE call.op = "add"
    <3>1. ~(i < call.m)
      BY <1>1, <2>4, CallFacts DEF Negating
    <3>2. res.limb + B * res.carry = u + 0 + chain[i]
      BY <1>1, <1>2, <2>4 DEF Adding, Negating, Limb
    <3> QED
      BY <2>4, <3>1, <3>2 DEF Digit, Negating, u
  <2>5. CASE call.op = "sub"
    <3>1. ~(i < call.m)
      BY <1>1, <2>5, CallFacts DEF Negating
    <3>2. res.limb - B * res.carry = u - 0 - chain[i]
      BY <1>1, <1>2, <2>5 DEF Adding, Negating, Limb
    <3> QED
      BY <2>5, <3>1, <3>2 DEF Digit, Negating, u
  <2> QED
    BY <1>1, <2>1, <2>2, <2>3, <2>4, <2>5 DEF Ops, Negating
<1> QED
  BY <1>2, <1>3, <1>4, StoreInv

\* mpn_add_1 and its like, and mpn_neg_n after its complements, add their limb to the first.
LEMMA FirstInv == IInv /\ First => IInv'
<1> SUFFICES ASSUME IInv, First PROVE IInv'
  OBVIOUS
<1>1. /\ pc = "first" /\ call \in Calls(Ops) /\ i = 0 /\ call.op \notin {"add", "sub"}
      /\ chain[0] = StartChain(call)[0] /\ Store(Plus(X, IF Negating THEN 1 ELSE call.v))
  BY DEF First, IInv, TypeOK, LoopState
<1>2. call.n \in 1 .. MemSize /\ call.m = 0 /\ call.v \in Limb /\ chain[0] = call.v
      /\ (Negating => call.v = 0)
  BY <1>1, CallFacts, StartChainFacts DEF Negating
<1>3. (IF Negating THEN 1 ELSE call.v) \in Limb
  BY <1>2 DEF Limb
<1> QED
  BY <1>1, <1>2, <1>3, PlusInv

\* A carry goes up through the limbs it finds full.
LEMMA PropagateInv == IInv /\ Propagate => IInv'
<1> SUFFICES ASSUME IInv, Propagate PROVE IInv'
  OBVIOUS
<1>1. /\ pc = "prop" /\ i \in call.m .. call.n /\ i < call.n /\ Store(Plus(X, 1))
      /\ chain[i] = (IF Negating THEN 0 ELSE 1) /\ call \in Calls(Ops)
  BY DEF Propagate, IInv, TypeOK, LoopState
<1>2. i >= call.m /\ i + 1 >= call.m /\ 1 \in Limb
  BY <1>1, CallFacts DEF Limb
<1> QED
  BY <1>1, <1>2, PlusInv


\* The loop of mpn_com_n, in front of the addition of mpn_neg_n.
LEMMA ComInv == IInv /\ Com => IInv'
<1> SUFFICES ASSUME IInv, Com PROVE IInv'
  OBVIOUS
<1> DEFINE u == entry[call.up + i]
<1>1. /\ pc = "com" /\ call \in Calls(Ops) /\ call.op = "neg_n" /\ i \in 0 .. call.n - 1
      /\ mem \in Memory /\ entry \in Memory /\ cout = 0 /\ chain = StartChain(call)
      /\ chain \in Chain /\ call.n \in 1 .. MemSize /\ call.m = 0
      /\ call.rp \in Nat /\ call.rp + i \in Addr /\ call.up + i \in Addr
      /\ \A j \in 0 .. call.n - 1 : call.rp + j \in Addr /\ call.up + j \in Addr
  <2>1. /\ pc = "com" /\ call \in Calls(Ops) /\ call.op = "neg_n" /\ i \in 0 .. MemSize
        /\ i < call.n /\ mem \in Memory /\ entry \in Memory /\ cout = 0
        /\ chain = StartChain(call) /\ chain \in Chain
    BY DEF Com, IInv, TypeOK, LoopState, Negating
  <2>2. i \in 0 .. call.n - 1 /\ call.rp \in Nat
    BY <2>1, CallFacts DEF Addr
  <2> QED
    BY <2>1, <2>2, CallFacts
<1>2. mem[call.up + i] = u /\ u \in Limb
  BY <1>1 DEF IInv, ReadsOriginal, Memory
<1>3. ComLimb(u) \in Limb
  BY <1>2 DEF ComLimb, Limb
<1>4. /\ mem' \in Memory /\ mem'[call.rp + i] = ComLimb(u)
      /\ \A a \in Addr : a # call.rp + i => mem'[a] = mem[a]
  BY <1>1, <1>2, <1>3 DEF Com, Memory
<1> HIDE DEF u
<1>5. /\ call' = call /\ cout' = cout /\ entry' = entry /\ chain' = chain
      /\ IF i + 1 = call.n THEN i' = 0 /\ pc' = "first" ELSE i' = i + 1 /\ pc' = "com"
      /\ Negating' /\ Src' = call.rp
  BY <1>1 DEF Com, Negating, Src
<1>6. TypeOK'
  BY <1>1, <1>4, <1>5 DEF IInv, TypeOK
<1>7. LoopState'
  <2>1. \A j \in i' + 1 .. MemSize : chain[j] = StartChain(call)[j]
    BY <1>1
  <2> QED
    BY <1>1, <1>5, <2>1 DEF LoopState
<1>8. ASSUME NEW j \in 0 .. i PROVE mem'[call.rp + j] = ComLimb(entry[call.up + j])
  <2>1. CASE j = i
    BY <1>4, <2>1 DEF u
  <2>2. CASE j # i
    <3>1. j \in 0 .. i - 1 /\ j \in 0 .. call.n - 1 /\ call.rp + j # call.rp + i
      BY <1>1, <2>2
    <3>2. mem[call.rp + j] = ComLimb(entry[call.up + j])
      BY <1>1, <3>1 DEF IInv, ReadsOriginal
    <3> QED
      BY <1>1, <1>4, <3>1, <3>2
  <2> QED
    BY <2>1, <2>2
<1>9. ReadsOriginal'
  <2>1. CASE i + 1 = call.n
    <3>1. pc' = "first" /\ i' = 0 /\ call.n - 1 = i
      BY <1>1, <1>5, <2>1
    <3> QED
      BY <1>5, <1>8, <3>1 DEF ReadsOriginal
  <2>2. CASE i + 1 # call.n
    <3>1. pc' = "com" /\ i' = i + 1 /\ (i + 1) - 1 = i
      BY <1>1, <1>5, <2>2
    <3>2. ASSUME NEW j \in i + 1 .. call.n - 1
          PROVE  mem'[call.up + j] = entry[call.up + j]
      <4>1. j \in i .. call.n - 1 /\ j \in 0 .. call.n - 1
        BY <1>1
      <4>2. mem[call.up + j] = entry[call.up + j]
        BY <1>1, <4>1 DEF IInv, ReadsOriginal
      <4>3. call.rp + i # call.up + j
        BY <1>1, StoreIsSafe
      <4> QED
        BY <1>1, <1>4, <4>1, <4>2, <4>3
    <3> QED
      BY <1>5, <1>8, <3>1, <3>2 DEF ReadsOriginal, Running
  <2> QED
    BY <2>1, <2>2
<1>10. Frame'
  <2>1. call.rp + i \in Region(call.rp, call.n)
    BY <1>1 DEF Region
  <2>2. pc' # "idle"
    BY <1>5
  <2> QED
    BY <1>1, <1>4, <1>5, <2>1, <2>2 DEF IInv, Frame
<1>11. DigitsExact'
  BY <1>1, <1>5 DEF DigitsExact
<1> QED
  BY <1>6, <1>7, <1>9, <1>10, <1>11 DEF IInv

\* The carry leaves the number: all digits are stored.
LEMMA CarryOutInv == IInv /\ CarryOut => IInv'
<1> SUFFICES ASSUME IInv, CarryOut PROVE IInv'
  OBVIOUS
<1>1. /\ pc = "prop" /\ i = call.n /\ pc' = "done" /\ cout' = IF Negating THEN 0 ELSE 1
      /\ UNCHANGED <<mem, call, i, entry, chain>>
  BY DEF CarryOut, Result
<1>2. TypeOK' /\ LoopState'
  BY <1>1 DEF IInv, TypeOK, LoopState, Negating
<1>3. ReadsOriginal' /\ Frame' /\ DigitsExact'
  BY <1>1 DEF IInv, ReadsOriginal, Frame, DigitsExact, Running
<1> QED
  BY <1>2, <1>3 DEF IInv

\* One more limb of the rest is copied.
LEMMA CopyRestInv == IInv /\ CopyRest => IInv'
<1> SUFFICES ASSUME IInv, CopyRest PROVE IInv'
  OBVIOUS
<1> DEFINE u == entry[call.up + i]
<1>1. /\ pc = "rest" /\ Src # call.rp /\ i < call.n /\ i \in call.m .. call.n
      /\ mem' = [mem EXCEPT ![call.rp + i] = X] /\ i' = i + 1
      /\ UNCHANGED <<pc, call, cout, entry, chain>> /\ Src' = Src /\ ~Negating /\ ~Negating'
      /\ chain[i] = 0 /\ mem \in Memory /\ entry \in Memory
  BY DEF CopyRest, IInv, TypeOK, LoopState, Src, Negating
<1>2. /\ call \in Calls(Ops) /\ i \in 0 .. call.n - 1 /\ u \in Limb /\ X = u
  BY <1>1, SourceLimb
<1>3. /\ call.n \in 1 .. MemSize /\ call.m \in 0 .. call.n /\ call.rp \in Nat
      /\ call.rp + i \in Addr
      /\ \A j \in 0 .. call.n - 1 : call.rp + j \in Addr /\ call.up + j \in Addr
  BY <1>2, CallFacts DEF Addr
<1>4. /\ mem' \in Memory /\ mem'[call.rp + i] = u
      /\ \A a \in Addr : a # call.rp + i => mem'[a] = mem[a]
  BY <1>1, <1>2, <1>3 DEF Memory
<1>5. chain[i + 1] = 0
  BY <1>1, <1>2, <1>3, StartChainFacts DEF IInv, LoopState, Negating
<1>6. TypeOK'
  BY <1>1, <1>2, <1>3, <1>4 DEF IInv, TypeOK
<1>7. LoopState'
  <2>1. \A j \in (i + 1) + 1 .. MemSize : chain[j] = StartChain(call)[j]
    BY <1>1, <1>2, <1>3 DEF IInv, LoopState
  <2>2. i + 1 \in call.m .. call.n
    BY <1>1, <1>2, <1>3
  <2> QED
    BY <1>1, <1>5, <2>1, <2>2 DEF IInv, LoopState
<1> HIDE DEF u
<1>8. ReadsOriginal'
  <2>1. ASSUME NEW j \in i + 1 .. call.n - 1
        PROVE  mem'[Src + j] = entry[call.up + j]
    <3>1. mem[Src + j] = entry[call.up + j]
      BY <1>1, <1>2, <1>3 DEF IInv, ReadsOriginal, Running
    <3>2. Src = call.up /\ call.rp + i # call.up + j /\ call.up + j \in Addr
      BY <1>1, <1>2, <1>3, StoreIsSafe DEF Src
    <3> QED
      BY <1>4, <3>1, <3>2
  <2> QED
    BY <1>1, <2>1 DEF ReadsOriginal
<1>9. Frame'
  <2>1. call.rp + i \in Region(call.rp, call.n)
    BY <1>2, <1>3 DEF Region
  <2> QED
    BY <1>1, <1>3, <1>4, <2>1 DEF IInv, Frame
<1>10. DigitsExact'
  <2>1. ASSUME NEW j \in 0 .. i
        PROVE  Digit(call, entry, j, mem'[call.rp + j], chain[j], chain[j + 1])
    <3>1. CASE j = i
      <4>1. i \in call.m .. call.n - 1 /\ call.op # "neg_n"
        BY <1>1, <1>2, <1>3 DEF Negating
      <4>2. Digit(call, entry, i, entry[call.up + i], 0, 0)
        BY <1>1, <1>2, <4>1, RestDigit
      <4> QED
        BY <1>1, <1>4, <1>5, <3>1, <4>2 DEF u
    <3>2. CASE j # i
      <4>1. j \in 0 .. i - 1 /\ j \in 0 .. call.n - 1 /\ call.rp + j # call.rp + i
        BY <1>2, <1>3, <3>2
      <4>2. Digit(call, entry, j, mem[call.rp + j], chain[j], chain[j + 1])
        BY <1>1, <4>1 DEF IInv, DigitsExact
      <4> QED
        BY <1>3, <1>4, <4>1, <4>2
    <3> QED
      BY <3>1, <3>2
  <2>2. (i + 1) - 1 = i
    BY <1>2
  <2> QED
    BY <1>1, <2>1, <2>2 DEF DigitsExact
<1> QED
  BY <1>6, <1>7, <1>8, <1>9, <1>10 DEF IInv


\* The carry has died out: what is left of the source has been copied, or stays where it
\* is because source and result are the same.
LEMMA NoCarryOutInv == IInv /\ NoCarryOut => IInv'
<1> SUFFICES ASSUME IInv, NoCarryOut PROVE IInv'
  OBVIOUS
<1>1. /\ pc = "rest" /\ (Src = call.rp \/ i = call.n) /\ pc' = "done"
      /\ cout' = (IF Negating THEN 1 ELSE 0) /\ UNCHANGED <<mem, call, i, entry, chain>>
      /\ call \in Calls(Ops) /\ mem \in Memory /\ entry \in Memory
      /\ i \in call.m .. call.n /\ chain[i] = IF Negating THEN 1 ELSE 0
  BY DEF NoCarryOut, Result, IInv, TypeOK, LoopState
<1>2. call.n \in 1 .. MemSize /\ call.m \in 0 .. call.n /\ i \in 0 .. call.n
  BY <1>1, CallFacts
<1>3. \A j \in i .. call.n : chain[j] = IF Negating THEN 1 ELSE 0
  <2>1. ASSUME NEW j \in i .. call.n, j # i PROVE chain[j] = IF Negating THEN 1 ELSE 0
    <3>1. j \in i + 1 .. MemSize /\ j \in 1 .. MemSize
      BY <1>2, <2>1
    <3>2. chain[j] = StartChain(call)[j]
      BY <1>1, <3>1 DEF IInv, LoopState
    <3> QED
      BY <1>1, <3>1, <3>2, StartChainFacts DEF Negating
  <2> QED
    BY <1>1, <2>1
<1>4. TypeOK'
  BY <1>1 DEF IInv, TypeOK
<1>5. LoopState'
  <2>1. call.n \in i .. call.n
    BY <1>2
  <2> QED
    BY <1>1, <1>3, <2>1 DEF IInv, LoopState
<1>6. ReadsOriginal' /\ Frame'
  BY <1>1 DEF IInv, ReadsOriginal, Frame, Running
<1>7. ASSUME NEW j \in 0 .. call.n - 1
      PROVE  Digit(call, entry, j, mem[call.rp + j], chain[j], chain[j + 1])
  <2>1. CASE j < i
    <3>1. j \in 0 .. i - 1
      BY <1>2, <2>1
    <3> QED
      BY <1>1, <3>1 DEF IInv, DigitsExact
  <2>2. CASE ~(j < i)
    <3>1. j \in i .. call.n - 1 /\ j \in i .. call.n /\ j + 1 \in i .. call.n
          /\ j \in call.m .. call.n - 1 /\ i # call.n
      BY <1>1, <1>2, <2>2
    <3>2. mem[call.rp + j] = IF Negating THEN ComLimb(entry[call.up + j]) ELSE entry[call.up + j]
      BY <1>1, <3>1 DEF IInv, ReadsOriginal, Running
    <3>3. chain[j] = (IF Negating THEN 1 ELSE 0) /\ chain[j + 1] = (IF Negating THEN 1 ELSE 0)
      BY <1>3, <3>1
    <3> QED
      BY <1>1, <3>1, <3>2, <3>3, RestDigit DEF Negating
  <2> QED
    BY <1>2, <2>1, <2>2
<1>8. DigitsExact'
  BY <1>1, <1>7 DEF DigitsExact
<1> QED
  BY <1>4, <1>5, <1>6, <1>8 DEF IInv

\* Every step keeps the inductive invariant.
LEMMA NextInv == IInv /\ [Next]_vars => IInv'
<1> SUFFICES ASSUME IInv, [Next]_vars PROVE IInv'
  OBVIOUS
<1>1. CASE Return
  BY <1>1 DEF Return, IInv, TypeOK, LoopState, ReadsOriginal, Frame, DigitsExact,
              Running, Negating, NoCall, Chain, Limb
<1>2. CASE UNCHANGED vars
  BY <1>2 DEF vars, IInv, TypeOK, LoopState, ReadsOriginal, Frame, DigitsExact,
              Running, Negating, Src
<1> QED
  BY <1>1, <1>2, InvokeInv, BothInv, ComInv, FirstInv, PropagateInv, CarryOutInv,
     CopyRestInv, NoCarryOutInv DEF Next

\* The inductive invariant holds in every reachable state.
THEOREM Invariance == Spec => []IInv
BY InitInv, NextInv, PTL DEF Spec

\* The variables keep their types: the carry is 0 or 1 and no access leaves the memory.
THEOREM TypeCorrect == Spec => []TypeOK
BY Invariance, PTL DEF IInv

\* The propagation and the copy of the rest read the source as it was passed.
THEOREM ReadsOriginalHolds == Spec => []ReadsOriginal
BY Invariance, PTL DEF IInv

\* No function changes a limb outside its result.
THEOREM FrameHolds == Spec => []Frame
BY Invariance, PTL DEF IInv

\* Every limb of the result is the digit of the exact result, those the carry does not
\* reach included.
THEOREM DigitsExactHolds == Spec => []DigitsExact
BY Invariance, PTL DEF IInv

\* A call that ends has kept its promise.
LEMMA DonePromise ==
  IInv /\ pc = "done" => chain \in Chain /\ Promise(call, entry, mem, cout, chain)
<1> SUFFICES ASSUME IInv, pc = "done"
             PROVE  chain \in Chain /\ Promise(call, entry, mem, cout, chain)
  OBVIOUS
<1>1. /\ call \in Calls(Ops) /\ call.op \in Ops /\ chain[0] = call.v /\ chain[call.n] = cout
      /\ call.op \notin {"add_1", "sub_1"} => call.v = 0
  BY CallFacts, StartChainFacts DEF IInv, TypeOK, LoopState
<1>2. Ends(call, chain, cout)
  BY <1>1 DEF Ends, Ops
<1>3. \A a \in Addr \ Region(call.rp, call.n) : mem[a] = entry[a]
  BY DEF IInv, Frame
<1> QED
  BY <1>2, <1>3 DEF Promise, IInv, TypeOK, DigitsExact

\* A call that ends has stored the exact sum, difference or negative and returned its
\* carry or borrow, as whole numbers: for operands of any length, in every base.
THEOREM ResultExactHolds == Spec => []ResultExact
<1>1. ASSUME IInv PROVE ResultExact
  <2> SUFFICES ASSUME pc = "done" PROVE ExactResult(call, entry, mem, cout)
    BY DEF ResultExact
  <2>1. call \in Calls(Op) /\ entry \in Memory /\ mem \in Memory /\ cout \in Limb
    BY <1>1 DEF IInv, TypeOK, Calls, Ops, Op, TwoVectorOps, LimbOps, Limb
  <2>2. chain \in Chain /\ Promise(call, entry, mem, cout, chain)
    BY <1>1, DonePromise
  <2> QED
    BY <2>1, <2>2, PromiseExact
<1> QED
  BY <1>1, Invariance, PTL


\* The contract MpnCall refers to is the one the loops are called under.
LEMMA SameContract ==
  /\ Abs!NoCall = NoCall /\ Abs!Memory = Memory /\ Abs!Limb = Limb
  /\ Calls(Ops) \subseteq Abs!Calls(Abs!Op)
  /\ \A c, old, new, r, ch :
       ch \in Chain /\ Promise(c, old, new, r, ch)
         => ch \in Abs!Chain /\ Abs!Promise(c, old, new, r, ch)
<1>1. Abs!NoCall = NoCall /\ Abs!Memory = Memory /\ Abs!Limb = Limb /\ Abs!Chain = Chain
      /\ Abs!Addr = Addr
  BY DEF Abs!NoCall, NoCall, Abs!Memory, Memory, Abs!Addr, Addr, Abs!Limb, Limb,
         Abs!Chain, Chain
<1>2. Abs!Op = Op /\ Abs!CallRecord = CallRecord
  BY <1>1 DEF Abs!Op, Op, Abs!TwoVectorOps, TwoVectorOps, Abs!LimbOps, LimbOps,
              Abs!ShiftOps, ShiftOps, Abs!CallRecord, CallRecord
<1>3. ASSUME NEW c PROVE InMemory(c) = Abs!InMemory(c)
  BY <1>1 DEF Abs!InMemory, InMemory, Abs!TwoVectorOps, TwoVectorOps, Abs!LimbOps, LimbOps,
              Abs!ShiftOps, ShiftOps, Abs!ShiftFactor, ShiftFactor
<1>4. ASSUME NEW c PROVE Asserted(c) = Abs!Asserted(c)
  BY DEF Abs!Asserted, Asserted, Abs!TwoVectorOps, TwoVectorOps,
         Abs!SameOrIncr, SameOrIncr, Abs!SameOrDecr, SameOrDecr, Abs!SameOrSeparate,
         SameOrSeparate, Abs!SameOrSeparate2, SameOrSeparate2, Abs!Overlap, Overlap
<1>5. Calls(Ops) \subseteq Abs!Calls(Abs!Op)
  BY <1>2, <1>3, <1>4 DEF Calls, Abs!Calls, Ops, Op, TwoVectorOps, LimbOps
<1>6. ASSUME NEW c, NEW old, NEW j, NEW r, NEW lo, NEW hi
      PROVE  Digit(c, old, j, r, lo, hi) = Abs!Digit(c, old, j, r, lo, hi)
  BY DEF Digit, Abs!Digit
<1>7. ASSUME NEW c, NEW ch, NEW r
      PROVE  Ends(c, ch, r) = Abs!Ends(c, ch, r)
  BY DEF Ends, Abs!Ends
<1>8. ASSUME NEW c, NEW old, NEW new, NEW r, NEW ch, Promise(c, old, new, r, ch)
      PROVE  Abs!Promise(c, old, new, r, ch)
  BY <1>8, <1>1, <1>6, <1>7 DEF Promise, Abs!Promise, Region, Abs!Region
<1> QED
  BY <1>1, <1>5, <1>8

\* Every step of the loops is a step of a call, or none.
THEOREM Refinement == Spec => Implements
<1>1. Init => Abs!Init
  BY SameContract DEF Init, Abs!Init, AbsMem, AbsPhase, AbsRet, Running
<1>2. (IInv /\ pc = "done" => chain \in Chain /\ Promise(call, entry, mem, cout, chain))'
  BY DonePromise, PTL
<1>3. IInv /\ IInv' /\ [Next]_vars => [Abs!Next]_(Abs!vars)
  <2> SUFFICES ASSUME IInv, IInv', [Next]_vars
               PROVE  [Abs!Next]_(Abs!vars)
    OBVIOUS
  <2> USE DEF AbsMem, AbsPhase, AbsRet, Running
  <2>1. CASE Invoke
    <3>1. pc' \in {"both", "rest", "com", "first"} /\ entry = mem
      BY <2>1 DEF Invoke, IInv, LoopState
    <3>2. Abs!Invoke
      BY <2>1, <3>1, SameContract DEF Invoke, Abs!Invoke
    <3> QED
      BY <3>2 DEF Abs!Next
  <2>2. CASE Both \/ Com \/ First \/ Propagate \/ CopyRest
    <3>1. Running /\ Running' /\ UNCHANGED <<call, entry>>
      BY <2>2 DEF Both, Com, First, Propagate, CopyRest, Store
    <3> QED
      BY <3>1 DEF Abs!vars
  <2>3. CASE CarryOut \/ NoCarryOut
    <3>1. /\ Running /\ pc' = "done"
          /\ mem' = mem /\ call' = call /\ entry' = entry
      BY <2>3 DEF CarryOut, NoCarryOut
    <3>2. (Promise(call, entry, mem, cout, chain) /\ chain \in Chain)'
      BY <1>2, <3>1
    <3>3. cout' \in Limb /\ mem' \in Memory
      BY DEF IInv, TypeOK, Limb
    <3>4. Abs!Complete
      BY <3>1, <3>2, <3>3, SameContract DEF Abs!Complete
    <3> QED
      BY <3>4 DEF Abs!Next
  <2>4. CASE Return
    <3>1. Abs!Return
      BY <2>4, SameContract DEF Return, Abs!Return
    <3> QED
      BY <3>1 DEF Abs!Next
  <2>5. CASE UNCHANGED vars
    BY <2>5 DEF vars, Abs!vars
  <2> QED
    BY <2>1, <2>2, <2>3, <2>4, <2>5 DEF Next
<1> QED
  BY <1>1, <1>3, Invariance, PTL DEF Spec, Abs!Spec, Implements

============================================================================
