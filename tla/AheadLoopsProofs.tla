-------------------------- MODULE AheadLoopsProofs --------------------------
(***************************************************************************)
(* AheadLoops keeps its invariants and implements MpnCall in every base    *)
(* and for every size of memory, hence for copies and shifts of any length *)
(* onto a destination any distance away in the direction they allow.       *)
(*                                                                         *)
(* IInv is inductive: what is held is a function of the source limb loaded *)
(* last, so a limb is stored right as soon as the limb beyond it has been  *)
(* loaded, and storing it leaves the limbs not yet loaded alone.           *)
(***************************************************************************)
EXTENDS AheadLoops, MpnFacts

USE BaseAssumption, MemSizeAssumption

\* The fields of a legal call, and where its operands lie.
LEMMA CallFacts ==
  ASSUME NEW c \in Calls(Ops)
  PROVE  /\ c.op \in Ops
         /\ c.rp \in Addr /\ c.up \in Addr /\ c.n \in 1 .. MemSize
         /\ \A j \in 0 .. c.n - 1 : c.rp + j \in Addr /\ c.up + j \in Addr
BY DEF Ops, Addr, Calls, CallRecord, InMemory

\* The two factors of a shift.
LEMMA ShiftFactors ==
  ASSUME NEW c \in Calls(Ops), c.op \in ShiftOps
  PROVE  /\ c.v \in 2 .. B - 1
         /\ B \div c.v \in 2 .. B - 1
         /\ c.v * (B \div c.v) = B
BY ArgumentFacts, ShiftFactorFacts DEF Calls, Ops, Op, ShiftOps

\* What is held and what crosses, for one source limb.
LEMMA Pieces ==
  ASSUME call \in Calls(Ops), NEW x \in Limb
  PROVE  /\ Kept(x) \in Limb /\ Crossing(x) \in Limb /\ Carried(x) \in Limb
         /\ call.op = "lshift" =>
              /\ x * call.v = B * Carried(x) + Kept(x)
              /\ Crossing(x) = Carried(x) /\ Carried(x) \in 0 .. call.v - 1
              /\ Kept(x) \in 0 .. B - call.v
         /\ call.op = "rshift" =>
              /\ x = call.v * Kept(x) + Carried(x)
              /\ Crossing(x) = CoFactor * Carried(x) /\ Carried(x) \in 0 .. call.v - 1
              /\ Kept(x) \in 0 .. CoFactor - 1
         /\ call.op \in {"copyi", "copyd"} => Kept(x) = x /\ Crossing(x) = 0 /\ Carried(x) = 0
<1>1. CASE call.op = "lshift"
  <2>1. call.v \in 2 .. B - 1 /\ CoFactor \in 2 .. B - 1 /\ call.v * CoFactor = B
    BY <1>1, ShiftFactors DEF CoFactor, ShiftOps
  <2>2. Kept(x) = Wrap(x * call.v) /\ Crossing(x) = x \div CoFactor
        /\ Carried(x) = x \div CoFactor
    BY <1>1 DEF Kept, Crossing, Carried
  <2>3. x * call.v = B * (x \div CoFactor) + Wrap(x * call.v)
        /\ x \div CoFactor \in 0 .. call.v - 1 /\ Wrap(x * call.v) \in 0 .. B - call.v
    BY <2>1, LeftShiftFacts
  <2> HIDE DEF Kept, Crossing, Carried, CoFactor
  <2> QED
    BY <1>1, <2>1, <2>2, <2>3 DEF Limb
<1>2. CASE call.op = "rshift"
  <2>1. call.v \in 2 .. B - 1 /\ CoFactor \in 2 .. B - 1 /\ call.v * CoFactor = B
    BY <1>2, ShiftFactors DEF CoFactor, ShiftOps
  <2>2. Kept(x) = x \div call.v /\ Crossing(x) = Wrap(x * CoFactor)
        /\ Carried(x) = x % call.v
    BY <1>2 DEF Kept, Crossing, Carried
  <2>3. /\ x = call.v * (x \div call.v) + (x % call.v)
        /\ x \div call.v \in 0 .. CoFactor - 1
        /\ x % call.v \in 0 .. call.v - 1
        /\ Wrap(x * CoFactor) = CoFactor * (x % call.v)
    BY <2>1, RightShiftFacts
  <2>4. Wrap(x * CoFactor) \in Limb
    <3>1. x * CoFactor \in Int
      BY <2>1 DEF Limb
    <3> QED
      BY <3>1, WrapFacts
  <2> HIDE DEF Kept, Crossing, Carried, CoFactor
  <2> QED
    BY <1>2, <2>1, <2>2, <2>3, <2>4 DEF Limb
<1>3. CASE call.op \in {"copyi", "copyd"}
  BY <1>3 DEF Kept, Crossing, Carried, Limb
<1> QED
  BY <1>1, <1>2, <1>3, CallFacts DEF Ops

\* The bits held and those that cross make a digit of the result: x is the
\* limb held, y the limb beyond it.
LEMMA StoredDigit ==
  ASSUME call \in Calls(Ops), NEW x \in Limb, NEW y \in Limb
  PROVE  /\ Kept(x) + Crossing(y) \in Limb
         /\ \A j \in 0 .. call.n - 1 : entry[call.up + j] = x =>
              IF Down THEN Digit(call, entry, j, Kept(x) + Crossing(y), Carried(y), Carried(x))
                      ELSE Digit(call, entry, j, Kept(x) + Crossing(y), Carried(x), Carried(y))
<1>1. CASE call.op = "lshift"
  <2>1. call.v \in 2 .. B - 1
    BY <1>1, ShiftFactors DEF ShiftOps
  <2>2. /\ x * call.v = B * Carried(x) + Kept(x) /\ Kept(x) \in 0 .. B - call.v
        /\ Carried(x) \in Limb /\ Crossing(y) = Carried(y) /\ Carried(y) \in 0 .. call.v - 1
    BY <1>1, Pieces
  <2>3. Kept(x) + Crossing(y) \in Limb
    BY <2>1, <2>2 DEF Limb
  <2>4. B * Carried(x) \in Int
    BY <2>2 DEF Limb
  <2>5. Kept(x) + Crossing(y) + B * Carried(x) = x * call.v + Carried(y)
    BY <2>1, <2>2, <2>4
  <2> QED
    BY <1>1, <2>3, <2>5 DEF Digit, Down
<1>2. CASE call.op = "rshift"
  <2> DEFINE q == CoFactor  v == call.v  h == Kept(x)  l == Carried(y)
  <2>1. v \in 2 .. B - 1 /\ q \in 2 .. B - 1 /\ v * q = B
    BY <1>2, ShiftFactors DEF CoFactor, ShiftOps
  <2>2. /\ x = v * h + Carried(x) /\ h \in 0 .. q - 1 /\ Carried(x) \in 0 .. v - 1
        /\ Crossing(y) = q * l /\ l \in 0 .. v - 1
    BY <1>2, Pieces
  <2> HIDE DEF q, v, h, l
  <2>3. q * l <= q * (v - 1) /\ q * (v - 1) = B - q /\ q * l \in Nat
    BY <2>1, <2>2
  <2>4. v * (h + q * l) = v * h + B * l
    <3>1. v * (h + q * l) = v * h + (v * q) * l
      BY <2>1, <2>2
    <3> QED
      BY <3>1, <2>1
  <2>5. h + q * l \in Limb
    BY <2>1, <2>2, <2>3 DEF Limb
  <2>6. v * (h + q * l) + Carried(x) = x + B * l
    <3>1. v * h \in Int /\ B * l \in Int
      BY <2>1, <2>2
    <3> QED
      BY <2>2, <2>4, <3>1
  <2>7. /\ Kept(x) + Crossing(y) \in Limb
        /\ call.v * (Kept(x) + Crossing(y)) + Carried(x) = x + B * Carried(y)
        /\ Carried(x) < call.v
    BY <2>1, <2>2, <2>5, <2>6 DEF v, l, h
  <2> QED
    BY <1>2, <2>7 DEF Digit, Down
<1>3. CASE call.op \in {"copyi", "copyd"}
  BY <1>3, Pieces DEF Digit, Down, Limb
<1> QED
  BY <1>1, <1>2, <1>3, CallFacts DEF Ops

\* The order of visits: a bijection of the limbs, and a store at visit k
\* overwrites no limb of the source that is visited later.
LEMMA Visits ==
  ASSUME call \in Calls(Ops)
  PROVE  \A k \in 0 .. call.n - 1 :
           /\ Pos(k) \in 0 .. call.n - 1
           /\ Boundary(k) \in 0 .. call.n
           /\ Boundary(k) = IF Down THEN Pos(k) + 1 ELSE Pos(k)
           /\ Boundary(k) # IF Down THEN 0 ELSE call.n
           /\ \A l \in k + 1 .. call.n - 1 :
                /\ call.rp + Pos(k) # call.up + Pos(l)
                /\ Pos(k) # Pos(l)
                /\ Boundary(k) # Boundary(l)
BY CallFacts
   DEF Pos, Boundary, Down, Ops, Addr, Calls, InMemory, Asserted, SameOrIncr, SameOrDecr, Overlap

\* The other boundary of a limb is the one the next limb visited crosses.
LEMMA Neighbours ==
  ASSUME call \in Calls(Ops), NEW k \in 0 .. call.n - 1
  PROVE  /\ k + 1 < call.n =>
              IF Down THEN Pos(k) = Boundary(k + 1) ELSE Pos(k) + 1 = Boundary(k + 1)
         /\ k + 1 = call.n =>
              IF Down THEN Pos(k) = 0 ELSE Pos(k) + 1 = call.n
BY CallFacts DEF Pos, Boundary, Down

\* Before the first call there is nothing the invariant could be about.
LEMMA InitInv == Init => IInv
BY DEF Init, IInv, TypeOK, LoopState, ReadsOriginal, Frame, DigitsExact,
       NoChain, Chain, NoCall, Limb

\* A call starts with its operands as they are and nothing held.
LEMMA InvokeInv == IInv /\ Invoke => IInv'
<1> SUFFICES ASSUME IInv, Invoke
             PROVE  IInv'
  OBVIOUS
<1>1. call' \in Calls(Ops) /\ call'.n \in 1 .. MemSize
  BY CallFacts DEF Invoke
<1>2. /\ pc = "idle" /\ pc' = "loop" /\ i = 0 /\ held = 0 /\ entry = mem /\ chain = NoChain
      /\ UNCHANGED <<mem, i, held, retval, entry, chain>>
  BY DEF Invoke, IInv, LoopState
<1>3. LoopState'
  BY <1>1, <1>2 DEF LoopState, NoChain
<1> QED
  BY <1>1, <1>2, <1>3 DEF IInv, TypeOK, ReadsOriginal, Frame, DigitsExact

\* The first load: its outgoing bits, the value to return, cross the outer boundary.
LEMMA LoadFirstInv == IInv /\ LoadFirst => IInv'
<1> SUFFICES ASSUME IInv, LoadFirst
             PROVE  IInv'
  OBVIOUS
<1> DEFINE x == mem[call.up + Pos(0)]
<1>1. /\ pc = "loop" /\ i = 0 /\ i' = 1
      /\ held' = Kept(x) /\ retval' = Crossing(x)
      /\ chain' = [chain EXCEPT ![Boundary(0)] = Carried(x)]
      /\ UNCHANGED <<mem, pc, call, entry>>
  BY DEF LoadFirst
<1>2. /\ call \in Calls(Ops) /\ call.n \in 1 .. MemSize /\ 0 \in 0 .. call.n - 1
      /\ \A j \in 0 .. call.n - 1 : call.up + j \in Addr
  BY <1>1, CallFacts DEF IInv, TypeOK
<1>3. /\ Pos(0) \in 0 .. call.n - 1 /\ Boundary(0) \in 0 .. MemSize
      /\ Boundary(0) # IF Down THEN 0 ELSE call.n
  BY <1>2, Visits
<1>4. x \in Limb /\ x = entry[call.up + Pos(0)]
  BY <1>1, <1>2, <1>3 DEF IInv, TypeOK, ReadsOriginal, Memory
<1>5. Kept(x) \in Limb /\ Crossing(x) \in Limb /\ Carried(x) \in Limb
  BY <1>2, <1>4, Pieces
<1>6. \A k : Pos(k)' = Pos(k) /\ Boundary(k)' = Boundary(k)
  BY <1>1 DEF Pos, Boundary, Down
<1>7. \A y : Kept(y)' = Kept(y) /\ Crossing(y)' = Crossing(y) /\ Carried(y)' = Carried(y)
  BY <1>1 DEF Kept, Crossing, Carried, CoFactor
<1> HIDE DEF x
<1>8. LoopState'
  BY <1>1, <1>2, <1>3, <1>4, <1>6, <1>7
     DEF LoopState, IInv, TypeOK, Chain, Down, NoChain
<1>9. TypeOK'
  BY <1>1, <1>2, <1>3, <1>5 DEF IInv, TypeOK, Chain
<1> QED
  BY <1>1, <1>2, <1>6, <1>8, <1>9 DEF IInv, ReadsOriginal, Frame, DigitsExact

\* What a store at the visit before the last load does to the memory.
LEMMA StoreFacts ==
  ASSUME IInv, pc = "loop", i \in 1 .. call.n, NEW l \in Limb,
         mem' = [mem EXCEPT ![call.rp + Pos(i - 1)] = l]
  PROVE  /\ mem' \in Memory
         /\ mem'[call.rp + Pos(i - 1)] = l
         /\ \A k \in 0 .. i - 2 : mem'[call.rp + Pos(k)] = mem[call.rp + Pos(k)]
         /\ \A k \in i .. call.n - 1 : mem'[call.up + Pos(k)] = entry[call.up + Pos(k)]
         /\ \A a \in Addr : mem'[a] # entry[a] =>
              \E k \in 0 .. i - 1 : a = call.rp + Pos(k)
<1>1. /\ call \in Calls(Ops) /\ call.n \in 1 .. MemSize
      /\ \A j \in 0 .. call.n - 1 : call.rp + j \in Addr /\ call.up + j \in Addr
      /\ call.rp \in Nat
  BY CallFacts DEF IInv, TypeOK, Addr
<1>2. i - 1 \in 0 .. call.n - 1
  BY <1>1
<1>3. \A k \in 0 .. call.n - 1 : Pos(k) \in 0 .. call.n - 1
  BY <1>1, Visits
<1>4. call.rp + Pos(i - 1) \in Addr
  BY <1>1, <1>2, <1>3
<1>5. \A a \in Addr : mem'[a] = IF a = call.rp + Pos(i - 1) THEN l ELSE mem[a]
  BY <1>4 DEF IInv, TypeOK, Memory
<1>6. mem' \in Memory
  BY <1>4 DEF IInv, TypeOK, Memory
<1>7. ASSUME NEW k \in 0 .. i - 2
      PROVE  mem'[call.rp + Pos(k)] = mem[call.rp + Pos(k)]
  <2>1. k \in 0 .. call.n - 1 /\ i - 1 \in k + 1 .. call.n - 1
    BY <1>1, <1>2
  <2>2. Pos(k) # Pos(i - 1)
    BY <1>1, <2>1, Visits
  <2> QED
    BY <1>1, <1>2, <1>3, <1>5, <2>1, <2>2
<1>8. ASSUME NEW k \in i .. call.n - 1
      PROVE  mem'[call.up + Pos(k)] = entry[call.up + Pos(k)]
  <2>1. k \in 0 .. call.n - 1 /\ k \in (i - 1) + 1 .. call.n - 1
    BY <1>1
  <2>2. call.rp + Pos(i - 1) # call.up + Pos(k)
    BY <1>1, <1>2, <2>1, Visits
  <2> QED
    BY <1>1, <1>3, <1>5, <2>1, <2>2 DEF IInv, ReadsOriginal
<1>9. ASSUME NEW a \in Addr, mem'[a] # entry[a]
      PROVE  \E k \in 0 .. i - 1 : a = call.rp + Pos(k)
  <2>1. CASE a = call.rp + Pos(i - 1)
    BY <1>2, <2>1
  <2>2. CASE a # call.rp + Pos(i - 1)
    <3>1. \E k \in 0 .. i - 2 : a = call.rp + Pos(k)
      BY <1>5, <1>9, <2>2 DEF IInv, Frame
    <3> QED
      BY <3>1, <1>2
  <2> QED
    BY <2>1, <2>2
<1> QED
  BY <1>4, <1>5, <1>6, <1>7, <1>8, <1>9

\* What a turn of the loop does in a state of IInv, whichever of the load and
\* the store comes first.
Turn ==
  /\ pc = "loop"
  /\ i \in 1 .. call.n - 1
  /\ LET x == mem[call.up + Pos(i)]
     IN  /\ mem' = [mem EXCEPT ![call.rp + Pos(i - 1)] = held + Crossing(x)]
         /\ held' = Kept(x)
         /\ chain' = [chain EXCEPT ![Boundary(i)] = Carried(x)]
  /\ i' = i + 1
  /\ UNCHANGED <<pc, call, retval, entry>>

\* A shift loads before it stores (the loops of mpn_rshift and mpn_lshift).
LEMMA LoadStoreTurn == LoadStore => Turn
BY DEF LoadStore, Turn

\* A copy stores before it loads (the loops of MPN_COPY_INCR and MPN_COPY_DECR),
\* and the limb it then loads is the one of the source: the store just made,
\* like every earlier one, lies before the limbs not yet loaded.
LEMMA StoreLoadTurn == IInv /\ StoreLoad => Turn
<1> SUFFICES ASSUME IInv, StoreLoad
             PROVE  Turn
  OBVIOUS
<1> DEFINE y == mem[call.up + Pos(i)]
<1>1. /\ pc = "loop" /\ i \in 1 .. call.n - 1 /\ i' = i + 1 /\ call.op \notin ShiftOps
      /\ mem' = [mem EXCEPT ![call.rp + Pos(i - 1)] = held]
      /\ held' = mem'[call.up + Pos(i)]
      /\ chain' = [chain EXCEPT ![Boundary(i)] = 0]
      /\ UNCHANGED <<pc, call, retval, entry>>
  BY DEF StoreLoad
<1>2. /\ call \in Calls(Ops) /\ call.n \in 1 .. MemSize
      /\ \A j \in 0 .. call.n - 1 : call.up + j \in Addr
      /\ i \in 0 .. call.n - 1 /\ i \in 1 .. call.n
      /\ held \in Limb
  BY <1>1, CallFacts DEF IInv, TypeOK
<1>3. Pos(i) \in 0 .. call.n - 1
  BY <1>2, Visits
<1>4. y \in Limb /\ y = entry[call.up + Pos(i)]
  BY <1>1, <1>2, <1>3 DEF IInv, TypeOK, ReadsOriginal, Memory
<1>5. call.op \in {"copyi", "copyd"}
  BY <1>1, <1>2, CallFacts DEF Ops, ShiftOps
<1>6. Kept(y) = y /\ Crossing(y) = 0 /\ Carried(y) = 0
  BY <1>2, <1>4, <1>5, Pieces
<1>7. \A k \in i .. call.n - 1 : mem'[call.up + Pos(k)] = entry[call.up + Pos(k)]
  BY ONLY IInv, <1>1, <1>2, StoreFacts
<1>8. held' = Kept(y)
  BY <1>1, <1>2, <1>4, <1>6, <1>7
<1>9. held + Crossing(y) = held
  BY <1>2, <1>6 DEF Limb
<1> QED
  BY <1>1, <1>6, <1>8, <1>9 DEF Turn

\* A turn of the loop: the limb held is stored and the next one held.
LEMMA TurnInv == IInv /\ Turn => IInv'
<1> SUFFICES ASSUME IInv, Turn
             PROVE  IInv'
  OBVIOUS
<1> DEFINE x == entry[call.up + Pos(i - 1)]
           y == mem[call.up + Pos(i)]
           l == held + Crossing(y)
<1>1. /\ pc = "loop" /\ i \in 1 .. call.n - 1 /\ i' = i + 1
      /\ mem' = [mem EXCEPT ![call.rp + Pos(i - 1)] = l]
      /\ held' = Kept(y)
      /\ chain' = [chain EXCEPT ![Boundary(i)] = Carried(y)]
      /\ UNCHANGED <<pc, call, retval, entry>>
  BY DEF Turn
<1>2. /\ call \in Calls(Ops) /\ call.n \in 1 .. MemSize
      /\ \A j \in 0 .. call.n - 1 : call.rp + j \in Addr /\ call.up + j \in Addr
      /\ i - 1 \in 0 .. call.n - 1 /\ i \in 0 .. call.n - 1
  BY <1>1, CallFacts DEF IInv, TypeOK
<1>3. \A k \in 0 .. call.n - 1 :
        /\ Pos(k) \in 0 .. call.n - 1 /\ Boundary(k) \in 0 .. call.n
        /\ Boundary(k) # IF Down THEN 0 ELSE call.n
  BY <1>2, Visits
<1>4. /\ x \in Limb /\ y \in Limb /\ y = entry[call.up + Pos(i)]
      /\ held = Kept(x)
  BY <1>1, <1>2, <1>3 DEF IInv, TypeOK, LoopState, ReadsOriginal, Memory
<1>5. Kept(y) \in Limb /\ Carried(y) \in Limb /\ l \in Limb
  BY <1>2, <1>4, Pieces, StoredDigit
<1>6. \A k : Pos(k)' = Pos(k) /\ Boundary(k)' = Boundary(k)
  BY <1>1 DEF Pos, Boundary, Down
<1>7. \A z : Kept(z)' = Kept(z) /\ Crossing(z)' = Crossing(z) /\ Carried(z)' = Carried(z)
  BY <1>1 DEF Kept, Crossing, Carried, CoFactor
<1>8. Down' = Down
  BY <1>1 DEF Down
<1>9. IF Down THEN Digit(call, entry, Pos(i - 1), l, Carried(y), Carried(x))
              ELSE Digit(call, entry, Pos(i - 1), l, Carried(x), Carried(y))
  BY <1>2, <1>3, <1>4, StoredDigit
<1> HIDE DEF x, y, l
<1>10. /\ mem' \in Memory
       /\ mem'[call.rp + Pos(i - 1)] = l
       /\ \A k \in 0 .. i - 2 : mem'[call.rp + Pos(k)] = mem[call.rp + Pos(k)]
       /\ \A k \in i .. call.n - 1 : mem'[call.up + Pos(k)] = entry[call.up + Pos(k)]
       /\ \A a \in Addr : mem'[a] # entry[a] =>
            \E k \in 0 .. i - 1 : a = call.rp + Pos(k)
  <2>1. i \in 1 .. call.n
    BY <1>1, <1>2
  <2> QED
    BY ONLY IInv, <1>1, <2>1, <1>5, StoreFacts
<1>11. chain' \in Chain
       /\ \A j \in 0 .. MemSize : chain'[j] = IF j = Boundary(i) THEN Carried(y) ELSE chain[j]
  BY <1>1, <1>2, <1>3, <1>5 DEF IInv, TypeOK, Chain
<1>12. \A k \in 0 .. i - 1 : Boundary(k) # Boundary(i) /\ chain'[Boundary(k)] = chain[Boundary(k)]
  <2> TAKE k \in 0 .. i - 1
  <2>1. k \in 0 .. call.n - 1 /\ i \in k + 1 .. call.n - 1
    BY <1>1, <1>2
  <2>2. Boundary(k) # Boundary(i)
    BY <1>2, <2>1, Visits
  <2> QED
    BY <1>2, <1>3, <1>11, <2>1, <2>2
<1>13. TypeOK'
  BY <1>1, <1>2, <1>5, <1>10, <1>11 DEF IInv, TypeOK
<1>14. LoopState'
  <2>1. chain'[Boundary(i)] = Carried(y)
    BY <1>2, <1>3, <1>11
  <2>2. \A k \in 0 .. i : chain'[Boundary(k)] = Carried(entry[call.up + Pos(k)])
    BY <1>1, <1>2, <1>4, <1>12, <2>1 DEF IInv, LoopState
  <2>3. chain'[IF Down THEN 0 ELSE call.n] = 0
    BY <1>1, <1>2, <1>3, <1>11 DEF IInv, LoopState
  <2>4. i' - 1 = i /\ i' > 0 /\ i' <= call.n
    BY <1>1, <1>2
  <2> QED
    BY <1>1, <1>2, <1>4, <1>6, <1>7, <1>8, <2>2, <2>3, <2>4 DEF IInv, LoopState
<1>15. ReadsOriginal'
  BY <1>1, <1>2, <1>6, <1>10 DEF ReadsOriginal
<1>16. Frame'
  BY <1>1, <1>2, <1>6, <1>10 DEF Frame
<1>17. DigitsExact'
  <2> SUFFICES ASSUME NEW k \in 0 .. i - 1
               PROVE  Digit(call, entry, Pos(k), mem'[call.rp + Pos(k)],
                            chain'[Pos(k)], chain'[Pos(k) + 1])
    BY <1>1, <1>2, <1>6 DEF DigitsExact
  <2>1. k \in 0 .. call.n - 1 /\ k + 1 < call.n
    BY <1>1, <1>2
  <2>2. IF Down THEN Pos(k) = Boundary(k + 1) /\ Pos(k) + 1 = Boundary(k)
                ELSE Pos(k) + 1 = Boundary(k + 1) /\ Pos(k) = Boundary(k)
    BY <1>2, <2>1, Visits, Neighbours
  <2>3. CASE k = i - 1
    <3>1. chain'[Boundary(k)] = Carried(x) /\ chain'[Boundary(k + 1)] = Carried(y)
      BY <1>1, <1>2, <1>3, <1>11, <1>12, <2>3 DEF IInv, LoopState, x
    <3> QED
      BY <1>9, <1>10, <2>2, <2>3, <3>1
  <2>4. CASE k \in 0 .. i - 2
    <3>1. k + 1 \in 0 .. i - 1
      BY <2>4, <1>1
    <3>2. chain'[Boundary(k)] = chain[Boundary(k)]
          /\ chain'[Boundary(k + 1)] = chain[Boundary(k + 1)]
      BY <1>12, <3>1
    <3>3. chain'[Pos(k)] = chain[Pos(k)] /\ chain'[Pos(k) + 1] = chain[Pos(k) + 1]
      BY <3>2, <2>2
    <3> QED
      BY <3>3, <2>4, <1>1, <1>10 DEF IInv, DigitsExact
  <2> QED
    BY <2>3, <2>4, <1>1
<1> QED
  BY <1>13, <1>14, <1>15, <1>16, <1>17 DEF IInv

\* The store of the last limb, into which nothing crosses.
LEMMA StoreLastInv == IInv /\ StoreLast => IInv'
<1> SUFFICES ASSUME IInv, StoreLast
             PROVE  IInv'
  OBVIOUS
<1> DEFINE x == entry[call.up + Pos(i - 1)]
<1>1. /\ pc = "loop" /\ i = call.n /\ pc' = "done"
      /\ mem' = [mem EXCEPT ![call.rp + Pos(i - 1)] = held]
      /\ UNCHANGED <<call, i, held, retval, entry, chain>>
  BY DEF StoreLast
<1>2. /\ call \in Calls(Ops) /\ call.n \in 1 .. MemSize
      /\ \A j \in 0 .. call.n - 1 : call.up + j \in Addr
      /\ i - 1 \in 0 .. call.n - 1 /\ i \in 1 .. call.n
  BY <1>1, CallFacts DEF IInv, TypeOK
<1>3. \A k \in 0 .. call.n - 1 : Pos(k) \in 0 .. call.n - 1
  BY <1>2, Visits
<1>4. x \in Limb /\ held = Kept(x) /\ held \in Limb
  BY <1>1, <1>2, <1>3 DEF IInv, TypeOK, LoopState, Memory
<1>5. \A k : Pos(k)' = Pos(k) /\ Boundary(k)' = Boundary(k)
  BY <1>1 DEF Pos, Boundary, Down
<1>6. \A z : Kept(z)' = Kept(z) /\ Crossing(z)' = Crossing(z) /\ Carried(z)' = Carried(z)
  BY <1>1 DEF Kept, Crossing, Carried, CoFactor
<1>7. Down' = Down
  BY <1>1 DEF Down
<1>8. IF Down THEN Digit(call, entry, Pos(i - 1), held, 0, Carried(x))
              ELSE Digit(call, entry, Pos(i - 1), held, Carried(x), 0)
  <2>1. 0 \in Limb /\ Kept(0) = 0 /\ Crossing(0) = 0 /\ Carried(0) = 0
    <3>1. 0 \in Limb
      BY DEF Limb
    <3>2. CASE call.op \in {"copyi", "copyd"}
      BY <1>2, <3>1, <3>2, Pieces
    <3>3. CASE call.op \in ShiftOps
      <4>1. call.v \in 2 .. B - 1 /\ CoFactor \in 2 .. B - 1
        BY <1>2, <3>3, ShiftFactors DEF CoFactor
      <4>2. 0 \div call.v = 0 /\ 0 \div CoFactor = 0 /\ 0 % call.v = 0 /\ 0 % B = 0
            /\ 0 * call.v = 0 /\ 0 * CoFactor = 0
        BY <4>1
      <4> QED
        BY <3>1, <3>3, <4>2 DEF Kept, Crossing, Carried, Wrap, ShiftOps
    <3> QED
      BY <1>2, <3>1, <3>2, <3>3, CallFacts DEF Ops, ShiftOps
  <2>2. held + Crossing(0) = held
    BY <1>4, <2>1 DEF Limb
  <2> QED
    BY <1>2, <1>3, <1>4, <2>1, <2>2, StoredDigit
<1> HIDE DEF x
<1>9. /\ mem' \in Memory
      /\ mem'[call.rp + Pos(i - 1)] = held
      /\ \A k \in 0 .. i - 2 : mem'[call.rp + Pos(k)] = mem[call.rp + Pos(k)]
      /\ \A a \in Addr : mem'[a] # entry[a] =>
           \E k \in 0 .. i - 1 : a = call.rp + Pos(k)
  BY ONLY IInv, <1>1, <1>2, <1>4, StoreFacts
<1>10. TypeOK'
  BY <1>1, <1>9 DEF IInv, TypeOK
<1>11. LoopState'
  BY <1>1, <1>2, <1>5, <1>6, <1>7 DEF IInv, LoopState
<1>12. ReadsOriginal' /\ Frame'
  BY <1>1, <1>2, <1>5, <1>9 DEF ReadsOriginal, Frame
<1>13. DigitsExact'
  <2> SUFFICES ASSUME NEW k \in 0 .. i - 1
               PROVE  Digit(call, entry, Pos(k), mem'[call.rp + Pos(k)],
                            chain[Pos(k)], chain[Pos(k) + 1])
    BY <1>1, <1>5 DEF DigitsExact
  <2>1. CASE k = i - 1
    <3>1. IF Down THEN Pos(k) = 0 /\ Pos(k) + 1 = Boundary(k)
                  ELSE Pos(k) + 1 = call.n /\ Pos(k) = Boundary(k)
      BY <1>1, <1>2, <2>1, Visits, Neighbours
    <3>2. chain[Boundary(k)] = Carried(x) /\ chain[IF Down THEN 0 ELSE call.n] = 0
      BY <1>1, <1>2, <2>1 DEF IInv, LoopState, x
    <3> QED
      BY <1>8, <1>9, <2>1, <3>1, <3>2
  <2>2. CASE k \in 0 .. i - 2
    BY <2>2, <1>1, <1>9 DEF IInv, DigitsExact
  <2> QED
    BY <2>1, <2>2, <1>2
<1> QED
  BY <1>10, <1>11, <1>12, <1>13 DEF IInv

\* Every step, and stuttering, preserves IInv.
LEMMA NextInv == IInv /\ [Next]_vars => IInv'
<1> SUFFICES ASSUME IInv, [Next]_vars
             PROVE  IInv'
  OBVIOUS
<1>1. CASE Return
  BY <1>1 DEF Return, IInv, TypeOK, LoopState, ReadsOriginal, Frame, DigitsExact,
              NoChain, NoCall, Chain, Limb
<1>2. CASE UNCHANGED vars
  BY <1>2 DEF vars, IInv, TypeOK, LoopState, ReadsOriginal, Frame, DigitsExact,
              Pos, Boundary, Down, Kept, Crossing, Carried, CoFactor
<1> QED
  BY <1>1, <1>2, InvokeInv, LoadFirstInv, StoreLoadTurn, LoadStoreTurn, TurnInv, StoreLastInv DEF Next

\* The inductive invariant holds in every reachable state.
THEOREM Invariance == Spec => []IInv
BY InitInv, NextInv, PTL DEF Spec

\* The variables keep their types: held + Crossing(x) fits a limb, so the two
\* halves a shift joins never collide, and no access leaves the memory.
THEOREM TypeCorrect == Spec => []TypeOK
BY Invariance, PTL DEF IInv

\* No source limb is overwritten before it has been loaded.
THEOREM ReadsOriginalHolds == Spec => []ReadsOriginal
BY Invariance, PTL DEF IInv

\* No loop writes outside the part of the result it has computed.
THEOREM FrameHolds == Spec => []Frame
BY Invariance, PTL DEF IInv

\* Every limb stored is the digit of the exact copy, quotient or product.
THEOREM DigitsExactHolds == Spec => []DigitsExact
BY Invariance, PTL DEF IInv

\* A call that ends has kept its promise.
LEMMA DonePromise ==
  IInv /\ pc = "done" => chain \in Chain /\ Promise(call, entry, mem, retval, chain)
<1> SUFFICES ASSUME IInv, pc = "done"
             PROVE  chain \in Chain /\ Promise(call, entry, mem, retval, chain)
  OBVIOUS
<1> DEFINE x == entry[call.up + Pos(0)]
<1>1. /\ call \in Calls(Ops) /\ i = call.n /\ call.n \in 1 .. MemSize
      /\ \A j \in 0 .. call.n - 1 : call.up + j \in Addr
      /\ 0 \in 0 .. call.n - 1
  BY CallFacts DEF IInv, TypeOK, LoopState
<1>2. \A k \in 0 .. call.n - 1 : Pos(k) \in 0 .. call.n - 1
  BY <1>1, Visits
<1>3. \A j \in 0 .. call.n - 1 : Pos(Pos(j)) = j
  BY <1>1 DEF Pos, Down
<1>4. x \in Limb
  BY <1>1, <1>2 DEF IInv, TypeOK, Memory
<1>5. /\ retval = Crossing(x) /\ chain[Boundary(0)] = Carried(x)
      /\ chain[IF Down THEN 0 ELSE call.n] = 0
      /\ Boundary(0) = IF Down THEN call.n ELSE 0
  BY <1>1 DEF IInv, LoopState, Boundary, Pos, Down
<1>6. Ends(call, chain, retval)
  <2>1. CASE call.op \in {"copyi", "copyd"}
    BY <2>1, <1>1, <1>4, <1>5, Pieces DEF Ends, Down
  <2>2. CASE call.op = "lshift"
    BY <2>2, <1>1, <1>4, <1>5, Pieces DEF Ends, Down
  <2>3. CASE call.op = "rshift"
    <3>1. call.v \in 2 .. B - 1 /\ CoFactor \in 2 .. B - 1
      BY <1>1, <2>3, ShiftFactors DEF CoFactor, ShiftOps
    <3>2. retval = CoFactor * Carried(x) /\ Carried(x) \in 0 .. call.v - 1
      BY <2>3, <1>1, <1>4, <1>5, Pieces
    <3>3. retval = Carried(x) * CoFactor
      BY <3>1, <3>2
    <3>4. ~Down
      BY <2>3 DEF Down
    <3> QED
      BY <2>3, <3>3, <3>4, <1>5 DEF Ends, CoFactor
  <2> QED
    BY <2>1, <2>2, <2>3, <1>1, CallFacts DEF Ops
<1>7. \A j \in 0 .. call.n - 1 : Digit(call, entry, j, mem[call.rp + j], chain[j], chain[j + 1])
  BY <1>1, <1>2, <1>3 DEF IInv, DigitsExact
<1>8. \A a \in Addr \ Region(call.rp, call.n) : mem[a] = entry[a]
  <2> SUFFICES ASSUME NEW a \in Addr, mem[a] # entry[a]
               PROVE  a \in Region(call.rp, call.n)
    OBVIOUS
  <2>1. PICK k \in 0 .. call.n - 1 : a = call.rp + Pos(k)
    BY <1>1 DEF IInv, Frame
  <2>2. call.rp \in Nat
    BY <1>1, CallFacts DEF Addr
  <2> QED
    BY <2>1, <2>2, <1>1, <1>2 DEF Region
<1> QED
  BY <1>6, <1>7, <1>8 DEF Promise, IInv, TypeOK

\* A copy that ends has copied, and a shift has multiplied or divided by 2^cnt, as whole
\* numbers: for operands of any length, in every base.
THEOREM ResultExactHolds == Spec => []ResultExact
<1>1. ASSUME IInv PROVE ResultExact
  <2> SUFFICES ASSUME pc = "done" PROVE ExactResult(call, entry, mem, retval)
    BY DEF ResultExact
  <2>1. call \in Calls(Op) /\ entry \in Memory /\ mem \in Memory /\ retval \in Limb
    BY <1>1 DEF IInv, TypeOK, Calls, Ops, Op, ShiftOps
  <2>2. chain \in Chain /\ Promise(call, entry, mem, retval, chain)
    BY <1>1, DonePromise
  <2> QED
    BY <2>1, <2>2, PromiseExact
<1> QED
  BY <1>1, Invariance, PTL

\* The contract MpnCall refers to is the one the loops are called under.
LEMMA SameContract ==
  /\ Abs!NoCall = NoCall /\ Abs!Memory = Memory /\ Abs!Limb = Limb
  /\ Calls(Ops) \subseteq Abs!Calls(Abs!Op)
  /\ \A c, old, new, r, ch :
       ch \in Chain /\ Promise(c, old, new, r, ch)
         => ch \in Abs!Chain /\ Abs!Promise(c, old, new, r, ch)
<1>1. Abs!NoCall = NoCall /\ Abs!Memory = Memory /\ Abs!Limb = Limb /\ Abs!Chain = Chain
      /\ Abs!Addr = Addr
  BY DEF Abs!NoCall, NoCall, Abs!Memory, Memory, Abs!Addr, Addr, Abs!Limb, Limb,
         Abs!Chain, Chain
<1>2. Abs!Op = Op /\ Abs!CallRecord = CallRecord
  BY <1>1 DEF Abs!Op, Op, Abs!TwoVectorOps, TwoVectorOps, Abs!LimbOps, LimbOps,
              Abs!ShiftOps, ShiftOps, Abs!CallRecord, CallRecord
<1>3. ASSUME NEW c PROVE InMemory(c) = Abs!InMemory(c)
  BY <1>1 DEF Abs!InMemory, InMemory, Abs!TwoVectorOps, TwoVectorOps, Abs!LimbOps, LimbOps,
              Abs!ShiftOps, ShiftOps, Abs!ShiftFactor, ShiftFactor
<1>4. ASSUME NEW c PROVE Asserted(c) = Abs!Asserted(c)
  BY DEF Abs!Asserted, Asserted, Abs!TwoVectorOps, TwoVectorOps,
         Abs!SameOrIncr, SameOrIncr, Abs!SameOrDecr, SameOrDecr, Abs!SameOrSeparate,
         SameOrSeparate, Abs!SameOrSeparate2, SameOrSeparate2, Abs!Overlap, Overlap
<1>5. Calls(Ops) \subseteq Abs!Calls(Abs!Op)
  BY <1>2, <1>3, <1>4 DEF Calls, Abs!Calls, Ops, Op, ShiftOps
<1>6. ASSUME NEW c, NEW old, NEW j, NEW r, NEW lo, NEW hi
      PROVE  Digit(c, old, j, r, lo, hi) = Abs!Digit(c, old, j, r, lo, hi)
  BY DEF Digit, Abs!Digit
<1>7. ASSUME NEW c, NEW ch, NEW r
      PROVE  Ends(c, ch, r) = Abs!Ends(c, ch, r)
  BY DEF Ends, Abs!Ends
<1>8. ASSUME NEW c, NEW old, NEW new, NEW r, NEW ch, Promise(c, old, new, r, ch)
      PROVE  Abs!Promise(c, old, new, r, ch)
  BY <1>8, <1>1, <1>6, <1>7 DEF Promise, Abs!Promise, Region, Abs!Region
<1> QED
  BY <1>1, <1>5, <1>8

\* Every step of the loops is a step of a call, or none.
THEOREM Refinement == Spec => Implements
<1>1. Init => Abs!Init
  BY SameContract DEF Init, Abs!Init, AbsMem, AbsPhase, AbsRet
<1>2. (IInv /\ pc = "done" => chain \in Chain /\ Promise(call, entry, mem, retval, chain))'
  BY DonePromise, PTL
<1>3. IInv /\ IInv' /\ [Next]_vars => [Abs!Next]_(Abs!vars)
  <2> SUFFICES ASSUME IInv, IInv', [Next]_vars
               PROVE  [Abs!Next]_(Abs!vars)
    OBVIOUS
  <2> USE DEF AbsMem, AbsPhase, AbsRet
  <2>1. CASE Invoke
    <3>1. Abs!Invoke
      BY <2>1, SameContract DEF Invoke, Abs!Invoke, IInv, LoopState
    <3> QED
      BY <3>1 DEF Abs!Next
  <2>2. CASE LoadFirst \/ StoreLoad \/ LoadStore
    BY <2>2 DEF LoadFirst, StoreLoad, LoadStore, Abs!vars
  <2>3. CASE StoreLast
    <3>1. chain' = chain /\ retval' = retval /\ call' = call /\ entry' = entry
          /\ pc = "loop" /\ pc' = "done"
      BY <2>3 DEF StoreLast
    <3>2. Promise(call, entry, mem', retval, chain) /\ chain \in Chain
      BY <1>2, <3>1
    <3>3. Abs!Complete
      BY <3>1, <3>2, SameContract DEF Abs!Complete, IInv, TypeOK
    <3> QED
      BY <3>3 DEF Abs!Next
  <2>4. CASE Return
    <3>1. Abs!Return
      BY <2>4, SameContract DEF Return, Abs!Return
    <3> QED
      BY <3>1 DEF Abs!Next
  <2>5. CASE UNCHANGED vars
    BY <2>5 DEF vars, Abs!vars
  <2> QED
    BY <2>1, <2>2, <2>3, <2>4, <2>5 DEF Next
<1> QED
  BY <1>1, <1>3, Invariance, PTL DEF Spec, Abs!Spec, Implements

============================================================================
