----------------------------- MODULE AheadLoops -----------------------------
(***************************************************************************)
(* The mpn functions that hold a limb between its load and its store:      *)
(* MPN_COPY_INCR and MPN_COPY_DECR (mpn_copyi and mpn_copyd), mpn_rshift   *)
(* and mpn_lshift.  They are made for moving a number onto itself, so      *)
(* source and destination may overlap by any distance in one direction.    *)
(*                                                                         *)
(* A step is one turn of the loop, with its load and its store in the      *)
(* order of the source: a copy stores the limb it holds and then loads the *)
(* next one, so it reads what it has just written; a shift loads the next  *)
(* limb first, for the bits that cross into the limb it stores.            *)
(***************************************************************************)
EXTENDS MpnContract

VARIABLES mem,     \* the memory
          pc,      \* "idle", "loop" or "done"
          call,    \* the arguments; v is 2^cnt
          i,       \* limbs loaded
          held,    \* __x, high_limb or low_limb: what waits to be stored
          retval,  \* the value to return
          entry,   \* history: the memory when the function was called
          chain    \* history: the bits that crossed into each limb

\* The call this loop implements (see MpnCall).
AbsMem == IF pc = "loop" THEN entry ELSE mem
AbsPhase == IF pc = "idle" THEN "idle" ELSE IF pc = "loop" THEN "called" ELSE "returned"
AbsRet == IF pc = "done" THEN retval ELSE 0
Abs == INSTANCE MpnCall WITH mem <- AbsMem, phase <- AbsPhase, ret <- AbsRet

Ops == {"copyi", "copyd", "rshift", "lshift"}
NoChain == [j \in 0 .. MemSize |-> 0]

vars == <<mem, pc, call, i, held, retval, entry, chain>>

Init ==
  /\ mem \in Memory
  /\ pc = "idle"
  /\ call = NoCall
  /\ i = 0
  /\ held = 0
  /\ retval = 0
  /\ entry = mem
  /\ chain = NoChain

Invoke ==
  /\ pc = "idle"
  /\ call' \in Calls(Ops)
  /\ pc' = "loop"
  /\ UNCHANGED <<mem, i, held, retval, entry, chain>>

\* Mutant: mpn_copyd copies upwards.
DownShiftOnly == call.op = "lshift"

\* The k-th limb the loop visits, counted from 0.
Down == call.op \in {"copyd", "lshift"}
Pos(k) == IF Down THEN call.n - 1 - k ELSE k

\* The bits a right and a left shift move, where v * CoFactor = B: x >> cnt,
\* x << tnc, x << cnt and x >> tnc.
CoFactor == B \div call.v
Kept(x) == CASE call.op = "rshift" -> x \div call.v
             [] call.op = "lshift" -> Wrap(x * call.v)
             [] OTHER -> x
Crossing(x) == CASE call.op = "rshift" -> Wrap(x * CoFactor)
                 [] call.op = "lshift" -> x \div CoFactor
                 [] OTHER -> 0

\* What Crossing leaves behind, as a number: the remainder x % 2^cnt of a right
\* shift and the high bits of a left shift.
Carried(x) == IF call.op = "rshift" THEN x % call.v ELSE Crossing(x)

\* The index of the chain the bits of the k-th limb visited cross.
Boundary(k) == IF Down THEN Pos(k) + 1 ELSE Pos(k)

\* Mutant: the part that is returned and the part that is kept are exchanged.
LoadFirstExchanged ==
  /\ pc = "loop"
  /\ i = 0
  /\ LET x == mem[call.up + Pos(0)]
     IN  /\ held' = Crossing(x)
         /\ retval' = Kept(x)
         /\ chain' = [chain EXCEPT ![Boundary(0)] = Carried(x)]
  /\ i' = 1
  /\ UNCHANGED <<mem, pc, call, entry>>

\* The first limb: its outgoing bits are the value returned.
LoadFirst ==
  /\ pc = "loop"
  /\ i = 0
  /\ LET x == mem[call.up + Pos(0)]
     IN  /\ held' = Kept(x)
         /\ retval' = Crossing(x)
         /\ chain' = [chain EXCEPT ![Boundary(0)] = Carried(x)]
  /\ i' = 1
  /\ UNCHANGED <<mem, pc, call, entry>>

\* A copy: the limb held is stored, and the next one loaded from the memory
\* the store has left.
StoreLoad ==
  /\ pc = "loop"
  /\ i \in 1 .. call.n - 1
  /\ call.op \notin ShiftOps
  /\ mem' = [mem EXCEPT ![call.rp + Pos(i - 1)] = held]
  /\ held' = mem'[call.up + Pos(i)]
  /\ chain' = [chain EXCEPT ![Boundary(i)] = 0]
  /\ i' = i + 1
  /\ UNCHANGED <<pc, call, retval, entry>>

\* A shift: the next limb is loaded, and its outgoing bits join the limb held,
\* which is stored.  The two have no bit in common, so | is +.
LoadStore ==
  /\ pc = "loop"
  /\ i \in 1 .. call.n - 1
  /\ call.op \in ShiftOps
  /\ LET x == mem[call.up + Pos(i)]
     IN  /\ mem' = [mem EXCEPT ![call.rp + Pos(i - 1)] = held + Crossing(x)]
         /\ held' = Kept(x)
         /\ chain' = [chain EXCEPT ![Boundary(i)] = Carried(x)]
  /\ i' = i + 1
  /\ UNCHANGED <<pc, call, retval, entry>>

StoreLast ==
  /\ pc = "loop"
  /\ i = call.n
  /\ mem' = [mem EXCEPT ![call.rp + Pos(i - 1)] = held]
  /\ pc' = "done"
  /\ UNCHANGED <<call, i, held, retval, entry, chain>>

Return ==
  /\ pc = "done"
  /\ pc' = "idle"
  /\ call' = NoCall
  /\ i' = 0
  /\ held' = 0
  /\ retval' = 0
  /\ entry' = mem
  /\ chain' = NoChain
  /\ UNCHANGED mem

Next == Invoke \/ LoadFirst \/ StoreLoad \/ LoadStore \/ StoreLast \/ Return

Spec == Init /\ [][Next]_vars

----------------------------------------------------------------------------
TypeOK ==
  /\ mem \in Memory
  /\ pc \in {"idle", "loop", "done"}
  /\ IF pc = "idle" THEN call = NoCall ELSE call \in Calls(Ops)
  /\ i \in 0 .. MemSize
  /\ held \in Limb
  /\ retval \in Limb
  /\ entry \in Memory
  /\ chain \in Chain

\* No source limb is overwritten before it has been loaded, whatever the
\* distance between source and destination.
ReadsOriginal ==
  pc = "loop" => \A k \in i .. call.n - 1 :
    mem[call.up + Pos(k)] = entry[call.up + Pos(k)]

\* A function changes only the limbs of the result it has stored so far.
Frame ==
  \A a \in Addr : mem[a] # entry[a] =>
    /\ pc # "idle"
    /\ \E k \in 0 .. (IF pc = "done" THEN i - 1 ELSE i - 2) : a = call.rp + Pos(k)

\* The limbs stored so far are digits of the result.
DigitsExact ==
  pc # "idle" =>
    \A k \in 0 .. (IF pc = "done" THEN i - 1 ELSE i - 2) :
      Digit(call, entry, Pos(k), mem[call.rp + Pos(k)], chain[Pos(k)], chain[Pos(k) + 1])

\* Where a call stands: what is held and what has crossed, in terms of the
\* limbs of the source.
LoopState ==
  /\ pc = "idle" => i = 0 /\ held = 0 /\ retval = 0 /\ entry = mem /\ chain = NoChain
  /\ pc = "loop" => i <= call.n
  /\ pc = "done" => i = call.n
  /\ pc # "idle" =>
       /\ i = 0 => chain = NoChain
       /\ i > 0 => /\ held = Kept(entry[call.up + Pos(i - 1)])
                   /\ retval = Crossing(entry[call.up + Pos(0)])
       /\ \A k \in 0 .. i - 1 : chain[Boundary(k)] = Carried(entry[call.up + Pos(k)])
       /\ chain[IF Down THEN 0 ELSE call.n] = 0

IInv == TypeOK /\ LoopState /\ ReadsOriginal /\ Frame /\ DigitsExact

\* A copy copies, a left shift multiplies by 2^cnt and a right shift divides
\* by it; the value returned is the bits shifted out, at the top of a limb for
\* a right shift.
ResultExact == pc = "done" => ExactResult(call, entry, mem, retval)

\* The loops implement the calls of MpnCall.
Implements == Abs!Spec

============================================================================
