----------------------------- MODULE PropLoops -----------------------------
(***************************************************************************)
(* The mpn functions that propagate a carry no further than it goes:       *)
(* mpn_add_1 and mpn_sub_1 (__GMPN_AORS_1), mpn_add and mpn_sub            *)
(* (__GMPN_AORS) and mpn_neg_n.  Once the carry has died out, the rest of  *)
(* the source is copied to the result (__GMPN_COPY_REST), or left where it *)
(* is when source and result are the same.                                 *)
(*                                                                         *)
(* A step is one iteration of one of the loops.  mpn_add and mpn_sub run   *)
(* the loop of mpn_add_n and mpn_sub_n first, mpn_neg_n that of mpn_com_n. *)
(***************************************************************************)
EXTENDS MpnContract

VARIABLES mem,    \* the memory
          pc,     \* "idle", the loop that runs, or "done"
          call,   \* the arguments
          i,      \* __gmp_i, __gmp_j
          cout,   \* the carry
          entry,  \* history: the memory when the function was called
          chain   \* history: the carries into the digits

\* The call this loop implements (see MpnCall).
Running == pc \notin {"idle", "done"}
AbsMem == IF Running THEN entry ELSE mem
AbsPhase == IF Running THEN "called" ELSE IF pc = "idle" THEN "idle" ELSE "returned"
AbsRet == IF pc = "done" THEN cout ELSE 0
Abs == INSTANCE MpnCall WITH mem <- AbsMem, phase <- AbsPhase, ret <- AbsRet

Ops == {"add", "sub", "add_1", "sub_1", "neg_n"}
Adding == call.op \in {"add", "add_1", "neg_n"}
Negating == call.op = "neg_n"

vars == <<mem, pc, call, i, cout, entry, chain>>

Init ==
  /\ mem \in Memory
  /\ pc = "idle"
  /\ call = NoCall
  /\ i = 0
  /\ cout = 0
  /\ entry = mem
  /\ chain = [j \in 0 .. MemSize |-> 0]

\* The chain of a call no carry has gone through yet: mpn_add_1 starts with its
\* limb operand, and a borrow of mpn_neg_n is a carry of its addition missing.
StartChain(c) ==
  [j \in 0 .. MemSize |-> IF c.op = "neg_n" THEN (IF j = 0 THEN 0 ELSE 1)
                          ELSE IF j = 0 THEN c.v ELSE 0]

Invoke ==
  /\ pc = "idle"
  /\ call' \in Calls(Ops)
  /\ chain' = StartChain(call')
  /\ pc' = CASE call'.op \in {"add", "sub"} -> IF call'.m # 0 THEN "both" ELSE "rest"
             [] call'.op = "neg_n" -> "com"
             [] OTHER -> "first"
  /\ UNCHANGED <<mem, i, cout, entry>>

\* The source of the propagation: mpn_neg_n adds 1 to the complement in place.
Src == IF Negating THEN call.rp ELSE call.up
X == mem[Src + i]

\* The limb and the carry of x plus or minus y.
Plus(x, y) == IF Adding THEN AddLimb(x, y, 0) ELSE SubLimb(x, y, 0)

\* Stores a limb of the result, and notes the carry out of it.
Store(res) ==
  /\ mem' = [mem EXCEPT ![call.rp + i] = res.limb]
  /\ cout' = res.carry
  /\ chain' = [chain EXCEPT ![i + 1] = IF Negating THEN 1 - res.carry ELSE res.carry]
  /\ i' = i + 1
  /\ pc' = IF pc = "both" /\ i + 1 < call.m THEN "both"
           ELSE IF res.carry # 0 THEN "prop" ELSE "rest"
  /\ UNCHANGED <<call, entry>>

\* mpn_add_n or mpn_sub_n of the low limbs of both operands.
Both ==
  /\ pc = "both"
  /\ LET v == mem[call.vp + i]
     IN  Store(IF Adding THEN AddLimb(X, v, cout) ELSE SubLimb(X, v, cout))

\* mpn_com_n, before mpn_neg_n calls mpn_add_1.
Com ==
  /\ pc = "com"
  /\ mem' = [mem EXCEPT ![call.rp + i] = ComLimb(mem[call.up + i])]
  /\ IF i + 1 = call.n THEN i' = 0 /\ pc' = "first" ELSE i' = i + 1 /\ pc' = "com"
  /\ UNCHANGED <<call, cout, entry, chain>>

\* mpn_add_1 and mpn_sub_1: the limb operand, 1 from mpn_neg_n.
First ==
  /\ pc = "first"
  /\ Store(Plus(X, IF Negating THEN 1 ELSE call.v))

\* While there is a carry: one more limb takes it.
Propagate ==
  /\ pc = "prop"
  /\ i < call.n
  /\ Store(Plus(X, 1))

\* Mutant: mpn_neg_n returns the carry of its addition.
ResultRaw(c) == c

\* The value returned: mpn_neg_n returns whether its argument was not zero.
Result(c) == IF Negating THEN 1 - c ELSE c

\* The carry leaves the number.
CarryOut ==
  /\ pc = "prop"
  /\ i = call.n
  /\ pc' = "done"
  /\ cout' = Result(1)
  /\ UNCHANGED <<mem, call, i, entry, chain>>

CopyRest ==
  /\ pc = "rest"
  /\ Src # call.rp
  /\ i < call.n
  /\ mem' = [mem EXCEPT ![call.rp + i] = X]
  /\ i' = i + 1
  /\ UNCHANGED <<pc, call, cout, entry, chain>>

\* Mutant: the rest is not copied.
NoCarryOutEarly ==
  /\ pc = "rest"
  /\ pc' = "done"
  /\ cout' = Result(0)
  /\ UNCHANGED <<mem, call, i, entry, chain>>

NoCarryOut ==
  /\ pc = "rest"
  /\ Src = call.rp \/ i = call.n
  /\ pc' = "done"
  /\ cout' = Result(0)
  /\ UNCHANGED <<mem, call, i, entry, chain>>

Return ==
  /\ pc = "done"
  /\ pc' = "idle"
  /\ call' = NoCall
  /\ i' = 0
  /\ cout' = 0
  /\ entry' = mem
  /\ chain' = [j \in 0 .. MemSize |-> 0]
  /\ UNCHANGED mem

Next ==
  \/ Invoke
  \/ Both \/ Com \/ First \/ Propagate \/ CarryOut \/ CopyRest \/ NoCarryOut
  \/ Return

Spec == Init /\ [][Next]_vars

----------------------------------------------------------------------------
TypeOK ==
  /\ mem \in Memory
  /\ pc \in {"idle", "both", "com", "first", "prop", "rest", "done"}
  /\ IF pc = "idle" THEN call = NoCall ELSE call \in Calls(Ops)
  /\ i \in 0 .. MemSize
  /\ cout \in {0, 1}
  /\ entry \in Memory
  /\ chain \in Chain

\* What the propagation and the copy of the rest still have to read is the
\* source as it was when the function was called, complemented by mpn_neg_n;
\* the second operand is intact as long as it is read.
ReadsOriginal ==
  /\ Running /\ pc # "com" => \A j \in i .. call.n - 1 :
       mem[Src + j] = IF Negating THEN ComLimb(entry[call.up + j]) ELSE entry[call.up + j]
  /\ pc = "both" => \A j \in i .. call.m - 1 : mem[call.vp + j] = entry[call.vp + j]
  /\ pc = "com" => /\ \A j \in i .. call.n - 1 : mem[call.up + j] = entry[call.up + j]
                   /\ \A j \in 0 .. i - 1 : mem[call.rp + j] = ComLimb(entry[call.up + j])

\* A function changes no limb outside its result region.
Frame ==
  \A a \in Addr : mem[a] # entry[a] => pc # "idle" /\ a \in Region(call.rp, call.n)

\* What has been stored is digits of the result, and when the carry has died
\* out so is what has been left alone.
DigitsExact ==
  pc \notin {"idle", "com"} =>
    \A j \in 0 .. (IF pc = "done" THEN call.n ELSE i) - 1 :
      Digit(call, entry, j, mem[call.rp + j], chain[j], chain[j + 1])

\* Where a call stands: the part of the inductive invariant that links the loop
\* that runs, the carry it holds and the carries still to be computed.
LoopState ==
  /\ pc = "idle" => /\ i = 0 /\ cout = 0 /\ entry = mem
                    /\ chain = [j \in 0 .. MemSize |-> 0]
  /\ pc # "idle" => /\ chain[0] = StartChain(call)[0]
                    /\ \A j \in i + 1 .. MemSize : chain[j] = StartChain(call)[j]
  /\ pc = "both" => call.op \in {"add", "sub"} /\ i < call.m /\ chain[i] = cout
  /\ pc = "com" => Negating /\ i < call.n /\ cout = 0 /\ chain = StartChain(call)
  /\ pc = "first" => call.op \notin {"add", "sub"} /\ i = 0
  /\ pc = "prop" => i \in call.m .. call.n /\ chain[i] = (IF Negating THEN 0 ELSE 1)
  /\ pc = "rest" => i \in call.m .. call.n /\ chain[i] = (IF Negating THEN 1 ELSE 0)
  /\ pc = "done" => chain[call.n] = cout

IInv == TypeOK /\ LoopState /\ ReadsOriginal /\ Frame /\ DigitsExact

\* The sum, difference or negation of the numbers, the carry or borrow
\* included; mpn_neg_n borrows unless its argument is zero.
ResultExact == pc = "done" => ExactResult(call, entry, mem, cout)

\* The loops implement the calls of MpnCall.
Implements == Abs!Spec

============================================================================
