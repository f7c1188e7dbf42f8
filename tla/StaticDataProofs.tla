-------------------------- MODULE StaticDataProofs --------------------------
(***************************************************************************)
(* The two components whose state is static data of the library: the table *)
(* of the fat binary (FatInit), which threads fill without a lock, and the *)
(* stack of chunks of tal-notreent.c (TmpArena), which one thread uses.    *)
(* They share no variable: the theorems of one say nothing of the other.   *)
(***************************************************************************)
EXTENDS FatInit, TmpArena, TLAPS, WellFoundedInduction

-----------------------------------------------------------------------------
(* FatInit: for any number of threads, functions, thresholds and setups.    *)
(* FatInv is inductive.  Its two halves are what a thread relies on:        *)
(* ThreadState, which says that whatever a thread stores is the chosen      *)
(* value and that it starts to store at most once, and TableState, which    *)
(* says that the table holds nothing else, and that the flag reaches it     *)
(* last.                                                                    *)

\* The fields: the functions, the thresholds and, last, the flag.
LEMMA FieldFacts ==
  /\ Initialized \in Nat \ {0} /\ Initialized \in Field /\ Func \subseteq Field
  /\ Threshold \subseteq Field /\ Initialized \notin Func /\ Initialized \notin Threshold
  /\ Field = Func \cup Threshold \cup {Initialized}
  /\ Field = 1 .. Initialized
<1>1. NumFuncs \in Nat /\ NumFuncs > 0 /\ NumThresholds \in Nat
  BY FatAssumption
<1> DEFINE last == NumFuncs + NumThresholds + 1
<1>2. Initialized = last /\ Func = 1 .. NumFuncs /\ Threshold = NumFuncs + 1 .. NumFuncs + NumThresholds
  BY DEF Initialized, Func, Threshold
<1>3. Field = 1 .. last
  BY <1>2 DEF Field
<1>4. last \in Nat \ {0} /\ last \in 1 .. last
  BY <1>1
<1>5. 1 .. NumFuncs \subseteq 1 .. last /\ last \notin 1 .. NumFuncs
  BY <1>1
<1>6. NumFuncs + 1 .. NumFuncs + NumThresholds \subseteq 1 .. last
      /\ last \notin NumFuncs + 1 .. NumFuncs + NumThresholds
  BY <1>1
<1>7. 1 .. last = (1 .. NumFuncs) \cup (NumFuncs + 1 .. NumFuncs + NumThresholds) \cup {last}
  BY <1>1
<1> QED
  BY <1>2, <1>3, <1>4, <1>5, <1>6, <1>7

\* One more setup overrides the fields it has.
LEMMA ChosenStep ==
  ASSUME NEW n \in 0 .. Len(Setups) - 1, NEW x \in Func \cup Threshold
  PROVE  ChosenOf(n + 1)[x] = IF x \in DOMAIN Setups[n + 1] THEN Setups[n + 1][x]
                              ELSE ChosenOf(n)[x]
<1> DEFINE H(m) == {s \in 1 .. m : x \in DOMAIN Setups[s]}
           Latest(S) == CHOOSE s \in S : \A r \in S : r <= s
<1>0. x \in Field /\ x # Initialized
  BY FieldFacts
<1>1. \A m : ChosenOf(m)[x] = IF H(m) = {} THEN Unset ELSE Setups[Latest(H(m))][x]
  BY <1>0 DEF ChosenOf
<1>2. CASE x \in DOMAIN Setups[n + 1]
  <2>1. n + 1 \in H(n + 1) /\ \A r \in H(n + 1) : r <= n + 1
    BY <1>2
  <2>2. \A s \in H(n + 1) : (\A r \in H(n + 1) : r <= s) => s = n + 1
    BY <2>1
  <2>3. Latest(H(n + 1)) = n + 1
    BY <2>1, <2>2
  <2> QED
    BY <1>1, <1>2, <2>1, <2>3
<1>3. CASE x \notin DOMAIN Setups[n + 1]
  <2>1. H(n + 1) = H(n)
    BY <1>3
  <2> QED
    BY <1>1, <1>3, <2>1
<1> QED
  BY <1>2, <1>3

\* Before the first setup nothing is chosen; the flag is always stored as 1.
LEMMA ChosenStart == \A x \in Func \cup Threshold : ChosenOf(0)[x] = Unset
BY FieldFacts DEF ChosenOf

\* The flag that __gmpn_cpuvec_init stores last is 1.
LEMMA ChosenFlag == Chosen[Initialized] = 1
BY FieldFacts DEF Chosen, ChosenOf

\* What a thread sees of the table.
LEMMA ViewFacts ==
  ASSUME FatInv, NEW t \in Thread, NEW x \in Field
  PROVE  /\ View[t][x] \in Value
         /\ View[t][x] \in {Unset, Chosen[x]}
         /\ issued[t] = Initialized \/ View[t][Initialized] # 0 =>
              View[t][x] = Chosen[x] /\ View[t][x] # Unset
<1> DEFINE Own(y) == y \in drained[t] + 1 .. issued[t]
<1>1. \A y \in Field : View[t][y] = IF Own(y) THEN Stored(t, y) ELSE vec[y]
  BY FieldFacts DEF View, FieldAt
<1>2. ThreadState(t) /\ TableState /\ FatTypeOK
  BY DEF FatInv
<1>3. \A y \in Field : issued[t] > 0 =>
        Stored(t, y) = Chosen[y] /\ Stored(t, y) # Unset /\ Stored(t, y) \in Value
  BY <1>2, FieldFacts, ChosenFlag DEF Stored, ThreadState, FatTypeOK, Unset, Value
<1>4. \A y \in Field : Own(y) => issued[t] > 0
  BY <1>2 DEF FatTypeOK
<1>5. \A y \in Field : vec[y] \in {Unset, Chosen[y]} /\ vec[y] \in Value
  BY <1>2 DEF TableState, FatTypeOK
<1>6. ASSUME issued[t] = Initialized
      PROVE  View[t][x] = Chosen[x] /\ View[t][x] # Unset
  <2>1. CASE Own(x)
    BY <1>1, <1>3, <1>4, <2>1
  <2>2. CASE ~Own(x)
    <3>1. x \in 1 .. drained[t]
      BY <2>2, <1>2, <1>6, FieldFacts DEF FatTypeOK
    <3> QED
      BY <3>1, <2>2, <1>1, <1>2 DEF TableState
  <2> QED
    BY <2>1, <2>2
<1>7. ASSUME View[t][Initialized] # 0, issued[t] # Initialized
      PROVE  View[t][x] = Chosen[x] /\ View[t][x] # Unset
  <2>1. ~Own(Initialized)
    BY <1>2, <1>7, FieldFacts DEF FatTypeOK
  <2>2. vec[Initialized] # Unset
    BY <2>1, <1>1, <1>7, FieldFacts DEF Unset
  <2>3. vec[x] = Chosen[x] /\ vec[x] # Unset
    BY <2>2, <1>2 DEF TableState
  <2> QED
    BY <2>3, <1>1, <1>3, <1>4
<1> HIDE DEF Own
<1> QED
  BY <1>1, <1>3, <1>4, <1>5, <1>6, <1>7

\* The table starts with init routines only, and every thread idle.
LEMMA InitInv == FatStart => FatInv
BY FatAssumption, FieldFacts, ChosenStart
   DEF FatStart, FatInv, FatTypeOK, TableState, ThreadState, NoVec, Unset, Value, PC, Func, Chosen

\* A step of one thread that leaves the table alone leaves the others alone.
LEMMA OthersKeep ==
  ASSUME NEW u \in Thread, ThreadState(u),
         vec' = vec, pc'[u] = pc[u], func'[u] = func[u], thr'[u] = thr[u],
         size'[u] = size[u], impl'[u] = impl[u], decided'[u] = decided[u],
         applied'[u] = applied[u], issued'[u] = issued[u], drained'[u] = drained[u],
         entered'[u] = entered[u]
  PROVE  ThreadState(u)'
BY DEF ThreadState, View, Stored, FieldAt

\* A step that neither stores nor drains keeps the table.
LEMMA TableKeeps ==
  ASSUME TableState, vec' = vec, drained' = drained
  PROVE  TableState'
BY DEF TableState

\* So a step of thread t that stores nothing in memory needs a look at t only.
LEMMA OneThread ==
  ASSUME FatInv, NEW t \in Thread, FatTypeOK', ThreadState(t)', vec' = vec, drained' = drained,
         \A u \in Thread \ {t} :
           /\ pc'[u] = pc[u] /\ func'[u] = func[u] /\ thr'[u] = thr[u] /\ size'[u] = size[u]
           /\ impl'[u] = impl[u] /\ decided'[u] = decided[u] /\ applied'[u] = applied[u]
           /\ issued'[u] = issued[u] /\ entered'[u] = entered[u]
  PROVE  FatInv'
<1>1. TableState'
  BY TableKeeps DEF FatInv
<1>2. ASSUME NEW u \in Thread \ {t}
      PROVE  ThreadState(u)'
  BY <1>2, OthersKeep DEF FatInv
<1>3. \A u \in Thread : ThreadState(u)'
  BY <1>2
<1> QED
  BY <1>1, <1>3 DEF FatInv

\* A thread that stores nothing sees the same table.
LEMMA ViewKeeps ==
  ASSUME NEW t \in Thread, vec' = vec, decided'[t] = decided[t],
         issued'[t] = issued[t], drained'[t] = drained[t]
  PROVE  View[t]' = View[t]
BY DEF View, Stored, FieldAt

\* A call that looks at no threshold.
LEMMA CallFuncInv ==
  ASSUME FatInv, NEW t \in Thread, NEW f \in Func, CallFunc(t, f)
  PROVE  FatInv'
<1>0. FatTypeOK /\ ThreadState(t)
  BY DEF FatInv
<1>1. /\ pc[t] = "idle"  /\ pc'[t] = "jump"  /\ func'[t] = f
      /\ thr'[t] = thr[t]  /\ size'[t] = size[t]  /\ impl'[t] = impl[t]
      /\ decided'[t] = decided[t]  /\ applied'[t] = applied[t]  /\ issued'[t] = issued[t]
      /\ drained'[t] = drained[t]  /\ entered'[t] = entered[t]
  BY <1>0 DEF FatTypeOK, CallFunc, Goto
<1>4. FatTypeOK'
  BY <1>0, FieldFacts DEF FatTypeOK, CallFunc, Goto, PC, Unset, Value
<1>5. View[t]' = View[t]
  BY <1>1, ViewKeeps DEF CallFunc
<1>6. ThreadState(t)'
  BY <1>0, <1>1, <1>5, FieldFacts DEF FatTypeOK, ThreadState
<1> QED
  BY <1>4, <1>6, OneThread DEF FatInv, FatTypeOK, CallFunc, Goto

\* A call that looks at a threshold.
LEMMA CallBelowInv ==
  ASSUME FatInv, NEW t \in Thread, NEW f \in Func, NEW x \in Threshold, CallBelow(t, x, f)
  PROVE  FatInv'
<1>0. FatTypeOK /\ ThreadState(t)
  BY DEF FatInv
<1>1. /\ pc[t] = "idle"  /\ pc'[t] = "test"  /\ func'[t] = f
      /\ thr'[t] = x  /\ size'[t] = size[t]  /\ impl'[t] = impl[t]
      /\ decided'[t] = decided[t]  /\ applied'[t] = applied[t]  /\ issued'[t] = issued[t]
      /\ drained'[t] = drained[t]  /\ entered'[t] = entered[t]
  BY <1>0 DEF FatTypeOK, CallBelow, Goto
<1>4. FatTypeOK'
  BY <1>0, FieldFacts DEF FatTypeOK, CallBelow, Goto, PC, Unset, Value
<1>5. View[t]' = View[t]
  BY <1>1, ViewKeeps DEF CallBelow
<1>6. ThreadState(t)'
  BY <1>0, <1>1, <1>5, FieldFacts DEF FatTypeOK, ThreadState
<1> QED
  BY <1>4, <1>6, OneThread DEF FatInv, FatTypeOK, CallBelow, Goto

\* The test of the flag.
LEMMA TestFlagInv ==
  ASSUME FatInv, NEW t \in Thread, TestFlag(t)
  PROVE  FatInv'
<1>0. FatTypeOK /\ ThreadState(t)
  BY DEF FatInv
<1>1. /\ pc[t] = "test"  /\ pc'[t] = (IF View[t][Initialized] # 0 THEN "fetch" ELSE "decide")  /\ func'[t] = func[t]
      /\ thr'[t] = thr[t]  /\ size'[t] = size[t]  /\ impl'[t] = impl[t]
      /\ decided'[t] = decided[t]  /\ applied'[t] = applied[t]  /\ issued'[t] = issued[t]
      /\ drained'[t] = drained[t]  /\ entered'[t] = entered[t]
  BY <1>0 DEF FatTypeOK, TestFlag, thread, Goto
<1>2. \A x \in Field : /\ View[t][x] \in Value /\ View[t][x] \in {Unset, Chosen[x]}
                       /\ issued[t] = Initialized \/ View[t][Initialized] # 0 =>
                            View[t][x] = Chosen[x] /\ View[t][x] # Unset
  BY ViewFacts
<1>4. FatTypeOK'
  BY <1>0, FieldFacts DEF FatTypeOK, TestFlag, thread, Goto, PC, Unset, Value
<1>5. View[t]' = View[t]
  BY <1>1, ViewKeeps DEF TestFlag, thread
<1>3. Initialized \in Field
  BY FieldFacts
<1>6. ThreadState(t)'
  <2>1. CASE View[t][Initialized] # 0
    BY <2>1, <1>0, <1>1, <1>5 DEF FatTypeOK, ThreadState
  <2>2. CASE View[t][Initialized] = 0
    <3>1. issued[t] # Initialized
      BY <2>2, <1>2, <1>3 DEF Unset
    <3>2. issued[t] = 0 /\ entered[t] = 0
      BY <3>1, <1>0, <1>1 DEF FatTypeOK, ThreadState
    <3> QED
      BY <2>2, <3>2, <1>0, <1>1, <1>5 DEF FatTypeOK, ThreadState
  <2> QED
    BY <2>1, <2>2
<1> QED
  BY <1>4, <1>6, OneThread DEF FatInv, FatTypeOK, TestFlag, thread, Goto

\* A thread that saw the flag set fetches the threshold that was chosen.
LEMMA FetchThresholdInv ==
  ASSUME FatInv, NEW t \in Thread, FetchThreshold(t)
  PROVE  FatInv'
<1>0. FatTypeOK /\ ThreadState(t)
  BY DEF FatInv
<1>1. /\ pc[t] = "fetch"  /\ pc'[t] = "jump"  /\ func'[t] = func[t]
      /\ thr'[t] = thr[t]  /\ size'[t] = View[t][thr[t]]  /\ impl'[t] = impl[t]
      /\ decided'[t] = decided[t]  /\ applied'[t] = applied[t]  /\ issued'[t] = issued[t]
      /\ drained'[t] = drained[t]  /\ entered'[t] = entered[t]
  BY <1>0 DEF FatTypeOK, FetchThreshold, Goto
<1>2. \A x \in Field : /\ View[t][x] \in Value /\ View[t][x] \in {Unset, Chosen[x]}
                       /\ issued[t] = Initialized \/ View[t][Initialized] # 0 =>
                            View[t][x] = Chosen[x] /\ View[t][x] # Unset
  BY ViewFacts
<1>3. /\ View[t][thr[t]] \in Value
      /\ View[t][thr[t]] = Chosen[thr[t]] /\ View[t][thr[t]] # Unset
  <2>1. thr[t] \in Field /\ View[t][Initialized] # 0
    BY <1>0, <1>1, FieldFacts DEF FatTypeOK, ThreadState
  <2> QED
    BY <2>1, <1>2
<1>4. FatTypeOK'
  BY <1>0, FieldFacts, <1>3 DEF FatTypeOK, FetchThreshold, Goto, PC, Unset, Value
<1>5. View[t]' = View[t]
  BY <1>1, ViewKeeps DEF FetchThreshold
<1>6. ThreadState(t)'
  BY <1>0, <1>1, <1>5, FieldFacts, <1>3 DEF FatTypeOK, ThreadState
<1> QED
  BY <1>4, <1>6, OneThread DEF FatInv, FatTypeOK, FetchThreshold, Goto

\* A jump through the table reaches the routine that was chosen, or an init routine.
LEMMA JumpInv ==
  ASSUME FatInv, NEW t \in Thread, Jump(t)
  PROVE  FatInv'
<1>0. FatTypeOK /\ ThreadState(t)
  BY DEF FatInv
<1>1. /\ pc[t] = "jump"  /\ pc'[t] = (IF View[t][func[t]] # Unset THEN "run" ELSE "decide")  /\ func'[t] = func[t]
      /\ thr'[t] = thr[t]  /\ size'[t] = size[t]  /\ impl'[t] = View[t][func[t]]
      /\ decided'[t] = decided[t]  /\ applied'[t] = applied[t]  /\ issued'[t] = issued[t]
      /\ drained'[t] = drained[t]  /\ entered'[t] = (IF View[t][func[t]] # Unset THEN entered[t] ELSE entered[t] + 1)
  BY <1>0 DEF FatTypeOK, Jump, Goto
<1>2. \A x \in Field : /\ View[t][x] \in Value /\ View[t][x] \in {Unset, Chosen[x]}
                       /\ issued[t] = Initialized \/ View[t][Initialized] # 0 =>
                            View[t][x] = Chosen[x] /\ View[t][x] # Unset
  BY ViewFacts
<1>3. /\ View[t][func[t]] \in Value /\ View[t][func[t]] \in {Unset, Chosen[func[t]]}
      /\ issued[t] = Initialized => View[t][func[t]] # Unset
  <2>1. func[t] \in Field
    BY <1>0, FieldFacts DEF FatTypeOK
  <2> QED
    BY <2>1, <1>2
<1>4. FatTypeOK'
  <2>1. entered' \in [Thread -> Nat]
    BY <1>0 DEF FatTypeOK, Jump
  <2>2. pc' \in [Thread -> PC] /\ impl' \in [Thread -> Value]
    BY <1>0, <1>3 DEF FatTypeOK, Jump, Goto, PC
  <2> QED
    BY <1>0, <2>1, <2>2 DEF FatTypeOK, Jump
<1>5. View[t]' = View[t]
  BY <1>1, ViewKeeps DEF Jump
<1>6. ThreadState(t)'
  BY <1>0, <1>1, <1>5, FieldFacts, <1>3 DEF FatTypeOK, ThreadState
<1> QED
  BY <1>4, <1>6, OneThread DEF FatInv, FatTypeOK, Jump, Goto

\* The return of the function.
LEMMA FinishInv ==
  ASSUME FatInv, NEW t \in Thread, Finish(t)
  PROVE  FatInv'
<1>0. FatTypeOK /\ ThreadState(t)
  BY DEF FatInv
<1>1. /\ pc[t] = "run"  /\ pc'[t] = "idle"  /\ func'[t] = func[t]
      /\ thr'[t] = Initialized  /\ size'[t] = Unset  /\ impl'[t] = Unset
      /\ decided'[t] = decided[t]  /\ applied'[t] = applied[t]  /\ issued'[t] = issued[t]
      /\ drained'[t] = drained[t]  /\ entered'[t] = entered[t]
  BY <1>0 DEF FatTypeOK, Finish, Goto
<1>4. FatTypeOK'
  BY <1>0, FieldFacts DEF FatTypeOK, Finish, Goto, PC, Unset, Value
<1>5. View[t]' = View[t]
  BY <1>1, ViewKeeps DEF Finish
<1>6. ThreadState(t)'
  BY <1>0, <1>1, <1>5, FieldFacts DEF FatTypeOK, ThreadState
<1> QED
  BY <1>4, <1>6, OneThread DEF FatInv, FatTypeOK, Finish, Goto

\* __gmpn_cpu clears decided_cpuvec.
LEMMA ClearVecInv ==
  ASSUME FatInv, NEW t \in Thread, ClearVec(t)
  PROVE  FatInv'
<1>0. FatTypeOK /\ ThreadState(t)
  BY DEF FatInv
<1>1. /\ pc[t] = "decide"  /\ pc'[t] = "setup"  /\ decided'[t] = NoVec /\ applied'[t] = 0
      /\ func'[t] = func[t]  /\ thr'[t] = thr[t]  /\ size'[t] = size[t]  /\ impl'[t] = impl[t]
      /\ issued'[t] = issued[t]  /\ drained'[t] = drained[t]  /\ entered'[t] = entered[t]
  BY <1>0 DEF FatTypeOK, ClearVec, Goto
<1>2. \A x \in Func \cup Threshold : NoVec[x] = ChosenOf(0)[x]
  BY ChosenStart DEF NoVec
<1>3. Len(Setups) \in Nat \ {0}
  BY FatAssumption
<1>4. FatTypeOK'
  <2>1. NoVec \in [Func \cup Threshold -> Value]
    BY DEF NoVec, Unset, Value
  <2>2. decided' \in [Thread -> [Func \cup Threshold -> Value]]
    BY <1>0, <2>1 DEF FatTypeOK, ClearVec
  <2>3. applied' \in [Thread -> 0 .. Len(Setups)] /\ pc' \in [Thread -> PC]
    BY <1>0, <1>3 DEF FatTypeOK, ClearVec, Goto, PC
  <2> QED
    BY <1>0, <2>2, <2>3 DEF FatTypeOK, ClearVec
<1>6. ThreadState(t)'
  BY <1>0, <1>1, <1>2, <1>3 DEF FatTypeOK, ThreadState
<1> QED
  BY <1>4, <1>6, OneThread DEF FatInv, FatTypeOK, ClearVec, Goto

\* A setup brings decided_cpuvec one choice closer to the chosen one; when the
\* last has, every field has its value.
LEMMA ApplySetupInv ==
  ASSUME FatInv, NEW t \in Thread, ApplySetup(t)
  PROVE  FatInv'
<1> DEFINE n == applied[t]
           All == Func \cup Threshold
<1>0. FatTypeOK /\ ThreadState(t)
  BY DEF FatInv
<1>1. /\ pc[t] = "setup"
      /\ pc'[t] = (IF n + 1 < Len(Setups) THEN "setup" ELSE "install")
      /\ decided'[t] = [x \in DOMAIN decided[t] |->
                          IF x \in DOMAIN Setups[n + 1] THEN Setups[n + 1][x] ELSE decided[t][x]]
      /\ applied'[t] = n + 1
      /\ func'[t] = func[t]  /\ thr'[t] = thr[t]  /\ size'[t] = size[t]  /\ impl'[t] = impl[t]
      /\ issued'[t] = issued[t]  /\ drained'[t] = drained[t]  /\ entered'[t] = entered[t]
  BY <1>0 DEF FatTypeOK, ApplySetup, Goto
<1>2. /\ Len(Setups) \in Nat \ {0} /\ n \in Nat /\ n < Len(Setups)
      /\ DOMAIN decided[t] = All /\ decided[t] \in [All -> Value]
  <2>1. Len(Setups) \in Nat \ {0}
    BY FatAssumption
  <2>2. decided[t] \in [All -> Value]
    BY <1>0 DEF FatTypeOK
  <2>3. n \in 0 .. Len(Setups) /\ n < Len(Setups)
    BY <1>0 DEF FatTypeOK, ApplySetup
  <2> QED
    BY <2>1, <2>2, <2>3
<1>3. ASSUME NEW x \in All
      PROVE  /\ decided'[t][x] = ChosenOf(n + 1)[x]
             /\ decided'[t][x] \in Value
             /\ decided'[t][x] # Unset
  <2>1. decided[t][x] = ChosenOf(n)[x] /\ (n > 0 => decided[t][x] # Unset)
    BY <1>0, <1>1 DEF ThreadState
  <2>2. n + 1 \in 1 .. Len(Setups) /\ n \in 0 .. Len(Setups) - 1
    BY <1>2
  <2>3. x \in DOMAIN Setups[n + 1] => Setups[n + 1][x] \in Value \ {Unset}
    BY <2>2, FatAssumption
  <2>4. n = 0 => x \in DOMAIN Setups[n + 1]
    BY FatAssumption
  <2>5. decided'[t][x] = IF x \in DOMAIN Setups[n + 1] THEN Setups[n + 1][x] ELSE decided[t][x]
    BY <1>1, <1>2
  <2>6. decided'[t][x] = ChosenOf(n + 1)[x]
    BY <2>1, <2>2, <2>5, ChosenStep
  <2>7. decided[t][x] \in Value
    BY <1>2
  <2> QED
    BY <2>1, <2>3, <2>4, <2>5, <2>6, <2>7, <1>2
<1>4. FatTypeOK'
  <2>1. decided'[t] \in [All -> Value]
    BY <1>1, <1>2, <1>3
  <2>2. decided' \in [Thread -> [All -> Value]]
    BY <2>1, <1>0 DEF FatTypeOK, ApplySetup
  <2>3. applied' \in [Thread -> 0 .. Len(Setups)] /\ pc' \in [Thread -> PC]
    BY <1>0, <1>2 DEF FatTypeOK, ApplySetup, Goto, PC
  <2> QED
    BY <1>0, <2>2, <2>3 DEF FatTypeOK, ApplySetup
<1>5. n + 1 >= Len(Setups) => ChosenOf(n + 1) = Chosen
  BY <1>2 DEF Chosen
<1>6. issued[t] = 0
  BY <1>0, <1>1 DEF ThreadState
<1>7. \A x \in All : decided'[t][x] = ChosenOf(n + 1)[x] /\ decided'[t][x] # Unset
  BY <1>3
<1>8. Initialized \in Nat \ {0}
  BY FieldFacts
<1>9. ThreadState(t)'
  <2>1. CASE n + 1 < Len(Setups)
    <3>1. pc'[t] = "setup" /\ applied'[t] = n + 1 /\ issued'[t] = 0
      BY <2>1, <1>1, <1>6
    <3>2. \A x \in All : decided'[t][x] = ChosenOf(applied'[t])[x] /\ decided'[t][x] # Unset
      BY <3>1, <1>7
    <3>3. applied'[t] < Len(Setups) /\ drained'[t] <= issued'[t]
      BY <2>1, <3>1, <1>0, <1>1, <1>6 DEF ThreadState
    <3>4. UNCHANGED <<func[t], thr[t], size[t], impl[t], entered[t]>>
      BY <1>1
    <3> HIDE DEF n
    <3> QED
      BY <3>1, <3>2, <3>3, <3>4, <1>0, <1>8 DEF ThreadState
  <2>2. CASE ~(n + 1 < Len(Setups))
    <3>1. \A x \in All : decided'[t][x] = Chosen[x] /\ decided'[t][x] # Unset
      BY <1>2, <1>5, <1>7, <2>2
    <3>2. pc'[t] = "install" /\ pc[t] = "setup" /\ issued'[t] = 0
      BY <2>2, <1>1, <1>6
    <3>3. drained'[t] <= issued'[t]
      BY <1>0, <1>1 DEF ThreadState
    <3>4. UNCHANGED <<func[t], thr[t], size[t], impl[t], entered[t]>>
      BY <1>1
    <3> HIDE DEF n
    <3> QED
      BY <3>1, <3>2, <3>3, <3>4, <1>0, <1>8 DEF ThreadState
  <2> QED
    BY <2>1, <2>2
<1> QED
  BY <1>4, <1>9, OneThread DEF FatInv, FatTypeOK, ApplySetup, Goto

\* A store of CPUVEC_INSTALL, or of the flag.
LEMMA StoreInv ==
  ASSUME FatInv, NEW t \in Thread, Store(t)
  PROVE  FatInv'
<1>0. FatTypeOK /\ ThreadState(t)
  BY DEF FatInv
<1>1. /\ pc[t] = "install"
      /\ pc'[t] = (IF issued[t] + 1 < Initialized THEN "install"
                   ELSE IF Waiting(t) THEN "fetch" ELSE "jump")
      /\ issued'[t] = issued[t] + 1
      /\ func'[t] = func[t]  /\ thr'[t] = thr[t]  /\ size'[t] = size[t]  /\ impl'[t] = impl[t]
      /\ decided'[t] = decided[t]  /\ applied'[t] = applied[t]
      /\ drained'[t] = drained[t]  /\ entered'[t] = entered[t]
  BY <1>0 DEF FatTypeOK, Store
<1>2. issued[t] \in Nat /\ issued[t] < Initialized /\ Initialized \in Nat /\ Initialized \in Field
  BY <1>0, FieldFacts DEF FatTypeOK, Store
<1>3. issued' \in [Thread -> 0 .. Initialized]
  BY <1>0, <1>2 DEF FatTypeOK, Store
<1>4. FatTypeOK'
  BY <1>0, <1>3 DEF FatTypeOK, Store, PC
<1>5. issued[t] + 1 = Initialized => View'[t][Initialized] # 0
  <2>1. drained[t] \in Nat /\ drained[t] <= issued[t]
    BY <1>0 DEF FatTypeOK, ThreadState
  <2>2. issued[t] + 1 = Initialized =>
          Initialized \in drained'[t] + 1 .. issued'[t]
    BY <1>1, <1>2, <2>1
  <2> QED
    BY <2>2, <1>2 DEF View, FieldAt, Stored
<1>6. ThreadState(t)'
  <2>1. CASE issued[t] + 1 < Initialized
    BY <2>1, <1>0, <1>1, <1>2 DEF FatTypeOK, ThreadState
  <2>2. CASE issued[t] + 1 = Initialized
    BY <2>2, <1>0, <1>1, <1>2, <1>5 DEF FatTypeOK, ThreadState, Waiting
  <2> QED
    BY <2>1, <2>2, <1>2
<1> QED
  BY <1>4, <1>6, OneThread DEF FatInv, FatTypeOK, Store

\* A store reaches memory.  Nobody sees anything else than before of the flag
\* that was set, and the fields are there before it.
LEMMA DrainInv ==
  ASSUME FatInv, NEW t \in Thread, Drain(t)
  PROVE  FatInv'
<1> DEFINE x == drained[t] + 1
<1>0. FatTypeOK /\ ThreadState(t) /\ TableState
  BY DEF FatInv
<1>1. /\ x \in Field /\ x \in Nat /\ drained[t] < issued[t] /\ issued[t] <= Initialized
      /\ drained[t] \in Nat /\ issued[t] \in Nat
  BY <1>0, FieldFacts DEF FatTypeOK, Drain
<1>2. Stored(t, x) = Chosen[x] /\ Stored(t, x) # Unset /\ Stored(t, x) \in Value
  BY <1>0, <1>1, FieldFacts, ChosenFlag DEF Stored, ThreadState, FatTypeOK, Unset, Value
<1>3. /\ vec' = [vec EXCEPT ![x] = Stored(t, x)]
      /\ drained' = [drained EXCEPT ![t] = x]
      /\ UNCHANGED <<pc, thread>>
  BY DEF Drain, FieldAt
<1>4. FatTypeOK'
  <2>1. vec' \in [Field -> Value]
    BY <1>0, <1>1, <1>2, <1>3 DEF FatTypeOK
  <2>2. drained' \in [Thread -> 0 .. Initialized]
    BY <1>0, <1>1, <1>3, FieldFacts DEF FatTypeOK
  <2> QED
    BY <1>0, <1>3, <2>1, <2>2 DEF FatTypeOK, thread
<1>5. /\ vec'[x] = Chosen[x] /\ vec'[x] # Unset
      /\ \A y \in Field \ {x} : vec'[y] = vec[y]
      /\ drained'[t] = x /\ \A u \in Thread \ {t} : drained'[u] = drained[u]
  BY <1>0, <1>1, <1>2, <1>3 DEF FatTypeOK
<1>6. \A u \in Thread : \A k \in 1 .. drained[u] : k \in Field
  <2>1. \A u \in Thread : drained[u] \in 0 .. Initialized
    BY <1>0 DEF FatTypeOK
  <2>2. Field = 1 .. Initialized /\ Initialized \in Nat
    BY FieldFacts
  <2> QED
    BY <2>1, <2>2
<1>7. TableState'
  <2>1. \A y \in Field : vec'[y] \in {Unset, Chosen[y]} /\ (vec[y] # Unset => vec'[y] # Unset)
    BY <1>0, <1>5 DEF TableState
  <2>2. ASSUME NEW u \in Thread, NEW k \in 1 .. drained'[u]
        PROVE  vec'[k] = Chosen[k] /\ vec'[k] # Unset
    <3>1. k = x \/ k \in 1 .. drained[u]
      BY <1>1, <1>5
    <3> QED
      BY <3>1, <2>1, <1>0, <1>5, <1>6 DEF TableState
  <2>3. ASSUME vec'[Initialized] # Unset, NEW y \in Field
        PROVE  vec'[y] = Chosen[y] /\ vec'[y] # Unset
    <3>1. CASE x = Initialized
      <4>1. y = x \/ y \in 1 .. drained[t]
        BY <3>1, <1>1, FieldFacts
      <4> QED
        BY <4>1, <2>1, <1>0, <1>5 DEF TableState
    <3>2. CASE x # Initialized
      <4>1. vec[Initialized] # Unset
        BY <3>2, <2>3, <1>5, FieldFacts
      <4> QED
        BY <4>1, <2>1, <1>0 DEF TableState
    <3> QED
      BY <3>1, <3>2
  <2> QED
    BY <2>1, <2>2, <2>3 DEF TableState
<1> HIDE DEF x
<1>8. ASSUME NEW u \in Thread
      PROVE  View[u][Initialized] # 0 => View'[u][Initialized] # 0
  <2>1. Initialized \in Field
    BY FieldFacts
  <2>2. \A v \in Thread : View[v][Initialized] =
          IF Initialized \in drained[v] + 1 .. issued[v] THEN 1 ELSE vec[Initialized]
    BY <2>1 DEF View, FieldAt, Stored
  <2>3. View'[u][Initialized] =
          IF Initialized \in drained'[u] + 1 .. issued'[u] THEN 1 ELSE vec'[Initialized]
    BY <2>1 DEF View, FieldAt, Stored
  <2>4. vec[Initialized] # 0 => vec'[Initialized] # 0
    BY <2>1, <1>5 DEF Unset
  <2>5. issued' = issued
    BY <1>3 DEF thread
  <2>6. CASE u = t
    <3>1. x = Initialized => vec'[Initialized] # 0
      BY <1>5 DEF Unset
    <3>2. x # Initialized /\ Initialized \in drained[t] + 1 .. issued[t]
            => Initialized \in x + 1 .. issued[t]
      BY <1>1 DEF x
    <3> QED
      BY <2>6, <3>1, <3>2, <2>2, <2>3, <2>4, <2>5, <1>5
  <2>7. CASE u # t
    BY <2>7, <2>2, <2>3, <2>4, <2>5, <1>5
  <2> QED
    BY <2>6, <2>7
<1>9. ASSUME NEW u \in Thread
      PROVE  ThreadState(u)'
  <2>1. ThreadState(u)
    BY DEF FatInv
  <2>2. /\ pc' = pc /\ func' = func /\ thr' = thr /\ size' = size /\ impl' = impl
        /\ decided' = decided /\ applied' = applied /\ issued' = issued /\ entered' = entered
    BY <1>3 DEF thread
  <2>3. drained'[u] <= issued[u]
    BY <2>1, <1>1, <1>5 DEF ThreadState, x
  <2> QED
    BY <2>1, <2>2, <2>3, <1>8 DEF ThreadState
<1> QED
  BY <1>4, <1>7, <1>9 DEF FatInv

\* Every step, and stuttering, preserves FatInv.
LEMMA NextInv == FatInv /\ [FatNext]_fatVars => FatInv'
<1> SUFFICES ASSUME FatInv, [FatNext]_fatVars
             PROVE  FatInv'
  OBVIOUS
<1>1. CASE UNCHANGED fatVars
  <2>1. FatTypeOK' /\ TableState'
    BY <1>1 DEF fatVars, FatInv, FatTypeOK, TableState
  <2>2. \A t \in Thread : ThreadState(t)'
    BY <1>1, OthersKeep DEF fatVars, FatInv
  <2> QED
    BY <2>1, <2>2 DEF FatInv
<1>2. ASSUME NEW t \in Thread, NEW f \in Func, CallFunc(t, f)
      PROVE  FatInv'
  BY <1>2, CallFuncInv
<1>3. ASSUME NEW t \in Thread, NEW x \in Threshold, NEW f \in Func, CallBelow(t, x, f)
      PROVE  FatInv'
  BY <1>3, CallBelowInv
<1>4. ASSUME NEW t \in Thread, Step(t)
      PROVE  FatInv'
  BY <1>4, TestFlagInv, FetchThresholdInv, JumpInv, ClearVecInv, ApplySetupInv, StoreInv,
     FinishInv DEF Step
<1>5. ASSUME NEW t \in Thread, Drain(t)
      PROVE  FatInv'
  BY <1>5, DrainInv
<1> QED
  BY <1>1, <1>2, <1>3, <1>4, <1>5 DEF FatNext

\* For any threads, functions, thresholds and setups, and every order in which
\* the threads run and their stores drain, FatInv holds.
THEOREM FatInvariance == FatSpec => []FatInv
BY InitInv, NextInv, PTL DEF FatSpec

\* The variables keep their types (fat.c, fat_entry.asm).
THEOREM FatTypeCorrect == FatSpec => []FatTypeOK
<1>1. FatInv => FatTypeOK
  BY DEF FatInv
<1> QED
  BY <1>1, FatInvariance, PTL

\* A routine runs only if it is the one chosen for this CPU, and only with the
\* threshold that goes with it, even while the table is being filled.
THEOREM ConsistentUseHolds == FatSpec => []ConsistentUse
<1>1. FatInv => ConsistentUse
  BY DEF FatInv, ThreadState, ConsistentUse
<1> QED
  BY <1>1, FatInvariance, PTL

\* The flag of CPUVEC_THRESHOLD is never seen before what it guards.
THEOREM FlagMeansReadyHolds == FatSpec => []FlagMeansReady
<1>1. FatInv => FlagMeansReady
  BY ViewFacts DEF FlagMeansReady
<1> QED
  BY <1>1, FatInvariance, PTL

\* No thread enters an init routine twice (FAT_INIT of fat_entry.asm).
THEOREM InitRoutineOnceHolds == FatSpec => []InitRoutineOnce
<1>1. FatInv => InitRoutineOnce
  BY DEF FatInv, ThreadState, InitRoutineOnce
<1> QED
  BY <1>1, FatInvariance, PTL

\* A field that has its value keeps it, whoever stores it again.
THEOREM FieldsSettleHolds == FatSpec => FieldsSettle
<1>1. FatInv /\ [FatNext]_fatVars => [\A x \in Field : vec[x] # Unset => vec'[x] = vec[x]]_fatVars
  <2> SUFFICES ASSUME FatInv, [FatNext]_fatVars, NEW x \in Field, vec[x] # Unset
               PROVE  vec'[x] = vec[x]
    OBVIOUS
  <2>1. FatInv'
    BY NextInv
  <2>2. vec[x] = Chosen[x] /\ vec'[x] \in {Unset, Chosen[x]}
    BY <2>1 DEF FatInv, TableState
  <2>3. CASE \E t \in Thread : Drain(t)
    <3>1. PICK t \in Thread : Drain(t)
      BY <2>3
    <3>2. CASE x = drained[t] + 1
      <4>1. drained'[t] = x /\ drained[t] \in Nat /\ x \in 1 .. drained'[t]
        BY <3>1, <3>2 DEF Drain, FatInv, FatTypeOK
      <4> QED
        BY <4>1, <2>1, <2>2 DEF FatInv, TableState
    <3>3. CASE x # drained[t] + 1
      BY <3>1, <3>3 DEF Drain, FieldAt, FatInv, FatTypeOK
    <3> QED
      BY <3>2, <3>3
  <2>4. CASE UNCHANGED vec
    BY <2>4
  <2>5. UNCHANGED vec \/ \E t \in Thread : Drain(t)
    BY DEF FatNext, fatVars, Step, CallFunc, CallBelow, TestFlag, FetchThreshold, Jump, ClearVec,
       ApplySetup, Store, Finish
  <2> QED
    BY <2>3, <2>4, <2>5
<1> QED
  BY <1>1, FatInvariance, PTL DEF FatSpec, FieldsSettle

-----------------------------------------------------------------------------
(* Induction and definition by recursion, of sets and functions; rounding up *)
(* to a multiple of a number and sums of multiples.                          *)

\* A set of natural numbers that is not empty has a least element.
LEMMA LeastElement ==
  ASSUME NEW T, T \subseteq Nat, T # {}
  PROVE  \E x \in T : \A y \in T : x <= y
<1> DEFINE R == OpToRel(<, Nat)
<1>1. IsWellFoundedOn(R, Nat)
  BY NatLessThanWellFounded
<1>2. \A x, y \in Nat : y < x => <<y, x>> \in R
  BY DEF R, OpToRel
<1> HIDE DEF R
<1>3. PICK x \in T : \A y \in T : ~ (<<y, x>> \in R)
  BY <1>1, WFMin
<1>4. ASSUME NEW y \in T PROVE x <= y
  <2>1. x \in Nat /\ y \in Nat /\ ~(y < x)
    BY <1>2, <1>3
  <2> QED
    BY <2>1
<1> QED
  BY <1>4

\* Induction up to n, for a set of numbers.
LEMMA SetInduction ==
  ASSUME NEW n \in Nat, NEW P, 0 \in P, \A k \in 0 .. n - 1 : k \in P => k + 1 \in P
  PROVE  0 .. n \subseteq P
<1> DEFINE T == (0 .. n) \ P
<1> SUFFICES ASSUME T # {} PROVE FALSE
  OBVIOUS
<1>1. T \subseteq Nat
  OBVIOUS
<1> HIDE DEF T
<1>2. PICK x \in T : \A y \in T : x <= y
  BY <1>1, LeastElement
<1> USE DEF T
<1>3. x # 0 /\ x - 1 \in 0 .. n - 1 /\ x - 1 \notin T
  BY <1>2
<1> QED
  BY <1>2, <1>3

\* A function on 0 .. n may be defined by its first value and a step.
Follows(f, n, V, base, step) ==
  /\ f \in [0 .. n -> V]
  /\ f[0] = base
  /\ \A k \in 0 .. n - 1 : f[k + 1] = step[<<k, f[k]>>]

\* What is defined step by step, up to n, exists.
LEMMA Recursion ==
  ASSUME NEW n \in Nat, NEW V, NEW base \in V, NEW step \in [(0 .. n) \X V -> V]
  PROVE  \E f : Follows(f, n, V, base, step)
<1> DEFINE Rec(f, j) ==
             /\ f \in [0 .. n -> V]
             /\ f[0] = base /\ \A k \in 0 .. j - 1 : f[k + 1] = step[<<k, f[k]>>]
           P == {j \in 0 .. n : \E f : Rec(f, j)}
<1>1. 0 \in P
  <2>1. Rec([k \in 0 .. n |-> base], 0) /\ 0 \in 0 .. n
    OBVIOUS
  <2> HIDE DEF Rec
  <2> QED
    BY <2>1, Zenon
<1>2. ASSUME NEW j \in 0 .. n - 1, j \in P PROVE j + 1 \in P
  <2>1. PICK f : Rec(f, j)
    BY <1>2
  <2> DEFINE g == [f EXCEPT ![j + 1] = step[<<j, f[j]>>]]
  <2>2. Rec(g, j + 1)
    <3>1. g \in [0 .. n -> V] /\ g[0] = base
      BY <2>1
    <3>2. ASSUME NEW k \in 0 .. j PROVE g[k + 1] = step[<<k, g[k]>>]
      BY <2>1
    <3> QED
      BY <3>1, <3>2
  <2>3. j + 1 \in 0 .. n
    OBVIOUS
  <2> HIDE DEF Rec, g
  <2> QED
    BY <2>2, <2>3, Zenon
<1> HIDE DEF P
<1>3. 0 .. n \subseteq P
  BY <1>1, <1>2, SetInduction, Zenon
<1>4. n \in P
  BY <1>3
<1> QED
  BY <1>4 DEF P, Follows

\* Rounding up to a multiple of a number, as the allocators do, and sums of multiples.
LEMMA Multiple ==
  ASSUME NEW a \in Nat \ {0}, NEW k \in Int
  PROVE  (a * k) % a = 0
OBVIOUS

\* Rounding up gives a multiple that is no smaller.
LEMMA RoundedUp ==
  ASSUME NEW a \in Nat \ {0}, NEW n \in Nat
  PROVE  /\ n + ((-n) % a) \in Nat /\ n + ((-n) % a) >= n
         /\ (n + ((-n) % a)) % a = 0
<1>1. (-n) % a \in 0 .. a - 1
  OBVIOUS
<1> DEFINE q == (-n) \div a
<1>2. q \in Int /\ -n = a * q + ((-n) % a)
  OBVIOUS
<1>3. -q \in Int /\ n + ((-n) % a) = a * (-q)
  BY <1>1, <1>2
<1> HIDE DEF q
<1>4. (a * (-q)) % a = 0
  BY <1>3, Multiple
<1> QED
  BY <1>1, <1>3, <1>4

\* The sum of multiples is one.
LEMMA MultipleSum ==
  ASSUME NEW a \in Nat \ {0}, NEW m \in Nat, NEW n \in Nat, m % a = 0, n % a = 0
  PROVE  (m + n) % a = 0
<1> DEFINE p == m \div a  q == n \div a
<1>1. p \in Int /\ q \in Int /\ m = a * p /\ n = a * q
  OBVIOUS
<1>2. m + n = a * (p + q)
  BY <1>1
<1>3. p + q \in Int
  BY <1>1
<1> HIDE DEF p, q
<1>4. (a * (p + q)) % a = 0
  BY <1>3, Multiple
<1> QED
  BY <1>2, <1>4

-----------------------------------------------------------------------------

\* Rounding is upwards, to a multiple of Align.
LEMMA RoundFacts ==
  ASSUME NEW n \in Nat
  PROVE  RoundUp(n) \in Nat /\ RoundUp(n) >= n /\ RoundUp(n) % Align = 0
<1>1. Align \in Nat \ {0}
  BY ArenaAssumption
<1> QED
  BY <1>1, RoundedUp DEF RoundUp

\* Chunks have one place in the stack each.
Distinct(s) == \A k, l \in 1 .. Len(s) : s[k].id = s[l].id => k = l

\* A chunk is found where it is.
LEMMA IndexFacts ==
  ASSUME NEW s, Len(s) \in Nat, Distinct(s), NEW k \in 1 .. Len(s)
  PROVE  Index(s, s[k].id) = k
BY DEF Index, Distinct

\* The bytes above the k-th chunk are the only function that adds them up.
Adds(F, s, k) ==
  /\ F[k] = 0
  /\ \A l \in k + 1 .. Len(s) : F[l] = F[l - 1] + (s[l].end - Hsiz)

\* Two ways to add up the chunks above the k-th end with the same sum.
LEMMA BytesUnique ==
  ASSUME NEW s \in Seq(Chunk), NEW k \in 0 .. Len(s), NEW F, NEW G, Adds(F, s, k), Adds(G, s, k)
  PROVE  F[Len(s)] = G[Len(s)]
<1> DEFINE n == Len(s) - k
           P == {j \in 0 .. n : F[k + j] = G[k + j]}
<1>1. n \in Nat /\ 0 \in P
  BY DEF Adds
<1>2. ASSUME NEW j \in 0 .. n - 1, j \in P PROVE j + 1 \in P
  <2>1. k + (j + 1) \in k + 1 .. Len(s) /\ (k + (j + 1)) - 1 = k + j /\ j + 1 \in 0 .. n
    OBVIOUS
  <2> QED
    BY <1>2, <2>1 DEF Adds
<1> HIDE DEF P
<1>3. 0 .. n \subseteq P
  BY <1>1, <1>2, SetInduction, Zenon
<1>4. n \in P
  BY <1>1, <1>3
<1> QED
  BY <1>4 DEF P

\* There is one.
LEMMA BytesExist ==
  ASSUME NEW s \in Seq(Chunk), NEW k \in 1 .. Len(s)
  PROVE  \E F : F \in [k .. Len(s) -> Int] /\ Adds(F, s, k) /\ BytesAbove(s, k) = F[Len(s)]
<1> DEFINE n == Len(s) - k
           step == [jv \in (0 .. n) \X Int |->
                      jv[2] + (IF jv[1] < n THEN s[k + jv[1] + 1].end - Hsiz ELSE 0)]
           Is(f) == f = [l \in k .. Len(s) |->
                           IF l = k THEN 0 ELSE f[l - 1] + (s[l].end - Hsiz)]
<1>1. n \in Nat /\ 0 \in Int /\ step \in [(0 .. n) \X Int -> Int]
  <2>1. ASSUME NEW l \in 1 .. Len(s) PROVE s[l].end - Hsiz \in Int
    <3>1. s[l] \in Chunk /\ Hsiz \in Nat
      BY ArenaAssumption
    <3>2. s[l].end \in Nat
      BY <3>1 DEF Chunk
    <3> QED
      BY <3>1, <3>2
  <2>2. n \in Nat
    OBVIOUS
  <2>3. ASSUME NEW j \in 0 .. n, NEW v \in Int
        PROVE  v + (IF j < n THEN s[k + j + 1].end - Hsiz ELSE 0) \in Int
    <3>1. CASE j < n
      <4>1. k + j + 1 \in 1 .. Len(s)
        BY <3>1, <2>2
      <4> QED
        BY <4>1, <2>1, <3>1
    <3> QED
      BY <3>1
  <2>4. \A jv \in (0 .. n) \X Int :
           jv[2] + (IF jv[1] < n THEN s[k + jv[1] + 1].end - Hsiz ELSE 0) \in Int
    BY <2>3
  <2> QED
    BY <2>2, <2>4
<1> HIDE DEF n, step
<1>2. PICK g : Follows(g, n, Int, 0, step)
  BY <1>1, Recursion, Zenon
<1> DEFINE F == [l \in k .. Len(s) |-> g[l - k]]
<1>3. F \in [k .. Len(s) -> Int] /\ F[k] = 0
  BY <1>2 DEF Follows, n
<1>4. ASSUME NEW l \in k + 1 .. Len(s) PROVE F[l] = F[l - 1] + (s[l].end - Hsiz)
  <2> DEFINE j == (l - 1) - k
             v == g[j]
  <2>1. j \in 0 .. n - 1 /\ j \in 0 .. n /\ j < n /\ j + 1 = l - k /\ k + j + 1 = l
    BY DEF n
  <2>2. l - 1 \in k .. Len(s) /\ l \in k .. Len(s)
    OBVIOUS
  <2>3. F[l] = g[j + 1] /\ F[l - 1] = v
    BY <2>1, <2>2
  <2> HIDE DEF j, F
  <2>4. v \in Int /\ g[j + 1] = step[<<j, v>>]
    BY <1>1, <1>2, <2>1 DEF Follows
  <2> HIDE DEF v
  <2>5. step[<<j, v>>] = v + (IF j < n THEN s[k + j + 1].end - Hsiz ELSE 0)
    BY <2>1, <2>4 DEF step
  <2> QED
    BY <2>1, <2>3, <2>4, <2>5
<1>5. Adds(F, s, k)
  BY <1>3, <1>4 DEF Adds
<1> HIDE DEF F
<1>6. Is(F)
  <2>1. \A l \in k .. Len(s) : F[l] = IF l = k THEN 0 ELSE F[l - 1] + (s[l].end - Hsiz)
    BY <1>3, <1>4
  <2> QED
    BY <1>3, <2>1, Zenon
<1>7. Is(CHOOSE f : Is(f))
  BY <1>6, Zenon
<1> DEFINE G == CHOOSE f : Is(f)
<1>8. BytesAbove(s, k) = G[Len(s)]
  BY DEF BytesAbove
<1>9. Adds(G, s, k)
  <2> HIDE DEF G
  <2>1. G = [l \in k .. Len(s) |-> IF l = k THEN 0 ELSE G[l - 1] + (s[l].end - Hsiz)]
    BY <1>7 DEF G
  <2>2. G[k] = 0
    BY <2>1
  <2>3. ASSUME NEW l \in k + 1 .. Len(s) PROVE G[l] = G[l - 1] + (s[l].end - Hsiz)
    BY <2>1
  <2> QED
    BY <2>2, <2>3 DEF Adds
<1>10. F[Len(s)] = G[Len(s)]
  <2> HIDE DEF G
  <2> QED
    BY <1>5, <1>9, BytesUnique
<1> QED
  BY <1>3, <1>5, <1>8, <1>10

\* Nothing is above the top, and no sum is negative.
LEMMA BytesNat ==
  ASSUME NEW s \in Seq(Chunk), NEW k \in 1 .. Len(s),
         \A l \in k + 1 .. Len(s) : s[l].end >= Hsiz
  PROVE  BytesAbove(s, k) \in Nat /\ (k = Len(s) => BytesAbove(s, k) = 0)
<1>1. PICK F : F \in [k .. Len(s) -> Int] /\ Adds(F, s, k) /\ BytesAbove(s, k) = F[Len(s)]
  BY BytesExist
<1> DEFINE n == Len(s) - k
           P == {j \in 0 .. n : F[k + j] \in Nat}
<1>2. n \in Nat /\ 0 \in P
  BY <1>1 DEF Adds
<1>3. ASSUME NEW j \in 0 .. n - 1, j \in P PROVE j + 1 \in P
  <2>1. k + (j + 1) \in k + 1 .. Len(s) /\ (k + (j + 1)) - 1 = k + j /\ j + 1 \in 0 .. n
    OBVIOUS
  <2>2. s[k + (j + 1)] \in Chunk /\ s[k + (j + 1)].end >= Hsiz /\ Hsiz \in Nat
    BY <2>1, ArenaAssumption
  <2>3. s[k + (j + 1)].end \in Nat
    BY <2>2 DEF Chunk
  <2>4. F[k + (j + 1)] = F[k + j] + (s[k + (j + 1)].end - Hsiz)
    BY <1>1, <2>1 DEF Adds
  <2>5. F[k + j] \in Nat
    BY <1>3
  <2>6. F[k + (j + 1)] \in Nat
    BY <2>2, <2>3, <2>4, <2>5
  <2> QED
    BY <2>1, <2>6
<1> HIDE DEF P
<1>4. 0 .. n \subseteq P
  BY <1>2, <1>3, SetInduction, Zenon
<1>5. n \in P
  BY <1>2, <1>4
<1>6. F[k] = 0
  BY <1>1 DEF Adds
<1> QED
  BY <1>1, <1>5, <1>6 DEF P

\* A chunk on top adds its bytes.
LEMMA BytesAppend ==
  ASSUME NEW s \in Seq(Chunk), NEW k \in 1 .. Len(s), NEW c \in Chunk
  PROVE  BytesAbove(Append(s, c), k) = BytesAbove(s, k) + (c.end - Hsiz)
<1> DEFINE t == Append(s, c)
<1>0. t \in Seq(Chunk) /\ Len(t) = Len(s) + 1 /\ k \in 1 .. Len(t)
      /\ t[Len(s) + 1] = c /\ \A l \in 1 .. Len(s) : t[l] = s[l]
  OBVIOUS
<1> HIDE DEF t
<1>1. PICK F : F \in [k .. Len(s) -> Int] /\ Adds(F, s, k) /\ BytesAbove(s, k) = F[Len(s)]
  BY BytesExist
<1>2. PICK G : G \in [k .. Len(t) -> Int] /\ Adds(G, t, k) /\ BytesAbove(t, k) = G[Len(t)]
  BY <1>0, BytesExist
<1> DEFINE K == [l \in k .. Len(t) |-> IF l <= Len(s) THEN F[l]
                                       ELSE F[Len(s)] + (c.end - Hsiz)]
<1>3. Adds(K, t, k)
  <2>1. K[k] = 0
    BY <1>0, <1>1 DEF Adds
  <2>2. ASSUME NEW l \in k + 1 .. Len(t) PROVE K[l] = K[l - 1] + (t[l].end - Hsiz)
    <3>1. l \in k .. Len(t) /\ l - 1 \in k .. Len(t) /\ l - 1 <= Len(s)
      BY <1>0
    <3>2. K[l - 1] = F[l - 1]
      BY <3>1
    <3>3. CASE l <= Len(s)
      <4>1. K[l] = F[l] /\ l \in k + 1 .. Len(s)
        BY <3>1, <3>3
      <4>2. t[l] = s[l]
        BY <1>0, <4>1
      <4> QED
        BY <1>1, <3>2, <4>1, <4>2 DEF Adds
    <3>4. CASE ~(l <= Len(s))
      <4>1. K[l] = F[Len(s)] + (c.end - Hsiz) /\ l = Len(s) + 1 /\ l - 1 = Len(s)
        BY <1>0, <3>1, <3>4
      <4> HIDE DEF K
      <4> QED
        BY <1>0, <3>2, <4>1
    <3> QED
      BY <3>3, <3>4
  <2> HIDE DEF K
  <2> QED
    BY <2>1, <2>2 DEF Adds
<1>4. K[Len(t)] = F[Len(s)] + (c.end - Hsiz)
  BY <1>0
<1> HIDE DEF K
<1>5. K[Len(t)] = G[Len(t)]
  BY <1>0, <1>2, <1>3, BytesUnique
<1> QED
  BY <1>1, <1>2, <1>4, <1>5 DEF t

\* What is popped and what remains make up the whole.
LEMMA BytesSplit ==
  ASSUME NEW s \in Seq(Chunk), NEW k \in 1 .. Len(s), NEW t \in Seq(Chunk),
         Len(t) = k, \A l \in 1 .. k : t[l].end = s[l].end
  PROVE  BytesAbove(s, 1) = BytesAbove(t, 1) + BytesAbove(s, k)
<1>1. PICK F : F \in [1 .. Len(s) -> Int] /\ Adds(F, s, 1) /\ BytesAbove(s, 1) = F[Len(s)]
  BY BytesExist
<1>2. PICK G : G \in [1 .. Len(t) -> Int] /\ Adds(G, t, 1) /\ BytesAbove(t, 1) = G[Len(t)]
  <2>1. 1 \in 1 .. Len(t)
    OBVIOUS
  <2> QED
    BY <2>1, BytesExist
<1>3. PICK H : H \in [k .. Len(s) -> Int] /\ Adds(H, s, k) /\ BytesAbove(s, k) = H[Len(s)]
  BY BytesExist
<1> DEFINE K == [l \in 1 .. Len(s) |-> IF l <= k THEN G[l] ELSE G[k] + H[l]]
<1>4. H[k] = 0 /\ G[1] = 0
  BY <1>2, <1>3 DEF Adds
<1>5. Adds(K, s, 1)
  <2>1. K[1] = 0
    BY <1>4
  <2>2. ASSUME NEW l \in 1 + 1 .. Len(s) PROVE K[l] = K[l - 1] + (s[l].end - Hsiz)
    <3>1. l \in 1 .. Len(s) /\ l - 1 \in 1 .. Len(s)
      OBVIOUS
    <3>2. CASE l <= k
      <4>1. K[l] = G[l] /\ K[l - 1] = G[l - 1] /\ l \in 1 + 1 .. Len(t) /\ l \in 1 .. k
        BY <3>1, <3>2
      <4>2. t[l].end = s[l].end
        BY <4>1
      <4>3. G[l] = G[l - 1] + (t[l].end - Hsiz)
        BY <1>2, <4>1 DEF Adds
      <4> QED
        BY <4>1, <4>2, <4>3
    <3>3. CASE ~(l <= k)
      <4>1. K[l] = G[k] + H[l] /\ l \in k + 1 .. Len(s) /\ l \in k .. Len(s) /\ l - 1 \in k .. Len(s)
        BY <3>1, <3>3
      <4>2. K[l - 1] = G[k] + H[l - 1]
        <5>1. G[k] \in Int /\ G[k] + 0 = G[k]
          BY <1>2
        <5>2. CASE l - 1 = k
          BY <1>4, <3>1, <5>1, <5>2
        <5>3. CASE l - 1 # k
          BY <3>1, <3>3, <5>3
        <5> QED
          BY <5>2, <5>3
      <4>3. H[l] = H[l - 1] + (s[l].end - Hsiz)
        BY <1>3, <4>1 DEF Adds
      <4>4. G[k] \in Int /\ H[l] \in Int /\ H[l - 1] \in Int
        <5>1. k \in 1 .. Len(t)
          OBVIOUS
        <5> HIDE DEF K
        <5> QED
          BY <1>2, <1>3, <4>1, <5>1
      <4>5. s[l].end - Hsiz \in Int
        <5>1. s[l] \in Chunk /\ Hsiz \in Nat
          BY <3>1, ArenaAssumption
        <5>2. s[l].end \in Nat
          BY <5>1 DEF Chunk
        <5> QED
          BY <5>1, <5>2
      <4> HIDE DEF K
      <4> QED
        BY <4>1, <4>2, <4>3, <4>4, <4>5
    <3> QED
      BY <3>2, <3>3
  <2> HIDE DEF K
  <2> QED
    BY <2>1, <2>2 DEF Adds
<1>6. K[Len(s)] = G[k] + H[Len(s)]
  BY <1>2, <1>4
<1> HIDE DEF K
<1>7. K[Len(s)] = F[Len(s)]
  BY <1>1, <1>5, BytesUnique
<1> QED
  BY <1>1, <1>2, <1>3, <1>6, <1>7

-----------------------------------------------------------------------------
\* What the invariant says of one mark and of one block.
LEMMA MarkAt ==
  ASSUME IInv, NEW f \in 1 .. Len(frames)
  PROVE  /\ frames[f] \in Marker
         /\ MarkPos(f) = <<Index(stack, frames[f].which_chunk), frames[f].alloc_point>>
         /\ MarkPos(f)[1] \in 1 .. Len(stack)
         /\ stack[MarkPos(f)[1]].id = frames[f].which_chunk
         /\ IsPlace(MarkPos(f))
<1>1. PICK k \in 1 .. Len(stack) : stack[k].id = frames[f].which_chunk
  BY DEF IInv, MarksValid
<1>2. Index(stack, stack[k].id) = k
  BY IndexFacts DEF IInv, TypeOK, MarksValid, Distinct
<1>3. MarkPos(f) = <<Index(stack, frames[f].which_chunk), frames[f].alloc_point>>
  BY DEF MarkPos
<1>4. MarkPos(f)[1] = k
  BY <1>1, <1>2, <1>3
<1>5. frames[f] \in Marker
  BY DEF IInv, TypeOK
<1>6. IsPlace(MarkPos(f))
  BY DEF IInv, MarkState
<1> QED
  BY <1>1, <1>3, <1>4, <1>5, <1>6

\* A block of a function is in a chunk, aligned, and between the function's mark and the next.
LEMMA BlockAt ==
  ASSUME IInv, NEW f \in 1 .. Len(frames), NEW b \in frames[f].blocks
  PROVE  /\ b \in Block
         /\ Index(stack, b.chunk) \in 2 .. Len(stack)
         /\ stack[Index(stack, b.chunk)].id = b.chunk
         /\ b.off \in Nat /\ b.off % Align = 0
         /\ Hsiz <= b.off /\ b.off + b.size <= stack[Index(stack, b.chunk)].end
         /\ Below(MarkPos(f), <<Index(stack, b.chunk), b.off>>)
         /\ Below(<<Index(stack, b.chunk), b.off + b.size>>, MarkPos(f + 1))
<1>1. b.chunk \in DOMAIN heap
  BY DEF IInv, LiveInChunk
<1>2. PICK k \in 2 .. Len(stack) : stack[k].id = b.chunk
  BY <1>1 DEF IInv, Accounting
<1>3. Index(stack, stack[k].id) = k
  <2>1. Len(stack) \in Nat /\ Distinct(stack)
    BY DEF IInv, TypeOK, MarksValid, Distinct
  <2>2. k \in 1 .. Len(stack)
    BY <2>1
  <2> QED
    BY <2>1, <2>2, IndexFacts
<1>4. heap[b.chunk] = stack[k].end
  BY <1>2 DEF IInv, Accounting
<1>5. b \in Block
  <2>1. frames[f] \in Marker
    BY DEF IInv, TypeOK
  <2> QED
    BY <2>1 DEF Marker
<1>6. b.off \in Nat
  BY <1>5 DEF Block
<1>7. IsPlace(<<k, b.off>>)
  BY <1>2, <1>3 DEF IInv, BlockState
<1> QED
  BY <1>2, <1>3, <1>4, <1>5, <1>6, <1>7 DEF IInv, LiveInChunk, IsPlace

\* Positions are ordered.
LEMMA BelowOrder ==
  ASSUME NEW k \in Int, NEW x \in Int, NEW l \in Int, NEW y \in Int, NEW m \in Int, NEW z \in Int
  PROVE  /\ Below(<<k, x>>, <<l, y>>) /\ Below(<<l, y>>, <<m, z>>) => Below(<<k, x>>, <<m, z>>)
         /\ Below(<<k, x>>, <<k, x>>)
BY DEF Below

\* The place a mark remembers is in a chunk.
LEMMA PosNat ==
  ASSUME IInv, NEW f \in 1 .. Len(frames) + 1
  PROVE  \E k \in 1 .. Len(stack), x \in Nat : MarkPos(f) = <<k, x>>
<1>0. Len(stack) \in 1 .. Len(stack) /\ Len(frames) \in Nat
  BY DEF IInv, TypeOK
<1>1. CASE f \in 1 .. Len(frames)
  <2>1. MarkPos(f)[1] \in 1 .. Len(stack) /\ frames[f] \in Marker
        /\ MarkPos(f) = <<Index(stack, frames[f].which_chunk), frames[f].alloc_point>>
    BY <1>1, MarkAt
  <2>2. frames[f].alloc_point \in Nat
    BY <2>1 DEF Marker
  <2>3. MarkPos(f) = <<MarkPos(f)[1], frames[f].alloc_point>>
    BY <2>1
  <2> QED
    BY <2>1, <2>2, <2>3, Zenon
<1>2. CASE f = Len(frames) + 1
  <2>1. MarkPos(f) = <<Len(stack), Current.alloc_point>>
    BY <1>0, <1>2 DEF MarkPos
  <2>2. Current \in Chunk
    BY <1>0 DEF IInv, TypeOK, Current, Last
  <2>3. Current.alloc_point \in Nat
    BY <2>2 DEF Chunk
  <2> QED
    BY <1>0, <2>1, <2>3, Zenon
<1> QED
  BY <1>1, <1>2

\* The lowest j chunks of the stack are still where they were.
Agree(s, t, j) ==
  /\ j \in 1 .. Len(s) /\ j \in 1 .. Len(t)
  /\ \A l \in 1 .. j : t[l].id = s[l].id /\ t[l].end = s[l].end

\* So what was found in them is found there again.
LEMMA Carried ==
  ASSUME IInv, TypeOK', Distinct(stack'), NEW j, Agree(stack, stack', j)
  PROVE  /\ \A l \in 1 .. j : Index(stack', stack[l].id) = l
         /\ \A l \in 1 .. j : \A x : IsPlace(<<l, x>>) => IsPlace(<<l, x>>)'
<1>1. Len(stack') \in Nat /\ j \in Nat
  BY DEF TypeOK, Agree
<1>2. ASSUME NEW l \in 1 .. j PROVE Index(stack', stack[l].id) = l
  <2>1. l \in 1 .. Len(stack') /\ stack'[l].id = stack[l].id
    BY <1>1 DEF Agree
  <2>2. Index(stack', stack'[l].id) = l
    BY <1>1, <2>1, IndexFacts
  <2> QED
    BY <2>1, <2>2
<1>3. ASSUME NEW l \in 1 .. j, NEW x, IsPlace(<<l, x>>) PROVE IsPlace(<<l, x>>)'
  BY <1>1, <1>3 DEF IsPlace, Agree
<1> QED
  BY <1>2, <1>3

\* What is left to show of a step: of the marks of the n functions, the top, and
\* the blocks.  Only the last function may have a new block.
MarksKept(n, j) ==
  /\ n = Len(frames') /\ n <= Len(frames) + 1
  /\ \A f \in 1 .. n : MarkPos(f)[1] <= j
  /\ \A f \in 1 .. n : f <= Len(frames) =>
       /\ frames'[f].which_chunk = frames[f].which_chunk
       /\ frames'[f].alloc_point = frames[f].alloc_point
       /\ MarkPos(f + 1)[1] <= j
  /\ n = Len(frames) + 1 =>
       /\ frames'[n].which_chunk = Current.id
       /\ frames'[n].alloc_point = Current.alloc_point

TopKept(n) ==
  /\ IF n = 0 THEN MarkPos(n + 1)' = <<1, 0>> ELSE Below(MarkPos(n), MarkPos(n + 1)')
  /\ n <= Len(frames) => Below(MarkPos(n + 1), MarkPos(n + 1)')
  /\ n > 0 /\ frames'[n].blocks = {} => MarkPos(n + 1)' = MarkPos(n)

BlocksKept(n) ==
  /\ \A f \in 1 .. n : f <= Len(frames) => frames[f].blocks \subseteq frames'[f].blocks
  /\ \A f \in 1 .. n : \A b \in frames'[f].blocks :
       \/ f <= Len(frames) /\ b \in frames[f].blocks
       \/ /\ f = n /\ Len(stack') >= 2
          /\ b.chunk = Current'.id /\ IsPlace(<<Len(stack), b.off>>)'
          /\ Below(MarkPos(f), <<Len(stack'), b.off>>)
          /\ b.off + b.size <= Current'.alloc_point

\* What every step does to the marks: those that remain are where they were, a
\* new one is at the top, and the top stays above all.
LEMMA MarksCarried ==
  ASSUME IInv, TypeOK', Distinct(stack'), NEW j, Agree(stack, stack', j),
         NEW n \in Nat, MarksKept(n, j), TopKept(n)
  PROVE  /\ \A f \in 1 .. n : MarkPos(f)' = MarkPos(f)
         /\ MarksValid'
         /\ MarkPos(1)' = <<1, 0>>
         /\ \A f \in 1 .. n : IsPlace(MarkPos(f))'
<1> USE DEF MarksKept, TopKept
<1>0. /\ Len(frames) \in Nat /\ Len(stack) \in Nat /\ Len(stack) \in 1 .. Len(stack)
      /\ Len(stack') \in Nat /\ j \in Nat
      /\ stack[Len(stack)] = Current /\ j <= Len(stack) /\ j <= Len(stack')
  BY DEF IInv, TypeOK, Agree, Current, Last
<1>1. ASSUME NEW f \in 1 .. n
      PROVE  /\ MarkPos(f)' = MarkPos(f)
             /\ MarkPos(f)[1] \in 1 .. j
             /\ stack'[MarkPos(f)[1]].id = frames'[f].which_chunk
             /\ IsPlace(MarkPos(f))'
  <2>0. MarkPos(f)' = <<Index(stack', frames'[f].which_chunk), frames'[f].alloc_point>>
    BY DEF MarkPos
  <2>1. CASE f <= Len(frames)
    <3>1. f \in 1 .. Len(frames)
      BY <1>0, <2>1
    <3>2. /\ MarkPos(f) = <<Index(stack, frames[f].which_chunk), frames[f].alloc_point>>
          /\ MarkPos(f)[1] \in 1 .. Len(stack)
          /\ stack[MarkPos(f)[1]].id = frames[f].which_chunk
          /\ IsPlace(MarkPos(f))
      BY <3>1, MarkAt
    <3>3. PICK k, x : k = MarkPos(f)[1] /\ x = frames[f].alloc_point
      OBVIOUS
    <3>4. MarkPos(f) = <<k, x>> /\ IsPlace(<<k, x>>)
      BY <3>2, <3>3
    <3>5. k \in 1 .. j /\ stack[k].id = frames[f].which_chunk
      BY <1>0, <3>2, <3>3
    <3>6. Index(stack', stack[k].id) = k /\ IsPlace(<<k, x>>)' /\ stack'[k].id = stack[k].id
      BY <3>4, <3>5, Carried DEF Agree
    <3>7. MarkPos(f)' = <<k, x>>
      BY <2>0, <2>1, <3>1, <3>3, <3>5, <3>6
    <3> QED
      BY <2>1, <3>3, <3>4, <3>5, <3>6, <3>7
  <2>2. CASE ~(f <= Len(frames))
    <3>1. f = n /\ n = Len(frames) + 1
      BY <1>0, <2>2
    <3>2. MarkPos(f) = <<Len(stack), Current.alloc_point>>
      BY <1>0, <3>1 DEF MarkPos
    <3>3. PICK k, x : k = Len(stack) /\ x = Current.alloc_point
      OBVIOUS
    <3>4. MarkPos(f) = <<k, x>> /\ IsPlace(<<k, x>>)
      <4>1. IsPlace(<<k, stack[k].alloc_point>>)
        BY <1>0, <3>3 DEF IInv, StackState
      <4> QED
        BY <1>0, <3>2, <3>3, <4>1
    <3>5. k \in 1 .. j /\ stack[k].id = Current.id
      BY <1>0, <3>2, <3>3
    <3>6. Index(stack', stack[k].id) = k /\ IsPlace(<<k, x>>)' /\ stack'[k].id = stack[k].id
      BY <3>4, <3>5, Carried DEF Agree
    <3>7. MarkPos(f)' = <<k, x>>
      BY <2>0, <3>1, <3>3, <3>5, <3>6
    <3> QED
      BY <3>1, <3>3, <3>4, <3>5, <3>6, <3>7
  <2> QED
    BY <2>1, <2>2
<1>2. ASSUME NEW f \in 1 .. n + 1, NEW g \in 1 .. n + 1, f <= g
      PROVE  Below(MarkPos(f)', MarkPos(g)')
  <2>1. \A h \in 1 .. n + 1 : \E k, x \in Nat : MarkPos(h)' = <<k, x>>
    <3>1. \A h \in 1 .. n : frames'[h] \in Marker
      BY DEF TypeOK
    <3>2. \A h \in 1 .. n : frames'[h].alloc_point \in Nat
      BY <3>1 DEF Marker
    <3>3. \A h \in 1 .. n : MarkPos(h)' = <<MarkPos(h)[1], frames'[h].alloc_point>>
      BY <1>1 DEF MarkPos
    <3>4. stack'[Len(stack')] \in Chunk /\ Current' = stack'[Len(stack')]
      BY <1>0 DEF TypeOK, Current, Last
    <3>5. MarkPos(n + 1)' = <<Len(stack'), Current'.alloc_point>>
      BY DEF MarkPos
    <3>6. Current'.alloc_point \in Nat
      BY <3>4 DEF Chunk
    <3>7. ASSUME NEW h \in 1 .. n PROVE \E k, x \in Nat : MarkPos(h)' = <<k, x>>
      <4>1. MarkPos(h)[1] \in Nat /\ frames'[h].alloc_point \in Nat
        BY <1>1, <3>2
      <4>2. MarkPos(h)' = <<MarkPos(h)[1], frames'[h].alloc_point>>
        BY <3>3
      <4> QED
        BY <4>1, <4>2, Zenon
    <3>8. \E k, x \in Nat : MarkPos(n + 1)' = <<k, x>>
      BY <1>0, <3>5, <3>6, Zenon
    <3>9. \A h \in 1 .. n + 1 : h \in 1 .. n \/ h = n + 1
      OBVIOUS
    <3> QED
      BY <3>7, <3>8, <3>9, Zenon
  <2>2. CASE g <= n
    <3>1. MarkPos(f)' = MarkPos(f) /\ MarkPos(g)' = MarkPos(g)
      BY <1>1, <1>2, <2>2
    <3>2. f \in 1 .. Len(frames) + 1 /\ g \in 1 .. Len(frames) + 1
      BY <1>0, <1>2, <2>2
    <3> QED
      BY <1>2, <3>1, <3>2 DEF IInv, MarksValid
  <2>3. CASE f = g
    BY <2>1, <2>3 DEF Below
  <2>4. CASE g = n + 1 /\ f <= n
    <3>1. f \in 1 .. Len(frames) + 1 /\ n \in 1 .. Len(frames) + 1 /\ n \in 1 .. n + 1
      BY <1>0, <2>4
    <3>2. MarkPos(f)' = MarkPos(f) /\ MarkPos(n)' = MarkPos(n)
      BY <1>1, <2>4, <3>1
    <3>3. Below(MarkPos(f)', MarkPos(n)')
      BY <2>4, <3>1, <3>2 DEF IInv, MarksValid
    <3>4. Below(MarkPos(n)', MarkPos(n + 1)')
      BY <2>4, <3>2
    <3>5. PICK k, x \in Nat : MarkPos(f)' = <<k, x>>
      BY <2>1
    <3>6. PICK l, y \in Nat : MarkPos(n)' = <<l, y>>
      BY <2>1, <3>1
    <3>7. PICK m, z \in Nat : MarkPos(n + 1)' = <<m, z>>
      BY <2>1
    <3> QED
      BY <2>4, <3>3, <3>4, <3>5, <3>6, <3>7, BelowOrder
  <2>5. g <= n \/ f = g \/ (g = n + 1 /\ f <= n)
    <3> HIDE DEF MarksKept, TopKept
    <3> QED
      BY <1>2
  <2> QED
    BY <2>2, <2>3, <2>4, <2>5, Zenon
<1>3. MarksValid'
  <2>1. ASSUME NEW f \in 1 .. n
        PROVE  \E k \in 1 .. Len(stack') : stack'[k].id = frames'[f].which_chunk
    <3> DEFINE k == MarkPos(f)[1]
    <3>1. k \in 1 .. j /\ stack'[k].id = frames'[f].which_chunk
      BY <1>1
    <3> HIDE DEF k
    <3> QED
      BY <1>0, <3>1
  <2> QED
    BY <1>2, <2>1 DEF MarksValid, Distinct
<1>4. MarkPos(1)' = <<1, 0>>
  <2>1. CASE n = 0
    BY <2>1
  <2>2. CASE n > 0
    BY <1>1, <2>2 DEF IInv, MarkState
  <2> QED
    BY <2>1, <2>2
<1> QED
  BY <1>1, <1>3, <1>4

\* Blocks below them are still in use where they are.
LEMMA BlockCarried ==
  ASSUME IInv, TypeOK', Distinct(stack'), Accounting', NEW j, Agree(stack, stack', j),
         NEW f \in 1 .. Len(frames), MarkPos(f)' = MarkPos(f), MarkPos(f + 1)[1] <= j,
         NEW b \in frames[f].blocks
  PROVE  /\ b.chunk \in DOMAIN heap'
         /\ Hsiz <= b.off /\ b.off + b.size <= heap'[b.chunk]
         /\ Below(MarkPos(f), <<Index(stack, b.chunk), b.off>>)'
         /\ Index(stack', b.chunk) \in 1 .. Len(stack')
         /\ Below(<<Index(stack', b.chunk), b.off + b.size>>, MarkPos(f + 1))
         /\ IsPlace(<<Index(stack, b.chunk), b.off>>)'
<1>0. j \in 1 .. Len(stack) /\ j \in 1 .. Len(stack') /\ Len(stack) \in Nat /\ Len(stack') \in Nat
      /\ f + 1 \in 1 .. Len(frames) + 1 /\ Len(frames) \in Nat
  BY DEF Agree, IInv, TypeOK
<1>1. PICK k : k = Index(stack, b.chunk)
  OBVIOUS
<1>2. /\ b \in Block /\ k \in 2 .. Len(stack) /\ stack[k].id = b.chunk
      /\ b.off \in Nat /\ b.off % Align = 0
      /\ Hsiz <= b.off /\ b.off + b.size <= stack[k].end
      /\ Below(MarkPos(f), <<k, b.off>>)
      /\ Below(<<k, b.off + b.size>>, MarkPos(f + 1))
  BY <1>1, BlockAt
<1>3. k \in 1 .. j
  <2>1. PICK l \in 1 .. Len(stack), y \in Nat : MarkPos(f + 1) = <<l, y>>
    BY <1>0, PosNat
  <2>2. l <= j
    BY <2>1
  <2>3. k < l \/ k = l
    BY <1>2, <2>1 DEF Below
  <2> QED
    BY <1>0, <1>2, <2>2, <2>3
<1>4. IsPlace(<<k, b.off>>)
  BY <1>1 DEF IInv, BlockState
<1>5. Index(stack', b.chunk) = k /\ IsPlace(<<k, b.off>>)'
      /\ stack'[k].id = b.chunk /\ stack'[k].end = stack[k].end
  BY <1>2, <1>3, <1>4, Carried DEF Agree
<1>6. k \in 2 .. Len(stack')
  BY <1>0, <1>2, <1>3
<1>7. b.chunk \in DOMAIN heap' /\ heap'[b.chunk] = stack[k].end
  BY <1>5, <1>6 DEF Accounting
<1>8. Below(MarkPos(f), <<Index(stack, b.chunk), b.off>>)'
  BY <1>2, <1>5
<1> QED
  BY <1>2, <1>5, <1>6, <1>7, <1>8

\* Whence the invariant.
LEMMA Preserved ==
  ASSUME IInv, TypeOK', Distinct(stack'), StackState', Accounting',
         NEW j, Agree(stack, stack', j),
         NEW n \in Nat, MarksKept(n, j), TopKept(n), BlocksKept(n)
  PROVE  IInv'
<1> USE DEF MarksKept, TopKept, BlocksKept
<1>0. /\ Len(frames) \in Nat /\ Len(stack) \in Nat /\ Len(stack') \in Nat
      /\ Current' = stack'[Len(stack')] /\ Len(stack') \in 1 .. Len(stack')
  BY DEF IInv, TypeOK, Current, Last
<1>1. /\ \A f \in 1 .. n : MarkPos(f)' = MarkPos(f)
      /\ MarksValid' /\ MarkPos(1)' = <<1, 0>>
      /\ \A f \in 1 .. n : IsPlace(MarkPos(f))'
  BY MarksCarried
<1>2. MarkState'
  <2>1. ASSUME NEW f \in 1 .. n, frames'[f].blocks = {} PROVE MarkPos(f + 1)' = MarkPos(f)'
    <3>1. CASE f = n
      BY <1>1, <2>1, <3>1
    <3>2. CASE f # n
      <4>1. f \in 1 .. Len(frames) /\ f <= Len(frames) /\ f + 1 \in 1 .. n
        BY <1>0, <3>2
      <4>2. frames[f].blocks = {}
        BY <2>1, <4>1
      <4>3. MarkPos(f + 1) = MarkPos(f)
        BY <4>1, <4>2 DEF IInv, MarkState
      <4> QED
        BY <1>1, <4>1, <4>3
    <3> QED
      BY <3>1, <3>2
  <2> QED
    BY <1>1, <2>1 DEF MarkState
<1>3. ASSUME NEW f \in 1 .. n, NEW b \in frames'[f].blocks
      PROVE  /\ b.chunk \in DOMAIN heap'
             /\ Hsiz <= b.off /\ b.off + b.size <= heap'[b.chunk]
             /\ Below(MarkPos(f), <<Index(stack, b.chunk), b.off>>)'
             /\ Below(<<Index(stack, b.chunk), b.off + b.size>>, MarkPos(f + 1))'
             /\ IsPlace(<<Index(stack, b.chunk), b.off>>)'
  <2>0. frames'[f] \in Marker
    BY DEF TypeOK
  <2>1. b \in Block
    BY <2>0 DEF Marker
  <2>2. b.off \in Nat /\ b.size \in Nat /\ MaxSize \in Nat
    BY <2>1, ArenaAssumption DEF Block
  <2>3. CASE f <= Len(frames) /\ b \in frames[f].blocks
    <3>1. f \in 1 .. Len(frames) /\ f + 1 \in 1 .. Len(frames) + 1 /\ MarkPos(f)' = MarkPos(f)
          /\ MarkPos(f + 1)[1] <= j
      BY <1>0, <1>1, <2>3
    <3>2. /\ b.chunk \in DOMAIN heap'
          /\ Hsiz <= b.off /\ b.off + b.size <= heap'[b.chunk]
          /\ Below(MarkPos(f), <<Index(stack, b.chunk), b.off>>)'
          /\ Index(stack', b.chunk) \in 1 .. Len(stack')
          /\ Below(<<Index(stack', b.chunk), b.off + b.size>>, MarkPos(f + 1))
          /\ IsPlace(<<Index(stack, b.chunk), b.off>>)'
      BY <2>3, <3>1, BlockCarried
    <3>3. Below(<<Index(stack', b.chunk), b.off + b.size>>, MarkPos(f + 1)')
      <4>1. CASE f < n
        <5>1. f + 1 \in 1 .. n
          BY <4>1
        <5> QED
          BY <1>1, <3>2, <5>1
      <4>2. CASE f = n
        <5>1. Below(MarkPos(f + 1), MarkPos(f + 1)')
          BY <2>3, <4>2
        <5>2. PICK l \in 1 .. Len(stack), y \in Nat : MarkPos(f + 1) = <<l, y>>
          BY <3>1, PosNat
        <5>3. MarkPos(f + 1)' = <<Len(stack'), Current'.alloc_point>>
          BY <4>2 DEF MarkPos
        <5>4. stack'[Len(stack')] \in Chunk
          BY <1>0 DEF TypeOK
        <5>5. Current'.alloc_point \in Nat
          BY <1>0, <5>4 DEF Chunk
        <5>6. PICK i, z : i = Index(stack', b.chunk) /\ z = b.off + b.size
          OBVIOUS
        <5> HIDE DEF MarksKept, TopKept, BlocksKept
        <5>7. /\ i \in Nat /\ z \in Nat /\ Below(<<i, z>>, <<l, y>>)
              /\ Below(<<l, y>>, <<Len(stack'), Current'.alloc_point>>)
          <6>1. i \in Nat /\ z \in Nat
            <7>1. Index(stack', b.chunk) \in 1 .. Len(stack') /\ Len(stack') \in Nat
              BY <1>0, <3>2
            <7> QED
              BY <2>2, <5>6, <7>1
          <6>2. Below(<<i, z>>, <<l, y>>)
            BY <3>2, <5>2, <5>6
          <6>3. Below(<<l, y>>, <<Len(stack'), Current'.alloc_point>>)
            BY <5>1, <5>2, <5>3
          <6> QED
            BY <6>1, <6>2, <6>3
        <5>8. Below(<<i, z>>, <<Len(stack'), Current'.alloc_point>>)
          BY <1>0, <5>2, <5>5, <5>7, BelowOrder
        <5> QED
          BY <5>3, <5>6, <5>8
      <4> QED
        BY <4>1, <4>2
    <3> QED
      BY <3>2, <3>3
  <2>4. CASE /\ f = n /\ Len(stack') >= 2
             /\ b.chunk = Current'.id /\ IsPlace(<<Len(stack), b.off>>)'
             /\ Below(MarkPos(f), <<Len(stack'), b.off>>)
             /\ b.off + b.size <= Current'.alloc_point
    <3>0. Len(stack') \in Nat /\ Len(stack') >= 2
      BY <1>0, <2>4, Zenon
    <3>1. Index(stack', b.chunk) = Len(stack')
      BY <1>0, <2>4, IndexFacts
    <3>2. MarkPos(f + 1)' = <<Len(stack'), Current'.alloc_point>>
      BY <2>4 DEF MarkPos
    <3>3. b.chunk \in DOMAIN heap' /\ heap'[b.chunk] = Current'.end
      <4>1. Len(stack') \in 2 .. Len(stack')
        BY <1>0, <2>4
      <4> QED
        BY <1>0, <2>4, <4>1 DEF Accounting
    <3>4. Current'.alloc_point \in Hsiz .. Current'.end
      <4>1. PICK m, x : m = Len(stack') /\ x = stack'[m].alloc_point
        OBVIOUS
      <4>2. m \in Nat /\ m >= 2
        BY <3>0, <4>1, Zenon
      <4>3. IsPlace(<<m, x>>)'
        BY <1>0, <4>1 DEF StackState
      <4>4. x \in Hsiz .. stack'[m].end
        BY <4>2, <4>3 DEF IsPlace
      <4> QED
        BY <1>0, <4>1, <4>4
    <3>5. stack'[Len(stack')] \in Chunk
      BY <1>0 DEF TypeOK
    <3>6. Current'.end \in Nat /\ Hsiz \in Nat
      BY <1>0, <3>5, ArenaAssumption DEF Chunk
    <3>7. Hsiz <= b.off
      <4>1. PICK m, x : m = Len(stack') /\ x = b.off
        OBVIOUS
      <4>2. m \in Nat /\ m >= 2
        BY <3>0, <4>1, Zenon
      <4>3. IsPlace(<<m, x>>)'
        BY <2>4, <4>1
      <4>4. x \in Hsiz .. stack'[m].end
        BY <4>2, <4>3 DEF IsPlace
      <4> QED
        BY <1>0, <2>2, <3>6, <4>1, <4>4
    <3>8. b.off + b.size <= heap'[b.chunk]
      BY <2>2, <2>4, <3>3, <3>4, <3>6
    <3>9. Below(<<Index(stack, b.chunk), b.off + b.size>>, MarkPos(f + 1))'
      BY <2>2, <2>4, <3>1, <3>2, <3>4, <3>6 DEF Below
    <3>10. IsPlace(<<Index(stack, b.chunk), b.off>>)'
      BY <2>4, <3>1
    <3>11. Below(MarkPos(f), <<Index(stack, b.chunk), b.off>>)'
      BY <1>1, <2>4, <3>1
    <3> QED
      BY <3>3, <3>7, <3>8, <3>9, <3>10, <3>11
  <2> QED
    BY <2>3, <2>4
<1>4. LiveInChunk' /\ BlockState'
  BY <1>3 DEF LiveInChunk, BlockState
<1> QED
  BY <1>1, <1>2, <1>4 DEF IInv

\* The invariant holds of the stack with nothing but its base.
LEMMA InitIInv ==
  ASSUME Init
  PROVE  IInv
<1>1. /\ Len(stack) = 1 /\ stack[1] = [id |-> Base, end |-> 0, alloc_point |-> 0]
      /\ stack \in Seq(Chunk) /\ stack # <<>> /\ Current = stack[1]
      /\ frames = <<>> /\ Len(frames) = 0
  BY DEF Init, Chunk, Current, Last
<1>2. TypeOK
  BY <1>1 DEF Init, TypeOK
<1>3. 0 % Align = 0
  BY ArenaAssumption
<1>4. MarkPos(1) = <<1, 0>>
  BY <1>1 DEF MarkPos
<1>5. StackState /\ MarkState
  BY <1>1, <1>3, <1>4 DEF StackState, MarkState, IsPlace
<1>6. MarksValid /\ LiveInChunk /\ BlockState
  BY <1>1, <1>4 DEF MarksValid, LiveInChunk, BlockState, Below
<1>7. BytesAbove(stack, 1) = 0
  <2>1. 1 \in 1 .. Len(stack) /\ \A l \in 1 + 1 .. Len(stack) : stack[l].end >= Hsiz
    BY <1>1
  <2> QED
    BY <1>1, <2>1, BytesNat
<1>8. Accounting
  BY <1>1, <1>7 DEF Init, Accounting
<1> QED
  BY <1>2, <1>5, <1>6, <1>8 DEF IInv

\* A call marks the top.
LEMMA MarkStep ==
  ASSUME IInv, Mark
  PROVE  IInv'
<1>0. /\ Len(frames) \in Nat /\ Len(stack) \in Nat /\ Len(stack) \in 1 .. Len(stack)
      /\ stack \in Seq(Chunk) /\ Current = stack[Len(stack)] /\ Current \in Chunk
      /\ frames \in Seq(Marker)
  BY DEF IInv, TypeOK, Current, Last
<1>1. stack' = stack /\ current_total_allocation' = current_total_allocation
      /\ max_total_allocation' = max_total_allocation /\ heap' = heap
  BY DEF Mark
<1> DEFINE e == [which_chunk |-> Current.id, alloc_point |-> Current.alloc_point, blocks |-> {}]
<1>2. e \in Marker
  BY <1>0 DEF Chunk, Marker
<1>3. frames' = Append(frames, e)
  BY DEF Mark
<1>4. e.which_chunk = Current.id /\ e.alloc_point = Current.alloc_point /\ e.blocks = {}
  OBVIOUS
<1> HIDE DEF e
<1>5. /\ frames' \in Seq(Marker) /\ Len(frames') = Len(frames) + 1 /\ frames'[Len(frames) + 1] = e
      /\ \A f \in 1 .. Len(frames) : frames'[f] = frames[f]
  BY <1>0, <1>2, <1>3
<1>6. TypeOK' /\ StackState' /\ Accounting' /\ Distinct(stack')
  <2>1. TypeOK'
    BY <1>1, <1>5 DEF IInv, TypeOK
  <2>2. StackState'
    BY <1>1 DEF IInv, StackState, IsPlace
  <2>3. Accounting'
    BY <1>1 DEF IInv, Accounting
  <2>4. Distinct(stack')
    BY <1>1 DEF IInv, MarksValid, Distinct
  <2> QED
    BY <2>1, <2>2, <2>3, <2>4
<1>7. Agree(stack, stack', Len(stack))
  BY <1>0, <1>1 DEF Agree
<1>8. PICK m, j : m = Len(frames) + 1 /\ j = Len(stack)
  OBVIOUS
<1>9. /\ MarkPos(m) = <<Len(stack), Current.alloc_point>>
      /\ MarkPos(m + 1)' = <<Len(stack), Current.alloc_point>>
  BY <1>0, <1>1, <1>5, <1>8 DEF MarkPos, Current
<1>10. \A f \in 1 .. Len(frames) + 1 : MarkPos(f)[1] <= Len(stack)
  <2>1. ASSUME NEW f \in 1 .. Len(frames) + 1 PROVE MarkPos(f)[1] <= Len(stack)
    <3>1. PICK k \in 1 .. Len(stack), x \in Nat : MarkPos(f) = <<k, x>>
      BY PosNat
    <3> QED
      BY <1>0, <3>1
  <2> QED
    BY <2>1
<1>12. /\ m \in Nat /\ m = Len(frames') /\ m <= Len(frames) + 1 /\ m # 0 /\ ~(m <= Len(frames))
       /\ Agree(stack, stack', j)
  BY <1>0, <1>5, <1>7, <1>8
<1>13. ASSUME NEW f \in 1 .. m
       PROVE  /\ MarkPos(f)[1] <= j
              /\ f <= Len(frames) =>
                   /\ frames'[f].which_chunk = frames[f].which_chunk
                   /\ frames'[f].alloc_point = frames[f].alloc_point
                   /\ MarkPos(f + 1)[1] <= j
                   /\ frames[f].blocks \subseteq frames'[f].blocks
              /\ \A b \in frames'[f].blocks : f <= Len(frames) /\ b \in frames[f].blocks
  <2>1. f \in 1 .. Len(frames) + 1
    BY <1>8
  <2>2. CASE f <= Len(frames)
    <3>1. f \in 1 .. Len(frames) /\ f + 1 \in 1 .. Len(frames) + 1
      BY <1>0, <2>1, <2>2
    <3>2. frames'[f] = frames[f]
      BY <1>5, <3>1
    <3> QED
      BY <1>10, <1>8, <2>1, <2>2, <3>1, <3>2
  <2>3. CASE ~(f <= Len(frames))
    <3>1. f = m
      BY <1>0, <1>8, <2>1, <2>3
    <3> QED
      BY <1>4, <1>5, <1>10, <1>8, <2>1, <2>3, <3>1
  <2> QED
    BY <2>2, <2>3
<1>14. /\ frames'[m].which_chunk = Current.id /\ frames'[m].alloc_point = Current.alloc_point
       /\ Below(MarkPos(m), MarkPos(m + 1)') /\ MarkPos(m + 1)' = MarkPos(m)
  <2>1. Current.alloc_point \in Nat
    BY <1>0 DEF Chunk
  <2>2. Below(MarkPos(m), MarkPos(m + 1)')
    BY <1>0, <1>9, <2>1 DEF Below
  <2> QED
    BY <1>4, <1>5, <1>8, <1>9, <2>2
<1>15. MarksKept(m, j)
  BY <1>12, <1>13, <1>14 DEF MarksKept
<1>16. TopKept(m) /\ BlocksKept(m)
  BY <1>12, <1>13, <1>14 DEF TopKept, BlocksKept
<1> QED
  BY <1>6, <1>12, <1>15, <1>16, Preserved

\* The stack and the totals once there is a chunk with room for n bytes: s is the
\* stack, with a new chunk or without.
Grown(s) ==
  /\ s \in Seq(Chunk) /\ Len(s) >= Len(stack) /\ Distinct(s)
  /\ \A k \in 1 .. Len(stack) : s[k] = stack[k]
  /\ \A k \in Len(stack) + 1 .. Len(s) :
       /\ s[k].id \in ChunkId
       /\ s[k].alloc_point \in Hsiz .. s[k].end /\ s[k].alloc_point % Align = 0

Counted(s) ==
  /\ current_total_allocation' \in Nat /\ max_total_allocation' \in Nat
  /\ DOMAIN heap' \subseteq ChunkId /\ heap' \in [DOMAIN heap' -> Nat]
  /\ current_total_allocation' = BytesAbove(s, 1)
  /\ current_total_allocation' <= max_total_allocation'
  /\ DOMAIN heap' = {s[k].id : k \in 2 .. Len(s)}
  /\ \A k \in 2 .. Len(s) : heap'[s[k].id] = s[k].end

\* A block that is taken from the last chunk, new or not, keeps the invariant.
LEMMA TakeStep ==
  ASSUME IInv, NEW s, NEW n \in 1 .. MaxSize, frames # <<>>, Take(s, n),
         Grown(s), Counted(s), RoundUp(n) <= Last(s).end - Last(s).alloc_point
  PROVE  IInv'
<1>1. PICK top, r, m, j : /\ top = Len(s) /\ r = RoundUp(n)
                          /\ m = Len(frames) /\ j = Len(stack)
  OBVIOUS
<1>2. /\ n \in Nat /\ r \in Nat /\ r >= n /\ r % Align = 0 /\ n > 0
      /\ Hsiz \in Nat /\ Hsiz > 0 /\ Hsiz % Align = 0
  <2>1. n \in Nat /\ n > 0
    BY ArenaAssumption
  <2> QED
    BY <1>1, <2>1, RoundFacts, ArenaAssumption
<1>3. /\ j \in Nat /\ j >= 1 /\ stack \in Seq(Chunk) /\ Current = stack[j]
      /\ frames \in Seq(Marker) /\ m \in Nat /\ m >= 1
      /\ stack[1] = [id |-> Base, end |-> 0, alloc_point |-> 0]
  BY <1>1 DEF IInv, TypeOK, StackState, Current, Last
<1>4. top \in Nat /\ top >= j /\ Last(s) = s[top] /\ s[top] \in Chunk
  BY <1>1, <1>3 DEF Last, Grown
<1>5. PICK id, end, ap : /\ s[top] = [id |-> id, end |-> end, alloc_point |-> ap]
                         /\ id \in ChunkId \cup {Base} /\ end \in Nat /\ ap \in Nat
  BY <1>4 DEF Chunk
<1>6. r <= end - ap
  BY <1>1, <1>4, <1>5
<1>7. top >= 2
  <2>1. SUFFICES ASSUME top = 1 PROVE FALSE
    BY <1>3, <1>4
  <2>2. s[1] = stack[1]
    BY <1>1, <1>3 DEF Grown
  <2>3. end = 0 /\ ap = 0
    BY <1>3, <1>5, <2>1, <2>2
  <2> QED
    BY <1>2, <1>6, <2>3
<1>8. \A k \in 1 .. top : /\ s[k].alloc_point % Align = 0
                          /\ k >= 2 => s[k].id \in ChunkId /\ s[k].alloc_point \in Hsiz .. s[k].end
  <2>1. ASSUME NEW k \in 1 .. j
        PROVE  /\ s[k].alloc_point % Align = 0
               /\ k >= 2 => s[k].id \in ChunkId /\ s[k].alloc_point \in Hsiz .. s[k].end
    <3>1. s[k] = stack[k] /\ IsPlace(<<k, stack[k].alloc_point>>)
      BY <1>1, <1>3 DEF IInv, StackState, Grown
    <3>2. stack[k].alloc_point % Align = 0
          /\ (k >= 2 => stack[k].alloc_point \in Hsiz .. stack[k].end)
      BY <3>1 DEF IsPlace
    <3>3. k >= 2 => stack[k].id \in ChunkId
      BY <1>1, <1>3 DEF IInv, StackState
    <3> QED
      BY <3>1, <3>2, <3>3
  <2>2. \A k \in 1 .. top : k \in 1 .. j \/ k \in j + 1 .. top
    BY <1>3, <1>4
  <2> QED
    BY <1>1, <2>1, <2>2 DEF Grown
<1>9. ap % Align = 0 /\ ap \in Hsiz .. end /\ id \in ChunkId
  BY <1>4, <1>5, <1>7, <1>8
\* The stack and the top frame afterwards.
<1>10. PICK c : c = [s[top] EXCEPT !.alloc_point = ap + r]
  OBVIOUS
<1>11. /\ stack' \in Seq(Chunk) /\ Len(stack') = top
       /\ \A k \in 1 .. top : stack'[k].id = s[k].id /\ stack'[k].end = s[k].end
       /\ \A k \in 1 .. top : k # top => stack'[k] = s[k]
       /\ stack'[top].id = id /\ stack'[top].end = end /\ stack'[top].alloc_point = ap + r
  <2>1. c \in Chunk /\ c.id = id /\ c.end = end /\ c.alloc_point = ap + r
    <3>1. c = [id |-> id, end |-> end, alloc_point |-> ap + r]
      BY <1>5, <1>10
    <3> QED
      BY <1>2, <1>5, <3>1 DEF Chunk
  <2>2. stack' = [s EXCEPT ![top] = c]
    BY <1>1, <1>4, <1>5, <1>10 DEF Take
  <2>3. top \in 1 .. Len(s) /\ s[top].id = id /\ s[top].end = end
    BY <1>1, <1>4, <1>5, <1>7
  <2> QED
    BY <1>1, <1>4, <2>1, <2>2, <2>3 DEF Grown
<1>12. Current' = stack'[top]
  BY <1>11 DEF Current, Last
<1>13. PICK b : b = [chunk |-> id, off |-> ap, size |-> n]
  OBVIOUS
<1>14. b \in Block
  BY <1>5, <1>9, <1>13 DEF Block
<1>15. frames' = [frames EXCEPT ![m].blocks = @ \cup {b}]
  BY <1>1, <1>4, <1>5, <1>13 DEF Take
<1>16. /\ frames' \in Seq(Marker) /\ Len(frames') = m
       /\ \A f \in 1 .. m : /\ frames'[f].which_chunk = frames[f].which_chunk
                            /\ frames'[f].alloc_point = frames[f].alloc_point
       /\ \A f \in 1 .. m : f # m => frames'[f] = frames[f]
       /\ frames'[m].blocks = frames[m].blocks \cup {b}
  <2>1. frames[m] \in Marker
    BY <1>1, <1>3
  <2>2. PICK e : e = [frames[m] EXCEPT !.blocks = @ \cup {b}]
    OBVIOUS
  <2>3. /\ e \in Marker /\ e.which_chunk = frames[m].which_chunk
        /\ e.alloc_point = frames[m].alloc_point /\ e.blocks = frames[m].blocks \cup {b}
    BY <1>14, <2>1, <2>2 DEF Marker
  <2>4. frames' = [frames EXCEPT ![m] = e]
    BY <1>15, <2>2
  <2> QED
    BY <1>1, <1>3, <2>3, <2>4
<1>17. /\ IsPlace(<<top, ap>>)' /\ StackState'
  <2>1. ASSUME NEW k \in 1 .. top PROVE IsPlace(<<k, stack[k].alloc_point>>)'
    <3>1. (ap + r) % Align = 0 /\ ap + r \in Hsiz .. end
      <4>1. ap \in Nat /\ end \in Nat /\ r \in Nat /\ Hsiz \in Nat
        BY <1>2, <1>5
      <4>2. (ap + r) % Align = 0
        BY <1>2, <1>9, <4>1, MultipleSum, ArenaAssumption
      <4>3. r <= end - ap /\ ap \in Hsiz .. end
        BY <1>6, <1>9
      <4>4. ap + r \in Hsiz .. end
        BY <4>1, <4>3
      <4> QED
        BY <4>2, <4>4
    <3>2. CASE k = top
      BY <1>7, <1>11, <3>1, <3>2 DEF IsPlace
    <3>3. CASE k # top
      <4>1. stack'[k] = s[k] /\ s[k].alloc_point % Align = 0
            /\ (k >= 2 => s[k].alloc_point \in Hsiz .. s[k].end)
        BY <1>8, <1>11, <3>3
      <4>2. k = 1 => s[k].alloc_point = 0
        BY <1>1, <1>3 DEF Grown
      <4>3. k = 1 \/ k >= 2
        OBVIOUS
      <4> QED
        BY <1>11, <4>1, <4>2, <4>3 DEF IsPlace
    <3> QED
      BY <3>2, <3>3
  <2>2. stack'[1] = [id |-> Base, end |-> 0, alloc_point |-> 0]
    BY <1>1, <1>3, <1>4, <1>7, <1>11 DEF Grown
  <2>3. \A k \in 2 .. top : stack'[k].id \in ChunkId
    BY <1>8, <1>11
  <2>4. IsPlace(<<top, ap>>)'
    BY <1>5, <1>7, <1>9, <1>11 DEF IsPlace
  <2> QED
    BY <1>11, <2>1, <2>2, <2>3, <2>4 DEF StackState
<1>18. /\ TypeOK' /\ Distinct(stack') /\ Accounting' /\ Agree(stack, stack', j)
  <2>1. stack' # <<>>
    BY <1>7, <1>11
  <2>2. TypeOK'
    BY <1>11, <1>16, <2>1 DEF TypeOK, Counted
  <2>3. Distinct(stack')
    BY <1>1, <1>4, <1>11 DEF Distinct, Grown
  <2>4. BytesAbove(s, 1) = BytesAbove(stack', 1)
    <3>1. 1 \in 1 .. top /\ top \in 1 .. top /\ 1 \in 1 .. Len(s)
      BY <1>1, <1>4, <1>7
    <3>2. BytesAbove(s, 1) = BytesAbove(stack', 1) + BytesAbove(s, top)
      BY <1>1, <1>11, <3>1, BytesSplit DEF Grown
    <3>3. BytesAbove(s, top) = 0
      BY <1>1, <1>4, <3>1, BytesNat DEF Grown
    <3>4. \A l \in 1 + 1 .. Len(stack') : stack'[l].end >= Hsiz
      <4>1. ASSUME NEW l \in 2 .. top PROVE s[l].end >= Hsiz
        <5>1. s[l].alloc_point \in Hsiz .. s[l].end /\ s[l] \in Chunk
          BY <1>1, <1>4, <1>8 DEF Grown
        <5>2. s[l].alloc_point \in Nat /\ s[l].end \in Nat
          BY <5>1 DEF Chunk
        <5> QED
          BY <1>2, <5>1, <5>2
      <4> QED
        BY <1>4, <1>11, <4>1
    <3>5. BytesAbove(stack', 1) \in Nat
      BY <1>11, <3>1, <3>4, BytesNat
    <3> QED
      BY <3>2, <3>3, <3>5
  <2>5. DOMAIN heap' = {stack'[k].id : k \in 2 .. Len(stack')}
        /\ \A k \in 2 .. Len(stack') : heap'[stack'[k].id] = stack'[k].end
    <3>1. \A k \in 2 .. top : stack'[k].id = s[k].id /\ stack'[k].end = s[k].end
      BY <1>4, <1>11
    <3>2. {stack'[k].id : k \in 2 .. top} = {s[k].id : k \in 2 .. top}
      BY <3>1
    <3> QED
      BY <1>1, <1>11, <3>1, <3>2 DEF Counted
  <2>6. Accounting'
    BY <2>4, <2>5 DEF Accounting, Counted
  <2>7. Agree(stack, stack', j)
    BY <1>1, <1>3, <1>4, <1>11 DEF Agree, Grown
  <2> QED
    BY <2>2, <2>3, <2>6, <2>7
\* The marks stay below the top.
<1>19. \A f \in 1 .. m + 1 : MarkPos(f)[1] <= j
  <2>1. ASSUME NEW f \in 1 .. m + 1 PROVE MarkPos(f)[1] <= j
    <3>1. PICK k \in 1 .. Len(stack), x \in Nat : MarkPos(f) = <<k, x>>
      BY <1>1, PosNat
    <3> QED
      BY <1>1, <1>3, <3>1
  <2> QED
    BY <2>1
<1>20. PICK k, x \in Nat : MarkPos(m) = <<k, x>>
  <2>1. m \in 1 .. Len(frames) + 1
    BY <1>1, <1>3
  <2> QED
    BY <1>1, <1>3, <2>1, PosNat
<1>21. MarkPos(m + 1) = <<j, Current.alloc_point>> /\ Current.alloc_point \in Nat
  <2>1. Current \in Chunk
    BY <1>1, <1>3 DEF IInv, TypeOK
  <2>2. Current.alloc_point \in Nat
    BY <2>1 DEF Chunk
  <2>3. ~(m + 1 \in 1 .. Len(frames))
    BY <1>1, <1>3
  <2>4. MarkPos(m + 1) = <<Len(stack), Current.alloc_point>>
    BY <2>3 DEF MarkPos
  <2> QED
    BY <1>1, <2>2, <2>4
<1>22. MarkPos(m + 1)' = <<top, ap + r>>
  <2>1. ~(m + 1 \in 1 .. Len(frames'))
    BY <1>3, <1>16
  <2>2. MarkPos(m + 1)' = <<Len(stack'), Current'.alloc_point>>
    BY <2>1 DEF MarkPos
  <2> QED
    BY <1>11, <1>12, <2>2
<1>23. Below(MarkPos(m), MarkPos(m + 1))
  <2>1. m \in 1 .. Len(frames) + 1 /\ m + 1 \in 1 .. Len(frames) + 1 /\ m <= m + 1
    BY <1>1, <1>3
  <2> QED
    BY <2>1 DEF IInv, MarksValid
<1>24. Below(MarkPos(m + 1), <<top, ap>>)
  <2>1. CASE top = j
    <3>1. s[top] = stack[j]
      BY <1>1, <1>3, <2>1 DEF Grown
    <3>2. Current.alloc_point = ap
      BY <1>3, <1>5, <3>1
    <3> QED
      BY <1>5, <1>21, <2>1, <3>2 DEF Below
  <2>2. CASE top > j
    BY <1>21, <2>2 DEF Below
  <2> QED
    BY <1>3, <1>4, <2>1, <2>2
<1>25. Below(<<top, ap>>, <<top, ap + r>>)
  BY <1>2, <1>4, <1>5 DEF Below
<1>26. Below(MarkPos(m), <<top, ap>>) /\ Below(MarkPos(m), <<top, ap + r>>)
       /\ Below(MarkPos(m + 1), <<top, ap + r>>)
  <2>1. ap + r \in Nat /\ ap \in Nat /\ top \in Nat /\ j \in Nat
    BY <1>2, <1>3, <1>4, <1>5
  <2>2. PICK y : y = Current.alloc_point
    OBVIOUS
  <2>3. MarkPos(m + 1) = <<j, y>> /\ y \in Nat
    BY <1>21, <2>2
  <2>4. Below(<<k, x>>, <<top, ap>>)
    BY <1>20, <1>23, <1>24, <2>1, <2>3, BelowOrder
  <2>5. Below(<<k, x>>, <<top, ap + r>>)
    BY <1>25, <2>1, <2>4, BelowOrder
  <2>6. Below(<<j, y>>, <<top, ap + r>>)
    BY <1>24, <1>25, <2>1, <2>3, BelowOrder
  <2> QED
    BY <1>20, <2>3, <2>4, <2>5, <2>6
<1>27. ASSUME NEW f \in 1 .. m
       PROVE  /\ MarkPos(f)[1] <= j
              /\ f <= Len(frames) =>
                   /\ frames'[f].which_chunk = frames[f].which_chunk
                   /\ frames'[f].alloc_point = frames[f].alloc_point
                   /\ MarkPos(f + 1)[1] <= j
                   /\ frames[f].blocks \subseteq frames'[f].blocks
  <2>0. m \in Nat
    BY <1>3
  <2>1. f \in 1 .. m + 1 /\ f + 1 \in 1 .. m + 1
    BY <2>0
  <2>2. frames[f].blocks \subseteq frames'[f].blocks
    BY <1>16
  <2> QED
    BY <1>16, <1>19, <2>1, <2>2
<1>28. ASSUME NEW f \in 1 .. m, NEW a \in frames'[f].blocks
       PROVE  \/ f <= Len(frames) /\ a \in frames[f].blocks
              \/ /\ f = m /\ Len(stack') >= 2
                 /\ a.chunk = Current'.id /\ IsPlace(<<Len(stack), a.off>>)'
                 /\ Below(MarkPos(f), <<Len(stack'), a.off>>)
                 /\ a.off + a.size <= Current'.alloc_point
  <2>1. CASE a \in frames[f].blocks
    BY <1>1, <1>3, <2>1
  <2>2. CASE a \notin frames[f].blocks
    <3>1. f = m /\ a = b
      BY <1>16, <2>2
    <3>2. a.chunk = id /\ a.off = ap /\ a.size = n
      BY <1>13, <3>1
    <3>3. Current'.id = id /\ Current'.alloc_point = ap + r
      BY <1>11, <1>12
    <3>4. ap + n <= ap + r
      BY <1>2, <1>5
    <3>5. IsPlace(<<Len(stack), a.off>>)'
      BY <1>11, <1>17, <3>2
    <3> QED
      BY <1>7, <1>11, <1>26, <3>1, <3>2, <3>3, <3>4, <3>5
  <2> QED
    BY <2>1, <2>2
<1>29. /\ m = Len(frames') /\ m <= Len(frames) /\ m <= Len(frames) + 1 /\ m # 0
       /\ m # Len(frames) + 1 /\ frames'[m].blocks # {}
  BY <1>1, <1>3, <1>16
<1>30. Below(MarkPos(m), MarkPos(m + 1)') /\ Below(MarkPos(m + 1), MarkPos(m + 1)')
  BY <1>22, <1>26
<1>31. MarksKept(m, j)
  BY <1>27, <1>29 DEF MarksKept
<1>32. TopKept(m)
  BY <1>29, <1>30 DEF TopKept
<1>33. BlocksKept(m)
  BY <1>27, <1>28 DEF BlocksKept
<1> QED
  BY <1>3, <1>17, <1>18, <1>31, <1>32, <1>33, Preserved

\* There is room in the current chunk.
LEMMA HereStep ==
  ASSUME IInv, NEW n \in 1 .. MaxSize, frames # <<>>, AllocHere(n)
  PROVE  IInv'
<1>1. /\ Take(stack, n) /\ RoundUp(n) <= Last(stack).end - Last(stack).alloc_point
      /\ current_total_allocation' = current_total_allocation
      /\ max_total_allocation' = max_total_allocation /\ heap' = heap
  BY DEF AllocHere, Fits, Current
<1>2. stack \in Seq(Chunk) /\ Len(stack) \in Nat /\ Len(stack) >= Len(stack) /\ Distinct(stack)
      /\ \A k \in Len(stack) + 1 .. Len(stack) : FALSE
  BY DEF IInv, TypeOK, MarksValid, Distinct
<1>3. /\ current_total_allocation' \in Nat /\ max_total_allocation' \in Nat
      /\ DOMAIN heap' \subseteq ChunkId /\ heap' \in [DOMAIN heap' -> Nat]
  BY <1>1 DEF IInv, TypeOK
<1>4. /\ current_total_allocation' = BytesAbove(stack, 1)
      /\ current_total_allocation' <= max_total_allocation'
      /\ DOMAIN heap' = {stack[k].id : k \in 2 .. Len(stack)}
      /\ \A k \in 2 .. Len(stack) : heap'[stack[k].id] = stack[k].end
  BY <1>1 DEF IInv, Accounting
<1>5. Grown(stack)
  BY <1>2 DEF Grown
<1>6. Counted(stack)
  BY <1>3, <1>4 DEF Counted
<1> QED
  BY <1>1, <1>5, <1>6, TakeStep

\* A new chunk makes the total at least what is needed, and never less than
\* it has been.
LEMMA NewTotalFacts ==
  ASSUME current_total_allocation \in Nat, max_total_allocation \in Nat, NEW bytes \in Nat
  PROVE  /\ NewTotal(bytes) \in Nat
         /\ NewTotal(bytes) >= current_total_allocation + bytes
<1> DEFINE now == current_total_allocation + bytes
           half == (now * 3) \div 2
<1>1. now \in Nat /\ half \in Nat /\ half >= now
  OBVIOUS
<1> HIDE DEF half
<1>2. RoundUp(half) \in Nat /\ RoundUp(half) >= half
  BY <1>1, RoundFacts
<1>3. NewTotal(bytes) = IF now > max_total_allocation THEN RoundUp(half) ELSE max_total_allocation
  BY DEF NewTotal, half
<1> QED
  BY <1>1, <1>2, <1>3

\* There is none, and a new chunk is allocated.
LEMMA ChunkStep ==
  ASSUME IInv, NEW n \in 1 .. MaxSize, frames # <<>>, AllocChunk(n)
  PROVE  IInv'
<1>1. PICK bytes, total, chunk_size :
        /\ bytes = RoundUp(n) /\ total = NewTotal(bytes)
        /\ chunk_size = total - current_total_allocation + Hsiz
  OBVIOUS
<1>2. /\ Hsiz \in Nat /\ Hsiz > 0 /\ Hsiz % Align = 0
      /\ bytes \in Nat /\ bytes >= n /\ n \in Nat
      /\ current_total_allocation \in Nat /\ max_total_allocation \in Nat
      /\ Len(stack) \in Nat /\ Len(stack) >= 1 /\ stack \in Seq(Chunk)
  <2>1. n \in Nat
    BY ArenaAssumption
  <2> QED
    BY <1>1, <2>1, RoundFacts, ArenaAssumption DEF IInv, TypeOK
<1>3. total \in Nat /\ total >= current_total_allocation + bytes
  BY <1>1, <1>2, NewTotalFacts
<1>4. chunk_size \in Nat /\ chunk_size >= Hsiz + bytes
  BY <1>1, <1>2, <1>3
<1>5. /\ current_total_allocation' = total
      /\ max_total_allocation' = IF total > max_total_allocation THEN total
                                 ELSE max_total_allocation
  BY <1>1 DEF AllocChunk
<1>6. PICK id \in ChunkId \ DOMAIN heap :
        /\ heap' = [c \in DOMAIN heap \cup {id} |-> IF c = id THEN chunk_size ELSE heap[c]]
        /\ Take(Append(stack, [id |-> id, end |-> chunk_size, alloc_point |-> Hsiz]), n)
  BY <1>1 DEF AllocChunk
<1>7. PICK c, s : /\ c = [id |-> id, end |-> chunk_size, alloc_point |-> Hsiz]
                  /\ s = Append(stack, c)
  OBVIOUS
<1>8. /\ c \in Chunk /\ c.id = id /\ c.end = chunk_size /\ c.alloc_point = Hsiz
  BY <1>2, <1>4, <1>7 DEF Chunk
<1>9. /\ s \in Seq(Chunk) /\ Len(s) = Len(stack) + 1 /\ s[Len(stack) + 1] = c
      /\ Last(s) = c /\ \A k \in 1 .. Len(stack) : s[k] = stack[k]
  BY <1>2, <1>7, <1>8 DEF Last
<1>10. Take(s, n)
  BY <1>6, <1>7
<1>11. \A k \in 2 .. Len(stack) : stack[k].id \in DOMAIN heap
  BY DEF IInv, Accounting
<1>12. \A k \in 1 .. Len(stack) : stack[k].id # id
  <2>1. stack[1].id = Base /\ Base # id
    BY BaseNotAChunk DEF IInv, StackState
  <2>2. \A k \in 1 .. Len(stack) : k = 1 \/ k \in 2 .. Len(stack)
    BY <1>2
  <2> QED
    BY <1>11, <2>1, <2>2
<1>13. Distinct(s)
  <2>1. Distinct(stack)
    BY DEF IInv, MarksValid, Distinct
  <2>2. \A k \in 1 .. Len(s) : k \in 1 .. Len(stack) \/ k = Len(stack) + 1
    BY <1>2, <1>9
  <2> QED
    BY <1>8, <1>9, <1>12, <2>1, <2>2 DEF Distinct
<1>14. \A k \in Len(stack) + 1 .. Len(s) :
         /\ s[k].id \in ChunkId
         /\ s[k].alloc_point \in Hsiz .. s[k].end /\ s[k].alloc_point % Align = 0
  <2>1. \A k \in Len(stack) + 1 .. Len(s) : k = Len(stack) + 1
    BY <1>2, <1>9
  <2>2. c.id \in ChunkId /\ c.alloc_point \in Hsiz .. c.end /\ c.alloc_point % Align = 0
    BY <1>2, <1>4, <1>8
  <2> QED
    BY <1>9, <2>1, <2>2
<1>15. RoundUp(n) <= Last(s).end - Last(s).alloc_point
  BY <1>1, <1>2, <1>4, <1>8, <1>9
<1>16. /\ DOMAIN heap' = DOMAIN heap \cup {id} /\ heap'[id] = chunk_size
       /\ \A d \in DOMAIN heap : heap'[d] = heap[d]
       /\ DOMAIN heap' \subseteq ChunkId /\ heap' \in [DOMAIN heap' -> Nat]
  BY <1>4, <1>6 DEF IInv, TypeOK
<1>17. /\ DOMAIN heap' = {s[k].id : k \in 2 .. Len(s)}
       /\ \A k \in 2 .. Len(s) : heap'[s[k].id] = s[k].end
  <2>1. \A k \in 2 .. Len(s) : k \in 2 .. Len(stack) \/ k = Len(stack) + 1
    BY <1>2, <1>9
  <2>2. \A k \in 2 .. Len(stack) : s[k] = stack[k] /\ k \in 2 .. Len(s)
    BY <1>2, <1>9
  <2>3. Len(stack) + 1 \in 2 .. Len(s)
    BY <1>2, <1>9
  <2>4. DOMAIN heap = {stack[k].id : k \in 2 .. Len(stack)}
        /\ \A k \in 2 .. Len(stack) : heap[stack[k].id] = stack[k].end
    BY DEF IInv, Accounting
  <2>5. \A k \in 2 .. Len(s) : heap'[s[k].id] = s[k].end
    BY <1>8, <1>9, <1>11, <1>16, <2>1, <2>2, <2>4
  <2>6. DOMAIN heap' \subseteq {s[k].id : k \in 2 .. Len(s)}
    BY <1>8, <1>9, <1>16, <2>2, <2>3, <2>4
  <2>7. {s[k].id : k \in 2 .. Len(s)} \subseteq DOMAIN heap'
    BY <1>8, <1>9, <1>11, <1>16, <2>1, <2>2
  <2> QED
    BY <2>5, <2>6, <2>7
<1>18. current_total_allocation' = BytesAbove(s, 1)
  <2>1. BytesAbove(s, 1) = BytesAbove(stack, 1) + (c.end - Hsiz)
    BY <1>2, <1>7, <1>8, BytesAppend
  <2>2. current_total_allocation = BytesAbove(stack, 1)
    BY DEF IInv, Accounting
  <2>3. PICK old, new : old = BytesAbove(stack, 1) /\ new = BytesAbove(s, 1)
    OBVIOUS
  <2>4. /\ old \in Nat /\ total \in Nat /\ Hsiz \in Nat
        /\ new = old + (chunk_size - Hsiz) /\ chunk_size = total - old + Hsiz
    BY <1>1, <1>2, <1>3, <1>8, <2>1, <2>2, <2>3
  <2>5. new = total
    BY <2>4
  <2> QED
    BY <1>5, <2>3, <2>5
<1>19. /\ current_total_allocation' \in Nat /\ max_total_allocation' \in Nat
       /\ current_total_allocation' <= max_total_allocation' /\ Len(s) >= Len(stack)
  BY <1>2, <1>3, <1>5, <1>9
<1>20. Grown(s)
  BY <1>9, <1>13, <1>14, <1>19 DEF Grown
<1>21. Counted(s)
  BY <1>16, <1>17, <1>18, <1>19 DEF Counted
<1> QED
  BY <1>10, <1>15, <1>20, <1>21, TakeStep

\* Every chunk has at least its header.
LEMMA SizesHeld ==
  ASSUME IInv, NEW k \in 2 .. Len(stack)
  PROVE  stack[k].end >= Hsiz
<1>1. IsPlace(<<k, stack[k].alloc_point>>) /\ stack[k] \in Chunk /\ Hsiz \in Nat
  BY ArenaAssumption DEF IInv, StackState, TypeOK
<1>2. stack[k].alloc_point \in Hsiz .. stack[k].end
  BY <1>1 DEF IsPlace
<1>3. stack[k].alloc_point \in Nat /\ stack[k].end \in Nat
  BY <1>1 DEF Chunk
<1> QED
  BY <1>1, <1>2, <1>3

\* TMP_FREE pops down to the chunk of the mark, and puts the top back there.
LEMMA FreeStep ==
  ASSUME IInv, Free
  PROVE  IInv'
<1>1. PICK g, k, x : g = Len(frames) /\ k = MarkPos(g)[1] /\ x = frames[g].alloc_point
  OBVIOUS
<1>2. /\ g \in Nat /\ g >= 1 /\ frames \in Seq(Marker) /\ g \in 1 .. Len(frames)
      /\ Last(frames) = frames[g] /\ Front(frames) = SubSeq(frames, 1, g - 1)
  BY <1>1 DEF Free, IInv, TypeOK, Last, Front
<1>3. /\ frames[g] \in Marker /\ x \in Nat
      /\ MarkPos(g) = <<k, x>> /\ k \in 1 .. Len(stack)
      /\ stack[k].id = frames[g].which_chunk
      /\ IsPlace(<<k, x>>)
  <2>1. /\ frames[g] \in Marker
        /\ MarkPos(g) = <<Index(stack, frames[g].which_chunk), frames[g].alloc_point>>
        /\ MarkPos(g)[1] \in 1 .. Len(stack)
        /\ stack[MarkPos(g)[1]].id = frames[g].which_chunk
        /\ IsPlace(MarkPos(g))
    BY <1>2, MarkAt
  <2>2. MarkPos(g) = <<k, x>>
    BY <1>1, <2>1
  <2> QED
    BY <1>1, <2>1, <2>2 DEF Marker
<1>4. /\ stack \in Seq(Chunk) /\ Len(stack) \in Nat /\ k \in Nat /\ k >= 1 /\ k <= Len(stack)
      /\ Distinct(stack)
  BY <1>3 DEF IInv, TypeOK, MarksValid, Distinct
<1>5. Kept(frames[g]) = k
  BY <1>3, <1>4 DEF Kept, Distinct
<1>6. /\ stack' = [SubSeq(stack, 1, k) EXCEPT ![k].alloc_point = x]
      /\ current_total_allocation' = current_total_allocation - BytesAbove(stack, k)
      /\ heap' = [c \in DOMAIN heap \ {stack[l].id : l \in k + 1 .. Len(stack)} |-> heap[c]]
      /\ frames' = SubSeq(frames, 1, g - 1) /\ max_total_allocation' = max_total_allocation
  BY <1>1, <1>2, <1>5 DEF Free
<1>7. PICK top : top = [stack[k] EXCEPT !.alloc_point = x]
  OBVIOUS
<1>8. top \in Chunk /\ top.id = stack[k].id /\ top.end = stack[k].end /\ top.alloc_point = x
  <2>1. stack[k] \in Chunk
    BY <1>3, <1>4
  <2> QED
    BY <1>3, <1>7, <2>1 DEF Chunk
<1>9. /\ stack' \in Seq(Chunk) /\ Len(stack') = k /\ stack'[k] = top
      /\ \A l \in 1 .. k : stack'[l].id = stack[l].id /\ stack'[l].end = stack[l].end
      /\ \A l \in 1 .. k : l # k => stack'[l] = stack[l]
  <2>1. PICK s : s = SubSeq(stack, 1, k)
    OBVIOUS
  <2>2. s \in Seq(Chunk) /\ Len(s) = k /\ \A l \in 1 .. k : s[l] = stack[l]
    BY <1>3, <1>4, <2>1
  <2>3. stack' = [s EXCEPT ![k] = top]
    <3>1. s[k] = stack[k]
      BY <1>4, <2>2
    <3>2. stack' = [s EXCEPT ![k].alloc_point = x]
      BY <1>6, <2>1
    <3> QED
      BY <1>7, <3>1, <3>2
  <2> QED
    BY <1>4, <1>8, <2>2, <2>3
<1>10. /\ frames' \in Seq(Marker) /\ Len(frames') = g - 1
       /\ \A f \in 1 .. g - 1 : frames'[f] = frames[f]
  BY <1>1, <1>2, <1>6
<1>11. Agree(stack, stack', k) /\ Distinct(stack')
  <2>1. Agree(stack, stack', k)
    BY <1>3, <1>4, <1>9 DEF Agree
  <2>2. \A l \in 1 .. k : l \in 1 .. Len(stack)
    BY <1>4
  <2>3. Distinct(stack')
    BY <1>4, <1>9, <2>2 DEF Distinct
  <2> QED
    BY <2>1, <2>3
<1>12. IsPlace(<<k, x>>)' /\ StackState'
  <2>1. IsPlace(<<k, x>>)'
    BY <1>3, <1>4, <1>8, <1>9 DEF IsPlace
  <2>2. ASSUME NEW l \in 1 .. k PROVE IsPlace(<<l, stack[l].alloc_point>>)'
    <3>1. CASE l = k
      BY <1>8, <1>9, <2>1, <3>1
    <3>2. CASE l # k
      <4>1. stack'[l] = stack[l] /\ l \in 1 .. Len(stack)
        BY <1>4, <1>9, <3>2
      <4>2. IsPlace(<<l, stack[l].alloc_point>>)
        BY <4>1 DEF IInv, StackState
      <4> QED
        BY <1>9, <4>1, <4>2 DEF IsPlace
    <3> QED
      BY <3>1, <3>2
  <2>3. \A l \in 2 .. k : stack'[l].id \in ChunkId
    <3>1. ASSUME NEW l \in 2 .. k PROVE stack'[l].id \in ChunkId
      <4>1. l \in 2 .. Len(stack) /\ l \in 1 .. k
        BY <1>4
      <4> QED
        BY <1>9, <4>1 DEF IInv, StackState
    <3> QED
      BY <3>1
  <2>4. stack'[1] = [id |-> Base, end |-> 0, alloc_point |-> 0]
    <3>1. stack[1] = [id |-> Base, end |-> 0, alloc_point |-> 0]
      BY DEF IInv, StackState
    <3>2. CASE k # 1
      BY <1>4, <1>9, <3>1, <3>2
    <3>3. CASE k = 1
      <4>1. x = 0
        BY <1>3, <3>3 DEF IsPlace
      <4>2. top = [stack[1] EXCEPT !.alloc_point = 0]
        BY <1>7, <3>3, <4>1
      <4>3. top = [id |-> Base, end |-> 0, alloc_point |-> 0]
        BY <3>1, <4>2
      <4> QED
        BY <1>9, <3>3, <4>3
    <3> QED
      BY <3>2, <3>3
  <2> QED
    BY <1>9, <2>1, <2>2, <2>3, <2>4 DEF StackState
<1>13. /\ current_total_allocation' = BytesAbove(stack', 1) /\ current_total_allocation' \in Nat
       /\ current_total_allocation' <= max_total_allocation'
  <2>1. \A l \in 2 .. Len(stack) : stack[l].end >= Hsiz
    BY SizesHeld
  <2>2. /\ \A l \in k + 1 .. Len(stack) : stack[l].end >= Hsiz
        /\ \A l \in 1 + 1 .. Len(stack') : stack'[l].end >= Hsiz
        /\ 1 \in 1 .. Len(stack')
    BY <1>4, <1>9, <2>1
  <2>3. BytesAbove(stack, k) \in Nat
    BY <1>3, <1>4, <2>2, BytesNat
  <2>4. BytesAbove(stack', 1) \in Nat
    BY <1>9, <2>2, BytesNat
  <2>5. BytesAbove(stack, 1) = BytesAbove(stack', 1) + BytesAbove(stack, k)
    BY <1>3, <1>4, <1>9, BytesSplit
  <2>6. /\ current_total_allocation = BytesAbove(stack, 1)
        /\ current_total_allocation <= max_total_allocation
        /\ current_total_allocation \in Nat /\ max_total_allocation \in Nat
    BY DEF IInv, Accounting, TypeOK
  <2>7. /\ current_total_allocation' = current_total_allocation - BytesAbove(stack, k)
        /\ max_total_allocation' = max_total_allocation
    BY <1>6
  <2>8. PICK a, b, c : a = BytesAbove(stack, 1) /\ b = BytesAbove(stack, k) /\ c = BytesAbove(stack', 1)
    OBVIOUS
  <2>9. b \in Nat /\ c \in Nat /\ a = c + b /\ current_total_allocation = a
        /\ current_total_allocation' = current_total_allocation - b
    BY <2>3, <2>4, <2>5, <2>6, <2>7, <2>8
  <2>10. current_total_allocation' = c
    BY <2>9
  <2>11. current_total_allocation' <= max_total_allocation'
    BY <2>6, <2>7, <2>9
  <2> QED
    BY <2>8, <2>9, <2>10, <2>11
<1>14. /\ DOMAIN heap' = {stack'[l].id : l \in 2 .. Len(stack')}
       /\ \A l \in 2 .. Len(stack') : heap'[stack'[l].id] = stack'[l].end
       /\ DOMAIN heap' \subseteq ChunkId /\ heap' \in [DOMAIN heap' -> Nat]
  <2>1. DOMAIN heap = {stack[l].id : l \in 2 .. Len(stack)}
        /\ \A l \in 2 .. Len(stack) : heap[stack[l].id] = stack[l].end
    BY DEF IInv, Accounting
  <2>2. DOMAIN heap' = DOMAIN heap \ {stack[l].id : l \in k + 1 .. Len(stack)}
        /\ \A c \in DOMAIN heap' : heap'[c] = heap[c]
    BY <1>6
  <2>3. ASSUME NEW l \in 2 .. k
        PROVE  stack'[l].id \in DOMAIN heap' /\ heap'[stack'[l].id] = stack'[l].end
    <3>1. l \in 2 .. Len(stack) /\ l \in 1 .. Len(stack) /\ l \in 1 .. k
      BY <1>4
    <3>2. stack'[l].id = stack[l].id /\ stack'[l].end = stack[l].end
      BY <1>9, <3>1
    <3>3. stack[l].id \in DOMAIN heap
      BY <2>1, <3>1
    <3>4. ASSUME NEW h \in k + 1 .. Len(stack) PROVE stack[h].id # stack[l].id
      BY <1>4, <3>1 DEF Distinct
    <3> QED
      BY <2>1, <2>2, <3>1, <3>2, <3>3, <3>4
  <2>4. ASSUME NEW c \in DOMAIN heap' PROVE \E l \in 2 .. k : c = stack'[l].id
    <3>1. PICK l \in 2 .. Len(stack) : c = stack[l].id
      BY <2>1, <2>2
    <3>2. ~(l \in k + 1 .. Len(stack))
      BY <2>2, <3>1
    <3>3. l \in 2 .. k /\ l \in 1 .. k
      BY <1>4, <3>2
    <3> QED
      BY <1>9, <3>1, <3>3
  <2>5. DOMAIN heap' = {stack'[l].id : l \in 2 .. k}
    BY <2>3, <2>4
  <2>6. DOMAIN heap' \subseteq ChunkId /\ heap' \in [DOMAIN heap' -> Nat]
    BY <1>6 DEF IInv, TypeOK
  <2> QED
    BY <1>9, <2>3, <2>5, <2>6
<1>15. TypeOK' /\ Accounting'
  <2>1. stack' # <<>>
    BY <1>4, <1>9
  <2>2. max_total_allocation' \in Nat
    BY <1>6 DEF IInv, TypeOK
  <2>3. TypeOK'
    BY <1>9, <1>10, <1>13, <1>14, <2>1, <2>2 DEF TypeOK
  <2>4. Accounting'
    BY <1>13, <1>14 DEF Accounting
  <2> QED
    BY <2>3, <2>4
\* The marks of the callers are below.
<1>16. \A f \in 1 .. g : MarkPos(f)[1] <= k
  <2>1. ASSUME NEW f \in 1 .. g PROVE MarkPos(f)[1] <= k
    <3>1. f \in 1 .. Len(frames) + 1 /\ g \in 1 .. Len(frames) + 1 /\ f <= g
      BY <1>1, <1>2
    <3>2. Below(MarkPos(f), MarkPos(g))
      BY <3>1 DEF IInv, MarksValid
    <3>3. PICK l \in 1 .. Len(stack), y \in Nat : MarkPos(f) = <<l, y>>
      BY <3>1, PosNat
    <3>4. l < k \/ l = k
      BY <1>3, <3>2, <3>3 DEF Below
    <3> QED
      BY <1>4, <3>3, <3>4
  <2> QED
    BY <2>1
<1>17. PICK n : n = g - 1
  OBVIOUS
<1>18. /\ n \in Nat /\ n = Len(frames') /\ n + 1 = g /\ n <= Len(frames)
       /\ n <= Len(frames) + 1 /\ n # Len(frames) + 1
  BY <1>1, <1>2, <1>10, <1>17
<1>19. MarkPos(n + 1)' = MarkPos(n + 1)
  <2>1. ~(n + 1 \in 1 .. Len(frames'))
    BY <1>18
  <2>2. MarkPos(n + 1)' = <<Len(stack'), Current'.alloc_point>>
    BY <2>1 DEF MarkPos
  <2>3. Current' = top
    BY <1>9 DEF Current, Last
  <2> QED
    BY <1>3, <1>8, <1>9, <1>18, <2>2, <2>3
<1>20. ASSUME NEW f \in 1 .. n
       PROVE  /\ MarkPos(f)[1] <= k /\ MarkPos(f + 1)[1] <= k
              /\ frames'[f] = frames[f] /\ f <= Len(frames)
  <2>1. f \in 1 .. g /\ f + 1 \in 1 .. g /\ f <= Len(frames) /\ f \in 1 .. g - 1
    BY <1>1, <1>2, <1>18
  <2> QED
    BY <1>10, <1>16, <2>1
<1>21. MarksKept(n, k)
  BY <1>18, <1>20 DEF MarksKept
<1>22. TopKept(n)
  <2>1. CASE n = 0
    <3>1. MarkPos(n + 1)' = <<1, 0>>
      BY <1>18, <1>19, <2>1 DEF IInv, MarkState
    <3>2. Below(MarkPos(n + 1), MarkPos(n + 1)')
      BY <1>3, <1>18, <1>19 DEF Below
    <3> QED
      BY <2>1, <3>1, <3>2 DEF TopKept
  <2>2. CASE n # 0
    <3>1. n \in 1 .. Len(frames) + 1 /\ n + 1 \in 1 .. Len(frames) + 1 /\ n <= n + 1
          /\ n \in 1 .. Len(frames) /\ n > 0
      BY <1>1, <1>2, <1>18, <2>2
    <3>2. Below(MarkPos(n), MarkPos(n + 1)) /\ Below(MarkPos(n + 1), MarkPos(n + 1))
      BY <3>1 DEF IInv, MarksValid
    <3>3. frames'[n].blocks = {} => MarkPos(n + 1) = MarkPos(n)
      <4>1. frames'[n] = frames[n]
        BY <1>20, <3>1
      <4> QED
        BY <3>1, <4>1 DEF IInv, MarkState
    <3> QED
      BY <1>19, <2>2, <3>2, <3>3 DEF TopKept
  <2> QED
    BY <2>1, <2>2
<1>23. BlocksKept(n)
  BY <1>20 DEF BlocksKept
<1> QED
  BY <1>11, <1>12, <1>15, <1>18, <1>21, <1>22, <1>23, Preserved

\* A function without a block may go without TMP_FREE: its mark is the top.
LEMMA UnfreedStep ==
  ASSUME IInv, ReturnUnfreed
  PROVE  IInv'
<1>1. PICK g, n : g = Len(frames) /\ n = g - 1
  OBVIOUS
<1>2. /\ g \in Nat /\ g >= 1 /\ frames \in Seq(Marker) /\ g \in 1 .. Len(frames) /\ n \in Nat
      /\ n + 1 = g /\ n <= Len(frames) /\ n <= Len(frames) + 1 /\ n # Len(frames) + 1
      /\ Last(frames) = frames[g] /\ Front(frames) = SubSeq(frames, 1, n)
  BY <1>1 DEF ReturnUnfreed, IInv, TypeOK, Last, Front
<1>3. /\ stack' = stack /\ current_total_allocation' = current_total_allocation
      /\ max_total_allocation' = max_total_allocation /\ heap' = heap
      /\ frames' = SubSeq(frames, 1, n) /\ frames[g].blocks = {}
  BY <1>2 DEF ReturnUnfreed
<1>4. /\ frames' \in Seq(Marker) /\ Len(frames') = n
      /\ \A f \in 1 .. n : frames'[f] = frames[f]
  BY <1>1, <1>2, <1>3
<1>5. /\ Len(stack) \in Nat /\ Len(stack) \in 1 .. Len(stack)
  BY DEF IInv, TypeOK
<1>6. TypeOK' /\ StackState' /\ Accounting' /\ Distinct(stack')
  <2>1. TypeOK'
    BY <1>3, <1>4 DEF IInv, TypeOK
  <2>2. StackState'
    BY <1>3 DEF IInv, StackState, IsPlace
  <2>3. Accounting'
    BY <1>3 DEF IInv, Accounting
  <2>4. Distinct(stack')
    BY <1>3 DEF IInv, MarksValid, Distinct
  <2> QED
    BY <2>1, <2>2, <2>3, <2>4
<1>7. PICK j : j = Len(stack)
  OBVIOUS
<1>8. Agree(stack, stack', j)
  BY <1>3, <1>5, <1>7 DEF Agree
<1>9. MarkPos(n + 1)' = MarkPos(n + 1)
  <2>1. ~(n + 1 \in 1 .. Len(frames')) /\ ~(g + 1 \in 1 .. Len(frames))
    BY <1>1, <1>2, <1>4
  <2>2. MarkPos(n + 1)' = <<Len(stack), Current.alloc_point>>
    BY <1>3, <2>1 DEF MarkPos, Current
  <2>3. MarkPos(g + 1) = <<Len(stack), Current.alloc_point>>
    BY <2>1 DEF MarkPos
  <2>4. MarkPos(g + 1) = MarkPos(g)
    BY <1>2, <1>3 DEF IInv, MarkState
  <2> QED
    BY <1>2, <2>2, <2>3, <2>4
<1>10. ASSUME NEW f \in 1 .. g PROVE MarkPos(f)[1] <= j
  <2>1. f \in 1 .. Len(frames) + 1
    BY <1>1, <1>2
  <2>2. PICK l \in 1 .. Len(stack), y \in Nat : MarkPos(f) = <<l, y>>
    BY <2>1, PosNat
  <2> QED
    BY <1>5, <1>7, <2>2
<1>11. ASSUME NEW f \in 1 .. n
       PROVE  /\ MarkPos(f)[1] <= j /\ MarkPos(f + 1)[1] <= j
              /\ frames'[f] = frames[f] /\ f <= Len(frames)
  <2>1. f \in 1 .. g /\ f + 1 \in 1 .. g /\ f <= Len(frames)
    BY <1>1, <1>2
  <2> QED
    BY <1>4, <1>10, <2>1
<1>12. MarksKept(n, j)
  BY <1>2, <1>4, <1>11 DEF MarksKept
<1>13. TopKept(n)
  <2>1. n + 1 \in 1 .. Len(frames) + 1
    BY <1>1, <1>2
  <2>2. Below(MarkPos(n + 1), MarkPos(n + 1))
    BY <1>2, <2>1 DEF IInv, MarksValid
  <2>3. CASE n = 0
    <3>1. MarkPos(n + 1)' = <<1, 0>>
      BY <1>9, <2>3 DEF IInv, MarkState
    <3> QED
      BY <1>9, <2>2, <2>3, <3>1 DEF TopKept
  <2>4. CASE n # 0
    <3>1. n \in 1 .. Len(frames) + 1 /\ n <= n + 1 /\ n \in 1 .. Len(frames) /\ n > 0
      BY <1>1, <1>2, <2>4
    <3>2. Below(MarkPos(n), MarkPos(n + 1))
      BY <2>1, <3>1 DEF IInv, MarksValid
    <3>3. frames'[n].blocks = {} => MarkPos(n + 1) = MarkPos(n)
      <4>1. frames'[n] = frames[n]
        BY <1>11, <3>1
      <4> QED
        BY <3>1, <4>1 DEF IInv, MarkState
    <3> QED
      BY <1>9, <2>2, <2>4, <3>2, <3>3 DEF TopKept
  <2> QED
    BY <2>3, <2>4
<1>14. BlocksKept(n)
  BY <1>11 DEF BlocksKept
<1> QED
  BY <1>2, <1>6, <1>8, <1>12, <1>13, <1>14, Preserved

-----------------------------------------------------------------------------
\* What the stack, the marks, the blocks and the totals are supposed to be, they
\* are after every allocation and every TMP_FREE.
THEOREM Invariance == Spec => []IInv
<1>1. Init => IInv
  BY InitIInv
<1>2. IInv /\ [Next]_vars => IInv'
  <2> SUFFICES ASSUME IInv, [Next]_vars PROVE IInv'
    OBVIOUS
  <2>1. CASE Mark
    BY <2>1, MarkStep
  <2>2. ASSUME NEW n \in 1 .. MaxSize, Alloc(n) PROVE IInv'
    <3>1. frames # <<>> /\ (AllocHere(n) \/ AllocChunk(n))
      BY <2>2 DEF Alloc
    <3> QED
      BY <3>1, HereStep, ChunkStep
  <2>3. CASE Free
    BY <2>3, FreeStep
  <2>4. CASE ReturnUnfreed
    BY <2>4, UnfreedStep
  <2>5. CASE UNCHANGED vars
    <3>1. /\ stack' = stack /\ current_total_allocation' = current_total_allocation
          /\ max_total_allocation' = max_total_allocation /\ heap' = heap /\ frames' = frames
      BY <2>5 DEF vars
    <3>2. TypeOK' /\ Accounting'
      BY <3>1 DEF IInv, TypeOK, Accounting
    <3>3. StackState' /\ MarksValid' /\ MarkState'
      BY <3>1 DEF IInv, StackState, MarksValid, MarkState, MarkPos, IsPlace, Current
    <3>4. LiveInChunk' /\ BlockState'
      BY <3>1 DEF IInv, LiveInChunk, BlockState, MarkPos, IsPlace, Current
    <3> QED
      BY <3>2, <3>3, <3>4 DEF IInv
  <2> QED
    BY <2>1, <2>2, <2>3, <2>4, <2>5 DEF Next
<1> QED
  BY <1>1, <1>2, PTL DEF Spec

\* Every variable keeps its type.
THEOREM TypeCorrect == Spec => []TypeOK
<1>1. IInv => TypeOK
  BY DEF IInv
<1> QED
  BY <1>1, Invariance, PTL

\* __gmp_tmp_free always finds the chunk of the mark, once, and pops nothing a
\* caller's mark is in.
THEOREM MarksValidHolds == Spec => []MarksValid
<1>1. IInv => MarksValid
  BY DEF IInv
<1> QED
  BY <1>1, Invariance, PTL

\* A block stays within a chunk that is allocated, until its own function ends.
THEOREM LiveInChunkHolds == Spec => []LiveInChunk
<1>1. IInv => LiveInChunk
  BY DEF IInv
<1> QED
  BY <1>1, Invariance, PTL

\* The totals and the sizes given to the free function are the right ones.
THEOREM AccountingHolds == Spec => []Accounting
<1>1. IInv => Accounting
  BY DEF IInv
<1> QED
  BY <1>1, Invariance, PTL

\* Nothing stays allocated when the outermost function has returned.
THEOREM AllReturnedHolds == Spec => []AllReturned
<1>1. IInv => AllReturned
  <2> SUFFICES ASSUME IInv, frames = <<>>
               PROVE  heap = <<>> /\ stack = << [id |-> Base, end |-> 0, alloc_point |-> 0] >>
    BY DEF AllReturned
  <2>1. MarkPos(1) = <<Len(stack), Current.alloc_point>> /\ MarkPos(1) = <<1, 0>>
    <3>1. ~(1 \in 1 .. Len(frames))
      OBVIOUS
    <3> QED
      BY <3>1 DEF IInv, MarkState, MarkPos
  <2>2. Len(stack) = 1 /\ stack \in Seq(Chunk)
        /\ stack[1] = [id |-> Base, end |-> 0, alloc_point |-> 0]
    BY <2>1 DEF IInv, TypeOK, StackState
  <2>3. DOMAIN heap = {} /\ heap \in [DOMAIN heap -> Nat]
    BY <2>2 DEF IInv, TypeOK, Accounting
  <2>4. heap = <<>>
    BY <2>3
  <2> QED
    BY <2>2, <2>4
<1> QED
  BY <1>1, Invariance, PTL

-----------------------------------------------------------------------------
\* What TmpStack sees of the frames: the blocks.
Blocks == [f \in 1 .. Len(frames) |-> frames[f].blocks]

\* What TmpStack sees is a sequence of sets of blocks.
LEMMA BlocksFacts ==
  ASSUME frames \in Seq(Marker)
  PROVE  /\ Blocks \in Seq(SUBSET Block) /\ Len(Blocks) = Len(frames) /\ Len(frames) \in Nat
         /\ \A f \in 1 .. Len(frames) : Blocks[f] = frames[f].blocks
<1>1. Len(frames) \in Nat
  OBVIOUS
<1>2. ASSUME NEW f \in 1 .. Len(frames) PROVE frames[f].blocks \in SUBSET Block
  <2>1. frames[f] \in Marker
    OBVIOUS
  <2> QED
    BY <2>1 DEF Marker
<1>3. Blocks \in [1 .. Len(frames) -> SUBSET Block]
  BY <1>2 DEF Blocks
<1> QED
  BY <1>1, <1>3 DEF Blocks

\* A new block shares no byte with one in use: in the chunk at the top it lies
\* above all of them, and a new chunk is no chunk of theirs.
LEMMA OwnBytes ==
  ASSUME IInv, NEW n \in 1 .. MaxSize, NEW b, b.size = n,
         \/ b.chunk = Current.id /\ b.off = Current.alloc_point
         \/ b.chunk \notin DOMAIN heap,
         NEW f \in 1 .. Len(frames), NEW a \in frames[f].blocks
  PROVE  a.chunk # b.chunk \/ a.off + a.size <= b.off
<1>1. PICK k : k = Index(stack, a.chunk)
  OBVIOUS
<1>2. /\ a \in Block /\ k \in 2 .. Len(stack) /\ stack[k].id = a.chunk /\ a.off \in Nat
      /\ Below(<<k, a.off + a.size>>, MarkPos(f + 1))
  BY <1>1, BlockAt
<1>3. a.size \in Nat
  BY <1>2, ArenaAssumption DEF Block
<1>4. CASE b.chunk \notin DOMAIN heap
  BY <1>4 DEF IInv, LiveInChunk
<1>5. CASE b.chunk = Current.id /\ b.off = Current.alloc_point
  <2> SUFFICES ASSUME a.chunk = b.chunk PROVE a.off + a.size <= b.off
    OBVIOUS
  <2>1. /\ Len(stack) \in Nat /\ Len(stack) >= 1 /\ Current = stack[Len(stack)]
        /\ Current \in Chunk /\ Len(frames) \in Nat
    BY DEF IInv, TypeOK, Current, Last
  <2>2. k = Len(stack)
    <3>1. stack[k].id = stack[Len(stack)].id /\ k \in 1 .. Len(stack) /\ Len(stack) \in 1 .. Len(stack)
      BY <1>2, <1>5, <2>1
    <3> QED
      BY <3>1 DEF IInv, MarksValid
  <2>3. /\ f + 1 \in 1 .. Len(frames) + 1 /\ Len(frames) + 1 \in 1 .. Len(frames) + 1
        /\ f + 1 <= Len(frames) + 1
    BY <2>1
  <2>4. Below(MarkPos(f + 1), MarkPos(Len(frames) + 1))
    BY <2>3 DEF IInv, MarksValid
  <2>5. MarkPos(Len(frames) + 1) = <<Len(stack), b.off>> /\ b.off \in Nat
    <3>1. ~(Len(frames) + 1 \in 1 .. Len(frames))
      BY <2>1
    <3>2. MarkPos(Len(frames) + 1) = <<Len(stack), Current.alloc_point>>
      BY <3>1 DEF MarkPos
    <3> QED
      BY <1>5, <2>1, <3>2 DEF Chunk
  <2>6. PICK l \in 1 .. Len(stack), y \in Nat : MarkPos(f + 1) = <<l, y>>
    BY <2>3, PosNat
  <2>7. PICK z : z = a.off + a.size
    OBVIOUS
  <2>8. z \in Nat /\ Below(<<k, z>>, <<l, y>>) /\ Below(<<l, y>>, <<k, b.off>>)
    <3>1. z \in Nat
      BY <1>2, <1>3, <2>7
    <3>2. Below(<<k, z>>, <<l, y>>)
      BY <1>2, <2>6, <2>7
    <3>3. Below(<<l, y>>, <<k, b.off>>)
      BY <2>2, <2>4, <2>5, <2>6
    <3> QED
      BY <3>1, <3>2, <3>3
  <2>9. k < l \/ (k = l /\ z <= y)
    BY <2>8 DEF Below
  <2>10. l < k \/ (l = k /\ y <= b.off)
    BY <2>8 DEF Below
  <2> QED
    BY <1>2, <2>1, <2>5, <2>6, <2>7, <2>8, <2>9, <2>10
<1> QED
  BY <1>4, <1>5

\* The block an allocation of n bytes adds for the m-th function.
NewBlock(b, n, m) ==
  /\ DOMAIN b = {"chunk", "off", "size"} /\ b.size = n
  /\ b.off % Align = 0
  /\ frames' = [frames EXCEPT ![m].blocks = @ \cup {b}]
  /\ \/ b.chunk = Current.id /\ b.off = Current.alloc_point
     \/ b.chunk \notin DOMAIN heap

\* An allocation is one of TmpStack.
LEMMA AllocPromised ==
  ASSUME IInv, IInv', NEW n \in 1 .. MaxSize, Alloc(n)
  PROVE  Promised!Alloc(Base)
<1> DEFINE AF == [t \in {Base} |-> Blocks]
<1>1. PICK m : m = Len(frames)
  OBVIOUS
<1>2. PICK b : NewBlock(b, n, m)
  <2>1. Len(stack) \in 1 .. Len(stack) /\ Current = stack[Len(stack)] /\ stack \in Seq(Chunk)
    BY DEF IInv, TypeOK, Current, Last
  <2>2. CASE AllocHere(n)
    <3>1. PICK b : b = [chunk |-> Current.id, off |-> Current.alloc_point, size |-> n]
      OBVIOUS
    <3>2. frames' = [frames EXCEPT ![m].blocks = @ \cup {b}]
      BY <1>1, <2>2, <3>1 DEF AllocHere, Take, Current
    <3>3. Current.alloc_point % Align = 0
      <4>1. IsPlace(<<Len(stack), stack[Len(stack)].alloc_point>>)
        BY <2>1 DEF IInv, StackState
      <4> QED
        BY <2>1, <4>1 DEF IsPlace
    <3>4. NewBlock(b, n, m)
      BY <3>1, <3>2, <3>3 DEF NewBlock
    <3> QED
      BY <3>4
  <2>3. CASE AllocChunk(n)
    <3>1. PICK id, bytes :
            /\ id \in ChunkId \ DOMAIN heap
            /\ Take(Append(stack, [id |-> id, end |-> bytes, alloc_point |-> Hsiz]), n)
      BY <2>3 DEF AllocChunk
    <3>2. PICK c, s : /\ c = [id |-> id, end |-> bytes, alloc_point |-> Hsiz]
                      /\ s = Append(stack, c)
      OBVIOUS
    <3>3. Last(s) = c
      BY <2>1, <3>2 DEF Last
    <3>4. PICK b : b = [chunk |-> id, off |-> Hsiz, size |-> n]
      OBVIOUS
    <3>5. Take(s, n) /\ c.id = id /\ c.alloc_point = Hsiz
      BY <3>1, <3>2
    <3>6. frames' = [frames EXCEPT ![m].blocks = @ \cup {b}]
      BY <1>1, <3>3, <3>4, <3>5 DEF Take
    <3>7. Hsiz % Align = 0
      BY ArenaAssumption
    <3>8. NewBlock(b, n, m)
      BY <3>1, <3>4, <3>6, <3>7 DEF NewBlock
    <3> QED
      BY <3>8
  <2> QED
    BY <2>2, <2>3 DEF Alloc
<1>3. /\ frames \in Seq(Marker) /\ frames' \in Seq(Marker) /\ m \in Nat /\ m >= 1
      /\ m \in 1 .. Len(frames) /\ frames # <<>>
  BY <1>1 DEF IInv, TypeOK, Alloc
<1>4. /\ Len(frames') = m
      /\ \A f \in 1 .. m : frames'[f].blocks = IF f = m THEN frames[m].blocks \cup {b}
                                               ELSE frames[f].blocks
  <2>1. frames[m] \in Marker
    BY <1>3
  <2>2. PICK e : e = [frames[m] EXCEPT !.blocks = @ \cup {b}]
    OBVIOUS
  <2>3. e.blocks = frames[m].blocks \cup {b}
    BY <2>1, <2>2 DEF Marker
  <2>4. frames' = [frames EXCEPT ![m] = e]
    BY <1>2, <2>2 DEF NewBlock
  <2>5. Len(frames') = m /\ frames'[m] = e /\ \A f \in 1 .. m : f # m => frames'[f] = frames[f]
    BY <1>1, <1>3, <2>4
  <2> QED
    BY <2>3, <2>5
<1>5. /\ Blocks \in Seq(SUBSET Block) /\ Len(Blocks) = m
      /\ \A f \in 1 .. m : Blocks[f] = frames[f].blocks
  BY <1>1, <1>3, BlocksFacts
<1>6. Blocks' = [Blocks EXCEPT ![m] = @ \cup {b}]
  BY <1>1, <1>3, <1>4 DEF Blocks
<1>7. /\ Len(Blocks') = m /\ Blocks'[m] = Blocks[m] \cup {b}
  BY <1>3, <1>5, <1>6
<1>8. Promised!IsBlock(b)
  <2>1. n > 0
    BY ArenaAssumption
  <2> QED
    BY <1>2, <2>1 DEF NewBlock, Promised!IsBlock
<1>9. \A a \in Promised!InUse : ~Promised!ShareBytes(a, b)
  <2>1. ASSUME NEW a \in Promised!InUse PROVE ~Promised!ShareBytes(a, b)
    <3>1. PICK f \in 1 .. Len(frames) : a \in frames[f].blocks
      BY <1>1, <1>3 DEF Promised!InUse, Promised!Range
    <3>2. a.chunk # b.chunk \/ a.off + a.size <= b.off
      BY <1>2, <3>1, OwnBytes DEF NewBlock
    <3>3. a.off + a.size \in Nat /\ b.off \in Nat
      <4>0. frames[f] \in Marker
        BY <1>3
      <4>1. a \in Block
        BY <3>1, <4>0 DEF Marker
      <4>2. b \in frames'[m].blocks /\ frames'[m] \in Marker
        BY <1>3, <1>4
      <4>3. b \in Block
        BY <4>2 DEF Marker
      <4> QED
        BY <4>1, <4>3, ArenaAssumption DEF Block
    <3> QED
      BY <3>2, <3>3 DEF Promised!ShareBytes
  <2> QED
    BY <2>1
<1>10. AF[Base] = Blocks /\ AF'[Base] = Blocks' /\ AF[Base] # <<>>
  BY <1>3, <1>5
<1>11. AF' = [AF EXCEPT ![Base][Len(AF[Base])] = @ \cup {b}]
  <2>1. [AF EXCEPT ![Base][Len(AF[Base])] = @ \cup {b}] =
          [AF EXCEPT ![Base] = [Blocks EXCEPT ![m] = @ \cup {b}]]
    BY <1>5, <1>10
  <2>2. AF' = [t \in {Base} |-> Blocks']
    OBVIOUS
  <2> QED
    BY <1>6, <2>1, <2>2
<1>12. b \in Promised!Last(AF'[Base]) /\ Len(AF'[Base]) = Len(AF[Base])
  BY <1>5, <1>7, <1>10 DEF Promised!Last
<1> QED
  BY <1>8, <1>9, <1>10, <1>11, <1>12 DEF Promised!Alloc, Blocks

\* A call and a return are too.
LEMMA MarkPromised ==
  ASSUME IInv, IInv', Mark
  PROVE  Promised!Mark(Base)
<1> DEFINE AF == [t \in {Base} |-> Blocks]
<1>1. PICK e : /\ e = [which_chunk |-> Current.id, alloc_point |-> Current.alloc_point, blocks |-> {}]
               /\ frames' = Append(frames, e)
  BY DEF Mark
<1>2. frames \in Seq(Marker) /\ frames' \in Seq(Marker)
  BY DEF IInv, TypeOK
<1>3. /\ Blocks \in Seq(SUBSET Block) /\ Len(Blocks) = Len(frames) /\ Len(frames) \in Nat
      /\ \A f \in 1 .. Len(frames) : Blocks[f] = frames[f].blocks
  BY <1>2, BlocksFacts
<1>4. /\ Len(frames') = Len(frames) + 1
      /\ \A f \in 1 .. Len(frames') : frames'[f].blocks = IF f \in 1 .. Len(frames)
                                                         THEN frames[f].blocks ELSE {}
  BY <1>1, <1>2, <1>3
<1>5. Blocks' = Append(Blocks, {})
  <2>1. Blocks' = [f \in 1 .. Len(frames) + 1 |-> IF f \in 1 .. Len(frames)
                                                  THEN Blocks[f] ELSE {}]
    BY <1>3, <1>4 DEF Blocks
  <2>2. PICK A, h : A = Append(Blocks, {}) /\ h = Blocks'
    OBVIOUS
  <2>3. /\ A \in Seq(SUBSET Block) /\ Len(A) = Len(frames) + 1
        /\ \A f \in 1 .. Len(A) : A[f] = IF f \in 1 .. Len(frames) THEN Blocks[f] ELSE {}
    BY <1>3, <2>2
  <2>4. A \in [1 .. Len(A) -> SUBSET Block]
    BY <2>3
  <2>5. h = [f \in 1 .. Len(A) |-> IF f \in 1 .. Len(frames) THEN Blocks[f] ELSE {}]
    BY <2>1, <2>2, <2>3
  <2>6. A = h
    BY <2>3, <2>4, <2>5
  <2> QED
    BY <2>2, <2>6
<1>6. AF' = [AF EXCEPT ![Base] = Append(@, {})]
  BY <1>5
<1> QED
  BY <1>6 DEF Promised!Mark, Blocks

\* What TMP_FREE does is what TmpStack promises of it.
LEMMA FreePromised ==
  ASSUME IInv, IInv', frames # <<>>, frames' = Front(frames)
  PROVE  Promised!Free(Base)
<1> DEFINE AF == [t \in {Base} |-> Blocks]
<1>1. frames \in Seq(Marker) /\ frames' \in Seq(Marker)
  BY DEF IInv, TypeOK
<1>2. /\ Blocks \in Seq(SUBSET Block) /\ Len(Blocks) = Len(frames) /\ Len(frames) \in Nat
      /\ Len(frames) >= 1
      /\ \A f \in 1 .. Len(frames) : Blocks[f] = frames[f].blocks
  BY <1>1, BlocksFacts
<1>3. /\ Len(frames') = Len(frames) - 1
      /\ \A f \in 1 .. Len(frames) - 1 : frames'[f] = frames[f]
  BY <1>1, <1>2 DEF Front
<1>4. Blocks' = Promised!Front(Blocks)
  <2>1. Blocks' = [f \in 1 .. Len(frames) - 1 |-> Blocks[f]]
    BY <1>2, <1>3 DEF Blocks
  <2>2. Promised!Front(Blocks) = SubSeq(Blocks, 1, Len(Blocks) - 1)
    BY DEF Promised!Front
  <2>3. SubSeq(Blocks, 1, Len(Blocks) - 1) = [f \in 1 .. Len(Blocks) - 1 |-> Blocks[f]]
    BY <1>2
  <2> QED
    BY <1>2, <2>1, <2>2, <2>3
<1>5. AF' = [AF EXCEPT ![Base] = Promised!Front(@)] /\ AF[Base] # <<>>
  BY <1>2, <1>4
<1> QED
  BY <1>5 DEF Promised!Free, Blocks

\* What a function gets from TMP_ALLOC is aligned, is as large as it asked for and
\* shares no byte with another block in use, until TMP_FREE: every step of the arena
\* is one TmpStack allows, for chunks of any size and calls of any depth.
THEOREM Refinement == Spec => Implements
<1>1. Init => Promised!Init
  <2> SUFFICES ASSUME Init PROVE Promised!Init
    OBVIOUS
  <2>1. [f \in 1 .. Len(frames) |-> frames[f].blocks] = <<>>
    BY DEF Init
  <2> QED
    BY <2>1 DEF Promised!Init
<1>2. IInv /\ IInv' /\ [Next]_vars =>
        [Promised!Next]_[t \in {Base} |-> [f \in 1 .. Len(frames) |-> frames[f].blocks]]
  <2> SUFFICES ASSUME IInv, IInv', [Next]_vars
               PROVE  Promised!Next \/ UNCHANGED frames
    OBVIOUS
  <2>1. CASE Mark
    BY <2>1, MarkPromised DEF Promised!Next
  <2>2. ASSUME NEW n \in 1 .. MaxSize, Alloc(n) PROVE Promised!Next
    BY <2>2, AllocPromised DEF Promised!Next
  <2>3. CASE Free
    <3>1. frames # <<>> /\ frames' = Front(frames)
      BY <2>3 DEF Free
    <3> QED
      BY <3>1, FreePromised DEF Promised!Next
  <2>4. CASE ReturnUnfreed
    <3>1. frames # <<>> /\ frames' = Front(frames)
      BY <2>4 DEF ReturnUnfreed
    <3> QED
      BY <3>1, FreePromised DEF Promised!Next
  <2>5. CASE UNCHANGED vars
    BY <2>5 DEF vars
  <2> QED
    BY <2>1, <2>2, <2>3, <2>4, <2>5 DEF Next
<1> QED
  BY <1>1, <1>2, Invariance, PTL DEF Spec, Implements, Promised!Spec

=============================================================================
