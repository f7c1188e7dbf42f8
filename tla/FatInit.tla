------------------------------ MODULE FatInit ------------------------------
(***************************************************************************)
(* The fat binary: mpn functions are reached through the table             *)
(* __gmpn_cpuvec, whose pointers start at init routines (FAT_INIT); the    *)
(* first call of any of them, or the first use of a threshold              *)
(* (CPUVEC_THRESHOLD), runs __gmpn_cpuvec_init, which detects the CPU and  *)
(* fills the table.  Threads may do so at the same time: there is no lock. *)
(*                                                                         *)
(* Stores are x86_64 stores: a thread's stores become visible to the other *)
(* threads later, in program order, and to itself at once.  A thread only  *)
(* ever stores its decided_cpuvec, so its store buffer is the fields it    *)
(* has stored and not yet drained.                                         *)
(***************************************************************************)
EXTENDS Integers, Sequences, FiniteSets

CONSTANTS Thread,
          NumFuncs,       \* function pointers of struct cpuvec_t
          NumThresholds,  \* thresholds of struct cpuvec_t
          Setups          \* CPUVEC_SETUP macros run, in order: [field -> value]

\* The fields in the order CPUVEC_INSTALL stores them, and the flag last.
Func == 1 .. NumFuncs
Threshold == NumFuncs + 1 .. NumFuncs + NumThresholds
Initialized == NumFuncs + NumThresholds + 1
Field == 1 .. Initialized

\* 0 is what the table holds at the start: a pointer to an init routine, a
\* threshold without a value, or initialized = 0.
Value == Nat
Unset == 0

\* CPUVEC_SETUP_fat gives every field a value (ASSERT_CPUVEC).
ASSUME FatAssumption ==
  /\ NumFuncs \in Nat \ {0}
  /\ NumThresholds \in Nat
  /\ Len(Setups) \in Nat \ {0}
  /\ \A s \in 1 .. Len(Setups) :
       /\ DOMAIN Setups[s] \subseteq Func \cup Threshold
       /\ \A x \in DOMAIN Setups[s] : Setups[s][x] \in Value \ {Unset}
  /\ DOMAIN Setups[1] = Func \cup Threshold

VARIABLES vec,      \* __gmpn_cpuvec in memory
          pc,       \* what a thread does
          func,     \* the function it calls
          thr,      \* the threshold it asks for, or the flag if none
          size,     \* the value of the threshold it got
          impl,     \* the routine it has jumped to
          decided,  \* its decided_cpuvec
          applied,  \* setups that have filled it
          issued,   \* stores of CPUVEC_INSTALL and of the flag it has made
          drained,  \* those of them that have reached memory
          entered   \* history: how often it has run an init routine

fatVars == <<vec, pc, func, thr, size, impl, decided, applied, issued, drained, entered>>
thread == <<func, thr, size, impl, decided, applied, issued, entered>>

\* Mutants: the flag is stored first, and one function is not stored.
FieldAtFlagFirst(k) == IF k = 1 THEN Initialized ELSE k - 1
FieldAtForgotten(k) == IF k = 1 THEN 2 ELSE k

\* The k-th store of __gmpn_cpuvec_init.
FieldAt(k) == k

\* The value thread t stores into field x.
Stored(t, x) == IF x = Initialized THEN 1 ELSE decided[t][x]

\* What thread t reads from field x: its own last store to it if that has
\* not reached memory.
View ==
  [t \in Thread |-> [x \in Field |->
     IF \E k \in drained[t] + 1 .. issued[t] : FieldAt(k) = x
     THEN Stored(t, x)
     ELSE vec[x]]]

NoVec == [x \in Func \cup Threshold |-> Unset]

FatStart ==
  /\ vec = [x \in Field |-> Unset]
  /\ pc = [t \in Thread |-> "idle"]
  /\ func = [t \in Thread |-> 1]
  /\ thr = [t \in Thread |-> Initialized]
  /\ size = [t \in Thread |-> Unset]
  /\ impl = [t \in Thread |-> Unset]
  /\ decided = [t \in Thread |-> NoVec]
  /\ applied = [t \in Thread |-> 0]
  /\ issued = [t \in Thread |-> 0]
  /\ drained = [t \in Thread |-> 0]
  /\ entered = [t \in Thread |-> 0]

Goto(t, from, to) == pc[t] = from /\ pc' = [pc EXCEPT ![t] = to]

\* A call of an mpn function, with or without a look at a threshold first (as
\* mpn_sqr does before it calls mpn_sqr_basecase).
CallFunc(t, f) ==
  /\ Goto(t, "idle", "jump")
  /\ func' = [func EXCEPT ![t] = f]
  /\ UNCHANGED <<vec, thr, size, impl, decided, applied, issued, drained, entered>>

CallBelow(t, x, f) ==
  /\ Goto(t, "idle", "test")
  /\ func' = [func EXCEPT ![t] = f]
  /\ thr' = [thr EXCEPT ![t] = x]
  /\ UNCHANGED <<vec, size, impl, decided, applied, issued, drained, entered>>

\* CPUVEC_THRESHOLD: the flag is tested, and then the field read.
TestFlag(t) ==
  /\ Goto(t, "test", IF View[t][Initialized] # 0 THEN "fetch" ELSE "decide")
  /\ UNCHANGED <<vec, thread, drained>>

FetchThreshold(t) ==
  /\ Goto(t, "fetch", "jump")
  /\ size' = [size EXCEPT ![t] = View[t][thr[t]]]
  /\ UNCHANGED <<vec, func, thr, impl, decided, applied, issued, drained, entered>>

\* FAT_ENTRY: a jump through the table, to the function or to its init routine.
Jump(t) ==
  LET to == View[t][func[t]]
  IN  /\ Goto(t, "jump", IF to # Unset THEN "run" ELSE "decide")
      /\ impl' = [impl EXCEPT ![t] = to]
      /\ entered' = [entered EXCEPT ![t] = IF to # Unset THEN @ ELSE @ + 1]
      /\ UNCHANGED <<vec, func, thr, size, decided, applied, issued, drained>>

\* __gmpn_cpuvec_init, from an init routine or from CPUVEC_THRESHOLD: it clears
\* decided_cpuvec (__gmpn_cpu), applies the setups of the CPU to it, the generic
\* ones first, and stores the result in the table field by field.
ClearVec(t) ==
  /\ Goto(t, "decide", "setup")
  /\ decided' = [decided EXCEPT ![t] = NoVec]
  /\ applied' = [applied EXCEPT ![t] = 0]
  /\ UNCHANGED <<vec, func, thr, size, impl, issued, drained, entered>>

\* Mutant: a setup writes to the table itself.
ApplySetupInPlace(t) ==
  /\ applied[t] < Len(Setups)
  /\ Goto(t, "setup", IF applied[t] + 1 < Len(Setups) THEN "setup" ELSE "install")
  /\ LET setup == Setups[applied[t] + 1]
     IN  /\ decided' = [decided EXCEPT ![t] =
              [x \in DOMAIN @ |-> IF x \in DOMAIN setup THEN setup[x] ELSE @[x]]]
         /\ vec' = [x \in Field |-> IF x \in DOMAIN setup THEN setup[x] ELSE vec[x]]
  /\ applied' = [applied EXCEPT ![t] = @ + 1]
  /\ UNCHANGED <<func, thr, size, impl, issued, drained, entered>>

ApplySetup(t) ==
  /\ applied[t] < Len(Setups)
  /\ Goto(t, "setup", IF applied[t] + 1 < Len(Setups) THEN "setup" ELSE "install")
  /\ LET setup == Setups[applied[t] + 1]
     IN  decided' = [decided EXCEPT ![t] =
           [x \in DOMAIN @ |-> IF x \in DOMAIN setup THEN setup[x] ELSE @[x]]]
  /\ applied' = [applied EXCEPT ![t] = @ + 1]
  /\ UNCHANGED <<vec, func, thr, size, impl, issued, drained, entered>>

\* Where it returns to: the init routine jumps through the table again.
Waiting(t) == thr[t] # Initialized /\ size[t] = Unset

Store(t) ==
  /\ pc[t] = "install"
  /\ issued[t] < Initialized
  /\ issued' = [issued EXCEPT ![t] = @ + 1]
  /\ pc' = [pc EXCEPT ![t] = IF issued[t] + 1 < Initialized THEN "install"
                             ELSE IF Waiting(t) THEN "fetch" ELSE "jump"]
  /\ UNCHANGED <<vec, func, thr, size, impl, decided, applied, drained, entered>>

\* The oldest store of a thread reaches memory.
Drain(t) ==
  /\ drained[t] < issued[t]
  /\ LET x == FieldAt(drained[t] + 1)
     IN  vec' = [vec EXCEPT ![x] = Stored(t, x)]
  /\ drained' = [drained EXCEPT ![t] = @ + 1]
  /\ UNCHANGED <<pc, thread>>

\* The function returns.
Finish(t) ==
  /\ Goto(t, "run", "idle")
  /\ thr' = [thr EXCEPT ![t] = Initialized]
  /\ size' = [size EXCEPT ![t] = Unset]
  /\ impl' = [impl EXCEPT ![t] = Unset]
  /\ UNCHANGED <<vec, func, decided, applied, issued, drained, entered>>

Step(t) ==
  \/ TestFlag(t) \/ FetchThreshold(t) \/ Jump(t) \/ ClearVec(t) \/ ApplySetup(t)
  \/ Store(t) \/ Finish(t)

FatNext ==
  \E t \in Thread :
    \/ \E f \in Func : CallFunc(t, f)
    \/ \E x \in Threshold, f \in Func : CallBelow(t, x, f)
    \/ Step(t)
    \/ Drain(t)

\* Threads run, and store buffers drain; nobody has to call anything.
Fairness == \A t \in Thread : WF_fatVars(Step(t)) /\ WF_fatVars(Drain(t))

FatSpec == FatStart /\ [][FatNext]_fatVars /\ Fairness

----------------------------------------------------------------------------
PC == {"idle", "test", "fetch", "jump", "decide", "setup", "install", "run"}

FatTypeOK ==
  /\ vec \in [Field -> Value]
  /\ pc \in [Thread -> PC]
  /\ func \in [Thread -> Func]
  /\ thr \in [Thread -> Threshold \cup {Initialized}]
  /\ size \in [Thread -> Value]
  /\ impl \in [Thread -> Value]
  /\ decided \in [Thread -> [Func \cup Threshold -> Value]]
  /\ applied \in [Thread -> 0 .. Len(Setups)]
  /\ issued \in [Thread -> 0 .. Initialized]
  /\ drained \in [Thread -> 0 .. Initialized]
  /\ entered \in [Thread -> Nat]

\* What the table is to hold: the value of the most specific setup that has one
\* for the field.
ChosenOf(n) ==
  [x \in Field |->
     IF x = Initialized THEN 1
     ELSE LET having == {s \in 1 .. n : x \in DOMAIN Setups[s]}
          IN  IF having = {} THEN Unset
              ELSE Setups[CHOOSE s \in having : \A r \in having : r <= s][x]]
Chosen == ChosenOf(Len(Setups))

\* How far each thread has come with its initialisation, and what it relies on.
ThreadState(t) ==
  /\ drained[t] <= issued[t]
  /\ pc[t] \in {"decide", "setup"} => issued[t] = 0
  /\ pc[t] = "setup" =>
       /\ applied[t] < Len(Setups)
       /\ \A x \in Func \cup Threshold :
            /\ decided[t][x] = ChosenOf(applied[t])[x]
            /\ applied[t] > 0 => decided[t][x] # Unset
  /\ pc[t] = "install" => issued[t] < Initialized
  /\ pc[t] = "install" \/ issued[t] > 0 =>
       \A x \in Func \cup Threshold : decided[t][x] = Chosen[x] /\ decided[t][x] # Unset
  /\ pc[t] \notin {"decide", "setup", "install"} => issued[t] \in {0, Initialized}
  /\ pc[t] = "fetch" => thr[t] # Initialized /\ View[t][Initialized] # 0
  /\ pc[t] = "test" => thr[t] # Initialized /\ size[t] = Unset
  /\ pc[t] = "idle" => thr[t] = Initialized /\ size[t] = Unset
  /\ pc[t] \in {"jump", "run"} /\ thr[t] # Initialized =>
       size[t] = Chosen[thr[t]] /\ size[t] # Unset
  /\ thr[t] # Initialized /\ size[t] # Unset => size[t] = Chosen[thr[t]]
  /\ pc[t] = "run" => impl[t] = Chosen[func[t]]
  /\ entered[t] <= 1
  /\ entered[t] = 1 => pc[t] \in {"decide", "setup", "install"} \/ issued[t] = Initialized

\* The table holds nothing but what has been chosen, in the order it is stored.
TableState ==
  /\ \A x \in Field : vec[x] \in {Unset, Chosen[x]}
  /\ \A t \in Thread : \A k \in 1 .. drained[t] : vec[k] = Chosen[k] /\ vec[k] # Unset
  /\ vec[Initialized] # Unset => \A x \in Field : vec[x] = Chosen[x] /\ vec[x] # Unset

FatInv == FatTypeOK /\ TableState /\ \A t \in Thread : ThreadState(t)

\* No thread runs a routine other than the one chosen for this CPU, or with a
\* threshold other than the one that goes with it, although another thread may
\* be filling the table meanwhile ("some of the asm routines only operate
\* correctly up to their own defined threshold").
ConsistentUse ==
  \A t \in Thread : pc[t] = "run" =>
    /\ impl[t] = Chosen[func[t]]
    /\ thr[t] # Initialized => size[t] = Chosen[thr[t]]

\* A thread that sees the flag set sees every field of the table filled.
FlagMeansReady ==
  \A t \in Thread : View[t][Initialized] # 0 =>
    \A x \in Field : View[t][x] = Chosen[x]

\* No thread goes through an init routine twice: the jump back through the
\* table finds the function it has just installed.
InitRoutineOnce == \A t \in Thread : entered[t] <= 1

\* A field that has its value keeps it, although every thread that ran the
\* initialisation stores it again.
FieldsSettle ==
  [][\A x \in Field : vec[x] # Unset => vec'[x] = vec[x]]_fatVars

\* Every call gets to run its function.
CallsRun == \A t \in Thread : pc[t] \in {"test", "jump"} ~> pc[t] = "run"

============================================================================
