----------------------------- MODULE MpzContents ----------------------------
(***************************************************************************)
(* Proofs about the mpz functions of MCMpz, for any variables, numbers and *)
(* sizes: what the blocks of the variables hold.                           *)
(*                                                                         *)
(* Good is inductive: between calls every variable has a number, with as   *)
(* many limbs as its size says and none of them zero at the top, and while *)
(* a function runs its operands are where, and what, it noted of them.     *)
(* The lemma <Action>Contents is that the action, from a good state, gives *)
(* its destination such a number and leaves the others theirs.  It is what *)
(* mpz_ior needs to stay in its block, so that the bounds of MpzProofs     *)
(* hold of every behaviour.                                                *)
(***************************************************************************)
EXTENDS MpzProofs

-----------------------------------------------------------------------------
(* What a step does to the numbers.                                         *)

\* The invariant: who owns which block, how long it is, and what it holds.
Good == IInv /\ Bounds /\ Contents

\* Variable y keeps its number, wherever its block is after.
Kept(y) ==
  /\ var'[y].size = var[y].size
  /\ var'[y].d \in DOMAIN heap'
  /\ heap'[var'[y].d].known = heap[var[y].d].known
  /\ heap'[var'[y].d].num = heap[var[y].d].num

\* Temp_divisor stays, or stays away.
TempKept == var'[Temp].d = var[Temp].d /\ (Temp \notin Usable => var'[Temp] = var[Temp])

\* Variable w has a number after, the integer v.
Sound(w) == var'[w].d \in DOMAIN heap' /\ Whole(heap'[var'[w].d], var'[w].size)
Has(w, v) ==
  Sound(w) /\ v = Signed(var'[w].size < 0, heap'[var'[w].d].num % Base(Abs(var'[w].size)))

\* w gets v, and no other variable changes.
Gives(w, v) == BlocksOK' /\ TempKept /\ Has(w, v) /\ \A y \in Usable \ {w} : Kept(y)

\* Nothing changes but places.
Carries ==
  /\ BlocksOK' /\ TempKept
  /\ \A y \in Usable : Kept(y)
  /\ \A q \in DOMAIN heap \cap Copy : q \in DOMAIN heap' /\ heap'[q] = heap[q]

\* What is read of a variable that is kept.
LEMMA KeptReads ==
  ASSUME IInv, Bounds, NEW y \in Usable, Kept(y)
  PROVE  /\ \A n : Read(var[y].d, n)' = Read(var[y].d, n)
         /\ NumberAt(var[y].d, Size(y))' <=> NumberAt(var[y].d, Size(y))
         /\ Size(y)' = Size(y) /\ ValueOf(y)' = ValueOf(y)
         /\ NumberAt(var[y].d, Size(y)) => Sound(y)
<1>1. var[y].d \in DOMAIN heap /\ var[y].size = Size(y)
  BY Known DEF Bounds
<1>2. \A n : Read(var[y].d, n)' = Read(var[y].d, n)
  BY <1>1 DEF Kept, Read
<1>3. Size(y)' = Size(y) /\ var'[y].size = Size(y)
  BY <1>1 DEF Kept, Size
<1>4. ValueOf(y)' = ValueOf(y)
  BY <1>1, <1>2, <1>3 DEF ValueOf
<1>5. PICK s : s = Size(y) /\ s = Size(y)'
  BY <1>3
<1>6. Whole(heap'[var'[y].d], s) <=> Whole(heap[var[y].d], s)
  BY DEF Kept, Whole
<1>7. NumberAt(var[y].d, Size(y))' <=> NumberAt(var[y].d, Size(y))
  BY <1>1, <1>5, <1>6 DEF Kept, NumberAt
<1> QED
  BY <1>1, <1>2, <1>3, <1>4, <1>5, <1>6, <1>7 DEF Sound, Kept, NumberAt

\* How it has one.
LEMMA HasOf ==
  ASSUME NEW w, NEW p, p \in DOMAIN heap', NEW b, heap'[p] = b, var'[w].d = p,
         NEW s, var'[w].size = s, NEW n, n = Abs(s), n <= b.known,
         NEW m, b.num % Base(n) = m, Exactly(n, m)
  PROVE  Has(w, Signed(s < 0, m))
BY DEF Has, Sound, Whole

\* A block that moves.
LEMMA MovedHolds ==
  ASSUME IInv, Sizes, BlocksOK, NEW x \in Var, NEW p, NEW b, NEW f, MovesTo(x, p, b, f), BlockOK(b)
  PROVE  /\ BlocksOK' /\ TempKept /\ var'[x] = f /\ p \in DOMAIN heap' /\ heap'[p] = b
         /\ \A y \in Usable \ {x} : Kept(y) /\ var'[y] = var[y] /\ heap'[var[y].d] = heap[var[y].d]
         /\ \A q \in DOMAIN heap \cap Copy : q \in DOMAIN heap' /\ heap'[q] = heap[q]
<1>1. /\ p \in (Block \ DOMAIN heap) \cup {var[x].d} /\ heap' = With(Without(heap, {var[x].d}), p, b)
      /\ var' = [var EXCEPT ![x] = f]
  BY DEF MovesTo
<1>2. var[x].d \in Block /\ x # Temp /\ x \in DOMAIN var
  BY NamesDiffer DEF IInv, Typing
<1>3. /\ DOMAIN heap' = (DOMAIN heap \ {var[x].d}) \cup {p} /\ heap'[p] = b
      /\ \A q \in DOMAIN heap : q # var[x].d /\ q # p => heap'[q] = heap[q]
  BY <1>1 DEF With, Without
<1>4. \A q \in DOMAIN heap' : q # p => q \in DOMAIN heap /\ heap'[q] = heap[q]
  BY <1>3
<1>5. BlocksOK'
  BY <1>3, <1>4 DEF BlocksOK
<1>6. var'[x] = f /\ \A y : y # x => var'[y] = var[y]
  BY <1>1, <1>2
<1>7. TempKept
  BY <1>2, <1>6 DEF TempKept
<1>8. ASSUME NEW q \in DOMAIN heap \cap Copy PROVE q \in DOMAIN heap' /\ heap'[q] = heap[q]
  <2>1. q \notin Block
    BY NamesDiffer DEF Copy
  <2> QED
    BY <1>1, <1>2, <1>3, <2>1
<1>9. ASSUME NEW y \in Usable \ {x} PROVE Kept(y) /\ var'[y] = var[y] /\ heap'[var[y].d] = heap[var[y].d]
  <2>1. var[y].d \in DOMAIN heap /\ var[y].d # var[x].d
    <3>1. var[y].d \in DOMAIN heap
      BY Known
    <3>2. CASE y \in Var
      BY <3>1, <3>2 DEF IInv, Ownership
    <3>3. CASE y = Temp
      BY <1>2, <3>1, <3>3, NamesDiffer DEF Usable
    <3> QED
      BY <3>2, <3>3 DEF Usable
  <2>2. var[y].d # p
    BY <1>1, <2>1
  <2>3. var'[y] = var[y] /\ heap'[var[y].d] = heap[var[y].d] /\ var[y].d \in DOMAIN heap'
    BY <1>3, <1>6, <2>1, <2>2
  <2> QED
    BY <2>3 DEF Kept
<1> QED
  BY <1>3, <1>5, <1>6, <1>7, <1>8, <1>9

\* _mpz_realloc: the block, and the variable, after.
LEMMA ReallocateMovesTo ==
  ASSUME IInv, Bounds, BlocksOK, NEW x \in Var, NEW len \in Nat, len >= 1, Reallocate(x, len)
  PROVE  \E p, b, f, kept :
           /\ kept \in Nat /\ MovesTo(x, p, b, f) /\ BlockOK(b)
           /\ kept = (IF heap[var[x].d].known < len THEN heap[var[x].d].known ELSE len)
           /\ b.len = len /\ b.known = kept /\ b.num = heap[var[x].d].num % Base(kept)
           /\ f.size = (IF Abs(var[x].size) > len THEN 0 ELSE var[x].size)
<1>1. PICK old : old = heap[var[x].d]
  OBVIOUS
<1>2. old.known \in Nat /\ old.num \in Nat
  <2>1. var[x].d \in DOMAIN heap
    BY SizesSay DEF Bounds
  <2> QED
    BY <1>1, <2>1 DEF BlocksOK, BlockOK
<1>3. PICK kept \in Nat : kept = (IF old.known < len THEN old.known ELSE len) /\ kept <= len
  BY <1>2
<1>4. PICK size : size = IF Abs(var[x].size) > len THEN 0 ELSE var[x].size
  OBVIOUS
<1>5. PICK b : b = [len |-> len, known |-> kept, num |-> old.num % Base(kept)]
  BY Zenon
<1>6. PICK p \in (Block \ DOMAIN heap) \cup {var[x].d} :
        /\ heap' = With(Without(heap, {var[x].d}), p, b)
        /\ var' = [var EXCEPT ![x] = [alloc |-> len, size |-> size, d |-> p]]
  <2>1. PICK p \in (Block \ DOMAIN heap) \cup {var[x].d} :
          /\ heap' = With(Without(heap, {var[x].d}), p, [len |-> len, known |-> kept, num |-> old.num % Base(kept)])
          /\ var' = [var EXCEPT ![x] =
               [alloc |-> len, size |-> IF Abs(@.size) > len THEN 0 ELSE @.size, d |-> p]]
    BY <1>1, <1>3, Zenon DEF Reallocate
  <2>2. x \in DOMAIN var
    BY DEF IInv, Typing
  <2>3. PICK a : a = [alloc |-> len, size |-> size, d |-> p]
    BY Zenon
  <2>4. [var EXCEPT ![x] = [alloc |-> len, size |-> IF Abs(@.size) > len THEN 0 ELSE @.size, d |-> p]]
          = [var EXCEPT ![x] = a]
    BY <1>4, <2>2, <2>3
  <2>5. var' = [var EXCEPT ![x] = [alloc |-> len, size |-> size, d |-> p]]
    BY <2>1, <2>3, <2>4, Zenon
  <2>6. heap' = With(Without(heap, {var[x].d}), p, b)
    BY <1>5, <2>1, Zenon
  <2> QED
    BY <2>1, <2>5, <2>6, Zenon
<1>7. PICK f : f = [alloc |-> len, size |-> size, d |-> p]
  BY Zenon
<1>8. Abs(size) <= len
  <2>1. Size(x) \in Int /\ Abs(Size(x)) \in Nat /\ var[x].size = Size(x)
    BY SizesSay DEF Bounds
  <2>2. Abs(var[x].size) \in Nat /\ Abs(0) = 0
    <3>1. Abs(0) = 0
      BY DEF Abs
    <3> QED
      BY <2>1, <3>1
  <2>3. CASE Abs(var[x].size) > len
    BY <1>4, <2>2, <2>3
  <2>4. CASE ~ (Abs(var[x].size) > len)
    BY <1>4, <2>2, <2>4
  <2> QED
    BY <2>3, <2>4
<1>9. BlockOK(b)
  <2>1. old.num % Base(kept) \in Nat /\ old.num % Base(kept) < Base(kept)
    BY <1>2, LowLimbs
  <2> QED
    BY <1>3, <1>5, <2>1 DEF BlockOK
<1>10. MovesTo(x, p, b, f)
  BY <1>5, <1>6, <1>7, <1>8 DEF MovesTo
<1>11. /\ kept = (IF heap[var[x].d].known < len THEN heap[var[x].d].known ELSE len)
       /\ b.len = len /\ b.known = kept /\ b.num = heap[var[x].d].num % Base(kept)
       /\ f.size = (IF Abs(var[x].size) > len THEN 0 ELSE var[x].size)
  <2>1. b.len = len /\ b.known = kept /\ b.num = old.num % Base(kept) /\ f.size = size
    BY <1>5, <1>7
  <2> QED
    BY <1>1, <1>3, <1>4, <2>1, Zenon
<1>12. kept \in Nat
  OBVIOUS
<1> QED
  BY <1>9, <1>10, <1>11, <1>12, Zenon

\* With more room than there was it keeps every limb.
LEMMA ReallocateCarries ==
  ASSUME IInv, Bounds, BlocksOK, NEW x \in Var, NEW len \in Nat, len > var[x].alloc, Reallocate(x, len)
  PROVE  Carries
<1>1. /\ var[x].alloc \in Nat /\ var[x].d \in DOMAIN heap /\ heap[var[x].d].len = var[x].alloc
      /\ Abs(var[x].size) <= var[x].alloc /\ var[x].size \in Int
  BY SizesSay DEF Bounds
<1>2. PICK p, b, f, kept :
        /\ kept \in Nat /\ MovesTo(x, p, b, f) /\ BlockOK(b)
        /\ kept = (IF heap[var[x].d].known < len THEN heap[var[x].d].known ELSE len)
        /\ b.len = len /\ b.known = kept /\ b.num = heap[var[x].d].num % Base(kept)
        /\ f.size = (IF Abs(var[x].size) > len THEN 0 ELSE var[x].size)
  <2>1. len >= 1
    BY <1>1
  <2> QED
    BY <2>1, ReallocateMovesTo
<1>3. PICK known \in Nat, num \in Nat : known = heap[var[x].d].known /\ num = heap[var[x].d].num
                                        /\ known <= var[x].alloc /\ num < Base(known)
  BY <1>1 DEF BlocksOK, BlockOK
<1>4. kept = known /\ f.size = var[x].size
  <2>1. Abs(var[x].size) \in Nat
    BY <1>1, Small
  <2> QED
    BY <1>1, <1>2, <1>3, <2>1
<1>5. b.num = num
  <2>1. num % Base(known) = num
    BY <1>3, LowLimbs, Zenon
  <2> QED
    BY <1>2, <1>3, <1>4, <2>1
<1>6. /\ BlocksOK' /\ TempKept /\ var'[x] = f /\ p \in DOMAIN heap' /\ heap'[p] = b
      /\ \A y \in Usable \ {x} : Kept(y)
      /\ \A q \in DOMAIN heap \cap Copy : q \in DOMAIN heap' /\ heap'[q] = heap[q]
  BY <1>2, MovedHolds DEF Bounds
<1>7. Kept(x)
  <2>1. f.d = p
    BY <1>2 DEF MovesTo
  <2> QED
    BY <1>2, <1>3, <1>4, <1>5, <1>6, <2>1 DEF Kept
<1> QED
  BY <1>6, <1>7 DEF Carries

\* If neither blocks nor variables change, the numbers do not.
LEMMA SameCarries ==
  ASSUME IInv, Bounds, BlocksOK, UNCHANGED <<heap, var>>
  PROVE  Carries
<1>1. \A y \in Usable : var[y].d \in DOMAIN heap
  BY Known DEF Bounds
<1> QED
  BY <1>1 DEF Carries, Kept, TempKept, BlocksOK

\* Making room keeps every number, whether or not the block moves.
LEMMA GrowCarries ==
  ASSUME IInv, Bounds, BlocksOK, NEW x \in Var, NEW len \in Nat, Grow(x, len)
  PROVE  Carries
<1>1. CASE var[x].alloc < len
  BY <1>1, ReallocateCarries DEF Grow
<1>2. CASE ~ (var[x].alloc < len)
  BY <1>2, SameCarries DEF Grow
<1> QED
  BY <1>1, <1>2

\* With less, a number that does not fit becomes zero.
LEMMA ReallocateGives ==
  ASSUME IInv, Bounds, BlocksOK, NEW x \in Var, NumberAt(var[x].d, Size(x)),
         NEW len \in Nat, len >= 1, Reallocate(x, len)
  PROVE  Gives(x, IF Abs(ValueOf(x)) < Base(len) THEN ValueOf(x) ELSE 0)
<1>1. x \in Usable
  BY NamesDiffer DEF Usable
<1>2. PICK p, b, f, kept :
        /\ kept \in Nat /\ MovesTo(x, p, b, f) /\ BlockOK(b)
        /\ kept = (IF heap[var[x].d].known < len THEN heap[var[x].d].known ELSE len)
        /\ b.len = len /\ b.known = kept /\ b.num = heap[var[x].d].num % Base(kept)
        /\ f.size = (IF Abs(var[x].size) > len THEN 0 ELSE var[x].size)
  BY ReallocateMovesTo
<1>3. /\ BlocksOK' /\ TempKept /\ var'[x] = f /\ p \in DOMAIN heap' /\ heap'[p] = b
      /\ \A y \in Usable \ {x} : Kept(y)
  BY <1>2, MovedHolds DEF Bounds
<1>4. PICK m \in Nat : m = Read(var[x].d, Abs(Size(x)))
                       /\ Exactly(Abs(Size(x)), m) /\ m = heap[var[x].d].num % Base(Abs(Size(x)))
                       /\ Size(x) \in Int /\ ValueOf(x) = Signed(Size(x) < 0, m) /\ Abs(ValueOf(x)) = m
  BY <1>1, Holds DEF Bounds
<1>5. PICK s \in Int, n \in Nat : s = Size(x) /\ s = var[x].size /\ n = Abs(s)
  BY <1>4, Small DEF Size
<1>6. /\ var[x].d \in DOMAIN heap /\ n <= heap[var[x].d].known /\ Exactly(n, m)
      /\ m = heap[var[x].d].num % Base(n)
  BY <1>4, <1>5 DEF NumberAt, Whole
<1>7. PICK known \in Nat, num \in Nat : known = heap[var[x].d].known /\ num = heap[var[x].d].num
  BY <1>6 DEF BlocksOK, BlockOK
<1>8. f.d = p
  BY <1>2 DEF MovesTo
<1>9. CASE n <= len
  <2>1. f.size = s /\ n <= kept
    BY <1>2, <1>5, <1>6, <1>7, <1>9
  <2>2. (num % Base(kept)) % Base(n) = num % Base(n)
    <3>1. n \in 0 .. kept /\ kept \in Nat
      BY <1>2, <2>1
    <3>2. \A j \in 0 .. kept : (num % Base(kept)) % Base(j) = num % Base(j)
      BY <3>1, LowLimbs
    <3> QED
      BY <3>1, <3>2
  <2>3. Has(x, Signed(s < 0, m))
    <3>1. b.num % Base(n) = m /\ n <= b.known /\ var'[x].size = s /\ var'[x].d = p
      BY <1>2, <1>3, <1>6, <1>7, <1>8, <2>1, <2>2
    <3> QED
      BY <1>3, <1>5, <1>6, <3>1, HasOf
  <2>4. m < Base(len)
    <3>1. Base(n) <= Base(len) /\ Base(n) \in Nat /\ Base(len) \in Nat
      BY <1>9, BaseFacts, Zenon
    <3> QED
      BY <1>6, <3>1 DEF Exactly
  <2> QED
    BY <1>3, <1>4, <1>5, <2>3, <2>4 DEF Gives
<1>10. CASE n > len
  <2>1. f.size = 0
    BY <1>2, <1>5, <1>10
  <2>2. (num % Base(kept)) % Base(0) = 0 /\ Exactly(0, 0) /\ Abs(0) = 0
    <3>1. Base(0) = 1
      BY BaseFacts
    <3>2. PICK y \in Nat : y = num % Base(kept)
      BY <1>2, LowLimbs, Zenon
    <3>3. y % 1 = 0
      OBVIOUS
    <3> QED
      BY <3>1, <3>2, <3>3 DEF Exactly, Abs
  <2>3. Has(x, 0)
    <3>1. b.num % Base(0) = 0 /\ 0 <= b.known /\ var'[x].size = 0 /\ var'[x].d = p
      BY <1>2, <1>3, <1>7, <1>8, <2>1, <2>2
    <3>2. Has(x, Signed(0 < 0, 0))
      BY <1>3, <2>2, <3>1, HasOf
    <3> QED
      BY <3>2 DEF Signed
  <2>4. ~ (m < Base(len))
    <3>1. PICK i \in Nat : i = n - 1 /\ len <= i
      BY <1>10
    <3>2. Base(len) <= Base(i) /\ Base(i) \in Nat /\ Base(len) \in Nat
      BY <3>1, BaseFacts, Zenon
    <3>3. m >= Base(i)
      BY <1>6, <1>10, <3>1 DEF Exactly
    <3> QED
      BY <3>2, <3>3
  <2> QED
    BY <1>3, <1>4, <2>3, <2>4 DEF Gives
<1> QED
  BY <1>9, <1>10

-----------------------------------------------------------------------------
(* The numbers, after steps of each kind.                                   *)

\* The calls that are left, and those put before them.
LEMMA TailTasks ==
  ASSUME IInv, TasksOK, todo # <<>>, todo' = Tail(todo)
  PROVE  TasksOK'
<1>1. PICK K : todo \in Seq(Task(K))
  BY DEF IInv, Typing, Tasked
<1>2. PICK M : M = Task(K)
  OBVIOUS
<1>3. \A i \in 1 .. Len(todo') : todo'[i] = todo[i + 1] /\ i + 1 \in 1 .. Len(todo)
  BY <1>1, <1>2
<1> QED
  BY <1>3 DEF TasksOK, TaskOK

\* The calls a function makes are put before those that wait.
LEMMA JoinedTasks ==
  ASSUME IInv, TasksOK, todo # <<>>, NEW K, NEW steps \in Seq(Task(K)), todo' = steps \o Tail(todo),
         \A i \in 1 .. Len(steps) : TaskOK(steps[i])
  PROVE  TasksOK'
<1>1. PICK J : todo \in Seq(Task(J))
  BY DEF IInv, Typing, Tasked
<1>2. PICK M : M = Task(J \cup K)
  OBVIOUS
<1>3. todo \in Seq(M) /\ steps \in Seq(M)
  <2>1. Task(J) \subseteq M /\ Task(K) \subseteq M
    BY <1>2 DEF Task
  <2> QED
    BY <1>1, <2>1
<1>4. PICK rest : rest = Tail(todo)
  BY Zenon
<1>5. rest \in Seq(M) /\ Len(rest) = Len(todo) - 1 /\ \A i \in 1 .. Len(rest) : rest[i] = todo[i + 1]
  BY <1>3, <1>4
<1>6. ASSUME NEW i \in 1 .. Len(todo') PROVE TaskOK(todo'[i])
  <2>1. todo' = steps \o rest /\ Len(todo') = Len(steps) + Len(rest)
    BY <1>3, <1>4, <1>5
  <2>2. CASE i <= Len(steps)
    <3>1. todo'[i] = steps[i] /\ i \in 1 .. Len(steps)
      BY <1>3, <1>5, <2>1, <2>2
    <3> QED
      BY <3>1
  <2>3. CASE i > Len(steps)
    <3>1. i - Len(steps) \in 1 .. Len(rest) /\ i \in Len(steps) + 1 .. Len(steps) + Len(rest)
      BY <1>3, <1>5, <2>1, <2>3
    <3>2. (steps \o rest)[i] = rest[i - Len(steps)]
      BY <1>3, <1>5, <3>1
    <3>3. i - Len(steps) + 1 \in 1 .. Len(todo) /\ todo'[i] = todo[i - Len(steps) + 1]
      BY <1>3, <1>5, <2>1, <3>1, <3>2
    <3> QED
      BY <3>3 DEF TasksOK
  <2> QED
    BY <1>3, <2>1, <2>2, <2>3
<1> QED
  BY <1>6 DEF TasksOK, TaskOK

\* Each variable still has a number.
LEMMA NumbersNext ==
  ASSUME IInv, Bounds, TempKept, NumbersOK, \A y \in Usable : Sound(y) \/ (y # Temp /\ Renewed(y)')
  PROVE  NumbersOK'
<1>1. ASSUME NEW x \in Var PROVE (NumberAt(var[x].d, Size(x)) \/ Renewed(x))'
  <2>1. x \in Usable
    BY NamesDiffer DEF Usable
  <2>2. CASE Sound(x)
    BY <2>2 DEF Sound, NumberAt, Size
  <2>3. CASE Renewed(x)'
    BY <2>3
  <2> QED
    BY <2>1, <2>2, <2>3
<1>2. (IF var[Temp].d = CopyD THEN NumberAt(CopyD, Size(Temp)) ELSE var[Temp] = NoVar)'
  <2>1. CASE var[Temp].d = CopyD
    <3>1. Temp \in Usable /\ var'[Temp].d = CopyD
      BY <2>1 DEF Usable, TempKept
    <3>2. Sound(Temp)
      BY <3>1
    <3> QED
      BY <3>1, <3>2 DEF Sound, NumberAt, Size
  <2>2. CASE var[Temp].d # CopyD
    <3>1. Temp \notin Usable
      BY <2>2 DEF Usable
    <3>2. var'[Temp] = var[Temp]
      BY <3>1 DEF TempKept
    <3>3. var[Temp] = NoVar
      BY <2>2 DEF NumbersOK
    <3> QED
      BY <2>2, <3>2, <3>3
  <2> QED
    BY <2>1, <2>2
<1> QED
  BY <1>1, <1>2 DEF NumbersOK

\* The running function returns.
LEMMA EndsContents ==
  ASSUME Good, pc \notin {"idle", "done"}, NEW value \in 0 .. B - 1, FinishWith(value), UNCHANGED calls,
         BlocksOK', TempKept, \A y \in Usable : Sound(y)
  PROVE  Contents'
<1>1. todo # <<>> /\ todo' = Tail(todo)
  BY DEF Good, IInv, Control, FinishWith
<1>2. TasksOK'
  BY <1>1, TailTasks DEF Good, Contents
<1>3. NumbersOK'
  BY NumbersNext DEF Good, Contents
<1>4. pc' \in {"done", "enter"} /\ ret' = value
  BY DEF FinishWith
<1>5. LocalsOK'
  BY <1>4 DEF LocalsOK, DivisionNoted, BitsNoted, ProductNoted, SumNoted, OneNoted
<1>6. CountsOK'
  BY <1>4 DEF CountsOK, Good, Contents
<1> QED
  BY <1>2, <1>3, <1>5, <1>6 DEF Contents

\* ... with one result.
LEMMA GivesContents ==
  ASSUME Good, pc \in {"enter", "quot", "compute"}, NEW value \in 0 .. B - 1, FinishWith(value),
         UNCHANGED calls, NEW v, Gives(c.w, v)
  PROVE  Contents'
<1>1. ASSUME NEW y \in Usable PROVE Sound(y)
  <2>1. CASE y = c.w
    BY <2>1 DEF Gives, Has
  <2>2. CASE y # c.w
    <3>1. Kept(y)
      BY <2>2 DEF Gives
    <3>2. NumberAt(var[y].d, Size(y))
      <4>1. CASE y = Temp
        <5>1. var[Temp].d = CopyD
          BY <4>1 DEF Usable
        <5> QED
          BY <4>1, <5>1 DEF Good, Contents, NumbersOK
      <4>2. CASE y \in Var
        BY <2>2, <4>2 DEF Good, Contents, NumbersOK, Renewed
      <4> QED
        BY <4>1, <4>2 DEF Usable
    <3> QED
      BY <3>1, <3>2, KeptReads DEF Good
  <2> QED
    BY <2>1, <2>2
<1> QED
  BY <1>1, EndsContents DEF Gives

\* ... or goes on.
LEMMA GoesContents ==
  ASSUME Good, pc \in {"enter", "quot", "room", "copy"}, NEW place, Goto(place), UNCHANGED calls,
         BlocksOK', TempKept, \A y \in Usable : Kept(y) \/ (y # Temp /\ Renewed(y)'), LocalsOK'
  PROVE  Contents'
<1>1. todo' = todo /\ ret' = ret
  BY DEF Goto
<1>2. TasksOK'
  BY <1>1 DEF Good, Contents, TasksOK, TaskOK
<1>3. ASSUME NEW y \in Usable PROVE Sound(y) \/ (y # Temp /\ Renewed(y)')
  <2>1. NumberAt(var[y].d, Size(y))
    <3>1. CASE y = Temp
      <4>1. var[Temp].d = CopyD
        BY <3>1 DEF Usable
      <4> QED
        BY <3>1, <4>1 DEF Good, Contents, NumbersOK
    <3>2. CASE y \in Var
      BY <3>2 DEF Good, Contents, NumbersOK, Renewed
    <3> QED
      BY <3>1, <3>2 DEF Usable
  <2>2. CASE Kept(y)
    BY <2>1, <2>2, KeptReads DEF Good
  <2> QED
    BY <1>3, <2>2
<1>4. NumbersOK'
  BY <1>3, NumbersNext DEF Good, Contents
<1>5. CountsOK'
  BY <1>1 DEF CountsOK, Good, Contents
<1> QED
  BY <1>2, <1>4, <1>5 DEF Contents

\* ... or makes calls first.
LEMMA CallsContents ==
  ASSUME Good, pc = "enter", pc' = pc, UNCHANGED <<calls, ret>>,
         NEW K, NEW steps \in Seq(Task(K)), todo' = steps \o Tail(todo),
         \A i \in 1 .. Len(steps) : TaskOK(steps[i]), BlocksOK', NumbersOK'
  PROVE  Contents'
<1>1. todo # <<>>
  BY DEF Good, IInv, Control
<1>2. TasksOK'
  BY <1>1, JoinedTasks, Zenon DEF Good, Contents
<1>3. LocalsOK'
  BY DEF LocalsOK, DivisionNoted, BitsNoted, ProductNoted, SumNoted, OneNoted
<1>4. CountsOK'
  BY DEF CountsOK, Good, Contents
<1> QED
  BY <1>2, <1>3, <1>4 DEF Contents

-----------------------------------------------------------------------------
(* The number a function writes.                                            *)

\* What there is after n limbs of x have been written to block p, and those in S freed.
LEMMA HeapWritten ==
  ASSUME BlocksOK, NEW p \in DOMAIN heap, NEW n \in Nat, n <= heap[p].len, NEW x \in Nat,
         NEW S, p \notin S,
         heap' = Without(Written(heap, p, n, x), S)
  PROVE  /\ BlocksOK' /\ DOMAIN heap' = DOMAIN heap \ S /\ heap'[p] = Filled(heap[p], n, x)
         /\ \A q \in DOMAIN heap' : q # p => heap'[q] = heap[q]
<1>1. PICK h : h = Written(heap, p, n, x)
  OBVIOUS
<1>2. DOMAIN h = DOMAIN heap /\ h[p] = Filled(heap[p], n, x) /\ \A q \in DOMAIN heap : q # p => h[q] = heap[q]
  BY <1>1 DEF Written
<1>3. DOMAIN heap' = DOMAIN heap \ S /\ \A q \in DOMAIN heap' : heap'[q] = h[q]
  BY <1>1, <1>2 DEF Without
<1>4. BlockOK(Filled(heap[p], n, x))
  <2>1. heap[p].len \in Nat
    BY DEF BlocksOK, BlockOK
  <2> QED
    BY <2>1, FilledHolds
<1>5. p \in DOMAIN heap' /\ heap'[p] = Filled(heap[p], n, x) /\ \A q \in DOMAIN heap' : q # p => heap'[q] = heap[q]
  BY <1>2, <1>3
<1>6. ASSUME NEW q \in DOMAIN heap' PROVE BlockOK(heap'[q])
  <2>1. CASE q = p
    BY <1>4, <1>5, <2>1
  <2>2. CASE q # p
    <3>1. q \in DOMAIN heap /\ heap'[q] = heap[q]
      BY <1>3, <1>5, <2>2
    <3> QED
      BY <3>1 DEF BlocksOK
  <2> QED
    BY <2>1, <2>2
<1> QED
  BY <1>3, <1>5, <1>6 DEF BlocksOK

\* A write to one block leaves the others alone.
LEMMA PlainWritten ==
  ASSUME BlocksOK, NEW p \in DOMAIN heap, NEW n \in Nat, n <= heap[p].len, NEW x \in Nat,
         heap' = Written(heap, p, n, x)
  PROVE  /\ BlocksOK' /\ DOMAIN heap' = DOMAIN heap /\ heap'[p] = Filled(heap[p], n, x)
         /\ \A q \in DOMAIN heap' : q # p => heap'[q] = heap[q]
<1>1. DOMAIN heap' = DOMAIN heap /\ heap'[p] = Filled(heap[p], n, x) /\ \A q \in DOMAIN heap : q # p => heap'[q] = heap[q]
  BY DEF Written
<1>2. BlockOK(Filled(heap[p], n, x))
  <2>1. heap[p].len \in Nat
    BY DEF BlocksOK, BlockOK
  <2> QED
    BY <2>1, FilledHolds
<1>3. ASSUME NEW q \in DOMAIN heap' PROVE BlockOK(heap'[q])
  <2>1. CASE q = p
    BY <1>1, <1>2, <2>1
  <2>2. CASE q # p
    BY <1>1, <2>2 DEF BlocksOK
  <2> QED
    BY <2>1, <2>2
<1> QED
  BY <1>1, <1>3 DEF BlocksOK

\* No other variable has the block.
LEMMA OthersBlocks ==
  ASSUME IInv, Sizes, NEW w \in Usable, NEW y \in Usable \ {w}
  PROVE  var[y].d # var[w].d /\ var[y].d \in DOMAIN heap /\ var[y].d \notin {CopyU, CopyV, loc.free}
<1>1. var[y].d \in DOMAIN heap /\ var[y].d \notin {CopyU, CopyV, loc.free}
  BY Known
<1>2. \A x \in Var : var[x].d \in Block
  BY DEF IInv, Typing
<1>3. CASE y \in Var /\ w \in Var
  BY <1>1, <1>3 DEF IInv, Ownership
<1>4. CASE y = Temp \/ w = Temp
  BY <1>1, <1>2, <1>4, NamesDiffer DEF Usable
<1> QED
  BY <1>1, <1>3, <1>4 DEF Usable

\* A variable gets a size.
LEMMA SizeSet ==
  ASSUME IInv, NEW w \in Usable, NEW negative, NEW size, SetSize(w, negative, size)
  PROVE  /\ var'[w].size = Signed(negative, size) /\ var'[w].d = var[w].d
         /\ \A y : y # w => var'[y] = var[y]
<1>1. w \in DOMAIN var /\ var[w] \in Fields
  BY DEF Usable, IInv, Typing
<1>2. PICK s : s = Signed(negative, size)
  OBVIOUS
<1>3. var' = [var EXCEPT ![w].size = s]
  BY <1>2 DEF SetSize
<1>4. var'[w] = [var[w] EXCEPT !.size = s]
  BY <1>1, <1>3
<1>5. var'[w].size = s /\ var'[w].d = var[w].d
  BY <1>1, <1>4 DEF Fields
<1> QED
  BY <1>1, <1>2, <1>3, <1>5

\* The sign that is set is that of the number, or it is zero.
LEMMA SignedSize ==
  ASSUME NEW negative \in BOOLEAN, NEW m \in Nat, NEW x \in Nat, Exactly(m, x)
  PROVE  /\ Signed(negative, m) \in Int /\ Abs(Signed(negative, m)) = m
         /\ Signed(Signed(negative, m) < 0, x) = Signed(negative, x)
<1>1. m = 0 <=> x = 0
  BY ExactlyZero
<1>2. CASE m = 0
  <2>1. m = 0 /\ x = 0
    BY <1>1, <1>2
  <2>2. Signed(negative, 0) = 0
    <3>1. 0 \in Nat
      OBVIOUS
    <3>2. Signed(negative, 0) \in Int /\ Abs(Signed(negative, 0)) = 0
      BY <3>1, SignedFacts
    <3> QED
      BY <3>2, Small
  <2>3. Signed(FALSE, 0) = 0 /\ Abs(0) = 0 /\ (0 < 0) = FALSE /\ 0 \in Int
    BY DEF Signed, Abs
  <2> QED
    BY <2>1, <2>2, <2>3, Zenon
<1>3. CASE m # 0 /\ negative
  <2>1. Signed(negative, m) = -m /\ Signed(negative, x) = -x /\ Signed(TRUE, x) = -x
    BY <1>3 DEF Signed
  <2>2. -m \in Int /\ -m < 0 /\ Abs(-m) = m
    BY <1>3 DEF Abs
  <2>3. (-m < 0) = TRUE
    BY <2>2
  <2>4. Signed(-m < 0, x) = -x
    BY <2>1, <2>3, Zenon
  <2> QED
    BY <2>1, <2>2, <2>4, Zenon
<1>4. CASE m # 0 /\ ~negative
  <2>1. Signed(negative, m) = m /\ Signed(negative, x) = x /\ Signed(FALSE, x) = x
    BY <1>4 DEF Signed
  <2>2. m \in Int /\ ~ (m < 0) /\ Abs(m) = m
    BY <1>4 DEF Abs
  <2>3. (m < 0) = FALSE
    BY <2>2
  <2>4. Signed(m < 0, x) = x
    BY <2>1, <2>3, Zenon
  <2> QED
    BY <2>1, <2>2, <2>4, Zenon
<1> QED
  BY <1>2, <1>3, <1>4

\* Who has a number.
LEMMA HasNumber ==
  ASSUME Good, NEW y \in Usable, ~Renewed(y)
  PROVE  NumberAt(var[y].d, Size(y))
<1>1. CASE y = Temp
  <2>1. var[Temp].d = CopyD
    BY <1>1 DEF Usable
  <2> QED
    BY <1>1, <2>1 DEF Good, Contents, NumbersOK
<1>2. CASE y \in Var
  BY <1>2 DEF Good, Contents, NumbersOK
<1> QED
  BY <1>1, <1>2 DEF Usable

\* The base of limbs is at least two.
LEMMA ZeroLimb == B \in Nat /\ B >= 2 /\ 0 \in 0 .. B - 1 /\ B = Base(1) /\ Base(0) = 1
BY BaseFacts, HeapAssumption

\* A variable whose block was written and whose size was set has that number ...
LEMMA WrittenGives ==
  ASSUME IInv, Bounds, BlocksOK, NEW w \in Usable, NEW p, p = var[w].d,
         NEW n \in Nat, n <= var[w].alloc, NEW x \in Nat, x < Base(n),
         NEW m \in Nat, m <= n, Exactly(m, x),
         BlocksOK', p \in DOMAIN heap', heap'[p] = Filled(heap[p], n, x),
         \A y \in Usable \ {w} : var[y].d \in DOMAIN heap' /\ heap'[var[y].d] = heap[var[y].d],
         NEW negative \in BOOLEAN, SetSize(w, negative, m)
  PROVE  Gives(w, Signed(negative, x))
<1>1. p \in DOMAIN heap /\ n <= heap[p].len
  BY Known DEF Bounds
<1>4. /\ var'[w].size = Signed(negative, m) /\ var'[w].d = var[w].d
      /\ \A y : y # w => var'[y] = var[y]
  BY SizeSet
<1>5. PICK s \in Int : s = Signed(negative, m) /\ Abs(s) = m /\ Signed(s < 0, x) = Signed(negative, x)
  BY SignedSize
<1>6. Has(w, Signed(s < 0, x))
  <2>1. heap[p].len \in Nat
    BY <1>1 DEF BlocksOK, BlockOK
  <2>2. /\ Whole(Filled(heap[p], n, x), s) /\ Filled(heap[p], n, x).num % Base(m) = x
        /\ Filled(heap[p], n, x).known = n
    BY <1>1, <1>5, <2>1, FilledWhole, FilledHolds
  <2>3. p \in DOMAIN heap'
    OBVIOUS
  <2>4. PICK b : b = Filled(heap[p], n, x) /\ heap'[p] = b /\ b.known = n /\ b.num % Base(m) = x
    BY <2>2
  <2>5. var'[w].d = p /\ var'[w].size = s /\ m = Abs(s) /\ m <= b.known
    BY <1>1, <1>4, <1>5, <2>4
  <2> QED
    BY <2>3, <2>4, <2>5, HasOf
<1>7. ASSUME NEW y \in Usable \ {w} PROVE Kept(y)
  BY <1>4 DEF Kept
<1>8. TempKept
  <2>1. CASE w = Temp
    BY <1>4, <2>1 DEF TempKept
  <2>2. CASE w # Temp
    BY <1>4, <2>2 DEF TempKept
  <2> QED
    BY <2>1, <2>2
<1> QED
  BY <1>5, <1>6, <1>7, <1>8 DEF Gives

\* ... also when the write is the only change to the blocks ...
LEMMA WritesGive ==
  ASSUME IInv, Bounds, BlocksOK, NEW w \in Usable, NEW p, p = var[w].d,
         NEW n \in Nat, n <= var[w].alloc, NEW x \in Nat, x < Base(n),
         NEW m \in Nat, m <= n, Exactly(m, x), heap' = Written(heap, p, n, x),
         NEW negative \in BOOLEAN, SetSize(w, negative, m)
  PROVE  Gives(w, Signed(negative, x))
<1>1. p \in DOMAIN heap /\ n <= heap[p].len
  BY Known DEF Bounds
<1>2. /\ BlocksOK' /\ DOMAIN heap' = DOMAIN heap /\ heap'[p] = Filled(heap[p], n, x)
      /\ \A q \in DOMAIN heap' : q # p => heap'[q] = heap[q]
  BY <1>1, PlainWritten
<1>3. p \in DOMAIN heap'
  BY <1>1, <1>2
<1>4. ASSUME NEW y \in Usable \ {w} PROVE var[y].d \in DOMAIN heap' /\ heap'[var[y].d] = heap[var[y].d]
  <2>1. var[y].d # p /\ var[y].d \in DOMAIN heap
    BY OthersBlocks DEF Bounds
  <2> QED
    BY <1>2, <2>1
<1> QED
  BY <1>2, <1>3, <1>4, WrittenGives

\* ... and when copies and the old block are freed after it.
LEMMA FreesGive ==
  ASSUME IInv, Bounds, BlocksOK, NEW w \in Usable, NEW p, p = var[w].d,
         NEW n \in Nat, n <= var[w].alloc, NEW x \in Nat, x < Base(n),
         NEW m \in Nat, m <= n, Exactly(m, x), NEW S, S \subseteq {CopyU, CopyV, loc.free},
         heap' = Without(Written(heap, p, n, x), S),
         NEW negative \in BOOLEAN, SetSize(w, negative, m)
  PROVE  Gives(w, Signed(negative, x))
<1>1. p \in DOMAIN heap /\ p \notin S /\ n <= heap[p].len
  BY Known DEF Bounds
<1>2. /\ BlocksOK' /\ DOMAIN heap' = DOMAIN heap \ S /\ heap'[p] = Filled(heap[p], n, x)
      /\ \A q \in DOMAIN heap' : q # p => heap'[q] = heap[q]
  BY <1>1, HeapWritten, Zenon
<1>3. p \in DOMAIN heap'
  BY <1>1, <1>2
<1>4. ASSUME NEW y \in Usable \ {w} PROVE var[y].d \in DOMAIN heap' /\ heap'[var[y].d] = heap[var[y].d]
  <2>1. var[y].d # p /\ var[y].d \in DOMAIN heap /\ var[y].d \notin S
    BY OthersBlocks DEF Bounds
  <2> QED
    BY <1>2, <2>1
<1> QED
  BY <1>2, <1>3, <1>4, WrittenGives

\* Nothing is written: the size says how much of the number there was.
LEMMA SizedGives ==
  ASSUME IInv, Bounds, BlocksOK, NEW w \in Usable, heap' = heap, SetSize(w, FALSE, 0)
  PROVE  Gives(w, 0)
<1>1. var[w].d \in DOMAIN heap
  BY Known DEF Bounds
<1>2. /\ var'[w].size = Signed(FALSE, 0) /\ var'[w].d = var[w].d
      /\ \A y : y # w => var'[y] = var[y]
  BY SizeSet, Zenon
<1>3. PICK b : b = heap[var[w].d] /\ b.known \in Nat /\ b.num \in Nat
  BY <1>1 DEF BlocksOK, BlockOK
<1>4. Has(w, 0)
  <2>1. Signed(FALSE, 0) = 0 /\ Abs(0) = 0 /\ Signed(0 < 0, 0) = 0 /\ Base(0) = 1 /\ Exactly(0, 0)
    BY BaseFacts DEF Signed, Abs, Exactly
  <2>2. b.num % Base(0) = 0
    BY <1>3, <2>1
  <2>3. heap'[var[w].d] = b /\ var[w].d \in DOMAIN heap' /\ var'[w].size = 0 /\ 0 <= b.known
    <3>1. heap'[var[w].d] = b /\ var[w].d \in DOMAIN heap'
      BY <1>1, <1>3, Zenon
    <3>2. var'[w].size = 0
      BY <1>2, <2>1, Zenon
    <3>3. 0 <= b.known
      BY <1>3
    <3> QED
      BY <3>1, <3>2, <3>3
  <2>4. Has(w, Signed(0 < 0, 0))
    BY <1>2, <2>1, <2>2, <2>3, HasOf
  <2> QED
    BY <2>1, <2>4
<1>5. ASSUME NEW y \in Usable \ {w} PROVE Kept(y)
  <2>1. var[y].d \in DOMAIN heap
    BY Known DEF Bounds
  <2> QED
    BY <1>2, <2>1 DEF Kept
<1>6. TempKept
  <2>1. CASE w = Temp
    BY <1>2, <2>1 DEF TempKept
  <2>2. CASE w # Temp
    BY <1>2, <2>2 DEF TempKept
  <2> QED
    BY <2>1, <2>2
<1> QED
  BY <1>4, <1>5, <1>6 DEF Gives, BlocksOK

\* A finishing step that writes a number, or none, keeps what the blocks hold.
LEMMA WritesContents ==
  ASSUME Good, pc \in {"enter", "quot", "compute"}, NEW p, p = var[c.w].d, NEW n \in Nat, n <= var[c.w].alloc,
         NEW x \in Nat, x < Base(n), NEW m \in Nat, m <= n, Exactly(m, x),
         heap' = Written(heap, p, n, x), NEW negative \in BOOLEAN, SetSize(c.w, negative, m),
         Finish, UNCHANGED calls
  PROVE  Gives(c.w, Signed(negative, x)) /\ Contents'
<1>1. IInv /\ Bounds /\ BlocksOK /\ c.w \in Usable
  BY UsableArguments DEF Good, Contents
<1>2. Gives(c.w, Signed(negative, x))
  BY <1>1, WritesGive
<1> QED
  BY <1>2, GivesContents, ZeroLimb DEF Finish

\* A function that writes its result, frees its copies and returns keeps the contents.
LEMMA FreesContents ==
  ASSUME Good, pc = "compute", NEW p, p = var[c.w].d, NEW n \in Nat, n <= var[c.w].alloc,
         NEW x \in Nat, x < Base(n), NEW m \in Nat, m <= n, Exactly(m, x), NEW S, S \subseteq {CopyU, CopyV, loc.free},
         heap' = Without(Written(heap, p, n, x), S), NEW negative \in BOOLEAN, SetSize(c.w, negative, m),
         Finish, UNCHANGED calls
  PROVE  Gives(c.w, Signed(negative, x)) /\ Contents'
<1>1. IInv /\ Bounds /\ BlocksOK /\ c.w \in Usable
  BY UsableArguments DEF Good, Contents
<1>2. Gives(c.w, Signed(negative, x))
  BY <1>1, FreesGive, Zenon
<1> QED
  BY <1>2, GivesContents, ZeroLimb DEF Finish

\* A function whose result is zero keeps the contents.
LEMMA ZeroContents ==
  ASSUME Good, pc \in {"enter", "quot", "compute"}, heap' = heap, SetSize(c.w, FALSE, 0), Finish, UNCHANGED calls
  PROVE  Gives(c.w, 0) /\ Contents'
<1>1. IInv /\ Bounds /\ BlocksOK /\ c.w \in Usable
  BY UsableArguments DEF Good, Contents
<1>2. Gives(c.w, 0)
  BY <1>1, SizedGives, Zenon
<1> QED
  BY <1>2, GivesContents, ZeroLimb DEF Finish

\* ... as does one that writes nothing.
LEMMA SameContents ==
  ASSUME Good, pc \in {"enter", "quot", "room", "copy"}, UNCHANGED <<heap, var>>, Finish, UNCHANGED calls
  PROVE  Carries /\ Contents'
<1>1. Carries
  BY SameCarries DEF Good, Contents
<1>2. ASSUME NEW y \in Usable PROVE Sound(y)
  <2>1. Kept(y)
    BY <1>1 DEF Carries
  <2>2. NumberAt(var[y].d, Size(y))
    BY HasNumber DEF Renewed
  <2> QED
    BY <2>1, <2>2, KeptReads DEF Good
<1>3. Contents'
  BY <1>1, <1>2, EndsContents, ZeroLimb DEF Carries, Finish
<1> QED
  BY <1>1, <1>3

\* A step that goes on and only moves blocks.
LEMMA CarriesContents ==
  ASSUME Good, pc \in {"enter", "quot", "room", "copy"}, NEW place, Goto(place), UNCHANGED calls,
         Carries, LocalsOK'
  PROVE  Contents'
BY GoesContents DEF Carries

-----------------------------------------------------------------------------
(* How many limbs sums, differences, products and quotients have.           *)

\* What is computed from numbers.
LEMMA FromNumbers ==
  ASSUME NEW u \in Int, NEW v \in Int, NEW x
  PROVE  From(u, v, x) = x
BY NotJunk DEF From

\* A number of n limbs, and the bases around.
LEMMA Limbs3 ==
  ASSUME NEW n \in Nat, n >= 1, NEW x \in Nat, Exactly(n, x)
  PROVE  \E a \in Nat, b \in Nat :
           /\ b >= 1 /\ b = Base(n - 1) /\ a = Base(n) /\ a = B * b /\ b <= x /\ x < a
           /\ B * a = Base(n + 1) /\ a >= 2 /\ a >= B
           /\ B \in Nat /\ B >= 2
           /\ \A y \in Nat : y >= b => B * y >= B * b
<1>1. PICK b \in Nat : b = Base(n - 1) /\ b >= 1 /\ b <= x /\ x < Base(n) /\ Base(n) = B * b
  <2>1. x < Base(n) /\ x >= Base(n - 1) /\ Base(n - 1) \in Nat /\ Base(n - 1) >= 1 /\ Base(n) = B * Base(n - 1)
    BY ExactlyZero
  <2> QED
    BY <2>1
<1>2. PICK a \in Nat : a = Base(n)
  BY BaseFacts
<1>3. B * a = Base(n + 1) /\ B \in Nat /\ B >= 2
  BY <1>2, BaseFacts, Zenon
<1>4. a = B * b
  BY <1>1, <1>2
<1>5. a >= B
  <2>1. B * b >= B * 1
    <3>1. \A y, z, t \in Nat : y >= z => t * y >= t * z
      OBVIOUS
    <3> QED
      BY <1>1, <1>3, <3>1
  <2> QED
    BY <1>3, <1>4, <2>1
<1>6. \A y \in Nat : y >= b => B * y >= B * b
  <2>1. \A y, z, t \in Nat : y >= z => t * y >= t * z
    OBVIOUS
  <2> QED
    BY <1>3, <2>1
<1> QED
  BY <1>1, <1>2, <1>3, <1>4, <1>5, <1>6

\* The larger of two numbers decides how many limbs their sum has.
LEMMA SumLimbs ==
  ASSUME NEW n \in Nat, NEW x \in Nat, Exactly(n, x), NEW y \in Nat, y < Base(n)
  PROVE  /\ x + y \in Nat /\ x + y < Base(n + 1)
         /\ LessTop(n + 1, x + y) \in 0 .. n + 1 /\ Exactly(LessTop(n + 1, x + y), x + y)
<1>1. x + y < Base(n + 1) /\ (n + 1 >= 2 => x + y >= Base((n + 1) - 2))
  <2>1. CASE n = 0
    <3>1. x = 0 /\ y = 0 /\ Base(1) = B /\ B >= 2 /\ B \in Nat
      <4>1. Base(n) = 1
        BY <2>1, BaseFacts
      <4>2. x = 0
        BY <2>1, ExactlyZero
      <4>3. y = 0
        BY <4>1
      <4>4. Base(1) = B /\ B >= 2 /\ B \in Nat
        BY BaseFacts, Zenon
      <4> QED
        BY <4>2, <4>3, <4>4
    <3>2. x + y < B
      BY <3>1
    <3> QED
      BY <2>1, <3>1, <3>2
  <2>2. CASE n >= 1
    <3>1. PICK a \in Nat, b \in Nat : /\ b = Base(n - 1) /\ a = Base(n) /\ b <= x /\ x < a
                                      /\ B * a = Base(n + 1) /\ B >= 2 /\ B \in Nat
      BY <2>2, Limbs3
    <3>2. B * a >= 2 * a
      <4>1. \A p, q, t \in Nat : p >= q => p * t >= q * t
        OBVIOUS
      <4> QED
        BY <3>1, <4>1
    <3>3. (n + 1) - 2 = n - 1
      OBVIOUS
    <3>4. B * a \in Nat
      BY <3>1
    <3>5. PICK d \in Nat : d = B * a
      BY <3>4
    <3>6. x + y < d /\ x + y >= b
      BY <3>1, <3>2, <3>5
    <3> QED
      BY <3>1, <3>3, <3>5, <3>6
  <2> QED
    BY <2>1, <2>2
<1>2. n + 1 \in Nat /\ n + 1 >= 1 /\ x + y \in Nat
  OBVIOUS
<1> QED
  BY <1>1, <1>2, LessTopExactly

\* Less a limb.
LEMMA LimbLessLimbs ==
  ASSUME NEW n \in Nat, n >= 1, NEW x \in Nat, Exactly(n, x), NEW k \in Nat, k < B, k <= x \/ n >= 2
  PROVE  /\ x - k \in Nat /\ x - k < Base(n)
         /\ LessTop(n, x - k) \in 0 .. n /\ Exactly(LessTop(n, x - k), x - k)
<1>1. PICK a \in Nat, b \in Nat : b = Base(n - 1) /\ a = Base(n) /\ b <= x /\ x < a /\ B >= 2 /\ B \in Nat
  BY Limbs3
<1>2. n >= 2 => b - (B - 1) >= Base(n - 2) /\ Base(n - 2) \in Nat /\ Base(n - 2) >= 1
  <2> SUFFICES ASSUME n >= 2 PROVE b - (B - 1) >= Base(n - 2) /\ Base(n - 2) \in Nat /\ Base(n - 2) >= 1
    OBVIOUS
  <2>1. PICK i \in Nat : i = n - 2 /\ i + 1 = n - 1
    OBVIOUS
  <2>2. PICK e \in Nat : e = Base(i) /\ e >= 1 /\ Base(i + 1) = B * e
    BY BaseFacts, Zenon
  <2>3. b = B * e
    BY <1>1, <2>1, <2>2
  <2>4. PICK j \in Nat, t \in Nat : e = 1 + j /\ B = 2 + t
    <3>1. e - 1 \in Nat /\ e = 1 + (e - 1) /\ B - 2 \in Nat /\ B = 2 + (B - 2)
      BY <1>1, <2>2
    <3> QED
      BY <3>1, Zenon
  <2>5. (2 + t) * (1 + j) = 2 + t + 2 * j + t * j /\ t * j >= 0 /\ t * j \in Nat
    OBVIOUS
  <2>6. PICK d \in Nat : d = t * j
    BY <2>5
  <2>7. b = 2 + t + 2 * j + d
    BY <2>3, <2>4, <2>5, <2>6
  <2>8. b - (B - 1) >= e
    BY <2>4, <2>7
  <2> QED
    BY <2>1, <2>2, <2>8
<1>3. x - k \in Nat /\ x - k < a /\ (n >= 2 => x - k >= Base(n - 2))
  <2>1. CASE n >= 2
    <3>1. PICK e \in Nat : e = Base(n - 2) /\ b - (B - 1) >= e
      BY <1>2, <2>1
    <3>2. x - k >= e
      BY <1>1, <3>1
    <3> QED
      BY <1>1, <3>1, <3>2
  <2>2. CASE n < 2
    BY <1>1, <2>2
  <2> QED
    BY <2>1, <2>2
<1>4. x - k < Base(n)
  BY <1>1, <1>3
<1> QED
  BY <1>3, <1>4, LessTopExactly

\* Products.
LEMMA ProductLimbs ==
  ASSUME NEW m \in Nat, m >= 1, NEW n \in Nat, n >= 1, NEW x \in Nat, Exactly(m, x), NEW y \in Nat, Exactly(n, y)
  PROVE  /\ x * y \in Nat /\ x * y < Base(m + n) /\ x * y >= 1
         /\ LessTop(m + n, x * y) \in 0 .. m + n /\ Exactly(LessTop(m + n, x * y), x * y)
         /\ LessTop(m + n, x * y) >= m + n - 1
<1>1. PICK a \in Nat, b \in Nat : b >= 1 /\ b = Base(m - 1) /\ a = Base(m) /\ b <= x /\ x < a
  BY Limbs3
<1>2. PICK d \in Nat, e \in Nat : e >= 1 /\ e = Base(n - 1) /\ d = Base(n) /\ e <= y /\ y < d
  BY Limbs3
<1>3. \A p, q, r, s \in Nat : /\ (p < q /\ r < s => p * r < q * s)
                              /\ (p <= q /\ r <= s => p * r <= q * s)
  OBVIOUS
<1>4. x * y \in Nat /\ a * d \in Nat /\ b * e \in Nat
  OBVIOUS
<1>5. PICK z \in Nat, hi \in Nat, lo \in Nat : z = x * y /\ hi = a * d /\ lo = b * e
  BY <1>4
<1>6. z < hi /\ lo <= z
  BY <1>1, <1>2, <1>3, <1>5
<1>7. lo >= 1
  <2>1. 1 * 1 <= b * e
    BY <1>1, <1>2, <1>3
  <2> QED
    BY <1>5, <2>1
<1>8. Base(m + n) = hi
  BY <1>1, <1>2, <1>5, BaseFacts
<1>9. Base((m + n) - 2) = lo
  <2>1. m - 1 \in Nat /\ n - 1 \in Nat /\ (m - 1) + (n - 1) = (m + n) - 2
    OBVIOUS
  <2>2. Base((m - 1) + (n - 1)) = Base(m - 1) * Base(n - 1)
    BY <2>1, BaseFacts
  <2> QED
    BY <1>1, <1>2, <1>5, <2>1, <2>2
<1>10. m + n \in Nat /\ m + n >= 1 /\ z < Base(m + n) /\ z >= Base((m + n) - 2)
  BY <1>6, <1>8, <1>9
<1>11. LessTop(m + n, z) \in 0 .. m + n /\ Exactly(LessTop(m + n, z), z)
  BY <1>10, LessTopExactly
<1>12. LessTop(m + n, z) >= m + n - 1
  BY LessTopType
<1> QED
  BY <1>5, <1>6, <1>7, <1>10, <1>11, <1>12

\* A product with a limb.
LEMMA LimbTimesLimbs ==
  ASSUME NEW n \in Nat, n >= 1, NEW x \in Nat, Exactly(n, x), NEW k \in Nat, k >= 1, k < B
  PROVE  /\ x * k \in Nat /\ x * k < Base(n + 1) /\ x * k >= 1
         /\ LessTop(n + 1, x * k) \in 0 .. n + 1 /\ Exactly(LessTop(n + 1, x * k), x * k)
<1>1. Exactly(1, k) /\ 1 \in Nat /\ 1 >= 1
  <2>1. Base(1) = B /\ Base(1 - 1) = 1
    <3>1. 1 - 1 = 0
      OBVIOUS
    <3> QED
      BY <3>1, BaseFacts
  <2> QED
    BY <2>1 DEF Exactly
<1> QED
  BY <1>1, ProductLimbs

\* A limb.
LEMMA OneLimb ==
  ASSUME NEW k \in Nat, k < B
  PROVE  /\ k < Base(1)
         /\ Exactly(IF k = 0 THEN 0 ELSE 1, k) /\ (IF k = 0 THEN 0 ELSE 1) \in 0 .. 1
<1>1. Base(1) = B /\ Base(1 - 1) = 1 /\ Base(0) = 1
  <2>1. 1 - 1 = 0
    OBVIOUS
  <2> QED
    BY <2>1, BaseFacts
<1>2. CASE k = 0
  <2>1. Exactly(0, 0)
    BY <1>1 DEF Exactly
  <2> QED
    BY <1>1, <1>2, <2>1
<1>3. CASE k # 0
  <2>1. Exactly(1, k)
    BY <1>1, <1>3 DEF Exactly
  <2> QED
    BY <1>1, <1>3, <2>1
<1> QED
  BY <1>2, <1>3

-----------------------------------------------------------------------------
(* What a function knows of its operand when it computes.                   *)

\* The limb argument.
LEMMA LimbArgument ==
  ASSUME Good, todo # <<>>
  PROVE  /\ c.k \in Nat
         /\ c.fn \in Calculator!UiFns \cup Calculator!DivUiFns \cup {"set_ui", "set_si"} => c.k < B
<1>1. c = todo[1] /\ 1 \in 1 .. Len(todo)
  BY Arguments DEF Good
<1>2. TaskOK(todo[1])
  BY <1>1 DEF Good, Contents, TasksOK
<1> QED
  BY <1>1, <1>2 DEF TaskOK

\* A variable's limbs and its value.
LEMMA VariableReads ==
  ASSUME Good, NEW x \in Usable, ~Renewed(x)
  PROVE  \E s \in Int, n \in Nat, m \in Nat :
           /\ s = Size(x) /\ s = var[x].size /\ n = Abs(s) /\ m = Read(var[x].d, n) /\ Exactly(n, m)
           /\ (n = 0 <=> m = 0) /\ (s = 0 <=> n = 0)
           /\ ValueOf(x) = Signed(s < 0, m) /\ ValueOf(x) \in Int /\ Abs(ValueOf(x)) = m
           /\ (ValueOf(x) < 0 <=> s < 0) /\ (ValueOf(x) = 0 <=> s = 0)
           /\ (s >= 0 => s = n /\ ValueOf(x) = m) /\ (s < 0 => s = -n /\ ValueOf(x) = -m)
<1>1. NumberAt(var[x].d, Size(x))
  BY HasNumber
<1>2. PICK s \in Int, n \in Nat, m \in Nat :
        /\ s = Size(x) /\ n = Abs(s) /\ m = Read(var[x].d, n) /\ Exactly(n, m)
        /\ ValueOf(x) = Signed(s < 0, m) /\ ValueOf(x) \in Int /\ Abs(ValueOf(x)) = m
        /\ (ValueOf(x) < 0 <=> s < 0) /\ (ValueOf(x) = 0 <=> s = 0)
  BY <1>1, Holds DEF Good, Contents
<1>3. n = 0 <=> m = 0
  BY <1>2, ExactlyZero
<1>4. (s = 0 <=> n = 0) /\ (s >= 0 => s = n) /\ (s < 0 => s = -n)
  BY <1>2 DEF Abs
<1>5. (s >= 0 => ValueOf(x) = m) /\ (s < 0 => ValueOf(x) = -m)
  BY <1>2 DEF Abs
<1>6. s = var[x].size
  BY <1>2 DEF Size
<1> QED
  BY <1>2, <1>3, <1>4, <1>5, <1>6

\* Functions of one operand have its size and its limbs.
LEMMA OperandReads ==
  ASSUME Good, pc = "compute", c.fn \in Calculator!OneOperand
  PROVE  \E s \in Int, n \in Nat, m \in Nat :
           /\ s = loc.us /\ n = Abs(loc.us) /\ n = Abs(s) /\ m = Read(loc.up, n) /\ Exactly(n, m)
           /\ s = Size(c.u) /\ loc.up = var[c.u].d
           /\ (n = 0 <=> m = 0) /\ (s = 0 <=> n = 0)
           /\ ValueOf(c.u) = Signed(s < 0, m) /\ ValueOf(c.u) \in Int /\ Abs(ValueOf(c.u)) = m
           /\ (ValueOf(c.u) < 0 <=> s < 0) /\ (ValueOf(c.u) = 0 <=> s = 0)
           /\ (s >= 0 => s = n /\ ValueOf(c.u) = m) /\ (s < 0 => s = -n /\ ValueOf(c.u) = -m)
<1>1. Points(loc.us, loc.up, c.u)
  BY DEF Good, Contents, LocalsOK, OneNoted
<1>2. c.u \in Usable /\ ~Renewed(c.u)
  <2>1. c.fn # "mul"
    BY DEF Calculator!OneOperand, Calculator!UnaryFns, Calculator!UiFns, Calculator!DivUiFns,
           Calculator!ShiftFns, Calculator!QuotUiFns, Calculator!RemUiFns, Calculator!QuotRemUiFns, Calculator!OnlyUiFns
  <2> QED
    BY <2>1, UsableArguments DEF Good, Renewed
<1>3. \E s \in Int, n \in Nat, m \in Nat :
           /\ s = Size(c.u) /\ s = var[c.u].size /\ n = Abs(s) /\ m = Read(var[c.u].d, n) /\ Exactly(n, m)
           /\ (n = 0 <=> m = 0) /\ (s = 0 <=> n = 0)
           /\ ValueOf(c.u) = Signed(s < 0, m) /\ ValueOf(c.u) \in Int /\ Abs(ValueOf(c.u)) = m
           /\ (ValueOf(c.u) < 0 <=> s < 0) /\ (ValueOf(c.u) = 0 <=> s = 0)
           /\ (s >= 0 => s = n /\ ValueOf(c.u) = m) /\ (s < 0 => s = -n /\ ValueOf(c.u) = -m)
  BY <1>2, VariableReads
<1> QED
  BY <1>1, <1>3 DEF Points

\* The destination when they compute.
LEMMA Destination ==
  ASSUME Good, pc = "compute"
  PROVE  /\ loc.wp = var[c.w].d /\ Needed <= var[c.w].alloc /\ var[c.w].alloc \in Nat /\ var[c.w].alloc >= 1
         /\ c.w \in Usable /\ c.w \in Var /\ todo # <<>>
<1>1. Needed <= var[c.w].alloc /\ var[c.w].alloc \in Nat /\ var[c.w].alloc >= 1 /\ c.w \in Var
  BY ComputeSays DEF Good
<1>2. loc.wp = var[c.w].d
  BY DEF Good, Bounds, PointersLive
<1>3. todo # <<>>
  BY DEF Good, IInv, Control
<1>4. c.w \in Usable
  BY UsableArguments DEF Good
<1> QED
  BY <1>1, <1>2, <1>3, <1>4

-----------------------------------------------------------------------------
(* Functions of one operand make room.                                      *)

\* A function of one operand that has made room, and noted its operand, may compute.
LEMMA NotesContents ==
  ASSUME Good, pc = "enter", c.fn \in Calculator!OneOperand, c.fn # "tdiv_r_2exp",
         c.fn \in Calculator!DivUiFns \cup AorsUiFns \cup {"mul_ui", "mul_si"} => c.k # 0 /\ Size(c.u) # 0,
         c.fn = "mul_2exp" => Size(c.u) # 0,
         Carries, NoteOperand, Goto("compute"), UNCHANGED calls
  PROVE  Contents'
<1>1. c' = c /\ pc' = "compute"
  BY DEF Goto, c
<1>2. loc'.us = Size(c.u) /\ loc'.up = var'[c.u].d
  BY DEF NoteOperand, Notes
<1>3. Size(c.u)' = Size(c.u)
  <2>1. c.u \in Usable
    BY UsableArguments DEF Good
  <2> QED
    BY <1>1, <2>1 DEF Carries, Kept, Size
<1>4. c.fn \notin {"tdiv_qr", "tdiv_q", "tdiv_r", "add", "sub", "mul"} \cup AorsFns \cup BitFn
  BY DEF Calculator!OneOperand, Calculator!UnaryFns, Calculator!UiFns, Calculator!DivUiFns, AorsFns, BitFn,
         Calculator!ShiftFns, Calculator!QuotUiFns, Calculator!RemUiFns, Calculator!QuotRemUiFns, Calculator!OnlyUiFns
<1>5. DivisionNoted' /\ BitsNoted' /\ ProductNoted' /\ SumNoted'
  BY <1>1, <1>4 DEF DivisionNoted, BitsNoted, ProductNoted, SumNoted
<1>6. OneNoted'
  BY <1>1, <1>2, <1>3 DEF OneNoted, Points
<1>7. LocalsOK'
  BY <1>5, <1>6 DEF LocalsOK
<1> QED
  BY <1>7, CarriesContents

LEMMA UiGrowContents ==
  ASSUME Good, UiGrow
  PROVE  Contents'
<1>1. c.w \in Var /\ Abs(Size(c.u)) + 1 \in Nat
  BY Running DEF Good, UiGrow, At
<1>2. Carries
  BY <1>1, GrowCarries DEF Good, Contents, UiGrow
<1> QED
  BY <1>2, NotesContents DEF UiGrow, At, Calculator!OneOperand, Calculator!UiFns, Calculator!DivUiFns, AorsUiFns,
         Calculator!QuotUiFns, Calculator!RemUiFns, Calculator!QuotRemUiFns, Calculator!OnlyUiFns

LEMMA SetGrowContents ==
  ASSUME Good, SetGrow
  PROVE  Contents'
<1>1. c.w \in Var /\ Abs(Size(c.u)) \in Nat
  BY Running DEF Good, SetGrow, At
<1>2. Carries
  BY <1>1, GrowCarries DEF Good, Contents, SetGrow
<1> QED
  BY <1>2, NotesContents DEF SetGrow, At, Calculator!OneOperand, Calculator!UnaryFns, Calculator!DivUiFns, AorsUiFns,
         Calculator!QuotUiFns, Calculator!RemUiFns, Calculator!QuotRemUiFns, Calculator!OnlyUiFns

LEMMA MulUiGrowContents ==
  ASSUME Good, MulUiGrow
  PROVE  Contents'
<1>1. c.w \in Var /\ Abs(Size(c.u)) + 1 \in Nat
  BY Running DEF Good, MulUiGrow, At
<1>2. Carries
  BY <1>1, GrowCarries DEF Good, Contents, MulUiGrow
<1> QED
  BY <1>2, NotesContents DEF MulUiGrow, At, Calculator!OneOperand, Calculator!UiFns

LEMMA Aorsmul1GrowContents ==
  ASSUME Good, Aorsmul1Grow
  PROVE  Contents'
<1>1. c.w \in Var /\ MaxOf(Abs(Size(c.w)), Abs(Size(c.u))) + 1 \in Nat
  <2>1. c.w \in Var /\ Abs(Size(c.w)) \in Nat /\ Abs(Size(c.u)) \in Nat
    BY Running DEF Good, Aorsmul1Grow, At
  <2> QED
    BY <2>1 DEF MaxOf
<1>2. Carries
  BY <1>1, GrowCarries DEF Good, Contents, Aorsmul1Grow
<1> QED
  BY <1>2, NotesContents DEF Aorsmul1Grow, At, AorsUiFns, Calculator!OneOperand, Calculator!UiFns

LEMMA UiSubGrowContents ==
  ASSUME Good, UiSubGrow
  PROVE  Contents'
<1>1. c.w \in Var /\ Size(c.u) \in Int
  BY Running DEF Good, UiSubGrow, At
<1>2. Carries
  <2>1. CASE Size(c.u) > 1
    BY <1>1, <2>1, GrowCarries DEF Good, Contents, UiSubGrow
  <2>2. CASE Size(c.u) < 0
    <3>1. -Size(c.u) + 1 \in Nat /\ ~ (Size(c.u) > 1)
      BY <1>1, <2>2
    <3> QED
      BY <1>1, <2>2, <3>1, GrowCarries DEF Good, Contents, UiSubGrow
  <2>3. CASE ~ (Size(c.u) > 1) /\ ~ (Size(c.u) < 0)
    BY <2>3, SameCarries DEF Good, Contents, UiSubGrow, SameValue
  <2> QED
    BY <2>1, <2>2, <2>3
<1> QED
  BY <1>2, NotesContents DEF UiSubGrow, At, Calculator!OneOperand, Calculator!UiFns, Calculator!DivUiFns, AorsUiFns,
         Calculator!QuotUiFns, Calculator!RemUiFns, Calculator!QuotRemUiFns, Calculator!OnlyUiFns

LEMMA AbsGrowContents ==
  ASSUME Good, AbsGrow
  PROVE  Contents'
<1>1. c.w \in Var /\ Abs(Size(c.u)) \in Nat
  BY Running DEF Good, AbsGrow, At
<1>2. Carries
  <2>1. CASE c.u = c.w
    BY <2>1, SameCarries DEF Good, Contents, AbsGrow, SameValue
  <2>2. CASE c.u # c.w
    BY <1>1, <2>2, GrowCarries DEF Good, Contents, AbsGrow
  <2> QED
    BY <2>1, <2>2
<1> QED
  BY <1>2, NotesContents DEF AbsGrow, At, Calculator!OneOperand, Calculator!UnaryFns, Calculator!DivUiFns, AorsUiFns,
         Calculator!QuotUiFns, Calculator!RemUiFns, Calculator!QuotRemUiFns, Calculator!OnlyUiFns

LEMMA ComGrowContents ==
  ASSUME Good, ComGrow
  PROVE  Contents'
<1>1. c.w \in Var /\ Abs(Size(c.u)) + (IF Size(c.u) >= 0 THEN 1 ELSE 0) \in Nat
  BY Running DEF Good, ComGrow, At
<1>2. Carries
  BY <1>1, GrowCarries DEF Good, Contents, ComGrow
<1> QED
  BY <1>2, NotesContents DEF ComGrow, At, Calculator!OneOperand, Calculator!UnaryFns, Calculator!DivUiFns, AorsUiFns,
         Calculator!QuotUiFns, Calculator!RemUiFns, Calculator!QuotRemUiFns, Calculator!OnlyUiFns

LEMMA Mul2expGrowContents ==
  ASSUME Good, Mul2expGrow
  PROVE  Contents'
<1>1. c.w \in Var /\ Abs(Size(c.u)) + LimbCnt + 1 \in Nat
  <2>1. LimbCnt \in Nat
    BY LimbCntType DEF Good, Mul2expGrow, At, AorsUiFns
  <2> QED
    BY <2>1, Running DEF Good, Mul2expGrow, At
<1>2. Carries
  BY <1>1, GrowCarries DEF Good, Contents, Mul2expGrow
<1> QED
  BY <1>2, NotesContents DEF Mul2expGrow, At, Calculator!OneOperand, Calculator!ShiftFns, Calculator!DivUiFns, AorsUiFns,
         Calculator!QuotUiFns, Calculator!RemUiFns, Calculator!QuotRemUiFns, Calculator!OnlyUiFns

LEMMA TdivQ2expGrowContents ==
  ASSUME Good, TdivQ2expGrow
  PROVE  Contents'
<1>1. c.w \in Var /\ Abs(Size(c.u)) - LimbCnt \in Nat
  <2>1. LimbCnt \in Nat
    BY LimbCntType DEF Good, TdivQ2expGrow, At, AorsUiFns
  <2> QED
    BY <2>1, Running DEF Good, TdivQ2expGrow, At
<1>2. Carries
  BY <1>1, GrowCarries DEF Good, Contents, TdivQ2expGrow
<1> QED
  BY <1>2, NotesContents DEF TdivQ2expGrow, At, Calculator!OneOperand, Calculator!ShiftFns, Calculator!DivUiFns, AorsUiFns,
         Calculator!QuotUiFns, Calculator!RemUiFns, Calculator!QuotRemUiFns, Calculator!OnlyUiFns

LEMMA CfdivQ2expGrowContents ==
  ASSUME Good, CfdivQ2expGrow
  PROVE  Contents'
<1>1. c.w \in Var /\ Abs(Size(c.u)) - LimbCnt + 1 \in Nat
  <2>1. LimbCnt \in Nat
    BY LimbCntType DEF Good, CfdivQ2expGrow, At, AorsUiFns
  <2> QED
    BY <2>1, Running DEF Good, CfdivQ2expGrow, At
<1>2. Carries
  BY <1>1, GrowCarries DEF Good, Contents, CfdivQ2expGrow
<1> QED
  BY <1>2, NotesContents DEF CfdivQ2expGrow, At, Calculator!OneOperand, Calculator!ShiftFns, Calculator!DivUiFns, AorsUiFns,
         Calculator!QuotUiFns, Calculator!RemUiFns, Calculator!QuotRemUiFns, Calculator!OnlyUiFns

LEMMA CfdivR2expGrowContents ==
  ASSUME Good, CfdivR2expGrow
  PROVE  Contents'
<1>1. c.w \in Var /\ Abs(Size(c.u)) \in Nat /\ LimbCnt + 1 \in Nat
  <2>1. LimbCnt \in Nat
    BY LimbCntType DEF Good, CfdivR2expGrow, At, AorsUiFns, CfdivR
  <2> QED
    BY <2>1, Running DEF Good, CfdivR2expGrow, At
<1>2. Carries
  <2>1. \/ \E n \in Nat : Grow(c.w, n)
        \/ UNCHANGED <<heap, var>>
    BY <1>1 DEF CfdivR2expGrow
  <2> QED
    BY <1>1, <2>1, GrowCarries, SameCarries DEF Good, Contents
<1> QED
  BY <1>2, NotesContents DEF CfdivR2expGrow, At, CfdivR, Calculator!OneOperand, Calculator!ShiftFns, Calculator!DivUiFns, AorsUiFns,
         Calculator!QuotUiFns, Calculator!RemUiFns, Calculator!QuotRemUiFns, Calculator!OnlyUiFns

LEMMA UiDivGrowContents ==
  ASSUME Good, UiDivGrow
  PROVE  Contents'
<1>1. c.w \in Var /\ Abs(Size(c.u)) \in Nat
  BY Running DEF Good, UiDivGrow, At
<1>2. Carries
  BY <1>1, GrowCarries, SameCarries DEF Good, Contents, UiDivGrow
<1> QED
  BY <1>2, NotesContents DEF UiDivGrow, At, Calculator!OneOperand, Calculator!DivUiFns,
         Calculator!QuotUiFns, Calculator!RemUiFns, Calculator!QuotRemUiFns, Calculator!OnlyUiFns

-----------------------------------------------------------------------------
(* Results: sums.                                                           *)

\* n limbs of x go to the destination, of which the low m count.
Wrote(n, x, negative, m) ==
  heap' = Written(heap, loc.wp, n, x) /\ SetSize(c.w, negative, m) /\ Finish /\ UNCHANGED calls

\* A function that ends with such a write keeps the contents.
LEMMA WroteContents ==
  ASSUME Good, pc = "compute", NEW n \in Nat, n <= var[c.w].alloc, NEW x \in Nat, x < Base(n),
         NEW m \in 0 .. n, Exactly(m, x), NEW negative \in BOOLEAN, Wrote(n, x, negative, m)
  PROVE  Gives(c.w, Signed(negative, x)) /\ Contents'
<1>1. PICK p : p = loc.wp /\ p = var[c.w].d
  BY Destination
<1>2. heap' = Written(heap, p, n, x) /\ SetSize(c.w, negative, m) /\ Finish /\ UNCHANGED calls
  BY <1>1 DEF Wrote
<1>3. m \in Nat /\ m <= n
  OBVIOUS
<1> QED
  BY <1>1, <1>2, <1>3, WritesContents

\* Signs as truth values.
LEMMA SignIs ==
  ASSUME NEW x \in Int
  PROVE  \E negative \in BOOLEAN : negative = (x < 0)
<1>1. CASE x < 0
  <2>1. TRUE = (x < 0) /\ TRUE \in BOOLEAN
    BY <1>1
  <2> QED
    BY <2>1, Zenon
<1>2. CASE ~ (x < 0)
  <2>1. FALSE = (x < 0) /\ FALSE \in BOOLEAN
    BY <1>2
  <2> QED
    BY <2>1, Zenon
<1> QED
  BY <1>1, <1>2

\* A number with its sign, for each sign.
LEMMA SignedIs == \A x : Signed(TRUE, x) = -x /\ Signed(FALSE, x) = x
BY DEF Signed

\* The same, for a sign that is computed.
LEMMA SignedOf ==
  ASSUME NEW negative \in BOOLEAN, NEW x
  PROVE  (negative => Signed(negative, x) = -x) /\ (~negative => Signed(negative, x) = x)
<1>1. CASE negative = TRUE
  BY <1>1, SignedIs, Zenon
<1>2. CASE negative = FALSE
  BY <1>2, SignedIs, Zenon
<1> QED
  BY <1>1, <1>2, Zenon

\* The operands of a sum, longer one first: what is noted of them adds up to it.
LEMMA SumOperands ==
  ASSUME Good, pc = "compute", c.fn \in {"add", "sub"}
  PROVE  \E us \in Int, vs \in Int, n \in Nat, m \in Nat, a \in Nat, b \in Nat :
           /\ us = loc.us /\ vs = loc.vs /\ n = Abs(loc.us) /\ m = Abs(loc.vs)
           /\ a = Read(loc.up, n) /\ b = Read(loc.vp, m) /\ Exactly(n, a) /\ b < Base(n)
           /\ (IF us < 0 THEN -a ELSE a) + (IF vs < 0 THEN -b ELSE b)
                = IF c.fn = "sub" THEN ValueOf(c.u) - ValueOf(c.v) ELSE ValueOf(c.u) + ValueOf(c.v)
<1>1. c.u \in Usable /\ c.v \in Usable /\ ~Renewed(c.u) /\ ~Renewed(c.v)
  BY UsableArguments DEF Good, Renewed
<1>2. PICK su \in Int, nu \in Nat, mu \in Nat :
        /\ su = Size(c.u) /\ nu = Abs(su) /\ mu = Read(var[c.u].d, nu) /\ Exactly(nu, mu)
        /\ (nu = 0 <=> mu = 0) /\ (su = 0 <=> nu = 0)
        /\ (su >= 0 => su = nu /\ ValueOf(c.u) = mu) /\ (su < 0 => su = -nu /\ ValueOf(c.u) = -mu)
  BY <1>1, VariableReads
<1>3. PICK sv \in Int, nv \in Nat, mv \in Nat :
        /\ sv = Size(c.v) /\ nv = Abs(sv) /\ mv = Read(var[c.v].d, nv) /\ Exactly(nv, mv)
        /\ (nv = 0 <=> mv = 0) /\ (sv = 0 <=> nv = 0)
        /\ (sv >= 0 => sv = nv /\ ValueOf(c.v) = mv) /\ (sv < 0 => sv = -nv /\ ValueOf(c.v) = -mv)
  BY <1>1, VariableReads
<1>4. PICK t \in Int : /\ t = (IF c.fn = "sub" THEN -Size(c.v) ELSE Size(c.v)) /\ Abs(t) = nv
                       /\ t = IF c.fn = "sub" THEN -sv ELSE sv
  <2>1. PICK t \in Int : t = IF c.fn = "sub" THEN -sv ELSE sv
    OBVIOUS
  <2>2. Abs(t) = nv
    BY <1>3, <2>1 DEF Abs
  <2> QED
    BY <1>3, <2>1, <2>2
<1>5. PICK i \in Int, j \in Int :
        /\ i = ValueOf(c.u) /\ i = (IF su < 0 THEN -mu ELSE mu)
        /\ j = (IF t < 0 THEN -mv ELSE mv)
        /\ i + j = IF c.fn = "sub" THEN ValueOf(c.u) - ValueOf(c.v) ELSE ValueOf(c.u) + ValueOf(c.v)
  <2>1. PICK i \in Int, j \in Int : i = (IF su < 0 THEN -mu ELSE mu) /\ j = (IF t < 0 THEN -mv ELSE mv)
    OBVIOUS
  <2>2. i = ValueOf(c.u)
    BY <1>2, <2>1
  <2>3. j = IF c.fn = "sub" THEN -ValueOf(c.v) ELSE ValueOf(c.v)
    <3>1. CASE sv < 0
      BY <1>3, <1>4, <2>1, <3>1
    <3>2. CASE sv = 0
      BY <1>3, <1>4, <2>1, <3>2
    <3>3. CASE sv > 0
      BY <1>3, <1>4, <2>1, <3>3
    <3> QED
      BY <3>1, <3>2, <3>3
  <2>4. ValueOf(c.v) \in Int
    BY <1>3
  <2> QED
    BY <2>1, <2>2, <2>3, <2>4
<1>6. loc = AorsLoc(var)
  BY DEF Good, Contents, LocalsOK, SumNoted
<1>7. CASE nu < nv
  <2>1. loc.us = t /\ loc.vs = su /\ loc.up = var[c.v].d /\ loc.vp = var[c.u].d
    BY <1>2, <1>4, <1>6, <1>7 DEF AorsLoc, Notes
  <2>2. mu < Base(nv)
    <3>1. Base(nu) <= Base(nv) /\ Base(nu) \in Nat /\ Base(nv) \in Nat
      <4>1. nu <= nv
        BY <1>7
      <4> QED
        BY <4>1, BaseFacts, Zenon
    <3> QED
      BY <1>2, <3>1 DEF Exactly
  <2>3. (IF t < 0 THEN -mv ELSE mv) + (IF su < 0 THEN -mu ELSE mu)
          = IF c.fn = "sub" THEN ValueOf(c.u) - ValueOf(c.v) ELSE ValueOf(c.u) + ValueOf(c.v)
    BY <1>5
  <2>4. /\ t = loc.us /\ su = loc.vs /\ nv = Abs(loc.us) /\ nu = Abs(loc.vs)
        /\ mv = Read(loc.up, nv) /\ mu = Read(loc.vp, nu) /\ Exactly(nv, mv) /\ mu < Base(nv)
    BY <1>2, <1>3, <1>4, <2>1, <2>2
  <2> QED
    BY <2>3, <2>4, Zenon
<1>8. CASE ~ (nu < nv)
  <2>1. loc.us = su /\ loc.vs = t /\ loc.up = var[c.u].d /\ loc.vp = var[c.v].d
    BY <1>2, <1>4, <1>6, <1>8 DEF AorsLoc, Notes
  <2>2. mv < Base(nu)
    <3>1. Base(nv) <= Base(nu) /\ Base(nu) \in Nat /\ Base(nv) \in Nat
      <4>1. nv <= nu
        BY <1>8
      <4> QED
        BY <4>1, BaseFacts, Zenon
    <3> QED
      BY <1>3, <3>1 DEF Exactly
  <2>3. (IF su < 0 THEN -mu ELSE mu) + (IF t < 0 THEN -mv ELSE mv)
          = IF c.fn = "sub" THEN ValueOf(c.u) - ValueOf(c.v) ELSE ValueOf(c.u) + ValueOf(c.v)
    BY <1>5
  <2>4. /\ su = loc.us /\ t = loc.vs /\ nu = Abs(loc.us) /\ nv = Abs(loc.vs)
        /\ mu = Read(loc.up, nu) /\ mv = Read(loc.vp, nv) /\ Exactly(nu, mu) /\ mv < Base(nu)
    BY <1>2, <1>3, <1>4, <2>1, <2>2
  <2> QED
    BY <2>3, <2>4, Zenon
<1> QED
  BY <1>7, <1>8

\* The sum or the difference.
AorsValue == IF c.fn = "sub" THEN ValueOf(c.u) - ValueOf(c.v) ELSE ValueOf(c.u) + ValueOf(c.v)

LEMMA AorsAddContents ==
  ASSUME Good, AorsAdd
  PROVE  Gives(c.w, AorsValue) /\ Contents'
<1>1. pc = "compute" /\ c.fn \in {"add", "sub"} /\ Finish /\ UNCHANGED calls /\ ~OppositeSigns(loc.us, loc.vs)
  BY DEF AorsAdd, At
<1>2. PICK us \in Int, vs \in Int, n \in Nat, m \in Nat, a \in Nat, b \in Nat :
        /\ us = loc.us /\ vs = loc.vs /\ n = Abs(loc.us) /\ m = Abs(loc.vs)
        /\ a = Read(loc.up, n) /\ b = Read(loc.vp, m) /\ Exactly(n, a) /\ b < Base(n)
        /\ (IF us < 0 THEN -a ELSE a) + (IF vs < 0 THEN -b ELSE b) = AorsValue
  BY <1>1, SumOperands DEF AorsValue
<1>3. n + 1 \in Nat /\ n + 1 <= var[c.w].alloc
  BY <1>1, <1>2, Destination, NeededHolds DEF NeededIs
<1>4. PICK x \in Nat : x = a + b
  OBVIOUS
<1>5. PICK k \in 0 .. n + 1 : k = LessTop(n + 1, x) /\ Exactly(k, x) /\ x < Base(n + 1)
  BY <1>2, <1>4, SumLimbs
<1>6. PICK negative \in BOOLEAN : negative = (us < 0)
  BY SignIs
<1>7. From(a, b, a + b) = x
  BY <1>4, FromNumbers
<1>8. Wrote(n + 1, x, negative, k)
  BY <1>1, <1>2, <1>5, <1>6, <1>7 DEF AorsAdd, Wrote
<1>9. Signed(negative, x) = AorsValue
  <2>1. us < 0 <=> vs < 0
    BY <1>1, <1>2 DEF OppositeSigns
  <2>2. CASE us < 0
    <3>1. negative
      BY <1>6, <2>2, Zenon
    <3>2. Signed(negative, x) = -x
      BY <3>1, SignedOf, Zenon
    <3>3. (-a) + (-b) = AorsValue
      BY <1>2, <2>1, <2>2
    <3> QED
      BY <1>4, <3>2, <3>3
  <2>3. CASE ~ (us < 0)
    <3>1. ~negative
      BY <1>6, <2>3, Zenon
    <3>2. Signed(negative, x) = x
      BY <3>1, SignedOf
    <3>3. a + b = AorsValue
      BY <1>2, <2>1, <2>3
    <3> QED
      BY <1>4, <3>2, <3>3
  <2> QED
    BY <2>2, <2>3
<1>10. Gives(c.w, Signed(negative, x)) /\ Contents'
  BY <1>1, <1>3, <1>5, <1>8, WroteContents
<1> QED
  BY <1>9, <1>10

LEMMA AorsSubContents ==
  ASSUME Good, AorsSub
  PROVE  Gives(c.w, AorsValue) /\ Contents'
<1>1. pc = "compute" /\ c.fn \in {"add", "sub"} /\ Finish /\ UNCHANGED calls /\ OppositeSigns(loc.us, loc.vs)
  BY DEF AorsSub, At
<1>2. PICK us \in Int, vs \in Int, n \in Nat, m \in Nat, a \in Nat, b \in Nat :
        /\ us = loc.us /\ vs = loc.vs /\ n = Abs(loc.us) /\ m = Abs(loc.vs)
        /\ a = Read(loc.up, n) /\ b = Read(loc.vp, m) /\ Exactly(n, a) /\ b < Base(n)
        /\ (IF us < 0 THEN -a ELSE a) + (IF vs < 0 THEN -b ELSE b) = AorsValue
  BY <1>1, SumOperands DEF AorsValue
<1>3. n <= var[c.w].alloc
  BY <1>1, <1>2, Destination, NeededHolds DEF NeededIs
<1>4. PICK x \in Nat : x = Abs(a - b) /\ x < Base(n) /\ (a < b => x = b - a) /\ (~ (a < b) => x = a - b)
  <2>1. a < Base(n) /\ Base(n) \in Nat
    BY <1>2, BaseFacts DEF Exactly
  <2> QED
    BY <1>2, <2>1 DEF Abs
<1>5. PICK k \in 0 .. n : k = Normalized(n, x) /\ Exactly(k, x)
  BY <1>4, NormalizedExactly
<1>6. PICK negative \in BOOLEAN : negative = (IF a < b THEN us >= 0 ELSE us < 0)
  <2>1. PICK s \in Int : s < 0 <=> (IF a < b THEN us >= 0 ELSE us < 0)
    <3>1. -1 \in Int /\ 0 \in Int /\ -1 < 0 /\ ~ (0 < 0)
      OBVIOUS
    <3> QED
      BY <3>1
  <2>2. PICK negative \in BOOLEAN : negative = (s < 0)
    BY SignIs
  <2>3. (s < 0) = (IF a < b THEN us >= 0 ELSE us < 0)
    BY <2>1
  <2> QED
    BY <2>2, <2>3, Zenon
<1>7. From(a, b, Abs(a - b)) = x /\ From(a, b, a < b) = (a < b)
  BY <1>4, FromNumbers
<1>8. Wrote(n, x, negative, k)
  BY <1>1, <1>2, <1>5, <1>6, <1>7, Zenon DEF AorsSub, Wrote
<1>9. Signed(negative, x) = AorsValue
  <2>1. us < 0 <=> ~ (vs < 0)
    BY <1>1, <1>2 DEF OppositeSigns
  <2>2. CASE (us < 0) = (a < b)
    <3>1. ~negative
      BY <1>6, <2>2
    <3>2. Signed(negative, x) = x
      BY <3>1, SignedOf
    <3>3. x = AorsValue
      BY <1>2, <1>4, <2>1, <2>2
    <3> QED
      BY <3>2, <3>3
  <2>3. CASE (us < 0) # (a < b)
    <3>1. negative
      BY <1>6, <2>3
    <3>2. Signed(negative, x) = -x
      BY <3>1, SignedOf, Zenon
    <3>3. -x = AorsValue
      BY <1>2, <1>4, <2>1, <2>3
    <3> QED
      BY <3>2, <3>3
  <2> QED
    BY <2>2, <2>3
<1>10. Gives(c.w, Signed(negative, x)) /\ Contents'
  BY <1>1, <1>3, <1>4, <1>5, <1>8, WroteContents
<1> QED
  BY <1>9, <1>10

-----------------------------------------------------------------------------
(* Results: limbs added, subtracted and multiplied by.                      *)

\* A limb is less than a number of limbs may be.
LEMMA LimbBelow ==
  ASSUME NEW k \in Nat, k < B, NEW n \in Nat, n >= 1
  PROVE  k < Base(n)
<1>1. Base(1) <= Base(n) /\ Base(1) = B /\ Base(n) \in Nat /\ B \in Nat
  BY BaseFacts, Zenon
<1> QED
  BY <1>1

LEMMA UiComputeContents ==
  ASSUME Good, UiCompute
  PROVE  Contents'
<1>1. pc = "compute" /\ c.fn \in {"add_ui", "sub_ui"} /\ Finish /\ UNCHANGED calls
  BY DEF UiCompute, At
<1>2. PICK s \in Int, n \in Nat, m \in Nat :
        s = loc.us /\ n = Abs(loc.us) /\ m = Read(loc.up, n) /\ Exactly(n, m) /\ (n = 0 <=> m = 0)
  <2>1. c.fn \in Calculator!OneOperand
    BY <1>1 DEF Calculator!OneOperand, Calculator!UiFns
  <2> QED
    BY <1>1, <2>1, OperandReads
<1>3. n + 1 \in Nat /\ n + 1 <= var[c.w].alloc /\ n <= var[c.w].alloc /\ 1 <= var[c.w].alloc
  BY <1>1, <1>2, Destination, NeededHolds DEF NeededIs
<1>4. PICK k \in Nat : k = c.k /\ k < B
  <2>1. todo # <<>> /\ c.fn \in Calculator!UiFns
    BY <1>1, Destination DEF Calculator!UiFns
  <2> QED
    BY <2>1, LimbArgument
<1>5. PICK sub \in BOOLEAN, add \in BOOLEAN : sub = UiNegative /\ add = ~UiNegative
  <2>1. UiNegative \in BOOLEAN /\ (~UiNegative) \in BOOLEAN
    BY DEF UiNegative
  <2> QED
    BY <2>1, Zenon
<1>6. CASE n = 0
  <2>1. PICK i \in 0 .. 1 : i = (IF k = 0 THEN 0 ELSE 1) /\ Exactly(i, k) /\ k < Base(1)
    BY <1>4, OneLimb
  <2>2. Wrote(1, k, sub, i)
    BY <1>1, <1>2, <1>4, <1>5, <1>6, <2>1 DEF UiCompute, Wrote
  <2>3. 1 \in Nat
    OBVIOUS
  <2> QED
    BY <1>1, <1>3, <2>1, <2>2, <2>3, WroteContents
<1>7. CASE n # 0 /\ (loc.us < 0) = UiNegative
  <2>1. k < Base(n)
    BY <1>4, <1>7, LimbBelow
  <2>2. PICK x \in Nat, i \in 0 .. n + 1 : x = m + k /\ i = LessTop(n + 1, x) /\ Exactly(i, x) /\ x < Base(n + 1)
    BY <1>2, <2>1, SumLimbs
  <2>3. From(m, m, m + k) = x
    BY <2>2, FromNumbers
  <2>4. Wrote(n + 1, x, sub, i)
    BY <1>1, <1>2, <1>4, <1>5, <1>7, <2>2, <2>3 DEF UiCompute, Wrote
  <2> QED
    BY <1>1, <1>3, <2>2, <2>4, WroteContents
<1>8. CASE n # 0 /\ (loc.us < 0) # UiNegative /\ n = 1 /\ m < k
  <2>1. PICK x \in Nat : x = k - m /\ x # 0 /\ x < B
    <3>1. k - m \in Nat /\ k - m # 0 /\ k - m < B /\ B \in Nat
      BY <1>4, <1>8, ZeroLimb
    <3> QED
      BY <3>1
  <2>2. Exactly(1, x) /\ x < Base(1)
    BY <2>1, OneLimb
  <2>3. From(m, m, m < k) = TRUE
    <3>1. From(m, m, m < k) = (m < k)
      BY FromNumbers
    <3> QED
      BY <1>8, <3>1, Zenon
  <2>4. Wrote(1, x, sub, 1)
    BY <1>1, <1>2, <1>4, <1>5, <1>8, <2>1, <2>3, Zenon DEF UiCompute, Wrote
  <2>5. 1 \in Nat /\ 1 \in 0 .. 1
    OBVIOUS
  <2> QED
    BY <1>1, <1>3, <2>2, <2>4, <2>5, WroteContents
<1>9. CASE n # 0 /\ (loc.us < 0) # UiNegative /\ ~ (n = 1 /\ m < k)
  <2>1. k <= m \/ n >= 2
    BY <1>9
  <2>2. PICK x \in Nat, i \in 0 .. n : x = m - k /\ i = LessTop(n, x) /\ Exactly(i, x) /\ x < Base(n)
    BY <1>2, <1>4, <1>9, <2>1, LimbLessLimbs
  <2>3. From(m, m, m - k) = x
    BY <2>2, FromNumbers
  <2>4. n = 1 => From(m, m, m < k) # TRUE
    <3>1. From(m, m, m < k) = (m < k)
      BY FromNumbers
    <3> QED
      BY <1>9, <3>1, Zenon
  <2>5. Wrote(n, x, add, i)
    BY <1>1, <1>2, <1>4, <1>5, <1>9, <2>2, <2>3, <2>4, Zenon DEF UiCompute, Wrote
  <2> QED
    BY <1>1, <1>3, <2>2, <2>5, WroteContents
<1> QED
  BY <1>6, <1>7, <1>8, <1>9

LEMMA MulUiContents ==
  ASSUME Good, MulUi
  PROVE  Contents'
<1>1. pc = "compute" /\ c.fn \in {"mul_ui", "mul_si"} /\ Finish /\ UNCHANGED calls
  BY DEF MulUi, At
<1>2. PICK s \in Int, n \in Nat, m \in Nat :
        s = loc.us /\ n = Abs(loc.us) /\ m = Read(loc.up, n) /\ Exactly(n, m) /\ (s = 0 <=> n = 0)
  <2>1. c.fn \in Calculator!OneOperand
    BY <1>1 DEF Calculator!OneOperand, Calculator!UiFns
  <2> QED
    BY <1>1, <2>1, OperandReads
<1>3. n + 1 \in Nat /\ n + 1 <= var[c.w].alloc
  BY <1>1, <1>2, Destination, NeededHolds DEF NeededIs
<1>4. PICK k \in Nat : k = c.k /\ k < B /\ k >= 1 /\ n >= 1
  <2>1. todo # <<>> /\ c.fn \in Calculator!UiFns
    BY <1>1, Destination DEF Calculator!UiFns
  <2>2. c.k # 0 /\ loc.us # 0
    BY <1>1 DEF Good, Contents, LocalsOK, OneNoted
  <2> QED
    BY <1>2, <2>1, <2>2, LimbArgument
<1>5. PICK negative \in BOOLEAN : negative = ((loc.us < 0) # (c.fn = "mul_si"))
  <2>1. ((loc.us < 0) # (c.fn = "mul_si")) \in BOOLEAN
    OBVIOUS
  <2> QED
    BY <2>1, Zenon
<1>6. PICK x \in Nat, i \in 0 .. n + 1 : x = m * k /\ i = LessTop(n + 1, x) /\ Exactly(i, x) /\ x < Base(n + 1)
  BY <1>2, <1>4, LimbTimesLimbs
<1>7. From(m, m, m * k) = x
  BY <1>6, FromNumbers
<1>8. Wrote(n + 1, x, negative, i)
  BY <1>1, <1>2, <1>4, <1>5, <1>6, <1>7 DEF MulUi, Wrote
<1> QED
  BY <1>1, <1>3, <1>6, <1>8, WroteContents

LEMMA UiSubContents ==
  ASSUME Good, UiSub
  PROVE  Contents'
<1>1. pc = "compute" /\ c.fn = "ui_sub" /\ Finish /\ UNCHANGED calls
  BY DEF UiSub, At
<1>2. PICK s \in Int, n \in Nat, m \in Nat :
        /\ s = loc.us /\ n = Abs(loc.us) /\ m = Read(loc.up, n) /\ Exactly(n, m) /\ (n = 0 <=> m = 0)
        /\ (s >= 0 => s = n) /\ (s < 0 => s = -n)
  <2>1. c.fn \in Calculator!OneOperand
    BY <1>1 DEF Calculator!OneOperand, Calculator!UiFns
  <2> QED
    BY <1>1, <2>1, OperandReads
<1>3. /\ n + 1 \in Nat /\ 1 <= var[c.w].alloc
      /\ s < 0 => n + 1 <= var[c.w].alloc
      /\ s >= 0 => n <= var[c.w].alloc
  BY <1>1, <1>2, Destination, NeededHolds DEF NeededIs, MaxOf
<1>4. PICK k \in Nat : k = c.k /\ k < B
  <2>1. todo # <<>> /\ c.fn \in Calculator!UiFns
    BY <1>1, Destination DEF Calculator!UiFns
  <2> QED
    BY <2>1, LimbArgument
<1>5. TRUE \in BOOLEAN /\ FALSE \in BOOLEAN
  OBVIOUS
<1>6. CASE s > 1
  <2>1. n >= 2
    BY <1>2, <1>6
  <2>2. PICK x \in Nat, i \in 0 .. n : x = m - k /\ i = LessTop(n, x) /\ Exactly(i, x) /\ x < Base(n)
    BY <1>2, <1>4, <2>1, LimbLessLimbs
  <2>3. From(m, m, m - k) = x
    BY <2>2, FromNumbers
  <2>4. Wrote(n, x, TRUE, i)
    BY <1>1, <1>2, <1>4, <1>6, <2>2, <2>3, Zenon DEF UiSub, Wrote
  <2>5. n <= var[c.w].alloc
    BY <1>3, <1>6
  <2> QED
    BY <1>1, <1>5, <2>2, <2>4, <2>5, WroteContents, Zenon
<1>7. CASE s \in {0, 1}
  <2>1. m < B
    <3>1. m < Base(n) /\ Base(0) = 1 /\ Base(1) = B /\ B \in Nat /\ B >= 2 /\ n \in {0, 1}
      BY <1>2, <1>7, ZeroLimb DEF Exactly
    <3> QED
      BY <3>1
  <2>2. PICK x \in Nat : x = Abs(k - m) /\ x < B
    <3>1. Abs(k - m) \in Nat /\ Abs(k - m) < B /\ B \in Nat
      BY <1>4, <2>1, ZeroLimb DEF Abs
    <3> QED
      BY <3>1
  <2>3. x < Base(1)
    BY <2>2, OneLimb
  <2>4. PICK i \in 0 .. 1 : i = Normalized(1, x) /\ Exactly(i, x)
    BY <2>3, NormalizedExactly
  <2>5. PICK negative \in BOOLEAN : negative = (k < m)
    <3>1. (k < m) \in BOOLEAN
      OBVIOUS
    <3> QED
      BY <3>1, Zenon
  <2>6. From(m, m, Abs(k - m)) = x /\ From(m, m, k < m) = negative
    BY <2>2, <2>5, FromNumbers
  <2>7. Wrote(1, x, negative, i)
    <3>1. ~ (loc.us > 1) /\ loc.us >= 0
      BY <1>2, <1>7
    <3>2. (From(m, m, c.k < m) = TRUE) = negative
      BY <1>4, <2>6
    <3> QED
      BY <1>1, <1>2, <1>4, <2>2, <2>4, <2>6, <3>1, <3>2, Zenon DEF UiSub, Wrote
  <2>8. 1 \in Nat
    OBVIOUS
  <2> QED
    BY <1>1, <1>3, <2>3, <2>4, <2>7, <2>8, WroteContents
<1>8. CASE s < 0
  <2>1. k < Base(n)
    <3>1. n >= 1
      BY <1>2, <1>8
    <3> QED
      BY <1>4, <3>1, LimbBelow
  <2>2. PICK x \in Nat, i \in 0 .. n + 1 : x = m + k /\ i = LessTop(n + 1, x) /\ Exactly(i, x) /\ x < Base(n + 1)
    BY <1>2, <2>1, SumLimbs
  <2>3. From(m, m, m + k) = x
    BY <2>2, FromNumbers
  <2>4. Wrote(n + 1, x, FALSE, i)
    <3>1. ~ (loc.us > 1) /\ ~ (loc.us >= 0)
      BY <1>2, <1>8
    <3> QED
      BY <1>1, <1>2, <1>4, <2>2, <2>3, <3>1, Zenon DEF UiSub, Wrote
  <2> QED
    BY <1>1, <1>3, <1>5, <1>8, <2>2, <2>4, WroteContents, Zenon
<1> QED
  BY <1>6, <1>7, <1>8

LEMMA ComContents ==
  ASSUME Good, Com
  PROVE  Contents'
<1>1. pc = "compute" /\ c.fn = "com" /\ Finish /\ UNCHANGED calls
  BY DEF Com, At
<1>2. PICK s \in Int, n \in Nat, m \in Nat :
        /\ s = loc.us /\ n = Abs(loc.us) /\ m = Read(loc.up, n) /\ Exactly(n, m) /\ (n = 0 <=> m = 0)
        /\ (s >= 0 => s = n) /\ (s < 0 => s = -n)
  <2>1. c.fn \in Calculator!OneOperand
    BY <1>1 DEF Calculator!OneOperand, Calculator!UnaryFns
  <2> QED
    BY <1>1, <2>1, OperandReads
<1>3. /\ n + 1 \in Nat
      /\ s < 0 => n <= var[c.w].alloc
      /\ s >= 0 => n + 1 <= var[c.w].alloc
  BY <1>1, <1>2, Destination, NeededHolds DEF NeededIs
<1>4. TRUE \in BOOLEAN /\ FALSE \in BOOLEAN /\ 1 \in Nat /\ 1 < B /\ B \in Nat
  BY ZeroLimb
<1>5. CASE s >= 0
  <2>1. PICK x \in Nat, i \in 0 .. n + 1 : x = m + 1 /\ i = LessTop(n + 1, x) /\ Exactly(i, x) /\ x < Base(n + 1)
    <3>1. CASE n = 0
      <4>1. m + 1 = 1 /\ n + 1 = 1 /\ 1 < Base(1)
        BY <1>2, <1>4, <3>1, OneLimb
      <4>2. LessTop(1, 1) \in 0 .. 1 /\ Exactly(LessTop(1, 1), 1)
        BY <4>1, LessTopExactly
      <4> QED
        BY <3>1, <4>1, <4>2
    <3>2. CASE n # 0
      <4>1. 1 < Base(n)
        BY <1>4, <3>2, LimbBelow
      <4> QED
        BY <1>2, <1>4, <4>1, SumLimbs
    <3> QED
      BY <3>1, <3>2
  <2>2. From(m, m, m + 1) = x
    BY <2>1, FromNumbers
  <2>3. Wrote(i, x, TRUE, i)
    <3>1. loc.us >= 0 /\ (loc.us >= 0) = TRUE
      BY <1>2, <1>5
    <3> QED
      BY <1>1, <1>2, <2>1, <2>2, <3>1, Zenon DEF Com, Wrote
  <2>4. i \in Nat /\ i <= var[c.w].alloc /\ x < Base(i) /\ i \in 0 .. i
    <3>1. var[c.w].alloc \in Nat
      BY <1>1, Destination
    <3> QED
      BY <1>3, <1>5, <2>1, <3>1 DEF Exactly
  <2> QED
    BY <1>1, <1>4, <2>1, <2>3, <2>4, WroteContents, Zenon
<1>6. CASE s < 0
  <2>1. n >= 1 /\ m >= 1
    BY <1>2, <1>6
  <2>2. PICK x \in Nat, i \in 0 .. n : x = m - 1 /\ i = LessTop(n, x) /\ Exactly(i, x) /\ x < Base(n)
    BY <1>2, <1>4, <2>1, LimbLessLimbs
  <2>3. From(m, m, m - 1) = x
    BY <2>2, FromNumbers
  <2>4. Wrote(n, x, FALSE, i)
    <3>1. ~ (loc.us >= 0) /\ (loc.us >= 0) = FALSE
      BY <1>2, <1>6
    <3> QED
      BY <1>1, <1>2, <2>2, <2>3, <3>1, Zenon DEF Com, Wrote
  <2> QED
    BY <1>1, <1>3, <1>4, <1>6, <2>2, <2>4, WroteContents, Zenon
<1> QED
  BY <1>5, <1>6

-----------------------------------------------------------------------------
(* Copies, signs, zeros, and numbers that change places.                    *)

\* Any block has zero in no limbs.
LEMMA ZeroWhole ==
  ASSUME NEW b, BlockOK(b)
  PROVE  Whole(b, 0)
<1>1. b.known \in Nat /\ b.num \in Nat
  BY DEF BlockOK
<1>2. Base(0) = 1 /\ Abs(0) = 0
  BY BaseFacts DEF Abs
<1>3. b.num % 1 = 0
  BY <1>1
<1>4. Exactly(0, 0) /\ 0 <= b.known
  BY <1>1, <1>2 DEF Exactly
<1> QED
  BY <1>2, <1>3, <1>4 DEF Whole

\* A size with the sign it has.
LEMMA SignedWith ==
  ASSUME NEW t \in Int
  PROVE  \E negative \in BOOLEAN, n \in Nat : n = Abs(t) /\ negative = (t < 0) /\ t = Signed(negative, n)
<1>1. PICK negative \in BOOLEAN : negative = (t < 0)
  BY SignIs
<1>2. PICK n \in Nat : n = Abs(t) /\ (t < 0 => t = -n) /\ (~ (t < 0) => t = n)
  BY DEF Abs
<1>3. CASE t < 0
  <2>1. negative
    BY <1>1, <1>3, Zenon
  <2>2. Signed(negative, n) = -n
    BY <2>1, SignedOf, Zenon
  <2> QED
    BY <1>1, <1>2, <1>3, <2>2, Zenon
<1>4. CASE ~ (t < 0)
  <2>1. ~negative
    BY <1>1, <1>4, Zenon
  <2>2. Signed(negative, n) = n
    BY <2>1, SignedOf
  <2> QED
    BY <1>1, <1>2, <1>4, <2>2, Zenon
<1> QED
  BY <1>3, <1>4

\* Only the sign of a number changes.
LEMMA SignGives ==
  ASSUME Good, NEW w \in Usable, ~Renewed(w), heap' = heap, NEW t \in Int, Abs(t) = Abs(Size(w)),
         var' = [var EXCEPT ![w].size = t]
  PROVE  \E v : Gives(w, v)
<1>1. NumberAt(var[w].d, Size(w))
  BY HasNumber
<1>2. PICK negative \in BOOLEAN, n \in Nat : n = Abs(t) /\ t = Signed(negative, n)
  BY SignedWith
<1>3. SetSize(w, negative, n)
  BY <1>2 DEF SetSize
<1>4. /\ var'[w].size = t /\ var'[w].d = var[w].d
      /\ \A y : y # w => var'[y] = var[y]
  BY <1>2, <1>3, SizeSet DEF Good
<1>5. PICK p : p = var[w].d /\ p \in DOMAIN heap /\ Whole(heap[p], Size(w))
  BY <1>1 DEF NumberAt
<1>6. Whole(heap[p], t)
  BY <1>5 DEF Whole
<1>7. Sound(w)
  BY <1>4, <1>5, <1>6 DEF Sound
<1>8. ASSUME NEW y \in Usable \ {w} PROVE Kept(y)
  <2>1. var[y].d \in DOMAIN heap
    BY Known DEF Good, Bounds
  <2> QED
    BY <1>4, <2>1 DEF Kept
<1>9. TempKept
  <2>1. CASE w = Temp
    BY <1>4, <2>1 DEF TempKept
  <2>2. CASE w # Temp
    BY <1>4, <2>2 DEF TempKept
  <2> QED
    BY <2>1, <2>2
<1>10. BlocksOK'
  BY DEF Good, Contents, BlocksOK
<1> QED
  BY <1>7, <1>8, <1>9, <1>10 DEF Gives, Has

LEMMA NegInPlaceContents ==
  ASSUME Good, NegInPlace
  PROVE  Contents'
<1>1. pc = "enter" /\ c.fn = "neg" /\ Finish /\ UNCHANGED calls /\ heap' = heap
  BY DEF NegInPlace, At
<1>2. PICK t \in Int, w \in Usable : w = c.w /\ t = -Size(w) /\ Abs(t) = Abs(Size(w))
  <2>1. c.w \in Usable /\ Size(c.w) \in Int
    BY <1>1, UsableArguments, Running DEF Good
  <2>2. Abs(-Size(c.w)) = Abs(Size(c.w)) /\ -Size(c.w) \in Int
    BY <2>1 DEF Abs
  <2> QED
    BY <2>1, <2>2
<1>3. var' = [var EXCEPT ![w].size = t]
  <2>1. w \in DOMAIN var
    BY DEF Usable, Good, IInv, Typing
  <2> QED
    BY <1>2, <2>1 DEF NegInPlace, Size
<1>4. \E v : Gives(w, v)
  BY <1>1, <1>2, <1>3, SignGives, Zenon DEF Renewed
<1> QED
  BY <1>1, <1>2, <1>4, GivesContents, ZeroLimb DEF Finish

LEMMA SetCopyContents ==
  ASSUME Good, SetCopy
  PROVE  Contents'
<1>1. pc = "compute" /\ c.fn \in {"set", "neg"} /\ Finish /\ UNCHANGED calls
  BY DEF SetCopy, At
<1>2. PICK s \in Int, n \in Nat, m \in Nat :
        s = loc.us /\ n = Abs(loc.us) /\ m = Read(loc.up, n) /\ Exactly(n, m) /\ n = Abs(s)
  <2>1. c.fn \in Calculator!OneOperand
    BY <1>1 DEF Calculator!OneOperand, Calculator!UnaryFns
  <2> QED
    BY <1>1, <2>1, OperandReads
<1>3. n <= var[c.w].alloc
  BY <1>1, <1>2, Destination, NeededHolds DEF NeededIs
<1>4. PICK t \in Int : t = (IF c.fn = "neg" THEN -s ELSE s) /\ Abs(t) = n
  <2>1. Abs(-s) = Abs(s) /\ -s \in Int
    BY DEF Abs
  <2> QED
    BY <1>2, <2>1
<1>5. PICK negative \in BOOLEAN : t = Signed(negative, n)
  <2>1. \E negative \in BOOLEAN, i \in Nat : i = Abs(t) /\ negative = (t < 0) /\ t = Signed(negative, i)
    BY SignedWith
  <2> QED
    BY <1>4, <2>1, Zenon
<1>6. Wrote(n, m, negative, n)
  <2>1. var' = [var EXCEPT ![c.w].size = t]
    BY <1>2, <1>4 DEF SetCopy
  <2> QED
    BY <1>1, <1>2, <1>5, <2>1, Zenon DEF SetCopy, Wrote, SetSize
<1>7. m < Base(n) /\ n \in 0 .. n
  BY <1>2 DEF Exactly
<1> QED
  BY <1>1, <1>2, <1>3, <1>6, <1>7, WroteContents

LEMMA AbsCopyContents ==
  ASSUME Good, AbsCopy
  PROVE  Contents'
<1>1. pc = "compute" /\ c.fn = "abs" /\ Finish /\ UNCHANGED calls
  BY DEF AbsCopy, At
<1>2. PICK s \in Int, n \in Nat, m \in Nat :
        /\ s = loc.us /\ n = Abs(loc.us) /\ m = Read(loc.up, n) /\ Exactly(n, m) /\ n = Abs(s)
        /\ s = Size(c.u)
  <2>1. c.fn \in Calculator!OneOperand
    BY <1>1 DEF Calculator!OneOperand, Calculator!UnaryFns
  <2> QED
    BY <1>1, <2>1, OperandReads
<1>3. n <= var[c.w].alloc
  BY <1>1, <1>2, Destination, NeededHolds DEF NeededIs
<1>4. SetSize(c.w, FALSE, n)
  BY <1>2, Zenon DEF AbsCopy
<1>5. CASE c.u = c.w
  <2>1. PICK w \in Usable : w = c.w
    BY <1>1, Destination
  <2>2. var' = [var EXCEPT ![w].size = n]
    <3>1. Signed(FALSE, n) = n
      BY SignedIs, Zenon
    <3> QED
      BY <1>4, <2>1, <3>1, Zenon DEF SetSize
  <2>3. n \in Int /\ Abs(n) = Abs(Size(w))
    <3>1. Abs(n) = n
      BY DEF Abs
    <3> QED
      BY <1>2, <1>5, <2>1, <3>1
  <2>4. heap' = heap
    BY <1>5 DEF AbsCopy
  <2>5. \E v : Gives(w, v)
    BY <1>1, <2>2, <2>3, <2>4, SignGives, Zenon DEF Renewed
  <2> QED
    BY <1>1, <2>1, <2>5, GivesContents, ZeroLimb DEF Finish
<1>6. CASE c.u # c.w
  <2>1. Wrote(n, m, FALSE, n)
    BY <1>1, <1>2, <1>4, <1>6, Zenon DEF AbsCopy, Wrote
  <2>2. m < Base(n) /\ n \in 0 .. n /\ FALSE \in BOOLEAN
    BY <1>2 DEF Exactly
  <2> QED
    BY <1>1, <1>2, <1>3, <2>1, <2>2, WroteContents, Zenon
<1> QED
  BY <1>5, <1>6

LEMMA SwapContents ==
  ASSUME Good, Swap
  PROVE  Contents'
<1>1. pc = "enter" /\ c.fn = "swap" /\ Finish /\ UNCHANGED calls /\ heap' = heap
  BY DEF Swap, At
<1>2. PICK w, u : w = c.w /\ u = c.u /\ w \in Usable /\ u \in Usable /\ w \in Var /\ u \in Var
  BY <1>1, UsableArguments, Running, Zenon DEF Good
<1>3. var' = [var EXCEPT ![w] = var[u], ![u] = var[w]]
  BY <1>2 DEF Swap
<1>4. var'[w] = var[u] /\ var'[u] = var[w] /\ \A y : y \notin {w, u} => var'[y] = var[y]
  <2>1. PICK h : h = [var EXCEPT ![w] = var[u]]
    BY Zenon
  <2>2. var \in [Var \cup {Temp} -> Fields]
    BY DEF Good, IInv, Typing
  <2>3. var' = [h EXCEPT ![u] = var[w]]
    BY <1>3, <2>1
  <2>4. DOMAIN h = Var \cup {Temp} /\ h[w] = var[u] /\ \A y : y # w => h[y] = var[y]
    BY <1>2, <2>1, <2>2
  <2>5. var'[u] = var[w] /\ \A y : y # u => var'[y] = h[y]
    BY <1>2, <2>3, <2>4
  <2> QED
    BY <2>4, <2>5
<1>5. ASSUME NEW y \in Usable PROVE Sound(y)
  <2>1. PICK z \in Usable : var'[y] = var[z]
    BY <1>2, <1>4
  <2>2. NumberAt(var[z].d, Size(z))
    BY <1>1, HasNumber DEF Renewed
  <2> QED
    BY <1>1, <2>1, <2>2 DEF Sound, NumberAt, Size
<1>6. TempKept
  <2>1. Temp \notin {w, u}
    BY <1>2, NamesDiffer
  <2> QED
    BY <1>4, <2>1 DEF TempKept
<1>7. BlocksOK'
  BY <1>1 DEF Good, Contents, BlocksOK
<1> QED
  BY <1>1, <1>5, <1>6, <1>7, EndsContents, ZeroLimb DEF Finish

LEMMA SetUiContents ==
  ASSUME Good, SetUi \/ SetSi
  PROVE  Contents'
<1>1. pc = "enter" /\ c.fn \in {"set_ui", "set_si"} /\ Finish /\ UNCHANGED calls
  BY Zenon DEF SetUi, SetSi, At
<1>2. c.w \in Usable /\ c.w \in Var /\ todo # <<>>
  BY <1>1, UsableArguments, Running DEF Good
<1>3. PICK k \in Nat : k = c.k /\ k < B
  BY <1>1, <1>2, LimbArgument
<1>4. PICK p : p = var[c.w].d /\ 1 <= var[c.w].alloc
  BY <1>2, SizesSay, Zenon DEF Good, Bounds
<1>5. PICK i \in 0 .. 1 : i = (IF k = 0 THEN 0 ELSE 1) /\ Exactly(i, k) /\ k < Base(1)
  BY <1>3, OneLimb
<1>6. PICK negative \in BOOLEAN : heap' = Written(heap, p, 1, k) /\ SetSize(c.w, negative, i)
  <2>1. CASE SetUi
    <3>1. heap' = Written(heap, p, 1, k) /\ SetSize(c.w, FALSE, i) /\ FALSE \in BOOLEAN
      BY <1>3, <1>4, <1>5, <2>1, Zenon DEF SetUi
    <3> QED
      BY <3>1, Zenon
  <2>2. CASE SetSi
    <3>1. PICK negative \in BOOLEAN : negative = (k # 0)
      <4>1. (k # 0) \in BOOLEAN
        OBVIOUS
      <4> QED
        BY <4>1, Zenon
    <3>2. heap' = Written(heap, p, 1, k) /\ SetSize(c.w, negative, i)
      BY <1>3, <1>4, <1>5, <2>2, <3>1 DEF SetSi
    <3> QED
      BY <3>2
  <2> QED
    BY <2>1, <2>2
<1>7. 1 \in Nat /\ i \in Nat /\ i <= 1
  OBVIOUS
<1> QED
  BY <1>1, <1>4, <1>5, <1>6, <1>7, WritesContents

LEMMA ReallocContents ==
  ASSUME Good, Realloc \/ Realloc2
  PROVE  Contents'
<1>1. pc = "enter" /\ c.fn \in {"realloc", "realloc2"} /\ Finish /\ UNCHANGED calls
  BY DEF Realloc, Realloc2, At
<1>2. PICK w : w = c.w /\ w \in Usable /\ w \in Var
  BY <1>1, UsableArguments, Running, Zenon DEF Good
<1>3. PICK len \in Nat : len >= 1 /\ Reallocate(w, len)
  <2>1. c.k \in Nat
    BY <1>1, LimbArgument, Running DEF Good
  <2>2. CASE Realloc
    <3>1. MaxOf(c.k, 1) \in Nat /\ MaxOf(c.k, 1) >= 1
      BY <2>1 DEF MaxOf
    <3> QED
      BY <1>2, <2>2, <3>1 DEF Realloc
  <2>3. CASE Realloc2
    <3>1. PICK k \in Nat, l \in Nat : k = c.k /\ l = LimbBits /\ l >= 1
      BY <2>1, BaseFacts, Zenon
    <3>2. k + l - 1 \in Nat
      BY <3>1
    <3>3. PICK q \in Nat : q = (k + l - 1) \div l
      BY <3>1, <3>2, Division
    <3>4. MaxOf(q, 1) \in Nat /\ MaxOf(q, 1) >= 1
      BY DEF MaxOf
    <3> QED
      BY <1>2, <2>3, <3>1, <3>3, <3>4 DEF Realloc2
  <2> QED
    BY <2>2, <2>3
<1>4. NumberAt(var[w].d, Size(w))
  BY <1>1, <1>2, HasNumber DEF Renewed
<1>5. \E v : Gives(w, v)
  BY <1>2, <1>3, <1>4, ReallocateGives DEF Good, Contents
<1> QED
  BY <1>1, <1>2, <1>5, GivesContents, ZeroLimb DEF Finish

\* The early returns that set the result to zero.
LEMMA ZeroedContents ==
  ASSUME Good, MulZero \/ TdivQSmall \/ MulUiZero \/ Mul2expZero \/ TdivQ2expSmall \/ CfdivR2expZero
  PROVE  Contents'
<1>1. pc = "enter" /\ heap' = heap /\ SetSize(c.w, FALSE, 0) /\ Finish /\ UNCHANGED calls
  BY Zenon DEF MulZero, TdivQSmall, MulUiZero, Mul2expZero, TdivQ2expSmall, CfdivR2expZero, ResultsZero, At
<1> QED
  BY <1>1, ZeroContents

\* The early returns that change nothing.
LEMMA NothingDoneContents ==
  ASSUME Good, DivDone \/ CfdivR2expKeep \/ AorsmulZero \/ Aorsmul1Zero
  PROVE  Contents'
<1>1. pc = "enter" /\ UNCHANGED <<heap, var>> /\ Finish /\ UNCHANGED calls
  BY DEF DivDone, CfdivR2expKeep, AorsmulZero, Aorsmul1Zero, SameValue, At
<1> QED
  BY <1>1, SameContents

\* A division by zero changes nothing.
LEMMA RaisedContents ==
  ASSUME Good, TdivByZero \/ DivideByZero
  PROVE  Contents'
<1>1. pc = "enter" /\ Goto("raised") /\ UNCHANGED <<heap, var, loc>> /\ UNCHANGED calls
  BY DEF TdivByZero, DivideByZero, At
<1>2. Carries
  BY <1>1, SameCarries DEF Good, Contents
<1>3. pc' = "raised"
  BY <1>1 DEF Goto
<1>4. LocalsOK'
  BY <1>3 DEF LocalsOK, DivisionNoted, BitsNoted, ProductNoted, SumNoted, OneNoted
<1> QED
  BY <1>1, <1>2, <1>4, CarriesContents

\* A division of zero.
LEMMA UiOfZeroContents ==
  ASSUME Good, UiOfZero
  PROVE  Contents'
<1>1. pc = "enter" /\ c.fn \in Calculator!DivUiFns /\ Finish /\ UNCHANGED calls /\ heap' = heap
  BY DEF UiOfZero, At
<1>2. PICK w, r : w = c.w /\ r = c.r /\ w \in Var /\ r \in Var
  <2>1. c.w \in Var /\ c.r \in Var \cup {Temp} /\ TempUse(c)
    BY <1>1, Arguments, Running DEF Good
  <2>2. c.r # Temp
    BY <1>1, <2>1 DEF TempUse, Calculator!DivUiFns, Calculator!QuotUiFns, Calculator!RemUiFns,
         Calculator!QuotRemUiFns, Calculator!OnlyUiFns
  <2> QED
    BY <2>1, <2>2
<1>3. /\ \A y \in Usable : var'[y].d = var[y].d /\ var'[y].size \in {0, var[y].size}
      /\ var'[Temp] = var[Temp]
  <2>1. CASE var' = var
    BY <2>1
  <2>2. CASE var' = [var EXCEPT ![w].size = 0, ![r].size = 0]
    <3>1. PICK h : h = [var EXCEPT ![w].size = 0]
      BY Zenon
    <3>2. var \in [Var \cup {Temp} -> Fields]
      BY DEF Good, IInv, Typing
    <3>3. var' = [h EXCEPT ![r].size = 0]
      BY <2>2, <3>1
    <3>4. h \in [Var \cup {Temp} -> Fields] /\ h[w].size = 0 /\ h[w].d = var[w].d /\ \A y : y # w => h[y] = var[y]
      BY <1>2, <3>1, <3>2 DEF Fields
    <3>5. var'[r].size = 0 /\ var'[r].d = h[r].d /\ \A y : y # r => var'[y] = h[y]
      BY <1>2, <3>3, <3>4 DEF Fields
    <3>6. Temp \notin {w, r}
      BY <1>2, NamesDiffer
    <3>7. var'[Temp] = var[Temp]
      BY <3>4, <3>5, <3>6
    <3>8. ASSUME NEW y \in Usable PROVE var'[y].d = var[y].d /\ var'[y].size \in {0, var[y].size}
      <4>1. CASE y = r
        BY <3>4, <3>5, <4>1
      <4>2. CASE y # r /\ y = w
        BY <3>4, <3>5, <4>2
      <4>3. CASE y # r /\ y # w
        BY <3>4, <3>5, <4>3
      <4> QED
        BY <4>1, <4>2, <4>3
    <3> QED
      BY <3>7, <3>8
  <2> QED
    BY <1>2, <2>1, <2>2, Zenon DEF UiOfZero
<1>4. TempKept
  BY <1>3 DEF TempKept
<1>5. BlocksOK'
  BY <1>1 DEF Good, Contents, BlocksOK
<1>6. ASSUME NEW y \in Usable PROVE Sound(y)
  <2>1. NumberAt(var[y].d, Size(y))
    BY <1>1, HasNumber DEF Renewed
  <2>2. PICK p : p = var[y].d /\ p \in DOMAIN heap /\ Whole(heap[p], var[y].size) /\ BlockOK(heap[p])
    BY <2>1 DEF NumberAt, Size, Good, Contents, BlocksOK
  <2>3. Whole(heap[p], 0)
    BY <2>2, ZeroWhole
  <2> QED
    BY <1>1, <1>3, <2>2, <2>3 DEF Sound
<1> QED
  BY <1>1, <1>4, <1>5, <1>6, EndsContents, ZeroLimb DEF Finish

\* One limb is written, and counts or not.
LEMMA CfdivQ2expSmallContents ==
  ASSUME Good, CfdivQ2expSmall
  PROVE  Contents'
<1>1. pc = "enter" /\ c.fn \in {"cdiv_q_2exp", "fdiv_q_2exp"} /\ Finish /\ UNCHANGED calls
  BY DEF CfdivQ2expSmall, At
<1>2. c.w \in Usable /\ c.w \in Var
  BY <1>1, UsableArguments, Running DEF Good
<1>3. PICK p : p = var[c.w].d /\ 1 <= var[c.w].alloc /\ p \in DOMAIN heap /\ 1 <= heap[p].len
  BY <1>2, SizesSay DEF Good, Bounds
<1>4. heap' = Written(heap, p, 1, 1)
  BY <1>3 DEF CfdivQ2expSmall
<1>5. PICK negative \in BOOLEAN, i \in {0, 1} : SetSize(c.w, negative, i)
  <2>1. PICK negative \in BOOLEAN : negative = (c.fn \notin UpFns)
    <3>1. (c.fn \notin UpFns) \in BOOLEAN
      OBVIOUS
    <3> QED
      BY <3>1, Zenon
  <2> QED
    BY <2>1, Zenon DEF CfdivQ2expSmall
<1>6. 1 \in Nat /\ 1 < Base(1) /\ Exactly(1, 1)
  <2>1. 1 \in Nat /\ 1 < B
    BY ZeroLimb
  <2> QED
    BY <2>1, OneLimb
<1>7. CASE i = 1
  BY <1>1, <1>3, <1>4, <1>5, <1>6, <1>7, WritesContents
<1>8. CASE i = 0
  <2>1. /\ BlocksOK' /\ DOMAIN heap' = DOMAIN heap
        /\ \A q \in DOMAIN heap' : q # p => heap'[q] = heap[q]
    BY <1>3, <1>4, <1>6, PlainWritten DEF Good, Contents
  <2>2. PICK w \in Usable : w = c.w
    BY <1>2
  <2>3. var'[w].size = 0 /\ var'[w].d = p /\ \A y : y # w => var'[y] = var[y]
    <3>1. /\ var'[w].size = Signed(negative, 0) /\ var'[w].d = var[w].d
          /\ \A y : y # w => var'[y] = var[y]
      BY <1>5, <1>8, <2>2, SizeSet DEF Good
    <3>2. Signed(negative, 0) = 0
      <4>1. 0 \in Nat
        OBVIOUS
      <4>2. Signed(negative, 0) \in Int /\ Abs(Signed(negative, 0)) = 0
        BY <4>1, SignedFacts
      <4> QED
        BY <4>2, Small
    <3> QED
      BY <1>3, <2>2, <3>1, <3>2
  <2>4. ASSUME NEW y \in Usable PROVE Sound(y)
    <3>1. CASE y = w
      <4>1. p \in DOMAIN heap' /\ BlockOK(heap'[p])
        BY <1>3, <2>1 DEF BlocksOK
      <4>2. Whole(heap'[p], 0)
        BY <4>1, ZeroWhole
      <4> QED
        BY <2>3, <3>1, <4>1, <4>2 DEF Sound
    <3>2. CASE y # w
      <4>1. var[y].d # p /\ var[y].d \in DOMAIN heap
        BY <1>3, <2>2, <3>2, OthersBlocks DEF Good, Bounds
      <4>2. Kept(y)
        BY <2>1, <2>3, <3>2, <4>1 DEF Kept
      <4>3. NumberAt(var[y].d, Size(y))
        BY <1>1, HasNumber DEF Renewed
      <4> QED
        BY <4>2, <4>3, KeptReads DEF Good
    <3> QED
      BY <3>1, <3>2
  <2>5. TempKept
    BY <1>2, <2>2, <2>3, NamesDiffer DEF TempKept
  <2> QED
    BY <1>1, <2>1, <2>4, <2>5, EndsContents, ZeroLimb DEF Finish
<1> QED
  BY <1>7, <1>8

-----------------------------------------------------------------------------
(* Results: quotients, and numbers shifted.                                 *)

\* A result is at least as large as its factors say.
LEMMA ProductOrder ==
  \A p, q, r, s \in Nat : /\ (p <= q /\ r <= s => p * r <= q * s)
                          /\ (p < q /\ r < s => p * r < q * s)
  OBVIOUS

\* The quotient of numbers of m and n limbs has m - n + 1 limbs or one less.
LEMMA QuotientLimbs ==
  ASSUME NEW m \in Nat, NEW n \in Nat, n >= 1, m >= n, NEW x \in Nat, Exactly(m, x), NEW y \in Nat, Exactly(n, y)
  PROVE  /\ x \div y \in Nat /\ x \div y < Base(m - n + 1) /\ y >= 1
         /\ m - n >= 1 => x \div y >= Base(m - n - 1)
         /\ LessTop(m - n + 1, x \div y) \in 0 .. m - n + 1
         /\ Exactly(LessTop(m - n + 1, x \div y), x \div y)
<1>1. PICK a \in Nat, b \in Nat : b >= 1 /\ b = Base(m - 1) /\ a = Base(m) /\ b <= x /\ x < a
  <2>1. m >= 1
    OBVIOUS
  <2> QED
    BY <2>1, Limbs3
<1>2. PICK d \in Nat, e \in Nat : e >= 1 /\ e = Base(n - 1) /\ d = Base(n) /\ e <= y /\ y < d
  BY Limbs3
<1>3. PICK q \in Nat, r \in Nat : q = x \div y /\ x = y * q + r /\ r < y
  <2>1. y >= 1
    BY <1>2
  <2> QED
    BY <2>1, Division
<1>4. PICK k \in Nat : k = m - n + 1 /\ k >= 1
  OBVIOUS
<1>5. q < Base(k)
  <2>1. PICK h \in Nat : h = Base(k)
    BY BaseFacts, Zenon
  <2>2. e * h = a
    <3>1. n - 1 \in Nat /\ (n - 1) + k = m
      BY <1>4
    <3>2. Base((n - 1) + k) = Base(n - 1) * Base(k)
      BY <3>1, BaseFacts
    <3> QED
      BY <1>1, <1>2, <2>1, <3>1, <3>2, Zenon
  <2>3. CASE h <= q
    <3>1. PICK z \in Nat : z = y * q
      OBVIOUS
    <3>2. e * h <= z
      BY <1>2, <2>3, <3>1, ProductOrder
    <3> QED
      BY <1>1, <1>3, <2>2, <3>1, <3>2
  <2> QED
    BY <2>1, <2>3
<1>6. k >= 2 => q >= Base(k - 2)
  <2> SUFFICES ASSUME k >= 2 PROVE q >= Base(k - 2)
    OBVIOUS
  <2>1. PICK h \in Nat : h = Base(k - 2)
    <3>1. k - 2 \in Nat
      OBVIOUS
    <3> QED
      BY <3>1, BaseFacts, Zenon
  <2>2. d * h = b
    <3>1. k - 2 \in Nat /\ n + (k - 2) = m - 1
      BY <1>4
    <3>2. Base(n + (k - 2)) = Base(n) * Base(k - 2)
      BY <3>1, BaseFacts
    <3> QED
      BY <1>1, <1>2, <2>1, <3>1, <3>2
  <2>3. CASE q < h
    <3>1. PICK z \in Nat : z = y * q
      OBVIOUS
    <3>2. y * (q + 1) = z + y /\ q + 1 \in Nat /\ q + 1 <= h
      BY <2>3, <3>1
    <3>3. y * (q + 1) <= d * h
      <4>1. y <= d
        BY <1>2
      <4> QED
        BY <3>2, <4>1, ProductOrder
    <3>4. z + y <= b
      BY <2>2, <3>2, <3>3
    <3> QED
      BY <1>1, <1>3, <3>1, <3>4
  <2> QED
    BY <2>1, <2>3
<1>7. LessTop(k, q) \in 0 .. k /\ Exactly(LessTop(k, q), q)
  BY <1>4, <1>5, <1>6, LessTopExactly
<1>8. m - n >= 1 => k >= 2 /\ k - 2 = m - n - 1
  BY <1>4
<1> QED
  BY <1>2, <1>3, <1>4, <1>5, <1>6, <1>7, <1>8

\* A count of bits, and the power of two it is of.
LEMMA PowerParts ==
  ASSUME Good, todo # <<>>
  PROVE  \E l \in Nat, i \in Nat, j \in Nat, b \in Nat, p \in Nat :
           /\ l = LimbCnt /\ i = InLimb /\ b = Base(l) /\ p = Power /\ p = b * i
           /\ i >= 1 /\ b >= 1 /\ p >= 1 /\ B = i * j /\ j >= 2
           /\ Exactly(l + 1, p) /\ p < Base(l + 1)
           /\ c.k % LimbBits = 0 => i = 1
<1>1. PICK k \in Nat : k = c.k
  BY LimbArgument
<1>2. PICK w \in Nat : w = LimbBits /\ w >= 1
  BY BaseFacts
<1>3. PICK l \in Nat, s \in Nat : l = k \div w /\ s = k % w /\ k = w * l + s /\ s < w
  <2>1. /\ k \div w \in Nat /\ k % w \in Nat /\ k % w < w /\ k = w * (k \div w) + (k % w)
    BY <1>2, Division
  <2> QED
    BY <2>1, Zenon
<1>4. PICK i \in Nat, b \in Nat, p \in Nat : /\ i = Two[s] /\ b = Base(l) /\ p = Two[k] /\ p = b * i
                                             /\ i >= 1 /\ b >= 1 /\ p >= 1
  <2>1. Two[s] \in Nat /\ Two[s] >= 1 /\ Two[k] \in Nat /\ Two[k] >= 1
    BY TwoFacts, Zenon
  <2>2. Base(l) \in Nat /\ Base(l) >= 1
    BY BaseFacts, Zenon
  <2>3. w * l \in Nat /\ Base(l) = Two[w * l]
    BY <1>2 DEF Base
  <2>4. Two[w * l + s] = Two[w * l] * Two[s]
    BY <2>3, TwoSum
  <2> QED
    BY <1>3, <2>1, <2>2, <2>3, <2>4, Zenon
<1>5. PICK t \in Nat : t = (w - s) - 1 /\ s + (t + 1) = w
  <2>1. (w - s) - 1 \in Nat /\ s + (((w - s) - 1) + 1) = w
    BY <1>3
  <2> QED
    BY <2>1
<1>6. PICK h \in Nat : h = Two[t] /\ h >= 1 /\ Two[t + 1] = 2 * h
  BY TwoFacts, Zenon
<1>7. PICK j \in Nat : j = 2 * h /\ j >= 2
  BY <1>6
<1>8. B = i * j
  <2>1. t + 1 \in Nat
    OBVIOUS
  <2>2. Two[s + (t + 1)] = Two[s] * Two[t + 1]
    BY <2>1, TwoSum
  <2>3. B = Two[w]
    BY <1>2, BaseFacts
  <2> QED
    BY <1>4, <1>5, <1>6, <1>7, <2>2, <2>3
<1>9. i < B /\ B \in Nat
  <2>1. PICK z \in Nat : i * j = i + z /\ z >= i
    <3>1. j - 1 \in Nat /\ j - 1 >= 1
      BY <1>7
    <3>2. i * (j - 1) >= i /\ i * (j - 1) \in Nat
      BY <3>1, ProductGrows
    <3>3. i * j = i + i * (j - 1)
      OBVIOUS
    <3> QED
      BY <3>2, <3>3
  <2>2. i + z > i
    BY <1>4, <2>1
  <2> QED
    BY <1>4, <1>8, <2>1, <2>2
<1>10. Exactly(l + 1, p) /\ p < Base(l + 1)
  <2>1. Base(l + 1) = B * b
    BY <1>4, BaseFacts, Zenon
  <2>2. (l + 1) - 1 = l
    OBVIOUS
  <2>3. b <= p
    BY <1>4, ProductGrows
  <2>4. p < B * b
    <3>1. b * i < b * B
      <4>1. B - i \in Nat /\ B - i >= 1 /\ b * (B - i) >= b
        <5>1. B - i \in Nat /\ B - i >= 1
          BY <1>9
        <5> QED
          BY <5>1, ProductGrows
      <4>2. b * B = b * i + b * (B - i)
        BY <1>9
      <4>3. PICK x \in Nat, y \in Nat : x = b * i /\ y = b * (B - i)
        BY <4>1, <1>9
      <4>4. b >= 1 /\ y >= b /\ b * B = x + y
        BY <1>4, <4>1, <4>2, <4>3
      <4>5. x < x + y
        BY <4>3, <4>4
      <4> QED
        BY <4>3, <4>4, <4>5
    <3>2. b * B = B * b
      BY <1>9
    <3> QED
      BY <1>4, <3>1, <3>2
  <2> QED
    BY <1>4, <2>1, <2>2, <2>3, <2>4 DEF Exactly
<1>11. c.k % LimbBits = 0 => i = 1
  BY <1>1, <1>2, <1>3, <1>4, TwoFacts, Zenon
<1>12. l = LimbCnt /\ i = InLimb /\ p = Power
  BY <1>1, <1>2, <1>3, <1>4, Zenon DEF LimbCnt, InLimb, Power
<1> QED
  BY <1>4, <1>7, <1>8, <1>10, <1>11, <1>12, Zenon

\* The operand of a function that shifts.
LEMMA ShiftOperand ==
  ASSUME Good, pc = "compute", c.fn \in Calculator!ShiftFns
  PROVE  \E s \in Int, n \in Nat, m \in Nat :
           /\ s = loc.us /\ n = Abs(loc.us) /\ m = Operand /\ Exactly(n, m)
           /\ s = Size(c.u) /\ m = Read(var[c.u].d, n) /\ (s = 0 <=> n = 0)
<1>1. c.fn \in Calculator!OneOperand
  BY DEF Calculator!OneOperand
<1>2. PICK s \in Int, n \in Nat, m \in Nat :
        /\ s = loc.us /\ n = Abs(loc.us) /\ m = Read(loc.up, n) /\ Exactly(n, m)
        /\ s = Size(c.u) /\ loc.up = var[c.u].d /\ (s = 0 <=> n = 0)
  BY <1>1, OperandReads
<1>3. Operand = m
  BY <1>2 DEF Operand
<1> QED
  BY <1>2, <1>3, Zenon

\* Results are Wrote.
LEMMA ResultsWrite ==
  ASSUME NEW n, NEW x, NEW negative, NEW size, Results(n, x, negative, size), UNCHANGED calls
  PROVE  Wrote(n, x, negative, size)
BY DEF Results, Wrote

LEMMA Mul2expContents ==
  ASSUME Good, Mul2exp
  PROVE  Contents'
<1>1. pc = "compute" /\ c.fn = "mul_2exp" /\ UNCHANGED calls
  BY DEF Mul2exp, At
<1>2. PICK s \in Int, n \in Nat, m \in Nat :
        s = loc.us /\ n = Abs(loc.us) /\ m = Operand /\ Exactly(n, m) /\ (s = 0 <=> n = 0)
  BY <1>1, ShiftOperand DEF Calculator!ShiftFns
<1>3. n >= 1
  BY <1>1, <1>2 DEF Good, Contents, LocalsOK, OneNoted
<1>4. PICK l \in Nat, p \in Nat : l = LimbCnt /\ p = Power /\ Exactly(l + 1, p)
  BY <1>1, Destination, PowerParts
<1>5. PICK t \in Nat : t = n + l + 1 /\ t = n + (l + 1) /\ t <= var[c.w].alloc
  BY <1>1, <1>2, <1>4, Destination, NeededHolds DEF NeededIs
<1>6. PICK x \in Nat, i \in 0 .. t : x = m * p /\ i = LessTop(t, x) /\ Exactly(i, x)
  <2>1. l + 1 \in Nat /\ l + 1 >= 1
    OBVIOUS
  <2> QED
    BY <1>2, <1>3, <1>4, <1>5, <2>1, ProductLimbs
<1>7. From(m, m, m * p) = x
  BY <1>6, FromNumbers
<1>8. PICK negative \in BOOLEAN : negative = (loc.us < 0)
  BY <1>2, SignIs
<1>9. Results(i, x, negative, i)
  BY <1>2, <1>4, <1>5, <1>6, <1>7, <1>8 DEF Mul2exp
<1>10. Wrote(i, x, negative, i)
  BY <1>1, <1>9, ResultsWrite
<1>11. i \in Nat /\ i \in 0 .. i /\ i <= var[c.w].alloc /\ x < Base(i)
  BY <1>5, <1>6, Destination, <1>1 DEF Exactly
<1> QED
  BY <1>1, <1>6, <1>10, <1>11, WroteContents

LEMMA TdivQ2expContents ==
  ASSUME Good, TdivQ2exp
  PROVE  Contents'
<1>1. pc = "compute" /\ c.fn = "tdiv_q_2exp" /\ UNCHANGED calls
  BY DEF TdivQ2exp, At
<1>2. PICK s \in Int, n \in Nat, m \in Nat :
        s = loc.us /\ n = Abs(loc.us) /\ m = Operand /\ Exactly(n, m)
  BY <1>1, ShiftOperand DEF Calculator!ShiftFns
<1>3. PICK l \in Nat, p \in Nat : l = LimbCnt /\ p = Power /\ Exactly(l + 1, p)
  BY <1>1, Destination, PowerParts
<1>4. n > l
  BY <1>1, <1>2, <1>3 DEF Good, Bounds, Computing
<1>5. PICK t \in Nat : t = n - l /\ t = n - (l + 1) + 1 /\ t <= var[c.w].alloc
  BY <1>1, <1>2, <1>3, <1>4, Destination, NeededHolds DEF NeededIs
<1>6. PICK x \in Nat, i \in 0 .. t : x = m \div p /\ i = LessTop(t, x) /\ Exactly(i, x) /\ x < Base(t)
  <2>1. l + 1 \in Nat /\ l + 1 >= 1 /\ n >= l + 1
    BY <1>4
  <2> QED
    BY <1>2, <1>3, <1>5, <2>1, QuotientLimbs
<1>7. From(m, m, m \div p) = x
  BY <1>6, FromNumbers
<1>8. PICK negative \in BOOLEAN : negative = (loc.us < 0)
  BY <1>2, SignIs
<1>9. Results(t, x, negative, i)
  BY <1>2, <1>3, <1>5, <1>6, <1>7, <1>8 DEF TdivQ2exp
<1>10. Wrote(t, x, negative, i)
  BY <1>1, <1>9, ResultsWrite
<1> QED
  BY <1>1, <1>5, <1>6, <1>10, WroteContents

-----------------------------------------------------------------------------
(* Results: remainders of powers of two, and quotients by them.             *)

LEMMA CfdivQ2expContents ==
  ASSUME Good, CfdivQ2exp
  PROVE  Contents'
<1>1. pc = "compute" /\ c.fn \in {"cdiv_q_2exp", "fdiv_q_2exp"} /\ UNCHANGED calls
  BY DEF CfdivQ2exp, At
<1>2. PICK s \in Int, n \in Nat, m \in Nat :
        s = loc.us /\ n = Abs(loc.us) /\ m = Operand /\ Exactly(n, m)
  BY <1>1, ShiftOperand DEF Calculator!ShiftFns
<1>3. PICK l \in Nat, p \in Nat, i \in Nat, b \in Nat :
        l = LimbCnt /\ p = Power /\ Exactly(l + 1, p) /\ p = b * i /\ b = Base(l) /\ (c.k % LimbBits = 0 => i = 1)
  BY <1>1, Destination, PowerParts, Zenon
<1>4. n > l
  BY <1>1, <1>2, <1>3 DEF Good, Bounds, Computing
<1>5. PICK t \in Nat : t = n - l /\ t = n - (l + 1) + 1 /\ t + 1 <= var[c.w].alloc /\ t <= var[c.w].alloc /\ t >= 1
  BY <1>1, <1>2, <1>3, <1>4, Destination, NeededHolds DEF NeededIs
<1>6. PICK x \in Nat, j \in 0 .. t : /\ x = m \div p /\ j = LessTop(t, x) /\ Exactly(j, x) /\ x < Base(t)
  <2>1. l + 1 \in Nat /\ l + 1 >= 1 /\ n >= l + 1
    BY <1>4
  <2> QED
    BY <1>2, <1>3, <1>5, <2>1, QuotientLimbs
<1>7. PICK size \in 0 .. t : size = (IF c.k % LimbBits # 0 THEN LessTop(t, x) ELSE t) /\ Exactly(size, x)
  <2>1. CASE c.k % LimbBits # 0
    BY <1>6, <2>1
  <2>2. CASE c.k % LimbBits = 0
    <3>1. p = b
      BY <1>3, <2>2
    <3>2. PICK h \in Nat : h = Base(t - 1) /\ b >= 1 /\ h * b = Base(n - 1)
      <4>1. t - 1 \in Nat /\ (t - 1) + l = n - 1
        BY <1>5
      <4>2. Base((t - 1) + l) = Base(t - 1) * Base(l) /\ Base(t - 1) \in Nat /\ Base(l) >= 1
        BY <4>1, BaseFacts, Zenon
      <4> QED
        BY <1>3, <4>1, <4>2
    <3>3. n >= 1 /\ h * b <= m
      <4>1. n >= 1
        BY <1>4
      <4> QED
        BY <1>2, <3>2, <4>1, ExactlyZero
    <3>4. x >= h
      <4>1. PICK y \in Nat, r \in Nat : y = b * x /\ r < b /\ m = y + r
        <5>0. m \in Int /\ m >= 0 /\ b >= 1
          BY <3>2
        <5>1. m \div b \in Nat /\ m % b \in Nat /\ m % b < b /\ m = b * (m \div b) + (m % b)
          BY <5>0, Division
        <5>2. b * x \in Nat /\ x = m \div b
          BY <1>6, <3>1
        <5> QED
          BY <5>1, <5>2, Zenon
      <4>2. CASE x < h
        <5>1. b * (x + 1) <= h * b /\ b * (x + 1) = y + b
          <6>1. x + 1 \in Nat /\ x + 1 <= h
            BY <4>2
          <6>2. (x + 1) * b <= h * b
            BY <6>1, ProductOrder
          <6> QED
            BY <4>1, <6>2
        <5>2. PICK z \in Nat : z = h * b
          BY <3>2
        <5> QED
          BY <3>3, <4>1, <5>1, <5>2
      <4> QED
        BY <4>2
    <3>5. Exactly(t, x)
      BY <1>6, <3>2, <3>4 DEF Exactly
    <3> QED
      BY <2>2, <3>5
  <2> QED
    BY <2>1, <2>2
<1>8. PICK negative \in BOOLEAN : negative = (loc.us < 0)
  BY <1>2, SignIs
<1>9. From(m, m, m \div p) = x /\ From(m, m, x + 1) = x + 1
  BY <1>6, FromNumbers
<1>10. CASE (loc.us >= 0) = (c.fn \in UpFns) /\ (Low(m, LimbCnt) # 0 \/ Partial(m) # 0)
  <2>1. PICK y \in Nat : y = x + 1
    OBVIOUS
  <2>2. PICK j2 \in 0 .. size + 1 : j2 = LessTop(size + 1, y) /\ Exactly(j2, y) /\ y < Base(size + 1)
    <3>1. CASE size = 0
      <4>1. x = 0
        BY <1>7, <3>1, ExactlyZero
      <4>2. y = 1 /\ 1 < B /\ B \in Nat /\ size + 1 = 1
        BY <2>1, <3>1, <4>1, ZeroLimb
      <4>3. Exactly(1, y) /\ y < Base(1)
        BY <4>2, OneLimb
      <4>4. 1 - 1 = 0 /\ Base(0) = 1
        BY ZeroLimb
      <4>5. LessTop(1, y) = 1
        BY <4>2, <4>4 DEF LessTop
      <4> QED
        BY <4>2, <4>3, <4>5
    <3>2. CASE size # 0
      <4>1. 1 < Base(size)
        <5>1. size \in Nat /\ size >= 1 /\ 1 \in Nat /\ 1 < B
          BY <3>2, ZeroLimb
        <5> QED
          BY <5>1, LimbBelow
      <4>2. size \in Nat /\ 1 \in Nat
        OBVIOUS
      <4> QED
        BY <1>7, <2>1, <4>1, <4>2, SumLimbs
    <3> QED
      BY <3>1, <3>2
  <2>3. Results(size + 1, y, negative, j2)
    BY <1>2, <1>3, <1>5, <1>6, <1>7, <1>8, <1>9, <1>10, <2>1, <2>2 DEF CfdivQ2exp
  <2>4. Wrote(size + 1, y, negative, j2)
    BY <1>1, <2>3, ResultsWrite
  <2>5. size + 1 \in Nat /\ size + 1 <= var[c.w].alloc
    BY <1>1, <1>5, Destination
  <2> QED
    BY <1>1, <2>2, <2>4, <2>5, WroteContents
<1>11. CASE ~ ((loc.us >= 0) = (c.fn \in UpFns) /\ (Low(m, LimbCnt) # 0 \/ Partial(m) # 0))
  <2>1. Results(t, x, negative, size)
    BY <1>2, <1>3, <1>5, <1>6, <1>7, <1>8, <1>9, <1>11 DEF CfdivQ2exp
  <2>2. Wrote(t, x, negative, size)
    BY <1>1, <2>1, ResultsWrite
  <2> QED
    BY <1>1, <1>5, <1>6, <1>7, <2>2, WroteContents
<1> QED
  BY <1>10, <1>11

LEMMA CfdivR2expContents ==
  ASSUME Good, CfdivR2exp
  PROVE  Contents'
<1>1. pc = "compute" /\ c.fn \in CfdivR /\ UNCHANGED calls
  BY DEF CfdivR2exp, At
<1>2. PICK s \in Int, n \in Nat, m \in Nat :
        s = loc.us /\ n = Abs(loc.us) /\ m = Operand /\ Exactly(n, m)
  BY <1>1, ShiftOperand DEF Calculator!ShiftFns, CfdivR
<1>3. PICK l \in Nat, p \in Nat : l = LimbCnt /\ p = Power /\ p >= 1 /\ p < Base(l + 1)
  BY <1>1, Destination, PowerParts
<1>4. PICK away \in BOOLEAN : away = ((loc.us >= 0) = (c.fn \in UpFns))
  <2>1. ((loc.us >= 0) = (c.fn \in UpFns)) \in BOOLEAN
    OBVIOUS
  <2> QED
    BY <2>1, Zenon
<1>5. PICK t \in Nat : t = (IF ~away /\ n <= l THEN n ELSE l + 1) /\ t <= var[c.w].alloc
  <2>1. PICK t \in Nat : t = (IF ~away /\ n <= l THEN n ELSE l + 1)
    OBVIOUS
  <2>2. c.fn \in {"cdiv_r_2exp", "fdiv_r_2exp"}
    BY <1>1 DEF CfdivR
  <2>3. Needed = (IF (loc.us >= 0) # (c.fn \in UpFns) /\ Abs(loc.us) <= LimbCnt THEN Abs(loc.us) ELSE LimbCnt + 1)
    BY <2>2, NeededHolds DEF NeededIs, CfdivR
  <2>4. Needed = t
    BY <1>2, <1>3, <1>4, <2>1, <2>3, Zenon
  <2> QED
    BY <1>1, <2>1, <2>4, Destination
<1>6. PICK x \in Nat : /\ x = (IF away THEN From(m, m, (Base(t) - (m % Base(t))) % p) ELSE From(m, m, m % p))
                       /\ x < Base(t)
  <2>1. CASE away
    <3>1. PICK z \in Int : z = Base(t) - (m % Base(t))
      <4>1. Base(t) \in Nat /\ m % Base(t) \in Nat
        BY LowLimbs, BaseFacts, Zenon
      <4>2. Base(t) - (m % Base(t)) \in Int
        BY <4>1
      <4> QED
        BY <4>2
    <3>2. PICK x \in Nat : x = z % p /\ x < p
      BY <1>3, Division
    <3>3. x < Base(t)
      <4>1. Base(l + 1) \in Nat /\ t = l + 1
        BY <1>5, <2>1, BaseFacts
      <4> QED
        BY <1>3, <3>2, <4>1
    <3>4. From(m, m, (Base(t) - (m % Base(t))) % p) = x
      BY <3>1, <3>2, FromNumbers
    <3> QED
      BY <2>1, <3>2, <3>3, <3>4
  <2>2. CASE ~away
    <3>1. PICK x \in Nat : x = m % p /\ x < p /\ x <= m
      <4>1. m \in Int /\ m >= 0 /\ p >= 1
        BY <1>3
      <4>2. m % p \in Nat /\ m % p < p /\ m % p <= m
        BY <4>1, Division
      <4> QED
        BY <4>2
    <3>2. x < Base(t)
      <4>1. Base(l + 1) \in Nat /\ Base(n) \in Nat /\ m < Base(n)
        <5>1. l + 1 \in Nat
          OBVIOUS
        <5>2. Base(n) \in Nat /\ m < Base(n)
          BY <1>2, ExactlyZero
        <5> QED
          BY <5>1, <5>2, BaseFacts, Zenon
      <4> QED
        BY <1>3, <1>5, <2>2, <3>1, <4>1
    <3>3. From(m, m, m % p) = x
      BY <3>1, FromNumbers
    <3> QED
      BY <2>2, <3>1, <3>2, <3>3
  <2> QED
    BY <2>1, <2>2
<1>7. PICK i \in 0 .. t : i = Normalized(t, x) /\ Exactly(i, x)
  BY <1>6, NormalizedExactly
<1>8. PICK negative \in BOOLEAN : negative = ((loc.us < 0) # away)
  <2>1. ((loc.us < 0) # away) \in BOOLEAN
    OBVIOUS
  <2> QED
    BY <2>1, Zenon
<1>9. Results(t, x, negative, i)
  BY <1>2, <1>3, <1>4, <1>5, <1>6, <1>7, <1>8, Zenon DEF CfdivR2exp
<1>10. Wrote(t, x, negative, i)
  BY <1>1, <1>9, ResultsWrite
<1> QED
  BY <1>1, <1>5, <1>6, <1>7, <1>10, WroteContents

LEMMA TdivR2expGrowContents ==
  ASSUME Good, TdivR2expGrow
  PROVE  Contents'
<1>1. pc = "enter" /\ c.fn = "tdiv_r_2exp" /\ Goto("compute") /\ UNCHANGED calls /\ c.w \in Var
  BY Running DEF TdivR2expGrow, At, Good
<1>2. PICK n, u : n = Abs(Size(c.u)) /\ u = Read(var[c.u].d, n)
  OBVIOUS
<1>3. PICK size : size = IF n <= LimbCnt THEN n
                         ELSE IF Partial(u) # 0 THEN LimbCnt + 1 ELSE Normalized(LimbCnt, Low(u, LimbCnt))
  OBVIOUS
<1>4. Grow(c.w, size) /\ loc' = Notes(Size(c.u), size, var'[c.u].d, var'[c.u].d, var'[c.w].d, None)
  BY <1>2, <1>3 DEF TdivR2expGrow
<1>5. size \in Nat
  <2>1. LimbCnt \in Nat
    BY <1>1, LimbCntType DEF AorsUiFns, Good
  <2>2. Normalized(LimbCnt, Low(u, LimbCnt)) \in 0 .. LimbCnt
    BY <2>1, NormalizedType
  <2> QED
    BY <1>1, <1>2, <1>3, <2>1, <2>2, Running DEF Good
<1>6. Carries
  BY <1>1, <1>4, <1>5, GrowCarries DEF Good, Contents
<1>7. c' = c /\ pc' = "compute"
  BY <1>1 DEF Goto, c
<1>8. Kept(c.u) /\ c.u \in Usable
  BY <1>1, <1>6, UsableArguments DEF Carries, Good
<1>9. Size(c.u)' = Size(c.u) /\ Read(var[c.u].d, n)' = u /\ \A k : Read(var[c.u].d, k)' = Read(var[c.u].d, k)
  BY <1>2, <1>7, <1>8, KeptReads DEF Good
<1>11. /\ loc'.us = Size(c.u) /\ loc'.up = var'[c.u].d /\ loc'.vs = size
  BY <1>4 DEF Notes
<1>12. DivisionNoted' /\ BitsNoted' /\ ProductNoted' /\ SumNoted'
  <2>1. c.fn \notin {"tdiv_qr", "tdiv_q", "tdiv_r", "add", "sub", "mul"} \cup AorsFns \cup BitFn
    BY <1>1 DEF AorsFns, BitFn
  <2> QED
    BY <1>7, <2>1 DEF DivisionNoted, BitsNoted, ProductNoted, SumNoted
<1>13. OneNoted'
  <2>1. c.fn \notin Calculator!DivUiFns \cup AorsUiFns \cup {"mul_ui", "mul_si"}
    BY <1>1 DEF AorsUiFns, Calculator!DivUiFns,
         Calculator!QuotUiFns, Calculator!RemUiFns, Calculator!QuotRemUiFns, Calculator!OnlyUiFns
  <2>2. Points(loc.us, loc.up, c.u)'
    BY <1>7, <1>9, <1>11 DEF Points
  <2>3. size = RemainderLimbs(n, u)
    BY <1>3 DEF RemainderLimbs
  <2>4. \A k, x : RemainderLimbs(k, x)' = RemainderLimbs(k, x)
    BY <1>7 DEF RemainderLimbs, LimbCnt, Partial, LimbAt, High, Low, InLimb
  <2>5. n = Abs(Size(c.u)') /\ Read(var[c.u].d, n)' = u
    BY <1>2, <1>9
  <2> QED
    BY <1>1, <1>7, <1>11, <2>1, <2>2, <2>3, <2>4, <2>5 DEF OneNoted
<1>14. LocalsOK'
  BY <1>12, <1>13 DEF LocalsOK
<1> QED
  BY <1>1, <1>6, <1>14, CarriesContents

LEMMA TdivR2expContents ==
  ASSUME Good, TdivR2exp
  PROVE  Contents'
<1>1. pc = "compute" /\ c.fn = "tdiv_r_2exp" /\ UNCHANGED calls
  BY DEF TdivR2exp, At
<1>2. PICK s \in Int, n \in Nat, m \in Nat :
        /\ s = loc.us /\ n = Abs(loc.us) /\ m = Operand /\ Exactly(n, m)
        /\ s = Size(c.u) /\ m = Read(var[c.u].d, n)
  BY <1>1, ShiftOperand DEF Calculator!ShiftFns
<1>3. PICK l \in Nat, i \in Nat, j \in Nat, b \in Nat, p \in Nat :
           /\ l = LimbCnt /\ i = InLimb /\ b = Base(l) /\ p = Power /\ p = b * i
           /\ i >= 1 /\ b >= 1 /\ p >= 1 /\ B = i * j /\ j >= 2
           /\ p < Base(l + 1)
  BY <1>1, Destination, PowerParts
<1>4. PICK t : t = loc.vs /\ t = IF n <= l THEN n ELSE IF Partial(m) # 0 THEN l + 1 ELSE Normalized(l, Low(m, l))
  BY <1>1, <1>2, <1>3 DEF Good, Contents, LocalsOK, OneNoted, RemainderLimbs
<1>5. PICK h \in Nat, y \in Nat : h = m \div b /\ y = m % b /\ y < b /\ Low(m, l) = y
  <2>1. m \div b \in Nat /\ m % b \in Nat /\ m % b < b
    BY <1>3, Division
  <2>2. Low(m, l) = m % b
    BY <1>3, FromNumbers DEF Low
  <2> QED
    BY <2>1, <2>2
<1>6. PICK g \in Nat : g = h % i /\ Partial(m) = g
  <2>2. High(m, l) = h
    BY <1>3, <1>5, FromNumbers DEF High
  <2>3. PICK z \in Nat : z = h % B /\ Low(h, 1) = z
    <3>1. Low(h, 1) = h % Base(1) /\ Base(1) = B
      BY FromNumbers, ZeroLimb DEF Low
    <3>2. h % Base(1) \in Nat
      BY LowLimbs
    <3> QED
      BY <3>1, <3>2
  <2>4. z % i = h % i
    <3>1. h \in Int /\ i \in Nat /\ j \in Nat /\ i >= 1 /\ j >= 1
      BY <1>3
    <3>2. (h % (i * j)) % i = h % i
      BY <3>1, ModOfMod, Zenon
    <3> QED
      BY <1>3, <2>3, <3>2
  <2>5. Partial(m) = z % i
    BY <1>3, <2>2, <2>3, FromNumbers DEF Partial, LimbAt
  <2>6. h % i \in Nat
    BY <1>3, Division
  <2> QED
    BY <2>4, <2>5, <2>6
<1>7. PICK negative \in BOOLEAN : negative = (loc.us < 0)
  BY <1>2, SignIs
<1>8. \E x \in Nat : /\ t \in Nat /\ x < Base(t) /\ Exactly(t, x)
                     /\ x = IF t = LimbCnt + 1 THEN From(m, m, m % Power) ELSE Low(m, t)
  <2>1. CASE n <= l
    <3>1. t = n /\ t # LimbCnt + 1
      BY <1>3, <1>4, <2>1
    <3>2. m < Base(n) /\ m % Base(n) = m
      BY <1>2, LowLimbs, ExactlyZero
    <3>3. Low(m, t) = m
      BY <3>1, <3>2, FromNumbers DEF Low
    <3> QED
      BY <1>2, <3>1, <3>2, <3>3, Zenon
  <2>2. CASE ~ (n <= l) /\ g # 0
    <3>1. t = l + 1 /\ t = LimbCnt + 1
      BY <1>3, <1>4, <1>6, <2>2
    <3>2. PICK x \in Nat : x = m % p /\ x < p /\ From(m, m, m % p) = x
      <4>1. m % p \in Nat /\ m % p < p
        BY <1>3, Division
      <4>2. From(m, m, m % p) = m % p
        BY FromNumbers
      <4> QED
        BY <4>1, <4>2, Zenon
    <3>3. x >= b
      <4>1. m % (b * i) = b * ((m \div b) % i) + (m % b)
        <5>1. m \in Int /\ b \in Nat /\ i \in Nat /\ b >= 1 /\ i >= 1
          BY <1>3
        <5> QED
          BY <5>1, ModOfMod, Zenon
      <4>2. x = b * g + y
        BY <1>3, <1>5, <1>6, <3>2, <4>1
      <4>3. b * g >= b /\ b * g \in Nat
        BY <2>2, ProductGrows
      <4> QED
        BY <4>2, <4>3
    <3>4. x < Base(l + 1)
      <4>1. Base(l + 1) \in Nat
        <5>1. l + 1 \in Nat
          OBVIOUS
        <5> QED
          BY <5>1, BaseFacts, Zenon
      <4> QED
        BY <1>3, <3>2, <4>1
    <3>5. Exactly(t, x)
      <4>1. t - 1 = l
        BY <3>1
      <4> QED
        BY <1>3, <3>1, <3>3, <3>4, <4>1 DEF Exactly
    <3> QED
      BY <1>3, <3>1, <3>2, <3>4, <3>5
  <2>3. CASE ~ (n <= l) /\ g = 0
    <3>1. t = Normalized(l, y)
      BY <1>4, <1>5, <1>6, <2>3
    <3>2. t \in 0 .. l /\ Exactly(t, y)
      BY <1>3, <1>5, <3>1, NormalizedExactly
    <3>3. t # LimbCnt + 1
      BY <1>3, <3>2
    <3>4. y < Base(t) /\ y % Base(t) = y
      BY <3>2, ExactlyZero, LowLimbs
    <3>5. (m % Base(l)) % Base(t) = m % Base(t)
      BY <3>2, LowLimbs
    <3>6. Low(m, t) = y
      BY <1>3, <1>5, <3>4, <3>5, FromNumbers DEF Low
    <3> QED
      BY <3>2, <3>3, <3>4, <3>6
  <2> QED
    BY <2>1, <2>2, <2>3
<1>9. PICK x \in Nat : /\ t \in Nat /\ x < Base(t) /\ Exactly(t, x)
                       /\ x = IF t = LimbCnt + 1 THEN From(m, m, m % Power) ELSE Low(m, t)
  BY <1>8
<1>10. t <= var[c.w].alloc
  <2>1. Abs(loc.vs) = t /\ t \in Nat
    <3>1. t \in Nat /\ loc.vs = t
      BY <1>4, <1>9, Zenon
    <3>2. Abs(t) = t
      BY <3>1 DEF Abs
    <3> QED
      BY <3>1, <3>2, Zenon
  <2>2. Needed = Abs(loc.vs)
    BY <1>1, NeededHolds DEF NeededIs
  <2> QED
    BY <1>1, <2>1, <2>2, Destination
<1>11. Results(t, x, negative, t)
  BY <1>2, <1>4, <1>7, <1>9, Zenon DEF TdivR2exp
<1>12. Wrote(t, x, negative, t)
  BY <1>1, <1>11, ResultsWrite
<1>13. t \in 0 .. t
  BY <1>9
<1> QED
  BY <1>1, <1>9, <1>10, <1>12, <1>13, WroteContents

-----------------------------------------------------------------------------
(* Results: a quotient and a remainder.                                     *)

\* Variable y has n limbs of x written to its block, and gets size s.
Put(y, n, x, s) ==
  /\ var'[y].d = var[y].d /\ var'[y].size = s
  /\ var[y].d \in DOMAIN heap' /\ heap'[var[y].d] = Filled(heap[var[y].d], n, x)

\* A variable that has been given a number has one.
LEMMA PutSound ==
  ASSUME Good, NEW y \in Usable, NEW n \in Nat, n <= var[y].alloc, NEW x \in Nat, x < Base(n),
         NEW s \in Int, Abs(s) <= n, Exactly(Abs(s), x), Put(y, n, x, s)
  PROVE  Sound(y) /\ var'[y].d = var[y].d /\ BlockOK(heap'[var[y].d])
<1>1. PICK p, b : p = var[y].d /\ b = heap[p] /\ p \in DOMAIN heap /\ n <= b.len
  BY Known DEF Good, Bounds
<1>2. b.len \in Nat
  BY <1>1 DEF Good, Contents, BlocksOK, BlockOK
<1>3. Whole(Filled(b, n, x), s) /\ BlockOK(Filled(b, n, x))
  BY <1>1, <1>2, FilledWhole, FilledHolds, Zenon
<1> QED
  BY <1>1, <1>3 DEF Put, Sound

\* A function that writes two results, and frees its copies, keeps the contents.
LEMMA TwoContents ==
  ASSUME Good, pc \in {"enter", "quot", "compute"}, c.fn # "mul", NEW value \in 0 .. B - 1, FinishWith(value),
         UNCHANGED calls, NEW w \in Usable, NEW r \in Usable,
         NEW S, S \subseteq {CopyU, CopyV, loc.free}, DOMAIN heap' = DOMAIN heap \ S,
         \A q \in DOMAIN heap' : q \notin {var[w].d, var[r].d} => heap'[q] = heap[q],
         \A y \in Var \cup {Temp} : y \notin {w, r} => var'[y] = var[y],
         Sound(w), var'[w].d = var[w].d, BlockOK(heap'[var[w].d]),
         Sound(r), var'[r].d = var[r].d, BlockOK(heap'[var[r].d])
  PROVE  Contents'
<1>1. BlocksOK'
  BY DEF Good, Contents, BlocksOK
<1>2. TempKept
  BY DEF TempKept
<1>3. ASSUME NEW y \in Usable PROVE Sound(y)
  <2>1. CASE y \in {w, r}
    BY <2>1
  <2>2. CASE y \notin {w, r}
    <3>1. /\ var[y].d \notin {var[w].d, var[r].d}
          /\ var[y].d \in DOMAIN heap /\ var[y].d \notin S
      BY <2>2, OthersBlocks DEF Good, Bounds
    <3>2. Kept(y)
      BY <2>2, <3>1 DEF Kept, Usable
    <3>3. NumberAt(var[y].d, Size(y))
      BY HasNumber DEF Renewed
    <3> QED
      BY <3>2, <3>3, KeptReads DEF Good
  <2> QED
    BY <2>1, <2>2
<1> QED
  BY <1>1, <1>2, <1>3, EndsContents

\* The size of a variable is set to one that no limb counts for.
LEMMA NoneSound ==
  ASSUME NEW y, var'[y].d \in DOMAIN heap', BlockOK(heap'[var'[y].d]), var'[y].size = 0
  PROVE  Sound(y)
BY ZeroWhole DEF Sound

LEMMA TdivSmallContents ==
  ASSUME Good, TdivSmall
  PROVE  Contents'
<1>1. pc = "quot" /\ c.fn = "tdiv_qr" /\ Finish /\ UNCHANGED calls
  BY DEF TdivSmall, At
<1>2. c.w \in Usable /\ c.u \in Usable /\ c.r \in Usable /\ todo # <<>>
  BY <1>1, UsableArguments, Running DEF Good
<1>3. PICK w, r : w = c.w /\ r = c.r /\ w \in Usable /\ r \in Usable /\ r # w
  <2>1. c.r # c.w
    <3>1. 1 \in 1 .. Len(todo) /\ c = todo[1]
      BY <1>2, Arguments DEF Good
    <3> QED
      BY <1>1, <3>1 DEF Good, Contents, TasksOK, TaskOK, Calculator!TwoResults, Calculator!QuotRemFns
  <2> QED
    BY <1>2, <2>1
<1>4. PICK s \in Int, n \in Nat, m \in Nat :
        s = Size(c.u) /\ s = var[c.u].size /\ n = Abs(s) /\ m = Read(var[c.u].d, n) /\ Exactly(n, m)
  BY <1>1, <1>2, VariableReads, Zenon DEF Renewed
<1>5. n = Abs(loc.us) /\ n <= var[r].alloc
  <2>1. loc.us = Size(c.u) /\ Abs(loc.vs) <= var[r].alloc
    BY <1>1, <1>3 DEF Good, Bounds, Dividing
  <2>2. QuotSize <= 0
    BY DEF TdivSmall
  <2>3. Abs(loc.vs) \in Nat /\ var[r].alloc \in Nat
    BY <1>1, <1>3, Running, Known DEF Good, Bounds
  <2>4. n = Abs(loc.us)
    BY <1>4, <2>1, Zenon
  <2>5. PICK k \in Nat : k = Abs(loc.vs)
    BY <2>3
  <2>6. n - k + 1 <= 0
    BY <2>2, <2>4, <2>5 DEF QuotSize
  <2>7. n <= k /\ k <= var[r].alloc
    BY <2>1, <2>5, <2>6
  <2> QED
    BY <2>3, <2>4, <2>7
<1>6. m < Base(n) /\ n <= n
  BY <1>4, ExactlyZero
<1>7. /\ var[w].d \in DOMAIN heap /\ var[r].d \in DOMAIN heap /\ var[w].d # var[r].d
  BY <1>3, Known, OthersBlocks DEF Good, Bounds
<1>8. BlockOK(heap[var[w].d]) /\ BlockOK(heap[var[r].d])
  BY <1>7 DEF Good, Contents, BlocksOK
<1>9. var \in [Var \cup {Temp} -> Fields] /\ w \in Var \cup {Temp} /\ r \in Var \cup {Temp}
  BY <1>3 DEF Good, IInv, Typing, Usable
<1>10. 0 \in 0 .. B - 1 /\ {} \subseteq {CopyU, CopyV, loc.free} /\ FinishWith(0)
  BY <1>1, ZeroLimb DEF Finish
<1>11. CASE c.u # c.r
  <2>1. PICK p : p = var[r].d
    OBVIOUS
  <2>2. heap' = Written(heap, p, n, m)
    BY <1>3, <1>4, <1>5, <1>11, <2>1 DEF TdivSmall
  <2>3. PICK h : h = [var EXCEPT ![r].size = s]
    BY Zenon
  <2>4. var' = [h EXCEPT ![w].size = 0]
    BY <1>3, <1>4, <1>11, <2>3 DEF TdivSmall
  <2>5. /\ h \in [Var \cup {Temp} -> Fields] /\ h[r].size = s /\ h[r].d = var[r].d
        /\ \A y \in Var \cup {Temp} : y # r => h[y] = var[y]
    BY <1>4, <1>9, <2>3 DEF Fields
  <2>6. var'[w].size = 0 /\ var'[w].d = var[w].d /\ \A y \in Var \cup {Temp} : y # w => var'[y] = h[y]
    BY <1>3, <1>9, <2>4, <2>5 DEF Fields
  <2>7. /\ var'[r].size = s /\ var'[r].d = var[r].d
        /\ \A y \in Var \cup {Temp} : y \notin {w, r} => var'[y] = var[y]
    BY <1>3, <1>9, <2>5, <2>6
  <2>8. /\ DOMAIN heap' = DOMAIN heap \ {} /\ heap'[p] = Filled(heap[p], n, m)
        /\ \A q \in DOMAIN heap' : q # p => heap'[q] = heap[q]
    BY <1>7, <2>1, <2>2 DEF Written
  <2>9. Sound(r) /\ BlockOK(heap'[var[r].d])
    <3>1. Put(r, n, m, s)
      BY <1>7, <2>1, <2>7, <2>8 DEF Put
    <3>2. Abs(s) <= n /\ Exactly(Abs(s), m)
      BY <1>4
    <3> QED
      BY <1>3, <1>5, <1>6, <3>1, <3>2, PutSound
  <2>10. Sound(w) /\ BlockOK(heap'[var[w].d])
    <3>1. heap'[var[w].d] = heap[var[w].d] /\ var[w].d \in DOMAIN heap'
      BY <1>7, <2>1, <2>8
    <3> QED
      BY <1>8, <2>6, <3>1, NoneSound
  <2>11. \A q \in DOMAIN heap' : q \notin {var[w].d, var[r].d} => heap'[q] = heap[q]
    BY <2>1, <2>8
  <2>12. pc \in {"enter", "quot", "compute"} /\ c.fn # "mul" /\ calls' = calls
    BY <1>1
  <2>13. DOMAIN heap' = DOMAIN heap \ {}
    BY <2>8
  <2> QED
    BY <1>3, <1>10, <2>6, <2>7, <2>9, <2>10, <2>11, <2>12, <2>13, TwoContents, Zenon
<1>12. CASE c.u = c.r
  <2>1. heap' = heap /\ SetSize(c.w, FALSE, 0)
    <3>1. Signed(FALSE, 0) = 0
      BY SignedIs, Zenon
    <3>2. heap' = heap /\ var' = [var EXCEPT ![c.w].size = 0]
      BY <1>12 DEF TdivSmall
    <3> QED
      BY <3>1, <3>2, Zenon DEF SetSize
  <2> QED
    BY <1>1, <2>1, ZeroContents
<1> QED
  BY <1>11, <1>12

\* The operands of a division when it computes.
LEMMA DivisionOperands ==
  ASSUME Good, pc = "compute", c.fn \in {"tdiv_qr", "tdiv_q", "tdiv_r"}
  PROVE  \E su \in Int, nu \in Nat, u \in Nat, sv \in Int, nv \in Nat, v \in Nat :
           /\ su = loc.us /\ nu = Abs(loc.us) /\ u = Read(loc.up, nu) /\ Exactly(nu, u) /\ su = Size(c.u)
           /\ sv = loc.vs /\ nv = Abs(loc.vs) /\ v = Read(loc.vp, nv) /\ Exactly(nv, v) /\ sv = Size(c.v)
           /\ nv >= 1 /\ v >= 1
           /\ {loc.up, loc.vp} \cap {loc.wp, loc.rp} = {} /\ loc.wp = var[c.w].d /\ loc.rp = var[c.r].d
<1>1. /\ SameLimbs(loc.us, loc.up, c.u) /\ SameLimbs(loc.vs, loc.vp, c.v) /\ loc.vs # 0
      /\ {loc.up, loc.vp} \cap {var[c.w].d, var[c.r].d} = {}
      /\ loc.rp = var[c.r].d
  BY DEF Good, Contents, LocalsOK, DivisionNoted
<1>2. c.u \in Usable /\ c.v \in Usable /\ ~Renewed(c.u) /\ ~Renewed(c.v)
  BY UsableArguments DEF Good, Renewed
<1>3. PICK su \in Int, nu \in Nat, u \in Nat :
        su = Size(c.u) /\ nu = Abs(su) /\ u = Read(var[c.u].d, nu) /\ Exactly(nu, u)
  BY <1>2, VariableReads
<1>4. PICK sv \in Int, nv \in Nat, v \in Nat :
        /\ sv = Size(c.v) /\ nv = Abs(sv) /\ v = Read(var[c.v].d, nv) /\ Exactly(nv, v)
        /\ (nv = 0 <=> v = 0) /\ (sv = 0 <=> nv = 0)
  BY <1>2, VariableReads
<1>5. loc.us = su /\ Read(loc.up, nu) = u /\ loc.vs = sv /\ Read(loc.vp, nv) = v
  BY <1>1, <1>3, <1>4 DEF SameLimbs
<1>6. nv >= 1 /\ v >= 1
  BY <1>1, <1>4, <1>5
<1>7. loc.wp = var[c.w].d
  BY Destination
<1> QED
  BY <1>1, <1>3, <1>4, <1>5, <1>6, <1>7, Zenon

LEMMA TdivQComputeContents ==
  ASSUME Good, TdivQCompute
  PROVE  Contents'
<1>1. pc = "compute" /\ c.fn = "tdiv_q" /\ Finish /\ UNCHANGED calls
  BY DEF TdivQCompute, At
<1>2. PICK su \in Int, nu \in Nat, u \in Nat, sv \in Int, nv \in Nat, v \in Nat :
           /\ su = loc.us /\ nu = Abs(loc.us) /\ u = Read(loc.up, nu) /\ Exactly(nu, u)
           /\ sv = loc.vs /\ nv = Abs(loc.vs) /\ v = Read(loc.vp, nv) /\ Exactly(nv, v)
           /\ nv >= 1 /\ v >= 1
           /\ {loc.up, loc.vp} \cap {loc.wp, loc.rp} = {} /\ loc.wp = var[c.w].d
  BY <1>1, DivisionOperands
<1>3. PICK t \in Nat : t = QuotSize /\ t = nu - nv + 1 /\ nu >= nv /\ t <= var[c.w].alloc
  <2>1. QuotSize = nu - nv + 1 /\ QuotSize >= 1
    BY <1>1, <1>2 DEF QuotSize, Good, Bounds, Computing
  <2>2. Needed = QuotSize
    BY <1>1, NeededHolds DEF NeededIs
  <2>3. QuotSize \in Nat /\ nu >= nv
    BY <2>1
  <2> QED
    BY <1>1, <2>1, <2>2, <2>3, Destination
<1>4. PICK q \in Nat, i \in Nat : q = u \div v /\ q < Base(t) /\ i = LessTop(t, q) /\ i <= t /\ Exactly(i, q)
  <2>1. nv >= 1 /\ nu >= nv /\ Exactly(nu, u) /\ Exactly(nv, v)
    BY <1>2, <1>3
  <2>2. /\ u \div v \in Nat /\ u \div v < Base(nu - nv + 1)
        /\ LessTop(nu - nv + 1, u \div v) \in 0 .. nu - nv + 1
        /\ Exactly(LessTop(nu - nv + 1, u \div v), u \div v)
    BY <2>1, QuotientLimbs
  <2>3. nu - nv + 1 = t
    BY <1>3
  <2> QED
    BY <2>2, <2>3
<1>5. From(u, v, u \div v) = q
  BY <1>4, FromNumbers
<1>6. PICK negative \in BOOLEAN : negative = OppositeSigns(loc.us, loc.vs)
  <2>1. OppositeSigns(loc.us, loc.vs) \in BOOLEAN
    BY DEF OppositeSigns
  <2> QED
    BY <2>1, Zenon
<1>7. PICK S, p : S = {CopyU, CopyV} /\ p = loc.wp /\ p = var[c.w].d
  BY <1>2, Zenon
<1>8. heap' = Without(Written(heap, p, t, q), S) /\ SetSize(c.w, negative, i)
  <2>1. loc.wp \notin {loc.up, loc.vp}
    BY <1>2, Zenon
  <2> QED
    BY <1>2, <1>3, <1>4, <1>5, <1>6, <1>7, <2>1 DEF TdivQCompute
<1>9. S \subseteq {CopyU, CopyV, loc.free}
  BY <1>7
<1> QED
  BY <1>1, <1>3, <1>4, <1>7, <1>8, <1>9, FreesContents

LEMMA TdivRComputeContents ==
  ASSUME Good, TdivRCompute
  PROVE  Contents'
<1>1. pc = "compute" /\ c.fn = "tdiv_r" /\ Finish /\ UNCHANGED calls
  BY DEF TdivRCompute, At
<1>2. PICK su \in Int, nu \in Nat, u \in Nat, sv \in Int, nv \in Nat, v \in Nat :
           /\ su = loc.us /\ nu = Abs(loc.us) /\ u = Read(loc.up, nu) /\ Exactly(nu, u)
           /\ sv = loc.vs /\ nv = Abs(loc.vs) /\ v = Read(loc.vp, nv) /\ Exactly(nv, v)
           /\ nv >= 1 /\ v >= 1
           /\ {loc.up, loc.vp} \cap {loc.wp, loc.rp} = {} /\ loc.wp = var[c.w].d
  BY <1>1, DivisionOperands
<1>3. nv <= var[c.w].alloc
  BY <1>1, <1>2, Destination, NeededHolds DEF NeededIs
<1>4. PICK r \in Nat : r = u % v /\ r < v /\ r < Base(nv)
  <2>1. u % v \in Nat /\ u % v < v
    BY <1>2, Division
  <2>2. v < Base(nv) /\ Base(nv) \in Nat
    BY <1>2, ExactlyZero
  <2> QED
    BY <2>1, <2>2
<1>5. PICK i \in Nat : i = Normalized(nv, r) /\ i <= nv /\ Exactly(i, r)
  BY <1>4, NormalizedExactly
<1>6. From(u, v, u % v) = r
  BY <1>4, FromNumbers
<1>7. PICK negative \in BOOLEAN : negative = (loc.us < 0)
  BY <1>2, SignIs
<1>8. PICK S, p : S = {CopyU, CopyV} /\ p = loc.wp /\ p = var[c.w].d
  BY <1>2, Zenon
<1>9. heap' = Without(Written(heap, p, nv, r), S) /\ SetSize(c.w, negative, i)
  <2>1. loc.wp \notin {loc.up, loc.vp}
    BY <1>2, Zenon
  <2> QED
    BY <1>2, <1>5, <1>6, <1>7, <1>8, <2>1 DEF TdivRCompute
<1>10. S \subseteq {CopyU, CopyV, loc.free}
  BY <1>8
<1> QED
  BY <1>1, <1>3, <1>4, <1>5, <1>8, <1>9, <1>10, FreesContents

LEMMA TdivRSmallContents ==
  ASSUME Good, TdivRSmall
  PROVE  Contents'
<1>1. pc = "quot" /\ c.fn = "tdiv_r" /\ Finish /\ UNCHANGED calls
  BY DEF TdivRSmall, At
<1>2. c.w \in Usable /\ c.u \in Usable
  BY <1>1, UsableArguments DEF Good
<1>3. PICK s \in Int, n \in Nat, m \in Nat :
        s = Size(c.u) /\ n = Abs(s) /\ m = Read(var[c.u].d, n) /\ Exactly(n, m)
  BY <1>1, <1>2, VariableReads DEF Renewed
<1>4. n = Abs(loc.us) /\ n <= var[c.w].alloc
  <2>1. loc.us = Size(c.u) /\ Abs(loc.vs) <= var[c.w].alloc /\ Abs(loc.us) < Abs(loc.vs)
    BY <1>1 DEF Good, Bounds, Dividing
  <2>2. Abs(loc.vs) \in Nat /\ var[c.w].alloc \in Nat
    BY <1>1, <1>2, Running, Known, Zenon DEF Good, Bounds
  <2> QED
    BY <1>3, <2>1, <2>2
<1>5. CASE c.u # c.w
  <2>1. PICK negative \in BOOLEAN, n2 \in Nat : n2 = Abs(s) /\ s = Signed(negative, n2)
    BY SignedWith
  <2>2. PICK p : p = var[c.w].d /\ heap' = Written(heap, p, n, m)
    BY <1>3, <1>4, <1>5 DEF TdivRSmall
  <2>3. SetSize(c.w, negative, n)
    BY <1>3, <1>5, <2>1 DEF TdivRSmall, SetSize
  <2>4. m < Base(n) /\ n <= n
    BY <1>3, ExactlyZero
  <2> QED
    BY <1>1, <1>3, <1>4, <2>2, <2>3, <2>4, WritesContents, Zenon
<1>6. CASE c.u = c.w
  BY <1>1, <1>6, SameContents DEF TdivRSmall
<1> QED
  BY <1>5, <1>6

-----------------------------------------------------------------------------
(* Results: both results of a division, and the divisions by a limb.        *)

LEMMA TdivComputeContents ==
  ASSUME Good, TdivCompute
  PROVE  Contents'
<1>1. pc = "compute" /\ c.fn = "tdiv_qr" /\ Finish /\ UNCHANGED calls
  BY DEF TdivCompute, At
<1>2. PICK su \in Int, nu \in Nat, u \in Nat, sv \in Int, nv \in Nat, v \in Nat :
           /\ su = loc.us /\ nu = Abs(loc.us) /\ u = Read(loc.up, nu) /\ Exactly(nu, u) /\ su = Size(c.u)
           /\ sv = loc.vs /\ nv = Abs(loc.vs) /\ v = Read(loc.vp, nv) /\ Exactly(nv, v) /\ sv = Size(c.v)
           /\ nv >= 1 /\ v >= 1
           /\ {loc.up, loc.vp} \cap {loc.wp, loc.rp} = {} /\ loc.wp = var[c.w].d /\ loc.rp = var[c.r].d
  BY <1>1, DivisionOperands
<1>3. PICK w, r : w = c.w /\ r = c.r /\ w \in Usable /\ r \in Usable /\ r # w
  <2>1. c.w \in Usable /\ c.r \in Usable /\ todo # <<>>
    BY <1>1, UsableArguments, Running DEF Good
  <2>2. c.r # c.w
    <3>1. 1 \in 1 .. Len(todo) /\ c = todo[1]
      BY <2>1, Arguments DEF Good
    <3> QED
      BY <1>1, <3>1 DEF Good, Contents, TasksOK, TaskOK, Calculator!TwoResults, Calculator!QuotRemFns
  <2> QED
    BY <2>1, <2>2
<1>4. PICK t \in Nat : t = QuotSize /\ t = nu - nv + 1 /\ nu >= nv /\ t <= var[w].alloc
  <2>1. QuotSize = nu - nv + 1 /\ QuotSize >= 1
    BY <1>1, <1>2 DEF QuotSize, Good, Bounds, Computing
  <2>2. Needed = QuotSize
    BY <1>1, NeededHolds DEF NeededIs
  <2>3. QuotSize \in Nat /\ nu >= nv
    BY <2>1
  <2> QED
    BY <1>1, <1>3, <2>1, <2>2, <2>3, Destination
<1>5. PICK p, k : p = var[w].d /\ k = var[r].d /\ p # k /\ p \in DOMAIN heap /\ k \in DOMAIN heap
                  /\ p \notin {CopyU, CopyV} /\ k \notin {CopyU, CopyV}
  BY <1>3, Known, OthersBlocks DEF Good, Bounds
<1>6. nv <= var[r].alloc
  <2>1. Abs(loc.vs) <= heap[loc.rp].len /\ heap[k].len = var[r].alloc
    BY <1>1, <1>3, <1>5, Known DEF Good, Bounds, PointersLive
  <2> QED
    BY <1>2, <1>3, <1>5, <2>1
<1>7. PICK q \in Nat, i \in Nat : q = u \div v /\ q < Base(t) /\ i = LessTop(t, q) /\ i <= t /\ Exactly(i, q)
  BY <1>2, <1>4, QuotientLimbs
<1>8. PICK x \in Nat : x = u % v /\ x < v /\ x < Base(nv)
  <2>1. u % v \in Nat /\ u % v < v
    BY <1>2, Division
  <2>2. v < Base(nv) /\ Base(nv) \in Nat
    BY <1>2, ExactlyZero
  <2> QED
    BY <2>1, <2>2
<1>9. PICK j \in Nat : j = Normalized(nv, x) /\ j <= nv /\ Exactly(j, x)
  BY <1>8, NormalizedExactly
<1>10. From(u, v, u \div v) = q /\ From(u, v, u % v) = x
  BY <1>7, <1>8, FromNumbers
<1>11. PICK negative \in BOOLEAN, below \in BOOLEAN : negative = OppositeSigns(loc.us, loc.vs) /\ below = (loc.us < 0)
  <2>1. OppositeSigns(loc.us, loc.vs) \in BOOLEAN
    BY DEF OppositeSigns
  <2>2. \E below \in BOOLEAN : below = (loc.us < 0)
    BY <1>2, SignIs
  <2> QED
    BY <2>1, <2>2, Zenon
<1>12. PICK sw \in Int, sr \in Int : sw = Signed(negative, i) /\ sr = Signed(below, j) /\ Abs(sw) = i /\ Abs(sr) = j
  <2>1. Signed(negative, i) \in Int /\ Abs(Signed(negative, i)) = i
    BY <1>7, <1>11, SignedFacts
  <2>2. Signed(below, j) \in Int /\ Abs(Signed(below, j)) = j
    BY <1>9, <1>11, SignedFacts, Zenon
  <2> QED
    BY <2>1, <2>2, Zenon
<1>13. PICK S : S = {CopyU, CopyV} /\ p \notin S /\ k \notin S
  BY <1>5, Zenon
<1>14. /\ heap' = Without(Written(Written(heap, p, t, q), k, nv, x), S)
       /\ var' = [var EXCEPT ![w].size = sw, ![r].size = sr]
  <2>1. {loc.up, loc.vp} \cap {loc.wp, loc.rp} = {} /\ loc.wp = p /\ loc.rp = k
    BY <1>2, <1>3, <1>5
  <2> QED
    BY <1>2, <1>3, <1>4, <1>7, <1>9, <1>10, <1>11, <1>12, <1>13, <2>1, Zenon DEF TdivCompute
<1>15. /\ DOMAIN heap' = DOMAIN heap \ S
       /\ heap'[p] = Filled(heap[p], t, q) /\ heap'[k] = Filled(heap[k], nv, x)
       /\ \A z \in DOMAIN heap' : z \notin {p, k} => heap'[z] = heap[z]
  <2>1. PICK h : h = Written(heap, p, t, q)
    OBVIOUS
  <2>2. PICK g : g = Written(h, k, nv, x)
    OBVIOUS
  <2>3. heap' = Without(g, S)
    BY <1>14, <2>1, <2>2
  <2>4. /\ DOMAIN h = DOMAIN heap /\ h[p] = Filled(heap[p], t, q)
        /\ \A z \in DOMAIN heap : z # p => h[z] = heap[z]
    BY <1>5, <2>1 DEF Written
  <2>5. DOMAIN g = DOMAIN h /\ g[k] = Filled(h[k], nv, x) /\ \A z \in DOMAIN h : z # k => g[z] = h[z]
    BY <1>5, <2>2, <2>4 DEF Written
  <2>6. DOMAIN heap' = DOMAIN g \ S /\ \A z \in DOMAIN heap' : heap'[z] = g[z]
    BY <2>3 DEF Without
  <2>7. DOMAIN heap' = DOMAIN heap \ S /\ p \in DOMAIN heap' /\ k \in DOMAIN heap'
    BY <1>5, <1>13, <2>4, <2>5, <2>6
  <2>8. heap'[p] = Filled(heap[p], t, q) /\ heap'[k] = Filled(heap[k], nv, x)
    BY <1>5, <2>4, <2>5, <2>6, <2>7
  <2>9. \A z \in DOMAIN heap' : z \notin {p, k} => heap'[z] = heap[z]
    BY <2>4, <2>5, <2>6, <2>7
  <2> QED
    BY <2>7, <2>8, <2>9
<1>16. /\ var'[w].size = sw /\ var'[w].d = var[w].d /\ var'[r].size = sr /\ var'[r].d = var[r].d
       /\ \A y \in Var \cup {Temp} : y \notin {w, r} => var'[y] = var[y]
  <2>1. var \in [Var \cup {Temp} -> Fields] /\ w \in Var \cup {Temp} /\ r \in Var \cup {Temp}
    BY <1>3 DEF Good, IInv, Typing, Usable
  <2>2. PICK h : h = [var EXCEPT ![w].size = sw]
    BY Zenon
  <2>3. var' = [h EXCEPT ![r].size = sr]
    BY <1>14, <2>2
  <2>4. /\ h \in [Var \cup {Temp} -> Fields] /\ h[w].size = sw /\ h[w].d = var[w].d
        /\ \A y \in Var \cup {Temp} : y # w => h[y] = var[y]
    BY <1>12, <2>1, <2>2 DEF Fields
  <2>5. /\ var'[r].size = sr /\ var'[r].d = h[r].d
        /\ \A y \in Var \cup {Temp} : y # r => var'[y] = h[y]
    BY <1>12, <2>1, <2>3, <2>4 DEF Fields
  <2> QED
    BY <1>3, <2>1, <2>4, <2>5
<1>17. Put(w, t, q, sw) /\ Put(r, nv, x, sr)
  <2>1. p \in DOMAIN heap' /\ k \in DOMAIN heap'
    BY <1>5, <1>13, <1>15
  <2> QED
    BY <1>5, <1>15, <1>16, <2>1 DEF Put
<1>18. Sound(w) /\ BlockOK(heap'[var[w].d])
  BY <1>3, <1>4, <1>7, <1>12, <1>17, PutSound
<1>19. Sound(r) /\ BlockOK(heap'[var[r].d])
  BY <1>3, <1>6, <1>8, <1>9, <1>12, <1>17, PutSound
<1>20. 0 \in 0 .. B - 1 /\ S \subseteq {CopyU, CopyV, loc.free} /\ FinishWith(0)
  BY <1>1, <1>13, ZeroLimb DEF Finish
<1>21. \A z \in DOMAIN heap' : z \notin {var[w].d, var[r].d} => heap'[z] = heap[z]
  BY <1>5, <1>15
<1>22. pc \in {"enter", "quot", "compute"} /\ c.fn # "mul" /\ calls' = calls
  BY <1>1
<1> QED
  BY <1>3, <1>15, <1>16, <1>18, <1>19, <1>20, <1>21, <1>22, TwoContents, Zenon

\* The quotient of n limbs by one, whichever way it is rounded, has n limbs or n - 1.
LEMMA UiQuotient ==
  ASSUME NEW n \in Nat, n >= 1, NEW m \in Nat, Exactly(n, m), NEW k \in Nat, k >= 1, k < B,
         NEW e \in {0, 1}, e = 1 => m % k # 0
  PROVE  /\ m \div k + e \in Nat /\ m \div k + e < Base(n)
         /\ LessTop(n, m \div k + e) \in 0 .. n /\ Exactly(LessTop(n, m \div k + e), m \div k + e)
<1>1. PICK q, d : q = m \div k /\ d = m % k
  OBVIOUS
<1>2. m \in Int /\ m >= 0 /\ k >= 1
  OBVIOUS
<1>3. m \div k \in Nat /\ m % k \in Nat /\ m % k < k /\ m = k * (m \div k) + (m % k)
  BY <1>2, Division
<1>4. q \in Nat /\ d \in Nat /\ d < k /\ m = k * q + d
  BY <1>1, <1>3, Zenon
<1>5. PICK z \in Nat : z = k * q
  BY <1>4
<1>6. m = z + d
  BY <1>4, <1>5
<1>7. q + e <= m
  <2>1. q <= z
    BY <1>4, <1>5, ProductGrows
  <2>2. CASE e = 0
    BY <1>4, <1>6, <2>1, <2>2
  <2>3. CASE e = 1
    <3>1. d >= 1
      BY <1>1, <1>4, <2>3
    <3> QED
      BY <1>4, <1>6, <2>1, <2>3, <3>1
  <2> QED
    BY <2>2, <2>3
<1>8. q + e \in Nat /\ q + e < Base(n)
  <2>1. m < Base(n) /\ Base(n) \in Nat
    BY ExactlyZero
  <2> QED
    BY <1>4, <1>7, <2>1
<1>9. ASSUME n >= 2
      PROVE  q + e >= Base(n - 2)
  <2>1. PICK i \in Nat : i = n - 2
    BY <1>9
  <2>2. PICK b \in Nat, a \in Nat : b = Base(i) /\ a = Base(i + 1) /\ a = B * b /\ B \in Nat
    <3>1. i + 1 \in Nat
      OBVIOUS
    <3>2. Base(i + 1) \in Nat
      BY <3>1, BaseFacts, Zenon
    <3>3. Base(i) \in Nat /\ Base(i + 1) = B * Base(i) /\ B \in Nat
      BY BaseFacts, Zenon
    <3> QED
      BY <3>2, <3>3
  <2>3. m >= a
    <3>1. i + 1 = n - 1
      BY <2>1
    <3>2. m >= Base(n - 1)
      BY ExactlyZero
    <3> QED
      BY <2>2, <3>1, <3>2
  <2>4. ASSUME q + 1 <= b
        PROVE  FALSE
    <3>1. PICK f \in Nat : f = k * (q + 1) /\ f = z + k
      <4>1. k * (q + 1) = k * q + k /\ k * (q + 1) \in Nat
        BY <1>4
      <4> QED
        BY <1>5, <4>1
    <3>2. f <= B * b
      <4>1. k <= B /\ q + 1 \in Nat
        BY <1>4, <2>2
      <4> QED
        BY <2>2, <2>4, <3>1, <4>1, ProductOrder
    <3> QED
      BY <1>4, <1>6, <2>2, <2>3, <3>1, <3>2
  <2>5. q >= b
    BY <1>4, <2>2, <2>4
  <2> QED
    BY <1>4, <2>1, <2>2, <2>5
<1>10. LessTop(n, q + e) \in 0 .. n /\ Exactly(LessTop(n, q + e), q + e)
  BY <1>8, <1>9, LessTopExactly
<1> QED
  BY <1>1, <1>8, <1>10

\* The divisions by a limb: a quotient in place of the dividend, a remainder in one limb.
LEMMA UiDivContents ==
  ASSUME Good, NEW fn \in Calculator!DivUiFns, NEW away \in BOOLEAN, NEW sign \in {-1, 1}, UiDiv(fn, away, sign)
  PROVE  Contents'
<1>1. pc = "compute" /\ c.fn = fn /\ UNCHANGED calls
  BY DEF UiDiv, At
<1>2. PICK s \in Int, n \in Nat, m \in Nat :
           s = loc.us /\ n = Abs(loc.us) /\ m = Read(loc.up, n) /\ Exactly(n, m) /\ (s = 0 <=> n = 0)
  BY <1>1, OperandReads DEF Calculator!OneOperand
<1>3. c.w \in Var /\ c.w \in Usable /\ todo # <<>> /\ loc.wp = var[c.w].d
      /\ var[c.w].alloc \in Nat /\ var[c.w].alloc >= 1 /\ Needed <= var[c.w].alloc
  BY <1>1, Destination
<1>4. c.k \in Nat /\ c.k < B /\ c.k # 0 /\ n >= 1
  <2>1. c.k # 0 /\ loc.us # 0
    BY <1>1 DEF Good, Contents, LocalsOK, OneNoted
  <2>2. c.k \in Nat /\ c.k < B
    BY <1>1, <1>3, LimbArgument
  <2> QED
    BY <1>2, <2>1, <2>2
<1>5. PICK k \in Nat : k = c.k /\ k >= 1 /\ k < B
  BY <1>4
<1>6. PICK down \in Nat : down = m % k /\ down < k
  BY <1>5, Division
<1>7. PICK e \in {0, 1} : (e = 1 <=> (down # 0 /\ away)) /\ (e = 0 <=> ~(down # 0 /\ away))
  OBVIOUS
<1>8. PICK quot \in Nat, i \in Nat : quot = m \div k + e /\ quot < Base(n) /\ i = LessTop(n, quot)
                                     /\ i <= n /\ Exactly(i, quot)
  BY <1>2, <1>4, <1>5, <1>6, <1>7, UiQuotient
<1>9. PICK rem \in Nat : rem = (IF e = 1 THEN k - down ELSE down) /\ rem < k
  BY <1>5, <1>6, <1>7
<1>10. rem \in 0 .. B - 1 /\ rem < B
  BY <1>5, <1>9, ZeroLimb
<1>11. From(m, m, m % k) = down /\ From(m, m, m \div k + e) = quot
  BY <1>6, <1>8, FromNumbers
<1>12. (down \notin {0, Junk} /\ away) = (e = 1)
  <2>1. down # Junk
    BY <1>6, NotJunk
  <2> QED
    BY <1>7, <2>1
<1>13. PICK r : r = IF HasQuot(fn) THEN c.r ELSE c.w
  OBVIOUS
<1>14. PICK divided : divided = IF HasQuot(fn) THEN Written(heap, var[c.w].d, n, quot) ELSE heap
  OBVIOUS
<1>15. PICK full \in Int, zero \in Int :
         /\ full = Signed(loc.us < 0, i) /\ Abs(full) = i
         /\ zero = (IF rem = 0 THEN 0 ELSE sign) /\ Abs(zero) = (IF rem = 0 THEN 0 ELSE 1)
  <2>1. PICK below \in BOOLEAN : below = (loc.us < 0)
    BY <1>2, SignIs
  <2>2. Signed(below, i) \in Int /\ Abs(Signed(below, i)) = i
    BY <1>8, <2>1, SignedFacts, Zenon
  <2>3. PICK zero \in Int : zero = (IF rem = 0 THEN 0 ELSE sign)
    OBVIOUS
  <2>4. Abs(zero) = (IF rem = 0 THEN 0 ELSE 1)
    BY <2>3 DEF Abs
  <2> QED
    BY <2>1, <2>2, <2>3, <2>4
<1>16. /\ heap' = IF HasRem(fn) /\ rem # 0 THEN Written(divided, var[r].d, 1, rem) ELSE divided
       /\ var' = [x \in DOMAIN var |-> [var[x] EXCEPT !.size =
            IF HasQuot(fn) /\ x = c.w THEN full ELSE IF HasRem(fn) /\ x = r THEN zero ELSE @]]
       /\ FinishWith(rem)
  BY <1>2, <1>3, <1>5, <1>6, <1>8, <1>9, <1>11, <1>12, <1>13, <1>14, <1>15 DEF UiDiv
<1>17. ASSUME NEW x \in Var \cup {Temp}
       PROVE  /\ var'[x].d = var[x].d
              /\ HasQuot(fn) /\ x = c.w => var'[x].size = full
              /\ HasRem(fn) /\ x = r /\ ~(HasQuot(fn) /\ x = c.w) => var'[x].size = zero
              /\ ~(HasQuot(fn) /\ x = c.w) /\ ~(HasRem(fn) /\ x = r) => var'[x] = var[x]
  <2>1. var \in [Var \cup {Temp} -> Fields] /\ x \in DOMAIN var /\ var[x] \in Fields
    BY DEF Good, IInv, Typing
  <2>2. PICK t : t = IF HasQuot(fn) /\ x = c.w THEN full ELSE IF HasRem(fn) /\ x = r THEN zero ELSE var[x].size
    OBVIOUS
  <2>3. var'[x] = [var[x] EXCEPT !.size = t]
    BY <1>16, <2>1, <2>2
  <2>4. var'[x].d = var[x].d /\ var'[x].size = t
    BY <2>1, <2>3 DEF Fields
  <2>5. t = var[x].size => var'[x] = var[x]
    BY <2>1, <2>3 DEF Fields
  <2> QED
    BY <2>2, <2>4, <2>5
\* The variables that may change.
<1>18. PICK w, y : w = c.w /\ y = (IF HasQuot(fn) /\ HasRem(fn) THEN c.r ELSE c.w)
  OBVIOUS
<1>19. w \in Usable /\ y \in Usable /\ w \in Var /\ y \in Var
  <2>1. c.r \in Var \cup {Temp} /\ TempUse(c)
    BY <1>3, Arguments DEF Good
  <2>2. c.r # Temp
    BY <1>1, <2>1 DEF TempUse, Calculator!DivUiFns, Calculator!QuotUiFns, Calculator!RemUiFns,
         Calculator!QuotRemUiFns, Calculator!OnlyUiFns
  <2> QED
    BY <1>3, <1>18, <2>1, <2>2 DEF Usable
<1>20. HasQuot(fn) /\ HasRem(fn) => w # y /\ r = y
  <2>1. 1 \in 1 .. Len(todo) /\ c = todo[1]
    BY <1>3, Arguments DEF Good
  <2>2. HasQuot(fn) /\ HasRem(fn) => fn \in Calculator!QuotRemUiFns
    BY DEF HasQuot, HasRem, Calculator!QuotUiFns, Calculator!RemUiFns, Calculator!QuotRemUiFns
  <2>3. TaskOK(c)
    BY <2>1 DEF Good, Contents, TasksOK
  <2>4. fn \in Calculator!QuotRemUiFns => c.r # c.w
    BY <1>1, <2>3 DEF TaskOK, Calculator!TwoResults
  <2> QED
    BY <1>13, <1>18, <2>2, <2>4
<1>21. HasRem(fn) => r = y
  BY <1>13, <1>18
<1>22. PICK p, k2 : /\ p = var[w].d /\ k2 = var[y].d /\ p \in DOMAIN heap /\ k2 \in DOMAIN heap
                    /\ (w # y => p # k2) /\ (w = y => p = k2) /\ BlockOK(heap[p]) /\ BlockOK(heap[k2])
  <2>1. var[w].d \in DOMAIN heap /\ var[y].d \in DOMAIN heap
    BY <1>19, Known DEF Good, Bounds
  <2>2. BlockOK(heap[var[w].d]) /\ BlockOK(heap[var[y].d])
    BY <2>1 DEF Good, Contents, BlocksOK
  <2>3. w # y => var[w].d # var[y].d
    BY <1>19, OthersBlocks DEF Good, Bounds
  <2> QED
    BY <2>1, <2>2, <2>3
<1>23. n <= var[w].alloc \/ ~HasQuot(fn)
  BY <1>1, <1>2, <1>3, <1>18, NeededHolds DEF NeededIs
<1>24. 1 <= var[w].alloc /\ 1 <= var[y].alloc
  BY <1>19, SizesSay DEF Good, Bounds
\* What the blocks hold.
<1>25. /\ DOMAIN divided = DOMAIN heap
       /\ divided[p] = (IF HasQuot(fn) THEN Filled(heap[p], n, quot) ELSE heap[p])
       /\ \A z \in DOMAIN heap : z # p => divided[z] = heap[z]
  <2>1. divided = IF HasQuot(fn) THEN Written(heap, p, n, quot) ELSE heap
    BY <1>14, <1>18, <1>22
  <2> QED
    BY <1>22, <2>1 DEF Written
<1>26. /\ DOMAIN heap' = DOMAIN heap
       /\ HasRem(fn) /\ rem # 0 => heap'[k2] = Filled(divided[k2], 1, rem)
       /\ \A z \in DOMAIN heap : z # k2 \/ ~HasRem(fn) \/ rem = 0 => heap'[z] = divided[z]
  <2>1. heap' = IF HasRem(fn) /\ rem # 0 THEN Written(divided, k2, 1, rem) ELSE divided
    BY <1>16, <1>21, <1>22
  <2> QED
    BY <1>22, <1>25, <2>1 DEF Written
<1>27. HasQuot(fn) => Sound(w) /\ BlockOK(heap'[p])
  <2>1. ASSUME HasQuot(fn)
        PROVE  Sound(w) /\ BlockOK(heap'[p])
    <3>1. heap'[p] = Filled(heap[p], n, quot)
      <4>1. p # k2 \/ ~HasRem(fn)
        BY <1>20, <1>22, <2>1
      <4> QED
        BY <1>22, <1>25, <1>26, <2>1, <4>1
    <3>2. var'[w].d = var[w].d /\ var'[w].size = full
      BY <1>17, <1>18, <1>19, <2>1
    <3>3. Put(w, n, quot, full)
      BY <1>22, <1>26, <3>1, <3>2 DEF Put
    <3>4. n <= var[w].alloc
      BY <1>23, <2>1
    <3> QED
      BY <1>8, <1>15, <1>19, <1>22, <3>3, <3>4, PutSound
  <2> QED
    BY <2>1
<1>28. HasRem(fn) => Sound(y) /\ BlockOK(heap'[k2])
  <2>1. ASSUME HasRem(fn)
        PROVE  Sound(y) /\ BlockOK(heap'[k2])
    <3>1. divided[k2] = heap[k2]
      BY <1>18, <1>20, <1>22, <1>25, <2>1
    <3>2. var'[y].d = var[y].d /\ var'[y].size = zero
      BY <1>17, <1>18, <1>19, <1>20, <1>21, <2>1
    <3>3. CASE rem = 0
      <4>1. heap'[k2] = heap[k2] /\ var'[y].size = 0
        BY <1>15, <1>22, <1>26, <3>1, <3>2, <3>3
      <4> QED
        BY <1>22, <1>26, <3>2, <4>1, NoneSound
    <3>4. CASE rem # 0
      <4>1. heap'[k2] = Filled(heap[k2], 1, rem)
        BY <1>26, <2>1, <3>1, <3>4
      <4>2. Put(y, 1, rem, zero)
        BY <1>22, <1>26, <3>2, <4>1 DEF Put
      <4>3. Abs(zero) <= 1 /\ Exactly(Abs(zero), rem) /\ rem < Base(1)
        BY <1>10, <1>15, <3>4, OneLimb
      <4> QED
        BY <1>15, <1>19, <1>22, <1>24, <4>2, <4>3, PutSound
    <3> QED
      BY <3>3, <3>4
  <2> QED
    BY <2>1
<1>29. \A z \in DOMAIN heap' : z \notin {var[w].d, var[y].d} => heap'[z] = heap[z]
  BY <1>22, <1>25, <1>26
<1>30. \A x \in Var \cup {Temp} : x \notin {w, y} => var'[x] = var[x]
  <2>1. HasRem(fn) => r = y
    BY <1>21
  <2> QED
    BY <1>17, <1>18, <2>1
<1>31. ~HasQuot(fn) /\ ~HasRem(fn) => Sound(w) /\ BlockOK(heap'[p])
  <2>1. ASSUME ~HasQuot(fn), ~HasRem(fn)
        PROVE  Sound(w) /\ BlockOK(heap'[p])
    <3>1. heap'[p] = heap[p] /\ var'[w] = var[w] /\ p \in DOMAIN heap'
      BY <1>17, <1>19, <1>22, <1>25, <1>26, <2>1
    <3>2. NumberAt(var[w].d, Size(w))
      <4>1. c.fn # "mul"
        BY <1>1 DEF Calculator!DivUiFns, Calculator!QuotUiFns, Calculator!RemUiFns,
           Calculator!QuotRemUiFns, Calculator!OnlyUiFns
      <4> QED
        BY <1>19, <4>1, HasNumber DEF Renewed
    <3>3. var[w].size = Size(w)
      BY <1>19, Known DEF Good, Bounds
    <3> QED
      BY <1>22, <3>1, <3>2, <3>3 DEF Sound, NumberAt
  <2> QED
    BY <2>1
<1>32. /\ Sound(w) /\ var'[w].d = var[w].d /\ BlockOK(heap'[var[w].d])
       /\ Sound(y) /\ var'[y].d = var[y].d /\ BlockOK(heap'[var[y].d])
  <2>1. var'[w].d = var[w].d /\ var'[y].d = var[y].d
    BY <1>17, <1>19
  <2>2. (HasQuot(fn) /\ HasRem(fn)) \/ w = y
    BY <1>18
  <2> QED
    BY <1>22, <1>27, <1>28, <1>31, <2>1, <2>2
<1>33. c.fn # "mul" /\ DOMAIN heap' = DOMAIN heap \ {} /\ {} \subseteq {CopyU, CopyV, loc.free}
  BY <1>1, <1>26 DEF Calculator!DivUiFns, Calculator!QuotUiFns, Calculator!RemUiFns,
     Calculator!QuotRemUiFns, Calculator!OnlyUiFns
<1>34. pc \in {"enter", "quot", "compute"} /\ calls' = calls /\ FinishWith(rem)
  BY <1>1, <1>16
<1> QED
  BY <1>10, <1>19, <1>29, <1>30, <1>32, <1>33, <1>34, TwoContents, Zenon

-----------------------------------------------------------------------------
(* Results: products, and products added to the destination.                *)

LEMMA MulComputeContents ==
  ASSUME Good, MulCompute
  PROVE  Contents'
<1>1. pc = "compute" /\ c.fn = "mul" /\ Finish /\ UNCHANGED calls
  BY DEF MulCompute, At
<1>2. /\ loc.us # 0 /\ loc.vs # 0 /\ NumberAt(loc.up, loc.us) /\ NumberAt(loc.vp, loc.vs)
      /\ Abs(loc.vs) = 1 \/ loc.wp \notin {loc.up, loc.vp}
  BY <1>1 DEF Good, Contents, LocalsOK, ProductNoted
<1>16. loc.us \in Int /\ loc.vs \in Int
  BY <1>1, Running DEF Good
<1>3. PICK su \in Int, n \in Nat : su = loc.us /\ n = Abs(loc.us) /\ n >= 1
  BY <1>2, <1>16 DEF Abs
<1>4. PICK sv \in Int, m \in Nat : sv = loc.vs /\ m = Abs(loc.vs) /\ m >= 1
  BY <1>2, <1>16 DEF Abs
<1>5. PICK u \in Nat : u = Read(loc.up, n) /\ Exactly(n, u)
  <2>1. NumberAt(loc.up, su) /\ n = Abs(su) /\ BlocksOK
    BY <1>2, <1>3 DEF Good, Contents
  <2> QED
    BY <2>1, WholeReads
<1>6. PICK v \in Nat : v = Read(loc.vp, m) /\ Exactly(m, v)
  <2>1. NumberAt(loc.vp, sv) /\ m = Abs(sv) /\ BlocksOK
    BY <1>2, <1>4 DEF Good, Contents
  <2> QED
    BY <2>1, WholeReads
<1>7. PICK x \in Nat, i \in 0 .. n + m : x = u * v /\ i = LessTop(n + m, x) /\ Exactly(i, x) /\ x < Base(n + m)
  <2>1. n >= 1 /\ m >= 1 /\ Exactly(n, u) /\ Exactly(m, v)
    BY <1>3, <1>4, <1>5, <1>6
  <2> QED
    BY <2>1, ProductLimbs
<1>8. From(u, v, u * v) = x
  BY <1>5, <1>6, <1>7, FromNumbers
<1>9. n + m \in Nat /\ n + m <= var[c.w].alloc /\ i \in Nat /\ i <= n + m
  <2>1. Needed = Abs(loc.us) + Abs(loc.vs)
    BY <1>1, NeededHolds DEF NeededIs
  <2> QED
    BY <1>1, <1>3, <1>4, <1>7, <2>1, Destination
<1>10. PICK negative \in BOOLEAN : negative = OppositeSigns(loc.us, loc.vs)
  <2>1. OppositeSigns(loc.us, loc.vs) \in BOOLEAN
    BY DEF OppositeSigns
  <2> QED
    BY <2>1, Zenon
<1>15. loc.wp = var[c.w].d
  BY <1>1, Destination
<1>11. PICK S, p, t : S = {loc.free, CopyU, CopyV} /\ p = loc.wp /\ p = var[c.w].d /\ t \in Nat /\ t = n + m
  BY <1>9, <1>15, Zenon
<1>12. heap' = Without(Written(heap, p, t, x), S) /\ SetSize(c.w, negative, i)
  BY <1>2, <1>3, <1>4, <1>5, <1>6, <1>7, <1>8, <1>10, <1>11 DEF MulCompute
<1>13. S \subseteq {CopyU, CopyV, loc.free} /\ t <= var[c.w].alloc /\ x < Base(t) /\ i <= t
  BY <1>7, <1>9, <1>11
<1> QED
  BY <1>1, <1>7, <1>9, <1>11, <1>12, <1>13, FreesContents

\* The sum of two numbers has the limbs of the longer one, or one more; their
\* difference has no more.
LEMMA LongerLimbs ==
  ASSUME NEW n \in Nat, NEW m \in Nat, NEW t \in Nat, t = MaxOf(n, m),
         NEW x \in Nat, Exactly(n, x), NEW y \in Nat, Exactly(m, y)
  PROVE  /\ x < Base(t) /\ y < Base(t)
         /\ x + y \in Nat /\ x + y < Base(t + 1)
         /\ LessTop(t + 1, x + y) \in 0 .. t + 1 /\ Exactly(LessTop(t + 1, x + y), x + y)
         /\ Abs(x - y) \in Nat /\ Abs(x - y) < Base(t)
<1>1. n <= t /\ m <= t /\ (t = n \/ t = m)
  BY DEF MaxOf
<1>2. PICK i \in Nat, j \in Nat, b \in Nat : i = Base(n) /\ j = Base(m) /\ b = Base(t) /\ i <= b /\ j <= b
  BY <1>1, BaseFacts, Zenon
<1>3. x < b /\ y < b
  <2>1. x < i /\ y < j
    BY <1>2, ExactlyZero
  <2> QED
    BY <1>2, <2>1
<1>4. /\ x + y \in Nat /\ x + y < Base(t + 1)
      /\ LessTop(t + 1, x + y) \in 0 .. t + 1 /\ Exactly(LessTop(t + 1, x + y), x + y)
  <2>1. CASE t = n
    BY <1>2, <1>3, <2>1, SumLimbs
  <2>2. CASE t = m
    <3>1. x < Base(m)
      BY <1>2, <1>3, <2>2
    <3>2. /\ y + x \in Nat /\ y + x < Base(m + 1)
          /\ LessTop(m + 1, y + x) \in 0 .. m + 1 /\ Exactly(LessTop(m + 1, y + x), y + x)
      BY <3>1, SumLimbs
    <3>3. y + x = x + y
      OBVIOUS
    <3> QED
      BY <2>2, <3>2, <3>3
  <2> QED
    BY <1>1, <2>1, <2>2
<1>5. Abs(x - y) \in Nat /\ Abs(x - y) < b
  BY <1>2, <1>3 DEF Abs
<1> QED
  BY <1>2, <1>3, <1>4, <1>5

\* The operands of mpz_addmul and mpz_submul, and the destination.
LEMMA AorsmulOperands ==
  ASSUME Good, pc = "compute", c.fn \in AorsFns
  PROVE  /\ \E nu \in Nat, u \in Nat : nu = Abs(loc.us) /\ u = Read(loc.up, nu) /\ Exactly(nu, u) /\ nu >= 1
         /\ \E nv \in Nat, v \in Nat : nv = Abs(loc.vs) /\ v = Read(loc.vp, nv) /\ Exactly(nv, v) /\ nv >= 1
         /\ \E n \in Nat, w \in Nat : /\ n = Abs(Size(c.w)) /\ w = Read(loc.wp, n) /\ Exactly(n, w)
                                      /\ (n = 0 => loc.wp \notin {loc.up, loc.vp})
<1>1. Points(loc.us, loc.up, Longer) /\ Points(loc.vs, loc.vp, Shorter) /\ loc.vs # 0
  BY DEF Good, Contents, LocalsOK, SumNoted
<1>2. c.w \in Usable /\ Longer \in Usable /\ Shorter \in Usable
  BY UsableArguments DEF Good, Longer, Shorter
<1>3. ~Renewed(c.w) /\ ~Renewed(Longer) /\ ~Renewed(Shorter)
  BY DEF Renewed, AorsFns
<1>4. PICK su \in Int, nu \in Nat, u \in Nat :
        su = Size(Longer) /\ nu = Abs(su) /\ u = Read(var[Longer].d, nu) /\ Exactly(nu, u) /\ (su = 0 <=> nu = 0)
  BY <1>2, <1>3, VariableReads
<1>5. PICK sv \in Int, nv \in Nat, v \in Nat :
        sv = Size(Shorter) /\ nv = Abs(sv) /\ v = Read(var[Shorter].d, nv) /\ Exactly(nv, v) /\ (sv = 0 <=> nv = 0)
  BY <1>2, <1>3, VariableReads
<1>6. PICK sw \in Int, n \in Nat, w \in Nat :
        sw = Size(c.w) /\ n = Abs(sw) /\ w = Read(var[c.w].d, n) /\ Exactly(n, w) /\ (sw = 0 <=> n = 0)
  BY <1>2, <1>3, VariableReads
<1>7. loc.us = su /\ loc.up = var[Longer].d /\ loc.vs = sv /\ loc.vp = var[Shorter].d /\ loc.wp = var[c.w].d
  BY <1>1, <1>4, <1>5, Destination DEF Points
<1>8. nv >= 1 /\ nu >= nv
  <2>1. nv >= 1
    BY <1>1, <1>5, <1>7
  <2>2. PICK i \in Nat, j \in Nat : i = Abs(Size(c.u)) /\ j = Abs(Size(c.v))
    BY Running DEF Good
  <2>3. CASE j > i
    BY <1>4, <1>5, <2>1, <2>2, <2>3 DEF Longer, Shorter
  <2>4. CASE ~(j > i)
    BY <1>4, <1>5, <2>1, <2>2, <2>4 DEF Longer, Shorter
  <2> QED
    BY <2>1, <2>3, <2>4
<1>9. n = 0 => loc.wp \notin {loc.up, loc.vp}
  <2>1. ASSUME n = 0
        PROVE  loc.wp \notin {loc.up, loc.vp}
    <3>1. Longer # c.w /\ Shorter # c.w
      BY <1>4, <1>5, <1>6, <1>8, <2>1
    <3>2. var[Longer].d # var[c.w].d /\ var[Shorter].d # var[c.w].d
      BY <1>2, <3>1, OthersBlocks DEF Good, Bounds
    <3> QED
      BY <1>7, <3>2
  <2> QED
    BY <2>1
<1>10. /\ su = loc.us /\ nu = Abs(loc.us) /\ u = Read(loc.up, nu) /\ Exactly(nu, u) /\ nu >= 1
       /\ sv = loc.vs /\ nv = Abs(loc.vs) /\ v = Read(loc.vp, nv) /\ Exactly(nv, v) /\ nv >= 1
       /\ sw = Size(c.w) /\ n = Abs(sw) /\ w = Read(loc.wp, n) /\ Exactly(n, w) /\ (n = 0 <=> sw = 0)
  BY <1>4, <1>5, <1>6, <1>7, <1>8
<1> QED
  BY <1>9, <1>10

LEMMA AorsmulContents ==
  ASSUME Good, Aorsmul
  PROVE  Contents'
<1>1. pc = "compute" /\ c.fn \in AorsFns /\ Finish /\ UNCHANGED calls
  BY DEF Aorsmul, At
<1>18. PICK nu \in Nat, u \in Nat : nu = Abs(loc.us) /\ u = Read(loc.up, nu) /\ Exactly(nu, u) /\ nu >= 1
  BY <1>1, AorsmulOperands
<1>19. PICK nv \in Nat, v \in Nat : nv = Abs(loc.vs) /\ v = Read(loc.vp, nv) /\ Exactly(nv, v) /\ nv >= 1
  BY <1>1, AorsmulOperands
<1>20. PICK n \in Nat, w \in Nat : /\ n = Abs(Size(c.w)) /\ w = Read(loc.wp, n) /\ Exactly(n, w)
                                   /\ (n = 0 => loc.wp \notin {loc.up, loc.vp})
  BY <1>1, AorsmulOperands
<1>2. /\ nu = Abs(loc.us) /\ u = Read(loc.up, nu) /\ Exactly(nu, u) /\ nu >= 1
      /\ nv = Abs(loc.vs) /\ v = Read(loc.vp, nv) /\ Exactly(nv, v) /\ nv >= 1
      /\ n = Abs(Size(c.w)) /\ w = Read(loc.wp, n) /\ Exactly(n, w)
      /\ (n = 0 => loc.wp \notin {loc.up, loc.vp})
  BY <1>18, <1>19, <1>20
<1>3. PICK m \in Nat : m = nu + nv
  OBVIOUS
<1>4. PICK x \in Nat, i \in 0 .. m : x = u * v /\ i = LessTop(m, x) /\ Exactly(i, x) /\ x < Base(m)
  BY <1>2, <1>3, ProductLimbs
<1>5. From(u, v, u * v) = x
  BY <1>4, FromNumbers
<1>6. PICK product : product = IF n = 0 /\ loc.wp \in {loc.up, loc.vp} THEN Junk ELSE From(u, v, u * v)
  OBVIOUS
<1>7. product = x
  BY <1>2, <1>5, <1>6
<1>8. PICK most \in Nat : most = MaxOf(n, i) /\ n <= most /\ i <= most /\ most <= MaxOf(n, m)
  <2>1. i \in Nat /\ i <= m
    BY <1>3, <1>4
  <2> QED
    BY <2>1 DEF MaxOf
<1>9. MaxOf(n, m) + 1 <= var[c.w].alloc /\ var[c.w].alloc \in Nat
  BY <1>1, <1>2, <1>3, Destination, NeededHolds, Zenon DEF NeededIs
<1>10. m <= var[c.w].alloc /\ most + 1 <= var[c.w].alloc /\ most <= var[c.w].alloc
  BY <1>8, <1>9 DEF MaxOf
<1>11. PICK sub \in BOOLEAN : sub = ((c.fn = "submul") # OppositeSigns(loc.us, loc.vs))
  <2>1. ((c.fn = "submul") # OppositeSigns(loc.us, loc.vs)) \in BOOLEAN
    OBVIOUS
  <2> QED
    BY <2>1, Zenon
<1>12. CASE n = 0
  <2>1. heap' = Written(heap, loc.wp, m, x) /\ SetSize(c.w, sub, i)
    BY <1>2, <1>3, <1>4, <1>6, <1>7, <1>11, <1>12 DEF Aorsmul
  <2>2. Wrote(m, x, sub, i)
    BY <1>1, <2>1 DEF Wrote
  <2> QED
    BY <1>1, <1>4, <1>10, <2>2, WroteContents
<1>13. PICK below \in BOOLEAN : below = (Size(c.w) < 0)
  BY <1>1, Running, SignIs, Zenon DEF Good
<1>14. i \in Nat
  BY <1>4
<1>15. /\ w < Base(most) /\ x < Base(most)
       /\ w + x \in Nat /\ w + x < Base(most + 1)
       /\ LessTop(most + 1, w + x) \in 0 .. most + 1 /\ Exactly(LessTop(most + 1, w + x), w + x)
       /\ Abs(w - x) \in Nat /\ Abs(w - x) < Base(most)
  <2>1. most = MaxOf(n, i) /\ Exactly(n, w) /\ Exactly(i, x)
    BY <1>2, <1>4, <1>8
  <2> QED
    BY <1>14, <2>1, LongerLimbs
<1>16. CASE n # 0 /\ sub = (Size(c.w) < 0)
  <2>1. PICK y \in Nat, j \in 0 .. most + 1 : y = w + x /\ y < Base(most + 1) /\ j = LessTop(most + 1, y) /\ Exactly(j, y)
    BY <1>15
  <2>2. From(w, x, w + x) = y
    BY <2>1, FromNumbers
  <2>3. heap' = Written(heap, loc.wp, most + 1, y) /\ SetSize(c.w, below, j)
    BY <1>2, <1>3, <1>4, <1>6, <1>7, <1>8, <1>11, <1>13, <1>16, <2>1, <2>2 DEF Aorsmul
  <2>4. Wrote(most + 1, y, below, j) /\ most + 1 \in Nat
    BY <1>1, <2>3 DEF Wrote
  <2> QED
    BY <1>1, <1>10, <2>1, <2>4, WroteContents
<1>17. CASE n # 0 /\ ~(sub = (Size(c.w) < 0))
  <2>1. PICK y \in Nat : y = Abs(w - x) /\ y < Base(most)
    BY <1>15
  <2>2. PICK j \in 0 .. most : j = Normalized(most, y) /\ Exactly(j, y)
    BY <2>1, NormalizedExactly
  <2>3. From(w, x, Abs(w - x)) = y
    BY <2>1, FromNumbers
  <2>4. PICK negative \in BOOLEAN : negative = ((Size(c.w) < 0) # (From(w, x, w < x) = TRUE))
    <3>1. ((Size(c.w) < 0) # (From(w, x, w < x) = TRUE)) \in BOOLEAN
      OBVIOUS
    <3> QED
      BY <3>1, Zenon
  <2>5. heap' = Written(heap, loc.wp, most, y) /\ SetSize(c.w, negative, j)
    BY <1>2, <1>3, <1>4, <1>6, <1>7, <1>8, <1>11, <1>17, <2>1, <2>2, <2>3, <2>4 DEF Aorsmul
  <2>6. Wrote(most, y, negative, j)
    BY <1>1, <2>5 DEF Wrote
  <2> QED
    BY <1>1, <1>10, <2>1, <2>2, <2>6, WroteContents
<1> QED
  BY <1>12, <1>16, <1>17

\* The difference, negated with its borrow, is the opposite difference.
LEMMA NegatedIs ==
  ASSUME NEW n \in Nat, NEW w \in Nat, NEW x \in Nat, c.k \in Nat
  PROVE  Negated(n, w, x) = x * c.k - w
<1>1. PICK b \in Nat : b = Base(n) /\ b >= 1
  BY BaseFacts
<1>2. PICK t \in Nat : t = x * c.k
  OBVIOUS
<1>3. PICK d \in Int : d = w - t
  OBVIOUS
<1>4. PICK low \in Int, f \in Int : low = d % b /\ f = d \div b /\ d = b * f + low
  <2>1. d \div b \in Int /\ d % b \in Int /\ d = b * (d \div b) + (d % b)
    <3>1. d \in Int /\ b >= 1
      BY <1>1
    <3> QED
      BY <3>1, Division
  <2> QED
    BY <2>1, Zenon
<1>5. Negated(n, w, x) = (-f - 1) * b + (b - 1 - low) + 1
  BY <1>1, <1>2, <1>3, <1>4 DEF Negated
<1>6. PICK z \in Int : z = b * f
  OBVIOUS
<1>7. PICK y \in Int : y = (-f - 1) * b
  OBVIOUS
<1>8. y = -z - b
  BY <1>6, <1>7
<1>9. d = z + low
  BY <1>4, <1>6, Zenon
<1>10. Negated(n, w, x) = y + (b - 1 - low) + 1
  BY <1>5, <1>7
<1>11. Negated(n, w, x) = t - w
  BY <1>3, <1>8, <1>9, <1>10
<1> QED
  BY <1>2, <1>11

\* w, less the product t of x by a limb k, all of fewer than b, leaves "low" and borrows g.
Borrows(b, w, x, k, t, d, low, g) ==
  /\ b \in Nat /\ w \in Nat /\ x \in Nat /\ k \in Nat /\ t \in Nat /\ d \in Int /\ low \in Int /\ g \in Int
  /\ b >= 1 /\ w < b /\ x < b /\ k < B /\ t = x * k /\ d = w - t /\ low = d % b /\ g = -(d \div b)

\* The borrow is less than a limb.
LEMMA LimbBorrow ==
  ASSUME NEW b, NEW w, NEW x, NEW k, NEW t, NEW d, NEW low, NEW g, Borrows(b, w, x, k, t, d, low, g)
  PROVE  low \in 0 .. b - 1 /\ g \in 0 .. B - 1 /\ low - g * b = d /\ (low = 0 => g # B - 1)
<1>1. b \in Nat /\ w \in Nat /\ x \in Nat /\ k \in Nat /\ t \in Nat /\ d \in Int /\ low \in Int /\ g \in Int
  BY DEF Borrows
<1>2. b >= 1 /\ w < b /\ x < b /\ k < B /\ t = x * k /\ d = w - t /\ low = d % b /\ g = -(d \div b)
  BY DEF Borrows
<1>20. d \div b \in Int /\ d % b \in Nat /\ d = b * (d \div b) + (d % b) /\ d % b < b
  <2>1. d \in Int /\ b \in Nat /\ b >= 1
    BY <1>1, <1>2
  <2> QED
    BY <2>1, Division
<1>3. PICK f \in Int : low \in Nat /\ f = d \div b /\ d = b * f + low /\ low < b
  <2>1. low = d % b
    BY <1>2
  <2> QED
    BY <1>20, <2>1, Zenon
<1>4. g = -f
  BY <1>1, <1>2, <1>3
<1>5. PICK z \in Int : z = b * f /\ z = -(g * b)
  BY <1>1, <1>2, <1>3, <1>4
<1>6. d = z + low
  BY <1>1, <1>2, <1>3, <1>5
<1>7. PICK e \in Nat : e = b * B
  BY <1>1, <1>2, ZeroLimb
<1>8. t <= e - b - B + 1
  <2>1. b - 1 \in Nat /\ B - 1 \in Nat /\ x <= b - 1 /\ k <= B - 1
    BY <1>1, <1>2, ZeroLimb
  <2>2. t <= (b - 1) * (B - 1)
    BY <1>1, <1>2, <2>1, ProductOrder
  <2>3. (b - 1) * (B - 1) = b * B - b - B + 1
    BY <1>1, <1>2, ZeroLimb
  <2> QED
    BY <1>1, <1>2, <1>7, <2>2, <2>3
<1>9. g >= 0
  <2>1. ASSUME g < 0
        PROVE  FALSE
    <3>1. f >= 1
      BY <1>1, <1>2, <1>3, <1>4, <2>1
    <3>2. b * f >= b
      <4>1. f \in Nat
        BY <1>1, <1>2, <1>3, <3>1
      <4> QED
        BY <1>1, <1>2, <3>1, <4>1, ProductGrows
    <3> QED
      BY <1>1, <1>2, <1>5, <1>6, <3>2
  <2> QED
    BY <1>1, <1>2, <1>4, <2>1
<1>10. g <= B - 1
  <2>1. ASSUME g >= B
        PROVE  FALSE
    <3>1. B * b <= g * b
      <4>1. g \in Nat /\ B \in Nat /\ b <= b
        BY <1>1, <1>2, <1>4, <1>9, ZeroLimb
      <4> QED
        BY <1>1, <1>2, <2>1, <4>1, ProductOrder
    <3>2. B * b = e
      BY <1>1, <1>2, <1>7, ZeroLimb
    <3>3. PICK y \in Int : y = g * b
      BY <1>1, <1>2, <1>4
    <3>4. e <= y
      BY <1>1, <1>2, <3>1, <3>2, <3>3
    <3> QED
      BY <1>1, <1>2, <1>3, <1>5, <1>6, <1>7, <1>8, <3>3, <3>4, ZeroLimb
  <2> QED
    BY <1>1, <1>2, <1>4, <2>1, ZeroLimb
<1>11. low = 0 => g # B - 1
  <2>1. ASSUME low = 0, g = B - 1
        PROVE  FALSE
    <3>1. (B - 1) * b = e - b
      BY <1>1, <1>2, <1>7, ZeroLimb
    <3>2. z = b - e
      BY <1>1, <1>2, <1>5, <1>7, <2>1, <3>1
    <3> QED
      BY <1>1, <1>2, <1>6, <1>7, <1>8, <2>1, <3>2, ZeroLimb
  <2> QED
    BY <1>1, <1>2, <2>1
<1>12. low - g * b = d
  BY <1>1, <1>2, <1>3, <1>4, <1>5, <1>6
<1> QED
  BY <1>1, <1>2, <1>3, <1>4, <1>9, <1>10, <1>11, <1>12, ZeroLimb

\* And with the limbs of the product above it, it is the product less the row.
LEMMA BeyondIs ==
  ASSUME NEW n \in Nat, NEW w \in Nat, w < Base(n), NEW x \in Nat, c.k \in Nat, c.k < B
  PROVE  Beyond(n, w, x) = x * c.k - w
<1>1. PICK b \in Nat, k \in Nat : b = Base(n) /\ b >= 1 /\ k = c.k /\ k < B /\ w < b
  BY BaseFacts, Zenon
<1>2. PICK xh \in Nat, xl \in Nat : xh = x \div b /\ xl = x % b /\ x = b * xh + xl /\ xl < b
  <2>1. x \div b \in Nat /\ x % b \in Nat /\ x = b * (x \div b) + (x % b) /\ x % b < b
    <3>1. x \in Int /\ x >= 0 /\ b >= 1
      BY <1>1
    <3> QED
      BY <3>1, Division
  <2> QED
    BY <2>1, Zenon
<1>16. PICK d \in Int : d = w - xl * k
  OBVIOUS
<1>17. PICK low \in Int, borrow \in Int : low = d % b /\ borrow = -(d \div b)
  <2>1. d \in Int /\ b >= 1
    BY <1>1
  <2>2. d % b \in Int /\ -(d \div b) \in Int
    BY <2>1, Division
  <2> QED
    BY <2>2, Zenon
<1>18. low \in 0 .. b - 1 /\ borrow \in 0 .. B - 1 /\ low - borrow * b = d /\ (low = 0 => borrow # B - 1)
  <2>1. PICK t \in Nat : t = xl * k
    OBVIOUS
  <2>2. b >= 1 /\ w < b /\ xl < b /\ k < B /\ d = w - t
    BY <1>1, <1>2, <1>16, <2>1
  <2> QED
    <3>1. Borrows(b, w, xl, k, t, d, low, borrow)
      BY <1>17, <2>1, <2>2 DEF Borrows
    <3> QED
      BY <3>1, LimbBorrow
<1>3. /\ d = w - xl * k /\ low = d % b /\ borrow = -(d \div b) /\ low - borrow * b = d
      /\ low = 0 => borrow # B - 1
  BY <1>16, <1>17, <1>18
<1>4. PICK carry, minus, high :
        /\ carry = (borrow + (IF low = 0 THEN 1 ELSE 0) - 1) % B
        /\ minus = (IF carry = B - 1 THEN 1 ELSE 0)
        /\ high = xh * k + ((carry + minus) % B)
  OBVIOUS
<1>5. Beyond(n, w, x) = (high - minus) * b + ((b - low) % b)
  BY <1>1, <1>2, <1>3, <1>4, Zenon DEF Beyond
<1>13. PICK z \in Nat : z = xh * k
  OBVIOUS
<1>14. PICK p \in Nat : p = z * b
  OBVIOUS
<1>15. PICK t \in Nat : t = xl * k
  OBVIOUS
<1>6. z = xh * k /\ p = z * b /\ t = xl * k
  BY <1>13, <1>14, <1>15
<1>7. x * c.k = p + t
  <2>1. x * k = (b * xh + xl) * k
    BY <1>2
  <2>2. (b * xh + xl) * k = (xh * k) * b + xl * k
    OBVIOUS
  <2> QED
    BY <1>1, <1>6, <2>1, <2>2
<1>8. PICK g \in Int : g = borrow * b
  BY <1>1, <1>3
<1>9. g - low = t - w
  <2>1. low - g = d /\ d = w - t
    BY <1>3, <1>6, <1>8
  <2> QED
    BY <2>1
<1>10. B \in Nat /\ B >= 2 /\ borrow \in Nat /\ low \in Nat /\ borrow < B /\ low < b
  BY <1>18, ZeroLimb
<1>11. CASE low = 0
  <2>1. carry = borrow
    <3>1. borrow + 1 - 1 = borrow
      BY <1>10
    <3>2. borrow % B = borrow
      BY <1>10, Division
    <3> QED
      BY <1>4, <1>11, <3>1, <3>2
  <2>2. minus = 0 /\ carry + minus = borrow
    BY <1>3, <1>4, <1>10, <1>11, <2>1
  <2>3. high = z + borrow
    <3>1. borrow % B = borrow
      BY <1>10, Division
    <3> QED
      BY <1>4, <1>6, <2>2, <3>1
  <2>4. (b - low) % b = 0
    <3>1. b - low = b /\ b = b * 1 + 0 /\ 0 \in 0 .. b - 1
      BY <1>1, <1>11
    <3>2. b % b = 0
      BY <1>1, <3>1, DivisionUnique
    <3> QED
      BY <3>1, <3>2
  <2>5. (z + borrow) * b = p + g
    <3>1. (z + borrow) * b = z * b + borrow * b
      OBVIOUS
    <3> QED
      BY <1>8, <1>14, <3>1
  <2>6. high - minus = z + borrow
    BY <1>10, <2>2, <2>3
  <2>7. Beyond(n, w, x) = p + g + 0
    BY <1>5, <2>4, <2>5, <2>6
  <2> QED
    BY <1>7, <1>9, <1>11, <2>7
<1>12. CASE low # 0
  <2>1. (b - low) % b = b - low
    <3>1. b - low \in Int /\ b - low >= 0 /\ b - low < b /\ b >= 1
      BY <1>1, <1>10, <1>12
    <3> QED
      BY <3>1, Division
  <2>2. carry = (borrow - 1) % B
    BY <1>4, <1>10, <1>12
  <2>3. high - minus = z + borrow - 1
    <3>1. CASE borrow >= 1
      <4>1. borrow - 1 \in Int /\ borrow - 1 >= 0 /\ borrow - 1 < B /\ B >= 1
        BY <1>10, <3>1
      <4>2. (borrow - 1) % B = borrow - 1
        BY <1>10, <4>1, Division
      <4>3. minus = 0 /\ carry + minus = borrow - 1
        BY <1>4, <1>10, <2>2, <4>2
      <4>4. high = z + (borrow - 1)
        BY <1>4, <1>6, <4>2, <4>3
      <4> QED
        BY <1>6, <1>10, <4>3, <4>4
    <3>2. CASE borrow = 0
      <4>1. B = B * 1 + 0 /\ 0 \in 0 .. B - 1 /\ B >= 1
        BY <1>10
      <4>2. (borrow - 1) % B = B - 1
        <5>1. PICK m \in Int, r \in 0 .. B - 1 : m = borrow - 1 /\ m = -1 /\ r = B - 1
          BY <1>10, <3>2
        <5>2. PICK q \in Int : q = -1
          OBVIOUS
        <5>3. m = B * q + r
          BY <1>10, <5>1, <5>2
        <5>5. B \in Nat /\ B >= 1
          BY <1>10
        <5>4. m % B = r
          BY <5>3, <5>5, DivisionUnique
        <5> QED
          BY <5>1, <5>4
      <4>3. B % B = 0
        BY <1>10, <4>1, DivisionUnique
      <4>4. carry = B - 1
        BY <2>2, <3>2, <4>2
      <4>5. minus = 1 /\ carry + minus = B
        BY <1>4, <1>10, <3>2, <4>4
      <4>6. high = z
        BY <1>4, <1>6, <4>3, <4>5
      <4> QED
        BY <1>6, <3>2, <4>5, <4>6
    <3> QED
      BY <1>10, <3>1, <3>2
  <2>4. (z + borrow - 1) * b = p + g - b
    <3>1. (z + borrow - 1) * b = z * b + borrow * b - b
      OBVIOUS
    <3> QED
      BY <1>8, <1>14, <3>1
  <2>5. Beyond(n, w, x) = p + g - b + (b - low)
    BY <1>5, <2>1, <2>3, <2>4
  <2> QED
    BY <1>7, <1>9, <1>10, <2>5
<1> QED
  BY <1>11, <1>12

\* The operands of mpz_addmul_ui and mpz_submul_ui.
LEMMA Aorsmul1Operands ==
  ASSUME Good, pc = "compute", c.fn \in AorsUiFns
  PROVE  /\ \E m \in Nat, x \in Nat : m = Abs(loc.us) /\ x = Read(loc.up, m) /\ Exactly(m, x) /\ m >= 1
         /\ \E n \in Nat, w \in Nat : n = Abs(Size(c.w)) /\ w = Read(loc.wp, n) /\ Exactly(n, w)
         /\ c.k \in Nat /\ c.k >= 1 /\ c.k < B
<1>1. \E m \in Nat, x \in Nat : m = Abs(loc.us) /\ x = Read(loc.up, m) /\ Exactly(m, x) /\ m >= 1
  <2>1. c.fn \in Calculator!OneOperand
    BY DEF AorsUiFns, Calculator!OneOperand, Calculator!UiFns
  <2>2. PICK s \in Int, m \in Nat, x \in Nat :
          s = loc.us /\ m = Abs(loc.us) /\ x = Read(loc.up, m) /\ Exactly(m, x) /\ (s = 0 <=> m = 0)
    BY <2>1, OperandReads
  <2>3. loc.us # 0
    BY DEF Good, Contents, LocalsOK, OneNoted
  <2>4. m = Abs(loc.us) /\ x = Read(loc.up, m) /\ Exactly(m, x) /\ m >= 1
    BY <2>2, <2>3
  <2> QED
    BY <2>4
<1>2. \E n \in Nat, w \in Nat : n = Abs(Size(c.w)) /\ w = Read(loc.wp, n) /\ Exactly(n, w)
  <2>1. c.w \in Usable /\ ~Renewed(c.w) /\ loc.wp = var[c.w].d
    BY Destination DEF Renewed, AorsUiFns
  <2>2. PICK s \in Int, n \in Nat, w \in Nat : s = Size(c.w) /\ n = Abs(s) /\ w = Read(var[c.w].d, n) /\ Exactly(n, w)
    BY <2>1, VariableReads
  <2>3. n = Abs(Size(c.w)) /\ w = Read(loc.wp, n) /\ Exactly(n, w)
    BY <2>1, <2>2
  <2> QED
    BY <2>3
<1>3. c.k \in Nat /\ c.k < B
  <2>1. todo # <<>> /\ c.fn \in Calculator!UiFns
    BY Destination DEF AorsUiFns, Calculator!UiFns
  <2> QED
    BY <2>1, LimbArgument
<1>4. c.k # 0
  BY DEF Good, Contents, LocalsOK, OneNoted
<1> QED
  BY <1>1, <1>2, <1>3, <1>4

LEMMA Aorsmul1Contents ==
  ASSUME Good, Aorsmul1
  PROVE  Contents'
<1>1. pc = "compute" /\ c.fn \in AorsUiFns /\ Finish /\ UNCHANGED calls
  BY DEF Aorsmul1, At
<1>2. PICK m \in Nat, x \in Nat : m = Abs(loc.us) /\ x = Read(loc.up, m) /\ Exactly(m, x) /\ m >= 1
  BY <1>1, Aorsmul1Operands
<1>3. PICK n \in Nat, w \in Nat : n = Abs(Size(c.w)) /\ w = Read(loc.wp, n) /\ Exactly(n, w)
  BY <1>1, Aorsmul1Operands
<1>4. c.k \in Nat /\ c.k >= 1 /\ c.k < B
  BY <1>1, Aorsmul1Operands
<1>5. PICK most \in Nat : most = MaxOf(m, n) /\ n <= most /\ m <= most /\ most >= 1
  BY <1>2 DEF MaxOf
<1>6. most + 1 \in Nat /\ most + 1 <= var[c.w].alloc /\ most <= var[c.w].alloc /\ m + 1 <= var[c.w].alloc
  <2>1. MaxOf(n, m) + 1 <= var[c.w].alloc /\ var[c.w].alloc \in Nat
    BY <1>1, <1>2, <1>3, Destination, NeededHolds DEF NeededIs
  <2> QED
    BY <1>5, <2>1 DEF MaxOf
<1>7. PICK below \in BOOLEAN : below = (Size(c.w) < 0)
  <2>1. Size(c.w) \in Int
    BY <1>1, Running DEF Good
  <2> QED
    BY <2>1, SignIs
<1>8. PICK sub \in BOOLEAN : sub = ((c.fn = "submul_ui") # OppositeSigns(loc.us, Size(c.w)))
  <2>1. ((c.fn = "submul_ui") # OppositeSigns(loc.us, Size(c.w))) \in BOOLEAN
    OBVIOUS
  <2> QED
    BY <2>1, Zenon
<1>9. PICK t \in Nat, i \in 0 .. m + 1 :
        t = x * c.k /\ t < Base(m + 1) /\ t >= 1 /\ i = LessTop(m + 1, t) /\ Exactly(i, t)
  BY <1>2, <1>4, LimbTimesLimbs
<1>10. From(x, x, x * c.k) = t
  BY <1>2, <1>9, FromNumbers
<1>11. x <= t
  BY <1>4, <1>9, ProductGrows
<1>12. CASE n = 0
  <2>1. PICK negative \in BOOLEAN : negative = ((c.fn = "submul_ui") # (loc.us < 0))
    <3>1. ((c.fn = "submul_ui") # (loc.us < 0)) \in BOOLEAN
      OBVIOUS
    <3> QED
      BY <3>1, Zenon
  <2>2. heap' = Written(heap, loc.wp, m + 1, t) /\ SetSize(c.w, negative, i)
    BY <1>2, <1>3, <1>9, <1>10, <1>12, <2>1 DEF Aorsmul1
  <2>3. Wrote(m + 1, t, negative, i) /\ m + 1 \in Nat
    BY <1>1, <2>2 DEF Wrote
  <2> QED
    BY <1>1, <1>6, <1>9, <2>3, WroteContents
\* The numbers are below the power of the longer one's limbs and one more.
<1>13. PICK b \in Nat : /\ b = Base(most) /\ b >= 1 /\ w < b /\ x < b /\ b * B = Base(most + 1)
                        /\ Base(most + 1) \in Nat
  <2>1. Base(n) <= Base(most) /\ Base(m) <= Base(most) /\ Base(most) >= 1 /\ Base(most + 1) = B * Base(most)
    BY <1>5, BaseFacts
  <2>2. Base(n) \in Nat /\ Base(m) \in Nat /\ Base(most) \in Nat
    BY BaseFacts, Zenon
  <2>3. w < Base(n) /\ x < Base(m)
    BY <1>2, <1>3, ExactlyZero
  <2>4. w < Base(most) /\ x < Base(most)
    BY <2>1, <2>2, <2>3
  <2>6. most + 1 \in Nat
    OBVIOUS
  <2>7. Base(most + 1) \in Nat
    BY <2>6, BaseFacts, Zenon
  <2>5. B * Base(most) = Base(most) * B
    BY <2>2, ZeroLimb
  <2> QED
    BY <2>1, <2>2, <2>4, <2>5, <2>7
<1>14. t + b <= b * B
  <2>1. x + 1 <= b /\ x + 1 \in Nat /\ c.k + 1 <= B /\ c.k + 1 \in Nat
    BY <1>4, <1>13, ZeroLimb
  <2>2. x * c.k + b <= b * c.k + b
    <3>1. x * c.k <= b * c.k
      BY <1>4, <1>13, <2>1, ProductOrder
    <3>2. x * c.k \in Nat /\ b * c.k \in Nat
      BY <1>4
    <3> QED
      BY <3>1, <3>2
  <2>3. b * c.k + b = b * (c.k + 1)
    BY <1>4
  <2>4. b * (c.k + 1) <= b * B
    BY <2>1, ZeroLimb, ProductOrder
  <2>5. b * (c.k + 1) \in Nat /\ b * B \in Nat
    BY <2>1, ZeroLimb
  <2> QED
    BY <1>9, <2>2, <2>3, <2>4, <2>5
<1>15. PICK s \in Nat : s = Base(most + 1) /\ t + b <= s
  BY <1>13, <1>14
<1>16. CASE n # 0 /\ ~sub
  <2>1. PICK y \in Nat : y = w + t /\ y < Base(most + 1)
    BY <1>13, <1>15
  <2>2. most + 1 >= 2 => y >= Base(most + 1 - 2)
    <3>4. most - 1 \in Nat
      BY <1>5
    <3>1. Base(most - 1) \in Nat
      BY <3>4, BaseFacts, Zenon
    <3>2. CASE most = n
      <4>1. w >= Base(n - 1)
        BY <1>3, <1>16, ExactlyZero
      <4> QED
        BY <2>1, <3>1, <3>2, <4>1
    <3>3. CASE most = m
      <4>1. x >= Base(m - 1)
        BY <1>2, ExactlyZero
      <4> QED
        BY <1>11, <2>1, <3>1, <3>3, <4>1
    <3> QED
      BY <1>5, <3>2, <3>3 DEF MaxOf
  <2>3. PICK j \in 0 .. most + 1 : j = LessTop(most + 1, y) /\ Exactly(j, y)
    <3>1. most + 1 >= 1
      OBVIOUS
    <3> QED
      BY <1>6, <2>1, <2>2, <3>1, LessTopExactly
  <2>4. From(w, x, w + x * c.k) = y
    BY <1>9, <2>1, FromNumbers
  <2>5. PICK negative \in BOOLEAN : negative = ((Size(c.w) < 0) # FALSE)
    <3>1. ((Size(c.w) < 0) # FALSE) \in BOOLEAN
      OBVIOUS
    <3> QED
      BY <3>1, Zenon
  <2>6. heap' = Written(heap, loc.wp, most + 1, y) /\ SetSize(c.w, negative, j)
    BY <1>2, <1>3, <1>5, <1>8, <1>16, <2>3, <2>4, <2>5, Zenon DEF Aorsmul1
  <2>7. Wrote(most + 1, y, negative, j)
    BY <1>1, <2>6 DEF Wrote
  <2> QED
    BY <1>1, <1>6, <2>1, <2>3, <2>7, WroteContents
<1>17. PICK flipped \in BOOLEAN : flipped = ((Size(c.w) < 0) # TRUE)
  <2>1. ((Size(c.w) < 0) # TRUE) \in BOOLEAN
    OBVIOUS
  <2> QED
    BY <2>1, Zenon
<1>18. From(w, x, w < x * c.k) = (w < t)
  BY <1>9, FromNumbers
\* The opposite difference is written, in most + 1 limbs.
<1>19. CASE n # 0 /\ sub /\ (n < m \/ w < t)
  <2>1. PICK y \in Nat, z \in Int : /\ z = (IF n < m THEN Beyond(n, w, x) ELSE Negated(n, w, x))
                                    /\ z = y /\ y = t - w /\ y < Base(most + 1)
    <3>1. w < Base(n)
      BY <1>3, ExactlyZero
    <3>2. Beyond(n, w, x) = t - w /\ Negated(n, w, x) = t - w
      BY <1>4, <1>9, <3>1, BeyondIs, NegatedIs
    <3>3. w <= t
      <4>1. CASE n < m
        <5>1. n <= m - 1 /\ m - 1 \in Nat
          BY <1>2, <4>1
        <5>2. Base(n) <= Base(m - 1) /\ Base(n) \in Nat /\ Base(m - 1) \in Nat
          BY <5>1, BaseFacts, Zenon
        <5>3. x >= Base(m - 1)
          BY <1>2, ExactlyZero
        <5> QED
          BY <1>11, <3>1, <5>2, <5>3
      <4> QED
        BY <1>19, <4>1
    <3>4. t - w \in Nat /\ t - w < Base(most + 1)
      BY <1>13, <1>15, <3>3
    <3> QED
      BY <3>2, <3>4
  <2>2. PICK j \in 0 .. most + 1 : j = Normalized(most + 1, y) /\ Exactly(j, y)
    BY <1>6, <2>1, NormalizedExactly
  <2>3. heap' = Written(heap, loc.wp, most + 1, y) /\ SetSize(c.w, flipped, j)
    <3>1. CASE n < m
      <4>1. From(w, x, Beyond(n, w, x)) = y
        BY <2>1, <3>1, FromNumbers
      <4> QED
        BY <1>2, <1>3, <1>5, <1>8, <1>17, <1>19, <2>2, <3>1, <4>1, Zenon DEF Aorsmul1
    <3>2. CASE ~(n < m)
      <4>1. Negated(n, w, x) = y /\ From(w, x, w < x * c.k) = TRUE
        BY <1>18, <1>19, <2>1, <3>2, Zenon
      <4> QED
        BY <1>2, <1>3, <1>5, <1>8, <1>17, <1>19, <2>2, <3>2, <4>1, Zenon DEF Aorsmul1
    <3> QED
      BY <3>1, <3>2
  <2>4. Wrote(most + 1, y, flipped, j)
    BY <1>1, <2>3 DEF Wrote
  <2> QED
    BY <1>1, <1>6, <2>1, <2>2, <2>4, WroteContents
<1>20. CASE n # 0 /\ sub /\ ~(n < m) /\ ~(w < t)
  <2>1. PICK y \in Nat : y = w - t /\ y < Base(most)
    BY <1>13, <1>20
  <2>2. PICK j \in 0 .. most : j = Normalized(most, y) /\ Exactly(j, y)
    BY <2>1, NormalizedExactly
  <2>3. From(w, x, w - x * c.k) = y
    BY <1>9, <2>1, FromNumbers
  <2>4. From(w, x, w < x * c.k) # TRUE
    BY <1>18, <1>20, Zenon
  <2>5. PICK negative \in BOOLEAN : negative = ((Size(c.w) < 0) # FALSE)
    <3>1. ((Size(c.w) < 0) # FALSE) \in BOOLEAN
      OBVIOUS
    <3> QED
      BY <3>1, Zenon
  <2>6. heap' = Written(heap, loc.wp, most, y) /\ SetSize(c.w, negative, j)
    BY <1>2, <1>3, <1>5, <1>8, <1>20, <2>2, <2>3, <2>4, <2>5, Zenon DEF Aorsmul1
  <2>7. Wrote(most, y, negative, j)
    BY <1>1, <2>6 DEF Wrote
  <2> QED
    BY <1>1, <1>6, <2>1, <2>2, <2>7, WroteContents
<1> QED
  BY <1>12, <1>16, <1>19, <1>20

-----------------------------------------------------------------------------
(* The other functions make room.                                           *)

\* A function that makes room and goes on keeps the contents if what it notes is right.
LEMMA GrowsContents ==
  ASSUME Good, pc \in {"enter", "quot", "room", "copy"}, NEW x \in Var, NEW len \in Nat, Grow(x, len),
         NEW place, Goto(place), UNCHANGED calls, LocalsOK'
  PROVE  Contents'
<1>1. Carries
  BY GrowCarries DEF Good, Contents
<1> QED
  BY <1>1, CarriesContents

\* The operands have the sizes they had, when a variable grows.
LEMMA SizesStay ==
  ASSUME Good, pc \in {"enter", "quot", "room", "copy"}, NEW x \in Var, NEW len \in Nat, Grow(x, len),
         NEW place, Goto(place)
  PROVE  /\ c' = c /\ pc' = place
         /\ Size(c.w)' = Size(c.w) /\ Size(c.u)' = Size(c.u) /\ Size(c.v)' = Size(c.v) /\ Size(c.r)' = Size(c.r)
         /\ Carries
<1>1. Carries
  BY GrowCarries DEF Good, Contents
<1>2. c' = c /\ pc' = place
  BY DEF Goto, c
<1>3. c.w \in Usable /\ c.u \in Usable /\ c.v \in Usable /\ c.r \in Usable
  BY UsableArguments DEF Good
<1> QED
  BY <1>1, <1>2, <1>3 DEF Carries, Kept, Size

LEMMA AorsGrowContents ==
  ASSUME Good, AorsGrow
  PROVE  Contents'
<1>1. pc = "enter" /\ c.fn \in {"add", "sub"} /\ Goto("compute") /\ loc' = AorsLoc(var') /\ UNCHANGED calls
  BY DEF AorsGrow, At
<1>2. PICK n \in Nat : n = MaxOf(Abs(Size(c.u)), Abs(Size(c.v))) + 1
  <2>1. Abs(Size(c.u)) \in Nat /\ Abs(Size(c.v)) \in Nat
    BY <1>1, Running DEF Good
  <2> QED
    BY <2>1 DEF MaxOf
<1>3. c.w \in Var /\ Grow(c.w, n)
  BY <1>1, <1>2, Running DEF Good, AorsGrow
<1>4. c' = c /\ pc' = "compute" /\ Size(c.u)' = Size(c.u) /\ Size(c.v)' = Size(c.v)
  BY <1>1, <1>3, SizesStay
<1>5. SumNoted'
  <2>1. AorsLoc(var)' = AorsLoc(var')
    BY <1>4 DEF AorsLoc
  <2>2. c'.fn \notin AorsFns
    BY <1>1, <1>4 DEF AorsFns
  <2> QED
    BY <1>1, <2>1, <2>2 DEF SumNoted
<1>6. DivisionNoted' /\ BitsNoted' /\ ProductNoted' /\ OneNoted'
  BY <1>1, <1>4 DEF DivisionNoted, BitsNoted, ProductNoted, OneNoted, BitFn, Calculator!OneOperand,
       Calculator!UnaryFns, Calculator!UiFns, Calculator!DivUiFns, AorsUiFns,
       Calculator!ShiftFns, Calculator!QuotUiFns, Calculator!RemUiFns, Calculator!QuotRemUiFns, Calculator!OnlyUiFns
<1>7. LocalsOK'
  BY <1>5, <1>6 DEF LocalsOK
<1> QED
  BY <1>1, <1>3, <1>7, GrowsContents

LEMMA AorsmulGrowContents ==
  ASSUME Good, AorsmulGrow
  PROVE  Contents'
<1>1. /\ pc = "enter" /\ c.fn \in AorsFns /\ Goto("compute") /\ UNCHANGED calls /\ Abs(Size(Shorter)) > 1
      /\ loc' = Notes(Size(Longer), Size(Shorter), var'[Longer].d, var'[Shorter].d, var'[c.w].d, None)
  BY DEF AorsmulGrow, At
<1>2. PICK n \in Nat : n = MaxOf(Abs(Size(c.w)), Abs(Size(c.u)) + Abs(Size(c.v))) + 1
  <2>1. Abs(Size(c.u)) \in Nat /\ Abs(Size(c.v)) \in Nat /\ Abs(Size(c.w)) \in Nat
    BY <1>1, Running DEF Good
  <2> QED
    BY <2>1 DEF MaxOf
<1>3. c.w \in Var /\ Grow(c.w, n)
  BY <1>1, <1>2, Running DEF Good, AorsmulGrow
<1>4. c' = c /\ pc' = "compute" /\ Size(c.u)' = Size(c.u) /\ Size(c.v)' = Size(c.v) /\ Carries
  BY <1>1, <1>3, SizesStay
<1>5. Longer' = Longer /\ Shorter' = Shorter /\ Size(Longer)' = Size(Longer) /\ Size(Shorter)' = Size(Shorter)
  <2>1. Longer' = Longer /\ Shorter' = Shorter
    BY <1>4 DEF Longer, Shorter
  <2>2. Longer \in Usable /\ Shorter \in Usable
    BY <1>1, UsableArguments DEF Good, Longer, Shorter
  <2> QED
    BY <1>4, <2>1, <2>2 DEF Carries, Kept, Size
<1>6. loc'.us = Size(Longer) /\ loc'.vs = Size(Shorter) /\ loc'.up = var'[Longer].d /\ loc'.vp = var'[Shorter].d
  BY <1>1 DEF Notes
<1>7. loc'.vs # 0
  <2>1. Size(Shorter) \in Int
    BY <1>1, Running DEF Good, Shorter
  <2> QED
    BY <1>1, <1>6, <2>1 DEF Abs
<1>8. SumNoted'
  <2>1. c'.fn \notin {"add", "sub"}
    BY <1>1, <1>4 DEF AorsFns
  <2> QED
    BY <1>4, <1>5, <1>6, <1>7, <2>1 DEF SumNoted, Points
<1>9. DivisionNoted' /\ BitsNoted' /\ ProductNoted' /\ OneNoted'
  BY <1>1, <1>4 DEF DivisionNoted, BitsNoted, ProductNoted, OneNoted, BitFn, AorsFns, Calculator!OneOperand,
       Calculator!UnaryFns, Calculator!UiFns, Calculator!DivUiFns, AorsUiFns,
       Calculator!ShiftFns, Calculator!QuotUiFns, Calculator!RemUiFns, Calculator!QuotRemUiFns, Calculator!OnlyUiFns
<1>10. LocalsOK'
  BY <1>8, <1>9 DEF LocalsOK
<1> QED
  BY <1>1, <1>3, <1>10, GrowsContents

\* The divisions make room for the remainder, or for the quotient.
LEMMA DivisionGrowContents ==
  ASSUME Good, TdivGrowRem \/ TdivQGrow \/ TdivRGrow
  PROVE  Contents'
<1>1. /\ pc = "enter" /\ c.fn \in {"tdiv_qr", "tdiv_q", "tdiv_r"} /\ UNCHANGED calls /\ Size(c.v) # 0
      /\ loc' = OperandSizes
  BY DEF TdivGrowRem, TdivQGrow, TdivRGrow, At
<1>2. PICK place \in {"quot", "copy"} : Goto(place)
  <2>1. CASE TdivGrowRem
    BY <2>1 DEF TdivGrowRem
  <2>2. CASE TdivQGrow
    BY <2>2 DEF TdivQGrow
  <2>3. CASE TdivRGrow
    BY <2>3 DEF TdivRGrow
  <2> QED
    BY <2>1, <2>2, <2>3
<1>3. c' = c /\ pc' = place
  BY <1>2 DEF Goto, c
<1>4. LocalsOK'
  <2>1. loc'.vs = Size(c.v)
    BY <1>1 DEF OperandSizes, Notes
  <2>2. DivisionNoted'
    BY <1>1, <1>2, <1>3, <2>1 DEF DivisionNoted
  <2>3. BitsNoted' /\ ProductNoted' /\ SumNoted' /\ OneNoted'
    BY <1>1, <1>2, <1>3 DEF BitsNoted, ProductNoted, SumNoted, OneNoted, BitFn
  <2> QED
    BY <2>2, <2>3 DEF LocalsOK
<1>5. Carries
  <2>1. c.w \in Var /\ Abs(Size(c.u)) \in Nat /\ Abs(Size(c.v)) \in Nat
    BY <1>1, Running DEF Good
  <2>2. CASE TdivQGrow
    <3>1. PICK n \in Nat : n = Abs(Size(c.u)) - Abs(Size(c.v)) + 1
      BY <2>1, <2>2 DEF TdivQGrow, LongEnough
    <3> QED
      BY <2>1, <2>2, <3>1, GrowCarries DEF Good, Contents, TdivQGrow
  <2>3. CASE TdivRGrow
    BY <2>1, <2>3, GrowCarries DEF Good, Contents, TdivRGrow
  <2>4. CASE TdivGrowRem
    <3>1. CASE c.r = Temp
      <4>1. var[Temp].alloc = Abs(Size(c.v))
        BY <1>1, <2>4, <3>1 DEF Good, IInv, Tasks, TempRoom, TdivGrowRem, At
      <4>2. UNCHANGED <<heap, var>>
        BY <2>1, <2>4, <3>1, <4>1 DEF TdivGrowRem, Grow
      <4> QED
        BY <4>2, SameCarries DEF Good, Contents
    <3>2. CASE c.r # Temp
      <4>1. c.r \in Var
        BY <1>1, <3>2, Running DEF Good
      <4> QED
        BY <2>1, <2>4, <4>1, GrowCarries DEF Good, Contents, TdivGrowRem
    <3> QED
      BY <3>1, <3>2
  <2> QED
    BY <2>2, <2>3, <2>4
<1> QED
  BY <1>1, <1>2, <1>4, <1>5, CarriesContents

LEMMA TdivGrowQuotContents ==
  ASSUME Good, TdivGrowQuot
  PROVE  Contents'
<1>1. /\ pc = "quot" /\ c.fn = "tdiv_qr" /\ UNCHANGED calls /\ Goto("copy") /\ loc' = loc /\ QuotSize > 0
      /\ Grow(c.w, QuotSize)
  BY DEF TdivGrowQuot, At
<1>2. QuotSize \in Nat /\ c.w \in Var
  BY <1>1, Running DEF Good, QuotSize
<1>3. c' = c /\ pc' = "copy"
  BY <1>1 DEF Goto, c
<1>4. loc.vs # 0
  BY <1>1 DEF Good, Contents, LocalsOK, DivisionNoted
<1>5. LocalsOK'
  BY <1>1, <1>3, <1>4 DEF LocalsOK, DivisionNoted, BitsNoted, ProductNoted, SumNoted, OneNoted
<1> QED
  BY <1>1, <1>2, <1>5, GrowsContents

LEMMA MulGrowContents ==
  ASSUME Good, MulGrow
  PROVE  Contents'
<1>1. /\ pc = "enter" /\ c.fn = "mul" /\ UNCHANGED calls /\ Goto("compute") /\ Size(c.u) # 0 /\ Size(c.v) # 0
      /\ loc' = MulLoc(var', var'[c.u].d, var'[c.v].d, None) /\ (MulByLimb \/ MulBasecase)
  BY DEF MulGrow, At
<1>2. PICK n \in Nat : n = MulSize
  <2>1. Abs(Size(c.u)) \in Nat /\ Abs(Size(c.v)) \in Nat
    BY <1>1, Running DEF Good
  <2> QED
    BY <2>1 DEF MulSize
<1>3. c.w \in Var /\ Grow(c.w, n)
  BY <1>1, <1>2, Running DEF Good, MulGrow
<1>4. /\ c' = c /\ pc' = "compute" /\ Size(c.u)' = Size(c.u) /\ Size(c.v)' = Size(c.v) /\ Carries
  BY <1>1, <1>3, SizesStay
<1>5. /\ loc'.us = Size(c.u) /\ loc'.vs = Size(c.v) /\ loc'.up = var'[c.u].d /\ loc'.vp = var'[c.v].d
      /\ loc'.wp = var'[c.w].d
  BY <1>1 DEF MulLoc, Notes
<1>6. c.u \in Usable /\ c.v \in Usable /\ c.w \in Usable /\ ~Renewed(c.u) /\ ~Renewed(c.v)
  BY <1>1, UsableArguments DEF Good, Renewed
<1>7. NumberAt(loc.up, loc.us)' /\ NumberAt(loc.vp, loc.vs)'
  <2>1. NumberAt(var[c.u].d, Size(c.u)) /\ NumberAt(var[c.v].d, Size(c.v))
    BY <1>6, HasNumber
  <2>2. Sound(c.u) /\ Sound(c.v)
    BY <1>4, <1>6, <2>1, KeptReads DEF Carries, Good
  <2> QED
    BY <1>4, <1>5, <2>2 DEF Sound, NumberAt, Size
<1>8. Abs(loc'.vs) = 1 \/ loc'.wp \notin {loc'.up, loc'.vp}
  <2>1. CASE MulByLimb
    BY <1>5, <2>1 DEF MulByLimb
  <2>2. CASE MulBasecase
    <3>1. c.w # c.u /\ c.w # c.v
      BY <2>2 DEF MulBasecase
    <3>2. var'[c.w].d # var'[c.u].d /\ var'[c.w].d # var'[c.v].d
      <4>1. IInv'
        BY MulGrowStep DEF Good
      <4>2. c.u \in Var /\ c.v \in Var
        <5>1. c.k \in {c.k} /\ c.fn \notin CalledFns
          BY <1>1 DEF CalledFns, AorsUiFns
        <5> QED
          BY <1>1, <5>1, CalledByProgram, Zenon DEF Good
      <4> QED
        BY <1>3, <3>1, <4>1, <4>2 DEF IInv, Ownership
    <3> QED
      BY <1>5, <3>2
  <2> QED
    BY <1>1, <2>1, <2>2
<1>9. ProductNoted'
  BY <1>1, <1>4, <1>5, <1>7, <1>8 DEF ProductNoted
<1>10. DivisionNoted' /\ BitsNoted' /\ SumNoted' /\ OneNoted'
  BY <1>1, <1>4 DEF DivisionNoted, BitsNoted, SumNoted, OneNoted, BitFn, AorsFns, Calculator!OneOperand,
       Calculator!UnaryFns, Calculator!UiFns, Calculator!DivUiFns, AorsUiFns,
       Calculator!ShiftFns, Calculator!QuotUiFns, Calculator!RemUiFns, Calculator!QuotRemUiFns, Calculator!OnlyUiFns
<1>11. LocalsOK'
  BY <1>9, <1>10 DEF LocalsOK
<1> QED
  BY <1>1, <1>3, <1>11, GrowsContents

-----------------------------------------------------------------------------
(* Operands are copied, or get out of the way of the result.                *)

\* There are no copies before.
LEMMA NoCopies ==
  ASSUME Good, pc \in {"enter", "copy"}
  PROVE  CopyU \notin DOMAIN heap /\ CopyV \notin DOMAIN heap
<1>1. ~Copying /\ ~ (pc = "compute" /\ c.fn = "mul")
  BY DEF Copying
<1>2. \A p \in Loose : p = CopyD
  BY <1>1, Bare DEF Good
<1>3. Held \subseteq Block
  BY DEF Held, Good, IInv, Typing
<1> QED
  BY <1>2, <1>3, NamesDiffer DEF Loose

\* A block is added, for a copy; the variables keep theirs.
LEMMA CopyKeeps ==
  ASSUME Good, var' = var, NEW p \in {CopyU, CopyV}, NEW b, BlockOK(b), heap' = With(heap, p, b)
  PROVE  BlocksOK' /\ TempKept /\ p \in DOMAIN heap' /\ heap'[p] = b /\ \A y \in Usable : Kept(y)
<1>1. /\ DOMAIN heap' = DOMAIN heap \cup {p} /\ heap'[p] = b
      /\ \A q \in DOMAIN heap : q # p => heap'[q] = heap[q]
  BY DEF With
<1>2. BlocksOK'
  <2>1. ASSUME NEW q \in DOMAIN heap' PROVE BlockOK(heap'[q])
    <3>1. CASE q = p
      BY <1>1, <3>1
    <3>2. CASE q # p
      BY <1>1, <2>1, <3>2 DEF Good, Contents, BlocksOK
    <3> QED
      BY <3>1, <3>2
  <2> QED
    BY <2>1 DEF BlocksOK, BlockOK
<1>3. ASSUME NEW y \in Usable PROVE Kept(y)
  <2>1. var[y].d \in DOMAIN heap /\ var[y].d \notin {CopyU, CopyV}
    BY Known DEF Good, Bounds
  <2> QED
    BY <1>1, <2>1 DEF Kept
<1>4. TempKept
  BY DEF TempKept
<1> QED
  BY <1>1, <1>2, <1>3, <1>4

\* A copy of a variable's limbs is a number of that size.
LEMMA CopyHolds ==
  ASSUME NEW n \in Nat, NEW s \in Int, n = Abs(s), NEW m \in Nat, Exactly(n, m)
  PROVE  /\ BlockOK(Filled(Fresh(n), n, m)) /\ Whole(Filled(Fresh(n), n, m), s)
         /\ Filled(Fresh(n), n, m).known = n /\ Filled(Fresh(n), n, m).num = m
<1>1. Fresh(n).len = n /\ Fresh(n).len \in Nat /\ n <= Fresh(n).len
  BY DEF Fresh
<1>2. BlockOK(Filled(Fresh(n), n, m)) /\ Filled(Fresh(n), n, m).known = n /\ Filled(Fresh(n), n, m).num = m % Base(n)
  BY <1>1, FilledHolds
<1>3. m < Base(n)
  BY ExactlyZero
<1>4. m % Base(n) = m
  BY <1>3, LowLimbs
<1>5. Whole(Filled(Fresh(n), n, m), s)
  BY <1>2, <1>4 DEF Whole
<1> QED
  BY <1>2, <1>4, <1>5

LEMMA MulCopyContents ==
  ASSUME Good, MulCopy
  PROVE  Contents'
<1>1. /\ pc = "enter" /\ c.fn = "mul" /\ UNCHANGED calls /\ Goto("compute") /\ Size(c.u) # 0 /\ Size(c.v) # 0
      /\ var' = var
  BY DEF MulCopy, At
<1>2. PICK u \in Var, v \in Var, w \in Var : u = c.u /\ v = c.v /\ w = c.w
  <2>1. c.k \in {c.k} /\ c.fn \notin CalledFns
    BY <1>1 DEF CalledFns, AorsUiFns
  <2> QED
    BY <1>1, <2>1, CalledByProgram, Zenon DEF Good
<1>3. u \in Usable /\ v \in Usable /\ w \in Usable /\ ~Renewed(u) /\ ~Renewed(v)
  <2>1. u \in Usable /\ v \in Usable /\ w \in Usable
    BY <1>1, <1>2, UsableArguments DEF Good
  <2> QED
    BY <1>1, <2>1 DEF Renewed
<1>4. /\ \A x \in {u, v} : var[x].d = var[w].d <=> x = w
      /\ \A x \in {u, v, w} : var[x].d \in DOMAIN heap /\ var[x].d \notin {CopyU, CopyV}
  BY <1>3, Known DEF Good, Bounds, IInv, Ownership
<1>5. PICK su \in Int, nu \in Nat, mu \in Nat :
        su = Size(u) /\ nu = Abs(su) /\ mu = Read(var[u].d, nu) /\ Exactly(nu, mu)
  BY <1>3, VariableReads
<1>6. PICK sv \in Int, nv \in Nat, mv \in Nat :
        sv = Size(v) /\ nv = Abs(sv) /\ mv = Read(var[v].d, nv) /\ Exactly(nv, mv)
  BY <1>3, VariableReads
<1>7. PICK up, vp :
        /\ loc' = MulLoc(var, up, vp, None)
        /\ BlocksOK' /\ TempKept /\ \A y \in Usable : Kept(y)
        /\ up \in DOMAIN heap' /\ Whole(heap'[up], su) /\ up # var[w].d /\ (u # w => up = var[u].d)
        /\ vp \in DOMAIN heap' /\ Whole(heap'[vp], sv) /\ vp # var[w].d /\ (v # w => vp = var[v].d)
        /\ u = v => up = vp
  <2>1. ASSUME NEW x \in {u, v}, \A y \in Usable : Kept(y)
        PROVE  var[x].d \in DOMAIN heap' /\ Whole(heap'[var[x].d], Size(x))
    <3>1. NumberAt(var[x].d, Size(x)) /\ Kept(x) /\ x \in Usable
      BY <1>3, <2>1, HasNumber
    <3>2. Sound(x) /\ Size(x)' = Size(x)
      BY <3>1, KeptReads DEF Good
    <3> QED
      BY <1>1, <3>2 DEF Sound, Size
  <2>2. CASE u = w
    <3>1. PICK b : b = Filled(Fresh(nu), nu, mu) /\ heap' = With(heap, CopyU, b)
      BY <1>2, <1>4, <1>5, <2>2 DEF MulCopy
    <3>2. PICK vp : vp = (IF v = w THEN CopyU ELSE var[v].d)
      OBVIOUS
    <3>3. loc' = MulLoc(var, CopyU, vp, None)
      BY <1>2, <1>4, <2>2, <3>2 DEF MulCopy
    <3>4. BlockOK(b) /\ Whole(b, su)
      BY <1>5, <3>1, CopyHolds
    <3>5. BlocksOK' /\ TempKept /\ CopyU \in DOMAIN heap' /\ heap'[CopyU] = b /\ \A y \in Usable : Kept(y)
      BY <1>1, <3>1, <3>4, CopyKeeps
    <3>6. vp \in DOMAIN heap' /\ Whole(heap'[vp], sv)
      <4>1. CASE v = w
        BY <1>5, <1>6, <2>2, <3>2, <3>4, <3>5, <4>1
      <4>2. CASE v # w
        BY <1>6, <2>1, <3>2, <3>5, <4>2
      <4> QED
        BY <4>1, <4>2
    <3>7. CopyU # var[w].d /\ vp # var[w].d /\ (v # w => vp = var[v].d) /\ (u = v => CopyU = vp)
      BY <1>4, <2>2, <3>2
    <3> QED
      BY <2>2, <3>3, <3>4, <3>5, <3>6, <3>7
  <2>3. CASE u # w /\ v = w
    <3>1. PICK b : b = Filled(Fresh(nv), nv, mv) /\ heap' = With(heap, CopyV, b)
      BY <1>2, <1>4, <1>6, <2>3 DEF MulCopy
    <3>3. loc' = MulLoc(var, var[u].d, CopyV, None)
      BY <1>2, <1>4, <2>3 DEF MulCopy
    <3>4. BlockOK(b) /\ Whole(b, sv)
      BY <1>6, <3>1, CopyHolds
    <3>5. BlocksOK' /\ TempKept /\ CopyV \in DOMAIN heap' /\ heap'[CopyV] = b /\ \A y \in Usable : Kept(y)
      BY <1>1, <3>1, <3>4, CopyKeeps
    <3>6. var[u].d \in DOMAIN heap' /\ Whole(heap'[var[u].d], su)
      BY <1>5, <2>1, <3>5
    <3>7. var[u].d # var[w].d /\ CopyV # var[w].d /\ u # v
      BY <1>4, <2>3
    <3> QED
      BY <2>3, <3>3, <3>4, <3>5, <3>6, <3>7
  <2>4. CASE u # w /\ v # w
    <3>1. heap' = heap /\ loc' = MulLoc(var, var[u].d, var[v].d, None)
      BY <1>2, <1>4, <2>4 DEF MulCopy
    <3>2. Carries
      BY <1>1, <3>1, SameCarries DEF Good, Contents
    <3>3. BlocksOK' /\ TempKept /\ \A y \in Usable : Kept(y)
      BY <3>2 DEF Carries
    <3>4. /\ var[u].d \in DOMAIN heap' /\ Whole(heap'[var[u].d], su)
          /\ var[v].d \in DOMAIN heap' /\ Whole(heap'[var[v].d], sv)
      BY <1>5, <1>6, <2>1, <3>3
    <3> QED
      BY <1>4, <2>4, <3>1, <3>3, <3>4
  <2> QED
    BY <2>2, <2>3, <2>4
<1>8. c' = c /\ pc' = "compute"
  BY <1>1 DEF Goto, c
<1>9. loc'.us = su /\ loc'.vs = sv /\ loc'.up = up /\ loc'.vp = vp /\ loc'.wp = var[w].d
  BY <1>2, <1>5, <1>6, <1>7 DEF MulLoc, Notes
<1>10. ProductNoted'
  <2>1. NumberAt(loc.up, loc.us)' /\ NumberAt(loc.vp, loc.vs)'
    BY <1>7, <1>9 DEF NumberAt
  <2>2. Size(c.u)' = su /\ Size(c.v)' = sv /\ su # 0 /\ sv # 0
    BY <1>1, <1>2, <1>5, <1>6, <1>8 DEF Size
  <2>3. /\ loc'.wp \notin {loc'.up, loc'.vp}
        /\ u # w => loc'.up = var'[u].d
        /\ v # w => loc'.vp = var'[v].d
        /\ u = v => loc'.up = loc'.vp
    BY <1>1, <1>7, <1>9
  <2> QED
    BY <1>2, <1>8, <1>9, <2>1, <2>2, <2>3 DEF ProductNoted
<1>11. DivisionNoted' /\ BitsNoted' /\ SumNoted' /\ OneNoted'
  BY <1>1, <1>8 DEF DivisionNoted, BitsNoted, SumNoted, OneNoted, BitFn, AorsFns, Calculator!OneOperand,
       Calculator!UnaryFns, Calculator!UiFns, Calculator!DivUiFns, AorsUiFns,
       Calculator!ShiftFns, Calculator!QuotUiFns, Calculator!RemUiFns, Calculator!QuotRemUiFns, Calculator!OnlyUiFns
<1>12. LocalsOK'
  BY <1>10, <1>11 DEF LocalsOK
<1> QED
  BY <1>1, <1>7, <1>12, GoesContents

LEMMA MulFreshContents ==
  ASSUME Good, MulFresh
  PROVE  Contents'
<1>1. /\ pc = "enter" /\ c.fn = "mul" /\ UNCHANGED calls /\ Goto("compute") /\ Size(c.u) # 0 /\ Size(c.v) # 0
  BY DEF MulFresh, At
<1>2. PICK u \in Var, v \in Var, w \in Var : u = c.u /\ v = c.v /\ w = c.w
  <2>1. c.k \in {c.k} /\ c.fn \notin CalledFns
    BY <1>1 DEF CalledFns, AorsUiFns
  <2> QED
    BY <1>1, <2>1, CalledByProgram, Zenon DEF Good
<1>3. u \in Usable /\ v \in Usable /\ w \in Usable /\ ~Renewed(u) /\ ~Renewed(v)
  <2>1. u \in Usable /\ v \in Usable /\ w \in Usable
    BY <1>1, <1>2, UsableArguments DEF Good
  <2> QED
    BY <1>1, <2>1 DEF Renewed
<1>4. PICK len \in Nat : len = MulSize
  <2>1. Abs(Size(c.u)) \in Nat /\ Abs(Size(c.v)) \in Nat
    BY <1>1, Running DEF Good
  <2> QED
    BY <2>1 DEF MulSize
<1>5. PICK old, free : /\ old = var[w].d
                       /\ free = IF old \in {var[u].d, var[v].d} THEN old ELSE None
  OBVIOUS
<1>6. PICK rest : rest = IF free = None THEN Without(heap, {old}) ELSE heap
  OBVIOUS
<1>7. PICK p \in Block \ DOMAIN rest :
        /\ heap' = With(rest, p, Fresh(len))
        /\ var' = [var EXCEPT ![w].alloc = len, ![w].d = p]
        /\ loc' = MulLoc(var', var[u].d, var[v].d, free)
  BY <1>2, <1>4, <1>5, <1>6, Zenon DEF MulFresh
<1>8. var \in [Var \cup {Temp} -> Fields] /\ old \in Block /\ old # None /\ Temp # w
  BY <1>5, NamesDiffer DEF Good, IInv, Typing
<1>9. /\ var'[w].alloc = len /\ var'[w].d = p /\ var'[w].size = var[w].size
      /\ \A y \in Var \cup {Temp} : y # w => var'[y] = var[y]
  BY <1>7, <1>8 DEF Fields
<1>10. p \in DOMAIN heap' /\ heap'[p] = Fresh(len) /\ DOMAIN heap' = DOMAIN rest \cup {p}
  <2>1. DOMAIN With(rest, p, Fresh(len)) = DOMAIN rest \cup {p}
    BY DomainWith, Zenon
  <2>2. With(rest, p, Fresh(len))[p] = Fresh(len)
    BY LensWith
  <2> QED
    BY <1>7, <2>1, <2>2
<1>11. ASSUME NEW q \in DOMAIN heap, q # old \/ old \in {var[u].d, var[v].d}
       PROVE  q \in DOMAIN heap' /\ heap'[q] = heap[q] /\ q # p
  <2>1. q \in DOMAIN rest /\ rest[q] = heap[q]
    BY <1>5, <1>6, <1>8, <1>11 DEF Without
  <2> QED
    BY <1>7, <2>1, LensWith
<1>12. BlocksOK'
  <2>1. ASSUME NEW q \in DOMAIN heap' PROVE BlockOK(heap'[q])
    <3>1. CASE q = p
      BY <1>10, <3>1, FreshBlock
    <3>2. CASE q # p
      <4>1. q \in DOMAIN rest
        BY <1>10, <2>1, <3>2
      <4>2. q \in DOMAIN heap /\ rest[q] = heap[q]
        BY <1>6, <4>1 DEF Without
      <4>3. heap'[q] = heap[q]
        BY <1>7, <3>2, <4>1, <4>2, LensWith
      <4> QED
        BY <4>2, <4>3 DEF Good, Contents, BlocksOK
    <3> QED
      BY <3>1, <3>2
  <2> QED
    BY <2>1 DEF BlocksOK, BlockOK
<1>13. ASSUME NEW y \in Usable, y # w
       PROVE  Kept(y)
  <2>1. var[y].d # old /\ var[y].d \in DOMAIN heap
    BY <1>3, <1>5, <1>13, OthersBlocks DEF Good, Bounds
  <2>2. y \in Var \cup {Temp}
    BY DEF Usable
  <2> QED
    BY <1>9, <1>11, <1>13, <2>1, <2>2 DEF Kept
<1>14. TempKept
  BY <1>8, <1>9 DEF TempKept
<1>15. c' = c /\ pc' = "compute" /\ Renewed(w)'
  BY <1>1, <1>2 DEF Goto, c, Renewed
<1>16. /\ loc'.us = Size(u) /\ loc'.vs = Size(v) /\ loc'.up = var[u].d /\ loc'.vp = var[v].d
       /\ loc'.wp = p
  BY <1>2, <1>7, <1>9 DEF MulLoc, Notes
<1>17. \A x \in {u, v} : /\ var[x].d \in DOMAIN heap' /\ heap'[var[x].d] = heap[var[x].d] /\ var[x].d # p
                         /\ Whole(heap[var[x].d], Size(x))
  <2>1. ASSUME NEW x \in {u, v}
        PROVE  /\ var[x].d \in DOMAIN heap' /\ heap'[var[x].d] = heap[var[x].d] /\ var[x].d # p
               /\ Whole(heap[var[x].d], Size(x))
    <3>1. NumberAt(var[x].d, Size(x))
      BY <1>3, HasNumber
    <3> QED
      BY <1>11, <3>1 DEF NumberAt
  <2> QED
    BY <2>1
<1>18. ProductNoted'
  <2>1. NumberAt(loc.up, loc.us)' /\ NumberAt(loc.vp, loc.vs)'
    BY <1>16, <1>17 DEF NumberAt, Whole
  <2>2. Size(c.u)' = Size(u) /\ Size(c.v)' = Size(v) /\ Size(u) # 0 /\ Size(v) # 0
    <3>1. Size(u) # 0 /\ Size(v) # 0
      BY <1>1, <1>2
    <3>2. \A x \in {u, v} : var'[x].size = var[x].size
      BY <1>9
    <3> QED
      BY <1>2, <1>15, <3>1, <3>2 DEF Size
  <2>3. /\ loc'.wp \notin {loc'.up, loc'.vp}
        /\ u # w => loc'.up = var'[u].d
        /\ v # w => loc'.vp = var'[v].d
        /\ u = v => loc'.up = loc'.vp
    BY <1>9, <1>16, <1>17
  <2> QED
    BY <1>2, <1>15, <1>16, <2>1, <2>2, <2>3 DEF ProductNoted
<1>19. DivisionNoted' /\ BitsNoted' /\ SumNoted' /\ OneNoted'
  BY <1>1, <1>15 DEF DivisionNoted, BitsNoted, SumNoted, OneNoted, BitFn, AorsFns, Calculator!OneOperand,
       Calculator!UnaryFns, Calculator!UiFns, Calculator!DivUiFns, AorsUiFns,
       Calculator!ShiftFns, Calculator!QuotUiFns, Calculator!RemUiFns, Calculator!QuotRemUiFns, Calculator!OnlyUiFns
<1>20. LocalsOK'
  BY <1>18, <1>19 DEF LocalsOK
<1>21. w # Temp
  BY <1>8
<1> QED
  BY <1>1, <1>12, <1>13, <1>14, <1>15, <1>20, <1>21, GoesContents

\* The operands of a division are copied when they are a result, too.
LEMMA CopyOperandsContents ==
  ASSUME Good, NEW fns, fns \subseteq {"tdiv_qr", "tdiv_q", "tdiv_r"}, CopyOperands(fns)
  PROVE  Contents'
<1>1. /\ pc = "copy" /\ c.fn \in {"tdiv_qr", "tdiv_q", "tdiv_r"} /\ UNCHANGED calls /\ Goto("compute")
      /\ var' = var /\ loc.us = Size(c.u) /\ loc.vs = Size(c.v) /\ loc.vs # 0
  BY DEF CopyOperands, At, Good, Bounds, Dividing, Contents, LocalsOK, DivisionNoted
<1>2. PICK u \in Usable, v \in Usable, w \in Usable, r \in Usable : u = c.u /\ v = c.v /\ w = c.w /\ r = c.r
  BY <1>1, UsableArguments DEF Good
<1>3. ~Renewed(u) /\ ~Renewed(v)
  BY <1>1 DEF Renewed
<1>4. \A x \in {u, v, w, r} : var[x].d \in DOMAIN heap /\ var[x].d \notin {CopyU, CopyV}
  BY Known DEF Good, Bounds
<1>5. PICK su \in Int, nu \in Nat, mu \in Nat :
        su = Size(u) /\ nu = Abs(su) /\ mu = Read(var[u].d, nu) /\ Exactly(nu, mu)
  BY <1>3, VariableReads
<1>6. PICK sv \in Int, nv \in Nat, mv \in Nat :
        sv = Size(v) /\ nv = Abs(sv) /\ mv = Read(var[v].d, nv) /\ Exactly(nv, mv)
  BY <1>3, VariableReads
<1>7. PICK results : results = {var[w].d, var[r].d}
  BY Zenon
<1>8. PICK up, vp : /\ up = (IF var[u].d \in results THEN CopyU ELSE var[u].d)
                    /\ vp = (IF var[v].d \in results THEN CopyV ELSE var[v].d)
  OBVIOUS
<1>9. /\ heap' = [p \in DOMAIN heap \cup ({up, vp} \cap Copy) |->
              IF p \in DOMAIN heap THEN heap[p]
              ELSE LET x == IF p = CopyU THEN u ELSE v
                       n == Abs(IF p = CopyU THEN loc.us ELSE loc.vs)
                   IN  Filled(Fresh(n), n, Read(var[x].d, n))]
      /\ loc' = [loc EXCEPT !.up = up, !.vp = vp, !.wp = var[w].d, !.rp = var[r].d]
  BY <1>2, <1>7, <1>8 DEF CopyOperands
<1>10. loc.us = su /\ loc.vs = sv
  BY <1>1, <1>2, <1>5, <1>6
<1>11. \A p \in DOMAIN heap : p \in DOMAIN heap' /\ heap'[p] = heap[p]
  BY <1>9
<1>12. CopyU \notin DOMAIN heap /\ CopyV \notin DOMAIN heap /\ CopyU # CopyV
  BY <1>1, NoCopies, NamesDiffer
<1>13. var[u].d \in results =>
         up = CopyU /\ CopyU \in DOMAIN heap' /\ heap'[CopyU] = Filled(Fresh(nu), nu, mu)
  BY <1>5, <1>8, <1>9, <1>10, <1>12, Zenon DEF Copy
<1>14. var[v].d \in results =>
         vp = CopyV /\ CopyV \in DOMAIN heap' /\ heap'[CopyV] = Filled(Fresh(nv), nv, mv)
  BY <1>6, <1>8, <1>9, <1>10, <1>12, Zenon DEF Copy
<1>15. /\ BlockOK(Filled(Fresh(nu), nu, mu)) /\ Filled(Fresh(nu), nu, mu).known = nu /\ Filled(Fresh(nu), nu, mu).num = mu
       /\ BlockOK(Filled(Fresh(nv), nv, mv)) /\ Filled(Fresh(nv), nv, mv).known = nv /\ Filled(Fresh(nv), nv, mv).num = mv
       /\ mu % Base(nu) = mu /\ mv % Base(nv) = mv
  <2>1. BlockOK(Filled(Fresh(nu), nu, mu)) /\ Filled(Fresh(nu), nu, mu).known = nu /\ Filled(Fresh(nu), nu, mu).num = mu
    BY <1>5, CopyHolds
  <2>2. BlockOK(Filled(Fresh(nv), nv, mv)) /\ Filled(Fresh(nv), nv, mv).known = nv /\ Filled(Fresh(nv), nv, mv).num = mv
    BY <1>6, CopyHolds
  <2>3. mu < Base(nu) /\ mv < Base(nv)
    BY <1>5, <1>6, ExactlyZero
  <2>4. mu % Base(nu) = mu /\ mv % Base(nv) = mv
    BY <2>3, LowLimbs
  <2> QED
    BY <2>1, <2>2, <2>4
<1>16. BlocksOK'
  <2>1. ASSUME NEW q \in DOMAIN heap' PROVE BlockOK(heap'[q])
    <3>1. CASE q \in DOMAIN heap
      BY <1>11, <3>1 DEF Good, Contents, BlocksOK
    <3>2. CASE q \notin DOMAIN heap
      <4>1. q \in {up, vp}
        BY <1>9, <2>1, <3>2
      <4>2. CASE q = up
        <5>1. var[u].d \in results
          BY <1>4, <1>8, <3>2, <4>2
        <5> QED
          BY <1>13, <1>15, <4>2, <5>1
      <4>3. CASE q = vp
        <5>1. var[v].d \in results
          BY <1>4, <1>8, <3>2, <4>3
        <5> QED
          BY <1>14, <1>15, <4>3, <5>1
      <4> QED
        BY <4>1, <4>2, <4>3
    <3> QED
      BY <3>1, <3>2
  <2> QED
    BY <2>1 DEF BlocksOK, BlockOK
<1>17. \A y \in Usable : Kept(y)
  <2>1. ASSUME NEW y \in Usable PROVE Kept(y)
    <3>1. var[y].d \in DOMAIN heap
      BY Known DEF Good, Bounds
    <3> QED
      BY <1>1, <1>11, <3>1 DEF Kept
  <2> QED
    BY <2>1
<1>18. TempKept
  BY <1>1 DEF TempKept
<1>19. c' = c /\ pc' = "compute"
  BY <1>1 DEF Goto, c
<1>20. loc'.us = su /\ loc'.vs = sv /\ loc'.up = up /\ loc'.vp = vp /\ loc'.wp = var[w].d /\ loc'.rp = var[r].d
  <2>1. loc \in Locals
    BY DEF Good, IInv, Typing
  <2> QED
    BY <1>9, <1>10, <2>1 DEF Locals
<1>21. up \in DOMAIN heap' /\ Read(up, nu)' = mu /\ Read(var[u].d, nu)' = mu
  <2>1. Read(var[u].d, nu)' = Read(var[u].d, nu)
    BY <1>17, KeptReads DEF Good
  <2>2. CASE var[u].d \in results
    <3>1. nu <= heap'[up].known /\ heap'[up].num = mu /\ up \in DOMAIN heap'
      BY <1>13, <1>15, <2>2
    <3>2. Read(up, nu)' = mu
      BY <1>15, <3>1 DEF Read
    <3> QED
      BY <1>5, <2>1, <3>1, <3>2
  <2>3. CASE var[u].d \notin results
    <3>1. up = var[u].d /\ up = var'[u].d /\ up \in DOMAIN heap'
      BY <1>1, <1>4, <1>8, <1>11, <2>3
    <3> QED
      BY <1>5, <2>1, <3>1 DEF Read
  <2> QED
    BY <2>2, <2>3
<1>22. vp \in DOMAIN heap' /\ Read(vp, nv)' = mv /\ Read(var[v].d, nv)' = mv
  <2>1. Read(var[v].d, nv)' = Read(var[v].d, nv)
    BY <1>17, KeptReads DEF Good
  <2>2. CASE var[v].d \in results
    <3>1. nv <= heap'[vp].known /\ heap'[vp].num = mv /\ vp \in DOMAIN heap'
      BY <1>14, <1>15, <2>2
    <3>2. Read(vp, nv)' = mv
      BY <1>15, <3>1 DEF Read
    <3> QED
      BY <1>6, <2>1, <3>1, <3>2
  <2>3. CASE var[v].d \notin results
    <3>1. vp = var[v].d /\ vp = var'[v].d /\ vp \in DOMAIN heap'
      BY <1>1, <1>4, <1>8, <1>11, <2>3
    <3> QED
      BY <1>6, <2>1, <3>1 DEF Read
  <2> QED
    BY <2>2, <2>3
<1>23. {up, vp} \cap {var[w].d, var[r].d} = {}
  BY <1>4, <1>7, <1>8
<1>24. DivisionNoted'
  <2>1. Size(c.u)' = su /\ Size(c.v)' = sv /\ c'.u = u /\ c'.v = v /\ c'.w = w /\ c'.r = r
    BY <1>1, <1>2, <1>5, <1>6, <1>19 DEF Size
  <2>2. SameLimbs(loc.us, loc.up, c.u)' /\ SameLimbs(loc.vs, loc.vp, c.v)'
    BY <1>1, <1>5, <1>6, <1>20, <1>21, <1>22, <2>1 DEF SameLimbs, Read
  <2>3. loc'.vs # 0 /\ {loc'.up, loc'.vp} \cap {var'[w].d, var'[r].d} = {} /\ loc'.rp = var'[r].d
    BY <1>1, <1>10, <1>20, <1>23
  <2> QED
    BY <1>19, <2>1, <2>2, <2>3 DEF DivisionNoted
<1>25. BitsNoted' /\ ProductNoted' /\ SumNoted' /\ OneNoted'
  BY <1>1, <1>19 DEF BitsNoted, ProductNoted, SumNoted, OneNoted, BitFn, AorsFns, Calculator!OneOperand,
       Calculator!UnaryFns, Calculator!UiFns, Calculator!DivUiFns, AorsUiFns,
       Calculator!ShiftFns, Calculator!QuotUiFns, Calculator!RemUiFns, Calculator!QuotRemUiFns, Calculator!OnlyUiFns
<1>26. LocalsOK'
  BY <1>24, <1>25 DEF LocalsOK
<1> QED
  BY <1>1, <1>16, <1>17, <1>18, <1>26, GoesContents

-----------------------------------------------------------------------------
(* Functions call others.                                                   *)

\* One call or two, when the variables stay as they were.
LEMMA CallsKeep ==
  ASSUME Good, pc = "enter", pc' = pc, UNCHANGED <<calls, ret, heap, var>>,
         NEW K, NEW a \in Task(K), NEW b \in Task(K), TaskOK(a), TaskOK(b),
         todo' = <<a>> \o Tail(todo) \/ todo' = <<a, b>> \o Tail(todo)
  PROVE  Contents'
<1>1. PICK steps \in Seq(Task(K)) : /\ steps = <<a>> \/ steps = <<a, b>>
                                    /\ todo' = steps \o Tail(todo)
  <2>1. <<a>> \in Seq(Task(K)) /\ <<a, b>> \in Seq(Task(K))
    OBVIOUS
  <2> QED
    BY <2>1, Zenon
<1>2. \A i \in 1 .. Len(steps) : TaskOK(steps[i])
  BY <1>1
<1>3. BlocksOK'
  BY DEF Good, Contents, BlocksOK, BlockOK
<1>4. NumbersOK'
  <2>1. ~\E x : Renewed(x)
    BY DEF Renewed
  <2> QED
    BY <2>1 DEF Good, Contents, NumbersOK, NumberAt, Whole, Size
<1> QED
  BY <1>1, <1>2, <1>3, <1>4, CallsContents, Zenon

\* The arguments of a function that a function calls are as they must be.
LEMMA TaskKnown ==
  ASSUME Good, todo # <<>>
  PROVE  TaskOK(c) /\ c \in Task({c.k})
<1>1. c = todo[1] /\ 1 \in 1 .. Len(todo) /\ c \in Task({c.k})
  BY Arguments DEF Good
<1> QED
  BY <1>1 DEF Good, Contents, TasksOK

LEMMA CorrectQContents ==
  ASSUME Good, CorrectQ
  PROVE  Contents'
<1>1. pc = "enter" /\ c.fn \in {"floor_q", "ceiling_q"} /\ UNCHANGED <<heap, var, calls>>
  BY DEF CorrectQ, At
<1>2. CASE Finish
  <2>1. pc \in {"enter", "quot", "room", "copy"}
    BY <1>1
  <2> QED
    BY <1>1, <1>2, <2>1, SameContents
<1>3. CASE ~Finish
  <2>1. PICK a : /\ a = [c EXCEPT !.fn = IF @ = "floor_q" THEN "sub_ui" ELSE "add_ui",
                                  !.r = c.w, !.u = c.w, !.v = c.w, !.k = 1]
                 /\ todo' = <<a>> \o Tail(todo) /\ UNCHANGED <<pc, ret>>
    BY <1>3 DEF CorrectQ, Then
  <2>2. todo # <<>>
    BY <1>1, Running DEF Good
  <2>3. c \in Task({c.k}) /\ c.w \in Var
    BY <2>2, Arguments DEF Good
  <2>4. a.fn \in {"sub_ui", "add_ui"} /\ a.r = c.w /\ a.w = c.w /\ a.k = 1 /\ a \in Task({1})
    BY <2>1, <2>3, Zenon DEF Task, CalledFns
  <2>5. TaskOK(a)
    <3>1. 1 < B
      BY ZeroLimb
    <3> QED
      BY <2>4, <3>1 DEF TaskOK, Calculator!TwoResults, Calculator!QuotRemFns, Calculator!QuotRemUiFns
  <2> QED
    BY <1>1, <2>1, <2>4, <2>5, CallsKeep, Zenon
<1> QED
  BY <1>2, <1>3

LEMMA CorrectRContents ==
  ASSUME Good, CorrectR
  PROVE  Contents'
<1>1. pc = "enter" /\ c.fn \in {"floor_r", "ceiling_r", "least_r"} /\ UNCHANGED <<heap, var, calls>>
  BY DEF CorrectR, At
<1>2. CASE Finish
  <2>1. pc \in {"enter", "quot", "room", "copy"}
    BY <1>1
  <2> QED
    BY <1>1, <1>2, <2>1, SameContents
<1>3. CASE ~Finish
  <2>1. PICK fn \in {"add", "sub"} : Then(<< [c EXCEPT !.fn = fn, !.u = c.w, !.k = 0] >>)
    BY <1>1, <1>3, Zenon DEF CorrectR
  <2>6. PICK a : a = [c EXCEPT !.fn = fn, !.u = c.w, !.k = 0] /\ todo' = <<a>> \o Tail(todo) /\ UNCHANGED <<pc, ret>>
    BY <2>1 DEF Then
  <2>2. todo # <<>>
    BY <1>1, Running DEF Good
  <2>3. c \in Task({c.k}) /\ c.w \in Var /\ TaskOK(c)
    BY <2>2, Arguments, TaskKnown DEF Good
  <2>7. c.r = c.w
    BY <1>1, <2>3 DEF TaskOK, Calculator!TwoResults, Calculator!QuotRemFns, Calculator!QuotRemUiFns
  <2>4. a.fn \in {"add", "sub"} /\ a.r = c.w /\ a.w = c.w /\ a.k = 0 /\ a \in Task({0})
    BY <2>6, <2>3, <2>7, Zenon DEF Task, CalledFns
  <2>5. TaskOK(a)
    BY <2>4 DEF TaskOK, Calculator!TwoResults, Calculator!QuotRemFns, Calculator!QuotRemUiFns, Calculator!UiFns,
         Calculator!DivUiFns, Calculator!QuotUiFns, Calculator!RemUiFns, Calculator!OnlyUiFns
  <2> QED
    BY <1>1, <2>6, <2>4, <2>5, CallsKeep, Zenon
<1> QED
  BY <1>2, <1>3

\* temp_divisor is made, with a number of its size in it; the others stay.
LEMMA TempHolds ==
  ASSUME Good, pc = "enter", NEW n \in Nat, NEW s \in Int, NEW b, BlockOK(b), Whole(b, s),
         var' = [var EXCEPT ![Temp] = [alloc |-> n, size |-> s, d |-> CopyD]], heap' = With(heap, CopyD, b),
         pc' = pc
  PROVE  BlocksOK' /\ NumbersOK'
<1>1. /\ var'[Temp].d = CopyD /\ \A x \in Var : var'[x] = var[x]
      /\ DOMAIN heap' = DOMAIN heap \cup {CopyD} /\ CopyD \in DOMAIN heap'
  BY TempMade, Zenon DEF Good
<1>2. var \in [Var \cup {Temp} -> Fields]
  BY DEF Good, IInv, Typing
<1>3. var'[Temp].size = s
  BY <1>2
<1>4. With(heap, CopyD, b)[CopyD] = b /\ \A p \in DOMAIN heap : p # CopyD => With(heap, CopyD, b)[p] = heap[p]
  BY DEF With
<1>5. heap'[CopyD] = b /\ \A p \in DOMAIN heap : p # CopyD => heap'[p] = heap[p]
  BY <1>4
<1>6. \A p \in DOMAIN heap : BlockOK(heap[p])
  BY DEF Good, Contents, BlocksOK
<1>7. \A p \in DOMAIN heap' : BlockOK(heap'[p])
  BY <1>1, <1>5, <1>6
<1>8. BlocksOK'
  BY <1>7 DEF BlocksOK, BlockOK
<1>9. ASSUME NEW x \in Var
      PROVE  NumberAt(var[x].d, Size(x))'
  <2>1. x \in Usable /\ ~Renewed(x)
    BY NamesDiffer DEF Usable, Renewed
  <2>2. NumberAt(var[x].d, Size(x))
    BY <2>1, HasNumber
  <2>3. var[x].d # CopyD
    BY NamesDiffer DEF Good, IInv, Typing, Copy
  <2> QED
    BY <1>1, <1>5, <2>2, <2>3 DEF NumberAt, Whole, Size
<1>10. NumberAt(CopyD, Size(Temp))'
  BY <1>1, <1>3, <1>5 DEF NumberAt, Whole, Size
<1> QED
  BY <1>1, <1>8, <1>9, <1>10 DEF NumbersOK

\* The variables stay as they are.
LEMMA StaysHolds ==
  ASSUME Good, pc = "enter", pc' = pc, UNCHANGED <<heap, var>>
  PROVE  BlocksOK' /\ NumbersOK'
<1>1. BlocksOK'
  BY DEF Good, Contents, BlocksOK, BlockOK
<1>2. ~\E x : Renewed(x)
  BY DEF Renewed
<1>3. NumbersOK'
  BY <1>2 DEF Good, Contents, NumbersOK, NumberAt, Whole, Size
<1> QED
  BY <1>1, <1>3

\* Two calls, of a division and of its correction.
LEMMA CallsTwo ==
  ASSUME Good, pc = "enter", pc' = pc, UNCHANGED <<calls, ret>>,
         NEW K, NEW a \in Task(K), NEW b \in Task(K), TaskOK(a), TaskOK(b),
         todo' = <<a, b>> \o Tail(todo), BlocksOK', NumbersOK'
  PROVE  Contents'
<1>1. PICK steps : steps = <<a, b>>
  OBVIOUS
<1>2. steps \in Seq(Task(K)) /\ todo' = steps \o Tail(todo)
  BY <1>1
<1>3. \A i \in 1 .. Len(steps) : TaskOK(steps[i])
  BY <1>1
<1> QED
  BY <1>2, <1>3, CallsContents, Zenon

\* A variable's number fits a copy of its length.
LEMMA CopyOf ==
  ASSUME Good, pc = "enter", NEW x \in Var
  PROVE  \E n \in Nat, s \in Int :
           /\ s = Size(x) /\ n = Abs(s) /\ n = Abs(Size(x))
           /\ BlockOK(Filled(Fresh(n), n, Read(var[x].d, n))) /\ Whole(Filled(Fresh(n), n, Read(var[x].d, n)), s)
<1>1. x \in Usable /\ ~Renewed(x)
  BY NamesDiffer DEF Usable, Renewed
<1>2. PICK s \in Int, n \in Nat, m \in Nat : s = Size(x) /\ n = Abs(s) /\ m = Read(var[x].d, n) /\ Exactly(n, m)
  BY <1>1, VariableReads
<1>3. BlockOK(Filled(Fresh(n), n, m)) /\ Whole(Filled(Fresh(n), n, m), s)
  BY <1>2, CopyHolds
<1> QED
  BY <1>2, <1>3

LEMMA DivTruncateContents ==
  ASSUME Good, DivTruncate
  PROVE  Contents'
<1>1. pc = "enter" /\ c.fn \in {"fdiv_qr", "cdiv_qr"} /\ pc' = pc /\ UNCHANGED <<calls, ret>>
  BY DEF DivTruncate, At
<1>2. PICK K : K = {c.k, 0, 1}
  BY Zenon
<1>3. PICK t : t = c
  OBVIOUS
<1>4. /\ t \in Task(K) /\ t.r \in Var /\ t.v \in Var /\ t.w \in Var /\ t.k \in Nat /\ TaskOK(t)
  <2>1. /\ c \in Task({c.k}) /\ TempUse(c) /\ (c.fn \notin AorsUiFns => c.k \in Nat)
        /\ c.w \in Var /\ c.r \in Var \cup {Temp} /\ c.v \in Var \cup {Temp} /\ TaskOK(c)
    BY <1>1, Running, Arguments, TaskKnown DEF Good
  <2>2. c.r # Temp /\ c.v # Temp /\ c.k \in Nat
    BY <1>1, <2>1 DEF TempUse, AorsUiFns
  <2>3. c \in Task(K)
    BY <1>2, <2>1 DEF Task
  <2> QED
    BY <1>3, <2>1, <2>2, <2>3
<1>5. PICK d, f, k, a, b :
        /\ d = IF DivCopy(t.v) THEN Temp ELSE t.v
        /\ f \in {"floor", "ceiling"} /\ k \in {0, 1}
        /\ a = [t EXCEPT !.fn = "tdiv_qr", !.v = d]
        /\ b = [t EXCEPT !.fn = f, !.v = d, !.k = k]
        /\ todo' = <<a, b>> \o Tail(todo)
  <2>1. PICK k : k = IF OppositeSigns(Size(c.u), Size(c.v)) THEN 1 ELSE 0
    OBVIOUS
  <2>2. PICK f : f = IF t.fn = "fdiv_qr" THEN "floor" ELSE "ceiling"
    OBVIOUS
  <2>3. PICK d : d = IF DivCopy(t.v) THEN Temp ELSE t.v
    OBVIOUS
  <2>4. todo' = << [t EXCEPT !.fn = "tdiv_qr", !.v = d], [t EXCEPT !.fn = f, !.v = d, !.k = k] >>
                  \o Tail(todo)
    BY <1>3, <2>1, <2>2, <2>3 DEF DivTruncate
  <2>5. f \in {"floor", "ceiling"} /\ k \in {0, 1}
    BY <2>1, <2>2
  <2> QED
    BY <2>3, <2>4, <2>5, Zenon
<1>6. d \in Var \cup {Temp}
  BY <1>4, <1>5
<1>7. t.r # t.w
  BY <1>1, <1>3, <1>4 DEF TaskOK, Calculator!TwoResults, Calculator!QuotRemFns
<1>8. a \in Task(K) /\ a.fn = "tdiv_qr" /\ a.r # a.w /\ a.k \in Nat
  BY <1>4, <1>5, <1>6, <1>7, Zenon DEF Task, CalledFns
<1>9. b \in Task(K) /\ b.fn \in {"floor", "ceiling"} /\ b.r # b.w /\ b.k \in Nat
  <2>1. b.fn = f /\ b.r = t.r /\ b.w = t.w /\ b.k = k /\ b \in Task(K)
    BY <1>2, <1>4, <1>5, <1>6, Zenon DEF Task, CalledFns
  <2> QED
    BY <1>5, <1>7, <2>1
<1>10. TaskOK(a)
  BY <1>8 DEF TaskOK, Calculator!TwoResults, Calculator!QuotRemFns, Calculator!UiFns,
       Calculator!DivUiFns, Calculator!QuotUiFns, Calculator!RemUiFns, Calculator!QuotRemUiFns, Calculator!OnlyUiFns
<1>11. TaskOK(b)
  BY <1>9 DEF TaskOK, Calculator!UiFns,
       Calculator!DivUiFns, Calculator!QuotUiFns, Calculator!RemUiFns, Calculator!QuotRemUiFns, Calculator!OnlyUiFns
<1>12. BlocksOK' /\ NumbersOK'
  <2>1. CASE DivCopy(t.v)
    <3>1. PICK n \in Nat, s \in Int :
            /\ s = Size(t.v) /\ n = Abs(s) /\ n = Abs(Size(t.v))
            /\ BlockOK(Filled(Fresh(n), n, Read(var[t.v].d, n)))
            /\ Whole(Filled(Fresh(n), n, Read(var[t.v].d, n)), s)
      BY <1>1, <1>4, CopyOf
    <3>2. PICK e : e = Filled(Fresh(n), n, Read(var[t.v].d, n))
      OBVIOUS
    <3>3. /\ var' = [var EXCEPT ![Temp] = [alloc |-> n, size |-> s, d |-> CopyD]]
          /\ heap' = With(heap, CopyD, e)
      BY <1>3, <2>1, <3>1, <3>2 DEF DivTruncate
    <3>4. BlockOK(e) /\ Whole(e, s)
      BY <3>1, <3>2
    <3> QED
      BY <1>1, <3>3, <3>4, TempHolds, Zenon
  <2>2. CASE ~DivCopy(t.v)
    <3>1. UNCHANGED <<heap, var>>
      BY <1>3, <2>2 DEF DivTruncate
    <3> QED
      BY <1>1, <3>1, StaysHolds
  <2> QED
    BY <2>1, <2>2
<1> QED
  BY <1>1, <1>5, <1>8, <1>9, <1>10, <1>11, <1>12, CallsTwo, Zenon

LEMMA DivAdjustContents ==
  ASSUME Good, DivAdjust
  PROVE  Contents'
<1>1. /\ pc = "enter" /\ c.fn \in {"floor", "ceiling"} /\ pc' = pc /\ UNCHANGED <<calls, ret, heap, var>>
  BY DEF DivAdjust, At
<1>2. PICK K, t : K = {c.k, 0, 1} /\ t = c
  BY Zenon
<1>3. t \in Task(K) /\ t.r \in Var /\ t.w \in Var /\ t.v \in Var \cup {Temp}
  <2>1. /\ c \in Task({c.k}) /\ TempUse(c)
        /\ c.w \in Var /\ c.r \in Var \cup {Temp} /\ c.v \in Var \cup {Temp}
    BY <1>1, Running, Arguments DEF Good
  <2>2. c.r # Temp
    BY <1>1, <2>1 DEF TempUse
  <2>3. c \in Task(K)
    BY <1>2, <2>1 DEF Task
  <2> QED
    BY <1>2, <2>1, <2>2, <2>3
<1>4. PICK f, g : /\ f \in {"sub_ui", "add_ui"} /\ g \in {"add", "sub"}
                  /\ todo' = << [t EXCEPT !.fn = f, !.r = t.w, !.u = t.w, !.v = t.w, !.k = 1],
                                [t EXCEPT !.fn = g, !.w = t.r, !.u = t.r, !.k = 0] >> \o Tail(todo)
  <2>1. CASE t.fn = "floor"
    BY <1>2, <2>1, Zenon DEF DivAdjust
  <2>2. CASE t.fn # "floor"
    BY <1>2, <2>2, Zenon DEF DivAdjust
  <2> QED
    BY <2>1, <2>2, Zenon
<1>5. PICK a, b : /\ a = [t EXCEPT !.fn = f, !.r = t.w, !.u = t.w, !.v = t.w, !.k = 1]
                  /\ b = [t EXCEPT !.fn = g, !.w = t.r, !.u = t.r, !.k = 0]
  OBVIOUS
<1>6. a \in Task(K) /\ a.fn \in {"sub_ui", "add_ui"} /\ a.w = t.w /\ a.r = t.w /\ a.k = 1
  BY <1>2, <1>3, <1>4, <1>5, Zenon DEF Task, CalledFns
<1>7. b \in Task(K) /\ b.fn \in {"add", "sub"} /\ b.w = t.r /\ b.r = t.r /\ b.k = 0
  BY <1>2, <1>3, <1>4, <1>5, Zenon DEF Task, CalledFns
<1>8. todo' = <<a, b>> \o Tail(todo)
  BY <1>4, <1>5
<1>9. TaskOK(a)
  <2>1. 1 < B
    BY ZeroLimb
  <2> QED
    BY <1>6, <2>1 DEF TaskOK, Calculator!TwoResults, Calculator!QuotRemFns, Calculator!QuotRemUiFns
<1>10. TaskOK(b)
  BY <1>7 DEF TaskOK, Calculator!TwoResults, Calculator!QuotRemFns, Calculator!QuotRemUiFns, Calculator!UiFns,
       Calculator!DivUiFns, Calculator!QuotUiFns, Calculator!RemUiFns, Calculator!OnlyUiFns
<1> QED
  BY <1>1, <1>6, <1>7, <1>8, <1>9, <1>10, CallsKeep, Zenon

LEMMA RoundQContents ==
  ASSUME Good, NEW fn \in {"fdiv_q", "cdiv_q"}, NEW correct \in {"floor_q", "ceiling_q"}, RoundQ(fn, correct)
  PROVE  Contents'
<1>1. pc = "enter" /\ c.fn = fn /\ pc' = pc /\ UNCHANGED <<calls, ret>>
  BY DEF RoundQ, At, Then
<1>2. PICK K, t : K = {c.k, 0, 1} /\ t = c
  BY Zenon
<1>3. t \in Task(K) /\ t.w \in Var /\ t.v \in Var /\ t.k \in Nat
  <2>1. c.fn \notin CalledFns /\ c.k \in K
    BY <1>1, <1>2 DEF CalledFns, AorsUiFns
  <2> QED
    BY <1>1, <1>2, <2>1, CalledByProgram DEF Good
<1>4. PICK a, b, k :
        /\ k \in {0, 1}
        /\ a = [t EXCEPT !.fn = "tdiv_qr", !.r = Temp]
        /\ b = [t EXCEPT !.fn = correct, !.r = Temp, !.k = k]
        /\ todo' = <<a, b>> \o Tail(todo)
  BY <1>2, Zenon DEF RoundQ, Then
<1>5. a \in Task(K) /\ a.fn = "tdiv_qr" /\ a.r = Temp /\ a.w = t.w /\ a.k = t.k
  BY <1>3, <1>4, Zenon DEF Task, CalledFns
<1>6. b \in Task(K) /\ b.fn = correct /\ b.r = Temp /\ b.w = t.w /\ b.k = k
  BY <1>2, <1>3, <1>4, Zenon DEF Task, CalledFns
<1>7. Temp # t.w
  BY <1>3, NamesDiffer
<1>8. TaskOK(a)
  BY <1>3, <1>5, <1>7 DEF TaskOK, Calculator!TwoResults, Calculator!QuotRemFns, Calculator!UiFns,
       Calculator!DivUiFns, Calculator!QuotUiFns, Calculator!RemUiFns, Calculator!QuotRemUiFns, Calculator!OnlyUiFns
<1>9. TaskOK(b)
  BY <1>4, <1>6, <1>7 DEF TaskOK, Calculator!UiFns,
       Calculator!DivUiFns, Calculator!QuotUiFns, Calculator!RemUiFns, Calculator!QuotRemUiFns, Calculator!OnlyUiFns
<1>10. BlocksOK' /\ NumbersOK'
  <2>1. PICK n, s, e : /\ n = Abs(Size(t.v)) /\ s = 0 /\ e = Fresh(n)
                       /\ var' = [var EXCEPT ![Temp] = [alloc |-> n, size |-> s, d |-> CopyD]]
                       /\ heap' = With(heap, CopyD, e)
    BY <1>2, Zenon DEF RoundQ
  <2>2. n \in Nat /\ s \in Int
    BY <1>1, <1>2, <2>1, Running DEF Good
  <2>3. BlockOK(e) /\ Whole(e, s)
    BY <2>1, <2>2, FreshBlock
  <2> QED
    BY <1>1, <2>1, <2>2, <2>3, TempHolds, Zenon
<1> QED
  BY <1>1, <1>4, <1>5, <1>6, <1>8, <1>9, <1>10, CallsTwo

LEMMA RoundRContents ==
  ASSUME Good, NEW fn \in {"fdiv_r", "cdiv_r", "mod"}, NEW correct \in {"floor_r", "ceiling_r", "least_r"},
         RoundR(fn, correct)
  PROVE  Contents'
<1>1. pc = "enter" /\ c.fn = fn /\ pc' = pc /\ UNCHANGED <<calls, ret>>
  BY DEF RoundR, At, Then
<1>2. PICK K, t : K = {c.k, 0, 1} /\ t = c
  BY Zenon
<1>3. t \in Task(K) /\ t.w \in Var /\ t.v \in Var /\ t.r \in Var /\ t.k \in Nat /\ TaskOK(t)
  <2>1. c.fn \notin CalledFns /\ c.k \in K
    BY <1>1, <1>2 DEF CalledFns, AorsUiFns
  <2> QED
    BY <1>1, <1>2, <2>1, CalledByProgram, TaskKnown, Running, Zenon DEF Good
<1>4. PICK k, d : /\ k = IF Size(c.v) < 0 THEN 1 ELSE 0
                  /\ d = IF t.v = t.w THEN Temp ELSE t.v
  OBVIOUS
<1>5. k \in {0, 1}
  BY <1>4
<1>6. PICK a, b : /\ a = [t EXCEPT !.fn = "tdiv_r", !.v = d]
                  /\ b = [t EXCEPT !.fn = correct, !.v = d, !.k = k]
  OBVIOUS
<1>7. todo' = <<a, b>> \o Tail(todo)
  BY <1>2, <1>4, <1>6 DEF RoundR, Then
<1>8. d \in Var \cup {Temp}
  BY <1>3, <1>4
<1>9. a \in Task(K) /\ a.fn = "tdiv_r" /\ a.r = t.r /\ a.w = t.w /\ a.k = t.k
  BY <1>3, <1>6, <1>8, Zenon DEF Task, CalledFns
<1>10. b \in Task(K) /\ b.fn = correct /\ b.r = t.r /\ b.w = t.w /\ b.k = k
  BY <1>2, <1>3, <1>5, <1>6, <1>8, Zenon DEF Task, CalledFns
<1>11. t.r = t.w
  BY <1>1, <1>2, <1>3 DEF TaskOK, Calculator!TwoResults, Calculator!QuotRemFns, Calculator!QuotRemUiFns
<1>12. TaskOK(a)
  BY <1>3, <1>9, <1>11 DEF TaskOK, Calculator!TwoResults, Calculator!QuotRemFns, Calculator!UiFns,
       Calculator!DivUiFns, Calculator!QuotUiFns, Calculator!RemUiFns, Calculator!QuotRemUiFns, Calculator!OnlyUiFns
<1>13. TaskOK(b)
  BY <1>5, <1>10, <1>11 DEF TaskOK, Calculator!TwoResults, Calculator!QuotRemFns, Calculator!UiFns,
       Calculator!DivUiFns, Calculator!QuotUiFns, Calculator!RemUiFns, Calculator!QuotRemUiFns, Calculator!OnlyUiFns
<1>14. BlocksOK' /\ NumbersOK'
  <2>1. CASE t.v = t.w
    <3>1. PICK n \in Nat, s \in Int :
            /\ s = Size(t.v) /\ n = Abs(s) /\ n = Abs(Size(t.v))
            /\ BlockOK(Filled(Fresh(n), n, Read(var[t.v].d, n)))
            /\ Whole(Filled(Fresh(n), n, Read(var[t.v].d, n)), s)
      BY <1>1, <1>3, CopyOf
    <3>2. PICK e : e = Filled(Fresh(n), n, Read(var[t.v].d, n))
      OBVIOUS
    <3>3. /\ var' = [var EXCEPT ![Temp] = [alloc |-> n, size |-> s, d |-> CopyD]]
          /\ heap' = With(heap, CopyD, e)
      BY <1>2, <2>1, <3>1, <3>2 DEF RoundR
    <3>4. BlockOK(e) /\ Whole(e, s)
      BY <3>1, <3>2
    <3> QED
      BY <1>1, <3>3, <3>4, TempHolds, Zenon
  <2>2. CASE t.v # t.w
    <3>1. UNCHANGED <<heap, var>>
      BY <1>2, <2>2 DEF RoundR
    <3> QED
      BY <1>1, <3>1, StaysHolds
  <2> QED
    BY <2>1, <2>2
<1> QED
  BY <1>1, <1>7, <1>9, <1>10, <1>12, <1>13, <1>14, CallsTwo, Zenon

LEMMA AorsmulLimbContents ==
  ASSUME Good, AorsmulLimb
  PROVE  Contents'
<1>1. pc = "enter" /\ c.fn \in AorsFns /\ Abs(Size(Shorter)) = 1 /\ UNCHANGED <<heap, var, pc, calls, ret>>
  BY DEF AorsmulLimb, At, SameValue
<1>2. PICK k, u, f, t : /\ k = Read(var[Shorter].d, 1) /\ u = Longer /\ t = c
                        /\ f = IF (c.fn = "submul") # (Size(Shorter) < 0) THEN "submul_ui" ELSE "addmul_ui"
  OBVIOUS
<1>3. PICK a : a = [t EXCEPT !.fn = f, !.u = u, !.v = t.w, !.k = k]
  OBVIOUS
<1>4. todo' = <<a>> \o Tail(todo)
  BY <1>2, <1>3 DEF AorsmulLimb
<1>5. f \in AorsUiFns
  BY <1>2 DEF AorsUiFns
<1>6. u \in Var /\ Shorter \in Var /\ t.w \in Var /\ t \in Task({t.k}) /\ TaskOK(t)
  BY <1>1, <1>2, LongerShorter, Running, Arguments, TaskKnown DEF Good
<1>7. PICK K : K = {k}
  BY Zenon
<1>8. a \in Task(K) /\ a.fn = f /\ a.r = t.r /\ a.w = t.w /\ a.k = k
  BY <1>3, <1>5, <1>6, <1>7, Zenon DEF Task, CalledFns
<1>9. t.r = t.w
  BY <1>1, <1>2, <1>6 DEF TaskOK, AorsFns, Calculator!TwoResults, Calculator!QuotRemFns, Calculator!QuotRemUiFns
<1>10. k \in Nat /\ k < B
  <2>1. Shorter \in Usable /\ ~Renewed(Shorter)
    BY <1>1, <1>6, NamesDiffer DEF Usable, Renewed
  <2>2. PICK n \in Nat, m \in Nat : n = Abs(Size(Shorter)) /\ m = Read(var[Shorter].d, n) /\ Exactly(n, m)
    BY <2>1, VariableReads
  <2>3. n = 1 /\ m = k /\ Base(1) = B
    BY <1>1, <1>2, <2>2, ZeroLimb
  <2> QED
    BY <2>2, <2>3 DEF Exactly
<1>11. TaskOK(a)
  <2>1. a.fn \notin Calculator!TwoResults \cup {"floor", "ceiling", "floor_q", "ceiling_q"}
    BY <1>5, <1>8 DEF AorsUiFns, Calculator!TwoResults, Calculator!QuotRemFns, Calculator!QuotRemUiFns
  <2> QED
    BY <1>8, <1>9, <1>10, <2>1 DEF TaskOK
<1> QED
  BY <1>1, <1>4, <1>8, <1>11, CallsKeep, Zenon

\* The program calls a function with arguments that are as they must be.
LEMMA InvokeContents ==
  ASSUME Good, Invoke
  PROVE  Contents'
<1>1. /\ pc = "idle" /\ call' \in Calls /\ todo' = <<call'>> /\ pc' = "enter"
      /\ heap' = heap /\ var' = var /\ ret' = 0 /\ calls < MaxCalls /\ calls' = calls + 1
  BY DEF Invoke
<1>2. PICK t : t = call'
  OBVIOUS
<1>3. t \in [fn : Fns, w : Var, r : Var, u : Var, v : Var, k : 0 .. MaxOf(MaxBits, 3)] /\ Calculator!Legal(t)
  BY <1>1, <1>2 DEF Calls
<1>4. t.k \in Nat
  BY <1>3, HeapAssumption DEF MaxOf
<1>5. t.fn \notin {"floor", "ceiling", "floor_q", "ceiling_q"}
  BY <1>3, FnsAssumption DEF Calculator!BinaryFns, Calculator!DivFns, Calculator!QuotFns, Calculator!RemFns,
       Calculator!QuotRemFns, Calculator!OneOperand, Calculator!UnaryFns, Calculator!UiFns, Calculator!DivUiFns,
       Calculator!QuotUiFns, Calculator!RemUiFns, Calculator!QuotRemUiFns, Calculator!OnlyUiFns,
       Calculator!ShiftFns, Calculator!NoOperand, Calculator!LimbFns, Calculator!BitFns
<1>6. TaskOK(t)
  BY <1>3, <1>4, <1>5 DEF TaskOK, Calculator!Legal
<1>7. TasksOK'
  <2>1. todo' = <<t>>
    BY <1>1, <1>2
  <2>2. Len(todo') = 1 /\ todo'[1] = t
    BY <2>1
  <2> QED
    BY <1>6, <2>2 DEF TasksOK
<1>8. BlocksOK'
  BY <1>1 DEF Good, Contents, BlocksOK, BlockOK
<1>9. NumbersOK'
  <2>1. ~\E x : Renewed(x)
    BY <1>1 DEF Renewed
  <2> QED
    BY <1>1, <2>1 DEF Good, Contents, NumbersOK, NumberAt, Whole, Size
<1>10. LocalsOK'
  BY <1>1 DEF LocalsOK, DivisionNoted, BitsNoted, ProductNoted, SumNoted, OneNoted, BitFn
<1>11. CountsOK'
  <2>1. 0 \in 0 .. B - 1
    BY ZeroLimb
  <2>2. calls \in 0 .. MaxCalls /\ MaxCalls \in Nat
    BY HeapAssumption DEF Good, Contents, CountsOK
  <2> QED
    BY <1>1, <2>1, <2>2 DEF CountsOK
<1> QED
  BY <1>7, <1>8, <1>9, <1>10, <1>11 DEF Contents

LEMMA ReturnContents ==
  ASSUME Good, Return
  PROVE  Contents'
<1>1. /\ pc = "done" /\ pc' = "idle" /\ heap' = Without(heap, {CopyD})
      /\ var' = [var EXCEPT ![Temp] = NoVar] /\ todo' = todo /\ ret' = ret /\ calls' = calls
  BY DEF Return
<1>2. var'[Temp] = NoVar /\ \A x \in Var : var'[x] = var[x]
  BY <1>1, NamesDiffer DEF Good, IInv, Typing
<1>3. DOMAIN heap' = DOMAIN heap \ {CopyD} /\ \A p \in DOMAIN heap' : heap'[p] = heap[p]
  BY <1>1 DEF Without
<1>4. BlocksOK'
  BY <1>3 DEF Good, Contents, BlocksOK, BlockOK
<1>5. ASSUME NEW x \in Var
      PROVE  NumberAt(var[x].d, Size(x))'
  <2>1. x \in Usable /\ ~Renewed(x)
    BY <1>1, NamesDiffer DEF Usable, Renewed
  <2>2. NumberAt(var[x].d, Size(x))
    BY <2>1, HasNumber
  <2>3. var[x].d # CopyD
    BY NamesDiffer DEF Good, IInv, Typing, Copy
  <2> QED
    BY <1>2, <1>3, <2>2, <2>3 DEF NumberAt, Whole, Size
<1>6. NumbersOK'
  <2>1. var'[Temp].d # CopyD
    BY <1>2, NamesDiffer DEF NoVar, Copy
  <2> QED
    BY <1>2, <1>5, <2>1 DEF NumbersOK
<1>7. LocalsOK' /\ TasksOK' /\ CountsOK'
  <2>1. LocalsOK'
    BY <1>1 DEF LocalsOK, DivisionNoted, BitsNoted, ProductNoted, SumNoted, OneNoted
  <2>2. TasksOK'
    BY <1>1 DEF Good, Contents, TasksOK, TaskOK
  <2> QED
    BY <1>1, <2>1, <2>2 DEF Good, Contents, CountsOK
<1> QED
  BY <1>4, <1>6, <1>7 DEF Contents

LEMMA StutterContents ==
  ASSUME Good, UNCHANGED vars
  PROVE  Contents'
<1>1. heap' = heap /\ var' = var /\ pc' = pc /\ todo' = todo /\ loc' = loc /\ ret' = ret /\ calls' = calls /\ c' = c
  BY DEF vars, c
<1>2. BlocksOK' /\ TasksOK' /\ CountsOK'
  BY <1>1 DEF Good, Contents, BlocksOK, BlockOK, TasksOK, TaskOK, CountsOK
<1>3. NumbersOK'
  BY <1>1 DEF Good, Contents, NumbersOK, NumberAt, Whole, Size, Renewed
<1>4. DivisionNoted' /\ SumNoted' /\ ProductNoted' /\ BitsNoted' /\ OneNoted'
  <2>1. DivisionNoted' /\ SumNoted'
    BY <1>1 DEF Good, Contents, LocalsOK, DivisionNoted, SumNoted, SameLimbs, Points, Size, Read, Longer, Shorter, AorsLoc, Notes
  <2>2. ProductNoted'
    BY <1>1 DEF Good, Contents, LocalsOK, ProductNoted, NumberAt, Size
  <2>3. BitsNoted'
    <3>1. First' = First /\ Second' = Second
      BY <1>1 DEF First, Second, Size
    <3>2. \A x : Copied(x)' = Copied(x)
      BY <1>1, <3>1 DEF Copied, Size
    <3>3. \A p, n : Read(p, n)' = Read(p, n)
      BY <1>1 DEF Read
    <3>4. ResultLimbs' = ResultLimbs
      BY <1>1, <3>3 DEF ResultLimbs, UValue, VValue, Na, Nb, Signs, Most
    <3>5. /\ OneLess(loc.us, loc.up, First, CopyU)' = OneLess(loc.us, loc.up, First, CopyU)
          /\ OneLess(loc.vs, loc.vp, Second, CopyV)' = OneLess(loc.vs, loc.vp, Second, CopyV)
      BY <1>1, <3>1, <3>2, <3>3 DEF OneLess, Size
    <3> QED
      BY <1>1, <3>4, <3>5 DEF Good, Contents, LocalsOK, BitsNoted
  <2>4. OneNoted'
    <3>1. \A p, n : Read(p, n)' = Read(p, n)
      BY <1>1 DEF Read
    <3>2. \A n, u : RemainderLimbs(n, u)' = RemainderLimbs(n, u)
      <4>1. LimbCnt' = LimbCnt /\ (\A u : Partial(u)' = Partial(u)) /\ \A u, n : Low(u, n)' = Low(u, n)
        BY <1>1 DEF LimbCnt, Partial, Low, LimbAt, High, InLimb
      <4> QED
        BY <4>1 DEF RemainderLimbs, Normalized
    <3> QED
      BY <1>1, <3>1, <3>2 DEF Good, Contents, LocalsOK, OneNoted, Points, Size
  <2> QED
    BY <2>1, <2>2, <2>3, <2>4
<1> QED
  BY <1>2, <1>3, <1>4 DEF Contents, LocalsOK

\* At first every block holds a number that is as long as it says.
LEMMA InitContents == Init => Contents
<1> SUFFICES ASSUME Init PROVE Contents
  OBVIOUS
<1>1. PICK value \in [Var -> Numbers], large \in SUBSET Var :
         /\ heap = Blocks0(value, Sizes0(value), Lengths0(Sizes0(value), large))
         /\ var = Vars0(value, Sizes0(value), Lengths0(Sizes0(value), large))
  BY DEF Init
<1>2. PICK size, len : size = Sizes0(value) /\ len = Lengths0(size, large)
  OBVIOUS
<1>3. pc = "idle" /\ todo = <<>> /\ ret = 0 /\ calls = 0
  BY DEF Init
<1>4. ASSUME NEW x \in Var
      PROVE  /\ Place[x] \in DOMAIN heap /\ BlockOK(heap[Place[x]]) /\ var[x].d = Place[x]
             /\ Whole(heap[Place[x]], var[x].size)
  <2>1. PICK v : v = value[x]
    OBVIOUS
  <2>2. v \in Int /\ MaxSize \in Nat /\ v \in -(Base(MaxSize)) + 1 .. Base(MaxSize) - 1
    BY <2>1, HeapAssumption
  <2>3. PICK n : n = Abs(v)
    OBVIOUS
  <2>4. Base(MaxSize) \in Nat
    BY <2>2, BaseFacts
  <2>5. n \in Nat /\ n < Base(MaxSize)
    BY <2>2, <2>3, <2>4 DEF Abs
  <2>6. PICK s : s = Normalized(MaxSize, n)
    OBVIOUS
  <2>7. s \in 0 .. MaxSize /\ Exactly(s, n)
    BY <2>2, <2>5, <2>6, NormalizedExactly
  <2>8. size[x] = s
    BY <1>2, <2>1, <2>3, <2>6 DEF Sizes0
  <2>9. PICK l : l = len[x]
    OBVIOUS
  <2>10. MaxAlloc \in Nat /\ MaxSize <= MaxAlloc
    BY HeapAssumption
  <2>11. l \in {MaxAlloc, MaxOf(s, 1)}
    BY <1>2, <2>8, <2>9 DEF Lengths0
  <2>12. l \in Nat /\ s <= l
    BY <2>2, <2>7, <2>10, <2>11 DEF MaxOf
  <2>13. PICK m : m = Signed(v < 0, s)
    OBVIOUS
  <2>14. s \in Nat /\ m \in Int /\ Abs(m) = s
    BY <2>7, <2>13 DEF Signed, Abs
  <2>15. var[x].size = m /\ var[x].d = Place[x]
    BY <1>1, <1>2, <2>1, <2>8, <2>13, NamesDiffer DEF Vars0
  <2>16. PICK p : p = Place[x]
    OBVIOUS
  <2>17. PICK y : y = CHOOSE z \in Var : Place[z] = p
    OBVIOUS
  <2>18. y \in Var /\ Place[y] = p
    BY <2>16, <2>17
  <2>19. y = x
    BY <2>16, <2>18, PlaceIsOneToOne
  <2>20. p \in {Place[z] : z \in Var}
    BY <2>16
  <2>21. p \in DOMAIN heap /\ heap[p] = [len |-> len[y], known |-> size[y], num |-> Abs(value[y])]
    BY <1>1, <1>2, <2>17, <2>20 DEF Blocks0
  <2>22. PICK b : b = [len |-> l, known |-> s, num |-> n]
    BY Zenon
  <2>23. heap[p] = b
    BY <2>1, <2>3, <2>8, <2>9, <2>19, <2>21, <2>22
  <2>24. BlockOK(b)
    BY <2>5, <2>7, <2>12, <2>14, <2>22, ExactlyZero DEF BlockOK
  <2>25. Whole(b, m)
    <3>1. n % Base(s) = n
      BY <2>5, <2>7, <2>14, ExactlyZero, LowLimbs
    <3> QED
      BY <2>7, <2>14, <2>22, <3>1 DEF Whole
  <2> QED
    BY <2>15, <2>16, <2>21, <2>23, <2>24, <2>25
<1>5. BlocksOK
  <2>1. DOMAIN heap = {Place[x] : x \in Var}
    BY <1>1 DEF Blocks0
  <2> QED
    BY <1>4, <2>1 DEF BlocksOK
<1>6. NumbersOK
  <2>1. var[Temp] = NoVar
    BY <1>1, <1>2 DEF Vars0
  <2>2. var[Temp].d # CopyD
    BY <2>1, NamesDiffer DEF NoVar, Copy
  <2> QED
    BY <1>4, <2>1, <2>2 DEF NumbersOK, NumberAt, Size
<1>7. TasksOK /\ LocalsOK /\ CountsOK
  <2>1. TasksOK
    BY <1>3 DEF TasksOK
  <2>2. LocalsOK
    BY <1>3 DEF LocalsOK, DivisionNoted, BitsNoted, ProductNoted, SumNoted, OneNoted
  <2>3. CountsOK
    <3>1. 0 \in 0 .. B - 1
      BY ZeroLimb
    <3>2. 0 \in 0 .. MaxCalls
      BY HeapAssumption
    <3> QED
      BY <1>3, <3>1, <3>2 DEF CountsOK
  <2> QED
    BY <2>1, <2>2, <2>3
<1> QED
  BY <1>5, <1>6, <1>7 DEF Contents

-----------------------------------------------------------------------------
(* The bit operations.                                                      *)

\* The operands of a bit operation are variables of the program, and have numbers.
LEMMA BitOperands ==
  ASSUME Good, pc \in {"enter", "room"}, c.fn \in BitFn
  PROVE  \E x \in Usable, y \in Usable, sx \in Int, sy \in Int, nx \in Nat, ny \in Nat, mx \in Nat, my \in Nat :
           /\ x = First /\ y = Second /\ x \in {c.u, c.v} /\ y \in {c.u, c.v}
           /\ sx = Size(x) /\ nx = Abs(sx) /\ mx = Read(var[x].d, nx) /\ Exactly(nx, mx)
           /\ sy = Size(y) /\ ny = Abs(sy) /\ my = Read(var[y].d, ny) /\ Exactly(ny, my)
<1>1. First \in {c.u, c.v} /\ Second \in {c.u, c.v} /\ c.u \in Usable /\ c.v \in Usable
  BY FirstSecond, UsableArguments DEF Good
<1>2. PICK x \in Usable, y \in Usable : x = First /\ y = Second /\ x \in {c.u, c.v} /\ y \in {c.u, c.v}
  BY <1>1
<1>3. ~Renewed(x) /\ ~Renewed(y)
  BY DEF Renewed
<1>4. PICK sx \in Int, nx \in Nat, mx \in Nat : sx = Size(x) /\ nx = Abs(sx) /\ mx = Read(var[x].d, nx) /\ Exactly(nx, mx)
  BY <1>3, VariableReads
<1>5. PICK sy \in Int, ny \in Nat, my \in Nat : sy = Size(y) /\ ny = Abs(sy) /\ my = Read(var[y].d, ny) /\ Exactly(ny, my)
  BY <1>3, VariableReads
<1>6. /\ x = First /\ y = Second /\ x \in {c.u, c.v} /\ y \in {c.u, c.v}
      /\ sx = Size(x) /\ nx = Abs(sx) /\ mx = Read(var[x].d, nx) /\ Exactly(nx, mx)
      /\ sy = Size(y) /\ ny = Abs(sy) /\ my = Read(var[y].d, ny) /\ Exactly(ny, my)
  BY <1>2, <1>4, <1>5
<1>7. \E sx1 \in Int, sy1 \in Int, nx1 \in Nat, ny1 \in Nat, mx1 \in Nat, my1 \in Nat :
           /\ x = First /\ y = Second /\ x \in {c.u, c.v} /\ y \in {c.u, c.v}
           /\ sx1 = Size(x) /\ nx1 = Abs(sx1) /\ mx1 = Read(var[x].d, nx1) /\ Exactly(nx1, mx1)
           /\ sy1 = Size(y) /\ ny1 = Abs(sy1) /\ my1 = Read(var[y].d, ny1) /\ Exactly(ny1, my1)
  BY <1>6, Zenon
<1> QED
  BY <1>7, Zenon

\* No more limbs of an operand are copied than it has: all, or what both have.
LEMMA CopiedIs ==
  ASSUME Good, pc \in {"enter", "room"}, c.fn \in BitFn, NEW x \in Usable, x \in {First, Second}
  PROVE  \E n \in Nat, m \in Nat :
           /\ n = Copied(x) /\ m = Abs(Size(x)) /\ n <= m
           /\ (c.fn # "ior" \/ Size(First) >= 0) => n = m
<1>1. Abs(Size(First)) \in Nat /\ Abs(Size(Second)) \in Nat /\ Size(First) \in Int
  BY FirstSecond DEF Good
<1>2. PICK a \in Nat, b \in Nat : a = Abs(Size(First)) /\ b = Abs(Size(Second))
  BY <1>1
<1>3. PICK m \in Nat : m = Abs(Size(x)) /\ m \in {a, b}
  BY <1>2
<1>4. MinOf(a, b) \in Nat /\ MinOf(a, b) <= a /\ MinOf(a, b) <= b
  BY DEF MinOf
<1>5. CASE c.fn = "ior" /\ Size(First) < 0
  <2>1. Copied(x) = MinOf(a, b)
    BY <1>2, <1>5 DEF Copied
  <2> QED
    BY <1>1, <1>3, <1>4, <1>5, <2>1
<1>6. CASE ~(c.fn = "ior" /\ Size(First) < 0)
  <2>1. Copied(x) = m
    BY <1>3, <1>6 DEF Copied
  <2> QED
    BY <1>3, <2>1
<1> QED
  BY <1>5, <1>6

\* The copy of an operand, less one.
LEMMA LessOneHolds ==
  ASSUME Good, pc = "enter", c.fn \in BitFn, NEW x \in Usable, x \in {First, Second}
  PROVE  \E n \in Nat, m \in Nat :
           /\ n = Copied(x) /\ BlockOK(LessOne(x)) /\ LessOne(x).known = n
           /\ m = Read(var[x].d, n) /\ LessOne(x).num = (m + Base(n) - 1) % Base(n)
<1>1. PICK n \in Nat, l \in Nat : n = Copied(x) /\ l = Abs(Size(x)) /\ n <= l
  BY CopiedIs
<1>2. ~Renewed(x)
  BY DEF Renewed
<1>3. NumberAt(var[x].d, Size(x)) /\ BlocksOK /\ IInv
  BY <1>2, HasNumber DEF Good, Contents
<1>4. PICK k \in Nat : k = Read(var[x].d, l)
  BY <1>1, <1>3, Holds
<1>5. \A i \in 0 .. l : Read(var[x].d, i) = k % Base(i)
  BY <1>1, <1>3, <1>4, Holds
<1>6. PICK m \in Nat : m = Read(var[x].d, n)
  <2>1. k % Base(n) \in Nat
    BY <1>4, LowLimbs, Zenon
  <2> QED
    BY <1>1, <1>5, <2>1
<1>7. PICK d \in Nat : d = Base(n) /\ d >= 1
  BY BaseFacts
<1>8. m + d - 1 \in Int /\ m + d - 1 >= 0
  BY <1>7
<1>9. PICK y \in Nat : y = (m + d - 1) % d /\ y < d
  <2>1. (m + d - 1) % d \in Nat /\ (m + d - 1) % d < d
    BY <1>7, <1>8, Division
  <2> QED
    BY <2>1
<1>10. From(m, m, y) = y
  BY FromNumbers
<1>11. LessOne(x) = Filled(Fresh(n), n, y)
  BY <1>1, <1>6, <1>7, <1>9, <1>10 DEF LessOne
<1>12. Fresh(n).len \in Nat /\ n <= Fresh(n).len
  BY DEF Fresh
<1>13. PICK b : b = Filled(Fresh(n), n, y)
  OBVIOUS
<1>14. BlockOK(b) /\ b.known = n /\ b.num = y % Base(n)
  BY <1>12, <1>13, FilledHolds
<1>15. y % Base(n) = y
  BY <1>7, <1>9, LowLimbs
<1>16. b.num = (m + Base(n) - 1) % Base(n)
  BY <1>7, <1>9, <1>14, <1>15
<1>17. /\ n = Copied(x) /\ BlockOK(LessOne(x)) /\ LessOne(x).known = n
       /\ m = Read(var[x].d, n) /\ LessOne(x).num = (m + Base(n) - 1) % Base(n)
  BY <1>1, <1>6, <1>11, <1>13, <1>14, <1>16
<1> QED
  BY <1>17

\* Negative operands are copied, less one.
LEMMA BitCopyContents ==
  ASSUME Good, BitCopy
  PROVE  Contents'
<1>1. pc = "enter" /\ c.fn \in BitFn /\ Goto("room") /\ var' = var /\ UNCHANGED calls
  BY DEF BitCopy, At
<1>2. PICK x \in Usable, y \in Usable : x = First /\ y = Second
  BY <1>1, BitOperands
<1>a. PICK a, b : a = LessOne(x) /\ b = LessOne(y)
  OBVIOUS
<1>3. PICK nx \in Nat, mx \in Nat :
           /\ nx = Copied(x) /\ a = LessOne(x) /\ BlockOK(a) /\ a.known = nx
           /\ mx = Read(var[x].d, nx) /\ a.num = (mx + Base(nx) - 1) % Base(nx)
  BY <1>1, <1>2, <1>a, LessOneHolds
<1>4. PICK ny \in Nat, my \in Nat :
           /\ ny = Copied(y) /\ b = LessOne(y) /\ BlockOK(b) /\ b.known = ny
           /\ my = Read(var[y].d, ny) /\ b.num = (my + Base(ny) - 1) % Base(ny)
  BY <1>1, <1>2, <1>a, LessOneHolds
<1>5. PICK h : h = IF Size(x) < 0 THEN With(heap, CopyU, a) ELSE heap
  OBVIOUS
<1>6. heap' = IF Size(y) < 0 THEN With(h, CopyV, b) ELSE h
  BY <1>2, <1>3, <1>4, <1>5 DEF BitCopy
<1>7. CopyU \notin DOMAIN heap /\ CopyV \notin DOMAIN heap /\ CopyU # CopyV
  BY <1>1, NoCopies, NamesDiffer
<1>8. /\ \A q \in DOMAIN heap : q \in DOMAIN h /\ h[q] = heap[q]
      /\ Size(x) < 0 => CopyU \in DOMAIN h /\ h[CopyU] = a
      /\ \A q \in DOMAIN h : q \in DOMAIN heap \/ h[q] = a
  BY <1>5, <1>7 DEF With
<1>9. CopyV \notin DOMAIN h
  BY <1>5, <1>7 DEF With
<1>10. /\ \A q \in DOMAIN h : q \in DOMAIN heap' /\ heap'[q] = h[q]
       /\ Size(y) < 0 => CopyV \in DOMAIN heap' /\ heap'[CopyV] = b
       /\ \A q \in DOMAIN heap' : q \in DOMAIN h \/ heap'[q] = b
  BY <1>6, <1>9 DEF With
<1>11. BlocksOK'
  <2>1. \A q \in DOMAIN h : BlockOK(h[q])
    BY <1>3, <1>8 DEF Good, Contents, BlocksOK
  <2>2. \A q \in DOMAIN heap' : BlockOK(heap'[q])
    BY <1>4, <1>10, <2>1
  <2> QED
    BY <2>2 DEF BlocksOK, BlockOK
<1>12. \A z \in Usable : Kept(z)
  <2>1. ASSUME NEW z \in Usable PROVE Kept(z)
    <3>1. var[z].d \in DOMAIN heap
      BY Known DEF Good, Bounds
    <3> QED
      BY <1>1, <1>8, <1>10, <3>1 DEF Kept
  <2> QED
    BY <2>1
<1>13. TempKept
  BY <1>1 DEF TempKept
<1>14. /\ c' = c /\ pc' = "room" /\ First' = x /\ Second' = y
       /\ Size(x)' = Size(x) /\ Size(y)' = Size(y)
  <2>1. c' = c /\ pc' = "room"
    BY <1>1 DEF Goto, c
  <2> QED
    BY <1>1, <1>2, <2>1 DEF First, Second, Size
<1>15. Copied(x)' = nx /\ Copied(y)' = ny
  BY <1>2, <1>3, <1>4, <1>14 DEF Copied
<1>16. Read(var[x].d, nx)' = mx /\ Read(var[y].d, ny)' = my
  BY <1>3, <1>4, <1>12, KeptReads DEF Good
<1>17. /\ loc'.us = Signed(Size(x) < 0, nx) /\ loc'.vs = Signed(Size(y) < 0, ny)
       /\ loc'.up = IF Size(x) < 0 THEN CopyU ELSE var[x].d
       /\ loc'.vp = IF Size(y) < 0 THEN CopyV ELSE var[y].d
  BY <1>2, <1>3, <1>4 DEF BitCopy, Notes
<1>18. OneLess(loc.us, loc.up, First, CopyU)'
  <2>1. CASE Size(x) < 0
    <3>1. CopyU \in DOMAIN heap' /\ heap'[CopyU] = a
      BY <1>8, <1>10, <2>1
    <3> QED
      BY <1>3, <1>14, <1>15, <1>16, <1>17, <2>1, <3>1 DEF OneLess, Signed
  <2>2. CASE ~(Size(x) < 0)
    BY <1>1, <1>14, <1>15, <1>17, <2>2 DEF OneLess, Signed
  <2> QED
    BY <2>1, <2>2
<1>19. OneLess(loc.vs, loc.vp, Second, CopyV)'
  <2>1. CASE Size(y) < 0
    <3>1. CopyV \in DOMAIN heap' /\ heap'[CopyV] = b
      BY <1>10, <2>1
    <3> QED
      BY <1>4, <1>14, <1>15, <1>16, <1>17, <2>1, <3>1 DEF OneLess, Signed
  <2>2. CASE ~(Size(y) < 0)
    BY <1>1, <1>14, <1>15, <1>17, <2>2 DEF OneLess, Signed
  <2> QED
    BY <2>1, <2>2
<1>20. BitsNoted'
  BY <1>14, <1>18, <1>19 DEF BitsNoted
<1>21. DivisionNoted' /\ ProductNoted' /\ SumNoted' /\ OneNoted'
  BY <1>14 DEF DivisionNoted, ProductNoted, SumNoted, OneNoted
<1>22. LocalsOK'
  BY <1>20, <1>21 DEF LocalsOK
<1> QED
  BY <1>1, <1>11, <1>12, <1>13, <1>22, GoesContents

\* The operands of a bit operation are the same when the destination has grown.
LEMMA OneLessStays ==
  ASSUME Good, Carries, c.fn \in BitFn, c' = c, pc = "room", NEW x \in Usable, x \in {First, Second},
         NEW copy \in {CopyU, CopyV}, NEW s, NEW p, OneLess(s, p, x, copy), NEW q,
         q = IF p = copy THEN copy ELSE var'[x].d
  PROVE  /\ OneLess(s, q, x, copy)'
         /\ \A n : Read(q, n)' = Read(p, n)
<1>1. First \in Usable /\ Second \in Usable
  BY BitOperands
<1>2. \A y \in Usable : Size(y)' = Size(y) /\ \A n : Read(var[y].d, n)' = Read(var[y].d, n)
  BY KeptReads DEF Good, Carries
<1>3. First' = First /\ Second' = Second
  <2>1. c.u \in Usable /\ c.v \in Usable
    BY UsableArguments DEF Good
  <2> QED
    BY <1>2, <2>1 DEF First, Second
<1>4. Copied(x)' = Copied(x) /\ Size(x)' = Size(x)
  BY <1>1, <1>2, <1>3 DEF Copied
<1>5. PICK n : n = Copied(x) /\ n = Copied(x)'
  BY <1>4
<1>6. var[x].d \in DOMAIN heap /\ var[x].d \notin {CopyU, CopyV}
  BY Known DEF Good, Bounds
<1>7. CASE Size(x) < 0
  <2>1. /\ s = Signed(TRUE, n) /\ p = copy /\ p \in DOMAIN heap /\ heap[p].known = n
        /\ heap[p].num = (Read(var[x].d, n) + Base(n) - 1) % Base(n)
    BY <1>5, <1>7 DEF OneLess, Signed
  <2>2. q = copy /\ q \in DOMAIN heap' /\ heap'[q] = heap[p]
    BY <2>1 DEF Carries, Copy
  <2>3. OneLess(s, q, x, copy)'
    BY <1>2, <1>4, <1>5, <1>7, <2>1, <2>2 DEF OneLess, Signed
  <2> QED
    BY <2>1, <2>2, <2>3, Zenon DEF Read
<1>8. CASE ~(Size(x) < 0)
  <2>1. s = Signed(FALSE, n) /\ p = var[x].d
    BY <1>5, <1>8 DEF OneLess, Signed
  <2>2. q = var'[x].d
    BY <1>6, <2>1
  <2>3. OneLess(s, q, x, copy)'
    BY <1>4, <1>5, <1>8, <2>1, <2>2 DEF OneLess, Signed
  <2>4. \A i : Read(q, i)' = Read(p, i)
    BY <1>2, <2>1, <2>2 DEF Read
  <2> QED
    BY <2>3, <2>4
<1> QED
  BY <1>7, <1>8

\* The destination of a bit operation grows.
LEMMA BitGrowContents ==
  ASSUME Good, BitGrow
  PROVE  Contents'
<1>1. pc = "room" /\ c.fn \in BitFn /\ Goto("compute") /\ Grow(c.w, Room(ResultLimbs)) /\ UNCHANGED calls
  BY DEF BitGrow, At
<1>2. PICK n \in Nat : n = ResultLimbs
  BY <1>1, LimbsOfResult DEF Good
<1>3. PICK len \in Nat : len = Room(ResultLimbs)
  BY <1>1, LimbsOfResult DEF Good
<1>4. Carries
  <2>1. c.w \in Var
    BY <1>1, Running DEF Good
  <2> QED
    BY <1>1, <1>3, <2>1, GrowCarries DEF Good, Contents
<1>5. PICK x \in Usable, y \in Usable : x = First /\ y = Second /\ x \in {c.u, c.v} /\ y \in {c.u, c.v}
  BY <1>1, BitOperands
<1>6. OneLess(loc.us, loc.up, First, CopyU) /\ OneLess(loc.vs, loc.vp, Second, CopyV)
  BY <1>1 DEF Good, Contents, LocalsOK, BitsNoted
<1>7. PICK us, vs, up, vp : us = loc.us /\ vs = loc.vs /\ up = loc.up /\ vp = loc.vp
  OBVIOUS
<1>8. PICK uq, vq, w : /\ uq = IF up = CopyU THEN CopyU ELSE var'[x].d
                       /\ vq = IF vp = CopyV THEN CopyV ELSE var'[y].d
                       /\ w = var'[c.w].d
  OBVIOUS
<1>9. loc' = [loc EXCEPT !.ws = n, !.up = uq, !.vp = vq, !.wp = w]
  <2>1. PICK pu, pv : pu = var'[x].d /\ pv = var'[y].d
    OBVIOUS
  <2>2. loc' = [loc EXCEPT !.ws = n, !.up = IF @ = CopyU THEN @ ELSE pu, !.vp = IF @ = CopyV THEN @ ELSE pv,
                           !.wp = w]
    BY <1>2, <1>5, <1>8, <2>1 DEF BitGrow
  <2> QED
    BY <1>7, <1>8, <2>1, <2>2, Zenon
<1>10. c' = c /\ pc' = "compute"
  BY <1>1 DEF Goto, c
<1>11. loc'.us = us /\ loc'.vs = vs /\ loc'.up = uq /\ loc'.vp = vq /\ loc'.ws = n
  <2>1. loc \in Locals
    BY DEF Good, IInv, Typing
  <2> QED
    BY <1>7, <1>9, <2>1 DEF Locals
<1>12. OneLess(us, uq, x, CopyU)' /\ \A i : Read(uq, i)' = Read(up, i)
  <2>1. OneLess(us, up, x, CopyU) /\ CopyU \in {CopyU, CopyV} /\ x \in {First, Second}
    BY <1>5, <1>6, <1>7
  <2> QED
    BY <1>1, <1>4, <1>8, <1>10, <2>1, OneLessStays
<1>13. OneLess(vs, vq, y, CopyV)' /\ \A i : Read(vq, i)' = Read(vp, i)
  <2>1. OneLess(vs, vp, y, CopyV) /\ CopyV \in {CopyU, CopyV} /\ y \in {First, Second}
    BY <1>5, <1>6, <1>7
  <2> QED
    BY <1>1, <1>4, <1>8, <1>10, <2>1, OneLessStays
<1>14. First' = x /\ Second' = y
  <2>1. c.u \in Usable /\ c.v \in Usable
    BY <1>1, UsableArguments DEF Good
  <2>2. \A z \in Usable : Size(z)' = Size(z)
    BY <1>4, KeptReads DEF Good, Carries
  <2> QED
    BY <1>5, <1>10, <2>1, <2>2 DEF First, Second
<1>15. ResultLimbs' = n
  <2>1. Na' = Na /\ Nb' = Nb /\ Most' = Most /\ Signs' = Signs
    BY <1>7, <1>11 DEF Na, Nb, Most, Signs
  <2>2. UValue' = UValue
    BY <1>7, <1>11, <1>12, <2>1 DEF UValue, Read
  <2>3. VValue' = VValue
    BY <1>7, <1>11, <1>13, <2>1 DEF VValue, Read
  <2> QED
    BY <1>2, <1>10, <2>1, <2>2, <2>3 DEF ResultLimbs
<1>16. BitsNoted'
  <2>1. OneLess(loc.us, loc.up, First, CopyU)'
    BY <1>11, <1>12, <1>14 DEF OneLess, Copied, First, Second
  <2>2. OneLess(loc.vs, loc.vp, Second, CopyV)'
    BY <1>11, <1>13, <1>14 DEF OneLess, Copied, First, Second
  <2> QED
    BY <1>11, <1>15, <2>1, <2>2 DEF BitsNoted
<1>17. DivisionNoted' /\ ProductNoted' /\ SumNoted' /\ OneNoted'
  BY <1>1, <1>10 DEF DivisionNoted, BitsNoted, ProductNoted, SumNoted, OneNoted, BitFn, AorsFns, Calculator!OneOperand,
     Calculator!UnaryFns, Calculator!UiFns, Calculator!DivUiFns, AorsUiFns, Calculator!ShiftFns, Calculator!QuotUiFns,
     Calculator!RemUiFns, Calculator!QuotRemUiFns, Calculator!OnlyUiFns
<1>18. LocalsOK'
  BY <1>16, <1>17 DEF LocalsOK
<1> QED
  BY <1>1, <1>4, <1>18, CarriesContents

-----------------------------------------------------------------------------
(* The numbers the bit operations compute.                                  *)

\* A number less one, modulo its limbs.
LEMMA LessOneIs ==
  ASSUME NEW n \in Nat, NEW m \in Nat, m < Base(n)
  PROVE  /\ (m + Base(n) - 1) % Base(n) \in Nat /\ (m + Base(n) - 1) % Base(n) < Base(n)
         /\ m >= 1 => (m + Base(n) - 1) % Base(n) = m - 1
<1>1. PICK d \in Nat : d = Base(n) /\ d >= 1
  BY BaseFacts
<1>2. m + d - 1 \in Int /\ m + d - 1 >= 0
  BY <1>1
<1>3. (m + d - 1) % d \in Nat /\ (m + d - 1) % d < d
  BY <1>1, <1>2, Division
<1>4. ASSUME m >= 1 PROVE (m + d - 1) % d = m - 1
  <2>1. m - 1 \in 0 .. d - 1 /\ m + d - 1 = d * 1 + (m - 1) /\ 1 \in Int
    BY <1>1, <1>4
  <2> QED
    BY <1>1, <1>2, <2>1, DivisionUnique
<1> QED
  BY <1>1, <1>3, <1>4

\* What a bit operation reads of an operand.
LEMMA OneLessReads ==
  ASSUME Good, pc = "compute", c.fn \in BitFn, NEW x \in Usable, x \in {First, Second},
         NEW copy \in {CopyU, CopyV}, NEW s, NEW p, OneLess(s, p, x, copy)
  PROVE  \E n \in Nat, a \in Nat, k \in Nat, m \in Nat :
           /\ s \in Int /\ n = Abs(s) /\ a = Read(p, n) /\ a < Base(n)
           /\ n = Copied(x) /\ k = Abs(Size(x)) /\ Exactly(k, m) /\ n <= k
           /\ Size(x) >= 0 => n = k /\ a = m /\ s >= 0
           /\ (Size(x) < 0 /\ n >= 1) => s < 0
           /\ (Size(x) < 0 /\ n = k) => k >= 1 /\ a + 1 = m
<1>1. ~Renewed(x)
  BY DEF Renewed, BitFn
<1>2. NumberAt(var[x].d, Size(x)) /\ BlocksOK /\ IInv
  BY <1>1, HasNumber DEF Good, Contents
<1>3. PICK k \in Nat, m \in Nat : /\ k = Abs(Size(x)) /\ m = Read(var[x].d, k) /\ Exactly(k, m)
                                  /\ (k = 0 <=> m = 0) /\ Size(x) \in Int
                                  /\ (Size(x) < 0 => k >= 1)
  <2>1. PICK s1 \in Int, k \in Nat, m \in Nat :
            /\ s1 = Size(x) /\ k = Abs(s1) /\ m = Read(var[x].d, k) /\ Exactly(k, m) /\ (k = 0 <=> m = 0)
            /\ (s1 = 0 <=> k = 0)
    BY <1>1, VariableReads
  <2>2. s1 < 0 => k >= 1
    BY <2>1
  <2> QED
    BY <2>1, <2>2
<1>4. PICK n \in Nat : n = Copied(x) /\ n <= k /\ (Size(x) >= 0 => n = k)
  <2>1. PICK f \in Int, g \in Int : f = Size(First) /\ g = Size(Second)
    BY FirstSecond DEF Good
  <2>2. PICK i \in Nat, j \in Nat : i = Abs(f) /\ j = Abs(g)
    BY <2>1, Small
  <2>3. MinOf(i, j) \in Nat /\ MinOf(i, j) <= i /\ MinOf(i, j) <= j
    BY DEF MinOf
  <2>4. k \in {i, j}
    BY <1>3, <2>1, <2>2
  <2>5. f < 0 => Size(x) < 0
    BY <2>1 DEF First, Second
  <2>6. Copied(x) = IF c.fn = "ior" /\ f < 0 THEN MinOf(i, j) ELSE k
    BY <1>3, <2>1, <2>2 DEF Copied
  <2>7. CASE c.fn = "ior" /\ f < 0
    <3>1. Size(x) < 0
      BY <2>5, <2>7
    <3>2. PICK n \in Nat : n = Copied(x) /\ n <= k
      BY <2>3, <2>4, <2>6, <2>7
    <3>3. ~(Size(x) >= 0)
      BY <1>3, <3>1
    <3> QED
      BY <3>2, <3>3
  <2>8. CASE ~(c.fn = "ior" /\ f < 0)
    BY <2>6, <2>8
  <2> QED
    BY <2>7, <2>8
<1>5. CASE Size(x) >= 0
  <2>1. ~(Size(x) < 0)
    BY <1>3, <1>5
  <2>2. s = n /\ p = var[x].d
    BY <1>4, <2>1 DEF OneLess, Signed
  <2>3. s \in Int /\ n = Abs(s) /\ m = Read(p, n) /\ m < Base(n) /\ n = k /\ s >= 0
    BY <1>3, <1>4, <1>5, <2>2 DEF Abs, Exactly
  <2> QED
    BY <1>3, <1>4, <1>5, <2>1, <2>3
<1>6. CASE Size(x) < 0
  <2>1. s = -n /\ p \in DOMAIN heap /\ heap[p].known = n /\ heap[p].num = (Read(var[x].d, n) + Base(n) - 1) % Base(n)
    BY <1>4, <1>6 DEF OneLess, Signed
  <2>2. PICK l \in Nat : l = Read(var[x].d, n) /\ l < Base(n) /\ (n = k => l = m)
    <3>1. Read(var[x].d, n) = m % Base(n)
      BY <1>2, <1>3, <1>4, Holds
    <3>2. m % Base(n) \in Nat /\ m % Base(n) < Base(n)
      BY LowLimbs
    <3> QED
      BY <1>3, <3>1, <3>2
  <2>3. PICK a \in Nat : a = (l + Base(n) - 1) % Base(n) /\ a < Base(n) /\ (l >= 1 => a = l - 1)
    BY <2>2, LessOneIs
  <2>4. a = Read(p, n)
    <3>1. heap[p].num = a
      BY <2>1, <2>2, <2>3
    <3>2. a % Base(n) = a
      BY <2>3, LowLimbs
    <3> QED
      BY <2>1, <3>1, <3>2 DEF Read
  <2>5. s \in Int /\ n = Abs(s) /\ (n >= 1 => s < 0)
    BY <2>1 DEF Abs
  <2>6. n = k => k >= 1 /\ a + 1 = m
    <3>1. ASSUME n = k PROVE k >= 1 /\ a + 1 = m
      <4>1. k >= 1 /\ m >= 1 /\ l = m
        BY <1>3, <1>6, <2>2, <3>1
      <4> QED
        BY <2>3, <4>1
    <3> QED
      BY <3>1
  <2>7. ~(Size(x) >= 0)
    BY <1>3, <1>6
  <2>8. /\ s \in Int /\ n = Abs(s) /\ a = Read(p, n) /\ a < Base(n)
        /\ n = Copied(x) /\ k = Abs(Size(x)) /\ Exactly(k, m) /\ n <= k
        /\ Size(x) >= 0 => n = k /\ a = m /\ s >= 0
        /\ (Size(x) < 0 /\ n >= 1) => s < 0
        /\ (Size(x) < 0 /\ n = k) => k >= 1 /\ a + 1 = m
    BY <1>3, <1>4, <2>3, <2>4, <2>5, <2>6, <2>7
  <2> QED
    BY <2>8
<1> QED
  BY <1>3, <1>5, <1>6

\* What a bit operation computes with: numbers of at most na and nb limbs, of positive
\* operands the magnitudes, of negative ones the magnitudes less one; of two
\* negative operands of mpz_ior only one need be whole.
BitOf(us, vs, na, nb, a, b) ==
  /\ na = Na /\ nb = Nb /\ a = UValue /\ b = VValue /\ a < Base(na) /\ b < Base(nb)
  /\ us >= 0 => Exactly(na, a)
  /\ vs >= 0 => Exactly(nb, b)
  /\ us < 0 => na >= 1 /\ nb >= 1 /\ vs < 0
  /\ vs < 0 => nb >= 1
  /\ us < 0 /\ c.fn # "ior" => Exactly(na, a + 1)
  /\ vs < 0 /\ (c.fn # "ior" \/ us >= 0) => Exactly(nb, b + 1)
  /\ us < 0 /\ c.fn = "ior" => na = nb /\ (Exactly(na, a + 1) \/ Exactly(nb, b + 1))

\* What is noted of the operands of a bit operation: their magnitudes, less one if negative.
LEMMA BitNumbers ==
  ASSUME Good, pc = "compute", c.fn \in BitFn
  PROVE  \E us \in Int, vs \in Int, na \in Nat, nb \in Nat, a \in Nat, b \in Nat :
           us = loc.us /\ vs = loc.vs /\ BitOf(us, vs, na, nb, a, b)
<1>1. First \in Usable /\ Second \in Usable /\ First \in {c.u, c.v} /\ Second \in {c.u, c.v}
  <2>1. c.u \in Usable /\ c.v \in Usable
    BY UsableArguments DEF Good
  <2> QED
    BY <2>1 DEF First, Second
<1>2. PICK x \in Usable, y \in Usable : x = First /\ y = Second
  BY <1>1
<1>3. OneLess(loc.us, loc.up, x, CopyU) /\ OneLess(loc.vs, loc.vp, y, CopyV)
  BY <1>2 DEF Good, Contents, LocalsOK, BitsNoted
<1>4. PICK us, vs, up, vp : us = loc.us /\ vs = loc.vs /\ up = loc.up /\ vp = loc.vp
  OBVIOUS
<1>5. PICK na \in Nat, a \in Nat, i \in Nat, m \in Nat :
        /\ us \in Int /\ na = Abs(us) /\ a = Read(up, na) /\ a < Base(na)
        /\ na = Copied(x) /\ i = Abs(Size(x)) /\ Exactly(i, m) /\ na <= i
        /\ Size(x) >= 0 => na = i /\ a = m /\ us >= 0
        /\ (Size(x) < 0 /\ na >= 1) => us < 0
        /\ (Size(x) < 0 /\ na = i) => i >= 1 /\ a + 1 = m
  <2>1. x \in {First, Second} /\ CopyU \in {CopyU, CopyV} /\ OneLess(us, up, x, CopyU)
    BY <1>2, <1>3, <1>4
  <2> QED
    BY <2>1, OneLessReads
<1>6. PICK nb \in Nat, b \in Nat, j \in Nat, k \in Nat :
        /\ vs \in Int /\ nb = Abs(vs) /\ b = Read(vp, nb) /\ b < Base(nb)
        /\ nb = Copied(y) /\ j = Abs(Size(y)) /\ Exactly(j, k) /\ nb <= j
        /\ Size(y) >= 0 => nb = j /\ b = k /\ vs >= 0
        /\ (Size(y) < 0 /\ nb >= 1) => vs < 0
        /\ (Size(y) < 0 /\ nb = j) => j >= 1 /\ b + 1 = k
  <2>1. y \in {First, Second} /\ CopyV \in {CopyU, CopyV} /\ OneLess(vs, vp, y, CopyV)
    BY <1>2, <1>3, <1>4
  <2> QED
    BY <2>1, OneLessReads
<1>7. PICK f \in Int, g \in Int : f = Size(x) /\ g = Size(y)
  BY <1>2, FirstSecond DEF Good
<1>8. f < 0 => g < 0
  BY <1>2, <1>7 DEF First, Second
<1>9. i \in Nat /\ j \in Nat /\ i = Abs(f) /\ j = Abs(g) /\ (f < 0 => i >= 1) /\ (g < 0 => j >= 1)
  BY <1>5, <1>6, <1>7 DEF Abs
<1>10. /\ ~(c.fn = "ior" /\ f < 0) => na = i /\ nb = j
       /\ c.fn = "ior" /\ f < 0 => na = MinOf(i, j) /\ nb = MinOf(i, j)
  BY <1>2, <1>5, <1>6, <1>7 DEF Copied
<1>11. MinOf(i, j) \in {i, j}
  BY DEF MinOf
<1>12. na = Na /\ nb = Nb /\ a = UValue /\ b = VValue
  BY <1>4, <1>5, <1>6 DEF Na, Nb, UValue, VValue
<1>13. f < 0 => na >= 1 /\ nb >= 1
  BY <1>8, <1>9, <1>10, <1>11
<1>14. g < 0 => nb >= 1
  BY <1>9, <1>10, <1>11, <1>13
<1>15. (us < 0 <=> f < 0) /\ (vs < 0 <=> g < 0) /\ (us >= 0 <=> f >= 0) /\ (vs >= 0 <=> g >= 0)
  <2>1. us \in Int /\ vs \in Int
    BY <1>5, <1>6
  <2>2. (f >= 0 => us >= 0) /\ (f < 0 => us < 0)
    BY <1>5, <1>7, <1>13
  <2>3. (g >= 0 => vs >= 0) /\ (g < 0 => vs < 0)
    BY <1>6, <1>7, <1>14
  <2> QED
    BY <2>1, <2>2, <2>3
<1>16. (us >= 0 => Exactly(na, a)) /\ (vs >= 0 => Exactly(nb, b))
  BY <1>5, <1>6, <1>7, <1>15
<1>17. us < 0 /\ c.fn # "ior" => Exactly(na, a + 1)
  BY <1>5, <1>7, <1>10, <1>15
<1>18. vs < 0 /\ (c.fn # "ior" \/ us >= 0) => Exactly(nb, b + 1)
  <2>1. us \in Int
    BY <1>5
  <2> QED
    BY <1>6, <1>7, <1>10, <1>15, <2>1
<1>19. us < 0 /\ c.fn = "ior" => na = nb /\ (Exactly(na, a + 1) \/ Exactly(nb, b + 1))
  <2>1. SUFFICES ASSUME us < 0, c.fn = "ior" PROVE na = nb /\ (Exactly(na, a + 1) \/ Exactly(nb, b + 1))
    OBVIOUS
  <2>2. na = nb /\ (na = i \/ nb = j) /\ f < 0 /\ g < 0
    BY <1>8, <1>10, <1>11, <1>15, <2>1
  <2> QED
    BY <1>5, <1>6, <1>7, <2>2
<1>20. BitOf(us, vs, na, nb, a, b)
  <2>1. (us < 0 => na >= 1 /\ nb >= 1 /\ vs < 0) /\ (vs < 0 => nb >= 1)
    BY <1>8, <1>13, <1>14, <1>15
  <2> QED
    BY <1>5, <1>6, <1>12, <1>16, <1>17, <1>18, <1>19, <2>1 DEF BitOf
<1> QED
  BY <1>4, <1>5, <1>6, <1>20, Zenon

\* What is cleared below leaves a number as long as it was, if it was longer.
LEMMA HighStays ==
  ASSUME NEW a \in Nat, NEW b \in Nat, NEW n \in Nat, NEW k \in Nat, k >= n, b < Base(n), a >= Base(k)
  PROVE  a - Both(a, b) \in Nat /\ a - Both(a, b) >= Base(k)
<1>1. n \in Nat /\ Base(n) = Two[LimbBits * n] /\ LimbBits * n \in Nat
  BY BaseFacts DEF Base
<1>2. PICK r \in Nat : r = a % Base(n) /\ Both(a, b) <= r /\ Both(a, b) \in 0 .. b
  <2>1. PICK l \in Nat : l = LimbBits * n /\ Base(n) = Two[l]
    BY <1>1
  <2>2. b < Two[l]
    BY <2>1
  <2>3. a % Two[l] \in Nat /\ Both(a, b) <= a % Two[l]
    BY <2>2, BothLow
  <2>4. Both(a, b) \in 0 .. b
    BY BothBounds
  <2> QED
    BY <2>1, <2>3, <2>4
<1>3. PICK d \in Nat, q \in Nat : d = Base(n) /\ q = a \div d /\ a = d * q + r /\ r < d
  <2>1. Base(n) \in Nat
    BY BaseFacts
  <2>2. /\ a % Base(n) < Base(n)
        /\ a \div Base(n) \in Nat /\ a = Base(n) * (a \div Base(n)) + (a % Base(n))
    BY LowLimbs
  <2> QED
    BY <1>2, <2>1, <2>2
<1>4. k - n \in Nat /\ k = n + (k - n)
  OBVIOUS
<1>5. PICK e \in Nat : e = Base(k - n) /\ Base(k) = d * e
  <2>1. PICK l \in Nat : l = k - n /\ k = n + l
    BY <1>4
  <2>2. Base(l) \in Nat /\ Base(n + l) = Base(n) * Base(l)
    BY BaseFacts, Zenon
  <2> QED
    BY <1>3, <2>1, <2>2
<1>6. d * q >= d * e
  <2>1. d * q + r >= d * e
    BY <1>3, <1>5
  <2>2. CASE q >= e
    BY <2>2
  <2>3. CASE q < e
    <3>1. q + 1 <= e
      BY <2>3
    <3>2. d * (q + 1) <= d * e
      BY <3>1
    <3>3. d * (q + 1) = d * q + d
      OBVIOUS
    <3>4. PICK i \in Nat, j \in Nat : i = d * q /\ j = d * e
      OBVIOUS
    <3> QED
      BY <1>3, <2>1, <3>2, <3>3, <3>4
  <2> QED
    BY <2>2, <2>3
<1>7. PICK i \in Nat, j \in Nat : i = d * q /\ j = d * e
  OBVIOUS
<1>8. PICK t \in Nat : t = Both(a, b) /\ t <= r
  BY <1>2
<1>9. a = i + r /\ i >= j /\ Base(k) = j
  BY <1>3, <1>5, <1>6, <1>7
<1> QED
  BY <1>8, <1>9

\* The bit operations on numbers of at most na and nb limbs.
LEMMA BitLimbs ==
  ASSUME NEW na \in Nat, NEW nb \in Nat, NEW a \in Nat, NEW b \in Nat, a < Base(na), b < Base(nb)
  PROVE  \E n \in Nat : /\ n = MaxOf(na, nb) /\ n \in {na, nb} /\ na <= n /\ nb <= n
                        /\ Either(a, b) \in Nat /\ Either(a, b) < Base(n) /\ Differ(a, b) \in Nat /\ Differ(a, b) < Base(n)
                        /\ Either(a, b) >= a /\ Either(a, b) >= b
                        /\ Both(a, b) \in Nat /\ Both(a, b) <= a /\ Both(a, b) <= b
<1>1. PICK n \in Nat : n = MaxOf(na, nb) /\ n \in {na, nb} /\ na <= n /\ nb <= n
  BY DEF MaxOf
<1>2. Base(na) <= Base(n) /\ Base(nb) <= Base(n) /\ Base(na) \in Nat /\ Base(nb) \in Nat /\ Base(n) \in Nat
  BY <1>1, BaseFacts
<1>3. PICK l \in Nat : l = LimbBits * n /\ Base(n) = Two[l]
  BY BaseFacts DEF Base
<1>4. a < Two[l] /\ b < Two[l]
  BY <1>2, <1>3
<1>5. /\ Either(a, b) \in Nat /\ Either(a, b) < Base(n) /\ Differ(a, b) \in Nat /\ Differ(a, b) < Base(n)
      /\ Either(a, b) >= a /\ Either(a, b) >= b
      /\ Both(a, b) \in Nat /\ Both(a, b) <= a /\ Both(a, b) <= b
  <2>1. /\ Either(a, b) \in Nat /\ Either(a, b) < Two[l] /\ Differ(a, b) \in Nat /\ Differ(a, b) < Two[l]
        /\ Either(a, b) >= a /\ Either(a, b) >= b
        /\ Both(a, b) \in Nat /\ Both(a, b) <= a /\ Both(a, b) <= b
    BY <1>4, BitsStay
  <2> QED
    BY <1>3, <2>1
<1> QED
  BY <1>1, <1>5

\* One is added to a number of n limbs, or of one less than n limbs: the carry may be
\* one limb more.
LEMMA OneMore ==
  ASSUME NEW n \in Nat, NEW x \in Nat, x < Base(n)
  PROVE  /\ x + 1 \in Nat /\ x + 1 < Base(n + 1)
         /\ LessTop(n + 1, x + 1) \in 0 .. n + 1 /\ x + 1 < Base(LessTop(n + 1, x + 1))
         /\ (n >= 1 => x + 1 >= Base(n - 1)) => Exactly(LessTop(n + 1, x + 1), x + 1)
<1>1. PICK a \in Nat, b \in Nat : a = Base(n) /\ b = Base(n + 1) /\ b = B * a /\ a >= 1 /\ B \in Nat /\ B >= 2
  <2>1. n + 1 \in Nat
    OBVIOUS
  <2>2. Base(n + 1) \in Nat
    BY <2>1, BaseFacts
  <2> QED
    BY <2>2, BaseFacts, Zenon
<1>2. b > a
  <2>1. B * a >= 2 * a
    BY <1>1
  <2> QED
    BY <1>1, <2>1
<1>3. PICK y \in Nat : y = x + 1 /\ y <= a /\ y < b
  BY <1>1, <1>2
<1>4. LessTop(n + 1, y) = IF y < a THEN n ELSE n + 1
  <2>1. y # Junk
    BY NotJunk
  <2>2. n + 1 - 1 = n
    OBVIOUS
  <2> QED
    BY <1>1, <2>1, <2>2 DEF LessTop
<1>5. LessTop(n + 1, y) \in 0 .. n + 1 /\ y < Base(LessTop(n + 1, y))
  BY <1>1, <1>3, <1>4
<1>6. ASSUME n >= 1 => y >= Base(n - 1) PROVE Exactly(LessTop(n + 1, y), y)
  <2>1. PICK k \in Nat : k = n + 1 /\ k >= 1 /\ k - 2 = n - 1
    OBVIOUS
  <2>2. y < Base(k) /\ (k >= 2 => y >= Base(k - 2))
    BY <1>1, <1>3, <1>6, <2>1
  <2>3. Exactly(LessTop(k, y), y)
    BY <2>1, <2>2, LessTopExactly
  <2> QED
    BY <2>1, <2>3
<1> QED
  BY <1>1, <1>3, <1>5, <1>6

\* A bit operation writes a number to its destination, which has room for it, and
\* frees the copies.
LEMMA BitEnds ==
  ASSUME Good, pc = "compute", c.fn \in BitFn, Finish, UNCHANGED calls,
         NEW n \in Nat, n <= Room(loc.ws), NEW x \in Nat, x < Base(n), NEW m \in Nat, m <= n, Exactly(m, x),
         heap' = Without(Written(heap, loc.wp, n, x), {CopyU, CopyV}),
         NEW negative \in BOOLEAN, SetSize(c.w, negative, m)
  PROVE  Contents'
<1>1. loc.wp = var[c.w].d /\ Needed <= var[c.w].alloc /\ var[c.w].alloc \in Nat
  BY Destination
<1>2. Room(loc.ws) = Needed /\ Room(loc.ws) \in Nat
  <2>1. loc.ws \in Nat
    BY DEF Good, IInv, Typing, Locals
  <2>2. Room(loc.ws) = Needed
    BY NeededHolds DEF NeededIs
  <2> QED
    BY <2>1, <2>2, LimbsOfResult DEF Good
<1>3. n <= var[c.w].alloc
  BY <1>1, <1>2
<1>4. PICK S, p : S = {CopyU, CopyV} /\ p = loc.wp
  OBVIOUS
<1>5. S \subseteq {CopyU, CopyV, loc.free} /\ heap' = Without(Written(heap, p, n, x), S) /\ p = var[c.w].d
  BY <1>1, <1>4
<1> QED
  BY <1>3, <1>5, FreesContents

\* The limb operations on numbers.
LEMMA BitNames ==
  ASSUME NEW a \in Nat, NEW b \in Nat
  PROVE  /\ And(a, b) = Both(a, b) /\ Ior(a, b) = Either(a, b) /\ Xor(a, b) = Differ(a, b)
         /\ AndNot(a, b) = a - Both(a, b) /\ \A x : From(a, a, x) = x
<1>1. \A x : From(a, b, x) = x /\ From(a, a, x) = x
  BY FromNumbers
<1>2. And(a, b) = Both(a, b) /\ Ior(a, b) = Either(a, b) /\ Xor(a, b) = Differ(a, b)
  BY <1>1 DEF And, Ior, Xor, Both, Either, Differ
<1> QED
  BY <1>1, <1>2 DEF AndNot

\* What a bit operation leaves before the addition of one, in n limbs, of which as many
\* count as the result has.
BitResult(n, x) ==
  /\ <<c.fn, Signs>> \in {<<"and", "++">>, <<"and", "+-">>, <<"ior", "++">>} => Exactly(n, x)
  /\ <<c.fn, Signs>> \in {<<"and", "--">>, <<"xor", "+-">>} => x < Base(n) /\ n = Most
  /\ <<c.fn, Signs>> = <<"and", "--">> => (n >= 1 => x + 1 >= Base(n - 1))
  /\ <<c.fn, Signs>> \in {<<"ior", "--">>, <<"ior", "+-">>} => Exactly(n, x) /\ x + 1 < Base(Room(n)) /\ Room(n) \in Nat
  /\ <<c.fn, Signs>> \in {<<"xor", "++">>, <<"xor", "--">>} => x < Base(n)

\* The numbers of limbs that mpz_and finds.
LEMMA AndResult ==
  ASSUME Good, pc = "compute", c.fn = "and"
  PROVE  \E n \in Nat, x \in Nat :
           /\ n = loc.ws /\ BitResult(n, x)
           /\ x = CASE Signs = "++" -> And(UValue, VValue) [] Signs = "--" -> Ior(UValue, VValue)
                    [] OTHER -> AndNot(UValue, VValue)
<1>1. c.fn \in BitFn /\ loc.ws = ResultLimbs
  <2>1. c.fn \in BitFn
    BY DEF BitFn
  <2> QED
    BY <2>1 DEF Good, Contents, LocalsOK, BitsNoted
<1>2. PICK us \in Int, vs \in Int, na \in Nat, nb \in Nat, a \in Nat, b \in Nat :
        us = loc.us /\ vs = loc.vs /\ BitOf(us, vs, na, nb, a, b)
  BY <1>1, BitNumbers
<1>3. na = Na /\ nb = Nb /\ a = UValue /\ b = VValue /\ a < Base(na) /\ b < Base(nb)
  BY <1>2 DEF BitOf
<1>4. PICK most \in Nat : /\ most = MaxOf(na, nb) /\ most \in {na, nb} /\ na <= most /\ nb <= most
                          /\ Either(a, b) \in Nat /\ Either(a, b) < Base(most)
                          /\ Either(a, b) >= a /\ Either(a, b) >= b
                          /\ Both(a, b) \in Nat /\ Both(a, b) <= a /\ Both(a, b) <= b
  BY <1>3, BitLimbs
<1>5. PICK both \in Nat, either \in Nat :
        /\ both = Both(a, b) /\ both <= a /\ both <= b
        /\ either = Either(a, b) /\ either < Base(most) /\ either >= a /\ either >= b
  BY <1>4
<1>6. And(a, b) = both /\ Ior(a, b) = either /\ AndNot(a, b) = a - both /\ a - both \in Nat
  BY <1>5, BitNames
<1>7. Base(na) \in Nat /\ Base(nb) \in Nat
  BY BaseFacts, Zenon
<1>8. CASE us >= 0 /\ vs >= 0
  <2>1. Signs = "++"
    BY <1>2, <1>8 DEF Signs, SignsOf
  <2>2. PICK l \in Nat : l = MinOf(na, nb) /\ l \in {na, nb}
    BY DEF MinOf
  <2>3. both < Base(l)
    BY <1>3, <1>5, <1>7, <2>2
  <2>4. PICK n \in Nat : n = Normalized(l, both) /\ Exactly(n, both)
    BY <2>3, NormalizedExactly
  <2>5. loc.ws = n
    BY <1>1, <1>3, <1>6, <2>1, <2>2, <2>4 DEF ResultLimbs
  <2>6. BitResult(n, both)
    BY <2>1, <2>4 DEF BitResult
  <2> QED
    BY <1>3, <1>6, <2>1, <2>5, <2>6
<1>9. CASE us < 0
  <2>1. Signs = "--"
    BY <1>2, <1>9 DEF Signs, SignsOf
  <2>2. loc.ws = most /\ most = Most
    BY <1>1, <1>3, <1>4, <2>1 DEF ResultLimbs, Most
  <2>3. Exactly(na, a + 1) /\ Exactly(nb, b + 1) /\ na >= 1 /\ nb >= 1
    BY <1>2, <1>9 DEF BitOf
  <2>4. either + 1 >= Base(most - 1)
    <3>1. a + 1 >= Base(na - 1) /\ b + 1 >= Base(nb - 1) /\ Base(na - 1) \in Nat /\ Base(nb - 1) \in Nat
      BY <2>3, ExactlyZero
    <3>2. most = na \/ most = nb
      BY <1>4
    <3> QED
      BY <1>5, <3>1, <3>2
  <2>5. BitResult(most, either)
    BY <1>5, <2>1, <2>2, <2>4 DEF BitResult
  <2> QED
    BY <1>3, <1>6, <2>1, <2>2, <2>5
<1>10. CASE us >= 0 /\ vs < 0
  <2>1. Signs = "+-"
    BY <1>2, <1>10 DEF Signs, SignsOf
  <2>2. Exactly(na, a)
    BY <1>2, <1>10 DEF BitOf
  <2>3. PICK x \in Nat : x = a - both /\ x <= a
    BY <1>6
  <2>4. PICK n \in Nat : n = (IF na > nb THEN na ELSE Normalized(na, x)) /\ Exactly(n, x)
    <3>1. CASE na > nb
      <4>1. PICK k \in Nat : k = na - 1 /\ k >= nb
        BY <3>1
      <4>2. a >= Base(k) /\ na >= 1
        BY <2>2, <3>1, <4>1, ExactlyZero
      <4>3. x >= Base(k)
        BY <1>3, <1>5, <2>3, <4>1, <4>2, HighStays
      <4>4. Exactly(na, x)
        BY <1>3, <1>7, <2>3, <4>1, <4>3 DEF Exactly
      <4> QED
        BY <3>1, <4>4
    <3>2. CASE ~(na > nb)
      <4>1. x < Base(na)
        BY <1>3, <1>7, <2>3
      <4>2. Normalized(na, x) \in Nat /\ Exactly(Normalized(na, x), x)
        BY <4>1, NormalizedExactly
      <4> QED
        BY <3>2, <4>2
    <3> QED
      BY <3>1, <3>2
  <2>5. loc.ws = n
    BY <1>1, <1>3, <1>6, <2>1, <2>3, <2>4 DEF ResultLimbs
  <2>6. BitResult(n, x)
    BY <2>1, <2>4 DEF BitResult
  <2> QED
    BY <1>3, <1>6, <2>1, <2>3, <2>5, <2>6
<1> QED
  BY <1>2, <1>8, <1>9, <1>10

\* ... and mpz_xor.
LEMMA XorResult ==
  ASSUME Good, pc = "compute", c.fn = "xor"
  PROVE  \E n \in Nat, x \in Nat : n = loc.ws /\ BitResult(n, x) /\ x = Xor(UValue, VValue)
<1>1. c.fn \in BitFn /\ loc.ws = ResultLimbs
  <2>1. c.fn \in BitFn
    BY DEF BitFn
  <2> QED
    BY <2>1 DEF Good, Contents, LocalsOK, BitsNoted
<1>2. PICK us \in Int, vs \in Int, na \in Nat, nb \in Nat, a \in Nat, b \in Nat :
        us = loc.us /\ vs = loc.vs /\ BitOf(us, vs, na, nb, a, b)
  BY <1>1, BitNumbers
<1>3. na = Na /\ nb = Nb /\ a = UValue /\ b = VValue /\ a < Base(na) /\ b < Base(nb)
  BY <1>2 DEF BitOf
<1>4. PICK n \in Nat, x \in Nat : n = MaxOf(na, nb) /\ x = Differ(a, b) /\ x < Base(n)
  BY <1>3, BitLimbs
<1>5. Xor(a, b) = x
  BY <1>4, BitNames
<1>6. Signs \in {"++", "--", "+-"}
  BY DEF Signs, SignsOf
<1>7. loc.ws = n /\ n = Most
  BY <1>1, <1>3, <1>4, <1>6 DEF ResultLimbs, Most
<1>8. BitResult(n, x)
  BY <1>4, <1>6, <1>7 DEF BitResult
<1> QED
  BY <1>3, <1>5, <1>7, <1>8

\* The limbs of a number with one more are no fewer than its own, or one fewer.
LEMMA OneFewer ==
  ASSUME NEW n \in Nat, n >= 1, NEW b \in Nat, Exactly(n, b + 1), b < Base(n)
  PROVE  \E m \in Nat : m = LessTop(n, b) /\ m <= n /\ Exactly(m, b)
<1>1. n >= 2 => b >= Base(n - 2)
  <2>1. SUFFICES ASSUME n >= 2 PROVE b >= Base(n - 2)
    OBVIOUS
  <2>2. PICK k \in Nat : k = n - 2 /\ n - 1 = k + 1
    BY <2>1
  <2>3. k + 1 \in Nat
    OBVIOUS
  <2>4. Base(k) \in Nat /\ Base(k) >= 1 /\ Base(k + 1) = B * Base(k) /\ B \in Nat /\ B >= 2
    BY BaseFacts, Zenon
  <2>5. PICK i \in Nat : i = Base(k) /\ i >= 1
    BY <2>4
  <2>6. B * i >= 2 * i
    BY <2>4
  <2>7. b + 1 >= Base(k + 1)
    BY <2>1, <2>2 DEF Exactly
  <2>8. b + 1 >= 2 * i
    BY <2>4, <2>5, <2>6, <2>7
  <2> QED
    BY <2>2, <2>5, <2>8
<1>2. LessTop(n, b) \in 0 .. n /\ Exactly(LessTop(n, b), b)
  BY <1>1, LessTopExactly
<1> QED
  BY <1>2

\* ... and mpz_ior: what it adds one to is less than what it started from.
LEMMA IorResult ==
  ASSUME Good, pc = "compute", c.fn = "ior"
  PROVE  \E n \in Nat, x \in Nat :
           /\ n = loc.ws /\ BitResult(n, x)
           /\ x = CASE Signs = "++" -> Ior(UValue, VValue) [] Signs = "--" -> And(UValue, VValue)
                    [] OTHER -> AndNot(VValue, UValue)
<1>1. c.fn \in BitFn /\ loc.ws = ResultLimbs
  <2>1. c.fn \in BitFn
    BY DEF BitFn
  <2> QED
    BY <2>1 DEF Good, Contents, LocalsOK, BitsNoted
<1>2. PICK us \in Int, vs \in Int, na \in Nat, nb \in Nat, a \in Nat, b \in Nat :
        us = loc.us /\ vs = loc.vs /\ BitOf(us, vs, na, nb, a, b)
  BY <1>1, BitNumbers
<1>3. na = Na /\ nb = Nb /\ a = UValue /\ b = VValue /\ a < Base(na) /\ b < Base(nb)
  BY <1>2 DEF BitOf
<1>4. PICK most \in Nat : /\ most = MaxOf(na, nb) /\ most \in {na, nb} /\ na <= most /\ nb <= most
                          /\ Either(a, b) \in Nat /\ Either(a, b) < Base(most)
                          /\ Either(a, b) >= a /\ Either(a, b) >= b
                          /\ Both(a, b) \in Nat /\ Both(a, b) <= a /\ Both(a, b) <= b
  BY <1>3, BitLimbs
<1>5. PICK both \in Nat, either \in Nat :
        /\ both = Both(a, b) /\ both <= a /\ both <= b
        /\ either = Either(a, b) /\ either < Base(most) /\ either >= a /\ either >= b
  BY <1>4
<1>6. both = Both(b, a)
  BY <1>5, BothLaws
<1>7. And(a, b) = both /\ Ior(a, b) = either
  BY <1>5, BitNames
<1>8. AndNot(b, a) = b - both /\ b - both \in Nat
  BY <1>5, <1>6, BitNames
<1>9. Base(na) \in Nat /\ Base(nb) \in Nat
  BY BaseFacts, Zenon
<1>10. CASE us >= 0 /\ vs >= 0
  <2>1. Signs = "++"
    BY <1>2, <1>10 DEF Signs, SignsOf
  <2>2. loc.ws = most
    BY <1>1, <1>3, <1>4, <2>1 DEF ResultLimbs, Most
  <2>3. Exactly(na, a) /\ Exactly(nb, b)
    BY <1>2, <1>10 DEF BitOf
  <2>4. most >= 1 => either >= Base(most - 1)
    <3>1. na >= 1 => a >= Base(na - 1) /\ Base(na - 1) \in Nat
      BY <2>3, ExactlyZero
    <3>2. nb >= 1 => b >= Base(nb - 1) /\ Base(nb - 1) \in Nat
      BY <2>3, ExactlyZero
    <3>3. most = na \/ most = nb
      BY <1>4
    <3> QED
      BY <1>5, <3>1, <3>2, <3>3
  <2>5. Exactly(most, either)
    BY <1>5, <2>4 DEF Exactly
  <2>6. BitResult(most, either)
    BY <2>1, <2>5 DEF BitResult
  <2> QED
    BY <1>3, <1>7, <2>1, <2>2, <2>6
<1>11. CASE us < 0
  <2>1. Signs = "--"
    BY <1>2, <1>11 DEF Signs, SignsOf
  <2>2. na = nb /\ (Exactly(na, a + 1) \/ Exactly(nb, b + 1))
    BY <1>2, <1>11 DEF BitOf
  <2>3. both + 1 < Base(na)
    <3>1. a + 1 < Base(na) \/ b + 1 < Base(na)
      BY <2>2 DEF Exactly
    <3> QED
      BY <1>5, <1>9, <3>1
  <2>4. PICK n \in Nat : n = Normalized(na, both) /\ Exactly(n, both)
    <3>1. both < Base(na)
      BY <1>9, <2>3
    <3> QED
      BY <3>1, NormalizedExactly
  <2>5. loc.ws = n
    BY <1>1, <1>3, <1>7, <2>1, <2>4 DEF ResultLimbs
  <2>6. Room(n) = na
    BY <1>3, <2>1 DEF Room
  <2>7. BitResult(n, both)
    BY <2>1, <2>3, <2>4, <2>6 DEF BitResult
  <2> QED
    BY <1>3, <1>7, <2>1, <2>5, <2>7
<1>12. CASE us >= 0 /\ vs < 0
  <2>1. Signs = "+-"
    BY <1>2, <1>12 DEF Signs, SignsOf
  <2>2. Exactly(na, a) /\ Exactly(nb, b + 1) /\ nb >= 1
    BY <1>2, <1>12 DEF BitOf
  <2>3. PICK x \in Nat : x = b - both /\ x <= b
    BY <1>8
  <2>4. PICK m \in Nat : m = LessTop(nb, b) /\ m <= nb /\ Exactly(m, b)
    BY <1>3, <2>2, OneFewer
  <2>5. b < Base(m) /\ Base(m) \in Nat
    BY <2>4, ExactlyZero
  <2>6. PICK n \in Nat : n = (IF na >= m THEN Normalized(m, x) ELSE m) /\ Exactly(n, x)
    <3>1. CASE ~(na >= m)
      <4>1. PICK k \in Nat : k = m - 1 /\ k >= na
        BY <3>1
      <4>2. b >= Base(k) /\ m >= 1
        BY <2>4, <3>1, <4>1, ExactlyZero
      <4>3. x >= Base(k)
        BY <1>3, <1>5, <1>6, <2>3, <4>1, <4>2, HighStays
      <4>4. Exactly(m, x)
        BY <2>3, <2>5, <4>1, <4>3 DEF Exactly
      <4> QED
        BY <3>1, <4>4
    <3>2. CASE na >= m
      <4>1. x < Base(m)
        BY <2>3, <2>5
      <4>2. Normalized(m, x) \in Nat /\ Exactly(Normalized(m, x), x)
        BY <4>1, NormalizedExactly
      <4> QED
        BY <3>2, <4>2
    <3> QED
      BY <3>1, <3>2
  <2>7. loc.ws = n
    BY <1>1, <1>3, <1>8, <2>1, <2>3, <2>4, <2>6 DEF ResultLimbs
  <2>8. Room(n) = nb
    BY <1>3, <2>1 DEF Room
  <2>9. x + 1 < Base(nb)
    <3>1. b + 1 < Base(nb)
      BY <2>2 DEF Exactly
    <3> QED
      BY <1>9, <2>3, <3>1
  <2>10. BitResult(n, x)
    BY <2>1, <2>6, <2>8, <2>9 DEF BitResult
  <2> QED
    BY <1>3, <1>8, <2>1, <2>3, <2>7, <2>10
<1> QED
  BY <1>2, <1>10, <1>11, <1>12

\* What the cases of mpz_and, mpz_ior and mpz_xor compute before the addition of one.
BitNumber ==
  CASE c.fn = "and" /\ Signs = "++" -> And(UValue, VValue)
    [] c.fn = "and" /\ Signs = "--" -> Ior(UValue, VValue)
    [] c.fn = "and" /\ Signs = "+-" -> AndNot(UValue, VValue)
    [] c.fn = "ior" /\ Signs = "++" -> Ior(UValue, VValue)
    [] c.fn = "ior" /\ Signs = "--" -> And(UValue, VValue)
    [] c.fn = "ior" /\ Signs = "+-" -> AndNot(VValue, UValue)
    [] OTHER -> Xor(UValue, VValue)

\* What a bit operation computes has no more limbs than were noted.
LEMMA BitResults ==
  ASSUME Good, pc = "compute", c.fn \in BitFn
  PROVE  \E n \in Nat, x \in Nat : n = loc.ws /\ BitResult(n, x) /\ x = BitNumber
<1>1. Signs \in {"++", "--", "+-"}
  BY DEF Signs, SignsOf
<1>2. CASE c.fn = "and"
  <2>1. PICK n \in Nat, x \in Nat :
          /\ n = loc.ws /\ BitResult(n, x)
          /\ x = CASE Signs = "++" -> And(UValue, VValue) [] Signs = "--" -> Ior(UValue, VValue)
                   [] OTHER -> AndNot(UValue, VValue)
    BY <1>2, AndResult
  <2>2. x = BitNumber
    BY <1>1, <1>2, <2>1 DEF BitNumber
  <2> QED
    BY <2>1, <2>2
<1>3. CASE c.fn = "ior"
  <2>1. PICK n \in Nat, x \in Nat :
          /\ n = loc.ws /\ BitResult(n, x)
          /\ x = CASE Signs = "++" -> Ior(UValue, VValue) [] Signs = "--" -> And(UValue, VValue)
                   [] OTHER -> AndNot(VValue, UValue)
    BY <1>3, IorResult
  <2>2. x = BitNumber
    BY <1>1, <1>3, <2>1 DEF BitNumber
  <2> QED
    BY <2>1, <2>2
<1>4. CASE c.fn = "xor"
  <2>1. BitNumber = Xor(UValue, VValue)
    BY <1>4 DEF BitNumber
  <2> QED
    BY <1>4, <2>1, XorResult
<1> QED
  BY <1>2, <1>3, <1>4 DEF BitFn

\* The result of mpz_ior fits without a limb for a carry.
LEMMA IorAdds ==
  ASSUME NEW n \in Nat, NEW x \in Nat, Exactly(n, x), NEW k \in Nat, x + 1 < Base(k)
  PROVE  /\ LessTop(n + 1, x + 1) \in Nat /\ LessTop(n + 1, x + 1) <= k
         /\ Exactly(LessTop(n + 1, x + 1), x + 1)
<1>1. x < Base(n) /\ (n >= 1 => x >= Base(n - 1) /\ Base(n - 1) \in Nat)
  BY ExactlyZero
<1>2. n >= 1 => x + 1 >= Base(n - 1)
  BY <1>1
<1>3. x + 1 \in Nat
  OBVIOUS
<1>4. PICK m \in Nat, y \in Nat : m = LessTop(n + 1, y) /\ y = x + 1 /\ Exactly(m, y)
  <2>1. LessTop(n + 1, x + 1) \in 0 .. n + 1 /\ Exactly(LessTop(n + 1, x + 1), x + 1)
    BY <1>1, <1>2, OneMore
  <2> QED
    BY <1>3, <2>1
<1>5. m <= k
  BY <1>4, ExactlyAtMost
<1> QED
  BY <1>4, <1>5

\* So one added to the result of mpz_ior needs no limb more.
LEMMA IorFitsHolds ==
  ASSUME Good
  PROVE  IorFits
<1> DEFINE Summand == IF Signs = "--" THEN And(UValue, VValue) ELSE AndNot(VValue, UValue)
<1>1. SUFFICES ASSUME pc = "compute", c.fn = "ior", Signs # "++"
               PROVE  LessTop(loc.ws + 1, From(Summand, Summand, Summand + 1)) <= Room(loc.ws)
  BY DEF IorFits
<1>2. c.fn \in BitFn
  BY <1>1 DEF BitFn
<1>3. PICK n \in Nat, x \in Nat : n = loc.ws /\ BitResult(n, x) /\ x = BitNumber
  BY <1>1, <1>2, BitResults
<1>signs. Signs \in {"--", "+-"}
  BY <1>1 DEF Signs, SignsOf
<1>4. x = Summand
  BY <1>1, <1>3, <1>signs DEF BitNumber
<1>5. From(x, x, x + 1) = x + 1
  BY FromNumbers
<1>6. Exactly(n, x) /\ x + 1 < Base(Room(n)) /\ Room(n) \in Nat
  BY <1>1, <1>3, <1>signs DEF BitResult
<1> HIDE DEF Summand
<1>7. LessTop(n + 1, x + 1) <= Room(n)
  BY <1>6, IorAdds
<1> QED
  BY <1>3, <1>4, <1>5, <1>7

\* A bit operation that leaves number x in some limbs, with a size.
Leaves2(limbs, x, negative, size) ==
  /\ heap' = Without(Written(heap, loc.wp, limbs, x), {CopyU, CopyV})
  /\ SetSize(c.w, negative, size)

\* What each operation leaves in its destination, by the signs of the operands.
LEMMA BitComputes ==
  ASSUME BitCompute, NEW n \in Nat, n = loc.ws, NEW x \in Nat, x = BitNumber, NEW m, m = LessTop(n + 1, x + 1)
  PROVE  /\ <<c.fn, Signs>> \in {<<"and", "++">>, <<"and", "+-">>, <<"ior", "++">>} => Leaves2(n, x, FALSE, n)
         /\ <<c.fn, Signs>> \in {<<"and", "--">>, <<"ior", "--">>, <<"ior", "+-">>} => Leaves2(m, x + 1, TRUE, m)
         /\ <<c.fn, Signs>> = <<"xor", "+-">> => Leaves2(m, x + 1, TRUE, Normalized(m, x + 1))
         /\ <<c.fn, Signs>> \in {<<"xor", "++">>, <<"xor", "--">>} => Leaves2(n, x, FALSE, Normalized(n, x))
         /\ pc = "compute" /\ c.fn \in BitFn /\ Signs \in {"++", "--", "+-"} /\ Finish /\ UNCHANGED calls
<1>1. pc = "compute" /\ c.fn \in BitFn /\ Finish /\ UNCHANGED calls
  BY DEF BitCompute, At
<1>2. Signs \in {"++", "--", "+-"}
  BY DEF Signs, SignsOf
<1>3. From(x, x, x + 1) = x + 1
  BY FromNumbers
<1>4. PICK y : y = x + 1 /\ From(x, x, x + 1) = y
  BY <1>3
<1>5. m = LessTop(n + 1, y)
  BY <1>4
<1>6. CASE <<c.fn, Signs>> = <<"and", "++">>
  <2>1. x = And(UValue, VValue)
    BY <1>6 DEF BitNumber
  <2> QED
    BY <1>1, <1>2, <1>6, <2>1, Zenon DEF BitCompute, Leaves2
<1>7. CASE <<c.fn, Signs>> = <<"and", "+-">>
  <2>1. x = AndNot(UValue, VValue)
    BY <1>7 DEF BitNumber
  <2> QED
    BY <1>1, <1>2, <1>7, <2>1, Zenon DEF BitCompute, Leaves2
<1>8. CASE <<c.fn, Signs>> = <<"ior", "++">>
  <2>1. x = Ior(UValue, VValue)
    BY <1>8 DEF BitNumber
  <2> QED
    BY <1>1, <1>2, <1>8, <2>1, Zenon DEF BitCompute, Leaves2
<1>9. CASE <<c.fn, Signs>> = <<"and", "--">>
  <2>1. x = Ior(UValue, VValue)
    BY <1>9 DEF BitNumber
  <2>2. Leaves2(m, y, TRUE, m)
    BY <1>4, <1>5, <1>9, <2>1, Zenon DEF BitCompute, Leaves2
  <2> QED
    BY <1>1, <1>2, <1>4, <1>9, <2>2, Zenon
<1>10. CASE <<c.fn, Signs>> = <<"ior", "--">>
  <2>1. x = And(UValue, VValue)
    BY <1>10 DEF BitNumber
  <2>2. Leaves2(m, y, TRUE, m)
    BY <1>4, <1>5, <1>10, <2>1, Zenon DEF BitCompute, Leaves2
  <2> QED
    BY <1>1, <1>2, <1>4, <1>10, <2>2, Zenon
<1>11. CASE <<c.fn, Signs>> = <<"ior", "+-">>
  <2>1. x = AndNot(VValue, UValue)
    BY <1>11 DEF BitNumber
  <2>2. Leaves2(m, y, TRUE, m)
    BY <1>4, <1>5, <1>11, <2>1, Zenon DEF BitCompute, Leaves2
  <2> QED
    BY <1>1, <1>2, <1>4, <1>11, <2>2, Zenon
<1>12. CASE <<c.fn, Signs>> = <<"xor", "+-">>
  <2>1. x = Xor(UValue, VValue)
    BY <1>12 DEF BitNumber
  <2>2. Leaves2(m, y, TRUE, Normalized(m, y))
    BY <1>4, <1>5, <1>12, <2>1, Zenon DEF BitCompute, Leaves2
  <2> QED
    BY <1>1, <1>2, <1>4, <1>12, <2>2, Zenon
<1>13. CASE <<c.fn, Signs>> \in {<<"xor", "++">>, <<"xor", "--">>}
  <2>1. x = Xor(UValue, VValue)
    BY <1>13 DEF BitNumber
  <2>2. Leaves2(n, x, FALSE, Normalized(n, x))
    BY <1>13, <2>1, Zenon DEF BitCompute, Leaves2
  <2> QED
    BY <1>1, <1>2, <1>13, <2>2, Zenon
<1> QED
  BY <1>1, <1>2, <1>6, <1>7, <1>8, <1>9, <1>10, <1>11, <1>12, <1>13, Zenon DEF BitFn

\* A result with the size it has keeps the contents.
LEMMA BitLeaves ==
  ASSUME Good, pc = "compute", c.fn \in BitFn, Finish, UNCHANGED calls,
         NEW n \in Nat, n <= Room(loc.ws), NEW x \in Nat, x < Base(n), NEW m \in Nat, m <= n, Exactly(m, x),
         NEW negative \in BOOLEAN, Leaves2(n, x, negative, m)
  PROVE  Contents'
BY BitEnds DEF Leaves2

LEMMA BitComputeContents ==
  ASSUME Good, BitCompute
  PROVE  Contents'
<1>1. pc = "compute" /\ c.fn \in BitFn
  BY DEF BitCompute, At
<1>2. PICK n \in Nat, x \in Nat : n = loc.ws /\ BitResult(n, x) /\ x = BitNumber
  BY <1>1, BitResults
<1>m. PICK m : m = LessTop(n + 1, x + 1)
  OBVIOUS
<1>y. PICK y \in Nat : y = x + 1
  OBVIOUS
<1>3. m = LessTop(n + 1, x + 1) /\ y = x + 1
  BY <1>m, <1>y
<1>4. /\ <<c.fn, Signs>> \in {<<"and", "++">>, <<"and", "+-">>, <<"ior", "++">>} => Leaves2(n, x, FALSE, n)
      /\ <<c.fn, Signs>> \in {<<"and", "--">>, <<"ior", "--">>, <<"ior", "+-">>} => Leaves2(m, y, TRUE, m)
      /\ <<c.fn, Signs>> = <<"xor", "+-">> => Leaves2(m, y, TRUE, Normalized(m, y))
      /\ <<c.fn, Signs>> \in {<<"xor", "++">>, <<"xor", "--">>} => Leaves2(n, x, FALSE, Normalized(n, x))
      /\ Signs \in {"++", "--", "+-"} /\ Finish /\ UNCHANGED calls
  <2>1. /\ <<c.fn, Signs>> \in {<<"and", "++">>, <<"and", "+-">>, <<"ior", "++">>} => Leaves2(n, x, FALSE, n)
        /\ <<c.fn, Signs>> \in {<<"and", "--">>, <<"ior", "--">>, <<"ior", "+-">>} => Leaves2(m, x + 1, TRUE, m)
        /\ <<c.fn, Signs>> = <<"xor", "+-">> => Leaves2(m, x + 1, TRUE, Normalized(m, x + 1))
        /\ <<c.fn, Signs>> \in {<<"xor", "++">>, <<"xor", "--">>} => Leaves2(n, x, FALSE, Normalized(n, x))
        /\ pc = "compute" /\ c.fn \in BitFn /\ Signs \in {"++", "--", "+-"} /\ Finish /\ UNCHANGED calls
    BY <1>2, <1>3, BitComputes, Zenon
  <2> QED
    BY <1>3, <2>1, Zenon
<1>5. TRUE \in BOOLEAN /\ FALSE \in BOOLEAN
  OBVIOUS
<1>6. CASE <<c.fn, Signs>> \in {<<"and", "++">>, <<"and", "+-">>, <<"ior", "++">>}
  <2>1. Room(loc.ws) = n
    BY <1>2, <1>6 DEF Room
  <2>2. Exactly(n, x) /\ x < Base(n) /\ n <= Room(loc.ws) /\ n <= n
    BY <1>2, <1>6, <2>1 DEF BitResult, Exactly
  <2> QED
    BY <1>1, <1>4, <1>5, <1>6, <2>2, BitLeaves, Zenon
<1>7. CASE <<c.fn, Signs>> \in {<<"and", "--">>, <<"xor", "+-">>}
  <2>1. x < Base(n) /\ n = Most
    BY <1>2, <1>7 DEF BitResult
  <2>2. Room(loc.ws) = 1 + n
    BY <1>7, <2>1 DEF Room
  <2>3. /\ m \in 0 .. n + 1 /\ y < Base(m)
        /\ (n >= 1 => y >= Base(n - 1)) => Exactly(m, y)
    BY <1>3, <2>1, OneMore
  <2>4. m \in Nat /\ m <= Room(loc.ws) /\ m <= m
    BY <2>2, <2>3
  <2>5. CASE <<c.fn, Signs>> = <<"and", "--">>
    <3>1. n >= 1 => x + 1 >= Base(n - 1)
      BY <1>2, <2>5 DEF BitResult
    <3>2. Exactly(m, y)
      BY <1>3, <2>3, <3>1
    <3> QED
      BY <1>1, <1>4, <1>5, <2>3, <2>4, <2>5, <3>2, BitLeaves, Zenon
  <2>6. CASE <<c.fn, Signs>> = <<"xor", "+-">>
    <3>1. PICK k \in Nat : k = Normalized(m, y) /\ k <= m /\ Exactly(k, y)
      BY <2>3, <2>4, NormalizedExactly
    <3>2. Leaves2(m, y, TRUE, k)
      BY <1>4, <2>6, <3>1, Zenon
    <3> QED
      BY <1>1, <1>4, <1>5, <2>3, <2>4, <3>1, <3>2, BitLeaves, Zenon
  <2> QED
    BY <1>7, <2>5, <2>6
<1>8. CASE <<c.fn, Signs>> \in {<<"ior", "--">>, <<"ior", "+-">>}
  <2>1. PICK k \in Nat : Exactly(n, x) /\ x + 1 < Base(k) /\ k = Room(n)
    BY <1>2, <1>8 DEF BitResult
  <2>2. m \in Nat /\ m <= k /\ Exactly(m, y)
    BY <1>3, <2>1, IorAdds
  <2>3. y < Base(m) /\ m <= Room(loc.ws) /\ m <= m
    BY <1>2, <2>1, <2>2 DEF Exactly
  <2> QED
    BY <1>1, <1>4, <1>5, <1>8, <2>2, <2>3, BitLeaves, Zenon
<1>9. CASE <<c.fn, Signs>> \in {<<"xor", "++">>, <<"xor", "--">>}
  <2>1. Room(loc.ws) = n
    BY <1>2, <1>9 DEF Room
  <2>2. x < Base(n) /\ n <= Room(loc.ws)
    BY <1>2, <1>9, <2>1 DEF BitResult
  <2>3. PICK k \in Nat : k = Normalized(n, x) /\ k <= n /\ Exactly(k, x)
    BY <2>2, NormalizedExactly
  <2>4. Leaves2(n, x, FALSE, k)
    BY <1>4, <1>9, <2>3, Zenon
  <2> QED
    BY <1>1, <1>4, <1>5, <2>2, <2>3, <2>4, BitLeaves, Zenon
<1> QED
  BY <1>1, <1>4, <1>6, <1>7, <1>8, <1>9 DEF BitFn

-----------------------------------------------------------------------------
(* The functions of a single bit.                                          *)

\* The variable of such a function gets a number, in a block that may be new.
LEMMA BecomesContents ==
  ASSUME Good, pc = "enter", Finish, UNCHANGED calls, NEW x \in Nat, NEW n \in Nat, x < Base(n),
         NEW m \in Nat, m <= n, Exactly(m, x), Becomes(x, n, m)
  PROVE  Contents'
<1>1. PICK w \in Var : w = c.w /\ w \in Usable
  BY Running, UsableArguments, Zenon DEF Good
<1>2. /\ var[w].alloc \in Nat /\ var[w].alloc >= 1 /\ heap[var[w].d].len = var[w].alloc
  BY <1>1, SizesSay DEF Good, Bounds
<1>3. PICK a \in Nat : a = MaxOf(var[w].alloc, n) /\ a >= 1 /\ n <= a
  BY <1>2 DEF MaxOf
<1>4. PICK negative \in BOOLEAN : negative = (Size(w) < 0)
  <2>1. (Size(w) < 0) \in BOOLEAN
    OBVIOUS
  <2> QED
    BY <2>1, Zenon
<1>5. PICK s \in Int : s = Signed(negative, m) /\ s = Signed(Size(w) < 0, m) /\ Abs(s) = m
  BY <1>4, SignedFacts, Zenon
<1>6. PICK p \in (Block \ DOMAIN heap) \cup {var[w].d} :
        /\ heap' = With(Without(heap, {var[w].d}), p, Filled(Fresh(MaxOf(heap[var[w].d].len, n)), n, x))
        /\ var' = [var EXCEPT ![w] = [alloc |-> MaxOf(@.alloc, n), d |-> p, size |-> s]]
  BY <1>1, <1>5, Zenon DEF Becomes
<1>7. PICK b : b = Filled(Fresh(a), n, x)
  OBVIOUS
<1>8. Fresh(a).len = a
  BY DEF Fresh
<1>9. PICK old : old = Fresh(a) /\ old.len = a
  BY <1>8
<1>10. BlockOK(b) /\ b.len = a /\ Whole(b, s)
  <2>1. BlockOK(Filled(old, n, x)) /\ Filled(old, n, x).len = a
    BY <1>3, <1>9, FilledHolds
  <2>2. Abs(s) <= n /\ Exactly(Abs(s), x)
    BY <1>5
  <2>3. Whole(Filled(old, n, x), s)
    BY <1>3, <1>9, <2>2, FilledWhole
  <2> QED
    BY <1>7, <1>9, <2>1, <2>3
<1>11. heap' = With(Without(heap, {var[w].d}), p, b)
  BY <1>2, <1>3, <1>6, <1>7
<1>12. PICK f : f = [alloc |-> a, d |-> p, size |-> s]
  BY Zenon
<1>13. var' = [var EXCEPT ![w] = f]
  BY <1>3, <1>6, <1>12
<1>14. f.alloc = a /\ f.d = p /\ f.size = s
  BY <1>12
<1>15. MovesTo(w, p, b, f)
  <2>1. p \in (Block \ DOMAIN heap) \cup {var[w].d}
    BY <1>6
  <2>2. f.d = p /\ f.alloc = b.len /\ f.alloc \in Nat /\ f.alloc >= 1 /\ Abs(f.size) <= f.alloc
    BY <1>3, <1>5, <1>10, <1>14
  <2> QED
    BY <1>11, <1>13, <2>1, <2>2 DEF MovesTo
<1>16. /\ BlocksOK' /\ TempKept /\ var'[w] = f /\ p \in DOMAIN heap' /\ heap'[p] = b
       /\ \A y \in Usable \ {w} : Kept(y)
  BY <1>10, <1>15, MovedHolds DEF Good, Bounds, Contents
<1>17. Sound(w)
  BY <1>10, <1>14, <1>16 DEF Sound
<1>18. ASSUME NEW y \in Usable, y # w PROVE Sound(y)
  <2>1. Kept(y)
    BY <1>16, <1>18
  <2>2. ~Renewed(y)
    BY DEF Renewed
  <2>3. NumberAt(var[y].d, Size(y))
    BY <2>2, HasNumber
  <2> QED
    BY <2>1, <2>3, KeptReads DEF Good
<1>19. \A y \in Usable : Sound(y)
  BY <1>17, <1>18
<1>20. FinishWith(0) /\ 0 \in 0 .. B - 1
  BY ZeroLimb DEF Finish
<1> QED
  BY <1>16, <1>19, <1>20, EndsContents

\* A bit that is not set in a number of t bits can be set in t bits.
LEMMA BitAdded ==
  ASSUME NEW k \in Nat, NEW t \in Nat, k < t, NEW m \in Nat, m < Two[t], (m \div Two[k]) % 2 # 1
  PROVE  m + Two[k] \in Nat /\ m + Two[k] < Two[t]
<1>1. PICK d \in Nat : d = Two[k] /\ d >= 1
  BY TwoFacts
<1>2. PICK q \in Nat, r \in Nat : q = m \div d /\ r < d /\ m = d * q + r
  <2>1. m \in Int /\ m >= 0 /\ d >= 1
    BY <1>1
  <2>2. m \div d \in Nat /\ m % d \in Nat /\ m % d < d /\ m = d * (m \div d) + (m % d)
    BY <2>1, Division
  <2> QED
    BY <2>2
<1>3. PICK h \in Nat : q = 2 * h
  <2>1. q % 2 # 1
    BY <1>1, <1>2
  <2> QED
    BY <2>1
<1>4. PICK l \in Nat : l = t - k - 1
  OBVIOUS
<1>5. PICK e \in Nat : e = Two[l] /\ Two[l + 1] = 2 * e /\ l + 1 \in Nat
  BY TwoFacts
<1>6. Two[t] = d * (2 * e)
  <2>1. Two[k + (l + 1)] = Two[k] * Two[l + 1]
    BY <1>5, TwoSum
  <2>2. k + (l + 1) = t
    BY <1>4
  <2> QED
    BY <1>1, <1>5, <2>1, <2>2, Zenon
<1>7. h < e
  <2>1. SUFFICES ASSUME h >= e PROVE FALSE
    OBVIOUS
  <2>2. d * (2 * h) >= d * (2 * e)
    BY <2>1
  <2>3. PICK i \in Nat, j \in Nat : i = d * (2 * h) /\ j = d * (2 * e)
    OBVIOUS
  <2> QED
    BY <1>2, <1>3, <1>6, <2>2, <2>3
<1>8. d * (2 * h + 2) <= d * (2 * e)
  <2>1. 2 * h + 2 <= 2 * e
    BY <1>7
  <2> QED
    BY <2>1
<1>9. d * (2 * h + 2) = d * (2 * h) + 2 * d
  OBVIOUS
<1>10. PICK i \in Nat, j \in Nat : i = d * (2 * h) /\ j = d * (2 * e)
  OBVIOUS
<1>11. m = i + r /\ i + 2 * d <= j /\ Two[t] = j /\ r < d
  BY <1>2, <1>3, <1>6, <1>8, <1>9, <1>10
<1> QED
  BY <1>1, <1>11

\* A bit that is set is in the number.
LEMMA BitThere ==
  ASSUME NEW k \in Nat, NEW m \in Nat, (m \div Two[k]) % 2 = 1
  PROVE  m - Two[k] \in Nat
<1>1. PICK d \in Nat : d = Two[k] /\ d >= 1
  BY TwoFacts
<1>2. PICK q \in Nat, r \in Nat : q = m \div d /\ r < d /\ m = d * q + r
  <2>1. m \in Int /\ m >= 0 /\ d >= 1
    BY <1>1
  <2>2. m \div d \in Nat /\ m % d \in Nat /\ m % d < d /\ m = d * (m \div d) + (m % d)
    BY <2>1, Division
  <2> QED
    BY <2>2
<1>3. q >= 1
  BY <1>1, <1>2
<1>4. d * q >= d
  BY <1>3
<1> QED
  BY <1>1, <1>2, <1>4

\* The top bit of t is set in the numbers that are no less than the others together.
LEMMA HighBits ==
  ASSUME NEW i \in Nat, NEW t \in Nat, i < t, NEW v \in Nat, v < Two[t], v >= Two[t] - Two[i]
  PROVE  (v \div Two[i]) % 2 = 1
<1>1. PICK d \in Nat : d = Two[i] /\ d >= 1
  BY TwoFacts
<1>2. PICK l \in Nat : l = t - i - 1
  OBVIOUS
<1>3. PICK e \in Nat : e = Two[l] /\ Two[l + 1] = 2 * e /\ l + 1 \in Nat /\ e >= 1
  BY TwoFacts
<1>4. Two[t] = d * (2 * e)
  <2>1. Two[i + (l + 1)] = Two[i] * Two[l + 1]
    BY <1>3, TwoSum
  <2>2. i + (l + 1) = t
    BY <1>2
  <2> QED
    BY <1>1, <1>3, <2>1, <2>2
<1>5. PICK q \in Nat : q = 2 * e - 1
  BY <1>3
<1>6. d * q = d * (2 * e) - d
  <2>1. d * (2 * e - 1) = d * (2 * e) - d
    OBVIOUS
  <2> QED
    BY <1>5, <2>1
<1>7. PICK r \in Int : r = v - d * q
  OBVIOUS
<1>8. r \in 0 .. d - 1 /\ v = d * q + r
  <2>1. PICK j \in Nat, p \in Nat : j = d * (2 * e) /\ p = d * q
    OBVIOUS
  <2>2. p = j - d /\ v < j /\ v >= j - d /\ r = v - p
    BY <1>1, <1>4, <1>6, <1>7, <2>1
  <2> QED
    BY <1>1, <2>1, <2>2
<1>9. v \div d = q
  BY <1>1, <1>8, DivisionUnique
<1>10. q % 2 = 1
  BY <1>3, <1>5
<1> QED
  BY <1>1, <1>9, <1>10

\* The place of a bit: a limb, and a bit of the limb.
LEMMA BitPlace ==
  ASSUME Good, pc = "enter", c.fn \notin AorsUiFns
  PROVE  \E k \in Nat, i \in Nat, l \in Nat, j \in Nat, b \in Nat :
           /\ k = c.k /\ i = LimbIndex /\ l = k % LimbBits /\ j = BitInLimb /\ b = BitValue
           /\ k < LimbBits * (i + 1) /\ l < LimbBits /\ k = LimbBits * i + l
           /\ j = Two[l] /\ b = Two[k] /\ b = Base(i) * j /\ b >= Base(i) /\ b < Base(i + 1) /\ 2 * b <= Base(i + 1)
<1>1. PICK k \in Nat : k = c.k
  BY Running, LimbArgument DEF Good
<1>2. PICK n \in Nat : n = LimbBits /\ n >= 1
  BY BaseFacts
<1>3. PICK i \in Nat, l \in Nat : i = k \div n /\ l = k % n /\ l < n /\ k = n * i + l
  <2>1. k \in Int /\ k >= 0 /\ n >= 1
    BY <1>2
  <2>2. k \div n \in Nat /\ k % n \in Nat /\ k % n < n /\ k = n * (k \div n) + (k % n)
    BY <2>1, Division
  <2> QED
    BY <2>2
<1>4. i = LimbIndex /\ BitInLimb = Two[l] /\ BitValue = Two[k]
  BY <1>1, <1>2, <1>3 DEF LimbIndex, BitInLimb, BitValue
<1>5. PICK j \in Nat, b \in Nat : j = Two[l] /\ b = Two[k] /\ j >= 1 /\ b >= 1
  BY TwoFacts, Zenon
<1>6. n * (i + 1) = n * i + n /\ n * i \in Nat /\ n * (i + 1) \in Nat
  OBVIOUS
<1>7. k + 1 <= n * (i + 1) /\ k + 1 \in Nat
  BY <1>3, <1>6
<1>8. b = Base(i) * j
  <2>1. PICK h \in Nat : h = n * i
    BY <1>6
  <2>2. Two[h + l] = Two[h] * Two[l]
    BY TwoSum
  <2>3. Base(i) = Two[h] /\ h + l = k
    BY <1>2, <1>3, <2>1 DEF Base
  <2> QED
    BY <1>5, <2>2, <2>3
<1>9. 2 * b <= Base(i + 1)
  <2>1. Two[k + 1] = 2 * Two[k]
    BY TwoFacts
  <2>2. PICK h \in Nat : h = n * (i + 1)
    BY <1>6
  <2>3. Two[k + 1] <= Two[h]
    BY <1>7, <2>2, TwoMonotone
  <2>4. Base(i + 1) = Two[h]
    BY <1>2, <2>2 DEF Base
  <2> QED
    BY <1>5, <2>1, <2>3, <2>4
<1>10. b >= Base(i) /\ Base(i + 1) \in Nat
  <2>1. i + 1 \in Nat
    OBVIOUS
  <2>2. Base(i + 1) \in Nat
    BY <2>1, BaseFacts, Zenon
  <2>3. PICK a \in Nat : a = Base(i)
    BY BaseFacts
  <2>4. a * j >= a
    BY <1>5, <2>3, ProductGrows
  <2> QED
    BY <1>8, <2>2, <2>3, <2>4
<1>11. b < Base(i + 1)
  BY <1>5, <1>9, <1>10
<1>13. k < LimbBits * (i + 1) /\ l < LimbBits /\ k = LimbBits * i + l
  <2>1. PICK h \in Nat : h = n * (i + 1) /\ k + 1 <= h
    BY <1>6, <1>7
  <2>2. k < n * (i + 1)
    BY <2>1
  <2> QED
    BY <1>2, <1>3, <2>2
<1>14. /\ k = c.k /\ i = LimbIndex /\ l = k % LimbBits /\ j = BitInLimb /\ b = BitValue
       /\ j = Two[l] /\ b = Two[k] /\ b = Base(i) * j /\ b >= Base(i) /\ b < Base(i + 1) /\ 2 * b <= Base(i + 1)
  BY <1>1, <1>2, <1>3, <1>4, <1>5, <1>8, <1>9, <1>10, <1>11, Zenon
<1>15. /\ k = c.k /\ i = LimbIndex /\ l = k % LimbBits /\ j = BitInLimb /\ b = BitValue
       /\ k < LimbBits * (i + 1) /\ l < LimbBits /\ k = LimbBits * i + l
       /\ j = Two[l] /\ b = Two[k] /\ b = Base(i) * j /\ b >= Base(i) /\ b < Base(i + 1) /\ 2 * b <= Base(i + 1)
  BY <1>13, <1>14
<1> QED
  BY <1>15, Zenon

\* The variable whose bit changes, and as many limbs as it and the bit need.
LEMMA BitVariable ==
  ASSUME Good, pc = "enter", c.fn \notin AorsUiFns
  PROVE  \E s \in Int, n \in Nat, m \in Nat, e \in Nat :
           /\ s = Size(c.w) /\ n = Limbs /\ m = Value /\ Exactly(n, m) /\ (s < 0 => n >= 1 /\ m >= 1)
           /\ e = Enough /\ n <= e /\ LimbIndex + 1 <= e /\ e \in {n, LimbIndex + 1}
<1>1. PICK w \in Usable : w = c.w
  BY UsableArguments DEF Good
<1>2. ~Renewed(w)
  BY DEF Renewed
<1>3. PICK s \in Int, n \in Nat, m \in Nat :
        /\ s = Size(w) /\ s = var[w].size /\ n = Abs(s) /\ m = Read(var[w].d, n) /\ Exactly(n, m)
        /\ (n = 0 <=> m = 0) /\ (s = 0 <=> n = 0)
  BY <1>2, VariableReads
<1>4. PICK i \in Nat : i = LimbIndex
  BY BitPlace
<1>5. PICK e \in Nat : e = MaxOf(n, i + 1) /\ n <= e /\ i + 1 <= e /\ e \in {n, i + 1}
  <2>1. PICK j \in Nat : j = i + 1
    OBVIOUS
  <2> QED
    BY <2>1 DEF MaxOf
<1>6. n = Limbs /\ m = Value /\ s = Size(c.w)
  BY <1>1, <1>3 DEF Limbs, Value
<1>7. e = Enough
  BY <1>4, <1>5, <1>6 DEF Enough
<1>8. s < 0 => n >= 1 /\ m >= 1
  BY <1>3
<1> QED
  BY <1>3, <1>4, <1>5, <1>6, <1>7, <1>8

\* A bit is set that was not.
LEMMA SetsBit ==
  ASSUME Good, pc = "enter", c.fn \notin AorsUiFns, ~HasBit(Value)
  PROVE  \E x \in Nat, e \in Nat : x = Value + BitValue /\ e = Enough /\ x < Base(e) /\ Exactly(e, x)
<1>1. PICK s \in Int, n \in Nat, m \in Nat, e \in Nat :
        /\ s = Size(c.w) /\ n = Limbs /\ m = Value /\ Exactly(n, m) /\ (s < 0 => n >= 1 /\ m >= 1)
        /\ e = Enough /\ n <= e /\ LimbIndex + 1 <= e /\ e \in {n, LimbIndex + 1}
  BY BitVariable
<1>2. PICK k \in Nat, i \in Nat, l \in Nat, j \in Nat, b \in Nat :
        /\ k = c.k /\ i = LimbIndex /\ l = k % LimbBits /\ j = BitInLimb /\ b = BitValue
        /\ k < LimbBits * (i + 1) /\ l < LimbBits /\ k = LimbBits * i + l
        /\ j = Two[l] /\ b = Two[k] /\ b = Base(i) * j /\ b >= Base(i) /\ b < Base(i + 1) /\ 2 * b <= Base(i + 1)
  BY BitPlace
<1>3. PICK d \in Nat : d = LimbBits
  BY BaseFacts
<1>4. PICK t \in Nat : t = d * e
  OBVIOUS
<1>5. k < t
  <2>1. d * (i + 1) <= d * e
    BY <1>1, <1>2
  <2>2. PICK h \in Nat : h = d * (i + 1)
    OBVIOUS
  <2> QED
    BY <1>2, <1>3, <1>4, <2>1, <2>2
<1>6. Base(e) = Two[t]
  BY <1>3, <1>4 DEF Base
<1>7. m < Base(e)
  <2>1. Base(n) <= Base(e) /\ Base(n) \in Nat /\ Base(e) \in Nat
    BY <1>1, BaseFacts
  <2>2. m < Base(n)
    BY <1>1 DEF Exactly
  <2> QED
    BY <2>1, <2>2
<1>8. (m \div Two[k]) % 2 # 1
  BY <1>1, <1>2 DEF HasBit
<1>9. m < Two[t]
  BY <1>6, <1>7
<1>10. m + Two[k] \in Nat /\ m + Two[k] < Two[t]
  BY <1>5, <1>8, <1>9, BitAdded
<1>11. PICK x \in Nat : x = m + b /\ x < Base(e)
  BY <1>2, <1>6, <1>10
<1>12. e >= 1 /\ x >= Base(e - 1)
  <2>1. e >= 1
    BY <1>1, <1>2
  <2>2. CASE e = i + 1
    <3>1. e - 1 = i
      BY <2>2
    <3>2. Base(i) \in Nat
      BY BaseFacts, Zenon
    <3> QED
      BY <1>2, <1>11, <2>1, <3>1, <3>2
  <2>3. CASE e = n
    <3>1. m >= Base(n - 1) /\ Base(n - 1) \in Nat
      BY <1>1, <2>1, <2>3, ExactlyZero
    <3> QED
      BY <1>11, <2>1, <2>3, <3>1
  <2> QED
    BY <1>1, <1>2, <2>2, <2>3
<1>13. Exactly(e, x)
  BY <1>11, <1>12 DEF Exactly
<1> QED
  BY <1>1, <1>2, <1>11, <1>13

\* A bit is cleared that was set, or is taken from a number that is not less.
LEMMA ClearsBit ==
  ASSUME Good, pc = "enter", c.fn \notin AorsUiFns, HasBit(Value) \/ Value >= BitValue
  PROVE  \E x \in Nat, n \in Nat :
           /\ x = Value - BitValue /\ n = Limbs /\ x < Base(n) /\ n <= Enough /\ Enough \in Nat /\ x < Base(Enough)
           /\ Normalized(n, x) \in 0 .. n /\ Exactly(Normalized(n, x), x)
<1>1. PICK s \in Int, n \in Nat, m \in Nat, e \in Nat :
        /\ s = Size(c.w) /\ n = Limbs /\ m = Value /\ Exactly(n, m) /\ (s < 0 => n >= 1 /\ m >= 1)
        /\ e = Enough /\ n <= e /\ LimbIndex + 1 <= e /\ e \in {n, LimbIndex + 1}
  BY BitVariable
<1>2. PICK k \in Nat, i \in Nat, l \in Nat, j \in Nat, b \in Nat :
        /\ k = c.k /\ i = LimbIndex /\ l = k % LimbBits /\ j = BitInLimb /\ b = BitValue
        /\ k < LimbBits * (i + 1) /\ l < LimbBits /\ k = LimbBits * i + l
        /\ j = Two[l] /\ b = Two[k] /\ b = Base(i) * j /\ b >= Base(i) /\ b < Base(i + 1) /\ 2 * b <= Base(i + 1)
  BY BitPlace
<1>3. m - b \in Nat
  <2>1. CASE m >= b
    BY <2>1
  <2>2. CASE HasBit(m)
    <3>1. (m \div Two[k]) % 2 = 1
      BY <1>2, <2>2 DEF HasBit
    <3>2. m - Two[k] \in Nat
      BY <3>1, BitThere
    <3> QED
      BY <1>2, <3>2
  <2> QED
    BY <1>1, <1>2, <2>1, <2>2
<1>4. PICK x \in Nat : x = m - b /\ x <= m
  BY <1>3
<1>5. Base(n) <= Base(e) /\ Base(n) \in Nat /\ Base(e) \in Nat
  BY <1>1, BaseFacts
<1>6. m < Base(n)
  BY <1>1 DEF Exactly
<1>7. x < Base(n) /\ x < Base(e)
  BY <1>4, <1>5, <1>6
<1>8. Normalized(n, x) \in 0 .. n /\ Exactly(Normalized(n, x), x)
  BY <1>7, NormalizedExactly
<1> QED
  BY <1>1, <1>2, <1>4, <1>7, <1>8

LEMMA SetBitPositiveContents ==
  ASSUME Good, SetBitPositive
  PROVE  Contents'
<1>1. pc = "enter" /\ c.fn \notin AorsUiFns /\ Finish /\ UNCHANGED calls
  BY DEF SetBitPositive, At, AorsUiFns
<1>2. CASE HasBit(Value)
  <2>1. UNCHANGED <<heap, var>>
    BY <1>2 DEF SetBitPositive, Same
  <2> QED
    BY <1>1, <2>1, SameContents
<1>3. CASE ~HasBit(Value)
  <2>1. PICK x \in Nat, e \in Nat : x = Value + BitValue /\ e = Enough /\ x < Base(e) /\ Exactly(e, x)
    BY <1>1, <1>3, SetsBit
  <2>2. Becomes(x, e, e) /\ e <= e
    BY <1>3, <2>1 DEF SetBitPositive
  <2> QED
    BY <1>1, <2>1, <2>2, BecomesContents
<1> QED
  BY <1>2, <1>3

LEMMA ClrBitPositiveContents ==
  ASSUME Good, ClrBitPositive
  PROVE  Contents'
<1>1. pc = "enter" /\ c.fn \notin AorsUiFns /\ Finish /\ UNCHANGED calls
  BY DEF ClrBitPositive, At, AorsUiFns
<1>2. CASE ~HasBit(Value)
  <2>1. UNCHANGED <<heap, var>>
    BY <1>2 DEF ClrBitPositive, Same
  <2> QED
    BY <1>1, <2>1, SameContents
<1>3. CASE HasBit(Value)
  <2>1. PICK x \in Nat, n \in Nat :
          /\ x = Value - BitValue /\ n = Limbs /\ x < Base(n)
          /\ Normalized(n, x) \in 0 .. n /\ Exactly(Normalized(n, x), x)
    BY <1>1, <1>3, ClearsBit
  <2>2. PICK k \in Nat : k = Normalized(n, x) /\ k <= n /\ Exactly(k, x)
    BY <2>1
  <2>3. Becomes(x, n, k)
    BY <1>3, <2>1, <2>2 DEF ClrBitPositive
  <2> QED
    BY <1>1, <2>1, <2>2, <2>3, BecomesContents
<1> QED
  BY <1>2, <1>3

\* A number is the limbs above limb i, that limb, and those below.
SplitAt(m, i, a, h, l, r, t) ==
  /\ a = Base(i) /\ a >= 1 /\ l = LimbOf(m, i) /\ l < B /\ r = m % a /\ r < a
  /\ t = Base(i + 1) /\ t = B * a /\ t >= 1 /\ h = m \div t
  /\ m = t * h + (a * l + r) /\ m % t = a * l + r

\* Any number is split at any limb.
LEMMA LimbParts ==
  ASSUME NEW m \in Nat, NEW i \in Nat
  PROVE  \E a \in Nat, h \in Nat, l \in Nat, r \in Nat, t \in Nat : SplitAt(m, i, a, h, l, r, t)
<1>1. PICK a \in Nat, d \in Nat : a = Base(i) /\ a >= 1 /\ d = B /\ d >= 1
  BY BaseFacts, Zenon
<1>2. PICK t \in Nat : t = Base(i + 1) /\ t = d * a /\ t >= 1
  <2>1. i + 1 \in Nat
    OBVIOUS
  <2>2. Base(i + 1) \in Nat /\ Base(i + 1) >= 1
    BY <2>1, BaseFacts, Zenon
  <2>3. Base(i + 1) = B * Base(i)
    BY BaseFacts, Zenon
  <2> QED
    BY <1>1, <2>2, <2>3
<1>3. PICK q \in Nat, r \in Nat : q = m \div a /\ r = m % a /\ r < a
  <2>1. m \in Int /\ m >= 0 /\ a >= 1
    BY <1>1
  <2>2. m \div a \in Nat /\ m % a \in Nat /\ m % a < a
    BY <2>1, Division
  <2> QED
    BY <2>2
<1>4. PICK l \in Nat : l = q % d /\ l < d
  <2>1. q \in Int /\ d >= 1
    BY <1>1
  <2>2. q % d \in Nat /\ q % d < d
    BY <2>1, Division
  <2> QED
    BY <2>2
<1>5. l = LimbOf(m, i)
  BY <1>1, <1>3, <1>4 DEF LimbOf
<1>6. PICK h \in Nat : h = m \div t /\ m = t * h + (m % t)
  <2>1. m \in Int /\ m >= 0 /\ t >= 1
    BY <1>2
  <2>2. m \div t \in Nat /\ m = t * (m \div t) + (m % t)
    BY <2>1, Division
  <2> QED
    BY <2>2
<1>7. m % t = a * l + r
  <2>3. m \in Int /\ a \in Nat /\ d \in Nat /\ a >= 1 /\ d >= 1
    BY <1>1
  <2>1. m % (a * d) = a * ((m \div a) % d) + (m % a)
    BY <2>3, ModOfMod, Zenon
  <2>2. t = a * d
    BY <1>2
  <2> QED
    BY <1>3, <1>4, <2>1, <2>2
<1>8. SplitAt(m, i, a, h, l, r, t)
  <2>1. m = t * h + (a * l + r) /\ t = B * a /\ l < B
    BY <1>1, <1>2, <1>4, <1>6, <1>7
  <2> QED
    BY <1>1, <1>2, <1>3, <1>5, <1>6, <1>7, <2>1 DEF SplitAt
<1> QED
  BY <1>8

\* A number with a limb that is not zero is no less than the place of the limb.
LEMMA LimbThere ==
  ASSUME NEW m \in Nat, NEW i \in Nat, LimbOf(m, i) # 0
  PROVE  m >= Base(i)
<1>3. PICK a \in Nat, h \in Nat, l \in Nat, r \in Nat, t \in Nat : SplitAt(m, i, a, h, l, r, t)
  BY LimbParts, Zenon
<1>1. a = Base(i) /\ l = LimbOf(m, i) /\ m = t * h + (a * l + r)
  BY <1>3 DEF SplitAt
<1>2. a * l >= a /\ t * h >= 0
  <2>1. l >= 1
    BY <1>1
  <2> QED
    BY <2>1
<1> QED
  BY <1>1, <1>2

\* Of a number that is not zero there is a lowest limb that is not.
LEMMA FirstLimb ==
  ASSUME NEW m \in Nat, m >= 1, NEW n \in Nat, m < Base(n)
  PROVE  \E i \in 0 .. n - 1 : LimbOf(m, i) # 0 /\ \A j \in 0 .. i - 1 : LimbOf(m, j) = 0
<1> DEFINE P == {k \in Nat : (\A j \in 0 .. k - 1 : LimbOf(m, j) = 0) => m % Base(k) = 0}
           T == {j \in 0 .. n - 1 : LimbOf(m, j) # 0}
<1>1. 0 \in P
  <2>1. Base(0) = 1
    BY BaseFacts
  <2>2. m % 1 = 0
    OBVIOUS
  <2> QED
    BY <2>1, <2>2
<1>2. ASSUME NEW k \in Nat, k \in P PROVE k + 1 \in P
  <2>1. SUFFICES ASSUME \A j \in 0 .. k : LimbOf(m, j) = 0 PROVE m % Base(k + 1) = 0
    OBVIOUS
  <2>2. m % Base(k) = 0
    BY <1>2, <2>1
  <2>5. PICK a \in Nat, h \in Nat, l \in Nat, r \in Nat, t \in Nat : SplitAt(m, k, a, h, l, r, t)
    BY LimbParts, Zenon
  <2>3. a = Base(k) /\ l = LimbOf(m, k) /\ r = m % a /\ t = Base(k + 1) /\ m % t = a * l + r
    BY <2>5 DEF SplitAt
  <2>4. l = 0 /\ r = 0
    BY <2>1, <2>2, <2>3
  <2> QED
    BY <2>3, <2>4
<1> HIDE DEF P
<1>3. n \in P
  BY <1>1, <1>2, SetInduction
<1> USE DEF P
<1>4. m % Base(n) = m
  BY LowLimbs
<1>5. T # {} /\ T \subseteq Nat
  BY <1>3, <1>4
<1> HIDE DEF T
<1>6. PICK i \in T : \A j \in T : i <= j
  BY <1>5, LeastElement, Zenon
<1> USE DEF T
<1>7. ASSUME NEW j \in 0 .. i - 1 PROVE LimbOf(m, j) = 0
  BY <1>6
<1> QED
  BY <1>6, <1>7

\* So the functions find it.
LEMMA ZeroBoundIs ==
  ASSUME Good, pc = "enter", c.fn \notin AorsUiFns, Size(c.w) < 0
  PROVE  \E z \in Nat, n \in Nat, m \in Nat :
           /\ z = ZeroBound /\ n = Limbs /\ m = Value /\ Exactly(n, m) /\ n >= 1 /\ m >= 1 /\ z <= n - 1
           /\ LimbOf(m, z) # 0
<1>1. PICK s \in Int, n \in Nat, m \in Nat, e \in Nat :
        s = Size(c.w) /\ n = Limbs /\ m = Value /\ Exactly(n, m) /\ (s < 0 => n >= 1 /\ m >= 1)
  BY BitVariable
<1>2. n >= 1 /\ m >= 1 /\ m < Base(n)
  BY <1>1 DEF Exactly
<1>3. \E i \in 0 .. n - 1 : LimbOf(m, i) # 0 /\ \A j \in 0 .. i - 1 : LimbOf(m, j) = 0
  BY <1>2, FirstLimb
<1>4. ZeroBound = CHOOSE i \in 0 .. n - 1 : LimbOf(m, i) # 0 /\ \A j \in 0 .. i - 1 : LimbOf(m, j) = 0
  BY <1>1 DEF ZeroBound, Limbs
<1>5. ZeroBound \in 0 .. n - 1 /\ LimbOf(m, ZeroBound) # 0
  BY <1>3, <1>4
<1> QED
  BY <1>1, <1>2, <1>5

\* A limb that is not zero may become smaller, and the number keeps its limbs.
LEMMA LimbDown ==
  ASSUME NEW m \in Nat, NEW n \in Nat, Exactly(n, m), NEW i \in Nat, i <= n - 1,
         NEW d \in Nat, d >= 1, d <= LimbOf(m, i)
  PROVE  WithLimb(m, i, d) \in Nat /\ Exactly(n, WithLimb(m, i, d))
<1>1. PICK a \in Nat, h \in Nat, l \in Nat, r \in Nat, t \in Nat : SplitAt(m, i, a, h, l, r, t)
  BY LimbParts, Zenon
<1>2. a = Base(i) /\ l = LimbOf(m, i) /\ m = t * h + (a * l + r) /\ m % t = a * l + r /\ t = Base(i + 1) /\ t >= 1
  BY <1>1 DEF SplitAt
<1>3. PICK e \in Nat : e = l - d
  BY <1>2
<1>4. PICK x \in Int : x = WithLimb(m, i, d) /\ x = m - e * a
  <2>1. WithLimb(m, i, d) = m + (d - l) * a
    BY <1>2 DEF WithLimb
  <2>2. m + (d - l) * a = m - e * a
    BY <1>3
  <2> QED
    BY <2>1, <2>2
<1>5. a * l = a * d + e * a
  BY <1>3
<1>6. PICK p \in Nat, q \in Nat, s \in Nat, g \in Nat : p = t * h /\ q = a * l /\ s = a * d /\ g = e * a
  OBVIOUS
<1>7. x = p + s + r /\ m = p + q + r /\ q = s + g /\ x <= m /\ x \in Nat
  <2>1. m = p + (q + r) /\ q = s + g /\ x = m - g
    BY <1>2, <1>4, <1>5, <1>6, Zenon
  <2> QED
    BY <2>1
<1>8. m < Base(n) /\ n >= 1 /\ m >= Base(n - 1) /\ Base(n - 1) \in Nat
  BY ExactlyZero DEF Exactly
<1>9. Base(n) \in Nat
  BY BaseFacts
<1>10. x >= Base(n - 1)
  <2>1. CASE n - 1 = i
    <3>1. s >= a
      BY <1>6
    <3>2. Base(n - 1) = a
      BY <1>2, <2>1
    <3> QED
      BY <1>7, <3>1, <3>2
  <2>2. CASE n - 1 # i
    <3>1. PICK k \in Nat : k = n - 1 - (i + 1)
      BY <2>2
    <3>2. PICK j \in Nat : j = i + 1 /\ n - 1 = j + k
      BY <3>1
    <3>9. Base(k) \in Nat /\ Base(j + k) = Base(j) * Base(k)
      BY BaseFacts, Zenon
    <3>3. PICK u \in Nat : u = Base(k) /\ Base(j + k) = Base(j) * u
      BY <3>9
    <3>4. Base(n - 1) = t * u
      BY <1>2, <3>2, <3>3
    <3>5. q + r < t
      <4>1. m \in Int /\ m >= 0 /\ t >= 1
        BY <1>2
      <4>2. m % t < t
        BY <4>1, Division
      <4> QED
        BY <1>2, <1>6, <4>2
    <3>6. h >= u
      <4>1. SUFFICES ASSUME h + 1 <= u PROVE FALSE
        OBVIOUS
      <4>2. t * (h + 1) <= t * u
        BY <4>1
      <4>3. t * (h + 1) = t * h + t
        OBVIOUS
      <4>4. PICK v \in Nat : v = t * u
        OBVIOUS
      <4> QED
        BY <1>6, <1>7, <1>8, <3>4, <3>5, <4>2, <4>3, <4>4
    <3>7. t * h >= t * u
      BY <3>6
    <3>8. PICK v \in Nat : v = t * u
      OBVIOUS
    <3> QED
      BY <1>6, <1>7, <3>4, <3>7, <3>8
  <2> QED
    BY <2>1, <2>2
<1>11. x < Base(n)
  BY <1>7, <1>8, <1>9
<1> QED
  BY <1>4, <1>7, <1>10, <1>11 DEF Exactly

\* A limb may become larger; the carry may be a limb more.
LEMMA LimbUp ==
  ASSUME NEW m \in Nat, NEW n \in Nat, Exactly(n, m), NEW i \in Nat, i <= n - 1,
         NEW d \in Nat, d <= B, d >= LimbOf(m, i)
  PROVE  \E x \in Nat, k \in Nat : /\ x = WithLimb(m, i, d) /\ k = LessTop(n + 1, x) /\ Exactly(k, x)
<1>1. PICK a \in Nat, h \in Nat, l \in Nat, r \in Nat, t \in Nat : SplitAt(m, i, a, h, l, r, t)
  BY LimbParts, Zenon
<1>2. a = Base(i) /\ l = LimbOf(m, i) /\ t = Base(i + 1) /\ t = B * a
  BY <1>1 DEF SplitAt
<1>3. PICK e \in Nat : e = d - l /\ e <= B
  <2>1. B \in Nat
    BY BaseFacts
  <2>2. l \in Nat /\ l <= d /\ d <= B
    BY <1>2
  <2> QED
    BY <2>1, <2>2
<1>4. PICK x \in Nat : x = WithLimb(m, i, d) /\ x = m + e * a
  <2>1. WithLimb(m, i, d) = m + (d - l) * a
    BY <1>2 DEF WithLimb
  <2> QED
    BY <1>3, <2>1
<1>5. e * a <= t
  <2>1. B \in Nat
    BY BaseFacts
  <2>2. e * a <= B * a
    BY <1>3, <2>1
  <2> QED
    BY <1>2, <2>2
<1>6. PICK b \in Nat : b = Base(n) /\ t <= b /\ b >= 1
  <2>1. i + 1 \in Nat /\ i + 1 <= n
    OBVIOUS
  <2>2. Base(i + 1) <= Base(n)
    BY <2>1, BaseFacts
  <2>3. Base(n) \in Nat /\ Base(n) >= 1
    BY BaseFacts
  <2> QED
    BY <1>2, <2>2, <2>3
<1>7. Base(n + 1) >= 2 * b /\ Base(n + 1) \in Nat
  <2>1. n + 1 \in Nat
    OBVIOUS
  <2>2. Base(n + 1) \in Nat
    BY <2>1, BaseFacts
  <2>3. Base(n + 1) = B * b /\ B \in Nat /\ B >= 2
    BY <1>6, BaseFacts, Zenon
  <2>4. B * b >= 2 * b
    BY <2>3
  <2> QED
    BY <2>2, <2>3, <2>4
<1>8. m < b /\ n >= 1 /\ m >= Base(n - 1) /\ Base(n - 1) \in Nat
  BY <1>6, ExactlyZero DEF Exactly
<1>9. PICK f \in Nat : f = e * a /\ f <= t
  BY <1>5
<1>10. x < Base(n + 1) /\ x >= Base(n - 1)
  BY <1>4, <1>6, <1>7, <1>8, <1>9
<1>11. PICK j \in Nat : j = n + 1 /\ j - 2 = n - 1 /\ j >= 1
  OBVIOUS
<1>12. LessTop(j, x) \in 0 .. j /\ Exactly(LessTop(j, x), x)
  BY <1>10, <1>11, LessTopExactly
<1> QED
  BY <1>4, <1>11, <1>12

\* The bit in its limb.
LEMMA LimbChanges ==
  ASSUME Good, pc = "enter", c.fn \notin AorsUiFns, LimbOf(Value, LimbIndex) # 0, LimbOf(Value, LimbIndex) \in 0 .. B - 1
  PROVE  /\ LimbCleared + 1 \in Nat /\ LimbCleared + 1 >= 1 /\ LimbCleared + 1 <= LimbOf(Value, LimbIndex)
         /\ LimbSet + 1 \in Nat /\ LimbSet + 1 >= LimbOf(Value, LimbIndex) /\ LimbSet + 1 <= B
<1>1. PICK k \in Nat, i \in Nat, l \in Nat, j \in Nat, b \in Nat :
        /\ k = c.k /\ i = LimbIndex /\ l = k % LimbBits /\ j = BitInLimb /\ b = BitValue
        /\ k < LimbBits * (i + 1) /\ l < LimbBits /\ k = LimbBits * i + l
        /\ j = Two[l] /\ b = Two[k] /\ b = Base(i) * j /\ b >= Base(i) /\ b < Base(i + 1) /\ 2 * b <= Base(i + 1)
  BY BitPlace
<1>2. PICK t \in Nat : t = LimbBits /\ B = Two[t] /\ B \in Nat
  BY BaseFacts
<1>3. PICK v \in Nat : v = LimbOf(Value, LimbIndex) /\ v >= 1 /\ v < B
  BY <1>2
<1>4. PICK x \in Nat : x = v - 1 /\ x < B
  BY <1>2, <1>3
<1>5. LimbLess = x
  <2>1. x \in Int /\ x >= 0 /\ x < B /\ B >= 1 /\ B \in Nat
    BY <1>2, <1>4
  <2>2. x % B = x
    BY <2>1, Division
  <2> QED
    BY <1>3, <1>4, <2>2 DEF LimbLess
<1>6. CASE (x \div j) % 2 = 1
  <2>1. (x \div Two[l]) % 2 = 1
    BY <1>1, <1>6
  <2>2. x - Two[l] \in Nat
    BY <2>1, BitThere
  <2>3. LimbCleared = x - j /\ LimbSet = x
    BY <1>1, <1>5, <1>6 DEF LimbCleared, LimbSet
  <2> QED
    BY <1>1, <1>2, <1>3, <1>4, <2>2, <2>3
<1>7. CASE (x \div j) % 2 # 1
  <2>1. (x \div Two[l]) % 2 # 1 /\ l < t /\ x < Two[t]
    BY <1>1, <1>2, <1>4, <1>7
  <2>2. x + Two[l] \in Nat /\ x + Two[l] < Two[t]
    BY <2>1, BitAdded
  <2>3. LimbCleared = x /\ LimbSet = x + j
    BY <1>1, <1>5, <1>7 DEF LimbCleared, LimbSet
  <2> QED
    BY <1>1, <1>2, <1>3, <1>4, <2>2, <2>3
<1> QED
  BY <1>6, <1>7

\* Half of the place of the lowest limb leaves at most one limb less.
LEMMA BelowFirst ==
  ASSUME NEW m \in Nat, NEW n \in Nat, n >= 1, Exactly(n, m), NEW z \in Nat, z <= n - 1, m >= Base(z),
         NEW b \in Nat, 2 * b <= Base(z)
  PROVE  \E x \in Nat, k \in Nat : x = m - b /\ x < Base(n) /\ k = LessTop(n, x) /\ k <= n /\ Exactly(k, x)
<1>1. PICK l \in Nat : l = n - 1 /\ n = l + 1
  OBVIOUS
<1>2. Base(z) <= Base(l) /\ Base(z) \in Nat /\ Base(l) \in Nat
  <2>1. z <= l
    BY <1>1
  <2> QED
    BY <2>1, BaseFacts, Zenon
<1>3. m < Base(n) /\ m >= Base(l) /\ Base(n) \in Nat
  BY <1>1, ExactlyZero
<1>4. PICK x \in Nat : x = m - b /\ x < Base(n) /\ 2 * x >= Base(l)
  BY <1>2, <1>3
<1>5. n >= 2 => x >= Base(n - 2)
  <2>1. SUFFICES ASSUME n >= 2 PROVE x >= Base(n - 2)
    OBVIOUS
  <2>2. PICK k \in Nat : k = n - 2 /\ l = k + 1
    BY <1>1, <2>1
  <2>3. Base(k) \in Nat /\ Base(k + 1) = B * Base(k) /\ B \in Nat /\ B >= 2
    BY BaseFacts, Zenon
  <2>4. PICK c0 \in Nat : c0 = Base(k)
    BY <2>3
  <2>5. B * c0 >= 2 * c0
    BY <2>3
  <2>6. Base(l) >= 2 * c0
    BY <1>2, <2>2, <2>3, <2>4, <2>5
  <2> QED
    BY <1>2, <1>4, <2>2, <2>4, <2>6
<1>6. LessTop(n, x) \in 0 .. n /\ Exactly(LessTop(n, x), x)
  BY <1>4, <1>5, LessTopExactly
<1> QED
  BY <1>4, <1>6

LEMMA SetBitNegativeContents ==
  ASSUME Good, SetBitNegative
  PROVE  Contents'
<1>1. pc = "enter" /\ c.fn \notin AorsUiFns /\ Finish /\ UNCHANGED calls /\ Size(c.w) < 0
  BY DEF SetBitNegative, At, AorsUiFns
<1>2. PICK z \in Nat, n \in Nat, m \in Nat :
        /\ z = ZeroBound /\ n = Limbs /\ m = Value /\ Exactly(n, m) /\ n >= 1 /\ m >= 1 /\ z <= n - 1
        /\ LimbOf(m, z) # 0
  BY <1>1, ZeroBoundIs
<1>3. PICK k \in Nat, i \in Nat, l \in Nat, j \in Nat, b \in Nat :
        /\ k = c.k /\ i = LimbIndex /\ l = k % LimbBits /\ j = BitInLimb /\ b = BitValue
        /\ k < LimbBits * (i + 1) /\ l < LimbBits /\ k = LimbBits * i + l
        /\ j = Two[l] /\ b = Two[k] /\ b = Base(i) * j /\ b >= Base(i) /\ b < Base(i + 1) /\ 2 * b <= Base(i + 1)
  BY <1>1, BitPlace
<1>4. CASE i > z
  <2>1. CASE ~HasBit(Value)
    <3>1. UNCHANGED <<heap, var>>
      BY <1>2, <1>3, <1>4, <2>1 DEF SetBitNegative, Same
    <3> QED
      BY <1>1, <3>1, SameContents
  <2>2. CASE HasBit(Value)
    <3>1. PICK x \in Nat, q \in Nat :
            /\ x = Value - BitValue /\ q = Limbs /\ x < Base(q)
            /\ Normalized(q, x) \in 0 .. q /\ Exactly(Normalized(q, x), x)
      BY <1>1, <2>2, ClearsBit
    <3>2. PICK p \in Nat : p = Normalized(q, x) /\ p <= q /\ Exactly(p, x)
      BY <3>1
    <3>3. Becomes(x, q, p)
      <4>1. LimbIndex > ZeroBound /\ LimbIndex # ZeroBound
        BY <1>2, <1>3, <1>4
      <4>2. Becomes(Value - BitValue, Limbs, Normalized(Limbs, Value - BitValue))
        BY <2>2, <4>1 DEF SetBitNegative
      <4> QED
        BY <3>1, <3>2, <4>2
    <3> QED
      BY <1>1, <3>1, <3>2, <3>3, BecomesContents
  <2> QED
    BY <2>1, <2>2
<1>5. CASE i = z
  <2>1. PICK d \in Nat : d = LimbCleared + 1 /\ d >= 1 /\ d <= LimbOf(m, i)
    <3>1. PICK a \in Nat, h \in Nat, v \in Nat, r \in Nat, t \in Nat : SplitAt(m, i, a, h, v, r, t)
      BY LimbParts, Zenon
    <3>2. v = LimbOf(m, i) /\ v < B /\ B \in Nat
      BY <3>1, BaseFacts DEF SplitAt
    <3>3. LimbOf(Value, LimbIndex) # 0 /\ LimbOf(Value, LimbIndex) \in 0 .. B - 1
      BY <1>2, <1>3, <1>5, <3>2
    <3>4. LimbCleared + 1 \in Nat /\ LimbCleared + 1 >= 1 /\ LimbCleared + 1 <= LimbOf(Value, LimbIndex)
      BY <1>1, <3>3, LimbChanges
    <3> QED
      BY <1>2, <1>3, <3>4
  <2>2. i <= n - 1
    BY <1>2, <1>5
  <2>3. PICK x \in Nat : x = WithLimb(m, i, d) /\ Exactly(n, x) /\ x < Base(n) /\ n <= n
    <3>1. WithLimb(m, i, d) \in Nat /\ Exactly(n, WithLimb(m, i, d))
      BY <1>2, <2>1, <2>2, LimbDown
    <3> QED
      BY <3>1 DEF Exactly
  <2>4. Becomes(x, n, n)
    <3>1. Becomes(WithLimb(Value, LimbIndex, LimbCleared + 1), Limbs, Limbs)
      BY <1>2, <1>3, <1>5 DEF SetBitNegative
    <3> QED
      BY <1>2, <1>3, <2>1, <2>3, <3>1
  <2> QED
    BY <1>1, <2>3, <2>4, BecomesContents
<1>6. CASE i < z
  <2>1. m >= Base(z)
    BY <1>2, LimbThere
  <2>2. 2 * b <= Base(z)
    <3>1. i + 1 \in Nat /\ i + 1 <= z
      BY <1>6
    <3>2. Base(i + 1) <= Base(z) /\ Base(i + 1) \in Nat /\ Base(z) \in Nat
      BY <3>1, BaseFacts, Zenon
    <3> QED
      BY <1>3, <3>2
  <2>3. PICK x \in Nat, p \in Nat : x = m - b /\ x < Base(n) /\ p = LessTop(n, x) /\ p <= n /\ Exactly(p, x)
    BY <1>2, <2>1, <2>2, BelowFirst
  <2>4. Becomes(x, n, p)
    BY <1>2, <1>3, <1>6, <2>3 DEF SetBitNegative
  <2> QED
    BY <1>1, <2>3, <2>4, BecomesContents
<1> QED
  BY <1>2, <1>3, <1>4, <1>5, <1>6

LEMMA ClrBitNegativeContents ==
  ASSUME Good, ClrBitNegative
  PROVE  Contents'
<1>1. pc = "enter" /\ c.fn \notin AorsUiFns /\ Finish /\ UNCHANGED calls /\ Size(c.w) < 0
  BY DEF ClrBitNegative, At, AorsUiFns
<1>2. PICK z \in Nat, n \in Nat, m \in Nat :
        /\ z = ZeroBound /\ n = Limbs /\ m = Value /\ Exactly(n, m) /\ n >= 1 /\ m >= 1 /\ z <= n - 1
        /\ LimbOf(m, z) # 0
  BY <1>1, ZeroBoundIs
<1>3. PICK i \in Nat : i = LimbIndex
  BY <1>1, BitPlace
<1>4. CASE i > z
  <2>1. CASE HasBit(Value)
    <3>1. UNCHANGED <<heap, var>>
      BY <1>2, <1>3, <1>4, <2>1 DEF ClrBitNegative, Same
    <3> QED
      BY <1>1, <3>1, SameContents
  <2>2. CASE ~HasBit(Value)
    <3>1. PICK x \in Nat, e \in Nat : x = Value + BitValue /\ e = Enough /\ x < Base(e) /\ Exactly(e, x)
      BY <1>1, <2>2, SetsBit
    <3>2. Becomes(x, e, e) /\ e <= e
      BY <1>2, <1>3, <1>4, <2>2, <3>1 DEF ClrBitNegative
    <3> QED
      BY <1>1, <3>1, <3>2, BecomesContents
  <2> QED
    BY <2>1, <2>2
<1>5. CASE i = z
  <2>1. PICK d \in Nat : d = LimbSet + 1 /\ d >= LimbOf(m, i) /\ d <= B
    <3>1. PICK a \in Nat, h \in Nat, v \in Nat, r \in Nat, t \in Nat : SplitAt(m, i, a, h, v, r, t)
      BY LimbParts, Zenon
    <3>2. v = LimbOf(m, i) /\ v < B /\ B \in Nat
      BY <3>1, BaseFacts DEF SplitAt
    <3>3. LimbOf(Value, LimbIndex) # 0 /\ LimbOf(Value, LimbIndex) \in 0 .. B - 1
      BY <1>2, <1>3, <1>5, <3>2
    <3>4. LimbSet + 1 \in Nat /\ LimbSet + 1 >= LimbOf(Value, LimbIndex) /\ LimbSet + 1 <= B
      BY <1>1, <3>3, LimbChanges
    <3> QED
      BY <1>2, <1>3, <3>4
  <2>2. i <= n - 1
    BY <1>2, <1>5
  <2>3. PICK x \in Nat, p \in Nat : x = WithLimb(m, i, d) /\ p = LessTop(n + 1, x) /\ Exactly(p, x)
    BY <1>2, <2>1, <2>2, LimbUp
  <2>4. Becomes(x, p, p)
    <3>2. LimbIndex = ZeroBound /\ ~(LimbIndex > ZeroBound)
      BY <1>2, <1>3, <1>5
    <3>3. PICK y, q : y = WithLimb(Value, LimbIndex, LimbSet + 1) /\ q = LessTop(Limbs + 1, y)
      OBVIOUS
    <3>1. Becomes(y, q, q)
      BY <3>2, <3>3 DEF ClrBitNegative
    <3> QED
      BY <1>2, <1>3, <2>1, <2>3, <3>1, <3>3
  <2>5. x < Base(p) /\ p <= p
    BY <2>3 DEF Exactly
  <2> QED
    BY <1>1, <2>3, <2>4, <2>5, BecomesContents
<1>6. CASE i < z
  <2>1. UNCHANGED <<heap, var>>
    BY <1>2, <1>3, <1>6 DEF ClrBitNegative, Same
  <2> QED
    BY <1>1, <2>1, SameContents
<1> QED
  BY <1>2, <1>3, <1>4, <1>5, <1>6

\* A bit that is clear in the two's complement of a number is in its magnitude less one,
\* which so is no less than the bit.
LEMMA ClearInComplement ==
  ASSUME NEW l \in Nat, NEW t \in Nat, l < t, NEW v \in Nat, v < Two[t], NEW less \in {0, 1}, v + less >= 1,
         ((Two[t] - v - less) \div Two[l]) % 2 # 1
  PROVE  v >= Two[l]
<1>1. PICK d \in Nat, b \in Nat : d = Two[l] /\ b = Two[t]
  BY TwoFacts
<1>2. SUFFICES ASSUME v < d PROVE FALSE
  BY <1>1
<1>3. PICK x \in Nat : x = b - v - less /\ x < b /\ x >= b - d
  BY <1>1, <1>2
<1>4. x < Two[t] /\ x >= Two[t] - Two[l]
  BY <1>1, <1>3
<1>5. (x \div Two[l]) % 2 = 1
  BY <1>4, HighBits
<1> QED
  BY <1>1, <1>3, <1>5

\* What mpz_combit makes of the limb of a negative number.
ComLimb ==
  LET twos == (B - LimbOf(Value, LimbIndex)) % B
  IN  IF Value % Base(LimbIndex) # 0 THEN (twos + B - 1) % B ELSE twos

\* A bit that mpz_combit clears in a negative number is set in its magnitude.
LEMMA ComClears ==
  ASSUME Good, pc = "enter", c.fn \notin AorsUiFns, Size(c.w) < 0, (ComLimb \div BitInLimb) % 2 # 1
  PROVE  Value >= BitValue
<1>1. PICK s \in Int, n \in Nat, m \in Nat, e \in Nat :
        /\ s = Size(c.w) /\ n = Limbs /\ m = Value /\ Exactly(n, m) /\ (s < 0 => n >= 1 /\ m >= 1)
        /\ e = Enough /\ n <= e /\ LimbIndex + 1 <= e /\ e \in {n, LimbIndex + 1}
  BY BitVariable
<1>2. PICK k \in Nat, i \in Nat, l \in Nat, j \in Nat, b \in Nat :
        /\ k = c.k /\ i = LimbIndex /\ l = k % LimbBits /\ j = BitInLimb /\ b = BitValue
        /\ k < LimbBits * (i + 1) /\ l < LimbBits /\ k = LimbBits * i + l
        /\ j = Two[l] /\ b = Two[k] /\ b = Base(i) * j /\ b >= Base(i) /\ b < Base(i + 1) /\ 2 * b <= Base(i + 1)
  BY BitPlace
<1>3. PICK t \in Nat, d \in Nat : t = LimbBits /\ d = B /\ d = Two[t] /\ d >= 2
  BY BaseFacts, Zenon
<1>4. PICK a \in Nat, h \in Nat, v \in Nat, r \in Nat, u \in Nat : SplitAt(m, i, a, h, v, r, u)
  BY LimbParts, Zenon
<1>5. /\ a = Base(i) /\ v = LimbOf(m, i) /\ v < d /\ r = m % a /\ u = Base(i + 1)
      /\ m = u * h + (a * v + r)
  BY <1>3, <1>4 DEF SplitAt
<1>6. b = a * j
  BY <1>2, <1>5
<1>7. ASSUME v >= j PROVE m >= b
  <2>1. a * v >= a * j
    BY <1>7
  <2>2. u * h >= 0
    OBVIOUS
  <2>3. PICK f \in Nat, g \in Nat, o \in Nat : f = a * v /\ g = a * j /\ o = u * h
    OBVIOUS
  <2> QED
    BY <1>5, <1>6, <2>1, <2>3
<1>8. m >= 1
  BY <1>1
<1>9. PICK w \in Nat : w = (d - v) % d /\ w = IF v = 0 THEN 0 ELSE d - v
  <2>1. CASE v = 0
    <3>1. d \in Int /\ d >= 1
      BY <1>3
    <3>2. d = d * 1 + 0 /\ 0 \in 0 .. d - 1 /\ 1 \in Int
      BY <1>3
    <3>3. d % d = 0
      BY <3>1, <3>2, DivisionUnique
    <3> QED
      BY <2>1, <3>3
  <2>2. CASE v # 0
    <3>1. d - v \in Int /\ d - v >= 0 /\ d - v < d /\ d >= 1
      BY <1>3, <1>5, <2>2
    <3>2. (d - v) % d = d - v
      BY <3>1, Division
    <3> QED
      BY <2>2, <3>1, <3>2
  <2> QED
    BY <2>1, <2>2
<1>10. CASE r # 0
  <2>1. (w + d - 1) % d = d - v - 1
    <3>1. CASE v = 0
      <4>1. d - 1 \in Int /\ d - 1 >= 0 /\ d - 1 < d /\ d >= 1
        BY <1>3
      <4>2. (d - 1) % d = d - 1
        BY <4>1, Division
      <4>3. w + d - 1 = d - 1 /\ d - v - 1 = d - 1
        BY <1>9, <3>1
      <4> QED
        BY <4>2, <4>3
    <3>2. CASE v # 0
      <4>7. w = d - v
        BY <1>9, <3>2
      <4>8. v >= 1 /\ v < d
        BY <1>5, <3>2
      <4>4. w = d - v /\ v >= 1 /\ v < d
        BY <4>7, <4>8
      <4>5. PICK y \in Nat : y = d - v - 1 /\ y < d
        BY <4>4
      <4>6. PICK x \in Nat : x = w + d - 1 /\ x = d + y
        BY <4>4, <4>5
      <4>1. x = w + d - 1 /\ y = d - v - 1 /\ x = d * 1 + y /\ y \in 0 .. d - 1
        BY <4>5, <4>6
      <4>2. x \in Int /\ 1 \in Int /\ d >= 1
        BY <1>3, <4>1
      <4>3. x % d = y
        BY <4>1, <4>2, DivisionUnique
      <4> QED
        BY <4>1, <4>3
    <3> QED
      BY <3>1, <3>2
  <2>2. ComLimb = d - v - 1
    BY <1>1, <1>2, <1>3, <1>5, <1>9, <1>10, <2>1, Zenon DEF ComLimb
  <2>3. ((Two[t] - v - 1) \div Two[l]) % 2 # 1
    BY <1>2, <1>3, <2>2
  <2>4. v >= Two[l]
    BY <1>2, <1>3, <1>5, <2>3, ClearInComplement
  <2> QED
    BY <1>1, <1>2, <1>7, <2>4
<1>11. CASE r = 0
  <2>1. ComLimb = w
    BY <1>1, <1>2, <1>3, <1>5, <1>9, <1>11, Zenon DEF ComLimb
  <2>2. CASE v = 0
    <3>1. h >= 1
      BY <1>5, <1>8, <1>11, <2>2
    <3>2. u * h >= u
      <4>1. u \in Nat /\ h \in Nat /\ h >= 1
        BY <3>1
      <4> QED
        BY <4>1, ProductGrows
    <3>3. PICK o \in Nat : o = u * h
      OBVIOUS
    <3>4. m = o
      BY <1>5, <1>11, <2>2, <3>3
    <3> QED
      BY <1>1, <1>2, <1>5, <3>2, <3>3, <3>4
  <2>3. CASE v # 0
    <3>1. ComLimb = d - v - 0
      BY <1>9, <2>1, <2>3
    <3>2. ((Two[t] - v - 0) \div Two[l]) % 2 # 1
      BY <1>2, <1>3, <3>1
    <3>3. v >= 1
      BY <2>3
    <3>4. v >= Two[l]
      BY <1>2, <1>3, <1>5, <3>2, <3>3, ClearInComplement
    <3> QED
      BY <1>1, <1>2, <1>7, <3>4
  <2> QED
    BY <2>2, <2>3
<1> QED
  BY <1>10, <1>11

LEMMA ComBitContents ==
  ASSUME Good, ComBit
  PROVE  Contents'
<1>1. pc = "enter" /\ c.fn \notin AorsUiFns /\ Finish /\ UNCHANGED calls
  BY DEF ComBit, At, AorsUiFns
<1>2. PICK s \in Int, n \in Nat, m \in Nat, e \in Nat :
        /\ s = Size(c.w) /\ n = Limbs /\ m = Value /\ Exactly(n, m) /\ (s < 0 => n >= 1 /\ m >= 1)
        /\ e = Enough /\ n <= e /\ LimbIndex + 1 <= e /\ e \in {n, LimbIndex + 1}
  BY <1>1, BitVariable
<1>3. ASSUME NEW x \in Nat, NEW q \in Nat, x < Base(q), Becomes(x, q, Normalized(q, x))
      PROVE  Contents'
  <2>1. PICK p \in Nat : p = Normalized(q, x) /\ p <= q /\ Exactly(p, x)
    BY <1>3, NormalizedExactly
  <2>2. Becomes(x, q, p)
    BY <1>3, <2>1
  <2> QED
    BY <1>1, <1>3, <2>1, <2>2, BecomesContents
<1>4. CASE Size(c.w) >= 0 /\ HasBit(Value)
  <2>1. PICK x \in Nat : x = Value - BitValue /\ x < Base(Enough)
    BY <1>1, <1>4, ClearsBit
  <2>2. Becomes(x, Enough, Normalized(Enough, x))
    BY <1>4, <2>1 DEF ComBit
  <2> QED
    BY <1>2, <1>3, <2>1, <2>2
<1>5. CASE Size(c.w) >= 0 /\ ~HasBit(Value)
  <2>1. PICK x \in Nat, q \in Nat : x = Value + BitValue /\ q = Enough /\ x < Base(q)
    BY <1>1, <1>5, SetsBit
  <2>2. Becomes(x, Enough, Normalized(Enough, x))
    BY <1>5, <2>1 DEF ComBit
  <2> QED
    BY <1>2, <1>3, <2>1, <2>2
<1>6. CASE ~(Size(c.w) >= 0) /\ (ComLimb \div BitInLimb) % 2 = 1
  <2>1. PICK k \in Nat, i \in Nat, l \in Nat, j \in Nat, b \in Nat :
          /\ k = c.k /\ i = LimbIndex /\ l = k % LimbBits /\ j = BitInLimb /\ b = BitValue
          /\ k < LimbBits * (i + 1) /\ l < LimbBits /\ k = LimbBits * i + l
          /\ j = Two[l] /\ b = Two[k] /\ b = Base(i) * j /\ b >= Base(i) /\ b < Base(i + 1) /\ 2 * b <= Base(i + 1)
    BY <1>1, BitPlace
  <2>2. PICK x \in Nat : x = m + b
    OBVIOUS
  <2>3. PICK f \in Nat, q \in Nat, g \in Nat : f = Base(e) /\ q = e + 1 /\ g = Base(q) /\ g >= 2 * f
    <3>1. PICK f \in Nat : f = Base(e)
      BY BaseFacts
    <3>2. PICK q \in Nat : q = e + 1
      OBVIOUS
    <3>3. PICK g \in Nat : g = Base(q)
      BY BaseFacts
    <3>4. g = B * f /\ B \in Nat /\ B >= 2
      BY <3>1, <3>2, <3>3, BaseFacts, Zenon
    <3>5. B * f >= 2 * f
      BY <3>4
    <3> QED
      BY <3>1, <3>2, <3>3, <3>4, <3>5
  <2>4. m < f
    <3>1. m < Base(n)
      BY <1>2 DEF Exactly
    <3>2. Base(n) <= Base(e) /\ Base(n) \in Nat
      BY <1>2, BaseFacts
    <3> QED
      BY <2>3, <3>1, <3>2
  <2>5. b < f
    <3>1. i + 1 \in Nat /\ i + 1 <= e
      BY <1>2, <2>1
    <3>2. Base(i + 1) <= Base(e) /\ Base(i + 1) \in Nat
      BY <3>1, BaseFacts, Zenon
    <3> QED
      BY <2>1, <2>3, <3>2
  <2>6. x < Base(q)
    BY <2>2, <2>3, <2>4, <2>5
  <2>7. Becomes(Value + BitValue, Enough + 1, Normalized(Enough + 1, Value + BitValue))
    BY <1>6 DEF ComBit, ComLimb
  <2>8. Becomes(x, q, Normalized(q, x))
    BY <1>2, <2>1, <2>2, <2>3, <2>7
  <2> QED
    BY <1>3, <2>6, <2>8
<1>7. CASE ~(Size(c.w) >= 0) /\ (ComLimb \div BitInLimb) % 2 # 1
  <2>1. Size(c.w) < 0
    BY <1>2, <1>7
  <2>2. Value >= BitValue
    BY <1>1, <1>7, <2>1, ComClears
  <2>3. PICK x \in Nat : x = Value - BitValue /\ x < Base(Enough)
    BY <1>1, <2>2, ClearsBit
  <2>4. Becomes(Value - BitValue, Enough, Normalized(Enough, Value - BitValue))
    BY <1>7 DEF ComBit, ComLimb
  <2> QED
    BY <1>2, <1>3, <2>3, <2>4
<1> QED
  BY <1>4, <1>5, <1>6, <1>7

-----------------------------------------------------------------------------
(* All steps keep what the blocks hold.                                     *)

\* Every step of MpzHeap.
LEMMA HeapStepsContents == ASSUME Good, HeapStep PROVE Contents'
<1>1. CASE TdivCopy
  <2>1. PICK fns : fns = {"tdiv_qr"}
    BY Zenon
  <2> QED
    BY <1>1, <2>1, CopyOperandsContents DEF TdivCopy
<1>2. CASE Invoke \/ Return \/ DivAdjust \/ DivTruncate \/ TdivByZero \/ DivDone
  BY <1>2, InvokeContents, ReturnContents, DivAdjustContents, DivTruncateContents, RaisedContents,
     NothingDoneContents
<1>3. CASE \/ AorsGrow \/ AorsAdd \/ AorsSub \/ UiGrow \/ UiCompute
           \/ MulZero \/ MulGrow \/ MulFresh \/ MulCopy \/ MulCompute
  BY <1>3, AorsGrowContents, AorsAddContents, AorsSubContents, UiGrowContents, UiComputeContents, ZeroedContents,
     MulGrowContents, MulFreshContents, MulCopyContents, MulComputeContents
<1>4. CASE \/ TdivGrowRem \/ TdivSmall \/ TdivGrowQuot \/ TdivCompute
           \/ NegInPlace \/ SetGrow \/ SetCopy \/ Swap \/ SetUi \/ Realloc
  BY <1>4, DivisionGrowContents, TdivSmallContents, TdivGrowQuotContents, TdivComputeContents, NegInPlaceContents,
     SetGrowContents, SetCopyContents, SwapContents, SetUiContents, ReallocContents
<1> QED
  BY <1>1, <1>2, <1>3, <1>4 DEF HeapStep

\* Every step of MpzDivide.
LEMMA DivideStepsContents == ASSUME Good, DivideStep PROVE Contents'
<1>1. CASE TdivQCopy \/ TdivRCopy
  <2>1. \E fns : fns \subseteq {"tdiv_qr", "tdiv_q", "tdiv_r"} /\ CopyOperands(fns)
    <3>1. CASE TdivQCopy
      <4>1. PICK fns : fns = {"tdiv_q"}
        BY Zenon
      <4> QED
        BY <3>1, <4>1 DEF TdivQCopy
    <3>2. CASE TdivRCopy
      <4>1. PICK fns : fns = {"tdiv_r"}
        BY Zenon
      <4> QED
        BY <3>2, <4>1 DEF TdivRCopy
    <3> QED
      BY <1>1, <3>1, <3>2
  <2> QED
    BY <2>1, CopyOperandsContents, Zenon
<1>2. CASE DivideByZero \/ TdivQSmall \/ TdivQGrow \/ TdivQCompute \/ TdivRGrow \/ TdivRSmall \/ TdivRCompute
  BY <1>2, RaisedContents, ZeroedContents, DivisionGrowContents, TdivQComputeContents,
     TdivRSmallContents, TdivRComputeContents
<1>3. CASE FdivQ \/ CdivQ \/ CorrectQ \/ FdivR \/ CdivR \/ Mod \/ CorrectR \/ UiOfZero \/ UiDivGrow
  <2>1. CASE FdivQ \/ CdivQ
    <3>1. \E fn \in {"fdiv_q", "cdiv_q"}, correct \in {"floor_q", "ceiling_q"} : RoundQ(fn, correct)
      BY <2>1 DEF FdivQ, CdivQ
    <3> QED
      BY <3>1, RoundQContents
  <2>2. CASE FdivR \/ CdivR \/ Mod
    <3>1. \E fn \in {"fdiv_r", "cdiv_r", "mod"}, correct \in {"floor_r", "ceiling_r", "least_r"} : RoundR(fn, correct)
      BY <2>2 DEF FdivR, CdivR, Mod
    <3> QED
      BY <3>1, RoundRContents
  <2> QED
    BY <1>3, <2>1, <2>2, CorrectQContents, CorrectRContents, UiOfZeroContents, UiDivGrowContents
<1>4. CASE \/ TdivQUi \/ TdivRUi \/ TdivQrUi \/ TdivUi
           \/ FdivQUi \/ FdivRUi \/ FdivQrUi \/ FdivUi
           \/ CdivQUi \/ CdivRUi \/ CdivQrUi \/ CdivUi
  <2>1. PICK s \in {-1, 1} : s = SignOf(loc.us)
    BY DEF SignOf
  <2>2. /\ \A fn \in {"tdiv_q_ui", "tdiv_r_ui", "tdiv_qr_ui", "tdiv_ui"} : fn \in Calculator!DivUiFns
        /\ \A fn \in {"fdiv_q_ui", "fdiv_r_ui", "fdiv_qr_ui", "fdiv_ui"} : fn \in Calculator!DivUiFns
        /\ \A fn \in {"cdiv_q_ui", "cdiv_r_ui", "cdiv_qr_ui", "cdiv_ui"} : fn \in Calculator!DivUiFns
    BY DEF Calculator!DivUiFns, Calculator!QuotUiFns, Calculator!RemUiFns,
           Calculator!QuotRemUiFns, Calculator!OnlyUiFns
  <2>3. CASE TdivQUi \/ TdivRUi \/ TdivQrUi \/ TdivUi
    <3>1. \E fn \in {"tdiv_q_ui", "tdiv_r_ui", "tdiv_qr_ui", "tdiv_ui"} : UiDiv(fn, FALSE, s)
      BY <2>1, <2>3, Zenon DEF TdivQUi, TdivRUi, TdivQrUi, TdivUi
    <3> QED
      BY <2>2, <3>1, UiDivContents, Zenon
  <2>4. CASE FdivQUi \/ FdivRUi \/ FdivQrUi \/ FdivUi
    <3>0. (loc.us < 0) \in BOOLEAN
      OBVIOUS
    <3>1. PICK away \in BOOLEAN : away = (loc.us < 0)
      BY <3>0, Zenon
    <3>2. \E fn \in {"fdiv_q_ui", "fdiv_r_ui", "fdiv_qr_ui", "fdiv_ui"} : UiDiv(fn, away, 1)
      BY <2>4, <3>1 DEF FdivQUi, FdivRUi, FdivQrUi, FdivUi
    <3>3. PICK fn \in Calculator!DivUiFns : UiDiv(fn, away, 1)
      BY <2>2, <3>2
    <3> QED
      BY <3>1, <3>3, UiDivContents, Zenon
  <2>5. CASE CdivQUi \/ CdivRUi \/ CdivQrUi \/ CdivUi
    <3>0. (loc.us >= 0) \in BOOLEAN
      OBVIOUS
    <3>1. PICK away \in BOOLEAN : away = (loc.us >= 0)
      BY <3>0, Zenon
    <3>2. \E fn \in {"cdiv_q_ui", "cdiv_r_ui", "cdiv_qr_ui", "cdiv_ui"} : UiDiv(fn, away, -1)
      BY <2>5, <3>1 DEF CdivQUi, CdivRUi, CdivQrUi, CdivUi
    <3>3. PICK fn \in Calculator!DivUiFns : UiDiv(fn, away, -1)
      BY <2>2, <3>2
    <3> QED
      BY <3>1, <3>3, UiDivContents, Zenon
  <2> QED
    BY <1>4, <2>3, <2>4, <2>5
<1> QED
  BY <1>1, <1>2, <1>3, <1>4 DEF DivideStep

\* Every step of MpzShift.
LEMMA ShiftStepsContents == ASSUME Good, ShiftStep PROVE Contents'
BY ZeroedContents, NothingDoneContents, Mul2expGrowContents, Mul2expContents, TdivQ2expGrowContents,
   TdivQ2expContents, TdivR2expGrowContents, TdivR2expContents, CfdivQ2expSmallContents, CfdivQ2expGrowContents,
   CfdivQ2expContents, CfdivR2expGrowContents, CfdivR2expContents, ReallocContents
   DEF ShiftStep

\* Every step of MpzBitwise.
LEMMA BitStepsContents == ASSUME Good, BitStep PROVE Contents'
BY BitCopyContents, BitGrowContents, BitComputeContents, ComGrowContents, ComContents, SetBitPositiveContents,
   SetBitNegativeContents, ClrBitPositiveContents, ClrBitNegativeContents, ComBitContents
   DEF BitStep

\* Every step of MpzMulAdd.
LEMMA MulAddStepsContents == ASSUME Good, MulAddStep PROVE Contents'
BY NothingDoneContents, AorsmulLimbContents, AorsmulGrowContents, AorsmulContents, Aorsmul1GrowContents,
   Aorsmul1Contents, ZeroedContents, MulUiGrowContents, MulUiContents, UiSubGrowContents, UiSubContents,
   AbsGrowContents, AbsCopyContents, SetUiContents
   DEF MulAddStep

\* Every block is as long as its variable says and holds a number of as many limbs, every
\* number fits in its block, and what a function noted of its operands is still so.
THEOREM GoodHolds == Spec => []Good
<1>1. Init => Good
  BY InitIInv, InitBounds, InitContents DEF Good
<1>2. IInv /\ [Next]_vars => IInv'
  BY HeapSteps, DivideSteps, ShiftSteps, BitSteps, MulAddSteps, StutterStep DEF Next
<1>3. Good /\ [Next]_vars => Bounds' /\ Contents'
  <2> SUFFICES ASSUME Good, [Next]_vars PROVE Bounds' /\ Contents'
    OBVIOUS
  <2>1. IInv /\ Bounds /\ IorFits
    BY IorFitsHolds DEF Good
  <2>2. Bounds'
    BY <2>1, HeapStepsBounds, DivideStepsBounds, ShiftStepsBounds, BitStepsBounds, MulAddStepsBounds,
       StutterBounds DEF Next
  <2>3. Contents'
    BY HeapStepsContents, DivideStepsContents, ShiftStepsContents, BitStepsContents, MulAddStepsContents,
       StutterContents DEF Next
  <2> QED
    BY <2>2, <2>3
<1>4. Good /\ [Next]_vars => Good'
  BY <1>2, <1>3 DEF Good
<1> QED
  BY <1>1, <1>4, PTL DEF Spec

-----------------------------------------------------------------------------
(* What that implies.                                                       *)

\* The addition that ends mpz_ior never carries into one limb more.
THEOREM IorFitsAlways == Spec => []IorFits
BY GoodHolds, IorFitsHolds, PTL

\* Every block is as long as its variable says, every number fits in its block, and the
\* locals a function noted are still what it noted.
THEOREM BoundsHold == Spec => []Bounds
<1>1. Good => Bounds
  BY DEF Good
<1> QED
  BY GoodHolds, <1>1, PTL

\* When an mpn function is called its operands and results are blocks that are still
\* there, and none of them is shorter than what is read from it or written to it.
THEOREM PointersLiveHolds == Spec => []PointersLive
<1>1. Good => PointersLive
  BY DEF Good, Bounds
<1> QED
  BY GoodHolds, <1>1, PTL

\* Blocks hold no more than they can, and the variables have the types of their fields.
LEMMA TypesHold == ASSUME Good PROVE TypeOK
<1>1. DOMAIN heap \subseteq Block \cup Copy
  <2>1. ASSUME NEW p \in DOMAIN heap, p \notin Held PROVE p \in Block \cup Copy
    BY <2>1 DEF Good, IInv, Ownership, Freed, Copy
  <2>2. \A p \in Held : p \in Block
    BY DEF Good, IInv, Typing, Held
  <2> QED
    BY <2>1, <2>2
<1>2. ASSUME NEW p \in DOMAIN heap
      PROVE  /\ heap[p] \in [len : Nat, known : Nat, num : Nat]
             /\ heap[p].known <= heap[p].len /\ heap[p].num < Base(heap[p].known)
  BY DEF Good, Contents, BlocksOK, BlockOK
<1>3. ASSUME NEW x \in Var PROVE var[x] \in [alloc : Nat, size : Int, d : Block]
  <2>1. var[x] \in Fields /\ var[x].d \in Block
    BY DEF Good, IInv, Typing
  <2> QED
    BY <2>1 DEF Fields
<1>4. var[Temp] = NoVar \/ var[Temp] \in [alloc : Nat, size : Int, d : {CopyD}]
  <2>1. var[Temp] \in Fields
    BY DEF Good, IInv, Typing
  <2>2. var[Temp].d = CopyD \/ var[Temp] = NoVar
    BY DEF Good, Contents, NumbersOK
  <2> QED
    BY <2>1, <2>2 DEF Fields
<1>5. /\ pc \in {"idle", "enter", "quot", "room", "copy", "compute", "done", "raised"}
      /\ pc \in {"idle", "done"} <=> todo = <<>>
  BY DEF Good, IInv, Control
<1>6. ret \in 0 .. B - 1 /\ calls \in 0 .. MaxCalls
  BY DEF Good, Contents, CountsOK
<1> QED
  BY <1>1, <1>2, <1>3, <1>4, <1>5, <1>6 DEF TypeOK

\* A number that has that many limbs loses none of them.
LEMMA ExactlyNormalized ==
  ASSUME NEW n \in Nat, NEW x \in Nat, Exactly(n, x)
  PROVE  Normalized(n, x) = n
<1>1. x < Base(n)
  BY DEF Exactly
<1>2. PICK k \in 0 .. n : k = Normalized(n, x) /\ Exactly(k, x)
  BY <1>1, NormalizedExactly
<1>3. x < Base(k) /\ k \in Nat
  BY <1>2 DEF Exactly
<1>4. n <= k
  BY <1>3, ExactlyAtMost
<1> QED
  BY <1>2, <1>4

\* Between calls, every variable has a number that uses no more limbs than it must.
LEMMA VariablesAreNumbers ==
  ASSUME Good, pc \in {"idle", "done", "raised"}, NEW x \in Var
  PROVE  LET m == Read(var[x].d, Abs(var[x].size))
         IN  /\ var[x].alloc >= 1 /\ heap[var[x].d].len = var[x].alloc
             /\ m # Junk /\ Normalized(Abs(var[x].size), m) = Abs(var[x].size)
<1>1. ~Renewed(x)
  BY DEF Renewed
<1>2. x \in Usable
  BY HeapAssumption DEF Usable
<1>3. PICK s \in Int, n \in Nat, m \in Nat :
        s = var[x].size /\ n = Abs(s) /\ m = Read(var[x].d, n) /\ Exactly(n, m)
  BY <1>1, <1>2, VariableReads
<1>4. Normalized(n, m) = n /\ m # Junk
  BY ExactlyNormalized, <1>3, NotJunk
<1>5. var[x].alloc >= 1 /\ heap[var[x].d].len = var[x].alloc
  BY DEF Good, Bounds, Sizes, InBlock
<1> QED
  BY <1>3, <1>4, <1>5

\* A remainder by a power of two has no more limbs than the number divided.
LEMMA RemainderAtMost ==
  ASSUME NEW n \in Nat, NEW u \in Nat, LimbCnt \in Nat
  PROVE  RemainderLimbs(n, u) \in 0 .. n
<1>1. CASE n <= LimbCnt
  BY <1>1 DEF RemainderLimbs
<1>2. CASE LimbCnt < n /\ Partial(u) # 0
  <2>1. RemainderLimbs(n, u) = LimbCnt + 1
    BY <1>2 DEF RemainderLimbs
  <2> QED
    BY <1>2, <2>1
<1>3. CASE LimbCnt < n /\ ~(Partial(u) # 0)
  <2>1. RemainderLimbs(n, u) = Normalized(LimbCnt, Low(u, LimbCnt))
    BY <1>3 DEF RemainderLimbs
  <2>2. PICK l \in Nat : l = LimbCnt
    OBVIOUS
  <2>3. PICK y \in Nat : y = u % Base(l) /\ y < Base(l)
    BY LowLimbs, Zenon
  <2>4. Low(u, l) = y
    BY <2>3, FromNumbers DEF Low
  <2>5. Normalized(l, y) \in 0 .. l
    BY <2>3, NormalizedExactly
  <2> QED
    BY <1>3, <2>1, <2>2, <2>4, <2>5
<1> QED
  BY <1>1, <1>2, <1>3

\* An operand that was noted is there when the mpn function is called.
LEMMA OperandsAreThere ==
  ASSUME Good, Entered, pc = "compute"
  PROVE  /\ Read(loc.up, Abs(loc.us)) # Junk
         /\ loc.vs # 0 => Read(loc.vp, Abs(loc.vs)) # Junk
<1>1. CASE c.fn \in {"tdiv_qr", "tdiv_q", "tdiv_r"}
  BY <1>1, DivisionOperands, NotJunk
<1>2. CASE c.fn \in {"add", "sub"}
  BY <1>2, SumOperands, NotJunk
<1>3. CASE c.fn \in AorsFns
  BY <1>3, AorsmulOperands, NotJunk
<1>4. CASE c.fn \in BitFn
  <2>1. UValue \in Nat /\ VValue \in Nat
    BY <1>4, BitNumbers DEF BitOf
  <2> QED
    BY <2>1, NotJunk DEF UValue, VValue, Na, Nb
<1>5. CASE c.fn = "mul"
  <2>1. BlocksOK /\ NumberAt(loc.up, loc.us) /\ NumberAt(loc.vp, loc.vs)
    BY <1>5 DEF Good, Contents, LocalsOK, ProductNoted
  <2>2. loc.us \in Int /\ loc.vs \in Int
    BY Running DEF Good
  <2> QED
    BY <2>1, <2>2, WholeReads
<1>6. CASE c.fn \in Calculator!OneOperand
  <2>1. PICK s \in Int, n \in Nat, m \in Nat :
          /\ s = loc.us /\ n = Abs(loc.us) /\ n = Abs(s) /\ m = Read(loc.up, n) /\ Exactly(n, m)
          /\ s = Size(c.u) /\ loc.up = var[c.u].d
    BY <1>6, OperandReads
  <2>2. Read(loc.up, Abs(loc.us)) # Junk
    BY <2>1, NotJunk
  <2>3. ASSUME c.fn = "tdiv_r_2exp", loc.vp = loc.up PROVE Read(loc.vp, Abs(loc.vs)) # Junk
    <3>1. PICK l \in Nat : l = LimbCnt
      BY <2>3, PowerParts, Destination
    <3>2. loc.vs = RemainderLimbs(n, m)
      BY <2>1, <2>3 DEF Good, Contents, LocalsOK, OneNoted
    <3>3. PICK t \in 0 .. n : t = loc.vs /\ t = Abs(loc.vs)
      BY <3>1, <3>2, RemainderAtMost DEF Abs
    <3>4. NumberAt(loc.up, s) /\ BlocksOK
      <4>1. c.u \in Usable /\ ~Renewed(c.u)
        BY <2>3, UsableArguments DEF Good, Renewed
      <4> QED
        BY <2>1, <4>1, HasNumber DEF Good, Contents
    <3>5. PICK x \in Nat : \A i \in 0 .. Abs(s) : Read(loc.up, i) = x % Base(i)
      BY <3>4, WholeReads
    <3>6. Read(loc.up, t) = x % Base(t) /\ t \in Nat
      BY <2>1, <3>3, <3>5
    <3> QED
      BY <2>3, <3>3, <3>6, LowLimbs, NotJunk
  <2>4. loc.vs = 0 \/ (c.fn = "tdiv_r_2exp" /\ loc.vp = loc.up)
    <3>1. /\ c.fn \notin {"tdiv_qr", "tdiv_q", "tdiv_r", "add", "sub", "mul"} \cup AorsFns \cup BitFn
      BY <1>6 DEF AorsFns, BitFn, Calculator!OneOperand, Calculator!UnaryFns, Calculator!UiFns, Calculator!ShiftFns,
         Calculator!DivUiFns, Calculator!QuotUiFns, Calculator!RemUiFns, Calculator!QuotRemUiFns, Calculator!OnlyUiFns
    <3> QED
      BY <3>1 DEF Entered
  <2> QED
    BY <2>2, <2>3, <2>4
<1> QED
  BY <1>1, <1>2, <1>3, <1>4, <1>5, <1>6 DEF Entered

\* Outside the functions each variable has a number that uses no more limbs than it
\* must, in a block of the length it tells the allocation function; when an mpn function
\* is called its operands are all there; and the result of mpz_ior fits.
THEOREM WellFormedHolds == Spec => []WellFormed
<1>1. Good /\ Entered => WellFormed
  <2> SUFFICES ASSUME Good, Entered PROVE WellFormed
    OBVIOUS
  <2>1. TypeOK /\ IorFits
    BY TypesHold, IorFitsHolds
  <2>2. ASSUME pc \in {"idle", "done", "raised"}, NEW x \in Var
        PROVE  LET m == Read(var[x].d, Abs(var[x].size))
               IN  /\ var[x].alloc >= 1 /\ heap[var[x].d].len = var[x].alloc
                   /\ m # Junk /\ Normalized(Abs(var[x].size), m) = Abs(var[x].size)
    BY <2>2, VariablesAreNumbers
  <2>3. ASSUME pc = "compute"
        PROVE  /\ Read(loc.up, Abs(loc.us)) # Junk
               /\ loc.vs # 0 => Read(loc.vp, Abs(loc.vs)) # Junk
    BY <2>3, OperandsAreThere
  <2> QED
    BY <2>1, <2>2, <2>3, Zenon DEF WellFormed
<1> QED
  BY GoodHolds, EnteredHolds, <1>1, PTL

=============================================================================
