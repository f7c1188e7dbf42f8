----------------------------- MODULE MpzProofs -----------------------------
(***************************************************************************)
(* Proofs about the mpz functions of MCMpz, for any variables, numbers and *)
(* sizes: who owns which block, and that each block is long enough.        *)
(***************************************************************************)
EXTENDS MCMpz, TLAPS, FiniteSetTheorems, WellFoundedInduction

-----------------------------------------------------------------------------
(* Lengths and sizes are numbers.                                          *)

\* Sizes without their signs are natural numbers, and zero only of zero.
LEMMA Small ==
  ASSUME NEW x \in Int, NEW y \in Int
  PROVE  /\ Abs(x) \in Nat /\ (Abs(x) = 0 <=> x = 0) /\ (x >= 0 => Abs(x) = x)
         /\ MaxOf(x, y) \in Int /\ MaxOf(x, y) >= x /\ MaxOf(x, y) >= y
         /\ MaxOf(x, y) \in {x, y}
BY DEF Abs, MaxOf

\* A number with its sign is an integer.
LEMMA SignedType ==
  ASSUME NEW negative, NEW x \in Int
  PROVE  Signed(negative, x) \in Int /\ Abs(Signed(negative, x)) = Abs(x)
<1>1. CASE Signed(negative, x) = x
  BY <1>1
<1>2. CASE Signed(negative, x) = -x
  BY <1>2 DEF Abs
<1> QED
  BY <1>1, <1>2 DEF Signed

\* One limb is taken off, or none.
LEMMA LessTopType ==
  ASSUME NEW n \in Int, NEW x
  PROVE  LessTop(n, x) \in {n - 1, n} /\ LessTop(n, x) \in Int
BY DEF LessTop

\* A set of natural numbers that is not empty has a least element.
LEMMA LeastElement ==
  ASSUME NEW T, T \subseteq Nat, T # {}
  PROVE  \E x \in T : \A y \in T : x <= y
<1> DEFINE R == OpToRel(<, Nat)
<1>1. IsWellFoundedOn(R, Nat)
  BY NatLessThanWellFounded, Zenon
<1>2. \A x, y \in Nat : y < x => <<y, x>> \in R
  BY DEF R, OpToRel
<1> HIDE DEF R
<1>3. PICK x \in T : \A y \in T : ~ (<<y, x>> \in R)
  BY <1>1, WFMin, Zenon
<1>4. ASSUME NEW y \in T PROVE x <= y
  <2>1. x \in Nat /\ y \in Nat /\ ~(y < x)
    BY <1>2, <1>3, Zenon
  <2> QED
    BY <2>1
<1> QED
  BY <1>4

\* Normalizing n limbs leaves at most n.
LEMMA NormalizedType ==
  ASSUME NEW n \in Nat, NEW x
  PROVE  Normalized(n, x) \in 0 .. n
<1> DEFINE Fits(k) == k = n \/ x < Base(k)
           T == {k \in 0 .. n : Fits(k)}
           Exact(k) == (k = n \/ x < Base(k)) /\ (k = 0 \/ ~ (x < Base(k - 1)))
<1>1. CASE x = Junk
  BY <1>1 DEF Normalized
<1>2. CASE x # Junk
  <2>1. n \in T /\ T \subseteq Nat
    OBVIOUS
  <2> HIDE DEF T
  <2>2. PICK k \in T : \A j \in T : k <= j
    BY <2>1, LeastElement, Zenon
  <2>3. k \in 0 .. n /\ Fits(k)
    BY DEF T
  <2>4. k = 0 \/ ~ (x < Base(k - 1))
    <3> SUFFICES ASSUME k # 0, x < Base(k - 1) PROVE FALSE
      OBVIOUS
    <3>1. k - 1 \in 0 .. n
      BY <2>3
    <3>2. k - 1 \in T
      BY <3>1 DEF T
    <3> QED
      BY <2>2, <2>3, <3>2
  <2>5. \E j \in 0 .. n : Exact(j)
    BY <2>3, <2>4
  <2>6. Normalized(n, x) = CHOOSE j \in 0 .. n : Exact(j)
    BY <1>2 DEF Normalized
  <2> HIDE DEF Exact
  <2>7. (CHOOSE j \in 0 .. n : Exact(j)) \in 0 .. n
    BY <2>5
  <2> QED
    BY <2>6, <2>7
<1> QED
  BY <1>1, <1>2

\* What is known of the type of a variable's size.
LEMMA SizeType ==
  ASSUME Typing, NEW x \in Var \cup {Temp}
  PROVE  /\ Size(x) \in Int /\ Abs(Size(x)) \in Nat /\ var[x].alloc \in Nat
         /\ var[x].d \in Pointer /\ var[x] \in Fields
         /\ var[x].size = Size(x)
<1>1. var[x] \in Fields
  BY DEF Typing
<1> QED
  BY <1>1, Small, Zenon DEF Fields, Size

-----------------------------------------------------------------------------
(* The calls to make.                                                      *)

\* Tasks of any kind k are tasks of the kinds of k that occur.
LEMMA Retype ==
  ASSUME NEW K, NEW s \in Seq(Task(K))
  PROVE  Tasked(s)
<1> DEFINE L == {s[i].k : i \in 1 .. Len(s)}
<1>1. ASSUME NEW i \in 1 .. Len(s) PROVE s[i] \in Task(L)
  <2>1. s[i] \in Task(K)
    OBVIOUS
  <2>2. s[i].k \in L
    OBVIOUS
  <2> HIDE DEF L
  <2> QED
    BY <2>1, <2>2 DEF Task
<1>2. PICK M : M = Task(L)
  BY Zenon
<1> HIDE DEF L
<1>3. s \in [1 .. Len(s) -> M] /\ Len(s) \in Nat
  BY <1>1, <1>2
<1>4. s \in Seq(M)
  BY <1>3
<1> QED
  BY <1>2, <1>4 DEF L, Tasked

\* The running function's arguments.
LEMMA Arguments ==
  ASSUME IInv, todo # <<>>
  PROVE  /\ c \in Task({c.k}) /\ c = todo[1] /\ 1 \in 1 .. Len(todo)
         /\ c.w \in Var /\ c.u \in Var /\ c.r \in Var \cup {Temp} /\ c.v \in Var \cup {Temp}
         /\ TempUse(c) /\ (c.fn \notin AorsUiFns => c.k \in Nat)
<1>1. PICK K : todo \in Seq(Task(K))
  BY DEF IInv, Typing, Tasked
<1>2. 1 \in 1 .. Len(todo) /\ c = todo[1] /\ c \in Task(K)
  BY <1>1 DEF c
<1>3. c \in Task({c.k}) /\ c.w \in Var /\ c.u \in Var /\ c.r \in Var \cup {Temp} /\ c.v \in Var \cup {Temp}
  BY <1>2 DEF Task
<1> QED
  BY <1>2, <1>3 DEF IInv, Tasks

-----------------------------------------------------------------------------
(* Steps and owners.                                                       *)

Loose == DOMAIN heap \ Held

\* After a step each variable has a block of its own, and L are the others.
Settled(L) ==
  /\ var' \in [Var \cup {Temp} -> Fields]
  /\ \A x \in Var : var'[x].d \in Block
  /\ var'[Temp].d = var[Temp].d
  /\ Held' \subseteq DOMAIN heap'
  /\ \A x, y \in Var : x # y => var'[x].d # var'[y].d
  /\ Loose' = L

\* No block moves.
Resized ==
  /\ var' \in [Var \cup {Temp} -> Fields]
  /\ \A x \in Var \cup {Temp} : var'[x].d = var[x].d /\ var'[x].alloc = var[x].alloc

\* The block of x moves to p.
Moved(x, p) ==
  /\ p \in (Block \ DOMAIN heap) \cup {var[x].d}
  /\ DOMAIN heap' = (DOMAIN heap \ {var[x].d}) \cup {p}
  /\ var' = [var EXCEPT ![x] = var'[x]]
  /\ var'[x] \in Fields /\ var'[x].d = p

\* The places of copies are no variable's blocks, and no two are the same.
LEMMA NamesDiffer ==
  /\ CopyU \notin Block /\ CopyV \notin Block /\ CopyD \notin Block /\ None \notin Block
  /\ CopyU # CopyV /\ CopyU # CopyD /\ CopyV # CopyD /\ None \notin Copy /\ Temp \notin Var
<1> DEFINE S == {CopyU, CopyV, CopyD, None}
<1>1. ASSUME NEW a, NEW b, NEW d, S \subseteq {a, b, d} PROVE FALSE
  <2>1. IsFiniteSet({a, b, d}) /\ Cardinality({a, b, d}) <= 3
    <3>1. IsFiniteSet({a}) /\ Cardinality({a}) = 1
      BY FS_Singleton, Zenon
    <3>2. Cardinality({a}) \in Nat
      BY <3>1
    <3>3. IsFiniteSet({a} \cup {b}) /\ Cardinality({a} \cup {b}) \in {1, 2}
      <4>1. /\ IsFiniteSet({a} \cup {b})
            /\ \/ Cardinality({a} \cup {b}) = Cardinality({a})
               \/ Cardinality({a} \cup {b}) = Cardinality({a}) + 1
        BY <3>1, FS_AddElement
      <4> QED
        BY <3>1, <4>1
    <3>4. IsFiniteSet(({a} \cup {b}) \cup {d}) /\ Cardinality(({a} \cup {b}) \cup {d}) <= 3
      <4>1. PICK T : T = {a} \cup {b}
        BY Zenon
      <4>2. /\ IsFiniteSet(T \cup {d})
            /\ \/ Cardinality(T \cup {d}) = Cardinality(T)
               \/ Cardinality(T \cup {d}) = Cardinality(T) + 1
        BY <3>3, <4>1, FS_AddElement
      <4> QED
        BY <3>3, <4>1, <4>2
    <3>5. ({a} \cup {b}) \cup {d} = {a, b, d}
      OBVIOUS
    <3> QED
      BY <3>4, <3>5
  <2>2. Cardinality(S) <= 3
    BY <2>1, <1>1, FS_Subset, FS_CardinalityType
  <2> QED
    BY <2>2, HeapAssumption
<1>2. CopyU # CopyV /\ CopyU # CopyD /\ CopyV # CopyD /\ CopyU # None /\ CopyV # None /\ CopyD # None
  BY <1>1
<1> QED
  BY <1>2, HeapAssumption DEF Copy

\* A step that moves no block leaves the variables settled.
LEMMA KeptSettles ==
  ASSUME IInv, Resized, DOMAIN heap' = DOMAIN heap
  PROVE  Settled(Loose)
<1>1. Held' = Held
  BY DEF Held, Resized
<1> QED
  BY <1>1 DEF IInv, Typing, Ownership, Resized, Settled, Loose

\* A variable that moves to a free place leaves them settled.
LEMMA MovedSettles ==
  ASSUME IInv, NEW x \in Var, NEW p, Moved(x, p)
  PROVE  Settled(Loose) /\ p \in Block /\ p \in DOMAIN heap'
<1>1. /\ var \in [Var \cup {Temp} -> Fields] /\ \A y \in Var : var[y].d \in Block /\ var[y].d \in DOMAIN heap
      /\ \A y, z \in Var : y # z => var[y].d # var[z].d
  BY DEF IInv, Typing, Ownership, Held
<1>2. p \in Block /\ p \in DOMAIN heap'
  BY <1>1 DEF Moved
<1>3. var' \in [Var \cup {Temp} -> Fields] /\ var'[x].d = p
  BY <1>1 DEF Moved
<1>4. ASSUME NEW y \in Var \cup {Temp}, y # x PROVE var'[y] = var[y]
  BY <1>1, <1>4 DEF Moved
<1>5. \A y \in Var : var'[y].d \in Block /\ var'[y].d \in DOMAIN heap'
  <2> TAKE y \in Var
  <2>1. CASE y = x
    BY <1>2, <1>3, <2>1
  <2>2. CASE y # x
    BY <1>1, <1>4, <2>2 DEF Moved
  <2> QED
    BY <2>1, <2>2
<1>6. ASSUME NEW y \in Var, y # x PROVE var'[y].d # p
  BY <1>1, <1>4, <1>6 DEF Moved
<1>7. \A y, z \in Var : y # z => var'[y].d # var'[z].d
  BY <1>1, <1>3, <1>4, <1>6
<1>8. ASSUME NEW q, q \in DOMAIN heap', q \notin Held' PROVE q \in DOMAIN heap /\ q \notin Held
  <2>1. q # p
    BY <1>3, <1>8 DEF Held
  <2>2. q \in DOMAIN heap /\ q # var[x].d
    BY <1>8, <2>1 DEF Moved
  <2>3. ASSUME NEW y \in Var PROVE q # var[y].d
    BY <1>4, <1>8, <2>2 DEF Held
  <2> QED
    BY <2>2, <2>3 DEF Held
<1>9. ASSUME NEW q, q \in DOMAIN heap, q \notin Held PROVE q \in DOMAIN heap' /\ q \notin Held'
  <2>1. q # var[x].d
    BY <1>9 DEF Held
  <2>2. q # p
    BY <1>9, <2>1 DEF Moved
  <2>3. ASSUME NEW y \in Var PROVE q # var'[y].d
    BY <1>3, <1>4, <1>9, <2>2 DEF Held
  <2> QED
    BY <1>9, <2>1, <2>3 DEF Held, Moved
<1>10. Loose' = Loose
  BY <1>8, <1>9 DEF Loose
<1>11. Held' \subseteq DOMAIN heap'
  BY <1>5 DEF Held
<1>12. var'[Temp] = var[Temp]
  BY <1>4, NamesDiffer
<1> QED
  BY <1>2, <1>3, <1>5, <1>7, <1>10, <1>11, <1>12 DEF Settled

\* Copies are nobody's blocks.
LEMMA CopiesSettle ==
  ASSUME IInv, var' = var, NEW copy, copy \cap Block = {}, DOMAIN heap' = DOMAIN heap \cup copy
  PROVE  Settled(Loose \cup copy)
<1>1. Held' = Held /\ Held \subseteq Block
  BY DEF IInv, Typing, Held
<1>2. Loose' = Loose \cup copy
  BY <1>1 DEF Loose
<1> QED
  BY <1>1, <1>2 DEF IInv, Typing, Ownership, Settled

\* Where there are neither copies nor an old block, only temp_divisor is nobody's.
LEMMA Bare ==
  ASSUME IInv, ~Copying, ~ (pc = "compute" /\ c.fn = "mul")
  PROVE  /\ \A p \in Loose : p = CopyD
         /\ var[Temp].d = CopyD <=> CopyD \in Loose
         /\ loc.free = None
<1>1. loc.free = None
  BY DEF IInv, Ownership
<1>2. \A p \in Loose : p = CopyD /\ var[Temp].d = CopyD
  BY <1>1, NamesDiffer DEF IInv, Ownership, Loose, Freed
<1>3. CopyD \notin Held
  BY NamesDiffer DEF IInv, Typing, Held
<1> QED
  BY <1>1, <1>2, <1>3 DEF IInv, Ownership, Loose

\* The running function returns.
LEMMA FinishStep ==
  ASSUME IInv, pc \notin {"idle", "done"}, NEW value, FinishWith(value),
         NEW L, Settled(L), \A p \in L : p = CopyD, var[Temp].d = CopyD <=> CopyD \in L
  PROVE  IInv'
<1>1. PICK K : todo \in Seq(Task(K))
  BY DEF IInv, Typing, Tasked
<1>2. todo # <<>>
  BY DEF IInv, Control
<1>3. PICK M : M = Task(K)
  OBVIOUS
<1>4. /\ todo \in Seq(M) /\ todo' = Tail(todo) /\ todo' \in Seq(M) /\ Len(todo') = Len(todo) - 1
      /\ \A i \in 1 .. Len(todo') : todo'[i] = todo[i + 1] /\ i + 1 \in 1 .. Len(todo)
  BY <1>1, <1>2, <1>3 DEF FinishWith
<1>5. loc' = NoLoc /\ loc' \in Locals /\ loc'.free = None
  BY DEF FinishWith, NoLoc, Notes, Locals, Pointer
<1>6. Typing'
  <2>1. Tasked(todo')
    BY <1>3, <1>4, Retype, Zenon
  <2>2. var'[Temp].d \in {CopyD, None}
    BY DEF Settled, IInv, Typing
  <2> QED
    BY <1>5, <2>1, <2>2 DEF Typing, Settled
<1>7. /\ pc' = IF Len(todo) = 1 THEN "done" ELSE "enter"
      /\ Len(todo) = 1 <=> todo' = <<>>
  <2>1. Len(todo) = 1 <=> Len(todo') = 0
    BY <1>4
  <2>2. Len(todo') = 0 <=> todo' = <<>>
    <3>1. todo' \in Seq(M)
      BY <1>4
    <3> QED
      BY <3>1
  <2> QED
    BY <2>1, <2>2 DEF FinishWith
<1>8. Control'
  BY <1>5, <1>7 DEF Control
<1>9. ASSUME NEW i \in 1 .. Len(todo')
      PROVE  /\ TempUse(todo[i])' /\ (todo'[i].fn \notin AorsUiFns => todo'[i].k \in Nat)
             /\ todo'[i].fn # "tdiv_qr"
  <2>1. i + 1 \in 1 .. Len(todo) /\ todo'[i] = todo[i + 1] /\ i + 1 # 1
    BY <1>4
  <2>2. /\ TempUse(todo[i + 1]) /\ (todo[i + 1].fn \notin AorsUiFns => todo[i + 1].k \in Nat)
        /\ todo[i + 1].fn # "tdiv_qr"
    BY <2>1 DEF IInv, Tasks
  <2>3. var'[Temp].d = var[Temp].d
    BY DEF Settled
  <2> QED
    BY <2>1, <2>2, <2>3 DEF TempUse
<1>10. TempRoom'
  <2> SUFFICES ASSUME pc' = "enter" PROVE c'.fn # "tdiv_qr"
    BY DEF TempRoom
  <2>1. todo' # <<>>
    BY <1>7
  <2>2. 1 \in 1 .. Len(todo') /\ c' = todo'[1]
    BY <1>4, <2>1 DEF c
  <2> QED
    BY <1>9, <2>2
<1>11. Tasks'
  BY <1>9, <1>10 DEF Tasks
<1>12. Ownership'
  <2>1. \A p \in DOMAIN heap' \ Held' : p = CopyD /\ CopyD \in L
    BY DEF Settled, Loose
  <2>2. CopyD \in L => CopyD \in DOMAIN heap'
    BY DEF Settled, Loose
  <2> QED
    BY <1>5, <2>1, <2>2 DEF Ownership, Freed, Settled
<1> QED
  BY <1>6, <1>8, <1>11, <1>12 DEF IInv

\* ... or goes on.
LEMMA GotoStep ==
  ASSUME IInv, pc \notin {"idle", "done"}, NEW place \in {"quot", "room", "copy", "compute"}, Goto(place),
         loc' \in Locals, NEW L, Settled(L), \A p \in L : Freed(p)',
         loc'.free = None \/ (place = "compute" /\ c.fn = "mul" /\ loc'.free \in Block \ Held'),
         var[Temp].d = CopyD => CopyD \in L
  PROVE  IInv'
<1>1. todo' = todo /\ c' = c /\ pc' = place
  BY DEF Goto, c
<1>2. todo # <<>>
  BY DEF IInv, Control
<1>3. Typing'
  <2>1. var'[Temp].d \in {CopyD, None}
    BY DEF Settled, IInv, Typing
  <2>2. Tasked(todo')
    BY <1>1 DEF IInv, Typing
  <2> QED
    BY <2>1, <2>2 DEF Typing, Settled
<1>4. Control'
  BY <1>1, <1>2 DEF Control
<1>5. Tasks'
  BY <1>1 DEF IInv, Tasks, TempUse, TempRoom, Settled
<1>6. Ownership'
  <2>1. CopyD \in L => CopyD \in DOMAIN heap'
    BY DEF Settled, Loose
  <2>2. \A p \in DOMAIN heap' \ Held' : Freed(p)'
    BY DEF Settled, Loose
  <2> QED
    BY <1>1, <2>1, <2>2 DEF Ownership, Settled
<1> QED
  BY <1>3, <1>4, <1>5, <1>6 DEF IInv

\* ... or makes calls first.
LEMMA ThenStep ==
  ASSUME IInv, pc = "enter", pc' = pc, loc' = loc,
         NEW K, NEW steps \in Seq(Task(K)), steps # <<>>, todo' = steps \o Tail(todo),
         \A i \in 1 .. Len(steps) : /\ TempUse(steps[i])'
                                    /\ steps[i].fn \notin AorsUiFns => steps[i].k \in Nat
                                    /\ i # 1 => steps[i].fn # "tdiv_qr",
         steps[1].fn = "tdiv_qr" /\ steps[1].r = Temp =>
           steps[1].v \in Var /\ var'[Temp].alloc = Abs(var'[steps[1].v].size),
         var' \in [Var \cup {Temp} -> Fields], var'[Temp].d \in {var[Temp].d, CopyD},
         \A x \in Var : var'[x] = var[x],
         DOMAIN heap' = DOMAIN heap \/ (DOMAIN heap' = DOMAIN heap \cup {CopyD} /\ var'[Temp].d = CopyD),
         var'[Temp].d = CopyD => CopyD \in DOMAIN heap'
  PROVE  IInv'
<1>1. PICK J : todo \in Seq(Task(J))
  BY DEF IInv, Typing, Tasked
<1>2. todo # <<>>
  BY DEF IInv, Control
<1>3. PICK M : M = Task(J \cup K)
  OBVIOUS
<1>4. Task(J) \subseteq M /\ Task(K) \subseteq M
  BY <1>3 DEF Task
<1>5. todo \in Seq(M) /\ steps \in Seq(M)
  BY <1>1, <1>4
<1>6. /\ todo' \in Seq(M) /\ Len(todo') = Len(steps) + Len(todo) - 1 /\ Len(steps) >= 1
      /\ \A i \in 1 .. Len(todo') :
           \/ i \in 1 .. Len(steps) /\ todo'[i] = steps[i]
           \/ \E j \in 2 .. Len(todo) : todo'[i] = todo[j] /\ i > Len(steps)
  <2>1. PICK rest : rest = Tail(todo)
    BY Zenon
  <2>2. rest \in Seq(M) /\ Len(rest) = Len(todo) - 1 /\ \A i \in 1 .. Len(rest) : rest[i] = todo[i + 1]
    BY <1>2, <1>5, <2>1
  <2>3. todo' = steps \o rest /\ todo' \in Seq(M) /\ Len(todo') = Len(steps) + Len(rest)
    BY <1>5, <2>1, <2>2
  <2>4. ASSUME NEW i \in 1 .. Len(todo')
        PROVE  \/ i \in 1 .. Len(steps) /\ todo'[i] = steps[i]
               \/ \E j \in 2 .. Len(todo) : todo'[i] = todo[j] /\ i > Len(steps)
    <3>1. CASE i <= Len(steps)
      BY <1>5, <2>2, <2>3, <3>1
    <3>2. CASE i > Len(steps)
      <4>1. i - Len(steps) \in 1 .. Len(rest) /\ Len(steps) \in Nat /\ Len(rest) \in Nat
        BY <1>5, <2>2, <2>3, <3>2
      <4>2. todo'[i] = rest[i - Len(steps)]
        <5>1. i \in Len(steps) + 1 .. Len(steps) + Len(rest)
          BY <2>3, <3>2, <4>1
        <5>2. (steps \o rest)[i] = rest[i - Len(steps)]
          BY <1>5, <2>2, <4>1, <5>1
        <5> QED
          BY <2>3, <5>2
      <4>3. i - Len(steps) + 1 \in 2 .. Len(todo) /\ todo'[i] = todo[i - Len(steps) + 1]
        BY <1>5, <2>2, <4>1, <4>2
      <4> QED
        BY <3>2, <4>3
    <3> QED
      BY <1>5, <2>3, <3>1, <3>2
  <2> QED
    BY <1>5, <2>2, <2>3, <2>4
<1>7. Typing'
  <2>1. Tasked(todo')
    BY <1>3, <1>6, Retype, Zenon
  <2>2. var'[Temp].d \in {CopyD, None}
    BY DEF IInv, Typing
  <2> QED
    BY <2>1, <2>2 DEF IInv, Typing
<1>8. todo' # <<>>
  BY <1>6
<1>9. Control'
  BY <1>8 DEF IInv, Control
<1>10. var[Temp].d = CopyD => var'[Temp].d = CopyD
  OBVIOUS
<1>11. ASSUME NEW i \in 1 .. Len(todo')
       PROVE  /\ TempUse(todo[i])' /\ (todo'[i].fn \notin AorsUiFns => todo'[i].k \in Nat)
              /\ i # 1 => todo'[i].fn # "tdiv_qr"
  <2>1. CASE i \in 1 .. Len(steps) /\ todo'[i] = steps[i]
    BY <2>1 DEF TempUse
  <2>2. ASSUME NEW j \in 2 .. Len(todo), todo'[i] = todo[j], i > Len(steps)
        PROVE  /\ TempUse(todo[i])' /\ (todo'[i].fn \notin AorsUiFns => todo'[i].k \in Nat)
               /\ todo'[i].fn # "tdiv_qr"
    <3>1. j \in 1 .. Len(todo) /\ j # 1
      BY <1>5
    <3>2. /\ TempUse(todo[j]) /\ (todo[j].fn \notin AorsUiFns => todo[j].k \in Nat)
          /\ todo[j].fn # "tdiv_qr"
      BY <3>1 DEF IInv, Tasks
    <3> QED
      BY <1>10, <2>2, <3>2 DEF TempUse
  <2> QED
    BY <1>6, <2>1, <2>2
<1>12. TempRoom'
  <2>1. 1 \in 1 .. Len(todo') /\ c' = todo'[1] /\ todo'[1] = steps[1]
    BY <1>5, <1>6, <1>8 DEF c
  <2> QED
    BY <2>1 DEF TempRoom, Size
<1>13. Tasks'
  BY <1>11, <1>12, Zenon DEF Tasks
<1>14. Ownership'
  <2>1. Held' = Held
    BY DEF Held
  <2>2. ~Copying /\ pc # "compute"
    BY DEF Copying
  <2>3. (\A p \in Loose : p = CopyD) /\ (var[Temp].d = CopyD <=> CopyD \in Loose) /\ loc.free = None
    BY <2>2, Bare
  <2>4. \A p \in DOMAIN heap' \ Held' : p = CopyD /\ var'[Temp].d = CopyD
    <3>1. var[Temp].d = CopyD => var'[Temp].d = CopyD
      OBVIOUS
    <3> QED
      BY <2>1, <2>3, <3>1 DEF Loose
  <2> QED
    BY <2>1, <2>3, <2>4, Zenon DEF IInv, Ownership, Freed
<1> QED
  BY <1>7, <1>9, <1>13, <1>14 DEF IInv

-----------------------------------------------------------------------------
(* The kinds of steps.                                                     *)

\* Writing to a block allocates none and frees none.
LEMMA DomainWritten ==
  ASSUME NEW h, NEW p, NEW n, NEW x
  PROVE  DOMAIN Written(h, p, n, x) = DOMAIN h
BY DEF Written

\* A block that is put at p is one more, unless there was one.
LEMMA DomainWith ==
  ASSUME NEW h, NEW p, NEW b
  PROVE  DOMAIN With(h, p, b) = DOMAIN h \cup {p}
BY DEF With

\* A block that is freed is not there any more.
LEMMA DomainWithout ==
  ASSUME NEW h, NEW ps
  PROVE  DOMAIN Without(h, ps) = DOMAIN h \ ps
BY DEF Without

\* A function grows, or gives a new length to, a variable.
LEMMA ReallocateMoves ==
  ASSUME IInv, NEW x \in Var, NEW len \in Nat, Reallocate(x, len)
  PROVE  \E p : Moved(x, p)
<1>0. PICK p \in (Block \ DOMAIN heap) \cup {var[x].d} :
        /\ \E b : heap' = With(Without(heap, {var[x].d}), p, b)
        /\ var' = [var EXCEPT ![x] =
             [alloc |-> len, size |-> IF Abs(@.size) > len THEN 0 ELSE @.size, d |-> p]]
  BY Zenon DEF Reallocate
<1>1. DOMAIN heap' = (DOMAIN heap \ {var[x].d}) \cup {p}
  <2>1. PICK b : heap' = With(Without(heap, {var[x].d}), p, b)
    BY <1>0
  <2>2. DOMAIN heap' = DOMAIN Without(heap, {var[x].d}) \cup {p}
    BY <2>1, DomainWith, Zenon
  <2> QED
    BY <2>2, DomainWithout, Zenon
<1>2. var \in [Var \cup {Temp} -> Fields] /\ var[x] \in Fields /\ var[x].d \in Block
  BY DEF IInv, Typing
<1>3. var'[x] = [alloc |-> len, size |-> IF Abs(var[x].size) > len THEN 0 ELSE var[x].size, d |-> p]
  BY <1>0, <1>2
<1>4. p \in Pointer
  BY <1>0, <1>2 DEF Pointer
<1>5. (IF Abs(var[x].size) > len THEN 0 ELSE var[x].size) \in Int
  BY <1>2 DEF Fields
<1>6. var'[x] \in Fields /\ var'[x].d = p
  BY <1>3, <1>4, <1>5 DEF Fields
<1>7. Moved(x, p)
  BY <1>0, <1>1, <1>2, <1>6 DEF Moved
<1> QED
  BY <1>7

\* Where neither blocks nor variables change the variables are settled.
LEMMA Unmoved ==
  ASSUME IInv, UNCHANGED <<heap, var>>
  PROVE  Resized /\ Settled(Loose)
<1>1. Resized
  BY DEF IInv, Typing, Resized
<1> QED
  BY <1>1, KeptSettles

\* MPZ_REALLOC leaves the variables settled, wherever the block went.
LEMMA Grows ==
  ASSUME IInv, NEW x \in Var, NEW len \in Nat, Grow(x, len)
  PROVE  Settled(Loose) /\ \A y \in Var \cup {Temp} : var'[y].d \in Pointer
<1>1. Settled(Loose)
  <2>1. CASE Reallocate(x, len)
    BY <2>1, ReallocateMoves, MovedSettles
  <2>2. CASE UNCHANGED <<heap, var>>
    BY <2>2, Unmoved
  <2> QED
    BY <2>1, <2>2 DEF Grow
<1> QED
  BY <1>1 DEF Settled, Fields

\* A function that goes to its computation with new locals keeps the invariant.
LEMMA GrowStep ==
  ASSUME IInv, pc \in {"enter", "quot"}, Settled(Loose),
         NEW place \in {"quot", "copy", "compute"}, Goto(place), loc' \in Locals, loc'.free = None
  PROVE  IInv'
<1>1. ~Copying /\ pc # "compute"
  BY DEF Copying
<1>2. (\A p \in Loose : p = CopyD) /\ (var[Temp].d = CopyD <=> CopyD \in Loose)
  BY <1>1, Bare
<1>3. \A p \in Loose : Freed(p)'
  BY <1>2 DEF Freed, Settled
<1>4. PICK L : L = Loose
  OBVIOUS
<1> QED
  BY <1>2, <1>3, <1>4, GotoStep

\* A function sets the size of its results.
Sized(x, n) == \E m \in {n, -n} : var' = [var EXCEPT ![x].size = m]

\* A new size moves no block.
LEMMA SizedKeeps ==
  ASSUME IInv, NEW x \in Var \cup {Temp}, NEW n \in Int, Sized(x, n)
  PROVE  Resized
<1>1. var \in [Var \cup {Temp} -> Fields] /\ var[x] \in Fields
  BY DEF IInv, Typing
<1>2. PICK m \in {n, -n} : var' = [var EXCEPT ![x].size = m]
  BY Zenon DEF Sized
<1>0. m \in Int
  OBVIOUS
<1>3. var'[x] = [var[x] EXCEPT !.size = m] /\ var'[x] \in Fields
  BY <1>0, <1>1, <1>2 DEF Fields
<1> QED
  BY <1>1, <1>2, <1>3 DEF Resized, Fields

\* ... and returns.
LEMMA ResultStep ==
  ASSUME IInv, pc \in {"enter", "quot", "compute"}, ~Copying, ~ (pc = "compute" /\ c.fn = "mul"),
         Resized, DOMAIN heap' = DOMAIN heap, NEW value, FinishWith(value)
  PROVE  IInv'
<1>1. (\A p \in Loose : p = CopyD) /\ (var[Temp].d = CopyD <=> CopyD \in Loose)
  BY Bare
<1>2. PICK L : L = Loose
  OBVIOUS
<1>3. Settled(L)
  BY <1>2, KeptSettles
<1> QED
  BY <1>1, <1>2, <1>3, FinishStep

\* ... after the copies have been freed.
LEMMA FreeingStep ==
  ASSUME IInv, pc = "compute", Resized, Finish,
         NEW S, {CopyU, CopyV} \subseteq S, S \subseteq {loc.free, CopyU, CopyV},
         c.fn = "mul" => loc.free \in S, DOMAIN heap' = DOMAIN heap \ S
  PROVE  IInv'
<1>1. /\ Held' = Held /\ Held \subseteq DOMAIN heap
      /\ \A x \in Var : var[x].d \in Block /\ var'[x].d = var[x].d
  BY DEF IInv, Typing, Ownership, Held, Resized
<1>2. S \cap Held = {}
  <2>1. loc.free \notin Held /\ CopyU \notin Held /\ CopyV \notin Held
    BY <1>1, NamesDiffer DEF IInv, Ownership, Held
  <2> QED
    BY <2>1
<1>3. Held' \subseteq DOMAIN heap'
  BY <1>1, <1>2
<1>4. PICK L : L = Loose \ S
  BY Zenon
<1>5. Settled(L)
  <2>1. Loose' = L
    BY <1>1, <1>4 DEF Loose
  <2> QED
    BY <1>1, <1>3, <2>1 DEF Settled, Resized, IInv, Ownership
<1>6. \A p \in L : p = CopyD /\ var[Temp].d = CopyD
  BY <1>4, NamesDiffer DEF IInv, Ownership, Loose, Freed
<1>7. var[Temp].d = CopyD => CopyD \in L
  <2>1. CopyD \notin S /\ CopyD \notin Held
    BY <1>1, NamesDiffer DEF IInv, Ownership, Held, Copy
  <2> QED
    BY <1>4, <2>1 DEF IInv, Ownership, Loose
<1>8. FinishWith(0)
  BY DEF Finish
<1> QED
  BY <1>5, <1>6, <1>7, <1>8, FinishStep

-----------------------------------------------------------------------------
(* The program.                                                            *)

\* Different variables have different blocks at first.
LEMMA PlaceIsOneToOne ==
  /\ Place \in [Var -> Block]
  /\ \A x, y \in Var : x # y => Place[x] # Place[y]
<1> DEFINE Apart(f) == \A x, y \in Var : x # y => f[x] # f[y]
<1>1. \E f \in [Var -> Block] : Apart(f)
  BY HeapAssumption
<1>2. Place = CHOOSE f \in [Var -> Block] : Apart(f)
  BY DEF Place
<1> HIDE DEF Apart
<1>3. Place \in [Var -> Block] /\ Apart(Place)
  BY <1>1, <1>2
<1> QED
  BY <1>3 DEF Apart

\* The invariant holds at first.
LEMMA InitIInv == Init => IInv
<1> SUFFICES ASSUME Init PROVE IInv
  OBVIOUS
<1>1. PICK value, large : /\ heap = Blocks0(value, Sizes0(value), Lengths0(Sizes0(value), large))
                          /\ var = Vars0(value, Sizes0(value), Lengths0(Sizes0(value), large))
  BY DEF Init
<1>a. PICK size, len : size = Sizes0(value) /\ len = Lengths0(size, large)
  OBVIOUS
<1>2. /\ \A x \in Var : size[x] = Normalized(MaxSize, Abs(value[x]))
      /\ \A x \in Var : len[x] = IF x \in large THEN MaxAlloc ELSE MaxOf(size[x], 1)
      /\ DOMAIN heap = {Place[x] : x \in Var}
      /\ var = Vars0(value, size, len)
  BY <1>1, <1>a DEF Sizes0, Lengths0, Blocks0
<1>3. ASSUME NEW x \in Var
      PROVE  var[x] \in Fields /\ var[x].d = Place[x] /\ Place[x] \in Block
  <2>1. PICK n : n = Abs(value[x])
    OBVIOUS
  <2>2. size[x] \in Nat
    <3>1. size[x] = Normalized(MaxSize, n) /\ MaxSize \in Nat
      BY <1>2, <2>1, HeapAssumption
    <3>2. Normalized(MaxSize, n) \in 0 .. MaxSize
      BY <3>1, NormalizedType
    <3> QED
      BY <3>1, <3>2
  <2>3. len[x] \in Nat
    <3>1. len[x] \in {MaxAlloc, MaxOf(size[x], 1)} /\ MaxAlloc \in Nat
      BY <1>2, HeapAssumption
    <3>2. MaxOf(size[x], 1) \in Nat
      BY <2>2 DEF MaxOf
    <3> QED
      BY <3>1, <3>2
  <2>4. PICK m : m = Signed(value[x] < 0, size[x])
    OBVIOUS
  <2>5. m \in Int
    BY <2>2, <2>4, SignedType
  <2>6. var[x] = [alloc |-> len[x], size |-> m, d |-> Place[x]]
    BY <1>2, <2>4, NamesDiffer DEF Vars0
  <2>7. Place[x] \in Block
    BY PlaceIsOneToOne
  <2> QED
    BY <2>3, <2>5, <2>6, <2>7 DEF Fields, Pointer
<1>4. DOMAIN var = Var \cup {Temp} /\ var = [x \in DOMAIN var |-> var[x]] /\ var[Temp] = NoVar
  BY <1>2 DEF Vars0
<1>5. var[Temp] \in Fields /\ var[Temp].d = None
  BY <1>4 DEF NoVar, Fields, Pointer
<1>6. var \in [Var \cup {Temp} -> Fields]
  BY <1>3, <1>4, <1>5
<1>7. todo = <<>> /\ pc = "idle" /\ loc = NoLoc
  BY DEF Init
<1>8. loc \in Locals /\ loc.free = None
  BY <1>7 DEF NoLoc, Notes, Locals, Pointer
<1>9. Tasked(todo)
  <2>1. todo \in Seq(Task({}))
    BY <1>7
  <2> QED
    BY <2>1, Retype
<1>10. Typing
  BY <1>3, <1>5, <1>6, <1>8, <1>9 DEF Typing
<1>11. Control
  BY <1>5, <1>7 DEF Control
<1>12. Tasks
  BY <1>7 DEF Tasks, TempRoom
<1>13. Ownership
  <2>1. Held = DOMAIN heap
    BY <1>2, <1>3 DEF Held
  <2>2. \A x, y \in Var : x # y => var[x].d # var[y].d
    BY <1>3, PlaceIsOneToOne
  <2>3. var[Temp].d # CopyD
    BY <1>5, NamesDiffer DEF Copy
  <2> QED
    BY <1>8, <2>1, <2>2, <2>3 DEF Ownership
<1> QED
  BY <1>10, <1>11, <1>12, <1>13 DEF IInv

\* The program calls a function, with variables of its own as arguments.
LEMMA InvokeStep ==
  ASSUME IInv, Invoke
  PROVE  IInv'
<1>1. /\ pc = "idle" /\ call' \in Calls /\ todo' = <<call'>> /\ pc' = "enter"
      /\ heap' = heap /\ var' = var /\ loc' = loc
  BY DEF Invoke
<1>2. PICK K : K = 0 .. MaxOf(MaxBits, 3)
  OBVIOUS
<1>3. call' \in [fn : Fns, w : Var, r : Var, u : Var, v : Var, k : K]
  BY <1>1, <1>2 DEF Calls
<1>4. K \subseteq Nat
  BY <1>2, Small, HeapAssumption
<1>5. todo' \in Seq(Task(K)) /\ Len(todo') = 1 /\ todo'[1] = call' /\ todo' # <<>>
  BY <1>1, <1>3 DEF Task
<1>6. loc = NoLoc
  BY <1>1 DEF IInv, Control
<1>7. Typing'
  <2>1. Tasked(todo')
    BY <1>5, Retype
  <2> QED
    BY <1>1, <2>1 DEF IInv, Typing
<1>8. Control'
  BY <1>1, <1>5, <1>6 DEF Control
<1>9. Tasks'
  <2>1. c' = todo'[1]
    BY <1>5 DEF c
  <2>2. todo'[1].r # Temp /\ todo'[1].v # Temp /\ todo'[1].k \in Nat
    BY <1>3, <1>4, <1>5, NamesDiffer, Zenon
  <2> QED
    BY <1>5, <2>1, <2>2 DEF Tasks, TempUse, TempRoom
<1>10. Ownership'
  <2>1. ~Copying /\ pc # "compute"
    BY <1>1 DEF Copying
  <2>2. (\A p \in Loose : p = CopyD) /\ (var[Temp].d = CopyD <=> CopyD \in Loose) /\ loc.free = None
    BY <2>1, Bare
  <2>3. Held' = Held
    BY <1>1 DEF Held
  <2> QED
    BY <1>1, <2>2, <2>3 DEF IInv, Ownership, Freed, Loose
<1> QED
  BY <1>7, <1>8, <1>9, <1>10 DEF IInv

\* The function returns to the program, and temp_divisor is freed.
LEMMA ReturnStep ==
  ASSUME IInv, Return
  PROVE  IInv'
<1>1. /\ pc = "done" /\ pc' = "idle" /\ heap' = Without(heap, {CopyD})
      /\ var' = [var EXCEPT ![Temp] = NoVar] /\ todo' = todo /\ loc' = loc
  BY DEF Return
<1>2. todo = <<>> /\ loc = NoLoc
  BY <1>1 DEF IInv, Control
<1>3. DOMAIN heap' = DOMAIN heap \ {CopyD}
  BY <1>1, DomainWithout, Zenon
<1>4. var'[Temp] = NoVar /\ \A x \in Var : var'[x] = var[x]
  BY <1>1, NamesDiffer DEF IInv, Typing
<1>5. Held' = Held
  BY <1>4 DEF Held
<1>6. Typing'
  <2>1. NoVar \in Fields /\ NoVar.d = None
    BY DEF NoVar, Fields, Pointer
  <2>2. var' \in [Var \cup {Temp} -> Fields]
    BY <1>1, <2>1 DEF IInv, Typing
  <2> QED
    BY <1>1, <1>4, <2>1, <2>2 DEF IInv, Typing
<1>7. Control'
  <2>1. var'[Temp].d = None
    BY <1>4 DEF NoVar
  <2> QED
    BY <1>1, <1>2, <2>1 DEF Control
<1>8. Tasks'
  BY <1>1, <1>2 DEF Tasks, TempRoom
<1>9. Ownership'
  <2>1. ~Copying /\ pc # "compute"
    BY <1>1 DEF Copying
  <2>2. (\A p \in Loose : p = CopyD) /\ loc.free = None
    BY <2>1, Bare
  <2>3. CopyD \notin Held
    BY NamesDiffer DEF IInv, Typing, Held
  <2>4. DOMAIN heap' = Held
    BY <1>3, <2>2, <2>3 DEF Loose, IInv, Ownership
  <2>5. var'[Temp].d # CopyD
    BY <1>4, NamesDiffer DEF NoVar, Copy
  <2> QED
    BY <1>1, <1>4, <1>5, <2>2, <2>4, <2>5, Zenon DEF IInv, Ownership
<1> QED
  BY <1>6, <1>7, <1>8, <1>9 DEF IInv

-----------------------------------------------------------------------------
(* The steps, by what they do.                                             *)

\* What is known of the running function's arguments and locals.
LEMMA Running ==
  ASSUME IInv, pc \in {"enter", "quot", "room", "copy", "compute"}
  PROVE  /\ todo # <<>>
         /\ c.w \in Var /\ c.u \in Var /\ c.r \in Var \cup {Temp} /\ c.v \in Var \cup {Temp}
         /\ Size(c.w) \in Int /\ Size(c.u) \in Int /\ Size(c.r) \in Int /\ Size(c.v) \in Int
         /\ Abs(Size(c.w)) \in Nat /\ Abs(Size(c.u)) \in Nat
         /\ Abs(Size(c.r)) \in Nat /\ Abs(Size(c.v)) \in Nat
         /\ loc.us \in Int /\ loc.vs \in Int /\ Abs(loc.us) \in Nat /\ Abs(loc.vs) \in Nat
         /\ None \in Pointer
<1>0. None \in Pointer
  BY DEF Pointer
<1>1. todo # <<>>
  BY DEF IInv, Control
<1>2. c.w \in Var /\ c.u \in Var /\ c.r \in Var \cup {Temp} /\ c.v \in Var \cup {Temp}
  BY <1>1, Arguments
<1>3. loc.us \in Int /\ loc.vs \in Int
  BY DEF IInv, Typing, Locals
<1>4. Typing
  BY DEF IInv
<1> QED
  BY <1>0, <1>1, <1>2, <1>3, <1>4, SizeType, Small, Zenon

\* The functions' locals, where the operands are noted.
LEMMA NotesType ==
  ASSUME NEW us \in Int, NEW vs \in Int, NEW up \in Pointer, NEW vp \in Pointer,
         NEW wp \in Pointer, NEW free \in Pointer
  PROVE  /\ Notes(us, vs, up, vp, wp, free) \in Locals
         /\ Notes(us, vs, up, vp, wp, free).free = free
         /\ Notes(us, vs, up, vp, wp, free).up = up /\ Notes(us, vs, up, vp, wp, free).vp = vp
<1>1. None \in Pointer
  BY DEF Pointer
<1> QED
  BY <1>1 DEF Notes, Locals

\* The sizes of the operands are locals.
LEMMA OperandSizesType ==
  ASSUME IInv, pc \in {"enter", "quot"}
  PROVE  OperandSizes \in Locals /\ OperandSizes.free = None
<1>1. Size(c.u) \in Int /\ Size(c.v) \in Int /\ None \in Pointer
  BY Running
<1> QED
  BY <1>1 DEF OperandSizes, Notes, Locals

\* The destination has room, and its pointer and the operand's are read.
LEMMA NoteStep ==
  ASSUME IInv, pc = "enter", Settled(Loose), NoteOperand, Goto("compute")
  PROVE  IInv'
<1>1. c.w \in Var /\ c.u \in Var /\ Size(c.u) \in Int /\ None \in Pointer
  BY Running
<1>2. var'[c.u].d \in Pointer /\ var'[c.w].d \in Pointer
  BY <1>1 DEF Settled, Fields
<1>3. PICK us, up, wp : us = Size(c.u) /\ up = var'[c.u].d /\ wp = var'[c.w].d
  OBVIOUS
<1>5. loc' = Notes(us, 0, up, None, wp, None)
  BY <1>3 DEF NoteOperand
<1>6. us \in Int /\ 0 \in Int /\ up \in Pointer /\ wp \in Pointer /\ None \in Pointer
  BY <1>1, <1>2, <1>3
<1>4. loc' \in Locals /\ loc'.free = None
  <2>1. Notes(us, 0, up, None, wp, None) \in Locals
    BY <1>6, NotesType
  <2>2. Notes(us, 0, up, None, wp, None).free = None
    BY <1>6, NotesType
  <2> QED
    BY <1>5, <2>1, <2>2
<1> QED
  BY <1>4, GrowStep

\* The function returns, with blocks moved or not.
LEMMA SettledStep ==
  ASSUME IInv, pc \in {"enter", "quot"}, Settled(Loose), NEW value, FinishWith(value)
  PROVE  IInv'
<1>1. (\A p \in Loose : p = CopyD) /\ (var[Temp].d = CopyD <=> CopyD \in Loose)
  BY Bare DEF Copying
<1>2. PICK L : L = Loose
  OBVIOUS
<1> QED
  BY <1>1, <1>2, FinishStep

\* A result is computed, of any sign and size.
LEMMA GivesStep ==
  ASSUME IInv, pc \in {"enter", "quot", "compute"}, ~Copying, ~ (pc = "compute" /\ c.fn = "mul"),
         DOMAIN heap' = DOMAIN heap, Finish,
         NEW n \in Int, Sized(c.w, n)
  PROVE  IInv'
<1>1. Resized
  BY Running, SizedKeeps, Zenon
<1>2. FinishWith(0)
  BY DEF Finish
<1> QED
  BY <1>1, <1>2, ResultStep

\* The size of a result is set to a number, or those of two.
LEMMA OneSizeKeeps ==
  ASSUME IInv, NEW x \in Var \cup {Temp}, NEW m, m \in Int, var' = [var EXCEPT ![x].size = m]
  PROVE  Resized
<1>1. var \in [Var \cup {Temp} -> Fields] /\ var[x] \in Fields
  BY DEF IInv, Typing
<1>2. var'[x] = [var[x] EXCEPT !.size = m] /\ var'[x] \in Fields
  BY <1>1 DEF Fields
<1> QED
  BY <1>1, <1>2 DEF Resized, Fields

\* Two new sizes move no block.
LEMMA TwoSizesKeep ==
  ASSUME IInv, NEW x \in Var \cup {Temp}, NEW y \in Var \cup {Temp}, NEW m, NEW n, m \in Int, n \in Int,
         var' = [var EXCEPT ![x].size = m, ![y].size = n]
  PROVE  Resized
<1>1. var \in [Var \cup {Temp} -> Fields] /\ var[x] \in Fields /\ var[y] \in Fields
  BY DEF IInv, Typing
<1>2. PICK f : f = [var EXCEPT ![x].size = m]
  BY Zenon
<1>3. /\ f \in [Var \cup {Temp} -> Fields]
      /\ \A z \in Var \cup {Temp} : f[z].d = var[z].d /\ f[z].alloc = var[z].alloc
  <2>1. f[x] = [var[x] EXCEPT !.size = m] /\ f[x] \in Fields
    BY <1>1, <1>2 DEF Fields
  <2> QED
    BY <1>1, <1>2, <2>1 DEF Fields
<1>4. var' = [f EXCEPT ![y].size = n]
  BY <1>2
<1>5. var'[y] = [f[y] EXCEPT !.size = n] /\ var'[y] \in Fields
  BY <1>3, <1>4 DEF Fields
<1> QED
  BY <1>3, <1>4, <1>5 DEF Resized, Fields

\* An exception is raised.
LEMMA RaiseStep ==
  ASSUME IInv, pc = "enter", Goto("raised"), UNCHANGED <<heap, var, loc>>
  PROVE  IInv'
<1>1. todo' = todo /\ pc' = "raised"
  BY DEF Goto
<1>2. todo # <<>> /\ loc = NoLoc
  BY DEF IInv, Control
<1>3. Held' = Held
  BY DEF Held
<1>4. Typing'
  BY <1>1 DEF IInv, Typing
<1>5. Control'
  BY <1>1, <1>2 DEF Control
<1>6. Tasks'
  BY <1>1 DEF IInv, Tasks, TempUse, TempRoom
<1>7. (\A p \in Loose : p = CopyD) /\ (var[Temp].d = CopyD <=> CopyD \in Loose) /\ loc.free = None
  BY Bare DEF Copying
<1>8. Ownership'
  BY <1>3, <1>7 DEF IInv, Ownership, Freed, Loose
<1> QED
  BY <1>4, <1>5, <1>6, <1>8 DEF IInv

\* A function calls one other, or two of which the first may be mpz_tdiv_qr, after
\* it has made or left temp_divisor.
LEMMA CallOne ==
  ASSUME IInv, pc = "enter", UNCHANGED <<heap, var, pc, loc>>,
         NEW K, NEW a \in Task(K), todo' = <<a>> \o Tail(todo),
         TempUse(a), a.fn \notin AorsUiFns => a.k \in Nat, a.fn # "tdiv_qr"
  PROVE  IInv'
<1>1. PICK steps : steps = <<a>>
  OBVIOUS
<1>2. steps \in Seq(Task(K)) /\ steps # <<>> /\ Len(steps) = 1 /\ steps[1] = a
  <2>1. PICK M : M = Task(K)
    OBVIOUS
  <2>2. a \in M
    BY <2>1
  <2> QED
    BY <1>1, <2>1, <2>2
<1>3. TempUse(a)'
  BY DEF TempUse
<1>4. var' \in [Var \cup {Temp} -> Fields] /\ (var'[Temp].d = CopyD => CopyD \in DOMAIN heap')
  BY DEF IInv, Typing, Ownership
<1>5. ASSUME NEW i \in 1 .. Len(steps)
      PROVE  /\ TempUse(steps[i])'
             /\ steps[i].fn \notin AorsUiFns => steps[i].k \in Nat
             /\ i # 1 => steps[i].fn # "tdiv_qr"
  <2>1. i = 1 /\ steps[i] = a
    BY <1>2
  <2> QED
    BY <1>3, <2>1 DEF TempUse
<1>6. todo' = steps \o Tail(todo) /\ pc' = pc /\ loc' = loc
  BY <1>1
<1>7. DOMAIN heap' = DOMAIN heap /\ var'[Temp].d \in {var[Temp].d, CopyD} /\ \A x \in Var : var'[x] = var[x]
  OBVIOUS
<1>8. steps[1].fn # "tdiv_qr"
  BY <1>2
<1> QED
  BY <1>2, <1>4, <1>5, <1>6, <1>7, <1>8, ThenStep, Zenon

\* A function that is replaced by two calls keeps the invariant.
LEMMA CallTwo ==
  ASSUME IInv, pc = "enter", UNCHANGED <<pc, loc>>,
         NEW K, NEW a \in Task(K), NEW b \in Task(K), todo' = <<a, b>> \o Tail(todo),
         TempUse(a)', TempUse(b)', a.k \in Nat, b.k \in Nat, b.fn # "tdiv_qr",
         a.fn = "tdiv_qr" /\ a.r = Temp => a.v \in Var /\ var'[Temp].alloc = Abs(var'[a.v].size),
         var' \in [Var \cup {Temp} -> Fields], var'[Temp].d \in {var[Temp].d, CopyD},
         \A x \in Var : var'[x] = var[x],
         DOMAIN heap' = DOMAIN heap \/ (DOMAIN heap' = DOMAIN heap \cup {CopyD} /\ var'[Temp].d = CopyD),
         var'[Temp].d = CopyD => CopyD \in DOMAIN heap'
  PROVE  IInv'
<1>1. PICK steps : steps = <<a, b>>
  OBVIOUS
<1>2. steps \in Seq(Task(K)) /\ steps # <<>> /\ Len(steps) = 2 /\ steps[1] = a /\ steps[2] = b
  <2>1. PICK M : M = Task(K)
    OBVIOUS
  <2>2. a \in M /\ b \in M
    BY <2>1
  <2> QED
    BY <1>1, <2>1, <2>2
<1>3. ASSUME NEW i \in 1 .. Len(steps)
      PROVE  /\ TempUse(steps[i])'
             /\ steps[i].fn \notin AorsUiFns => steps[i].k \in Nat
             /\ i # 1 => steps[i].fn # "tdiv_qr"
  <2>1. (i = 1 /\ steps[i] = a) \/ (i = 2 /\ steps[i] = b)
    BY <1>2
  <2> QED
    BY <2>1 DEF TempUse
<1>4. todo' = steps \o Tail(todo) /\ pc' = pc /\ loc' = loc
  BY <1>1
<1>5. steps[1].fn = "tdiv_qr" /\ steps[1].r = Temp =>
        steps[1].v \in Var /\ var'[Temp].alloc = Abs(var'[steps[1].v].size)
  BY <1>2
<1> QED
  BY <1>2, <1>3, <1>4, <1>5, ThenStep, Zenon

\* The steps that do not change who has which block: with temp_divisor as it was,
\* or as the copy of a variable.
LEMMA TempMade ==
  ASSUME IInv, NEW n \in Nat, NEW m \in Int, var' = [var EXCEPT ![Temp] = [alloc |-> n, size |-> m, d |-> CopyD]],
         NEW b, heap' = With(heap, CopyD, b)
  PROVE  /\ var' \in [Var \cup {Temp} -> Fields] /\ var'[Temp].d = CopyD /\ var'[Temp].alloc = n
         /\ \A x \in Var : var'[x] = var[x]
         /\ DOMAIN heap' = DOMAIN heap \cup {CopyD} /\ CopyD \in DOMAIN heap'
<1>1. var \in [Var \cup {Temp} -> Fields] /\ Temp \notin Var
  BY NamesDiffer DEF IInv, Typing
<1>2. PICK f : f = [alloc |-> n, size |-> m, d |-> CopyD]
  BY Zenon
<1>3. f \in Fields /\ f.d = CopyD /\ f.alloc = n
  BY <1>2 DEF Fields, Pointer, Copy
<1>4. var' = [var EXCEPT ![Temp] = f]
  BY <1>2
<1>5. DOMAIN heap' = DOMAIN heap \cup {CopyD}
  BY DomainWith, Zenon
<1> QED
  BY <1>1, <1>3, <1>4, <1>5

-----------------------------------------------------------------------------
(* The steps of MpzHeap.  The lemma <Action>Step, here and in the sections  *)
(* that follow, is that the action keeps IInv.                              *)

LEMMA AorsGrowStep ==
  ASSUME IInv, AorsGrow
  PROVE  IInv'
<1>1. pc = "enter" /\ Grow(c.w, MaxOf(Abs(Size(c.u)), Abs(Size(c.v))) + 1) /\ loc' = AorsLoc(var')
      /\ Goto("compute")
  BY DEF AorsGrow, At
<1>2. MaxOf(Abs(Size(c.u)), Abs(Size(c.v))) + 1 \in Nat
  BY <1>1, Running DEF MaxOf
<1>3. Settled(Loose) /\ \A y \in Var \cup {Temp} : var'[y].d \in Pointer
  BY <1>1, <1>2, Running, Grows, Zenon
<1>4. PICK vs \in Int : vs = IF c.fn = "sub" THEN -Size(c.v) ELSE Size(c.v)
  <2>1. PICK n \in Int : n = Size(c.v)
    BY <1>1, Running
  <2> QED
    BY <2>1
<1>5. PICK u, v, w : u = var'[c.u].d /\ v = var'[c.v].d /\ w = var'[c.w].d
  OBVIOUS
<1>6. u \in Pointer /\ v \in Pointer /\ w \in Pointer
  BY <1>1, <1>3, <1>5, Running, Zenon
<1>7. PICK us \in Int : us = Size(c.u)
  BY <1>1, Running
<1>8. loc' \in {Notes(vs, us, v, u, w, None), Notes(us, vs, u, v, w, None)}
  BY <1>1, <1>4, <1>5, <1>7 DEF AorsLoc
<1>9. loc' \in Locals /\ loc'.free = None
  <2>1. None \in Pointer
    BY <1>1, Running
  <2> QED
    <3>1. PICK a \in {us, vs}, b \in {us, vs}, p \in Pointer, q \in Pointer : loc' = Notes(a, b, p, q, w, None)
      BY <1>6, <1>8
    <3>2. a \in Int /\ b \in Int
      OBVIOUS
    <3>3. Notes(a, b, p, q, w, None) \in Locals
      BY <1>6, <2>1, <3>2, NotesType, Zenon
    <3>4. Notes(a, b, p, q, w, None).free = None
      BY DEF Notes
    <3> QED
      BY <3>1, <3>3, <3>4
<1> QED
  BY <1>1, <1>3, <1>9, GrowStep

LEMMA AorsAddStep ==
  ASSUME IInv, AorsAdd
  PROVE  IInv'
<1>1. /\ pc = "compute" /\ c.fn \in {"add", "sub"} /\ Finish
      /\ \E n, x : heap' = Written(heap, loc.wp, n, x)
      /\ \E x : Sized(c.w, LessTop(Abs(loc.us) + 1, x))
  BY Zenon DEF AorsAdd, At, SetSize, Signed, Sized
<1>2. ~Copying /\ c.fn # "mul"
  BY <1>1 DEF Copying, BitFn
<1>3. PICK n \in Int : Sized(c.w, n)
  BY <1>1, Running, LessTopType
<1>4. DOMAIN heap' = DOMAIN heap
  BY <1>1, DomainWritten
<1> QED
  BY <1>1, <1>2, <1>3, <1>4, GivesStep

LEMMA AorsSubStep ==
  ASSUME IInv, AorsSub
  PROVE  IInv'
<1>1. /\ pc = "compute" /\ c.fn \in {"add", "sub"} /\ Finish
      /\ \E n, x : heap' = Written(heap, loc.wp, n, x)
      /\ \E x : Sized(c.w, Normalized(Abs(loc.us), x))
  BY Zenon DEF AorsSub, At, SetSize, Signed, Sized
<1>2. ~Copying /\ c.fn # "mul"
  BY <1>1 DEF Copying, BitFn
<1>3. PICK n \in Int : Sized(c.w, n)
  BY <1>1, Running, NormalizedType
<1>4. DOMAIN heap' = DOMAIN heap
  BY <1>1, DomainWritten
<1> QED
  BY <1>1, <1>2, <1>3, <1>4, GivesStep

LEMMA UiGrowStep ==
  ASSUME IInv, UiGrow
  PROVE  IInv'
<1>1. pc = "enter" /\ Grow(c.w, Abs(Size(c.u)) + 1) /\ NoteOperand /\ Goto("compute")
  BY DEF UiGrow, At
<1>2. Settled(Loose)
  BY <1>1, Running, Grows
<1> QED
  BY <1>1, <1>2, NoteStep

LEMMA UiComputeStep ==
  ASSUME IInv, UiCompute
  PROVE  IInv'
<1>1. /\ pc = "compute" /\ c.fn \in {"add_ui", "sub_ui"} /\ Finish
  BY DEF UiCompute, At
<1>2. PICK m \in Nat : m = Abs(loc.us)
  BY <1>1, Running
<1>3. /\ \E n, x : heap' = Written(heap, loc.wp, n, x)
      /\ \E n, x : Sized(c.w, n) /\ n \in {0, 1, LessTop(m, x), LessTop(m + 1, x)}
  BY <1>2, Zenon DEF UiCompute, SetSize, Signed, Sized
<1>4. ~Copying /\ c.fn # "mul"
  BY <1>1 DEF Copying, BitFn
<1>5. PICK n \in Int : Sized(c.w, n)
  BY <1>2, <1>3, LessTopType
<1>6. DOMAIN heap' = DOMAIN heap
  BY <1>3, DomainWritten
<1> QED
  BY <1>1, <1>4, <1>5, <1>6, GivesStep

LEMMA MulZeroStep ==
  ASSUME IInv, MulZero
  PROVE  IInv'
<1>1. pc = "enter" /\ Finish /\ heap' = heap /\ Sized(c.w, 0)
  BY DEF MulZero, At, SetSize, Signed, Sized
<1>2. ~Copying
  BY <1>1 DEF Copying
<1> QED
  BY <1>1, <1>2, GivesStep

LEMMA MulGrowStep ==
  ASSUME IInv, MulGrow
  PROVE  IInv'
<1>1. /\ pc = "enter" /\ Grow(c.w, MulSize) /\ Goto("compute")
      /\ loc' = MulLoc(var', var'[c.u].d, var'[c.v].d, None)
  BY DEF MulGrow, At
<1>2. MulSize \in Nat
  BY <1>1, Running DEF MulSize
<1>3. Settled(Loose) /\ \A y \in Var \cup {Temp} : var'[y].d \in Pointer
  BY <1>1, <1>2, Running, Grows, Zenon
<1>4. loc' = Notes(Size(c.u), Size(c.v), var'[c.u].d, var'[c.v].d, var'[c.w].d, None)
  BY <1>1 DEF MulLoc
<1>5. loc' \in Locals /\ loc'.free = None
  <2>1. PICK us, vs, up, vp, wp : us = Size(c.u) /\ vs = Size(c.v) /\ up = var'[c.u].d
                                  /\ vp = var'[c.v].d /\ wp = var'[c.w].d
    OBVIOUS
  <2>2. us \in Int /\ vs \in Int /\ None \in Pointer
    BY <1>1, <2>1, Running
  <2>3. up \in Pointer /\ vp \in Pointer /\ wp \in Pointer
    BY <1>1, <1>3, <2>1, Running
  <2>4. Notes(us, vs, up, vp, wp, None) \in Locals
    BY <2>2, <2>3, NotesType
  <2>5. Notes(us, vs, up, vp, wp, None).free = None
    BY <2>2, <2>3, NotesType
  <2> QED
    BY <1>4, <2>1, <2>4, <2>5
<1> QED
  BY <1>1, <1>3, <1>5, GrowStep

LEMMA MulFreshStep ==
  ASSUME IInv, MulFresh
  PROVE  IInv'
<1>1. pc = "enter" /\ c.fn \in {"mul"} /\ Goto("compute")
  BY DEF MulFresh, At
<1>2. MulSize \in Nat /\ c.w \in Var
  BY <1>1, Running DEF MulSize
<1>3. PICK old, free : /\ old = var[c.w].d
                       /\ free = IF old \in {var[c.u].d, var[c.v].d} THEN old ELSE None
  OBVIOUS
<1>4. PICK rest : rest = IF free = None THEN Without(heap, {old}) ELSE heap
  OBVIOUS
<1>5. PICK p \in Block \ DOMAIN rest :
        /\ heap' = With(rest, p, Fresh(MulSize))
        /\ var' = [var EXCEPT ![c.w].alloc = MulSize, ![c.w].d = p]
        /\ loc' = MulLoc(var', var[c.u].d, var[c.v].d, free)
  BY <1>3, <1>4, Zenon DEF MulFresh
<1>6. old \in Block /\ old \in DOMAIN heap /\ free \in {old, None}
  BY <1>2, <1>3 DEF IInv, Typing, Ownership, Held
<1>7. /\ DOMAIN rest = IF free = None THEN DOMAIN heap \ {old} ELSE DOMAIN heap
      /\ DOMAIN heap' = DOMAIN rest \cup {p}
  BY <1>4, <1>5, DomainWith, DomainWithout, Zenon
<1>8. /\ var \in [Var \cup {Temp} -> Fields] /\ \A y \in Var : var[y].d \in Block /\ var[y].d \in DOMAIN heap
      /\ \A y, z \in Var : y # z => var[y].d # var[z].d
  BY DEF IInv, Typing, Ownership, Held
<1>9. p \in Pointer /\ p \in Block /\ free \in Pointer /\ old \in Pointer
  BY <1>3, <1>6 DEF Pointer
<1>10. var' \in [Var \cup {Temp} -> Fields] /\ var'[c.w].d = p
  BY <1>2, <1>5, <1>8, <1>9 DEF Fields
<1>11. ASSUME NEW y \in Var \cup {Temp}, y # c.w PROVE var'[y] = var[y]
  BY <1>5, <1>8, <1>11
<1>12. PICK S : S = IF free = None THEN {} ELSE {old}
  BY Zenon
<1>13. \A y \in Var : var'[y].d \in Block /\ var'[y].d \in DOMAIN heap'
  <2> TAKE y \in Var
  <2>1. CASE y = c.w
    BY <1>7, <1>9, <1>10, <2>1
  <2>2. CASE y # c.w
    BY <1>2, <1>3, <1>7, <1>8, <1>11, <2>2
  <2> QED
    BY <2>1, <2>2
<1>14. ASSUME NEW y \in Var, y # c.w PROVE var'[y].d # p
  <2>1. var[y].d \in DOMAIN rest
    BY <1>2, <1>3, <1>7, <1>8, <1>14
  <2> QED
    BY <1>5, <1>11, <1>14, <2>1, Zenon
<1>15. \A y, z \in Var : y # z => var'[y].d # var'[z].d
  BY <1>8, <1>10, <1>11, <1>14
<1>16. PICK L : L = Loose \cup S
  BY Zenon
<1>17. Loose' = L
  <2>1. ASSUME NEW q, q \in Loose' PROVE q \in L
    <3>1. q \in DOMAIN heap' /\ q # p /\ \A y \in Var : y # c.w => q # var[y].d
      BY <1>2, <1>10, <1>11, <2>1 DEF Loose, Held
    <3>2. q \in DOMAIN heap /\ (free = None => q # old)
      BY <1>7, <3>1
    <3>3. CASE q = old
      BY <1>12, <1>16, <3>2, <3>3
    <3>4. CASE q # old
      BY <1>3, <1>16, <3>1, <3>2, <3>4 DEF Loose, Held
    <3> QED
      BY <3>3, <3>4
  <2>2. ASSUME NEW q \in Loose PROVE q \in Loose'
    <3>1. q \in DOMAIN heap /\ q # old /\ \A y \in Var : q # var[y].d
      BY <1>2, <1>3 DEF Loose, Held
    <3>2. q # p /\ q \in DOMAIN heap'
      BY <1>5, <1>7, <3>1
    <3>3. \A y \in Var : q # var'[y].d
      BY <1>10, <1>11, <3>1, <3>2
    <3> QED
      BY <3>2, <3>3 DEF Loose, Held
  <2>3. ASSUME free # None PROVE old \in Loose'
    <3>1. old \in DOMAIN heap' /\ old # p
      BY <1>5, <1>6, <1>7, <2>3
    <3>2. \A y \in Var : old # var'[y].d
      BY <1>2, <1>3, <1>8, <1>10, <1>11, <3>1
    <3> QED
      BY <3>1, <3>2 DEF Loose, Held
  <2> QED
    BY <1>12, <1>16, <2>1, <2>2, <2>3
<1>18. Settled(L)
  <2>1. var'[Temp] = var[Temp]
    BY <1>2, <1>11, NamesDiffer
  <2> QED
    BY <1>10, <1>13, <1>15, <1>17, <2>1 DEF Settled, Held
<1>19. loc' \in Locals /\ loc'.free = free
  <2>1. loc' = Notes(Size(c.u), Size(c.v), var[c.u].d, var[c.v].d, var'[c.w].d, free)
    BY <1>5 DEF MulLoc
  <2>2. var[c.u].d \in Pointer /\ var[c.v].d \in Pointer
    BY <1>1, <1>8, Running, Zenon DEF Fields
  <2>3. PICK us, vs, up, vp : us = Size(c.u) /\ vs = Size(c.v) /\ up = var[c.u].d /\ vp = var[c.v].d
    OBVIOUS
  <2>4. us \in Int /\ vs \in Int
    BY <1>1, <2>3, Running
  <2>5. loc' = Notes(us, vs, up, vp, p, free)
    BY <1>10, <2>1, <2>3
  <2>6. Notes(us, vs, up, vp, p, free) \in Locals
    BY <1>9, <2>2, <2>3, <2>4, NotesType, Zenon
  <2>7. Notes(us, vs, up, vp, p, free).free = free
    BY DEF Notes
  <2> QED
    BY <2>5, <2>6, <2>7
<1>20. (\A q \in Loose : q = CopyD) /\ (var[Temp].d = CopyD <=> CopyD \in Loose)
  BY <1>1, Bare DEF Copying
<1>21. \A q \in L : Freed(q)'
  <2>1. ASSUME NEW q \in Loose PROVE Freed(q)'
    BY <1>18, <1>20 DEF Freed, Settled
  <2>2. ASSUME free # None PROVE Freed(old)'
    BY <1>6, <1>19, <2>2 DEF Freed
  <2> QED
    BY <1>12, <1>16, <2>1, <2>2
<1>22. free = None \/ (c.fn = "mul" /\ loc'.free \in Block \ Held')
  <2>1. CASE free # None
    <3>1. old \in L
      BY <1>12, <1>16, <2>1
    <3> QED
      BY <1>1, <1>6, <1>17, <1>19, <2>1, <3>1 DEF Loose
  <2> QED
    BY <2>1
<1> QED
  BY <1>1, <1>16, <1>18, <1>19, <1>20, <1>21, <1>22, GotoStep

\* Copies are made of the operands, or not.
LEMMA MulCopied ==
  ASSUME IInv, pc = "enter", c.fn = "mul", Goto("compute"), var' = var,
         NEW copy \in {{}, {CopyU}, {CopyV}}, DOMAIN heap' = DOMAIN heap \cup copy,
         NEW up \in Pointer, NEW vp \in Pointer, loc' = MulLoc(var, up, vp, None),
         CopyU \in copy => up = CopyU, CopyV \in copy => vp = CopyV
  PROVE  IInv'
<1>1. PICK w, us, vs : w = var[c.w].d /\ us = Size(c.u) /\ vs = Size(c.v)
  OBVIOUS
<1>2. w \in Pointer /\ us \in Int /\ vs \in Int /\ None \in Pointer
  <2>1. c.w \in Var /\ Size(c.u) \in Int /\ Size(c.v) \in Int /\ None \in Pointer
    BY Running
  <2> QED
    BY <1>1, <2>1 DEF IInv, Typing, Fields
<1>3. loc' = Notes(us, vs, up, vp, w, None)
  BY <1>1 DEF MulLoc
<1>4. loc' \in Locals /\ loc'.free = None /\ loc'.up = up /\ loc'.vp = vp
  <2>1. Notes(us, vs, up, vp, w, None) \in Locals
    BY <1>2, NotesType, Zenon
  <2> QED
    BY <1>3, <2>1 DEF Notes
<1>5. copy \cap Block = {} /\ CopyD \notin copy
  BY NamesDiffer
<1>6. PICK L : L = Loose \cup copy
  BY Zenon
<1>7. Settled(L)
  BY <1>5, <1>6, CopiesSettle
<1>8. (\A q \in Loose : q = CopyD) /\ (var[Temp].d = CopyD <=> CopyD \in Loose)
  BY Bare DEF Copying
<1>9. ASSUME NEW q \in L PROVE Freed(q)'
  <2>1. CASE q \in Loose
    BY <1>8, <2>1 DEF Freed
  <2>2. CASE q \in copy
    <3>1. Copying'
      BY DEF Goto, Copying, c
    <3> QED
      BY <1>4, <2>2, <3>1, NamesDiffer DEF Freed
  <2> QED
    BY <1>6, <2>1, <2>2
<1> QED
  BY <1>4, <1>6, <1>7, <1>8, <1>9, GotoStep

LEMMA MulCopyStep ==
  ASSUME IInv, MulCopy
  PROVE  IInv'
<1>1. pc = "enter" /\ c.fn = "mul" /\ Goto("compute") /\ var' = var
  BY DEF MulCopy, At
<1>2. PICK u, v : u = var[c.u].d /\ v = var[c.v].d
  OBVIOUS
<1>3. u \in Pointer /\ v \in Pointer /\ CopyU \in Pointer /\ CopyV \in Pointer
  <2>1. c.u \in Var /\ c.v \in Var \cup {Temp}
    BY <1>1, Running
  <2> QED
    BY <1>2, <2>1 DEF IInv, Typing, Fields, Pointer, Copy
<1>4. CASE var[c.u].d = var[c.w].d
  <2>1. loc' = MulLoc(var, CopyU, IF var[c.v].d = var[c.w].d THEN CopyU ELSE var[c.v].d, None)
    BY <1>4 DEF MulCopy
  <2>2. PICK q : /\ loc' = MulLoc(var, CopyU, q, None)
                 /\ q = IF var[c.v].d = var[c.w].d THEN CopyU ELSE v
    BY <1>2, <2>1
  <2>3. \E b : heap' = With(heap, CopyU, b)
    BY <1>4 DEF MulCopy
  <2>4. DOMAIN heap' = DOMAIN heap \cup {CopyU} /\ q \in Pointer /\ CopyV \notin {CopyU}
    BY <1>3, <2>2, <2>3, DomainWith, NamesDiffer, Zenon
  <2>5. PICK copy : copy = {CopyU}
    BY Zenon
  <2> QED
    BY <1>1, <1>3, <2>2, <2>4, <2>5, MulCopied
<1>5. CASE var[c.u].d # var[c.w].d /\ var[c.v].d = var[c.w].d
  <2>1. loc' = MulLoc(var, u, CopyV, None)
    BY <1>2, <1>5 DEF MulCopy
  <2>2. \E b : heap' = With(heap, CopyV, b)
    BY <1>5 DEF MulCopy
  <2>3. DOMAIN heap' = DOMAIN heap \cup {CopyV} /\ CopyU \notin {CopyV}
    BY <2>2, DomainWith, NamesDiffer, Zenon
  <2>4. PICK copy : copy = {CopyV}
    BY Zenon
  <2> QED
    BY <1>1, <1>3, <2>1, <2>3, <2>4, MulCopied
<1>6. CASE var[c.u].d # var[c.w].d /\ var[c.v].d # var[c.w].d
  <2>1. heap' = heap
    BY <1>6 DEF MulCopy
  <2>2. loc' = MulLoc(var, u, v, None)
    BY <1>2, <1>6 DEF MulCopy
  <2>3. PICK copy : copy = {}
    BY Zenon
  <2>4. DOMAIN heap' = DOMAIN heap \cup copy /\ CopyU \notin copy /\ CopyV \notin copy
    BY <2>1, <2>3
  <2> QED
    BY <1>1, <1>3, <2>2, <2>3, <2>4, MulCopied
<1> QED
  BY <1>4, <1>5, <1>6

LEMMA MulComputeStep ==
  ASSUME IInv, MulCompute
  PROVE  IInv'
<1>1. pc = "compute" /\ c.fn \in {"mul"} /\ Finish
  BY DEF MulCompute, At
<1>2. PICK size \in Int : Sized(c.w, size)
  <2>1. \E x : Sized(c.w, LessTop(Abs(loc.us) + Abs(loc.vs), x))
    BY Zenon DEF MulCompute, SetSize, Signed, Sized
  <2> QED
    BY <1>1, <2>1, Running, LessTopType
<1>3. DOMAIN heap' = DOMAIN heap \ {loc.free, CopyU, CopyV}
  <2>1. \E n, x : heap' = Without(Written(heap, loc.wp, n, x), {loc.free, CopyU, CopyV})
    BY DEF MulCompute
  <2>2. PICK n, x, S : heap' = Without(Written(heap, loc.wp, n, x), S) /\ S = {loc.free, CopyU, CopyV}
    BY <2>1
  <2>3. DOMAIN heap' = DOMAIN Written(heap, loc.wp, n, x) \ S
    BY <2>2, DomainWithout, Zenon
  <2>4. DOMAIN Written(heap, loc.wp, n, x) = DOMAIN heap
    BY DomainWritten
  <2> QED
    BY <2>2, <2>3, <2>4
<1>4. Resized
  BY <1>1, <1>2, Running, SizedKeeps, Zenon
<1> QED
  BY <1>1, <1>3, <1>4, FreeingStep, Zenon

LEMMA TdivByZeroStep ==
  ASSUME IInv, TdivByZero
  PROVE  IInv'
<1>1. pc = "enter" /\ Goto("raised") /\ UNCHANGED <<heap, var, loc>>
  BY DEF TdivByZero, At
<1> QED
  BY <1>1, RaiseStep

LEMMA TdivGrowRemStep ==
  ASSUME IInv, TdivGrowRem
  PROVE  IInv'
<1>1. /\ pc = "enter" /\ c.fn = "tdiv_qr" /\ Goto("quot") /\ loc' = OperandSizes
      /\ Grow(c.r, Abs(Size(c.v)))
  BY DEF TdivGrowRem, At
<1>2. Settled(Loose)
  <2>1. CASE c.r \in Var
    BY <1>1, <2>1, Running, Grows, Zenon
  <2>2. CASE c.r = Temp
    <3>1. var[c.r].alloc = Abs(Size(c.v)) /\ Abs(Size(c.v)) \in Nat
      BY <1>1, <2>2, Running DEF IInv, Tasks, TempRoom
    <3>2. UNCHANGED <<heap, var>>
      BY <1>1, <3>1 DEF Grow
    <3> QED
      BY <3>2, Unmoved
  <2> QED
    BY <1>1, <2>1, <2>2, Running, Zenon
<1>3. loc' \in Locals /\ loc'.free = None
  BY <1>1, OperandSizesType
<1> QED
  BY <1>1, <1>2, <1>3, GrowStep

LEMMA TdivSmallStep ==
  ASSUME IInv, TdivSmall
  PROVE  IInv'
<1>1. pc = "quot" /\ Finish /\ c.fn = "tdiv_qr"
  BY DEF TdivSmall, At
<1>2. PICK m \in Int : m = Size(c.u)
  BY <1>1, Running
<1>3. Resized
  <2>1. CASE c.u # c.r
    <3>1. PICK x, y : x = c.r /\ y = c.w
      OBVIOUS
    <3>2. var' = [var EXCEPT ![x].size = m, ![y].size = 0]
      BY <1>2, <2>1, <3>1 DEF TdivSmall
    <3>3. x \in Var \cup {Temp} /\ y \in Var \cup {Temp} /\ 0 \in Int /\ m \in Int
      BY <1>1, <3>1, Running
    <3> QED
      BY <3>2, <3>3, TwoSizesKeep, Zenon
  <2>2. CASE c.u = c.r
    <3>1. PICK y : y = c.w
      OBVIOUS
    <3>2. var' = [var EXCEPT ![y].size = 0]
      BY <2>2, <3>1 DEF TdivSmall
    <3>3. y \in Var \cup {Temp} /\ 0 \in Int
      BY <1>1, <3>1, Running
    <3> QED
      BY <3>2, <3>3, OneSizeKeeps, Zenon
  <2> QED
    BY <2>1, <2>2
<1>4. DOMAIN heap' = DOMAIN heap
  <2>1. heap' = heap \/ \E p, n, x : heap' = Written(heap, p, n, x)
    BY DEF TdivSmall
  <2> QED
    BY <2>1, DomainWritten
<1>5. ~Copying /\ FinishWith(0)
  BY <1>1 DEF Copying, Finish
<1> QED
  BY <1>1, <1>3, <1>4, <1>5, ResultStep

LEMMA TdivGrowQuotStep ==
  ASSUME IInv, TdivGrowQuot
  PROVE  IInv'
<1>1. pc = "quot" /\ Goto("copy") /\ loc' = loc /\ Grow(c.w, QuotSize) /\ QuotSize > 0 /\ c.fn = "tdiv_qr"
  BY DEF TdivGrowQuot, At
<1>2. QuotSize \in Nat
  BY <1>1, Running DEF QuotSize
<1>3. Settled(Loose)
  BY <1>1, <1>2, Running, Grows, Zenon
<1>4. loc' \in Locals /\ loc'.free = None
  BY <1>1, Bare DEF IInv, Typing, Copying
<1> QED
  BY <1>1, <1>3, <1>4, GrowStep

LEMMA CopyOperandsStep ==
  ASSUME IInv, NEW fns, fns \subseteq {"tdiv_qr", "tdiv_q", "tdiv_r"}, CopyOperands(fns)
  PROVE  IInv'
<1>1. pc = "copy" /\ c.fn \in fns /\ Goto("compute") /\ var' = var
  BY DEF CopyOperands, At
<1>2. PICK u, v, w, r : u = var[c.u].d /\ v = var[c.v].d /\ w = var[c.w].d /\ r = var[c.r].d
  BY Zenon
<1>3. PICK up, vp : /\ up = IF u \in {w, r} THEN CopyU ELSE u
                    /\ vp = IF v \in {w, r} THEN CopyV ELSE v
  BY Zenon
<1>4. DOMAIN heap' = DOMAIN heap \cup ({up, vp} \cap Copy)
  BY <1>2, <1>3 DEF CopyOperands
<1>5. loc' = [loc EXCEPT !.up = up, !.vp = vp, !.wp = w, !.rp = r]
  BY <1>2, <1>3 DEF CopyOperands
<1>6. /\ u \in Block /\ v \in Block \cup {CopyD, None} /\ (v = CopyD => CopyD \in DOMAIN heap)
      /\ w \in Pointer /\ r \in Pointer
  <2>1. c.u \in Var /\ c.v \in Var \cup {Temp} /\ c.w \in Var /\ c.r \in Var \cup {Temp}
    BY <1>1, Running
  <2>2. v = CopyD => c.v = Temp
    BY <1>2, <2>1, NamesDiffer, Zenon DEF IInv, Typing
  <2> QED
    BY <1>2, <2>1, <2>2 DEF IInv, Typing, Fields, Ownership
<1>7. up \in Pointer /\ vp \in Pointer
  BY <1>3, <1>6 DEF Pointer, Copy
<1>8. loc' \in Locals /\ loc'.free = loc.free /\ loc'.up = up /\ loc'.vp = vp
  BY <1>5, <1>6, <1>7, Zenon DEF IInv, Typing, Locals
<1>9. PICK copy : copy = {CopyU, CopyV} \cap {up, vp}
  BY Zenon
<1>10. DOMAIN heap' = DOMAIN heap \cup copy /\ copy \cap Block = {}
       /\ (CopyU \in copy => up = CopyU) /\ (CopyV \in copy => vp = CopyV)
  <2>1. vp # CopyU
    <3>1. CopyU \notin Block /\ CopyU # CopyD /\ CopyU # None /\ CopyU # CopyV
      BY NamesDiffer DEF Copy
    <3> QED
      BY <1>3, <1>6, <3>1
  <2>2. CopyU \in copy => up = CopyU
    BY <1>9, <2>1
  <2>3. CopyV \in copy => vp = CopyV
    BY <1>3, <1>6, <1>9, NamesDiffer
  <2>4. copy \subseteq {up, vp} \cap Copy
    BY <1>9 DEF Copy
  <2>5. {up, vp} \cap Copy \subseteq copy \cup {CopyD}
    BY <1>9 DEF Copy
  <2>6. CopyD \in {up, vp} => CopyD \in DOMAIN heap
    BY <1>3, <1>6, NamesDiffer
  <2> QED
    BY <1>4, <1>9, <2>2, <2>3, <2>4, <2>5, <2>6, NamesDiffer
<1>11. PICK L : L = Loose \cup copy
  BY Zenon
<1>12. Settled(L)
  BY <1>1, <1>10, <1>11, CopiesSettle
<1>13. (\A q \in Loose : q = CopyD) /\ (var[Temp].d = CopyD <=> CopyD \in Loose) /\ loc.free = None
  BY <1>1, Bare DEF Copying
<1>14. ASSUME NEW q \in L PROVE Freed(q)'
  <2>1. CASE q \in Loose
    BY <1>1, <1>13, <2>1 DEF Freed
  <2>2. CASE q \in copy
    <3>1. Copying'
      BY <1>1, Zenon DEF Goto, Copying, c
    <3> QED
      BY <1>8, <1>9, <1>10, <2>2, <3>1 DEF Freed
  <2> QED
    BY <1>11, <2>1, <2>2
<1>15. var[Temp].d = CopyD => CopyD \in L
  BY <1>11, <1>13
<1> QED
  BY <1>1, <1>8, <1>12, <1>13, <1>14, <1>15, GotoStep

LEMMA TdivComputeStep ==
  ASSUME IInv, TdivCompute
  PROVE  IInv'
<1>1. pc = "compute" /\ Finish /\ c.fn = "tdiv_qr"
  BY DEF TdivCompute, At
<1>2. PICK n \in Nat, k \in Int : n = Abs(loc.vs) /\ k = QuotSize
  BY <1>1, Running DEF QuotSize
<1>3. PICK x, y : x = c.w /\ y = c.r
  OBVIOUS
<1>4. PICK f, g, q, r : var' = [var EXCEPT ![x].size = Signed(f, LessTop(k, q)),
                                           ![y].size = Signed(g, Normalized(n, r))]
  BY <1>2, <1>3, Zenon DEF TdivCompute
<1>5. LessTop(k, q) \in Int /\ Normalized(n, r) \in Int
  BY LessTopType, NormalizedType
<1>6. Signed(f, LessTop(k, q)) \in Int /\ Signed(g, Normalized(n, r)) \in Int
  BY <1>5, SignedType
<1>7. x \in Var \cup {Temp} /\ y \in Var \cup {Temp}
  BY <1>1, <1>3, Running
<1>8. Resized
  BY <1>4, <1>6, <1>7, TwoSizesKeep, Zenon
<1>9. DOMAIN heap' = DOMAIN heap \ {CopyU, CopyV}
  <2>1. \E p, i, a, q1, j, b : heap' = Without(Written(Written(heap, p, i, a), q1, j, b), {CopyU, CopyV})
    BY DEF TdivCompute
  <2>2. PICK h, p, i, a, q1, j, b, S : /\ heap' = Without(Written(h, q1, j, b), S)
                                       /\ S = {CopyU, CopyV} /\ h = Written(heap, p, i, a)
    BY <2>1
  <2>3. DOMAIN heap' = DOMAIN Written(h, q1, j, b) \ S
    BY <2>2, DomainWithout
  <2>4. DOMAIN Written(h, q1, j, b) = DOMAIN h /\ DOMAIN h = DOMAIN heap
    BY <2>2, DomainWritten
  <2> QED
    BY <2>2, <2>3, <2>4
<1>10. PICK S : S = {CopyU, CopyV}
  BY Zenon
<1> QED
  BY <1>1, <1>8, <1>9, <1>10, FreeingStep

LEMMA DivTruncateStep ==
  ASSUME IInv, DivTruncate
  PROVE  IInv'
<1>1. pc = "enter" /\ c.fn \in {"fdiv_qr", "cdiv_qr"} /\ pc' = pc /\ loc' = loc
  BY DEF DivTruncate, At
<1>2. PICK K : K = {c.k, 0, 1}
  BY Zenon
<1>3. PICK t : t = c
  OBVIOUS
<1>4. /\ t \in Task(K) /\ t.r \in Var /\ t.v \in Var /\ t.w \in Var /\ t.k \in Nat
  <2>1. /\ c \in Task({c.k}) /\ TempUse(c) /\ (c.fn \notin AorsUiFns => c.k \in Nat)
        /\ c.w \in Var /\ c.r \in Var \cup {Temp} /\ c.v \in Var \cup {Temp}
    BY <1>1, Running, Arguments
  <2>2. c.r # Temp /\ c.v # Temp /\ c.k \in Nat
    BY <1>1, <2>1 DEF TempUse, AorsUiFns
  <2>3. c \in Task(K)
    BY <1>2, <2>1 DEF Task
  <2> QED
    BY <1>3, <2>1, <2>2, <2>3
<1>5. PICK d, f, k, a, b :
        /\ d = IF DivCopy(t.v) THEN Temp ELSE t.v
        /\ f \in {"floor", "ceiling"} /\ k \in {0, 1}
        /\ a = [t EXCEPT !.fn = "tdiv_qr", !.v = d]
        /\ b = [t EXCEPT !.fn = f, !.v = d, !.k = k]
        /\ todo' = <<a, b>> \o Tail(todo)
  <2>1. PICK k : k = IF OppositeSigns(Size(c.u), Size(c.v)) THEN 1 ELSE 0
    OBVIOUS
  <2>2. PICK f : f = IF t.fn = "fdiv_qr" THEN "floor" ELSE "ceiling"
    OBVIOUS
  <2>3. PICK d : d = IF DivCopy(t.v) THEN Temp ELSE t.v
    OBVIOUS
  <2>4. todo' = << [t EXCEPT !.fn = "tdiv_qr", !.v = d], [t EXCEPT !.fn = f, !.v = d, !.k = k] >>
                  \o Tail(todo)
    BY <1>3, <2>1, <2>2, <2>3 DEF DivTruncate
  <2>5. f \in {"floor", "ceiling"} /\ k \in {0, 1}
    BY <2>1, <2>2
  <2> QED
    BY <2>3, <2>4, <2>5, Zenon
<1>6. d \in Var \cup {Temp} /\ (d = Temp <=> DivCopy(t.v))
  BY <1>4, <1>5, NamesDiffer
<1>7. a \in Task(K) /\ a.fn = "tdiv_qr" /\ a.v = d /\ a.r = t.r /\ a.k = t.k
  BY <1>4, <1>5, <1>6, Zenon DEF Task, CalledFns
<1>8. b \in Task(K) /\ b.fn = f /\ b.v = d /\ b.r = t.r /\ b.k = k
  BY <1>2, <1>4, <1>5, <1>6, Zenon DEF Task, CalledFns
<1>9. /\ var' \in [Var \cup {Temp} -> Fields] /\ var'[Temp].d \in {var[Temp].d, CopyD}
      /\ \A x \in Var : var'[x] = var[x]
      /\ DOMAIN heap' = DOMAIN heap \/ (DOMAIN heap' = DOMAIN heap \cup {CopyD} /\ var'[Temp].d = CopyD)
      /\ var'[Temp].d = CopyD => CopyD \in DOMAIN heap'
      /\ d = Temp => var'[Temp].d = CopyD
  <2>1. CASE DivCopy(t.v)
    <3>1. PICK n, m, e : /\ var' = [var EXCEPT ![Temp] = [alloc |-> n, size |-> m, d |-> CopyD]]
                         /\ n = Abs(Size(c.v)) /\ m = Size(c.v)
                         /\ heap' = With(heap, CopyD, e)
      BY <1>3, <2>1 DEF DivTruncate
    <3>2. n \in Nat /\ m \in Int
      BY <1>1, <3>1, Running
    <3> QED
      BY <3>1, <3>2, TempMade, Zenon
  <2>2. CASE ~DivCopy(t.v)
    <3>1. UNCHANGED <<heap, var>>
      BY <1>3, <2>2 DEF DivTruncate
    <3> QED
      BY <1>6, <2>2, <3>1 DEF IInv, Typing, Ownership
  <2> QED
    BY <2>1, <2>2
<1>10. TempUse(a)' /\ TempUse(b)'
  BY <1>4, <1>5, <1>7, <1>8, <1>9, NamesDiffer DEF TempUse
<1>11. ~ (a.fn = "tdiv_qr" /\ a.r = Temp) /\ b.fn # "tdiv_qr" /\ a.k \in Nat /\ b.k \in Nat
  BY <1>4, <1>5, <1>7, <1>8, NamesDiffer
<1> QED
  BY <1>1, <1>5, <1>7, <1>8, <1>9, <1>10, <1>11, CallTwo, Zenon

LEMMA DivAdjustStep ==
  ASSUME IInv, DivAdjust
  PROVE  IInv'
<1>1. /\ pc = "enter" /\ c.fn \in {"floor", "ceiling"} /\ pc' = pc /\ loc' = loc
      /\ heap' = heap /\ var' = var
  BY DEF DivAdjust, At
<1>2. PICK K, t : K = {c.k, 0, 1} /\ t = c
  BY Zenon
<1>3. /\ t \in Task(K) /\ t.r \in Var /\ t.w \in Var /\ t.v \in Var \cup {Temp}
      /\ t.v = Temp => var[Temp].d = CopyD
  <2>1. /\ c \in Task({c.k}) /\ TempUse(c)
        /\ c.w \in Var /\ c.r \in Var \cup {Temp} /\ c.v \in Var \cup {Temp}
    BY <1>1, Running, Arguments
  <2>2. c.r # Temp
    BY <1>1, <2>1 DEF TempUse
  <2>3. c \in Task(K)
    BY <1>2, <2>1 DEF Task
  <2>4. c.v = Temp => var[Temp].d = CopyD
    BY <2>1 DEF TempUse
  <2> QED
    BY <1>2, <2>1, <2>2, <2>3, <2>4
<1>4. PICK f, g : /\ f \in {"sub_ui", "add_ui"} /\ g \in {"add", "sub"}
                  /\ todo' = << [t EXCEPT !.fn = f, !.r = t.w, !.u = t.w, !.v = t.w, !.k = 1],
                                [t EXCEPT !.fn = g, !.w = t.r, !.u = t.r, !.k = 0] >> \o Tail(todo)
  <2>1. CASE t.fn = "floor"
    BY <1>2, <2>1, Zenon DEF DivAdjust
  <2>2. CASE t.fn # "floor"
    BY <1>2, <2>2, Zenon DEF DivAdjust
  <2> QED
    BY <2>1, <2>2, Zenon
<1>5. PICK a, b : /\ a = [t EXCEPT !.fn = f, !.r = t.w, !.u = t.w, !.v = t.w, !.k = 1]
                  /\ b = [t EXCEPT !.fn = g, !.w = t.r, !.u = t.r, !.k = 0]
  OBVIOUS
<1>6. a \in Task(K) /\ a.fn = f /\ a.v = t.w /\ a.r = t.w /\ a.k = 1
  BY <1>2, <1>3, <1>4, <1>5, Zenon DEF Task, CalledFns
<1>7. b \in Task(K) /\ b.fn = g /\ b.v = t.v /\ b.r = t.r /\ b.k = 0
  BY <1>2, <1>3, <1>4, <1>5, Zenon DEF Task, CalledFns
<1>8. todo' = <<a, b>> \o Tail(todo)
  BY <1>4, <1>5
<1>9. TempUse(a)' /\ TempUse(b)'
  BY <1>1, <1>3, <1>4, <1>6, <1>7, NamesDiffer DEF TempUse
<1>10. var' \in [Var \cup {Temp} -> Fields] /\ (var'[Temp].d = CopyD => CopyD \in DOMAIN heap')
  BY <1>1 DEF IInv, Typing, Ownership
<1>11. a.fn # "tdiv_qr" /\ b.fn # "tdiv_qr" /\ a.k \in Nat /\ b.k \in Nat
  BY <1>4, <1>6, <1>7
<1> QED
  BY <1>1, <1>6, <1>7, <1>8, <1>9, <1>10, <1>11, CallTwo

LEMMA DivDoneStep ==
  ASSUME IInv, DivDone
  PROVE  IInv'
<1>1. pc = "enter" /\ FinishWith(0) /\ UNCHANGED <<heap, var>>
  BY DEF DivDone, At, Finish
<1> QED
  BY <1>1, Unmoved, SettledStep

LEMMA NegInPlaceStep ==
  ASSUME IInv, NegInPlace
  PROVE  IInv'
<1>1. pc = "enter" /\ Finish /\ heap' = heap /\ c.w \in Var
  BY Running DEF NegInPlace, At
<1>2. PICK m \in Int : m = Size(c.w)
  BY <1>1, Running
<1>3. Sized(c.w, m)
  BY <1>1, <1>2 DEF NegInPlace, Sized, Size, IInv, Typing
<1> QED
  BY <1>1, <1>2, <1>3, GivesStep DEF Copying

LEMMA SetGrowStep ==
  ASSUME IInv, SetGrow
  PROVE  IInv'
<1>1. pc = "enter" /\ Grow(c.w, Abs(Size(c.u))) /\ NoteOperand /\ Goto("compute")
  BY DEF SetGrow, At
<1>2. Settled(Loose)
  BY <1>1, Running, Grows
<1> QED
  BY <1>1, <1>2, NoteStep

LEMMA SetCopyStep ==
  ASSUME IInv, SetCopy
  PROVE  IInv'
<1>1. pc = "compute" /\ c.fn \in {"set", "neg"} /\ Finish
  BY DEF SetCopy, At
<1>2. Sized(c.w, loc.us) /\ loc.us \in Int
  BY <1>1, Running, Zenon DEF SetCopy, Sized
<1>3. DOMAIN heap' = DOMAIN heap
  BY DomainWritten DEF SetCopy
<1>4. ~Copying
  BY <1>1 DEF Copying, BitFn
<1> QED
  BY <1>1, <1>2, <1>3, <1>4, GivesStep

LEMMA SwapStep ==
  ASSUME IInv, Swap
  PROVE  IInv'
<1>1. pc = "enter" /\ FinishWith(0) /\ heap' = heap /\ c.w \in Var /\ c.u \in Var
  BY Running DEF Swap, At, Finish
<1>2. PICK x \in Var, y \in Var : x = c.w /\ y = c.u
  BY <1>1
<1>3. var' = [var EXCEPT ![x] = var[y], ![y] = var[x]]
  BY <1>2 DEF Swap
<1>4. /\ var \in [Var \cup {Temp} -> Fields] /\ \A z \in Var : var[z].d \in Block
      /\ \A z1, z2 \in Var : z1 # z2 => var[z1].d # var[z2].d
  BY DEF IInv, Typing, Ownership
<1>5. /\ var' \in [Var \cup {Temp} -> Fields] /\ var'[Temp] = var[Temp] /\ var'[x] = var[y] /\ var'[y] = var[x]
      /\ \A z \in Var : z # x /\ z # y => var'[z] = var[z]
  BY <1>3, <1>4, NamesDiffer
<1>6. \A z1, z2 \in Var : z1 # z2 => var'[z1].d # var'[z2].d
  BY <1>4, <1>5
<1>7. Held' = Held
  BY <1>5 DEF Held
<1>8. Settled(Loose)
  BY <1>1, <1>4, <1>5, <1>6, <1>7 DEF Settled, Loose, IInv, Ownership
<1> QED
  BY <1>1, <1>8, SettledStep

LEMMA SetUiStep ==
  ASSUME IInv, SetUi
  PROVE  IInv'
<1>1. pc = "enter" /\ Finish
  BY DEF SetUi, At
<1>2. Sized(c.w, 0) \/ Sized(c.w, 1)
  BY Zenon DEF SetUi, SetSize, Signed, Sized
<1>3. DOMAIN heap' = DOMAIN heap
  BY DomainWritten DEF SetUi
<1>4. ~Copying
  BY <1>1 DEF Copying
<1> QED
  BY <1>1, <1>2, <1>3, <1>4, GivesStep

LEMMA ReallocStep ==
  ASSUME IInv, Realloc
  PROVE  IInv'
<1>1. pc = "enter" /\ c.fn = "realloc" /\ FinishWith(0) /\ Reallocate(c.w, MaxOf(c.k, 1))
  BY DEF Realloc, At, Finish
<1>2. c.w \in Var /\ c.k \in Nat
  BY <1>1, Running, Arguments DEF AorsUiFns
<1>3. MaxOf(c.k, 1) \in Nat
  BY <1>2 DEF MaxOf
<1>4. Settled(Loose)
  BY <1>1, <1>2, <1>3, ReallocateMoves, MovedSettles
<1> QED
  BY <1>1, <1>4, SettledStep

-----------------------------------------------------------------------------
(* The steps of MpzDivide.                                                 *)

LEMMA DivideByZeroStep ==
  ASSUME IInv, DivideByZero
  PROVE  IInv'
<1>1. pc = "enter" /\ Goto("raised") /\ UNCHANGED <<heap, var, loc>>
  BY DEF DivideByZero, At
<1> QED
  BY <1>1, RaiseStep

LEMMA TdivQSmallStep ==
  ASSUME IInv, TdivQSmall
  PROVE  IInv'
<1>1. pc = "enter" /\ Finish /\ heap' = heap
  BY DEF TdivQSmall, At
<1>2. Sized(c.w, 0)
  BY DEF TdivQSmall, SetSize, Signed, Sized
<1> QED
  BY <1>1, <1>2, GivesStep DEF Copying

LEMMA TdivQGrowStep ==
  ASSUME IInv, TdivQGrow
  PROVE  IInv'
<1>1. /\ pc = "enter" /\ Goto("copy") /\ loc' = OperandSizes /\ LongEnough
      /\ Grow(c.w, Abs(Size(c.u)) - Abs(Size(c.v)) + 1)
  BY DEF TdivQGrow, At
<1>2. Abs(Size(c.u)) - Abs(Size(c.v)) + 1 \in Nat
  BY <1>1, Running DEF LongEnough
<1>3. Settled(Loose)
  BY <1>1, <1>2, Running, Grows, Zenon
<1>4. loc' \in Locals /\ loc'.free = None
  BY <1>1, OperandSizesType
<1> QED
  BY <1>1, <1>3, <1>4, GrowStep

\* A quotient or a remainder is computed, and the copies are freed.
LEMMA QuotientStep ==
  ASSUME IInv, pc = "compute", c.fn # "mul", Finish, NEW n, n \in Int, Sized(c.w, n),
         NEW p, NEW k, NEW x, heap' = Without(Written(heap, p, k, x), {CopyU, CopyV})
  PROVE  IInv'
<1>1. PICK S : S = {CopyU, CopyV}
  OBVIOUS
<1>2. DOMAIN heap' = DOMAIN heap \ S
  <2>1. heap' = Without(Written(heap, p, k, x), S)
    BY <1>1
  <2>2. DOMAIN heap' = DOMAIN Written(heap, p, k, x) \ S
    BY <2>1, DomainWithout, Zenon
  <2>3. DOMAIN Written(heap, p, k, x) = DOMAIN heap
    BY DomainWritten
  <2> QED
    BY <2>2, <2>3
<1>3. Resized
  BY Running, SizedKeeps, Zenon
<1> QED
  BY <1>1, <1>2, <1>3, FreeingStep

LEMMA TdivQComputeStep ==
  ASSUME IInv, TdivQCompute
  PROVE  IInv'
<1>1. pc = "compute" /\ c.fn \in {"tdiv_q"} /\ Finish
  BY DEF TdivQCompute, At
<1>2. QuotSize \in Int
  BY <1>1, Running DEF QuotSize
<1>3. \E x : Sized(c.w, LessTop(QuotSize, x))
  BY Zenon DEF TdivQCompute, SetSize, Signed, Sized
<1>4. PICK n : n \in Int /\ Sized(c.w, n)
  BY <1>2, <1>3, LessTopType
<1>5. \E k, x : heap' = Without(Written(heap, loc.wp, k, x), {CopyU, CopyV})
  BY DEF TdivQCompute
<1> QED
  BY <1>1, <1>4, <1>5, QuotientStep

LEMMA TdivRGrowStep ==
  ASSUME IInv, TdivRGrow
  PROVE  IInv'
<1>1. pc = "enter" /\ loc' = OperandSizes /\ Grow(c.w, Abs(Size(c.v)))
  BY DEF TdivRGrow, At
<1>2. Goto("copy") \/ Goto("quot")
  BY DEF TdivRGrow
<1>3. Settled(Loose)
  BY <1>1, Running, Grows, Zenon
<1>4. loc' \in Locals /\ loc'.free = None
  BY <1>1, OperandSizesType
<1> QED
  BY <1>1, <1>2, <1>3, <1>4, GrowStep

LEMMA TdivRSmallStep ==
  ASSUME IInv, TdivRSmall
  PROVE  IInv'
<1>1. pc = "quot" /\ c.fn \in {"tdiv_r"} /\ FinishWith(0)
  BY DEF TdivRSmall, At, Finish
<1>2. PICK m \in Int : m = Size(c.u)
  BY <1>1, Running
<1>3. Resized
  <2>1. CASE c.u # c.w
    <3>1. PICK y : y = c.w
      OBVIOUS
    <3>2. var' = [var EXCEPT ![y].size = m]
      BY <1>2, <2>1, <3>1 DEF TdivRSmall
    <3>3. y \in Var \cup {Temp} /\ m \in Int
      BY <1>1, <3>1, Running, Zenon
    <3> QED
      BY <3>2, <3>3, OneSizeKeeps, Zenon
  <2>2. CASE c.u = c.w
    BY <2>2, Unmoved DEF TdivRSmall
  <2> QED
    BY <2>1, <2>2
<1>4. DOMAIN heap' = DOMAIN heap
  <2>1. heap' = heap \/ \E p, n, x : heap' = Written(heap, p, n, x)
    BY DEF TdivRSmall
  <2> QED
    BY <2>1, DomainWritten
<1>5. ~Copying
  BY <1>1 DEF Copying
<1> QED
  BY <1>1, <1>3, <1>4, <1>5, ResultStep

LEMMA TdivRComputeStep ==
  ASSUME IInv, TdivRCompute
  PROVE  IInv'
<1>1. pc = "compute" /\ c.fn \in {"tdiv_r"} /\ Finish
  BY DEF TdivRCompute, At
<1>2. PICK m \in Nat : m = Abs(loc.vs)
  BY <1>1, Running
<1>3. \E x : Sized(c.w, Normalized(m, x))
  BY <1>2, Zenon DEF TdivRCompute, SetSize, Signed, Sized
<1>4. PICK n : n \in Int /\ Sized(c.w, n)
  BY <1>3, NormalizedType
<1>5. \E k, x : heap' = Without(Written(heap, loc.wp, k, x), {CopyU, CopyV})
  BY DEF TdivRCompute
<1> QED
  BY <1>1, <1>4, <1>5, QuotientStep

LEMMA TdivQCopyStep ==
  ASSUME IInv, TdivQCopy
  PROVE  IInv'
<1>1. PICK fns : fns = {"tdiv_q"}
  BY Zenon
<1>2. CopyOperands(fns) /\ fns \subseteq {"tdiv_qr", "tdiv_q", "tdiv_r"}
  BY <1>1 DEF TdivQCopy
<1> QED
  BY <1>2, CopyOperandsStep, Zenon

LEMMA TdivRCopyStep ==
  ASSUME IInv, TdivRCopy
  PROVE  IInv'
<1>1. PICK fns : fns = {"tdiv_r"}
  BY Zenon
<1>2. CopyOperands(fns) /\ fns \subseteq {"tdiv_qr", "tdiv_q", "tdiv_r"}
  BY <1>1 DEF TdivRCopy
<1> QED
  BY <1>2, CopyOperandsStep, Zenon

\* The running function is one the program may call, and its operands are the
\* program's variables.
LEMMA CalledByProgram ==
  ASSUME IInv, pc = "enter", NEW K, c.k \in K,
         c.fn \notin CalledFns
  PROVE  c \in Task(K) /\ c.w \in Var /\ c.r \in Var /\ c.u \in Var /\ c.v \in Var /\ c.k \in Nat
<1>1. /\ c \in Task({c.k}) /\ TempUse(c) /\ (c.fn \notin AorsUiFns => c.k \in Nat)
      /\ c.w \in Var /\ c.u \in Var /\ c.r \in Var \cup {Temp} /\ c.v \in Var \cup {Temp}
  BY Running, Arguments
<1>2. c.r # Temp /\ c.v # Temp /\ c.k \in Nat
  BY <1>1 DEF TempUse, CalledFns
<1>3. c \in Task(K)
  BY <1>1 DEF Task
<1> QED
  BY <1>1, <1>2, <1>3

\* A function that rounds a quotient or a remainder calls the division and then the
\* correction.
LEMMA RoundQStep ==
  ASSUME IInv, NEW fn \in {"fdiv_q", "cdiv_q"}, NEW correct \in {"floor_q", "ceiling_q"},
         RoundQ(fn, correct)
  PROVE  IInv'
<1>1. pc = "enter" /\ c.fn = fn /\ pc' = pc /\ loc' = loc
  BY DEF RoundQ, At, Then
<1>2. PICK K, t : K = {c.k, 0, 1} /\ t = c
  BY Zenon
<1>3. t \in Task(K) /\ t.w \in Var /\ t.v \in Var /\ t.k \in Nat
  <2>1. c.fn \notin CalledFns /\ c.k \in K
    BY <1>1, <1>2 DEF CalledFns, AorsUiFns
  <2> QED
    BY <1>1, <1>2, <2>1, CalledByProgram
<1>4. PICK a, b, k :
        /\ k \in {0, 1}
        /\ a = [t EXCEPT !.fn = "tdiv_qr", !.r = Temp]
        /\ b = [t EXCEPT !.fn = correct, !.r = Temp, !.k = k]
        /\ todo' = <<a, b>> \o Tail(todo)
  BY <1>2, Zenon DEF RoundQ, Then
<1>5. a \in Task(K) /\ a.fn = "tdiv_qr" /\ a.v = t.v /\ a.r = Temp /\ a.k = t.k
  BY <1>3, <1>4, Zenon DEF Task, CalledFns
<1>6. b \in Task(K) /\ b.fn = correct /\ b.v = t.v /\ b.r = Temp /\ b.k = k
  BY <1>2, <1>3, <1>4, Zenon DEF Task, CalledFns
<1>7. PICK n, m, e : /\ n = Abs(Size(t.v)) /\ m = 0
                     /\ var' = [var EXCEPT ![Temp] = [alloc |-> n, size |-> m, d |-> CopyD]]
                     /\ heap' = With(heap, CopyD, e)
  BY <1>2, Zenon DEF RoundQ
<1>8. n \in Nat /\ m \in Int
  BY <1>1, <1>2, <1>7, Running
<1>9. /\ var' \in [Var \cup {Temp} -> Fields] /\ var'[Temp].d = CopyD /\ var'[Temp].alloc = n
      /\ \A x \in Var : var'[x] = var[x]
      /\ DOMAIN heap' = DOMAIN heap \cup {CopyD} /\ CopyD \in DOMAIN heap'
  BY <1>7, <1>8, TempMade, Zenon
<1>10. a.v \in Var /\ var'[Temp].alloc = Abs(var'[a.v].size)
  BY <1>3, <1>5, <1>7, <1>9 DEF Size
<1>11. TempUse(a)' /\ TempUse(b)'
  BY <1>3, <1>5, <1>6, <1>9, NamesDiffer DEF TempUse
<1>12. a.k \in Nat /\ b.k \in Nat /\ b.fn # "tdiv_qr"
  BY <1>3, <1>4, <1>5, <1>6
<1> QED
  BY <1>1, <1>4, <1>5, <1>6, <1>9, <1>10, <1>11, <1>12, CallTwo, Zenon

LEMMA RoundRStep ==
  ASSUME IInv, NEW fn \in {"fdiv_r", "cdiv_r", "mod"}, NEW correct \in {"floor_r", "ceiling_r", "least_r"},
         RoundR(fn, correct)
  PROVE  IInv'
<1>1. pc = "enter" /\ c.fn = fn /\ pc' = pc /\ loc' = loc
  BY DEF RoundR, At, Then
<1>2. PICK K, t : K = {c.k, 0, 1} /\ t = c
  BY Zenon
<1>3. t \in Task(K) /\ t.w \in Var /\ t.v \in Var /\ t.r \in Var /\ t.k \in Nat
  <2>1. c.fn \notin CalledFns /\ c.k \in K
    BY <1>1, <1>2 DEF CalledFns, AorsUiFns
  <2> QED
    BY <1>1, <1>2, <2>1, CalledByProgram
<1>4. PICK k, d : /\ k = IF Size(c.v) < 0 THEN 1 ELSE 0
                  /\ d = IF t.v = t.w THEN Temp ELSE t.v
  OBVIOUS
<1>5. k \in {0, 1}
  BY <1>4
<1>6. PICK a, b : /\ a = [t EXCEPT !.fn = "tdiv_r", !.v = d]
                  /\ b = [t EXCEPT !.fn = correct, !.v = d, !.k = k]
  OBVIOUS
<1>7. todo' = <<a, b>> \o Tail(todo)
  BY <1>2, <1>4, <1>6 DEF RoundR, Then
<1>8. d \in Var \cup {Temp} /\ (d = Temp <=> t.v = t.w)
  BY <1>3, <1>4, NamesDiffer
<1>9. a \in Task(K) /\ a.fn = "tdiv_r" /\ a.v = d /\ a.r = t.r /\ a.k = t.k
  BY <1>3, <1>6, <1>8, Zenon DEF Task, CalledFns
<1>10. b \in Task(K) /\ b.fn = correct /\ b.v = d /\ b.r = t.r /\ b.k = k
  BY <1>2, <1>3, <1>5, <1>6, <1>8, Zenon DEF Task, CalledFns
<1>11. /\ var' \in [Var \cup {Temp} -> Fields] /\ var'[Temp].d \in {var[Temp].d, CopyD}
       /\ \A x \in Var : var'[x] = var[x]
       /\ DOMAIN heap' = DOMAIN heap \/ (DOMAIN heap' = DOMAIN heap \cup {CopyD} /\ var'[Temp].d = CopyD)
       /\ var'[Temp].d = CopyD => CopyD \in DOMAIN heap'
       /\ d = Temp => var'[Temp].d = CopyD
  <2>1. CASE t.v = t.w
    <3>1. PICK n, m, e : /\ var' = [var EXCEPT ![Temp] = [alloc |-> n, size |-> m, d |-> CopyD]]
                         /\ n = Abs(Size(c.v)) /\ m = Size(c.v)
                         /\ heap' = With(heap, CopyD, e)
      BY <1>2, <2>1 DEF RoundR
    <3>2. n \in Nat /\ m \in Int
      BY <1>1, <3>1, Running
    <3> QED
      BY <3>1, <3>2, TempMade, Zenon
  <2>2. CASE t.v # t.w
    <3>1. UNCHANGED <<heap, var>>
      BY <1>2, <2>2 DEF RoundR
    <3> QED
      BY <1>8, <2>2, <3>1 DEF IInv, Typing, Ownership
  <2> QED
    BY <2>1, <2>2
<1>12. TempUse(a)' /\ TempUse(b)'
  BY <1>3, <1>8, <1>9, <1>10, <1>11, NamesDiffer DEF TempUse
<1>13. ~ (a.fn = "tdiv_qr" /\ a.r = Temp) /\ b.fn # "tdiv_qr" /\ a.k \in Nat /\ b.k \in Nat
  BY <1>3, <1>5, <1>9, <1>10
<1> QED
  BY <1>1, <1>7, <1>9, <1>10, <1>11, <1>12, <1>13, CallTwo, Zenon

LEMMA CorrectQStep ==
  ASSUME IInv, CorrectQ
  PROVE  IInv'
<1>1. pc = "enter" /\ c.fn \in {"floor_q", "ceiling_q"} /\ UNCHANGED <<heap, var>>
  BY DEF CorrectQ, At
<1>2. CASE Finish
  <2>1. FinishWith(0)
    BY <1>2 DEF Finish
  <2> QED
    BY <1>1, <2>1, Unmoved, SettledStep
<1>3. CASE ~Finish
  <2>1. PICK K, t : K = {1} /\ t = c
    BY Zenon
  <2>2. UNCHANGED <<pc, loc>>
    BY <1>3 DEF CorrectQ, Then
  <2>3. PICK f : f = IF t.fn = "floor_q" THEN "sub_ui" ELSE "add_ui"
    OBVIOUS
  <2>4. f \in {"sub_ui", "add_ui"}
    BY <2>3
  <2>5. PICK a : a = [t EXCEPT !.fn = f, !.r = t.w, !.u = t.w, !.v = t.w, !.k = 1]
    OBVIOUS
  <2>6. todo' = <<a>> \o Tail(todo)
    BY <1>3, <2>1, <2>3, <2>5 DEF CorrectQ, Then
  <2>7. t.w \in Var /\ t \in Task({t.k})
    BY <1>1, <2>1, Running, Arguments
  <2>8. a \in Task(K) /\ a.fn = f /\ a.v = t.w /\ a.r = t.w /\ a.k = 1
    BY <2>1, <2>4, <2>5, <2>7, Zenon DEF Task, CalledFns
  <2>9. TempUse(a) /\ a.k \in Nat /\ a.fn # "tdiv_qr"
    BY <2>4, <2>7, <2>8, NamesDiffer DEF TempUse
  <2> QED
    BY <1>1, <2>2, <2>6, <2>8, <2>9, CallOne
<1> QED
  BY <1>2, <1>3

LEMMA CorrectRStep ==
  ASSUME IInv, CorrectR
  PROVE  IInv'
<1>1. pc = "enter" /\ c.fn \in {"floor_r", "ceiling_r", "least_r"} /\ UNCHANGED <<heap, var>>
  BY DEF CorrectR, At
<1>2. CASE Finish
  <2>1. FinishWith(0)
    BY <1>2 DEF Finish
  <2> QED
    BY <1>1, <2>1, Unmoved, SettledStep
<1>3. CASE ~Finish
  <2>1. PICK K, t : K = {0} /\ t = c
    BY Zenon
  <2>2. \E f \in {"add", "sub"} : Then(<<[c EXCEPT !.fn = f, !.u = c.w, !.k = 0]>>)
    <3>1. Size(c.w) = 0 \/ Size(c.w) # 0
      OBVIOUS
    <3>2. CASE c.fn = "floor_r"
      BY <1>3, <3>2, Zenon DEF CorrectR
    <3>3. CASE c.fn = "ceiling_r"
      BY <1>3, <3>3, Zenon DEF CorrectR
    <3>4. CASE c.fn = "least_r"
      BY <1>3, <3>4, Zenon DEF CorrectR
    <3> QED
      BY <1>1, <3>2, <3>3, <3>4
  <2>3. PICK f \in {"add", "sub"} : Then(<<[t EXCEPT !.fn = f, !.u = t.w, !.k = 0]>>)
    BY <2>1, <2>2, Zenon
  <2>4. PICK a : a = [t EXCEPT !.fn = f, !.u = t.w, !.k = 0]
    OBVIOUS
  <2>5. todo' = <<a>> \o Tail(todo) /\ UNCHANGED <<pc, loc>>
    BY <2>3, <2>4 DEF Then
  <2>6. t.w \in Var /\ t \in Task({t.k}) /\ TempUse(t)
    BY <1>1, <2>1, Running, Arguments
  <2>7. a \in Task(K) /\ a.fn = f /\ a.v = t.v /\ a.r = t.r /\ a.k = 0
    BY <2>1, <2>4, <2>6, Zenon DEF Task, CalledFns
  <2>8. TempUse(a) /\ a.k \in Nat /\ a.fn # "tdiv_qr"
    BY <1>1, <2>1, <2>6, <2>7 DEF TempUse
  <2> QED
    BY <1>1, <2>5, <2>7, <2>8, CallOne
<1> QED
  BY <1>2, <1>3

LEMMA UiOfZeroStep ==
  ASSUME IInv, UiOfZero
  PROVE  IInv'
<1>1. pc = "enter" /\ heap' = heap /\ FinishWith(0)
  BY DEF UiOfZero, At, Finish
<1>2. PICK x, y : x = c.w /\ y = c.r
  OBVIOUS
<1>3. var' = var \/ var' = [var EXCEPT ![x].size = 0, ![y].size = 0]
  BY <1>2 DEF UiOfZero
<1>4. x \in Var \cup {Temp} /\ y \in Var \cup {Temp} /\ 0 \in Int
  BY <1>1, <1>2, Running
<1>5. Resized
  BY <1>1, <1>3, <1>4, TwoSizesKeep, Unmoved
<1> QED
  BY <1>1, <1>5, ResultStep DEF Copying

LEMMA UiDivGrowStep ==
  ASSUME IInv, UiDivGrow
  PROVE  IInv'
<1>1. pc = "enter" /\ NoteOperand /\ Goto("compute")
  BY DEF UiDivGrow, At
<1>2. Grow(c.w, Abs(Size(c.u))) \/ UNCHANGED <<heap, var>>
  BY DEF UiDivGrow
<1>3. Settled(Loose)
  BY <1>1, <1>2, Running, Grows, Unmoved
<1> QED
  BY <1>1, <1>3, NoteStep

LEMMA UiDivStep ==
  ASSUME IInv, NEW fn \in Calculator!DivUiFns, NEW away, NEW sign \in Int, UiDiv(fn, away, sign)
  PROVE  IInv'
<1>1. pc = "compute" /\ c.fn = fn
  BY DEF UiDiv, At
<1>2. ~Copying /\ c.fn # "mul"
  BY <1>1 DEF Copying, BitFn, Calculator!DivUiFns, Calculator!QuotUiFns, Calculator!RemUiFns,
              Calculator!QuotRemUiFns, Calculator!OnlyUiFns
<1>3. \E value : FinishWith(value)
  BY DEF UiDiv
<1>4. PICK n \in Int : n = Abs(loc.us)
  BY <1>1, Running
<1>5. /\ var' = [x \in DOMAIN var |-> var'[x]]
      /\ \A x \in DOMAIN var : \E m :
           /\ var'[x] = [var[x] EXCEPT !.size = m]
           /\ m \in {var[x].size, 0, sign} \/ \E f, q : m = Signed(f, LessTop(n, q))
  BY <1>4, Zenon DEF UiDiv
<1>6. var \in [Var \cup {Temp} -> Fields]
  BY DEF IInv, Typing
<1>7. ASSUME NEW x \in Var \cup {Temp}
      PROVE  var'[x] \in Fields /\ var'[x].d = var[x].d /\ var'[x].alloc = var[x].alloc
  <2>1. PICK m : /\ var'[x] = [var[x] EXCEPT !.size = m]
                 /\ m \in {var[x].size, 0, sign} \/ \E f, q : m = Signed(f, LessTop(n, q))
    BY <1>5, <1>6, Zenon
  <2>2. var[x] \in Fields /\ var[x].size \in Int
    BY <1>6 DEF Fields
  <2>3. m \in Int
    <3>1. CASE m \in {var[x].size, 0, sign}
      BY <2>2, <3>1
    <3>2. ASSUME NEW f, NEW q, m = Signed(f, LessTop(n, q)) PROVE m \in Int
      BY <3>2, LessTopType, SignedType
    <3> QED
      BY <2>1, <3>1, <3>2
  <2> QED
    BY <2>1, <2>2, <2>3 DEF Fields
<1>8. Resized
  BY <1>5, <1>6, <1>7 DEF Resized
<1>9. DOMAIN heap' = DOMAIN heap
  <2>1. \E h, p, k, x : /\ h = heap \/ \E q, i, y : h = Written(heap, q, i, y)
                        /\ heap' = h \/ heap' = Written(h, p, k, x)
    BY DEF UiDiv
  <2>2. PICK h, p, k, x : /\ h = heap \/ \E q, i, y : h = Written(heap, q, i, y)
                          /\ heap' = h \/ heap' = Written(h, p, k, x)
    BY <2>1
  <2>3. DOMAIN h = DOMAIN heap
    BY <2>2, DomainWritten
  <2> QED
    BY <2>2, <2>3, DomainWritten
<1>10. PICK value : FinishWith(value)
  BY <1>3
<1> QED
  BY <1>1, <1>2, <1>8, <1>9, <1>10, ResultStep

-----------------------------------------------------------------------------
(* The steps of MpzShift.                                                  *)

\* SetSize is one of the ways a variable gets a size.
LEMMA SetSizeGives ==
  ASSUME NEW x, NEW negative, NEW size, SetSize(x, negative, size)
  PROVE  Sized(x, size)
BY Zenon DEF SetSize, Signed, Sized

\* A function that copies no operands computes a result.
LEMMA WritesStep ==
  ASSUME IInv, pc \in {"enter", "compute"}, c.fn \notin BitFn \cup {"mul", "tdiv_qr", "tdiv_q", "tdiv_r"},
         Finish, NEW p, NEW n, NEW x, heap' = Written(heap, p, n, x) \/ heap' = heap,
         NEW negative, NEW size \in Int, SetSize(c.w, negative, size)
  PROVE  IInv'
<1>1. Sized(c.w, size)
  BY SetSizeGives
<1>2. DOMAIN heap' = DOMAIN heap
  BY DomainWritten
<1>3. ~Copying /\ c.fn # "mul"
  BY DEF Copying
<1> QED
  BY <1>1, <1>2, <1>3, GivesStep

\* A result that is written and sized keeps the invariant.
LEMMA ResultsStep ==
  ASSUME IInv, pc \in {"enter", "compute"}, c.fn \notin BitFn \cup {"mul", "tdiv_qr", "tdiv_q", "tdiv_r"},
         NEW n, NEW x, NEW negative, NEW size \in Int, Results(n, x, negative, size)
  PROVE  IInv'
<1>1. PICK p : heap' = Written(heap, p, n, x) /\ SetSize(c.w, negative, size) /\ Finish
  BY DEF Results
<1> QED
  BY <1>1, WritesStep

LEMMA ResultsZeroStep ==
  ASSUME IInv, pc = "enter", c.fn \notin BitFn \cup {"mul", "tdiv_qr", "tdiv_q", "tdiv_r"}, ResultsZero
  PROVE  IInv'
<1>1. heap' = heap /\ SetSize(c.w, FALSE, 0) /\ Finish
  BY Zenon DEF ResultsZero
<1>2. Sized(c.w, 0)
  BY <1>1, SetSizeGives, Zenon
<1> QED
  BY <1>1, <1>2, GivesStep DEF Copying

\* Counts of bits as counts of limbs.
LEMMA LimbCntType ==
  ASSUME IInv, pc \in {"enter", "compute"}, c.fn \notin AorsUiFns
  PROVE  LimbCnt \in Nat
<1>1. c.k \in Nat /\ LimbBits \in Nat \ {0}
  BY Running, Arguments, HeapAssumption
<1>2. PICK k \in Nat, d \in Nat \ {0} : k = c.k /\ d = LimbBits
  BY <1>1
<1>3. k \div d \in Nat
  OBVIOUS
<1> QED
  BY <1>2, <1>3 DEF LimbCnt

LEMMA Mul2expZeroStep ==
  ASSUME IInv, Mul2expZero
  PROVE  IInv'
<1>1. pc = "enter" /\ c.fn \in {"mul_2exp"} /\ ResultsZero
  BY DEF Mul2expZero, At
<1> QED
  BY <1>1, ResultsZeroStep DEF BitFn

LEMMA Mul2expGrowStep ==
  ASSUME IInv, Mul2expGrow
  PROVE  IInv'
<1>1. /\ pc = "enter" /\ c.fn \in {"mul_2exp"} /\ NoteOperand /\ Goto("compute")
      /\ Grow(c.w, Abs(Size(c.u)) + LimbCnt + 1)
  BY DEF Mul2expGrow, At
<1>2. LimbCnt \in Nat
  BY <1>1, LimbCntType DEF AorsUiFns
<1>3. Abs(Size(c.u)) + LimbCnt + 1 \in Nat
  BY <1>1, <1>2, Running
<1>4. Settled(Loose)
  BY <1>1, <1>3, Running, Grows, Zenon
<1> QED
  BY <1>1, <1>4, NoteStep

LEMMA Mul2expStep ==
  ASSUME IInv, Mul2exp
  PROVE  IInv'
<1>1. pc = "compute" /\ c.fn \in {"mul_2exp"}
  BY DEF Mul2exp, At
<1>2. LimbCnt \in Nat
  BY <1>1, LimbCntType DEF AorsUiFns
<1>3. PICK n \in Int : n = Abs(loc.us) + LimbCnt + 1
  BY <1>1, <1>2, Running
<1>4. \E x : Results(LessTop(n, x), x, loc.us < 0, LessTop(n, x))
  BY <1>3 DEF Mul2exp
<1>5. PICK size, x, negative : Results(size, x, negative, size) /\ size = LessTop(n, x)
  BY <1>4
<1>6. size \in Int
  BY <1>5, LessTopType
<1>7. c.fn \notin BitFn \cup {"mul", "tdiv_qr", "tdiv_q", "tdiv_r"}
  BY <1>1 DEF BitFn
<1> QED
  BY <1>1, <1>5, <1>6, <1>7, ResultsStep

LEMMA TdivQ2expSmallStep ==
  ASSUME IInv, TdivQ2expSmall
  PROVE  IInv'
<1>1. pc = "enter" /\ c.fn \in {"tdiv_q_2exp"} /\ ResultsZero
  BY DEF TdivQ2expSmall, At
<1> QED
  BY <1>1, ResultsZeroStep DEF BitFn

LEMMA TdivQ2expGrowStep ==
  ASSUME IInv, TdivQ2expGrow
  PROVE  IInv'
<1>1. /\ pc = "enter" /\ c.fn \in {"tdiv_q_2exp"} /\ NoteOperand /\ Goto("compute")
      /\ Abs(Size(c.u)) > LimbCnt /\ Grow(c.w, Abs(Size(c.u)) - LimbCnt)
  BY DEF TdivQ2expGrow, At
<1>2. LimbCnt \in Nat
  BY <1>1, LimbCntType DEF AorsUiFns
<1>3. Abs(Size(c.u)) - LimbCnt \in Nat
  BY <1>1, <1>2, Running
<1>4. Settled(Loose)
  BY <1>1, <1>3, Running, Grows, Zenon
<1> QED
  BY <1>1, <1>4, NoteStep

LEMMA TdivQ2expStep ==
  ASSUME IInv, TdivQ2exp
  PROVE  IInv'
<1>1. pc = "compute" /\ c.fn \in {"tdiv_q_2exp"}
  BY DEF TdivQ2exp, At
<1>2. LimbCnt \in Nat
  BY <1>1, LimbCntType DEF AorsUiFns
<1>3. PICK n \in Int : n = Abs(loc.us) - LimbCnt
  BY <1>1, <1>2, Running
<1>4. \E x : Results(n, x, loc.us < 0, LessTop(n, x))
  BY <1>3 DEF TdivQ2exp
<1>5. PICK size, x, negative : Results(n, x, negative, size) /\ size = LessTop(n, x)
  BY <1>4
<1>6. size \in Int
  BY <1>5, LessTopType
<1>7. c.fn \notin BitFn \cup {"mul", "tdiv_qr", "tdiv_q", "tdiv_r"}
  BY <1>1 DEF BitFn
<1> QED
  BY <1>1, <1>5, <1>6, <1>7, ResultsStep

LEMMA TdivR2expGrowStep ==
  ASSUME IInv, TdivR2expGrow
  PROVE  IInv'
<1>1. pc = "enter" /\ c.fn \in {"tdiv_r_2exp"} /\ Goto("compute")
  BY DEF TdivR2expGrow, At
<1>2. LimbCnt \in Nat
  BY <1>1, LimbCntType DEF AorsUiFns
<1>3. \E size, x : /\ size \in {Abs(Size(c.u)), LimbCnt + 1, Normalized(LimbCnt, x)}
                   /\ Grow(c.w, size)
                   /\ loc' = Notes(Size(c.u), size, var'[c.u].d, var'[c.u].d, var'[c.w].d, None)
  BY DEF TdivR2expGrow
<1>4. PICK size, x : /\ size \in {Abs(Size(c.u)), LimbCnt + 1, Normalized(LimbCnt, x)}
                     /\ Grow(c.w, size)
                     /\ loc' = Notes(Size(c.u), size, var'[c.u].d, var'[c.u].d, var'[c.w].d, None)
  BY <1>3
<1>5. size \in Nat
  <2>1. Normalized(LimbCnt, x) \in 0 .. LimbCnt
    BY <1>2, NormalizedType
  <2> QED
    BY <1>1, <1>2, <1>4, <2>1, Running
<1>6. Settled(Loose) /\ \A y \in Var \cup {Temp} : var'[y].d \in Pointer
  BY <1>1, <1>4, <1>5, Running, Grows, Zenon
<1>7. PICK us, up, wp : us = Size(c.u) /\ up = var'[c.u].d /\ wp = var'[c.w].d
  OBVIOUS
<1>8. us \in Int /\ size \in Int /\ up \in Pointer /\ wp \in Pointer /\ None \in Pointer
  BY <1>1, <1>5, <1>6, <1>7, Running
<1>9. loc' \in Locals /\ loc'.free = None
  <2>1. loc' = Notes(us, size, up, up, wp, None)
    BY <1>4, <1>7
  <2>2. Notes(us, size, up, up, wp, None) \in Locals
    BY <1>8, NotesType
  <2>3. Notes(us, size, up, up, wp, None).free = None
    BY <1>8, NotesType
  <2> QED
    BY <2>1, <2>2, <2>3
<1> QED
  BY <1>1, <1>6, <1>9, GrowStep

LEMMA TdivR2expStep ==
  ASSUME IInv, TdivR2exp
  PROVE  IInv'
<1>1. pc = "compute" /\ c.fn \in {"tdiv_r_2exp"}
  BY DEF TdivR2exp, At
<1>2. loc.vs \in Int
  BY <1>1, Running
<1>3. \E x : Results(loc.vs, x, loc.us < 0, loc.vs)
  BY DEF TdivR2exp
<1>4. PICK n, x, negative : n = loc.vs /\ Results(n, x, negative, n)
  BY <1>3
<1>5. c.fn \notin BitFn \cup {"mul", "tdiv_qr", "tdiv_q", "tdiv_r"} /\ n \in Int
  BY <1>1, <1>2, <1>4 DEF BitFn
<1> QED
  BY <1>1, <1>4, <1>5, ResultsStep

LEMMA CfdivQ2expSmallStep ==
  ASSUME IInv, CfdivQ2expSmall
  PROVE  IInv'
<1>1. /\ pc = "enter" /\ c.fn \in {"cdiv_q_2exp", "fdiv_q_2exp"} /\ Finish
      /\ heap' = Written(heap, var[c.w].d, 1, 1)
  BY DEF CfdivQ2expSmall, At
<1>2. \E negative, size : SetSize(c.w, negative, size) /\ size \in {0, 1}
  BY DEF CfdivQ2expSmall
<1>3. PICK negative, size, p, n, x : /\ SetSize(c.w, negative, size) /\ size \in {0, 1}
                                     /\ heap' = Written(heap, p, n, x)
  BY <1>1, <1>2
<1>4. c.fn \notin BitFn \cup {"mul", "tdiv_qr", "tdiv_q", "tdiv_r"} /\ size \in Int
  BY <1>1, <1>3 DEF BitFn
<1> QED
  BY <1>1, <1>3, <1>4, WritesStep

LEMMA CfdivQ2expGrowStep ==
  ASSUME IInv, CfdivQ2expGrow
  PROVE  IInv'
<1>1. /\ pc = "enter" /\ c.fn \in {"cdiv_q_2exp", "fdiv_q_2exp"} /\ NoteOperand /\ Goto("compute")
      /\ Abs(Size(c.u)) > LimbCnt /\ Grow(c.w, Abs(Size(c.u)) - LimbCnt + 1)
  BY DEF CfdivQ2expGrow, At
<1>2. LimbCnt \in Nat
  BY <1>1, LimbCntType DEF AorsUiFns
<1>3. Abs(Size(c.u)) - LimbCnt + 1 \in Nat
  BY <1>1, <1>2, Running
<1>4. Settled(Loose)
  BY <1>1, <1>3, Running, Grows, Zenon
<1> QED
  BY <1>1, <1>4, NoteStep

LEMMA CfdivQ2expStep ==
  ASSUME IInv, CfdivQ2exp
  PROVE  IInv'
<1>1. pc = "compute" /\ c.fn \in {"cdiv_q_2exp", "fdiv_q_2exp"}
  BY DEF CfdivQ2exp, At
<1>2. LimbCnt \in Nat
  BY <1>1, LimbCntType DEF AorsUiFns
<1>3. PICK n \in Int : n = Abs(loc.us) - LimbCnt
  BY <1>1, <1>2, Running
<1>4. \E i, x, y, m : /\ m \in {n, LessTop(n, y)}
                      /\ \/ Results(m + 1, x, loc.us < 0, LessTop(m + 1, x))
                         \/ Results(i, x, loc.us < 0, m)
  BY <1>3 DEF CfdivQ2exp
<1>5. PICK i, x, y, m, negative :
        /\ m \in {n, LessTop(n, y)}
        /\ \/ Results(m + 1, x, negative, LessTop(m + 1, x))
           \/ Results(i, x, negative, m)
  BY <1>4
<1>6. m \in Int
  BY <1>5, LessTopType
<1>7. LessTop(m + 1, x) \in Int
  BY <1>6, LessTopType
<1>8. c.fn \notin BitFn \cup {"mul", "tdiv_qr", "tdiv_q", "tdiv_r"}
  BY <1>1 DEF BitFn
<1> QED
  BY <1>1, <1>5, <1>6, <1>7, <1>8, ResultsStep

LEMMA CfdivR2expZeroStep ==
  ASSUME IInv, CfdivR2expZero
  PROVE  IInv'
<1>1. pc = "enter" /\ c.fn \in CfdivR /\ ResultsZero
  BY DEF CfdivR2expZero, At
<1> QED
  BY <1>1, ResultsZeroStep DEF BitFn, CfdivR

LEMMA CfdivR2expKeepStep ==
  ASSUME IInv, CfdivR2expKeep
  PROVE  IInv'
<1>1. pc = "enter" /\ UNCHANGED <<heap, var>> /\ FinishWith(0)
  BY DEF CfdivR2expKeep, At, Finish
<1> QED
  BY <1>1, Unmoved, SettledStep

LEMMA CfdivR2expGrowStep ==
  ASSUME IInv, CfdivR2expGrow
  PROVE  IInv'
<1>1. pc = "enter" /\ c.fn \in CfdivR /\ NoteOperand /\ Goto("compute")
  BY DEF CfdivR2expGrow, At
<1>2. LimbCnt \in Nat
  BY <1>1, LimbCntType DEF AorsUiFns, CfdivR
<1>3. \/ Grow(c.w, Abs(Size(c.u))) \/ Grow(c.w, LimbCnt + 1) \/ UNCHANGED <<heap, var>>
  BY DEF CfdivR2expGrow
<1>4. Abs(Size(c.u)) \in Nat /\ LimbCnt + 1 \in Nat /\ c.w \in Var
  BY <1>1, <1>2, Running
<1>5. Settled(Loose)
  BY <1>3, <1>4, Grows, Unmoved
<1> QED
  BY <1>1, <1>5, NoteStep

LEMMA CfdivR2expStep ==
  ASSUME IInv, CfdivR2exp
  PROVE  IInv'
<1>1. pc = "compute" /\ c.fn \in CfdivR
  BY DEF CfdivR2exp, At
<1>2. LimbCnt \in Nat
  BY <1>1, LimbCntType DEF AorsUiFns, CfdivR
<1>3. PICK i \in Nat, j \in Nat : i = Abs(loc.us) /\ j = LimbCnt + 1
  BY <1>1, <1>2, Running
<1>4. \E n, x, negative : n \in {i, j} /\ Results(n, x, negative, Normalized(n, x))
  BY <1>3 DEF CfdivR2exp
<1>5. PICK n, x, negative : n \in {i, j} /\ Results(n, x, negative, Normalized(n, x))
  BY <1>4
<1>6. Normalized(n, x) \in Int
  BY <1>5, NormalizedType
<1>7. c.fn \notin BitFn \cup {"mul", "tdiv_qr", "tdiv_q", "tdiv_r"}
  BY <1>1 DEF BitFn, CfdivR
<1> QED
  BY <1>1, <1>5, <1>6, <1>7, ResultsStep

LEMMA Realloc2Step ==
  ASSUME IInv, Realloc2
  PROVE  IInv'
<1>1. /\ pc = "enter" /\ c.fn \in {"realloc2"} /\ FinishWith(0)
      /\ Reallocate(c.w, MaxOf((c.k + LimbBits - 1) \div LimbBits, 1))
  BY DEF Realloc2, At, Finish
<1>2. c.w \in Var /\ c.k \in Nat
  BY <1>1, Running, Arguments, Zenon DEF AorsUiFns
<1>3. PICK len : len = MaxOf((c.k + LimbBits - 1) \div LimbBits, 1)
  OBVIOUS
<1>4. len \in Nat
  <2>1. PICK d \in Nat \ {0}, k \in Nat : d = LimbBits /\ k = c.k
    BY <1>2, HeapAssumption
  <2>2. (k + d - 1) \div d \in Int
    OBVIOUS
  <2>3. PICK q \in Int : q = (k + d - 1) \div d
    BY <2>2
  <2>4. len = MaxOf(q, 1)
    BY <1>3, <2>1, <2>3
  <2> QED
    BY <2>4 DEF MaxOf
<1>5. Settled(Loose)
  BY <1>1, <1>2, <1>3, <1>4, ReallocateMoves, MovedSettles
<1> QED
  BY <1>1, <1>5, SettledStep

-----------------------------------------------------------------------------
(* The steps of MpzBitwise.                                                *)

\* The operands of a bit operation, in either order, are the two it was given.
LEMMA FirstSecond ==
  ASSUME IInv, pc \in {"enter", "room", "compute"}
  PROVE  /\ First \in Var \cup {Temp} /\ Second \in Var \cup {Temp}
         /\ First \in {c.u, c.v} /\ Second \in {c.u, c.v}
         /\ Size(First) \in Int /\ Size(Second) \in Int
         /\ Abs(Size(First)) \in Nat /\ Abs(Size(Second)) \in Nat
<1>1. First \in {c.u, c.v} /\ Second \in {c.u, c.v}
  BY DEF First, Second
<1>2. First \in Var \cup {Temp} /\ Second \in Var \cup {Temp}
  BY <1>1, Running
<1>3. Typing
  BY DEF IInv
<1> QED
  BY <1>1, <1>2, <1>3, SizeType

\* The limbs that are copied are counted by a natural number.
LEMMA CopiedType ==
  ASSUME IInv, pc = "enter", NEW x \in {First, Second}
  PROVE  Copied(x) \in Nat
<1>1. Abs(Size(First)) \in Nat /\ Abs(Size(Second)) \in Nat
  BY FirstSecond
<1>2. Abs(Size(x)) \in Nat
  BY <1>1
<1>3. PICK m \in Nat, n \in Nat : m = Abs(Size(First)) /\ n = Abs(Size(Second))
  BY <1>1
<1>4. MinOf(m, n) \in Nat
  BY DEF MinOf
<1> QED
  BY <1>2, <1>3, <1>4 DEF Copied

LEMMA BitCopyStep ==
  ASSUME IInv, BitCopy
  PROVE  IInv'
<1>1. pc = "enter" /\ c.fn \in BitFn /\ Goto("room") /\ var' = var
  BY DEF BitCopy, At
<1>2. PICK cu, cv : /\ cu = IF Size(First) < 0 THEN {CopyU} ELSE {}
                    /\ cv = IF Size(Second) < 0 THEN {CopyV} ELSE {}
  BY Zenon
<1>3. DOMAIN heap' = DOMAIN heap \cup cu \cup cv
  <2>1. PICK h, a, b : /\ h = IF Size(First) < 0 THEN With(heap, CopyU, a) ELSE heap
                       /\ heap' = IF Size(Second) < 0 THEN With(h, CopyV, b) ELSE h
    BY DEF BitCopy
  <2>2. DOMAIN h = DOMAIN heap \cup cu
    BY <1>2, <2>1, DomainWith, Zenon
  <2>3. DOMAIN heap' = DOMAIN h \cup cv
    BY <1>2, <2>1, DomainWith, Zenon
  <2> QED
    BY <2>2, <2>3
<1>4. PICK us, vs, up, vp :
        /\ us = Signed(Size(First) < 0, Copied(First)) /\ vs = Signed(Size(Second) < 0, Copied(Second))
        /\ up = IF Size(First) < 0 THEN CopyU ELSE var[First].d
        /\ vp = IF Size(Second) < 0 THEN CopyV ELSE var[Second].d
  OBVIOUS
<1>5. loc' = Notes(us, vs, up, vp, None, None)
  BY <1>4 DEF BitCopy
<1>6. us \in Int /\ vs \in Int
  <2>1. Copied(First) \in Int /\ Copied(Second) \in Int
    BY <1>1, CopiedType
  <2> QED
    BY <1>4, <2>1, SignedType
<1>7. up \in Pointer /\ vp \in Pointer /\ None \in Pointer
  <2>1. First \in Var \cup {Temp} /\ Second \in Var \cup {Temp}
    BY <1>1, FirstSecond
  <2>2. var[First].d \in Pointer /\ var[Second].d \in Pointer
    BY <2>1 DEF IInv, Typing, Fields
  <2> QED
    BY <1>4, <2>2 DEF Pointer, Copy
<1>8. loc' \in Locals /\ loc'.free = None /\ loc'.up = up /\ loc'.vp = vp
  <2>1. Notes(us, vs, up, vp, None, None) \in Locals
    BY <1>6, <1>7, NotesType
  <2> QED
    BY <1>5, <2>1 DEF Notes
<1>9. PICK copy, L : copy = cu \cup cv /\ L = Loose \cup copy
  BY Zenon
<1>10. /\ copy \cap Block = {} /\ (CopyU \in copy => up = CopyU) /\ (CopyV \in copy => vp = CopyV)
       /\ copy \subseteq {CopyU, CopyV} /\ DOMAIN heap' = DOMAIN heap \cup copy
  <2>1. copy \subseteq {CopyU, CopyV} /\ DOMAIN heap' = DOMAIN heap \cup copy
    BY <1>2, <1>3, <1>9
  <2>2. (CopyU \in copy => up = CopyU) /\ (CopyV \in copy => vp = CopyV)
    BY <1>2, <1>4, <1>9, NamesDiffer
  <2> QED
    BY <2>1, <2>2, NamesDiffer
<1>11. Settled(L)
  BY <1>1, <1>9, <1>10, CopiesSettle
<1>12. (\A q \in Loose : q = CopyD) /\ (var[Temp].d = CopyD <=> CopyD \in Loose)
  BY <1>1, Bare DEF Copying
<1>13. ASSUME NEW q \in L PROVE Freed(q)'
  <2>1. CASE q \in Loose
    BY <1>1, <1>12, <2>1 DEF Freed
  <2>2. CASE q \in copy
    <3>1. Copying'
      BY <1>1 DEF Goto, Copying, c
    <3> QED
      BY <1>8, <1>10, <2>2, <3>1, NamesDiffer DEF Freed
  <2> QED
    BY <1>9, <2>1, <2>2
<1>14. var[Temp].d = CopyD => CopyD \in L
  BY <1>9, <1>12
<1> QED
  BY <1>1, <1>8, <1>11, <1>13, <1>14, GotoStep

\* So are those of the result and those it needs room for.
LEMMA LimbsOfResult ==
  ASSUME IInv, pc \in {"room", "compute"}
  PROVE  ResultLimbs \in Nat /\ \A n \in Nat : Room(n) \in Nat
<1>1. PICK us \in Int, vs \in Int : us = loc.us /\ vs = loc.vs
  BY Running
<1>2. Na \in Nat /\ Nb \in Nat /\ (vs # 0 => Nb # 0)
  BY <1>1, Small, Zenon DEF Na, Nb
<1>3. MinOf(Na, Nb) \in Nat /\ Most \in Nat
  BY <1>2 DEF MinOf, Most, MaxOf
<1>4. /\ \A x : Normalized(MinOf(Na, Nb), x) \in Nat
      /\ \A x : Normalized(Na, x) \in Nat
  BY <1>2, <1>3, NormalizedType
<1>5. ResultLimbs \in Nat
  <2>1. CASE c.fn = "and" /\ Signs = "++"
    BY <1>4, <2>1 DEF ResultLimbs
  <2>2. CASE c.fn = "and" /\ Signs = "+-"
    BY <1>2, <1>4, <2>2 DEF ResultLimbs
  <2>3. CASE c.fn = "ior" /\ Signs = "--"
    BY <1>4, <2>3 DEF ResultLimbs
  <2>4. CASE c.fn = "ior" /\ Signs = "+-"
    <3>1. vs < 0
      BY <1>1, <2>4 DEF Signs, SignsOf
    <3>2. PICK nb : nb = LessTop(Nb, VValue)
      OBVIOUS
    <3>3. nb \in Nat
      BY <1>1, <1>2, <3>1, <3>2, LessTopType
    <3>4. \E x : ResultLimbs \in {Normalized(nb, x), nb}
      BY <2>4, <3>2 DEF ResultLimbs
    <3> QED
      BY <3>3, <3>4, NormalizedType
  <2>5. CASE /\ ~ (c.fn = "and" /\ Signs = "++") /\ ~ (c.fn = "and" /\ Signs = "+-")
             /\ ~ (c.fn = "ior" /\ Signs = "--") /\ ~ (c.fn = "ior" /\ Signs = "+-")
    BY <1>3, <2>5 DEF ResultLimbs
  <2> QED
    BY <2>1, <2>2, <2>3, <2>4, <2>5
<1>6. ASSUME NEW n \in Nat PROVE Room(n) \in Nat
  <2>1. Room(n) \in {1 + Most, Na, Nb, n}
    BY DEF Room
  <2> QED
    BY <1>2, <1>3, <2>1
<1> QED
  BY <1>5, <1>6

LEMMA BitGrowStep ==
  ASSUME IInv, BitGrow
  PROVE  IInv'
<1>1. pc = "room" /\ c.fn \in BitFn /\ Goto("compute") /\ Grow(c.w, Room(ResultLimbs))
  BY DEF BitGrow, At
<1>2. PICK n \in Nat : n = ResultLimbs
  BY <1>1, LimbsOfResult
<1>3. Room(ResultLimbs) \in Nat /\ c.w \in Var
  BY <1>1, LimbsOfResult, Running
<1>4. Settled(Loose) /\ \A y \in Var \cup {Temp} : var'[y].d \in Pointer
  BY <1>1, <1>3, Grows
<1>5. PICK u, v, w : u = var'[First].d /\ v = var'[Second].d /\ w = var'[c.w].d
  OBVIOUS
<1>6. u \in Pointer /\ v \in Pointer /\ w \in Pointer
  BY <1>1, <1>3, <1>4, <1>5, FirstSecond
<1>7. loc' = [loc EXCEPT !.ws = n, !.up = IF @ = CopyU THEN @ ELSE u, !.vp = IF @ = CopyV THEN @ ELSE v,
                         !.wp = w]
  BY <1>2, <1>5 DEF BitGrow
<1>8. loc.free = None
  BY <1>1 DEF IInv, Ownership
<1>9. loc \in Locals
  BY DEF IInv, Typing
<1>10. PICK up, vp : up = (IF loc.up = CopyU THEN CopyU ELSE u) /\ vp = (IF loc.vp = CopyV THEN CopyV ELSE v)
  OBVIOUS
<1>11. up \in Pointer /\ vp \in Pointer
  BY <1>6, <1>10 DEF Pointer, Copy
<1>12. loc' = [loc EXCEPT !.ws = n, !.up = up, !.vp = vp, !.wp = w]
  BY <1>7, <1>10, Zenon
<1>13. loc' \in Locals /\ loc'.free = None /\ loc'.up = up /\ loc'.vp = vp
  BY <1>6, <1>8, <1>9, <1>11, <1>12, Zenon DEF Locals
<1>14. ASSUME NEW q \in Loose PROVE Freed(q)'
  <2>1. Freed(q)
    BY DEF IInv, Ownership, Loose
  <2>2. Copying'
    BY <1>1 DEF Goto, Copying, c
  <2>3. CASE q = CopyD /\ var[Temp].d = CopyD
    BY <1>4, <2>3 DEF Freed, Settled
  <2>4. CASE q = CopyU /\ loc.up = CopyU
    BY <1>10, <1>13, <2>2, <2>4 DEF Freed
  <2>5. CASE q = CopyV /\ loc.vp = CopyV
    BY <1>10, <1>13, <2>2, <2>5 DEF Freed
  <2> QED
    BY <1>8, <2>1, <2>3, <2>4, <2>5, NamesDiffer DEF Freed
<1>15. var[Temp].d = CopyD => CopyD \in Loose
  BY NamesDiffer DEF IInv, Typing, Ownership, Loose, Held
<1>16. PICK L : L = Loose
  OBVIOUS
<1> QED
  BY <1>1, <1>4, <1>13, <1>14, <1>15, <1>16, GotoStep

LEMMA BitComputeStep ==
  ASSUME IInv, BitCompute
  PROVE  IInv'
<1>1. pc = "compute" /\ c.fn \in BitFn /\ Finish
  BY DEF BitCompute, At
<1>2. PICK n \in Nat : n = loc.ws
  BY DEF IInv, Typing, Locals
<1>3. \E limbs, x, y, m, negative, size :
        /\ heap' = Without(Written(heap, loc.wp, limbs, x), {CopyU, CopyV})
        /\ SetSize(c.w, negative, size)
        /\ m = LessTop(n + 1, y)
        /\ size \in {n, m, Normalized(m, y), Normalized(n, y)}
  BY <1>2, Zenon DEF BitCompute
<1>4. PICK limbs, x, y, m, negative, size :
        /\ heap' = Without(Written(heap, loc.wp, limbs, x), {CopyU, CopyV})
        /\ SetSize(c.w, negative, size)
        /\ m = LessTop(n + 1, y)
        /\ size \in {n, m, Normalized(m, y), Normalized(n, y)}
  BY <1>3
<1>5. m \in Nat
  <2>1. LessTop(n + 1, y) \in {n + 1 - 1, n + 1}
    BY LessTopType
  <2> QED
    BY <1>4, <2>1
<1>6. size \in Int
  BY <1>4, <1>5, NormalizedType
<1>7. PICK p : heap' = Without(Written(heap, p, limbs, x), {CopyU, CopyV})
  BY <1>4
<1>8. Sized(c.w, size) /\ c.fn # "mul"
  BY <1>1, <1>4, SetSizeGives DEF BitFn
<1> QED
  BY <1>1, <1>6, <1>7, <1>8, QuotientStep

LEMMA ComGrowStep ==
  ASSUME IInv, ComGrow
  PROVE  IInv'
<1>1. pc = "enter" /\ NoteOperand /\ Goto("compute")
      /\ Grow(c.w, Abs(Size(c.u)) + (IF Size(c.u) >= 0 THEN 1 ELSE 0))
  BY DEF ComGrow, At
<1>2. Abs(Size(c.u)) + (IF Size(c.u) >= 0 THEN 1 ELSE 0) \in Nat /\ c.w \in Var
  BY <1>1, Running
<1>3. Settled(Loose)
  BY <1>1, <1>2, Grows
<1> QED
  BY <1>1, <1>3, NoteStep

LEMMA ComStep ==
  ASSUME IInv, Com
  PROVE  IInv'
<1>1. pc = "compute" /\ c.fn \in {"com"} /\ Finish
  BY DEF Com, At
<1>2. PICK n \in Nat : n = Abs(loc.us)
  BY <1>1, Running
<1>3. \E p, m, x, negative, size :
        /\ heap' = Written(heap, p, m, x) /\ SetSize(c.w, negative, size)
        /\ size \in {n, LessTop(n + 1, x), LessTop(n, x)}
  BY <1>2 DEF Com
<1>4. PICK p, m, x, negative, size :
        /\ heap' = Written(heap, p, m, x) /\ SetSize(c.w, negative, size)
        /\ size \in {n, LessTop(n + 1, x), LessTop(n, x)}
  BY <1>3
<1>5. size \in Int /\ c.fn \notin BitFn \cup {"mul", "tdiv_qr", "tdiv_q", "tdiv_r"}
  BY <1>1, <1>4, LessTopType DEF BitFn
<1> QED
  BY <1>1, <1>4, <1>5, WritesStep

\* A variable whose bit changes may move.
LEMMA BecomesSettles ==
  ASSUME IInv, pc = "enter", NEW x, NEW n \in Int, NEW size \in Int, Becomes(x, n, size)
  PROVE  Settled(Loose)
<1>1. PICK w : w = c.w
  OBVIOUS
<1>2. w \in Var /\ var \in [Var \cup {Temp} -> Fields] /\ var[w] \in Fields /\ var[w].d \in Block
  BY <1>1, Running, Zenon DEF IInv, Typing
<1>3. PICK a, m : a = MaxOf(var[w].alloc, n) /\ m = Signed(Size(w) < 0, size)
  OBVIOUS
<1>4. a \in Nat /\ m \in Int
  <2>1. var[w].alloc \in Nat
    BY <1>2 DEF Fields
  <2>2. a \in Nat
    BY <1>3, <2>1 DEF MaxOf
  <2> QED
    BY <1>3, <2>2, SignedType
<1>5. PICK p \in (Block \ DOMAIN heap) \cup {var[w].d} :
        /\ \E b : heap' = With(Without(heap, {var[w].d}), p, b)
        /\ var' = [var EXCEPT ![w] = [alloc |-> a, d |-> p, size |-> m]]
  BY <1>1, <1>3, Zenon DEF Becomes
<1>6. DOMAIN heap' = (DOMAIN heap \ {var[w].d}) \cup {p}
  <2>1. PICK b : heap' = With(Without(heap, {var[w].d}), p, b)
    BY <1>5
  <2>2. DOMAIN heap' = DOMAIN Without(heap, {var[w].d}) \cup {p}
    BY <2>1, DomainWith, Zenon
  <2> QED
    BY <2>2, DomainWithout, Zenon
<1>7. p \in Pointer
  BY <1>2, <1>5 DEF Pointer
<1>8. var'[w] = [alloc |-> a, d |-> p, size |-> m] /\ var'[w] \in Fields /\ var'[w].d = p
  BY <1>2, <1>4, <1>5, <1>7 DEF Fields
<1>9. Moved(w, p)
  BY <1>2, <1>5, <1>6, <1>8 DEF Moved
<1> QED
  BY <1>2, <1>9, MovedSettles

\* ... or the bit is as it should be.
LEMMA BitStays ==
  ASSUME IInv, pc = "enter", Finish,
         \/ Same
         \/ \E x, n, size : Becomes(x, n, size) /\ n \in Int /\ size \in Int
  PROVE  IInv'
<1>1. Settled(Loose)
  BY BecomesSettles, Unmoved DEF Same
<1>2. FinishWith(0)
  BY DEF Finish
<1> QED
  BY <1>1, <1>2, SettledStep

\* And those of a variable whose bit changes.
LEMMA LimbsOfVariable ==
  ASSUME IInv, pc = "enter", c.fn \notin AorsUiFns
  PROVE  Limbs \in Nat /\ Enough \in Nat
<1>1. c.k \in Nat /\ LimbBits \in Nat \ {0} /\ Limbs \in Nat
  BY Running, Arguments, HeapAssumption DEF Limbs
<1>2. PICK k \in Nat, d \in Nat \ {0} : k = c.k /\ d = LimbBits
  BY <1>1
<1>3. k \div d \in Nat
  OBVIOUS
<1>4. LimbIndex \in Nat
  BY <1>2, <1>3 DEF LimbIndex
<1> QED
  BY <1>1, <1>4 DEF Enough, MaxOf

LEMMA SetBitPositiveStep ==
  ASSUME IInv, SetBitPositive
  PROVE  IInv'
<1>1. pc = "enter" /\ c.fn \in {"setbit"} /\ Finish
  BY DEF SetBitPositive, At
<1>2. Limbs \in Nat /\ Enough \in Nat
  BY <1>1, LimbsOfVariable DEF AorsUiFns
<1>3. Same \/ \E x : Becomes(x, Enough, Enough)
  BY DEF SetBitPositive
<1> QED
  BY <1>1, <1>2, <1>3, BitStays

LEMMA SetBitNegativeStep ==
  ASSUME IInv, SetBitNegative
  PROVE  IInv'
<1>1. pc = "enter" /\ c.fn \in {"setbit"} /\ Finish
  BY DEF SetBitNegative, At
<1>2. Limbs \in Nat
  BY <1>1, LimbsOfVariable DEF AorsUiFns
<1>3. Same \/ \E x, size : Becomes(x, Limbs, size) /\ size \in {Limbs, Normalized(Limbs, x), LessTop(Limbs, x)}
  BY DEF SetBitNegative
<1>4. \A x : Normalized(Limbs, x) \in Int /\ LessTop(Limbs, x) \in Int
  BY <1>2, NormalizedType, LessTopType
<1>5. Same \/ \E x, n, size : Becomes(x, n, size) /\ n \in Int /\ size \in Int
  BY <1>2, <1>3, <1>4
<1> QED
  BY <1>1, <1>5, BitStays

LEMMA ClrBitPositiveStep ==
  ASSUME IInv, ClrBitPositive
  PROVE  IInv'
<1>1. pc = "enter" /\ c.fn \in {"clrbit"} /\ Finish
  BY DEF ClrBitPositive, At
<1>2. Limbs \in Nat
  BY <1>1, LimbsOfVariable DEF AorsUiFns
<1>3. Same \/ \E x : Becomes(x, Limbs, Normalized(Limbs, x))
  BY DEF ClrBitPositive
<1>4. \A x : Normalized(Limbs, x) \in Int
  BY <1>2, NormalizedType
<1> QED
  BY <1>1, <1>2, <1>3, <1>4, BitStays

LEMMA ClrBitNegativeStep ==
  ASSUME IInv, ClrBitNegative
  PROVE  IInv'
<1>1. pc = "enter" /\ c.fn \in {"clrbit"} /\ Finish
  BY DEF ClrBitNegative, At
<1>2. Limbs \in Nat /\ Enough \in Nat
  BY <1>1, LimbsOfVariable DEF AorsUiFns
<1>3. Same \/ \E x, n, y : Becomes(x, n, n) /\ n \in {Enough, LessTop(Limbs + 1, y)}
  BY DEF ClrBitNegative
<1>4. Limbs + 1 \in Int /\ \A y : LessTop(Limbs + 1, y) \in Int
  BY <1>2, LessTopType
<1>5. Same \/ \E x, n, size : Becomes(x, n, size) /\ n \in Int /\ size \in Int
  BY <1>2, <1>3, <1>4
<1> QED
  BY <1>1, <1>5, BitStays

LEMMA ComBitStep ==
  ASSUME IInv, ComBit
  PROVE  IInv'
<1>1. pc = "enter" /\ c.fn \in {"combit"} /\ Finish
  BY DEF ComBit, At
<1>2. Enough \in Nat
  BY <1>1, LimbsOfVariable DEF AorsUiFns
<1>3. \E x, n : Becomes(x, n, Normalized(n, x)) /\ n \in {Enough, Enough + 1}
  BY DEF ComBit
<1>4. PICK x, n : Becomes(x, n, Normalized(n, x)) /\ n \in {Enough, Enough + 1}
  BY <1>3
<1>5. n \in Nat
  BY <1>2, <1>4
<1>6. Normalized(n, x) \in Int
  BY <1>5, NormalizedType
<1> QED
  BY <1>1, <1>4, <1>5, <1>6, BitStays

-----------------------------------------------------------------------------
(* The steps of MpzMulAdd.                                                 *)

LEMMA AorsmulZeroStep ==
  ASSUME IInv, AorsmulZero
  PROVE  IInv'
<1>1. pc = "enter" /\ UNCHANGED <<heap, var>> /\ FinishWith(0)
  BY DEF AorsmulZero, At, Finish, SameValue
<1> QED
  BY <1>1, Unmoved, SettledStep

LEMMA Aorsmul1ZeroStep ==
  ASSUME IInv, Aorsmul1Zero
  PROVE  IInv'
<1>1. pc = "enter" /\ UNCHANGED <<heap, var>> /\ FinishWith(0)
  BY DEF Aorsmul1Zero, At, Finish, SameValue
<1> QED
  BY <1>1, Unmoved, SettledStep

\* The factors of mpz_addmul, in either order, are variables.
LEMMA LongerShorter ==
  ASSUME IInv, pc = "enter", c.fn \in AorsFns
  PROVE  /\ Longer \in Var /\ Shorter \in Var
         /\ Size(Longer) \in Int /\ Size(Shorter) \in Int
<1>1. c.u \in Var /\ c.v \in Var \cup {Temp} /\ TempUse(c)
  BY Running, Arguments
<1>2. c.v \in Var
  BY <1>1 DEF TempUse, AorsFns
<1>3. Longer \in Var /\ Shorter \in Var
  BY <1>1, <1>2 DEF Longer, Shorter
<1>4. Typing
  BY DEF IInv
<1> QED
  BY <1>3, <1>4, SizeType

LEMMA AorsmulLimbStep ==
  ASSUME IInv, AorsmulLimb
  PROVE  IInv'
<1>1. pc = "enter" /\ c.fn \in AorsFns /\ UNCHANGED <<heap, var, pc, loc>>
  BY DEF AorsmulLimb, At, SameValue
<1>2. PICK k, u, f, t : /\ k = Read(var[Shorter].d, 1) /\ u = Longer /\ t = c
                        /\ f = IF (c.fn = "submul") # (Size(Shorter) < 0) THEN "submul_ui" ELSE "addmul_ui"
  OBVIOUS
<1>3. PICK a : a = [t EXCEPT !.fn = f, !.u = u, !.v = t.w, !.k = k]
  OBVIOUS
<1>4. todo' = <<a>> \o Tail(todo)
  BY <1>2, <1>3 DEF AorsmulLimb
<1>5. f \in AorsUiFns /\ f # "tdiv_qr"
  BY <1>2 DEF AorsUiFns
<1>6. u \in Var /\ t.w \in Var /\ t \in Task({t.k}) /\ TempUse(t)
  BY <1>1, <1>2, LongerShorter, Running, Arguments
<1>7. PICK K : K = {k}
  BY Zenon
<1>8. a \in Task(K) /\ a.fn = f /\ a.v = t.w /\ a.r = t.r
  BY <1>3, <1>5, <1>6, <1>7, Zenon DEF Task, CalledFns
<1>9. t.r # Temp
  BY <1>1, <1>2, <1>6 DEF TempUse, AorsFns
<1>10. TempUse(a)
  BY <1>6, <1>8, <1>9, NamesDiffer DEF TempUse
<1>11. (a.fn \notin AorsUiFns => a.k \in Nat) /\ a.fn # "tdiv_qr"
  BY <1>5, <1>8
<1> QED
  BY <1>1, <1>4, <1>8, <1>10, <1>11, CallOne

LEMMA AorsmulGrowStep ==
  ASSUME IInv, AorsmulGrow
  PROVE  IInv'
<1>1. /\ pc = "enter" /\ c.fn \in AorsFns /\ Goto("compute")
      /\ Grow(c.w, MaxOf(Abs(Size(c.w)), Abs(Size(c.u)) + Abs(Size(c.v))) + 1)
      /\ loc' = Notes(Size(Longer), Size(Shorter), var'[Longer].d, var'[Shorter].d, var'[c.w].d, None)
  BY DEF AorsmulGrow, At
<1>2. MaxOf(Abs(Size(c.w)), Abs(Size(c.u)) + Abs(Size(c.v))) + 1 \in Nat
  <2>1. PICK m \in Nat, n \in Nat : m = Abs(Size(c.w)) /\ n = Abs(Size(c.u)) + Abs(Size(c.v))
    BY <1>1, Running
  <2> QED
    BY <2>1 DEF MaxOf
<1>3. Settled(Loose) /\ \A y \in Var \cup {Temp} : var'[y].d \in Pointer
  BY <1>1, <1>2, Running, Grows, Zenon
<1>4. PICK us, vs, up, vp, wp : /\ us = Size(Longer) /\ vs = Size(Shorter) /\ up = var'[Longer].d
                                /\ vp = var'[Shorter].d /\ wp = var'[c.w].d
  OBVIOUS
<1>5. us \in Int /\ vs \in Int /\ None \in Pointer
  BY <1>1, <1>4, LongerShorter, Running
<1>6. up \in Pointer /\ vp \in Pointer /\ wp \in Pointer
  BY <1>1, <1>3, <1>4, LongerShorter, Running, Zenon
<1>7. loc' \in Locals /\ loc'.free = None
  <2>1. loc' = Notes(us, vs, up, vp, wp, None)
    BY <1>1, <1>4
  <2>2. Notes(us, vs, up, vp, wp, None) \in Locals
    BY <1>5, <1>6, NotesType
  <2>3. Notes(us, vs, up, vp, wp, None).free = None
    BY <1>5, <1>6, NotesType
  <2> QED
    BY <2>1, <2>2, <2>3
<1> QED
  BY <1>1, <1>3, <1>7, GrowStep

LEMMA AorsmulStep ==
  ASSUME IInv, Aorsmul
  PROVE  IInv'
<1>1. pc = "compute" /\ c.fn \in AorsFns /\ Finish
  BY DEF Aorsmul, At
<1>2. PICK n \in Nat, m \in Nat : n = Abs(Size(c.w)) /\ m = Abs(loc.us) + Abs(loc.vs)
  BY <1>1, Running
<1>3. \E p, i, x, y, most, negative, size :
        /\ heap' = Written(heap, p, i, x) /\ SetSize(c.w, negative, size)
        /\ most = MaxOf(n, LessTop(m, y))
        /\ size \in {LessTop(m, x), LessTop(most + 1, x), Normalized(most, x)}
  BY <1>2, Zenon DEF Aorsmul
<1>4. PICK p, i, x, y, most, negative, size :
        /\ heap' = Written(heap, p, i, x) /\ SetSize(c.w, negative, size)
        /\ most = MaxOf(n, LessTop(m, y))
        /\ size \in {LessTop(m, x), LessTop(most + 1, x), Normalized(most, x)}
  BY <1>3
<1>5. most \in Nat
  <2>1. PICK k \in Int : k = LessTop(m, y)
    BY LessTopType
  <2> QED
    BY <1>4, <2>1 DEF MaxOf
<1>6. size \in Int
  BY <1>4, <1>5, LessTopType, NormalizedType
<1>7. c.fn \notin BitFn \cup {"mul", "tdiv_qr", "tdiv_q", "tdiv_r"}
  BY <1>1 DEF BitFn, AorsFns
<1> QED
  BY <1>1, <1>4, <1>6, <1>7, WritesStep

LEMMA Aorsmul1GrowStep ==
  ASSUME IInv, Aorsmul1Grow
  PROVE  IInv'
<1>1. /\ pc = "enter" /\ NoteOperand /\ Goto("compute")
      /\ Grow(c.w, MaxOf(Abs(Size(c.w)), Abs(Size(c.u))) + 1)
  BY DEF Aorsmul1Grow, At
<1>2. MaxOf(Abs(Size(c.w)), Abs(Size(c.u))) + 1 \in Nat
  BY <1>1, Running DEF MaxOf
<1>3. Settled(Loose)
  BY <1>1, <1>2, Running, Grows, Zenon
<1> QED
  BY <1>1, <1>3, NoteStep

LEMMA Aorsmul1Step ==
  ASSUME IInv, Aorsmul1
  PROVE  IInv'
<1>1. pc = "compute" /\ c.fn \in AorsUiFns /\ Finish
  BY DEF Aorsmul1, At
<1>2. PICK n \in Nat, m \in Nat : n = Abs(Size(c.w)) /\ m = Abs(loc.us)
  BY <1>1, Running
<1>3. PICK most \in Nat : most = MaxOf(m, n)
  <2>1. MaxOf(m, n) \in Nat
    BY DEF MaxOf
  <2> QED
    BY <2>1
<1>4. \E p, i, x : heap' = Written(heap, p, i, x)
  BY Zenon DEF Aorsmul1
<1>5. \E x, size :
        /\ Sized(c.w, size)
        /\ size \in {LessTop(m + 1, x), LessTop(most + 1, x), Normalized(most + 1, x), Normalized(most, x)}
  <2>1. CASE n = 0
    BY <1>2, <1>3, <2>1, Zenon DEF Aorsmul1, SetSize, Signed, Sized
  <2>2. CASE n # 0 /\ n < m
    BY <1>2, <1>3, <2>2, Zenon DEF Aorsmul1, SetSize, Signed, Sized
  <2>3. CASE n # 0 /\ ~ (n < m)
    BY <1>2, <1>3, <2>3, Zenon DEF Aorsmul1, SetSize, Signed, Sized
  <2> QED
    BY <2>1, <2>2, <2>3
<1>6. PICK size : Sized(c.w, size) /\ size \in Int
  BY <1>5, LessTopType, NormalizedType
<1>7. ~Copying /\ c.fn # "mul"
  BY <1>1 DEF Copying, BitFn, AorsUiFns
<1>8. DOMAIN heap' = DOMAIN heap
  BY <1>4, DomainWritten
<1> QED
  BY <1>1, <1>6, <1>7, <1>8, GivesStep

LEMMA MulUiZeroStep ==
  ASSUME IInv, MulUiZero
  PROVE  IInv'
<1>1. pc = "enter" /\ Finish /\ heap' = heap
  BY DEF MulUiZero, At
<1>2. Sized(c.w, 0)
  BY SetSizeGives, Zenon DEF MulUiZero
<1> QED
  BY <1>1, <1>2, GivesStep DEF Copying

LEMMA MulUiGrowStep ==
  ASSUME IInv, MulUiGrow
  PROVE  IInv'
<1>1. pc = "enter" /\ Grow(c.w, Abs(Size(c.u)) + 1) /\ NoteOperand /\ Goto("compute")
  BY DEF MulUiGrow, At
<1>2. Settled(Loose)
  BY <1>1, Running, Grows
<1> QED
  BY <1>1, <1>2, NoteStep

LEMMA MulUiStep ==
  ASSUME IInv, MulUi
  PROVE  IInv'
<1>1. pc = "compute" /\ c.fn \in {"mul_ui", "mul_si"} /\ Finish
  BY DEF MulUi, At
<1>2. PICK n \in Nat : n = Abs(loc.us)
  BY <1>1, Running
<1>3. \E p, i, x, negative : heap' = Written(heap, p, i, x) /\ SetSize(c.w, negative, LessTop(n + 1, x))
  BY <1>2 DEF MulUi
<1>4. PICK p, i, x, negative, size : /\ heap' = Written(heap, p, i, x) /\ SetSize(c.w, negative, size)
                                     /\ size = LessTop(n + 1, x)
  BY <1>3
<1>5. size \in Int /\ c.fn \notin BitFn \cup {"mul", "tdiv_qr", "tdiv_q", "tdiv_r"}
  BY <1>1, <1>4, LessTopType DEF BitFn
<1> QED
  BY <1>1, <1>4, <1>5, WritesStep

LEMMA UiSubGrowStep ==
  ASSUME IInv, UiSubGrow
  PROVE  IInv'
<1>1. pc = "enter" /\ NoteOperand /\ Goto("compute")
  BY DEF UiSubGrow, At
<1>2. PICK n \in Int : n = Size(c.u)
  BY <1>1, Running
<1>3. \/ n > 1 /\ Grow(c.w, n)
      \/ n < 0 /\ Grow(c.w, -n + 1)
      \/ UNCHANGED <<heap, var>>
  BY <1>2 DEF UiSubGrow, SameValue
<1>4. Settled(Loose)
  <2>1. c.w \in Var
    BY <1>1, Running
  <2>2. CASE n > 1 /\ Grow(c.w, n)
    BY <2>1, <2>2, Grows
  <2>3. CASE n < 0 /\ Grow(c.w, -n + 1)
    <3>1. -n + 1 \in Nat
      BY <2>3
    <3> QED
      BY <2>1, <2>3, <3>1, Grows
  <2> QED
    BY <1>3, <2>2, <2>3, Unmoved
<1> QED
  BY <1>1, <1>4, NoteStep

LEMMA UiSubStep ==
  ASSUME IInv, UiSub
  PROVE  IInv'
<1>1. pc = "compute" /\ c.fn \in {"ui_sub"} /\ Finish
  BY DEF UiSub, At
<1>2. PICK n \in Nat : n = Abs(loc.us)
  BY <1>1, Running
<1>3. \E p, i, x : heap' = Written(heap, p, i, x)
  BY Zenon DEF UiSub
<1>4. \E x, size : Sized(c.w, size) /\ size \in {LessTop(n, x), Normalized(1, x), LessTop(n + 1, x)}
  BY <1>2, Zenon DEF UiSub, SetSize, Signed, Sized
<1>5. PICK size : Sized(c.w, size) /\ size \in Int
  BY <1>4, LessTopType, NormalizedType
<1>6. ~Copying /\ c.fn # "mul"
  BY <1>1 DEF Copying, BitFn
<1>7. DOMAIN heap' = DOMAIN heap
  BY <1>3, DomainWritten
<1> QED
  BY <1>1, <1>5, <1>6, <1>7, GivesStep

LEMMA AbsGrowStep ==
  ASSUME IInv, AbsGrow
  PROVE  IInv'
<1>1. /\ pc = "enter" /\ NoteOperand /\ Goto("compute")
      /\ UNCHANGED <<heap, var>> \/ Grow(c.w, Abs(Size(c.u)))
  BY DEF AbsGrow, At, SameValue
<1>2. Settled(Loose)
  BY <1>1, Running, Grows, Unmoved
<1> QED
  BY <1>1, <1>2, NoteStep

LEMMA AbsCopyStep ==
  ASSUME IInv, AbsCopy
  PROVE  IInv'
<1>1. pc = "compute" /\ c.fn \in {"abs"} /\ Finish
  BY DEF AbsCopy, At
<1>2. PICK size \in Nat : size = Abs(loc.us)
  BY <1>1, Running
<1>3. \E p, n, x : heap' = heap \/ heap' = Written(heap, p, n, x)
  BY DEF AbsCopy
<1>4. SetSize(c.w, FALSE, size)
  BY <1>2, Zenon DEF AbsCopy
<1>5. PICK p, n, x, negative : /\ heap' = heap \/ heap' = Written(heap, p, n, x)
                               /\ SetSize(c.w, negative, size)
  BY <1>3, <1>4, Zenon
<1>6. size \in Int /\ c.fn \notin BitFn \cup {"mul", "tdiv_qr", "tdiv_q", "tdiv_r"}
  BY <1>1 DEF BitFn
<1> QED
  BY <1>1, <1>5, <1>6, WritesStep

LEMMA SetSiStep ==
  ASSUME IInv, SetSi
  PROVE  IInv'
<1>1. pc = "enter" /\ c.fn \in {"set_si"} /\ Finish
  BY DEF SetSi, At
<1>2. \E p, n, x, negative, size : /\ heap' = Written(heap, p, n, x) /\ SetSize(c.w, negative, size)
                                   /\ size \in {0, 1}
  BY DEF SetSi
<1>3. PICK p, n, x, negative, size : /\ heap' = Written(heap, p, n, x) /\ SetSize(c.w, negative, size)
                                     /\ size \in {0, 1}
  BY <1>2
<1>4. size \in Int /\ c.fn \notin BitFn \cup {"mul", "tdiv_qr", "tdiv_q", "tdiv_r"}
  BY <1>1, <1>3 DEF BitFn
<1> QED
  BY <1>1, <1>3, <1>4, WritesStep

-----------------------------------------------------------------------------
(* All steps.                                                              *)

\* Every step of MpzHeap keeps the invariant.
LEMMA HeapSteps == ASSUME IInv, HeapStep PROVE IInv'
BY AorsAddStep, AorsGrowStep, AorsSubStep, DivAdjustStep, DivDoneStep, DivTruncateStep, InvokeStep,
   MulComputeStep, MulCopyStep, MulFreshStep, MulGrowStep, MulZeroStep, NegInPlaceStep, ReallocStep,
   ReturnStep, SetCopyStep, SetGrowStep, SetUiStep, SwapStep, TdivByZeroStep, TdivComputeStep,
   CopyOperandsStep, TdivGrowQuotStep, TdivGrowRemStep, TdivSmallStep, UiComputeStep, UiGrowStep
   DEF HeapStep, TdivCopy

\* Every step of MpzDivide.
LEMMA DivideSteps == ASSUME IInv, DivideStep PROVE IInv'
<1>1. CASE \/ DivideByZero
           \/ TdivQSmall \/ TdivQGrow \/ TdivQCopy \/ TdivQCompute
           \/ TdivRGrow \/ TdivRSmall \/ TdivRCopy \/ TdivRCompute
  BY <1>1, DivideByZeroStep, TdivQSmallStep, TdivQGrowStep, TdivQCopyStep, TdivQComputeStep,
     TdivRGrowStep, TdivRSmallStep, TdivRCopyStep, TdivRComputeStep
<1>2. CASE \/ FdivQ \/ CdivQ \/ CorrectQ
           \/ FdivR \/ CdivR \/ Mod \/ CorrectR
           \/ UiOfZero \/ UiDivGrow
  <2>1. CASE FdivQ \/ CdivQ
    <3>1. \E fn \in {"fdiv_q", "cdiv_q"}, correct \in {"floor_q", "ceiling_q"} : RoundQ(fn, correct)
      BY <2>1 DEF FdivQ, CdivQ
    <3> QED
      BY <3>1, RoundQStep
  <2>2. CASE FdivR \/ CdivR \/ Mod
    <3>1. \E fn \in {"fdiv_r", "cdiv_r", "mod"}, correct \in {"floor_r", "ceiling_r", "least_r"} :
            RoundR(fn, correct)
      BY <2>2 DEF FdivR, CdivR, Mod
    <3> QED
      BY <3>1, RoundRStep
  <2> QED
    BY <1>2, <2>1, <2>2, CorrectQStep, CorrectRStep, UiOfZeroStep, UiDivGrowStep
<1>3. CASE \/ TdivQUi \/ TdivRUi \/ TdivQrUi \/ TdivUi
           \/ FdivQUi \/ FdivRUi \/ FdivQrUi \/ FdivUi
           \/ CdivQUi \/ CdivRUi \/ CdivQrUi \/ CdivUi
  <2>1. SignOf(loc.us) \in Int
    BY DEF SignOf
  <2>2. PICK s \in Int : s = SignOf(loc.us)
    BY <2>1
  <2>3. /\ \A fn \in {"tdiv_q_ui", "tdiv_r_ui", "tdiv_qr_ui", "tdiv_ui"} : fn \in Calculator!DivUiFns
        /\ \A fn \in {"fdiv_q_ui", "fdiv_r_ui", "fdiv_qr_ui", "fdiv_ui"} : fn \in Calculator!DivUiFns
        /\ \A fn \in {"cdiv_q_ui", "cdiv_r_ui", "cdiv_qr_ui", "cdiv_ui"} : fn \in Calculator!DivUiFns
    BY DEF Calculator!DivUiFns, Calculator!QuotUiFns, Calculator!RemUiFns,
           Calculator!QuotRemUiFns, Calculator!OnlyUiFns
  <2>5. CASE TdivQUi \/ TdivRUi \/ TdivQrUi \/ TdivUi
    <3>1. \E fn \in {"tdiv_q_ui", "tdiv_r_ui", "tdiv_qr_ui", "tdiv_ui"} : UiDiv(fn, FALSE, s)
      BY <2>2, <2>5, Zenon DEF TdivQUi, TdivRUi, TdivQrUi, TdivUi
    <3> QED
      BY <2>3, <3>1, UiDivStep, Zenon
  <2>6. CASE FdivQUi \/ FdivRUi \/ FdivQrUi \/ FdivUi
    <3>1. PICK away : away = (loc.us < 0)
      OBVIOUS
    <3>2. \E fn \in {"fdiv_q_ui", "fdiv_r_ui", "fdiv_qr_ui", "fdiv_ui"} : UiDiv(fn, away, 1)
      BY <2>6, <3>1 DEF FdivQUi, FdivRUi, FdivQrUi, FdivUi
    <3>3. PICK fn \in Calculator!DivUiFns : UiDiv(fn, away, 1)
      BY <2>3, <3>2
    <3> QED
      BY <3>3, UiDivStep
  <2>7. CASE CdivQUi \/ CdivRUi \/ CdivQrUi \/ CdivUi
    <3>1. PICK away : away = (loc.us >= 0)
      OBVIOUS
    <3>2. \E fn \in {"cdiv_q_ui", "cdiv_r_ui", "cdiv_qr_ui", "cdiv_ui"} : UiDiv(fn, away, -1)
      BY <2>7, <3>1 DEF CdivQUi, CdivRUi, CdivQrUi, CdivUi
    <3>3. PICK fn \in Calculator!DivUiFns : UiDiv(fn, away, -1)
      BY <2>3, <3>2
    <3> QED
      BY <3>3, UiDivStep
  <2> QED
    BY <1>3, <2>5, <2>6, <2>7
<1> QED
  BY <1>1, <1>2, <1>3 DEF DivideStep

\* Every step of MpzShift.
LEMMA ShiftSteps == ASSUME IInv, ShiftStep PROVE IInv'
BY Mul2expZeroStep, Mul2expGrowStep, Mul2expStep, TdivQ2expSmallStep, TdivQ2expGrowStep, TdivQ2expStep,
   TdivR2expGrowStep, TdivR2expStep, CfdivQ2expSmallStep, CfdivQ2expGrowStep, CfdivQ2expStep,
   CfdivR2expZeroStep, CfdivR2expKeepStep, CfdivR2expGrowStep, CfdivR2expStep, Realloc2Step
   DEF ShiftStep

\* Every step of MpzBitwise.
LEMMA BitSteps == ASSUME IInv, BitStep PROVE IInv'
BY BitCopyStep, BitGrowStep, BitComputeStep, ComGrowStep, ComStep, SetBitPositiveStep,
   SetBitNegativeStep, ClrBitPositiveStep, ClrBitNegativeStep, ComBitStep
   DEF BitStep

\* Every step of MpzMulAdd.
LEMMA MulAddSteps == ASSUME IInv, MulAddStep PROVE IInv'
BY AorsmulZeroStep, AorsmulLimbStep, AorsmulGrowStep, AorsmulStep, Aorsmul1ZeroStep, Aorsmul1GrowStep,
   Aorsmul1Step, MulUiZeroStep, MulUiGrowStep, MulUiStep, UiSubGrowStep, UiSubStep, AbsGrowStep,
   AbsCopyStep, SetSiStep
   DEF MulAddStep

\* And those that change none of the variables.
LEMMA StutterStep == ASSUME IInv, UNCHANGED vars PROVE IInv'
<1>1. heap' = heap /\ var' = var /\ pc' = pc /\ todo' = todo /\ loc' = loc
  BY DEF vars
<1>2. Held' = Held
  BY <1>1 DEF Held
<1>3. Typing' /\ Control'
  BY <1>1 DEF IInv, Typing, Control
<1>4. Tasks'
  BY <1>1 DEF IInv, Tasks, TempUse, TempRoom, Size, c
<1>5. Ownership'
  BY <1>1, <1>2 DEF IInv, Ownership, Freed, Copying, c
<1> QED
  BY <1>3, <1>4, <1>5 DEF IInv

\* The inductive invariant: types, the calls a division makes and what they may use of
\* temp_divisor, and who has each block.
THEOREM Invariance == Spec => []IInv
<1>1. IInv /\ [Next]_vars => IInv'
  <2> SUFFICES ASSUME IInv, [Next]_vars PROVE IInv'
    OBVIOUS
  <2> QED
    BY HeapSteps, DivideSteps, ShiftSteps, BitSteps, MulAddSteps, StutterStep DEF Next
<1> QED
  BY InitIInv, <1>1, PTL DEF Spec

\* No block is shared by two variables, every block has a variable or is freed by the
\* running function, and between calls there are no others: no function leaks or frees
\* twice, whichever of its arguments are the same variable.
THEOREM OwnedOnceHolds == Spec => []OwnedOnce
<1>1. IInv => OwnedOnce
  <2> SUFFICES ASSUME IInv PROVE OwnedOnce
    OBVIOUS
  <2>1. \A x, y \in Var : x # y => var[x].d # var[y].d
    BY DEF IInv, Ownership
  <2>2. ASSUME NEW p \in DOMAIN heap, p \notin Held
        PROVE  p \in {loc.free, loc.up, loc.vp, var[Temp].d} /\ p # None
    BY <2>2, NamesDiffer DEF IInv, Ownership, Freed, Copy
  <2>3. ASSUME pc = "idle" PROVE DOMAIN heap = Held
    <3>1. loc.free = None /\ ~Copying /\ var[Temp].d = None
      BY <2>3 DEF IInv, Ownership, Copying, Control
    <3>2. \A p \in DOMAIN heap : p \in Held
      BY <3>1, NamesDiffer DEF IInv, Ownership, Freed, Copy
    <3> QED
      BY <3>2 DEF IInv, Ownership
  <2> QED
    BY <2>1, <2>2, <2>3 DEF OwnedOnce, Held
<1> QED
  BY Invariance, <1>1, PTL

-----------------------------------------------------------------------------
(* The blocks are long enough.  IInv /\ Bounds is inductive: a step keeps the *)
(* variables' lengths those of their blocks, the numbers within them, and what *)
(* a function has noted as it was when it was noted.  The lemma <Action>Bounds *)
(* is that the action, from a state of IInv, keeps Bounds.                  *)

\* Blocks keep their lengths, but for copies and the block mpz_mul frees.
LensKept == \A p \in DOMAIN heap \ {CopyU, CopyV, loc.free} : heap'[p].len = heap[p].len

\* A block that is written to keeps its length.
LEMMA LensOfWritten ==
  ASSUME NEW h, NEW p, NEW n, NEW x
  PROVE  \A q \in DOMAIN h : Written(h, p, n, x)[q].len = h[q].len
BY DEF Written, Filled, Fresh

\* A function that writes to a block changes no length.
LEMMA WrittenKeeps ==
  ASSUME NEW p, NEW n, NEW x, heap' = Written(heap, p, n, x) \/ heap' = heap
  PROVE  LensKept
BY LensOfWritten DEF LensKept

\* Nor does one that frees its copies after.
LEMMA FreedKeeps ==
  ASSUME NEW p, NEW n, NEW x, NEW S, S \subseteq {CopyU, CopyV, loc.free},
         heap' = Without(Written(heap, p, n, x), S)
  PROVE  LensKept
<1>1. PICK h : h = Written(heap, p, n, x)
  OBVIOUS
<1>2. DOMAIN h = DOMAIN heap /\ \A q \in DOMAIN heap : h[q].len = heap[q].len
  BY <1>1, LensOfWritten, DomainWritten
<1>3. \A q \in DOMAIN h \ S : heap'[q] = h[q]
  BY <1>1 DEF Without
<1> QED
  BY <1>2, <1>3 DEF LensKept

\* Where no function is between two of its steps, only the variables matter.
LEMMA AtRest ==
  ASSUME pc' \in {"idle", "enter", "done", "raised"}, Sizes'
  PROVE  Bounds'
BY DEF Bounds, Dividing, Copied2, Computing, PointersLive

\* A function that returns leaves only the variables to look at.
LEMMA Leaves ==
  ASSUME NEW value, FinishWith(value), Sizes'
  PROVE  Bounds'
BY AtRest DEF FinishWith

\* What is known of a variable.
LEMMA SizesSay ==
  ASSUME IInv, Sizes, NEW x \in Var
  PROVE  /\ var[x].d \in DOMAIN heap /\ var[x].d \in Block /\ var[x].d \notin {CopyU, CopyV, CopyD, loc.free}
         /\ heap[var[x].d].len = var[x].alloc
         /\ var[x].alloc \in Nat /\ var[x].alloc >= 1 /\ Abs(Size(x)) <= var[x].alloc
         /\ Size(x) \in Int /\ Abs(Size(x)) \in Nat /\ var[x].size = Size(x)
<1>1. var[x].d \in Block /\ var[x].d \in Held /\ Held \subseteq DOMAIN heap /\ loc.free \notin Held
  BY NamesDiffer DEF IInv, Typing, Ownership, Held
<1>2. /\ Size(x) \in Int /\ Abs(Size(x)) \in Nat /\ var[x].alloc \in Nat /\ var[x].size = Size(x)
  BY SizeType DEF IInv
<1>3. InBlock(x) /\ var[x].alloc >= 1
  BY DEF Sizes
<1> QED
  BY <1>1, <1>2, <1>3, NamesDiffer DEF InBlock

\* What is known of temp_divisor, where there is one.
LEMMA TempSays ==
  ASSUME IInv, Sizes, var[Temp].d = CopyD
  PROVE  /\ CopyD \in DOMAIN heap /\ CopyD \notin {CopyU, CopyV, loc.free}
         /\ heap[CopyD].len = var[Temp].alloc
         /\ var[Temp].alloc \in Nat /\ Abs(Size(Temp)) <= var[Temp].alloc
         /\ Size(Temp) \in Int /\ Abs(Size(Temp)) \in Nat /\ var[Temp].size = Size(Temp)
<1>1. CopyD \in DOMAIN heap
  BY DEF IInv, Ownership
<1>2. loc.free # CopyD
  BY NamesDiffer DEF IInv, Ownership, Copy
<1>3. /\ Size(Temp) \in Int /\ Abs(Size(Temp)) \in Nat /\ var[Temp].alloc \in Nat /\ var[Temp].size = Size(Temp)
  BY SizeType DEF IInv
<1>4. InBlock(Temp)
  BY DEF Sizes
<1> QED
  BY <1>1, <1>2, <1>3, <1>4, NamesDiffer DEF InBlock

\* The steps in which no block moves: sizes stay, or fit.
LEMMA SizesKept ==
  ASSUME IInv, Sizes, Resized, LensKept,
         \A x \in Var \cup {Temp} : Abs(var'[x].size) <= var[x].alloc \/ var'[x].size = var[x].size
  PROVE  Sizes'
<1>1. ASSUME NEW x \in Var PROVE InBlock(x)' /\ var'[x].alloc >= 1
  <2>1. var'[x].d = var[x].d /\ var'[x].alloc = var[x].alloc
    BY DEF Resized
  <2>2. heap'[var[x].d].len = heap[var[x].d].len
    BY SizesSay DEF LensKept
  <2>3. Abs(var'[x].size) <= var[x].alloc
    BY SizesSay
  <2> QED
    BY <2>1, <2>2, <2>3, SizesSay DEF InBlock
<1>2. ASSUME var'[Temp].d = CopyD PROVE InBlock(Temp)'
  <2>1. var'[Temp].d = var[Temp].d /\ var'[Temp].alloc = var[Temp].alloc
    BY DEF Resized
  <2>2. var[Temp].d = CopyD
    BY <1>2, <2>1
  <2>3. heap'[CopyD].len = heap[CopyD].len
    BY <2>2, TempSays DEF LensKept
  <2>4. Abs(var'[Temp].size) <= var[Temp].alloc
    BY <2>2, TempSays
  <2> QED
    BY <2>1, <2>2, <2>3, <2>4, TempSays DEF InBlock
<1> QED
  BY <1>1, <1>2 DEF Sizes

\* A size that fits in the block is a good one.
LEMMA OneSizeFits ==
  ASSUME IInv, Sizes, LensKept, NEW x \in Var \cup {Temp}, NEW size \in Int, Sized(x, size),
         Abs(size) <= var[x].alloc
  PROVE  Sizes'
<1>1. Resized
  BY SizedKeeps
<1>2. PICK m \in {size, -size} : var' = [var EXCEPT ![x].size = m]
  BY Zenon DEF Sized
<1>3. Abs(m) = Abs(size)
  BY DEF Abs
<1>4. var \in [Var \cup {Temp} -> Fields]
  BY DEF IInv, Typing
<1>5. var'[x].size = m /\ \A y \in Var \cup {Temp} : y # x => var'[y] = var[y]
  BY <1>2, <1>4 DEF Fields
<1>6. ASSUME NEW y \in Var \cup {Temp}
      PROVE  Abs(var'[y].size) <= var[y].alloc \/ var'[y].size = var[y].size
  <2>1. CASE y = x
    BY <1>3, <1>5, <2>1
  <2>2. CASE y # x
    BY <1>5, <2>2
  <2> QED
    BY <2>1, <2>2
<1> QED
  BY <1>1, <1>6, SizesKept

\* Where nothing changes the lengths stay right.
LEMMA Stays ==
  ASSUME IInv, Sizes, UNCHANGED <<heap, var>>
  PROVE  Sizes'
BY DEF Sizes, InBlock

\* The running function's pointers.
LEMMA ComputeSays ==
  ASSUME IInv, Bounds, pc = "compute"
  PROVE  /\ Sizes /\ c.w \in Var /\ var[c.w].alloc \in Nat /\ var[c.w].alloc >= 1
         /\ Needed <= var[c.w].alloc
         /\ loc.us \in Int /\ loc.vs \in Int /\ Abs(loc.us) \in Nat /\ Abs(loc.vs) \in Nat
         /\ Size(c.w) \in Int /\ Abs(Size(c.w)) \in Nat /\ Abs(Size(c.w)) <= var[c.w].alloc
<1>1. c.w \in Var /\ Sizes
  BY Running DEF Bounds
<1>2. loc.wp = var[c.w].d /\ Needed <= heap[loc.wp].len
  BY DEF Bounds, PointersLive
<1>3. heap[var[c.w].d].len = var[c.w].alloc
  BY <1>1, SizesSay
<1> QED
  BY <1>1, <1>2, <1>3, SizesSay, Running, Zenon

\* A result of no more limbs than there is room for, with the top one off or not.
LEMMA ResultFits ==
  ASSUME IInv, Bounds, pc = "compute", LensKept, Finish, NEW size \in Int, Sized(c.w, size),
         Abs(size) <= var[c.w].alloc
  PROVE  Bounds'
<1>1. Sizes'
  BY ComputeSays, OneSizeFits
<1> QED
  BY <1>1, Leaves DEF Finish

\* With limbs off the top a number fits where it fitted before.
LEMMA Small2 ==
  ASSUME NEW n \in Nat, NEW a \in Nat, a >= 1, n <= a, NEW x
  PROVE  /\ LessTop(n, x) \in Int /\ Abs(LessTop(n, x)) <= a
         /\ Normalized(n, x) \in Int /\ Abs(Normalized(n, x)) <= a
         /\ Abs(n) <= a
<1>1. LessTop(n, x) \in {n - 1, n} /\ Normalized(n, x) \in 0 .. n
  BY LessTopType, NormalizedType
<1> QED
  BY <1>1 DEF Abs

-----------------------------------------------------------------------------
\* The variables a function may use: temp_divisor, where there is one.
Usable == {x \in Var \cup {Temp} : x = Temp => var[Temp].d = CopyD}

\* A function's arguments are variables, or temp_divisor where there is one.
LEMMA UsableArguments ==
  ASSUME IInv, pc \in {"enter", "quot", "room", "copy", "compute"}
  PROVE  c.w \in Usable /\ c.u \in Usable /\ c.v \in Usable /\ c.r \in Usable
<1>1. todo # <<>>
  BY Running
<1>2. TempUse(c)
  BY <1>1, Arguments
<1> QED
  BY <1>2, Running, NamesDiffer DEF Usable, TempUse

\* What is known of each of them.
LEMMA Known ==
  ASSUME IInv, Sizes, NEW x \in Usable
  PROVE  /\ var[x].d \in DOMAIN heap /\ var[x].d \notin {CopyU, CopyV, loc.free}
         /\ heap[var[x].d].len = var[x].alloc
         /\ var[x].alloc \in Nat /\ Abs(Size(x)) <= var[x].alloc
         /\ Size(x) \in Int /\ Abs(Size(x)) \in Nat /\ var[x].size = Size(x)
<1>1. CASE x \in Var
  BY <1>1, SizesSay
<1>2. CASE x = Temp
  <2>1. var[Temp].d = CopyD
    BY <1>2 DEF Usable
  <2> QED
    BY <1>2, <2>1, TempSays
<1> QED
  BY <1>1, <1>2 DEF Usable

\* Variable x has room for len limbs, and the numbers are still there.
Grown(x, len) ==
  /\ Sizes'
  /\ \A y \in Usable :
       /\ var'[y].d \in DOMAIN heap' /\ heap'[var'[y].d].len = var'[y].alloc
       /\ var'[y].size = var[y].size /\ var'[y].alloc \in Nat /\ var'[y].alloc >= var[y].alloc
  /\ var'[x].alloc >= len
  /\ \A p \in DOMAIN heap \cap Copy : p \in DOMAIN heap' /\ heap'[p].len = heap[p].len

\* A variable that has the room already has grown.
LEMMA StayGrown ==
  ASSUME IInv, Sizes, UNCHANGED <<heap, var>>, NEW x \in Usable, NEW len \in Nat, len <= var[x].alloc
  PROVE  Grown(x, len)
BY Known, Stays DEF Grown

\* The block of x becomes block b at p, and the variable f knows its length.
MovesTo(x, p, b, f) ==
  /\ p \in (Block \ DOMAIN heap) \cup {var[x].d}
  /\ heap' = With(Without(heap, {var[x].d}), p, b)
  /\ var' = [var EXCEPT ![x] = f]
  /\ f.d = p /\ f.alloc = b.len /\ f.alloc \in Nat /\ f.alloc >= 1 /\ Abs(f.size) <= f.alloc

\* A block that moves takes its length to its new place, and disturbs no other.
LEMMA MovedSizes ==
  ASSUME IInv, Sizes, NEW x \in Var, NEW p, NEW b, NEW f, MovesTo(x, p, b, f)
  PROVE  /\ Sizes' /\ var'[x] = f /\ p \in DOMAIN heap' /\ heap'[p] = b
         /\ \A y \in Usable : y # x => /\ var'[y] = var[y] /\ var[y].d \in DOMAIN heap'
                                       /\ heap'[var[y].d].len = var[y].alloc
         /\ \A q \in DOMAIN heap \cap Copy : q \in DOMAIN heap' /\ heap'[q].len = heap[q].len
<1>0. /\ p \in (Block \ DOMAIN heap) \cup {var[x].d} /\ heap' = With(Without(heap, {var[x].d}), p, b)
      /\ var' = [var EXCEPT ![x] = f]
      /\ f.d = p /\ f.alloc = b.len /\ f.alloc \in Nat /\ f.alloc >= 1 /\ Abs(f.size) <= f.alloc
  BY DEF MovesTo
<1>1. var[x].d \in DOMAIN heap /\ var[x].d \in Block
  BY SizesSay
<1>2. var \in [Var \cup {Temp} -> Fields] /\ (\A y, z \in Var : y # z => var[y].d # var[z].d)
  BY DEF IInv, Typing, Ownership
<1>3. var'[x] = f /\ \A y \in Var \cup {Temp} : y # x => var'[y] = var[y]
  BY <1>0, <1>2
<1>4. p \in DOMAIN heap' /\ heap'[p] = b
  BY <1>0 DEF With, Without
<1>5. ASSUME NEW q \in DOMAIN heap, q # var[x].d
      PROVE  q \in DOMAIN heap' /\ heap'[q] = heap[q]
  BY <1>0, <1>5 DEF With, Without
<1>6. ASSUME NEW y \in Usable, y # x
      PROVE  /\ var'[y] = var[y] /\ var[y].d \in DOMAIN heap' /\ heap'[var[y].d].len = var[y].alloc
             /\ Abs(var[y].size) <= var[y].alloc
  <2>1. var[y].d # var[x].d
    <3>1. CASE y \in Var
      BY <1>2, <1>6, <3>1
    <3>2. CASE y = Temp
      BY <1>1, <3>2, NamesDiffer DEF Usable
    <3> QED
      BY <3>1, <3>2 DEF Usable
  <2>2. var'[y] = var[y]
    BY <1>3, <1>6 DEF Usable
  <2>3. var[y].d \in DOMAIN heap /\ heap[var[y].d].len = var[y].alloc /\ Abs(var[y].size) <= var[y].alloc
    BY Known
  <2> QED
    BY <1>5, <2>1, <2>2, <2>3
<1>7. Sizes'
  <2>1. ASSUME NEW y \in Var PROVE InBlock(y)' /\ var'[y].alloc >= 1
    <3>1. CASE y = x
      BY <1>0, <1>3, <1>4, <3>1 DEF InBlock
    <3>2. CASE y # x
      <4>1. y \in Usable /\ var[y].alloc >= 1
        BY SizesSay, NamesDiffer DEF Usable
      <4> QED
        BY <1>6, <3>2, <4>1 DEF InBlock
    <3> QED
      BY <3>1, <3>2
  <2>2. ASSUME var'[Temp].d = CopyD PROVE InBlock(Temp)'
    <3>1. Temp # x
      BY NamesDiffer
    <3>2. Temp \in Usable
      BY <1>3, <2>2, <3>1 DEF Usable
    <3> QED
      BY <1>6, <3>1, <3>2 DEF InBlock
  <2> QED
    BY <2>1, <2>2 DEF Sizes
<1>8. ASSUME NEW q \in DOMAIN heap \cap Copy PROVE q \in DOMAIN heap' /\ heap'[q].len = heap[q].len
  BY <1>1, <1>5, NamesDiffer DEF Copy
<1> QED
  BY <1>3, <1>4, <1>6, <1>7, <1>8

\* What _mpz_realloc does, to a longer block or a shorter one.
LEMMA Reallocated ==
  ASSUME IInv, Sizes, NEW x \in Var, NEW len \in Nat, len >= 1, Reallocate(x, len)
  PROVE  Sizes' /\ (len > var[x].alloc => Grown(x, len))
<1>0. PICK p \in (Block \ DOMAIN heap) \cup {var[x].d} : \E b :
        /\ heap' = With(Without(heap, {var[x].d}), p, b)
        /\ b.len = len
        /\ var' = [var EXCEPT ![x] =
             [alloc |-> len, size |-> IF Abs(@.size) > len THEN 0 ELSE @.size, d |-> p]]
  <2>1. PICK p \in (Block \ DOMAIN heap) \cup {var[x].d} :
          /\ \E known, num : heap' = With(Without(heap, {var[x].d}), p, [len |-> len, known |-> known, num |-> num])
          /\ var' = [var EXCEPT ![x] =
               [alloc |-> len, size |-> IF Abs(@.size) > len THEN 0 ELSE @.size, d |-> p]]
    BY Zenon DEF Reallocate
  <2>2. PICK known, num : heap' = With(Without(heap, {var[x].d}), p, [len |-> len, known |-> known, num |-> num])
    BY <2>1, Zenon
  <2>3. PICK b : b = [len |-> len, known |-> known, num |-> num]
    BY Zenon
  <2>4. b.len = len /\ heap' = With(Without(heap, {var[x].d}), p, b)
    BY <2>2, <2>3
  <2> QED
    BY <2>1, <2>4, Zenon
<1>1. PICK b :
        /\ heap' = With(Without(heap, {var[x].d}), p, b)
        /\ b.len = len
        /\ var' = [var EXCEPT ![x] =
             [alloc |-> len, size |-> IF Abs(@.size) > len THEN 0 ELSE @.size, d |-> p]]
  BY <1>0
<1>2. PICK size : size = IF Abs(var[x].size) > len THEN 0 ELSE var[x].size
  OBVIOUS
<1>3. PICK f : f = [alloc |-> len, size |-> size, d |-> p]
  BY Zenon
<1>4. var' = [var EXCEPT ![x] = f] /\ f.alloc = len /\ f.size = size /\ f.d = p
  BY <1>1, <1>2, <1>3
<1>5. var[x].alloc \in Nat /\ Abs(var[x].size) <= var[x].alloc /\ Abs(var[x].size) \in Nat
  BY SizesSay
<1>6. Abs(size) <= len /\ (len > var[x].alloc => size = var[x].size)
  <2>1. CASE Abs(var[x].size) > len
    <3>1. size = 0
      BY <1>2, <2>1
    <3>2. ~ (len > var[x].alloc)
      BY <1>5, <2>1
    <3> QED
      BY <3>1, <3>2 DEF Abs
  <2>2. CASE ~ (Abs(var[x].size) > len)
    <3>1. size = var[x].size
      BY <1>2, <2>2
    <3> QED
      BY <1>5, <2>2, <3>1
  <2> QED
    BY <2>1, <2>2
<1>7. /\ Sizes' /\ var'[x] = f /\ p \in DOMAIN heap' /\ heap'[p] = b
      /\ \A y \in Usable : y # x => /\ var'[y] = var[y] /\ var[y].d \in DOMAIN heap'
                                    /\ heap'[var[y].d].len = var[y].alloc
      /\ \A q \in DOMAIN heap \cap Copy : q \in DOMAIN heap' /\ heap'[q].len = heap[q].len
  <2>1. MovesTo(x, p, b, f)
    BY <1>1, <1>4, <1>6, Zenon DEF MovesTo
  <2> QED
    BY <2>1, MovedSizes
<1>8. ASSUME len > var[x].alloc PROVE Grown(x, len)
  <2>1. ASSUME NEW y \in Usable
        PROVE  /\ var'[y].d \in DOMAIN heap' /\ heap'[var'[y].d].len = var'[y].alloc
               /\ var'[y].size = var[y].size /\ var'[y].alloc \in Nat /\ var'[y].alloc >= var[y].alloc
    <3>1. CASE y = x
      <4>1. var'[x].d = p /\ var'[x].size = size /\ var'[x].alloc = len
        BY <1>4, <1>7
      <4>2. heap'[p].len = len /\ p \in DOMAIN heap'
        BY <1>1, <1>7
      <4>3. size = var[x].size /\ len >= var[x].alloc
        BY <1>5, <1>6, <1>8
      <4> QED
        BY <3>1, <4>1, <4>2, <4>3
    <3>2. CASE y # x
      BY <1>7, <3>2, Known
    <3> QED
      BY <3>1, <3>2
  <2> QED
    BY <1>4, <1>7, <2>1 DEF Grown
<1> QED
  BY <1>7, <1>8

\* MPZ_REALLOC leaves room for what it is asked for, and keeps every number.
LEMMA GrowGrown ==
  ASSUME IInv, Sizes, NEW x \in Var, NEW len \in Nat, Grow(x, len)
  PROVE  Grown(x, len)
<1>1. var[x].alloc \in Nat /\ x \in Usable
  BY SizesSay, NamesDiffer DEF Usable
<1>2. CASE var[x].alloc < len
  BY <1>1, <1>2, Reallocated DEF Grow
<1>3. CASE ~ (var[x].alloc < len)
  BY <1>1, <1>3, StayGrown DEF Grow
<1> QED
  BY <1>2, <1>3
\* The arms of Needed, here and after a step.
NeededIs ==
  LET us == Abs(loc.us)
      vs == Abs(loc.vs)
      n == Abs(Size(c.w))
  IN /\ c.fn \in {"add", "sub", "add_ui", "sub_ui", "mul_ui", "mul_si"} => Needed = us + 1
     /\ c.fn = "mul" => Needed = us + vs
     /\ c.fn \in AorsFns => Needed = MaxOf(n, us + vs) + 1
     /\ c.fn \in AorsUiFns => Needed = MaxOf(n, us) + 1
     /\ c.fn = "ui_sub" => Needed = IF loc.us < 0 THEN us + 1 ELSE MaxOf(us, 1)
     /\ c.fn = "com" => Needed = IF loc.us < 0 THEN us ELSE us + 1
     /\ c.fn \in BitFn => Needed = Room(loc.ws)
     /\ c.fn \in {"tdiv_qr", "tdiv_q"} => Needed = QuotSize
     /\ c.fn \in {"tdiv_r", "tdiv_r_2exp"} => Needed = vs
     /\ c.fn = "mul_2exp" => Needed = us + LimbCnt + 1
     /\ c.fn = "tdiv_q_2exp" => Needed = us - LimbCnt
     /\ c.fn \in {"cdiv_q_2exp", "fdiv_q_2exp"} => Needed = us - LimbCnt + 1
     /\ c.fn \in CfdivR =>
          Needed = IF (loc.us >= 0) # (c.fn \in UpFns) /\ us <= LimbCnt THEN us ELSE LimbCnt + 1
     /\ c.fn \in Calculator!DivUiFns => Needed = IF HasQuot(c.fn) THEN us ELSE 1
     /\ c.fn \in {"set", "neg", "abs"} => Needed = us

\* No arm of Needed comes before the one that is meant.
LEMMA NeededHolds == NeededIs
BY DEF NeededIs, Needed, AorsFns, AorsUiFns, BitFn, CfdivR, UpFns, HasQuot, Calculator!DivUiFns, Calculator!QuotUiFns, Calculator!RemUiFns, Calculator!QuotRemUiFns, Calculator!OnlyUiFns

\* Nor after a step.
LEMMA NeededNext == NeededIs'
BY NeededHolds, PTL

-----------------------------------------------------------------------------
(* The steps to the computation.                                           *)

\* A function that goes to its computation has pointers, and room, and no more to show.
LEMMA Computes ==
  ASSUME Sizes', pc' = "compute", Computing', PointersLive'
  PROVE  Bounds'
BY DEF Bounds, Dividing, Copied2

\* The operand and the destination are noted.
LEMMA Noted ==
  ASSUME IInv, Sizes, pc = "enter", NEW n \in Nat, Grown(c.w, n), NoteOperand, Goto("compute")
  PROVE  /\ c' = c /\ pc' = "compute" /\ Size(c.w)' = Size(c.w) /\ LimbCnt' = LimbCnt
         /\ loc'.us = Size(c.u) /\ loc'.vs = 0 /\ loc'.up = var'[c.u].d /\ loc'.wp = var'[c.w].d
         /\ Abs(loc'.us) = Abs(Size(c.u)) /\ Abs(loc'.us) \in Nat
<1>1. c' = c /\ pc' = "compute"
  BY DEF Goto, c
<1>2. var'[c.w].size = var[c.w].size
  BY UsableArguments DEF Grown
<1>3. PICK us, up, wp : us = Size(c.u) /\ up = var'[c.u].d /\ wp = var'[c.w].d
  OBVIOUS
<1>4. loc' = Notes(us, 0, up, None, wp, None)
  BY <1>3 DEF NoteOperand
<1>5. loc'.us = us /\ loc'.vs = 0 /\ loc'.up = up /\ loc'.wp = wp
  BY <1>4 DEF Notes
<1>6. Abs(Size(c.u)) \in Nat
  BY Running
<1> QED
  BY <1>1, <1>2, <1>3, <1>5, <1>6 DEF Size, LimbCnt

\* A function of one operand, and room for n limbs, goes to its computation.
LEMMA NotedBounds ==
  ASSUME IInv, Sizes, pc = "enter", c.fn \notin BitFn \cup {"tdiv_qr", "tdiv_q"},
         NEW n \in Nat, Grown(c.w, n), NoteOperand, Goto("compute"), Needed' \in Int, Needed' <= n,
         c.fn \in {"tdiv_q_2exp", "cdiv_q_2exp", "fdiv_q_2exp"} => Abs(Size(c.u)) > LimbCnt
  PROVE  Bounds'
<1>1. /\ c' = c /\ pc' = "compute" /\ LimbCnt' = LimbCnt
      /\ loc'.us = Size(c.u) /\ loc'.vs = 0 /\ loc'.up = var'[c.u].d /\ loc'.wp = var'[c.w].d
      /\ Abs(loc'.us) = Abs(Size(c.u))
  BY Noted
<1>2. c.w \in Usable /\ c.u \in Usable
  BY UsableArguments
<1>3. /\ var'[c.u].d \in DOMAIN heap' /\ heap'[var'[c.u].d].len >= Abs(Size(c.u))
  <2>1. /\ var'[c.u].d \in DOMAIN heap' /\ heap'[var'[c.u].d].len = var'[c.u].alloc
        /\ var'[c.u].alloc \in Nat /\ var'[c.u].alloc >= var[c.u].alloc
    BY <1>2 DEF Grown
  <2>2. var[c.u].alloc \in Nat /\ Abs(Size(c.u)) <= var[c.u].alloc /\ Abs(Size(c.u)) \in Nat
    BY <1>2, Known
  <2> QED
    BY <2>1, <2>2
<1>4. Needed' <= heap'[var'[c.w].d].len
  <2>1. /\ heap'[var'[c.w].d].len = var'[c.w].alloc /\ var'[c.w].alloc \in Nat /\ var'[c.w].alloc >= n
    BY <1>2 DEF Grown
  <2> QED
    BY <2>1
<1>5. PointersLive'
  BY <1>1, <1>3, <1>4 DEF PointersLive
<1>6. Computing'
  BY <1>1 DEF Computing
<1>7. Sizes'
  BY DEF Grown
<1> QED
  BY <1>1, <1>5, <1>6, <1>7, Computes

LEMMA UiGrowBounds ==
  ASSUME IInv, Bounds, UiGrow
  PROVE  Bounds'
<1>1. /\ pc = "enter" /\ c.fn \in {"add_ui", "sub_ui"} /\ Grow(c.w, Abs(Size(c.u)) + 1) /\ NoteOperand
      /\ Goto("compute") /\ Sizes
  BY DEF UiGrow, At, Bounds
<1>2. PICK n \in Nat : n = Abs(Size(c.u)) + 1
  BY <1>1, Running
<1>3. Grown(c.w, n)
  BY <1>1, <1>2, Running, GrowGrown, Zenon
<1>4. Needed' = n
  <2>1. c' = c /\ Abs(loc'.us) = Abs(Size(c.u))
    BY <1>1, <1>3, Noted
  <2> QED
    BY <1>1, <1>2, <2>1, NeededNext DEF NeededIs
<1> QED
  BY <1>1, <1>3, <1>4, NotedBounds DEF BitFn
LEMMA MulUiGrowBounds ==
  ASSUME IInv, Bounds, MulUiGrow
  PROVE  Bounds'
<1>1. /\ pc = "enter" /\ c.fn \in {"mul_ui", "mul_si"} /\ Grow(c.w, Abs(Size(c.u)) + 1) /\ NoteOperand
      /\ Goto("compute") /\ Sizes
  BY DEF MulUiGrow, At, Bounds
<1>2. PICK n \in Nat : n = Abs(Size(c.u)) + 1
  BY <1>1, Running
<1>3. Grown(c.w, n)
  BY <1>1, <1>2, Running, GrowGrown, Zenon
<1>4. Needed' = n
  <2>1. c' = c /\ Abs(loc'.us) = Abs(Size(c.u))
    BY <1>1, <1>3, Noted
  <2> QED
    BY <1>1, <1>2, <2>1, NeededNext DEF NeededIs
<1> QED
  BY <1>1, <1>3, <1>4, NotedBounds DEF BitFn

LEMMA Aorsmul1GrowBounds ==
  ASSUME IInv, Bounds, Aorsmul1Grow
  PROVE  Bounds'
<1>1. /\ pc = "enter" /\ c.fn \in AorsUiFns /\ Grow(c.w, MaxOf(Abs(Size(c.w)), Abs(Size(c.u))) + 1)
      /\ NoteOperand /\ Goto("compute") /\ Sizes
  BY DEF Aorsmul1Grow, At, Bounds
<1>2. PICK n \in Nat : n = MaxOf(Abs(Size(c.w)), Abs(Size(c.u))) + 1
  BY <1>1, Running DEF MaxOf
<1>3. Grown(c.w, n)
  BY <1>1, <1>2, Running, GrowGrown, Zenon
<1>4. Needed' = n
  <2>1. c' = c /\ Abs(loc'.us) = Abs(Size(c.u)) /\ Size(c.w)' = Size(c.w)
    BY <1>1, <1>3, Noted
  <2>2. Needed' = MaxOf(Abs(Size(c.w)'), Abs(loc'.us)) + 1
    BY <1>1, <2>1, NeededNext DEF NeededIs
  <2> QED
    BY <1>2, <2>1, <2>2
<1> QED
  BY <1>1, <1>3, <1>4, NotedBounds DEF BitFn, AorsUiFns

LEMMA SetGrowBounds ==
  ASSUME IInv, Bounds, SetGrow
  PROVE  Bounds'
<1>1. /\ pc = "enter" /\ c.fn \in {"set", "neg"} /\ Grow(c.w, Abs(Size(c.u))) /\ NoteOperand
      /\ Goto("compute") /\ Sizes
  BY DEF SetGrow, At, Bounds
<1>2. PICK n \in Nat : n = Abs(Size(c.u))
  BY <1>1, Running
<1>3. Grown(c.w, n)
  BY <1>1, <1>2, Running, GrowGrown, Zenon
<1>4. Needed' = n
  <2>1. c' = c /\ Abs(loc'.us) = Abs(Size(c.u))
    BY <1>1, <1>3, Noted
  <2> QED
    BY <1>1, <1>2, <2>1, NeededNext DEF NeededIs
<1> QED
  BY <1>1, <1>3, <1>4, NotedBounds DEF BitFn

LEMMA AbsGrowBounds ==
  ASSUME IInv, Bounds, AbsGrow
  PROVE  Bounds'
<1>1. pc = "enter" /\ c.fn = "abs" /\ NoteOperand /\ Goto("compute") /\ Sizes
  BY DEF AbsGrow, At, Bounds
<1>2. PICK n \in Nat : n = Abs(Size(c.u))
  BY <1>1, Running
<1>3. Grown(c.w, n)
  <2>1. CASE c.u = c.w
    BY <1>1, <1>2, <2>1, StayGrown, UsableArguments, Known DEF AbsGrow, SameValue
  <2>2. CASE c.u # c.w
    BY <1>1, <1>2, <2>2, Running, GrowGrown, Zenon DEF AbsGrow
  <2> QED
    BY <2>1, <2>2
<1>4. Needed' = n
  <2>1. c' = c /\ Abs(loc'.us) = Abs(Size(c.u))
    BY <1>1, <1>3, Noted
  <2> QED
    BY <1>1, <1>2, <2>1, NeededNext DEF NeededIs
<1> QED
  BY <1>1, <1>3, <1>4, NotedBounds DEF BitFn

LEMMA ComGrowBounds ==
  ASSUME IInv, Bounds, ComGrow
  PROVE  Bounds'
<1>1. /\ pc = "enter" /\ c.fn = "com" /\ Grow(c.w, Abs(Size(c.u)) + (IF Size(c.u) >= 0 THEN 1 ELSE 0))
      /\ NoteOperand /\ Goto("compute") /\ Sizes
  BY DEF ComGrow, At, Bounds
<1>2. PICK n \in Nat : n = Abs(Size(c.u)) + (IF Size(c.u) >= 0 THEN 1 ELSE 0)
  BY <1>1, Running
<1>3. Grown(c.w, n)
  BY <1>1, <1>2, Running, GrowGrown, Zenon
<1>4. Needed' = n
  <2>1. c' = c /\ loc'.us = Size(c.u)
    BY <1>1, <1>3, Noted
  <2>2. Needed' = IF loc'.us < 0 THEN Abs(loc'.us) ELSE Abs(loc'.us) + 1
    BY <1>1, <2>1, NeededNext DEF NeededIs
  <2>3. Size(c.u) \in Int /\ Abs(Size(c.u)) \in Nat
    BY <1>1, Running
  <2> QED
    BY <1>2, <2>1, <2>2, <2>3
<1> QED
  BY <1>1, <1>3, <1>4, NotedBounds DEF BitFn

LEMMA UiSubGrowBounds ==
  ASSUME IInv, Bounds, UiSubGrow
  PROVE  Bounds'
<1>1. pc = "enter" /\ c.fn = "ui_sub" /\ NoteOperand /\ Goto("compute") /\ Sizes
  BY DEF UiSubGrow, At, Bounds
<1>2. PICK us \in Int : us = Size(c.u)
  BY <1>1, Running
<1>3. PICK n \in Nat : n = IF us > 1 THEN us ELSE IF us < 0 THEN -us + 1 ELSE 1
  OBVIOUS
<1>4. Grown(c.w, n)
  <2>1. CASE us > 1
    <3>1. Grow(c.w, n)
      BY <1>2, <1>3, <2>1 DEF UiSubGrow
    <3> QED
      BY <1>1, <3>1, Running, GrowGrown, Zenon
  <2>2. CASE us < 0
    <3>1. ~ (us > 1)
      BY <2>2
    <3>2. Grow(c.w, n)
      BY <1>2, <1>3, <2>2, <3>1 DEF UiSubGrow
    <3> QED
      BY <1>1, <3>2, Running, GrowGrown, Zenon
  <2>3. CASE ~ (us > 1) /\ ~ (us < 0)
    <3>1. UNCHANGED <<heap, var>>
      BY <1>2, <2>3 DEF UiSubGrow, SameValue
    <3>2. n <= var[c.w].alloc
      BY <1>1, <1>3, <2>3, Running, SizesSay
    <3> QED
      BY <1>1, <3>1, <3>2, UsableArguments, StayGrown
  <2> QED
    BY <2>1, <2>2, <2>3
<1>5. Needed' = n
  <2>1. c' = c /\ loc'.us = us
    BY <1>1, <1>2, <1>4, Noted
  <2>2. Needed' = IF us < 0 THEN Abs(us) + 1 ELSE MaxOf(Abs(us), 1)
    BY <1>1, <2>1, NeededNext DEF NeededIs
  <2> QED
    BY <1>3, <2>2 DEF Abs, MaxOf
<1> QED
  BY <1>1, <1>4, <1>5, NotedBounds DEF BitFn

LEMMA Mul2expGrowBounds ==
  ASSUME IInv, Bounds, Mul2expGrow
  PROVE  Bounds'
<1>1. /\ pc = "enter" /\ c.fn = "mul_2exp" /\ Grow(c.w, Abs(Size(c.u)) + LimbCnt + 1) /\ NoteOperand
      /\ Goto("compute") /\ Sizes
  BY DEF Mul2expGrow, At, Bounds
<1>2. LimbCnt \in Nat
  BY <1>1, LimbCntType DEF AorsUiFns
<1>3. PICK n \in Nat : n = Abs(Size(c.u)) + LimbCnt + 1
  BY <1>1, <1>2, Running
<1>4. Grown(c.w, n)
  BY <1>1, <1>3, Running, GrowGrown, Zenon
<1>5. Needed' = n
  <2>1. c' = c /\ Abs(loc'.us) = Abs(Size(c.u)) /\ LimbCnt' = LimbCnt
    BY <1>1, <1>4, Noted
  <2> QED
    BY <1>1, <1>3, <2>1, NeededNext DEF NeededIs
<1> QED
  BY <1>1, <1>4, <1>5, NotedBounds DEF BitFn

LEMMA TdivQ2expGrowBounds ==
  ASSUME IInv, Bounds, TdivQ2expGrow
  PROVE  Bounds'
<1>1. /\ pc = "enter" /\ c.fn = "tdiv_q_2exp" /\ Abs(Size(c.u)) > LimbCnt
      /\ Grow(c.w, Abs(Size(c.u)) - LimbCnt) /\ NoteOperand /\ Goto("compute") /\ Sizes
  BY DEF TdivQ2expGrow, At, Bounds
<1>2. LimbCnt \in Nat
  BY <1>1, LimbCntType DEF AorsUiFns
<1>3. PICK n \in Nat : n = Abs(Size(c.u)) - LimbCnt
  BY <1>1, <1>2, Running
<1>4. Grown(c.w, n)
  BY <1>1, <1>3, Running, GrowGrown, Zenon
<1>5. Needed' = n
  <2>1. c' = c /\ Abs(loc'.us) = Abs(Size(c.u)) /\ LimbCnt' = LimbCnt
    BY <1>1, <1>4, Noted
  <2> QED
    BY <1>1, <1>3, <2>1, NeededNext DEF NeededIs
<1> QED
  BY <1>1, <1>4, <1>5, NotedBounds DEF BitFn

LEMMA CfdivQ2expGrowBounds ==
  ASSUME IInv, Bounds, CfdivQ2expGrow
  PROVE  Bounds'
<1>1. /\ pc = "enter" /\ c.fn \in {"cdiv_q_2exp", "fdiv_q_2exp"} /\ Abs(Size(c.u)) > LimbCnt
      /\ Grow(c.w, Abs(Size(c.u)) - LimbCnt + 1) /\ NoteOperand /\ Goto("compute") /\ Sizes
  BY DEF CfdivQ2expGrow, At, Bounds
<1>2. LimbCnt \in Nat
  BY <1>1, LimbCntType DEF AorsUiFns
<1>3. PICK n \in Nat : n = Abs(Size(c.u)) - LimbCnt + 1
  BY <1>1, <1>2, Running
<1>4. Grown(c.w, n)
  BY <1>1, <1>3, Running, GrowGrown, Zenon
<1>5. Needed' = n
  <2>1. c' = c /\ Abs(loc'.us) = Abs(Size(c.u)) /\ LimbCnt' = LimbCnt
    BY <1>1, <1>4, Noted
  <2> QED
    BY <1>1, <1>3, <2>1, NeededNext DEF NeededIs
<1> QED
  BY <1>1, <1>4, <1>5, NotedBounds DEF BitFn

LEMMA CfdivR2expGrowBounds ==
  ASSUME IInv, Bounds, CfdivR2expGrow
  PROVE  Bounds'
<1>1. pc = "enter" /\ c.fn \in CfdivR /\ NoteOperand /\ Goto("compute") /\ Sizes
  BY DEF CfdivR2expGrow, At, Bounds
<1>2. LimbCnt \in Nat
  BY <1>1, LimbCntType DEF AorsUiFns, CfdivR
<1>3. PICK us, k : us = Size(c.u) /\ k = LimbCnt
  OBVIOUS
<1>4. us \in Int /\ Abs(us) \in Nat /\ k \in Nat
  BY <1>1, <1>2, <1>3, Running
<1>5. PICK n \in Nat : n = IF (us >= 0) # (c.fn \in UpFns) /\ Abs(us) <= k THEN Abs(us) ELSE k + 1
  BY <1>4
<1>6. Grown(c.w, n)
  <2>1. CASE ~Away(UpFns) /\ c.w # c.u
    <3>1. Grow(c.w, IF Covers THEN Abs(us) ELSE k + 1)
      BY <1>3, <2>1 DEF CfdivR2expGrow
    <3>2. n = IF Covers THEN Abs(us) ELSE k + 1
      BY <1>3, <1>5, <2>1 DEF Away, Covers
    <3> QED
      BY <1>1, <3>1, <3>2, Running, GrowGrown, Zenon
  <2>2. CASE ~Away(UpFns) /\ c.w = c.u
    <3>1. ~Covers /\ UNCHANGED <<heap, var>>
      BY <2>2 DEF CfdivR2expGrow
    <3>2. n = k + 1 /\ Abs(us) > k
      BY <1>3, <1>4, <1>5, <3>1 DEF Covers
    <3>3. c.u \in Usable /\ var[c.u].alloc \in Nat /\ Abs(us) <= var[c.u].alloc
      BY <1>1, <1>3, UsableArguments, Known
    <3>4. n <= var[c.u].alloc
      BY <1>4, <3>2, <3>3
    <3> QED
      BY <1>1, <2>2, <3>1, <3>3, <3>4, StayGrown
  <2>3. CASE Away(UpFns)
    <3>1. Grow(c.w, k + 1)
      BY <1>3, <2>3 DEF CfdivR2expGrow
    <3>2. n = k + 1
      BY <1>3, <1>5, <2>3 DEF Away
    <3> QED
      BY <1>1, <3>1, <3>2, Running, GrowGrown, Zenon
  <2> QED
    BY <2>1, <2>2, <2>3
<1>7. Needed' = n
  <2>1. c' = c /\ loc'.us = us /\ LimbCnt' = k
    BY <1>1, <1>3, <1>6, Noted
  <2> QED
    BY <1>1, <1>5, <2>1, NeededNext DEF NeededIs
<1> QED
  BY <1>1, <1>6, <1>7, NotedBounds DEF BitFn, CfdivR

LEMMA UiDivGrowBounds ==
  ASSUME IInv, Bounds, UiDivGrow
  PROVE  Bounds'
<1>1. pc = "enter" /\ c.fn \in Calculator!DivUiFns /\ NoteOperand /\ Goto("compute") /\ Sizes
  BY DEF UiDivGrow, At, Bounds
<1>2. PICK n \in Nat : n = IF HasQuot(c.fn) THEN Abs(Size(c.u)) ELSE 1
  BY <1>1, Running
<1>3. Grown(c.w, n)
  <2>1. CASE HasQuot(c.fn)
    BY <1>1, <1>2, <2>1, Running, GrowGrown, Zenon DEF UiDivGrow
  <2>2. CASE ~HasQuot(c.fn)
    <3>1. UNCHANGED <<heap, var>> /\ n = 1
      BY <1>2, <2>2 DEF UiDivGrow
    <3>2. n <= var[c.w].alloc
      BY <1>1, <3>1, Running, SizesSay, Zenon
    <3> QED
      BY <1>1, <3>1, <3>2, UsableArguments, StayGrown
  <2> QED
    BY <2>1, <2>2
<1>4. Needed' = n
  <2>1. c' = c /\ Abs(loc'.us) = Abs(Size(c.u))
    BY <1>1, <1>3, Noted
  <2> QED
    BY <1>1, <1>2, <2>1, NeededNext DEF NeededIs
<1>5. c.fn \notin BitFn \cup {"tdiv_qr", "tdiv_q", "tdiv_q_2exp", "cdiv_q_2exp", "fdiv_q_2exp"}
  BY <1>1 DEF BitFn, Calculator!DivUiFns, Calculator!QuotUiFns, Calculator!RemUiFns,
              Calculator!QuotRemUiFns, Calculator!OnlyUiFns
<1> QED
  BY <1>1, <1>3, <1>4, <1>5, NotedBounds

-----------------------------------------------------------------------------
(* The computations.                                                       *)

\* A result that is written and sized within its block keeps the bounds.
LEMMA WritesFit ==
  ASSUME IInv, Bounds, pc = "compute", NEW p, NEW n, NEW x, heap' = Written(heap, p, n, x) \/ heap' = heap,
         NEW negative, NEW size \in Int, SetSize(c.w, negative, size), Abs(size) <= var[c.w].alloc, Finish
  PROVE  Bounds'
<1>1. LensKept
  BY WrittenKeeps
<1> QED
  BY <1>1, SetSizeGives, ResultFits

\* So does one after which copies are freed.
LEMMA FreesFit ==
  ASSUME IInv, Bounds, pc = "compute", NEW p, NEW n, NEW x, NEW S, S \subseteq {CopyU, CopyV, loc.free},
         heap' = Without(Written(heap, p, n, x), S),
         NEW negative, NEW size \in Int, SetSize(c.w, negative, size), Abs(size) <= var[c.w].alloc, Finish
  PROVE  Bounds'
<1>1. LensKept
  BY FreedKeeps
<1> QED
  BY <1>1, SetSizeGives, ResultFits

LEMMA AorsAddBounds ==
  ASSUME IInv, Bounds, AorsAdd
  PROVE  Bounds'
<1>1. pc = "compute" /\ c.fn \in {"add", "sub"} /\ Finish
  BY DEF AorsAdd, At
<1>2. PICK n \in Nat, a \in Nat : n = Abs(loc.us) + 1 /\ a = var[c.w].alloc
  BY <1>1, ComputeSays
<1>3. a \in Nat /\ a >= 1 /\ n <= a
  BY <1>1, <1>2, ComputeSays, NeededHolds DEF NeededIs
<1>4. \E p, x, negative : heap' = Written(heap, p, n, x) /\ SetSize(c.w, negative, LessTop(n, x))
  BY <1>2 DEF AorsAdd
<1>5. PICK p, x, negative, size : /\ heap' = Written(heap, p, n, x) /\ SetSize(c.w, negative, size)
                                  /\ size = LessTop(n, x)
  BY <1>4
<1>6. size \in Int /\ Abs(size) <= a
  BY <1>3, <1>5, Small2
<1> QED
  BY <1>1, <1>2, <1>5, <1>6, WritesFit

LEMMA AorsSubBounds ==
  ASSUME IInv, Bounds, AorsSub
  PROVE  Bounds'
<1>1. pc = "compute" /\ c.fn \in {"add", "sub"} /\ Finish
  BY DEF AorsSub, At
<1>2. PICK n \in Nat, a \in Nat : n = Abs(loc.us) /\ a = var[c.w].alloc
  BY <1>1, ComputeSays
<1>3. a \in Nat /\ a >= 1 /\ n <= a
  BY <1>1, <1>2, ComputeSays, NeededHolds DEF NeededIs
<1>4. \E p, x, negative : heap' = Written(heap, p, n, x) /\ SetSize(c.w, negative, Normalized(n, x))
  BY <1>2 DEF AorsSub
<1>5. PICK p, x, negative, size : /\ heap' = Written(heap, p, n, x) /\ SetSize(c.w, negative, size)
                                  /\ size = Normalized(n, x)
  BY <1>4
<1>6. size \in Int /\ Abs(size) <= a
  BY <1>3, <1>5, Small2
<1> QED
  BY <1>1, <1>2, <1>5, <1>6, WritesFit

LEMMA UiComputeBounds ==
  ASSUME IInv, Bounds, UiCompute
  PROVE  Bounds'
<1>1. pc = "compute" /\ c.fn \in {"add_ui", "sub_ui"} /\ Finish
  BY DEF UiCompute, At
<1>2. PICK m \in Nat, a \in Nat : m = Abs(loc.us) /\ a = var[c.w].alloc
  BY <1>1, ComputeSays
<1>3. a \in Nat /\ a >= 1 /\ m + 1 <= a
  BY <1>1, <1>2, ComputeSays, NeededHolds DEF NeededIs
<1>4. /\ \E p, n, x : heap' = Written(heap, p, n, x)
      /\ \E negative, n, x : SetSize(c.w, negative, n) /\ n \in {0, 1, LessTop(m, x), LessTop(m + 1, x)}
  BY <1>2 DEF UiCompute
<1>5. PICK p, i, y : heap' = Written(heap, p, i, y)
  BY <1>4
<1>6. PICK negative, size, x : SetSize(c.w, negative, size) /\ size \in {0, 1, LessTop(m, x), LessTop(m + 1, x)}
  BY <1>4
<1>7. size \in Int /\ Abs(size) <= a
  <2>1. /\ LessTop(m, x) \in Int /\ Abs(LessTop(m, x)) <= a
        /\ LessTop(m + 1, x) \in Int /\ Abs(LessTop(m + 1, x)) <= a
    BY <1>3, Small2
  <2>2. Abs(0) <= a /\ Abs(1) <= a
    BY <1>3 DEF Abs
  <2> QED
    BY <1>6, <2>1, <2>2
<1> QED
  BY <1>1, <1>2, <1>5, <1>6, <1>7, WritesFit

LEMMA MulComputeBounds ==
  ASSUME IInv, Bounds, MulCompute
  PROVE  Bounds'
<1>1. pc = "compute" /\ c.fn = "mul" /\ Finish
  BY DEF MulCompute, At
<1>2. PICK n \in Nat, a \in Nat : n = Abs(loc.us) + Abs(loc.vs) /\ a = var[c.w].alloc
  BY <1>1, ComputeSays
<1>3. a \in Nat /\ a >= 1 /\ n <= a
  BY <1>1, <1>2, ComputeSays, NeededHolds DEF NeededIs
<1>4. \E p, x, negative : /\ heap' = Without(Written(heap, p, n, x), {loc.free, CopyU, CopyV})
                          /\ SetSize(c.w, negative, LessTop(n, x))
  BY <1>2 DEF MulCompute
<1>5. PICK p, x, negative, size, S : /\ heap' = Without(Written(heap, p, n, x), S)
                                     /\ S = {loc.free, CopyU, CopyV}
                                     /\ SetSize(c.w, negative, size) /\ size = LessTop(n, x)
  BY <1>4
<1>6. size \in Int /\ Abs(size) <= a
  BY <1>3, <1>5, Small2
<1> QED
  BY <1>1, <1>2, <1>5, <1>6, FreesFit

LEMMA SetCopyBounds ==
  ASSUME IInv, Bounds, SetCopy
  PROVE  Bounds'
<1>1. pc = "compute" /\ c.fn \in {"set", "neg"} /\ Finish
  BY DEF SetCopy, At
<1>2. PICK us \in Int, a \in Nat : us = loc.us /\ a = var[c.w].alloc
  BY <1>1, ComputeSays
<1>3. a \in Nat /\ Abs(us) <= a
  BY <1>1, <1>2, ComputeSays, NeededHolds DEF NeededIs
<1>4. PICK p, n, x : heap' = Written(heap, p, n, x)
  BY DEF SetCopy
<1>5. PICK w : w = c.w
  OBVIOUS
<1>6. Sized(w, us)
  BY <1>2, <1>5, Zenon DEF SetCopy, Sized
<1>7. LensKept
  BY <1>4, WrittenKeeps
<1> QED
  BY <1>1, <1>2, <1>3, <1>5, <1>6, <1>7, ResultFits

LEMMA TdivQComputeBounds ==
  ASSUME IInv, Bounds, TdivQCompute
  PROVE  Bounds'
<1>1. pc = "compute" /\ c.fn = "tdiv_q" /\ Finish
  BY DEF TdivQCompute, At
<1>2. QuotSize >= 1 /\ QuotSize \in Int
  BY <1>1, ComputeSays DEF Bounds, Computing, QuotSize
<1>3. PICK n \in Nat, a \in Nat : n = QuotSize /\ a = var[c.w].alloc
  BY <1>1, <1>2, ComputeSays
<1>4. a \in Nat /\ a >= 1 /\ n <= a
  BY <1>1, <1>3, ComputeSays, NeededHolds DEF NeededIs
<1>5. \E p, x, negative : /\ heap' = Without(Written(heap, p, n, x), {CopyU, CopyV})
                          /\ SetSize(c.w, negative, LessTop(n, x))
  BY <1>3 DEF TdivQCompute
<1>6. PICK p, x, negative, size, S : /\ heap' = Without(Written(heap, p, n, x), S) /\ S = {CopyU, CopyV}
                                     /\ SetSize(c.w, negative, size) /\ size = LessTop(n, x)
  BY <1>5
<1>7. size \in Int /\ Abs(size) <= a
  BY <1>4, <1>6, Small2
<1> QED
  BY <1>1, <1>3, <1>6, <1>7, FreesFit

LEMMA TdivRComputeBounds ==
  ASSUME IInv, Bounds, TdivRCompute
  PROVE  Bounds'
<1>1. pc = "compute" /\ c.fn = "tdiv_r" /\ Finish
  BY DEF TdivRCompute, At
<1>2. PICK n \in Nat, a \in Nat : n = Abs(loc.vs) /\ a = var[c.w].alloc
  BY <1>1, ComputeSays
<1>3. a \in Nat /\ a >= 1 /\ n <= a
  BY <1>1, <1>2, ComputeSays, NeededHolds DEF NeededIs
<1>4. \E p, x, negative : /\ heap' = Without(Written(heap, p, n, x), {CopyU, CopyV})
                          /\ SetSize(c.w, negative, Normalized(n, x))
  BY <1>2 DEF TdivRCompute
<1>5. PICK p, x, negative, size, S : /\ heap' = Without(Written(heap, p, n, x), S) /\ S = {CopyU, CopyV}
                                     /\ SetSize(c.w, negative, size) /\ size = Normalized(n, x)
  BY <1>4
<1>6. size \in Int /\ Abs(size) <= a
  BY <1>3, <1>5, Small2
<1> QED
  BY <1>1, <1>2, <1>5, <1>6, FreesFit

\* So does one of MpzShift.
LEMMA ResultsFit ==
  ASSUME IInv, Bounds, pc = "compute", NEW n, NEW x, NEW negative, NEW size \in Int,
         Results(n, x, negative, size), Abs(size) <= var[c.w].alloc
  PROVE  Bounds'
<1>1. PICK p : heap' = Written(heap, p, n, x) /\ SetSize(c.w, negative, size) /\ Finish
  BY DEF Results
<1> QED
  BY <1>1, WritesFit

LEMMA Mul2expBounds ==
  ASSUME IInv, Bounds, Mul2exp
  PROVE  Bounds'
<1>1. pc = "compute" /\ c.fn = "mul_2exp" /\ LimbCnt \in Nat
  BY LimbCntType DEF Mul2exp, At, AorsUiFns
<1>2. PICK n \in Nat, a \in Nat : n = Abs(loc.us) + LimbCnt + 1 /\ a = var[c.w].alloc
  BY <1>1, ComputeSays
<1>3. a \in Nat /\ a >= 1 /\ n <= a
  BY <1>1, <1>2, ComputeSays, NeededHolds DEF NeededIs
<1>4. \E x : Results(LessTop(n, x), x, loc.us < 0, LessTop(n, x))
  BY <1>2 DEF Mul2exp
<1>5. PICK size, x, negative : Results(size, x, negative, size) /\ size = LessTop(n, x)
  BY <1>4
<1>6. size \in Int /\ Abs(size) <= a
  BY <1>3, <1>5, Small2
<1> QED
  BY <1>1, <1>2, <1>5, <1>6, ResultsFit

LEMMA TdivQ2expBounds ==
  ASSUME IInv, Bounds, TdivQ2exp
  PROVE  Bounds'
<1>1. pc = "compute" /\ c.fn = "tdiv_q_2exp" /\ LimbCnt \in Nat
  BY LimbCntType DEF TdivQ2exp, At, AorsUiFns
<1>2. Abs(loc.us) > LimbCnt
  BY <1>1 DEF Bounds, Computing
<1>3. PICK n \in Nat, a \in Nat : n = Abs(loc.us) - LimbCnt /\ a = var[c.w].alloc
  BY <1>1, <1>2, ComputeSays
<1>4. a \in Nat /\ a >= 1 /\ n <= a
  BY <1>1, <1>3, ComputeSays, NeededHolds DEF NeededIs
<1>5. \E x : Results(n, x, loc.us < 0, LessTop(n, x))
  BY <1>3 DEF TdivQ2exp
<1>6. PICK size, x, negative : Results(n, x, negative, size) /\ size = LessTop(n, x)
  BY <1>5
<1>7. size \in Int /\ Abs(size) <= a
  BY <1>4, <1>6, Small2
<1> QED
  BY <1>1, <1>3, <1>6, <1>7, ResultsFit

LEMMA TdivR2expBounds ==
  ASSUME IInv, Bounds, TdivR2exp
  PROVE  Bounds'
<1>1. pc = "compute" /\ c.fn = "tdiv_r_2exp"
  BY DEF TdivR2exp, At
<1>2. PICK n \in Int, a \in Nat : n = loc.vs /\ a = var[c.w].alloc
  BY <1>1, ComputeSays
<1>3. Abs(n) <= a
  BY <1>1, <1>2, ComputeSays, NeededHolds DEF NeededIs
<1>4. \E x : Results(n, x, loc.us < 0, n)
  BY <1>2 DEF TdivR2exp
<1>5. PICK x, negative : Results(n, x, negative, n)
  BY <1>4
<1> QED
  BY <1>1, <1>2, <1>3, <1>5, ResultsFit

LEMMA CfdivQ2expBounds ==
  ASSUME IInv, Bounds, CfdivQ2exp
  PROVE  Bounds'
<1>1. pc = "compute" /\ c.fn \in {"cdiv_q_2exp", "fdiv_q_2exp"} /\ LimbCnt \in Nat
  BY LimbCntType DEF CfdivQ2exp, At, AorsUiFns
<1>2. Abs(loc.us) > LimbCnt
  BY <1>1 DEF Bounds, Computing
<1>3. PICK n \in Nat, a \in Nat : n = Abs(loc.us) - LimbCnt /\ a = var[c.w].alloc
  BY <1>1, <1>2, ComputeSays
<1>4. a \in Nat /\ a >= 1 /\ n + 1 <= a /\ n >= 1
  BY <1>1, <1>2, <1>3, ComputeSays, NeededHolds DEF NeededIs
<1>5. \E i, x, y, m : /\ m \in {n, LessTop(n, y)}
                      /\ \/ Results(m + 1, x, loc.us < 0, LessTop(m + 1, x))
                         \/ Results(i, x, loc.us < 0, m)
  BY <1>3, Zenon DEF CfdivQ2exp
<1>6. PICK i, x, y, m, negative :
        /\ m \in {n, LessTop(n, y)}
        /\ \/ Results(m + 1, x, negative, LessTop(m + 1, x))
           \/ Results(i, x, negative, m)
  BY <1>5
<1>7. m \in Nat /\ m <= n
  BY <1>4, <1>6, LessTopType
<1>8. LessTop(m + 1, x) \in Int /\ Abs(LessTop(m + 1, x)) <= a /\ Abs(m) <= a
  BY <1>4, <1>7, Small2
<1> QED
  BY <1>1, <1>3, <1>6, <1>7, <1>8, ResultsFit

LEMMA CfdivR2expBounds ==
  ASSUME IInv, Bounds, CfdivR2exp
  PROVE  Bounds'
<1>1. pc = "compute" /\ c.fn \in CfdivR /\ LimbCnt \in Nat
  BY LimbCntType DEF CfdivR2exp, At, AorsUiFns, CfdivR
<1>2. PICK n \in Nat, a \in Nat :
        /\ n = IF (loc.us >= 0) # (c.fn \in UpFns) /\ Abs(loc.us) <= LimbCnt THEN Abs(loc.us) ELSE LimbCnt + 1
        /\ a = var[c.w].alloc
  BY <1>1, ComputeSays
<1>3. a \in Nat /\ a >= 1 /\ n <= a
  BY <1>1, <1>2, ComputeSays, NeededHolds DEF NeededIs
<1>4. \E x, negative : Results(n, x, negative, Normalized(n, x))
  BY <1>2 DEF CfdivR2exp
<1>5. PICK x, negative, size : Results(n, x, negative, size) /\ size = Normalized(n, x)
  BY <1>4
<1>6. size \in Int /\ Abs(size) <= a
  BY <1>3, <1>5, Small2
<1> QED
  BY <1>1, <1>2, <1>5, <1>6, ResultsFit

LEMMA ComBounds ==
  ASSUME IInv, Bounds, Com
  PROVE  Bounds'
<1>1. pc = "compute" /\ c.fn = "com" /\ Finish
  BY DEF Com, At
<1>2. PICK n \in Nat, us \in Int, a \in Nat : n = Abs(loc.us) /\ us = loc.us /\ a = var[c.w].alloc
  BY <1>1, ComputeSays
<1>3. a \in Nat /\ a >= 1 /\ n <= a /\ (us >= 0 => n + 1 <= a)
  BY <1>1, <1>2, ComputeSays, NeededHolds DEF NeededIs
<1>4. \E p, m, x, negative, size :
        /\ heap' = Written(heap, p, m, x) /\ SetSize(c.w, negative, size)
        /\ \/ us >= 0 /\ size = LessTop(n + 1, x)
           \/ size = LessTop(n, x)
  BY <1>2 DEF Com
<1>5. PICK p, m, x, negative, size :
        /\ heap' = Written(heap, p, m, x) /\ SetSize(c.w, negative, size)
        /\ \/ us >= 0 /\ size = LessTop(n + 1, x)
           \/ size = LessTop(n, x)
  BY <1>4
<1>6. size \in Int /\ Abs(size) <= a
  BY <1>3, <1>5, Small2
<1> QED
  BY <1>1, <1>2, <1>5, <1>6, WritesFit

LEMMA AorsmulBounds ==
  ASSUME IInv, Bounds, Aorsmul
  PROVE  Bounds'
<1>1. pc = "compute" /\ c.fn \in AorsFns /\ Finish
  BY DEF Aorsmul, At
<1>2. PICK n \in Nat, m \in Nat, a \in Nat : n = Abs(Size(c.w)) /\ m = Abs(loc.us) + Abs(loc.vs) /\ a = var[c.w].alloc
  BY <1>1, ComputeSays
<1>3. a \in Nat /\ a >= 1 /\ MaxOf(n, m) + 1 <= a
  BY <1>1, <1>2, ComputeSays, NeededHolds DEF NeededIs
<1>4. \E p, i, x, y, most, negative, size :
        /\ heap' = Written(heap, p, i, x) /\ SetSize(c.w, negative, size)
        /\ most = MaxOf(n, LessTop(m, y))
        /\ size \in {LessTop(m, x), LessTop(most + 1, x), Normalized(most, x)}
  BY <1>2 DEF Aorsmul
<1>5. PICK p, i, x, y, most, negative, size :
        /\ heap' = Written(heap, p, i, x) /\ SetSize(c.w, negative, size)
        /\ most = MaxOf(n, LessTop(m, y))
        /\ size \in {LessTop(m, x), LessTop(most + 1, x), Normalized(most, x)}
  BY <1>4
<1>6. most \in Nat /\ most + 1 <= a /\ m <= a
  <2>1. PICK k \in Int : k = LessTop(m, y) /\ k <= m
    BY LessTopType
  <2> QED
    BY <1>3, <1>5, <2>1 DEF MaxOf
<1>7. size \in Int /\ Abs(size) <= a
  <2>1. LessTop(m, x) \in Int /\ Abs(LessTop(m, x)) <= a
    BY <1>3, <1>6, Small2
  <2>2. LessTop(most + 1, x) \in Int /\ Abs(LessTop(most + 1, x)) <= a
    BY <1>3, <1>6, Small2
  <2>3. Normalized(most, x) \in Int /\ Abs(Normalized(most, x)) <= a
    BY <1>3, <1>6, Small2
  <2> QED
    BY <1>5, <2>1, <2>2, <2>3
<1> QED
  BY <1>1, <1>2, <1>5, <1>7, WritesFit

LEMMA Aorsmul1Bounds ==
  ASSUME IInv, Bounds, Aorsmul1
  PROVE  Bounds'
<1>1. pc = "compute" /\ c.fn \in AorsUiFns /\ Finish
  BY DEF Aorsmul1, At
<1>2. PICK n \in Nat, m \in Nat, a \in Nat : n = Abs(Size(c.w)) /\ m = Abs(loc.us) /\ a = var[c.w].alloc
  BY <1>1, ComputeSays
<1>3. PICK most \in Nat : most = MaxOf(m, n)
  <2>1. MaxOf(m, n) \in Nat
    BY DEF MaxOf
  <2> QED
    BY <2>1
<1>4. a \in Nat /\ a >= 1 /\ most + 1 <= a /\ m + 1 <= a
  <2>1. MaxOf(n, m) + 1 <= a /\ a \in Nat /\ a >= 1
    BY <1>1, <1>2, ComputeSays, NeededHolds DEF NeededIs
  <2> QED
    BY <1>3, <2>1 DEF MaxOf
<1>5. \E p, i, x : heap' = Written(heap, p, i, x)
  BY Zenon DEF Aorsmul1
<1>6. \E negative, x, size :
        /\ SetSize(c.w, negative, size)
        /\ size \in {LessTop(m + 1, x), LessTop(most + 1, x), Normalized(most + 1, x), Normalized(most, x)}
  <2>1. CASE n = 0
    BY <1>2, <1>3, <2>1 DEF Aorsmul1
  <2>2. CASE n # 0 /\ n < m
    BY <1>2, <1>3, <2>2, Zenon DEF Aorsmul1
  <2>3. CASE n # 0 /\ ~ (n < m)
    BY <1>2, <1>3, <2>3, Zenon DEF Aorsmul1
  <2> QED
    BY <2>1, <2>2, <2>3
<1>7. PICK p, i, y : heap' = Written(heap, p, i, y)
  BY <1>5
<1>8. PICK negative, x, size :
        /\ SetSize(c.w, negative, size)
        /\ size \in {LessTop(m + 1, x), LessTop(most + 1, x), Normalized(most + 1, x), Normalized(most, x)}
  BY <1>6
<1>9. size \in Int /\ Abs(size) <= a
  <2>1. LessTop(m + 1, x) \in Int /\ Abs(LessTop(m + 1, x)) <= a
    BY <1>4, Small2
  <2>2. /\ LessTop(most + 1, x) \in Int /\ Abs(LessTop(most + 1, x)) <= a
        /\ Normalized(most + 1, x) \in Int /\ Abs(Normalized(most + 1, x)) <= a
    BY <1>4, Small2
  <2>3. Normalized(most, x) \in Int /\ Abs(Normalized(most, x)) <= a
    BY <1>4, Small2
  <2> QED
    BY <1>8, <2>1, <2>2, <2>3
<1> QED
  BY <1>1, <1>2, <1>7, <1>8, <1>9, WritesFit

LEMMA MulUiBounds ==
  ASSUME IInv, Bounds, MulUi
  PROVE  Bounds'
<1>1. pc = "compute" /\ c.fn \in {"mul_ui", "mul_si"} /\ Finish
  BY DEF MulUi, At
<1>2. PICK n \in Nat, a \in Nat : n = Abs(loc.us) + 1 /\ a = var[c.w].alloc
  BY <1>1, ComputeSays
<1>3. a \in Nat /\ a >= 1 /\ n <= a
  BY <1>1, <1>2, ComputeSays, NeededHolds DEF NeededIs
<1>4. \E p, x, negative : heap' = Written(heap, p, n, x) /\ SetSize(c.w, negative, LessTop(n, x))
  BY <1>2 DEF MulUi
<1>5. PICK p, x, negative, size : /\ heap' = Written(heap, p, n, x) /\ SetSize(c.w, negative, size)
                                  /\ size = LessTop(n, x)
  BY <1>4
<1>6. size \in Int /\ Abs(size) <= a
  BY <1>3, <1>5, Small2
<1> QED
  BY <1>1, <1>2, <1>5, <1>6, WritesFit

LEMMA UiSubBounds ==
  ASSUME IInv, Bounds, UiSub
  PROVE  Bounds'
<1>1. pc = "compute" /\ c.fn = "ui_sub" /\ Finish
  BY DEF UiSub, At
<1>2. PICK us \in Int, n \in Nat, a \in Nat : us = loc.us /\ n = Abs(us) /\ a = var[c.w].alloc
  BY <1>1, ComputeSays
<1>3. /\ a \in Nat /\ a >= 1 /\ (us < 0 => n + 1 <= a) /\ (us >= 0 => n <= a)
  <2>1. a \in Nat /\ a >= 1 /\ (IF us < 0 THEN n + 1 ELSE MaxOf(n, 1)) <= a
    BY <1>1, <1>2, ComputeSays, NeededHolds DEF NeededIs
  <2> QED
    BY <2>1 DEF MaxOf
<1>4. \E p, i, x : heap' = Written(heap, p, i, x)
  BY Zenon DEF UiSub
<1>5. \E negative, x, size :
        /\ SetSize(c.w, negative, size)
        /\ \/ us >= 0 /\ size = LessTop(n, x)
           \/ size = Normalized(1, x)
           \/ us < 0 /\ size = LessTop(n + 1, x)
  <2>1. CASE us > 1
    <3>1. \E x : SetSize(c.w, TRUE, LessTop(n, x))
      BY <1>2, <2>1, Zenon DEF UiSub
    <3>2. us >= 0
      BY <2>1
    <3> QED
      BY <3>1, <3>2, Zenon
  <2>2. CASE us >= 0 /\ ~ (us > 1)
    BY <1>2, <2>2, Zenon DEF UiSub
  <2>3. CASE us < 0
    <3>1. ~ (us > 1) /\ ~ (us >= 0)
      BY <2>3
    <3>2. \E x : SetSize(c.w, FALSE, LessTop(n + 1, x))
      BY <1>2, <3>1, Zenon DEF UiSub
    <3> QED
      BY <2>3, <3>2, Zenon
  <2> QED
    BY <2>1, <2>2, <2>3
<1>6. PICK p, i, y : heap' = Written(heap, p, i, y)
  BY <1>4
<1>7. PICK negative, x, size :
        /\ SetSize(c.w, negative, size)
        /\ \/ us >= 0 /\ size = LessTop(n, x)
           \/ size = Normalized(1, x)
           \/ us < 0 /\ size = LessTop(n + 1, x)
  BY <1>5
<1>8. size \in Int /\ Abs(size) <= a
  <2>1. CASE us >= 0 /\ size = LessTop(n, x)
    BY <1>3, <2>1, Small2
  <2>2. CASE size = Normalized(1, x)
    BY <1>3, <2>2, Small2
  <2>3. CASE us < 0 /\ size = LessTop(n + 1, x)
    BY <1>3, <2>3, Small2
  <2> QED
    BY <1>7, <2>1, <2>2, <2>3
<1> QED
  BY <1>1, <1>2, <1>6, <1>7, <1>8, WritesFit

LEMMA AbsCopyBounds ==
  ASSUME IInv, Bounds, AbsCopy
  PROVE  Bounds'
<1>1. pc = "compute" /\ c.fn = "abs" /\ Finish
  BY DEF AbsCopy, At
<1>2. PICK size \in Nat, a \in Nat : size = Abs(loc.us) /\ a = var[c.w].alloc
  BY <1>1, ComputeSays
<1>3. Abs(size) <= a
  <2>1. size <= a /\ a \in Nat /\ a >= 1
    BY <1>1, <1>2, ComputeSays, NeededHolds DEF NeededIs
  <2> QED
    BY <2>1 DEF Abs
<1>4. \E p, n, x : heap' = heap \/ heap' = Written(heap, p, n, x)
  BY DEF AbsCopy
<1>5. SetSize(c.w, FALSE, size)
  BY <1>2, Zenon DEF AbsCopy
<1>6. PICK p, n, x, negative : /\ heap' = heap \/ heap' = Written(heap, p, n, x)
                               /\ SetSize(c.w, negative, size)
  BY <1>4, <1>5, Zenon
<1> QED
  BY <1>1, <1>2, <1>3, <1>6, WritesFit

\* A bit operation has room for its result: where one is added there is a limb
\* for the carry, or, for mpz_ior, none is needed.
LEMMA BitComputeBounds ==
  ASSUME IInv, Bounds, IorFits, BitCompute
  PROVE  Bounds'
<1>1. pc = "compute" /\ c.fn \in BitFn /\ Finish
  BY DEF BitCompute, At
<1>2. PICK n \in Nat, a \in Nat : n = loc.ws /\ a = var[c.w].alloc
  BY <1>1, ComputeSays DEF IInv, Typing, Locals
<1>3. a \in Nat /\ a >= 1 /\ Room(n) <= a
  BY <1>1, <1>2, ComputeSays, NeededHolds DEF NeededIs
<1>4. Most \in Nat /\ n <= Most
  <2>1. n \in 0 .. Most
    BY <1>1, <1>2 DEF Bounds, Computing
  <2>2. Abs(loc.us) \in Nat /\ Abs(loc.vs) \in Nat
    BY <1>1, Running
  <2>3. Most \in Nat
    BY <2>2 DEF Most, Na, Nb, MaxOf
  <2> QED
    BY <2>1, <2>3
<1>5. \E limbs, x, y, z, negative, size :
        /\ heap' = Without(Written(heap, loc.wp, limbs, z), {CopyU, CopyV})
        /\ SetSize(c.w, negative, size)
        /\ \/ <<c.fn, Signs>> \in {<<"and", "++">>, <<"and", "+-">>, <<"ior", "++">>} /\ size = n
           \/ <<c.fn, Signs>> = <<"and", "--">> /\ size = LessTop(n + 1, y)
           \/ /\ <<c.fn, Signs>> \in {<<"ior", "--">>, <<"ior", "+-">>}
              /\ x = IF Signs = "--" THEN And(UValue, VValue) ELSE AndNot(VValue, UValue)
              /\ y = From(x, x, x + 1) /\ size = LessTop(n + 1, y)
           \/ <<c.fn, Signs>> = <<"xor", "+-">> /\ size = Normalized(LessTop(n + 1, y), y)
           \/ <<c.fn, Signs>> \in {<<"xor", "++">>, <<"xor", "--">>} /\ size = Normalized(n, y)
  <2>1. Signs \in {"++", "--", "+-"}
    BY DEF Signs, SignsOf
  <2> QED
    BY <1>1, <1>2, <2>1, Zenon DEF BitCompute, BitFn
<1>6. PICK limbs, x, y, z, negative, size, S :
        /\ heap' = Without(Written(heap, loc.wp, limbs, z), S) /\ S = {CopyU, CopyV}
        /\ SetSize(c.w, negative, size)
        /\ \/ <<c.fn, Signs>> \in {<<"and", "++">>, <<"and", "+-">>, <<"ior", "++">>} /\ size = n
           \/ <<c.fn, Signs>> = <<"and", "--">> /\ size = LessTop(n + 1, y)
           \/ /\ <<c.fn, Signs>> \in {<<"ior", "--">>, <<"ior", "+-">>}
              /\ x = IF Signs = "--" THEN And(UValue, VValue) ELSE AndNot(VValue, UValue)
              /\ y = From(x, x, x + 1) /\ size = LessTop(n + 1, y)
           \/ <<c.fn, Signs>> = <<"xor", "+-">> /\ size = Normalized(LessTop(n + 1, y), y)
           \/ <<c.fn, Signs>> \in {<<"xor", "++">>, <<"xor", "--">>} /\ size = Normalized(n, y)
  BY <1>5
<1>7. PICK m \in Nat : m = LessTop(n + 1, y) /\ m <= n + 1
  <2>1. LessTop(n + 1, y) \in {n + 1 - 1, n + 1}
    BY LessTopType
  <2> QED
    BY <2>1
<1>8. size \in Int /\ Abs(size) <= a
  <2>1. CASE <<c.fn, Signs>> \in {<<"and", "++">>, <<"and", "+-">>, <<"ior", "++">>} /\ size = n
    <3>1. Room(n) = n
      BY <2>1 DEF Room
    <3> QED
      BY <1>3, <2>1, <3>1 DEF Abs
  <2>2. CASE <<c.fn, Signs>> = <<"and", "--">> /\ size = LessTop(n + 1, y)
    <3>1. Room(n) = 1 + Most
      BY <2>2 DEF Room
    <3> QED
      BY <1>3, <1>4, <1>7, <2>2, <3>1 DEF Abs
  <2>3. CASE /\ <<c.fn, Signs>> \in {<<"ior", "--">>, <<"ior", "+-">>}
             /\ x = IF Signs = "--" THEN And(UValue, VValue) ELSE AndNot(VValue, UValue)
             /\ y = From(x, x, x + 1) /\ size = LessTop(n + 1, y)
    <3>1. LessTop(n + 1, y) <= Room(n)
      BY <1>1, <1>2, <2>3 DEF IorFits
    <3>2. Room(n) \in Nat
      BY <1>1, LimbsOfResult
    <3> QED
      BY <1>3, <1>7, <2>3, <3>1, <3>2 DEF Abs
  <2>4. CASE <<c.fn, Signs>> = <<"xor", "+-">> /\ size = Normalized(LessTop(n + 1, y), y)
    <3>1. Room(n) = 1 + Most
      BY <2>4 DEF Room
    <3>2. m <= a
      BY <1>3, <1>4, <1>7, <3>1
    <3> QED
      BY <1>3, <1>7, <2>4, <3>2, Small2
  <2>5. CASE <<c.fn, Signs>> \in {<<"xor", "++">>, <<"xor", "--">>} /\ size = Normalized(n, y)
    <3>1. Room(n) = n
      BY <2>5 DEF Room
    <3>2. n <= a
      BY <1>3, <3>1
    <3> QED
      BY <1>3, <2>5, <3>2, Small2
  <2> QED
    BY <1>6, <2>1, <2>2, <2>3, <2>4, <2>5
<1> QED
  BY <1>1, <1>2, <1>6, <1>8, FreesFit

\* The functions by a limb leave a quotient as long as the dividend, and a remainder
\* of one limb.
LEMMA UiDivBounds ==
  ASSUME IInv, Bounds, NEW fn \in Calculator!DivUiFns, NEW away, NEW sign \in {-1, 1}, UiDiv(fn, away, sign)
  PROVE  Bounds'
<1>1. pc = "compute" /\ c.fn = fn
  BY DEF UiDiv, At
<1>2. PICK n \in Nat : n = Abs(loc.us)
  BY <1>1, ComputeSays
<1>3. PICK a \in Nat : a = var[c.w].alloc /\ a >= 1 /\ (HasQuot(fn) => n <= a)
  BY <1>1, <1>2, ComputeSays, NeededHolds DEF NeededIs
<1>4. c.w \in Var /\ c.r \in Var
  <2>1. fn \notin {"tdiv_qr", "floor_q", "ceiling_q"}
    BY DEF Calculator!DivUiFns, Calculator!QuotUiFns, Calculator!RemUiFns,
           Calculator!QuotRemUiFns, Calculator!OnlyUiFns
  <2>2. TempUse(c) /\ c.w \in Var /\ c.r \in Var \cup {Temp}
    BY <1>1, Running, Arguments
  <2> QED
    BY <1>1, <2>1, <2>2 DEF TempUse
<1>5. var \in [Var \cup {Temp} -> Fields]
  BY DEF IInv, Typing
<1>6. /\ var' = [x \in DOMAIN var |-> var'[x]]
      /\ \A x \in DOMAIN var : \E m :
           /\ var'[x] = [var[x] EXCEPT !.size = m]
           /\ \/ m = var[x].size
              \/ m \in {0, -1, 1} /\ x \in {c.r, c.w}
              \/ HasQuot(fn) /\ x = c.w /\ \E f, q : m = Signed(f, LessTop(n, q))
  <2>1. PICK u : u = Read(loc.up, n)
    OBVIOUS
  <2>2. PICK down : down = From(u, u, u % c.k)
    OBVIOUS
  <2>3. PICK inexact : inexact = (down \notin {0, Junk} /\ away)
    OBVIOUS
  <2>4. PICK rem, quot, r : /\ rem = (IF inexact THEN c.k - down ELSE down)
                            /\ quot = From(u, u, u \div c.k + (IF inexact THEN 1 ELSE 0))
                            /\ r = IF HasQuot(fn) THEN c.r ELSE c.w
    OBVIOUS
  <2>5. var' = [x \in DOMAIN var |-> [var[x] EXCEPT !.size =
          IF HasQuot(fn) /\ x = c.w THEN Signed(loc.us < 0, LessTop(n, quot))
          ELSE IF HasRem(fn) /\ x = r THEN (IF rem = 0 THEN 0 ELSE sign) ELSE @]]
    BY <1>2, <2>1, <2>2, <2>3, <2>4, Zenon DEF UiDiv
  <2>6. PICK zero : zero = IF rem = 0 THEN 0 ELSE sign
    OBVIOUS
  <2>7. zero \in {0, -1, 1} /\ r \in {c.r, c.w}
    BY <2>4, <2>6
  <2>8. PICK full : full = Signed(loc.us < 0, LessTop(n, quot))
    OBVIOUS
  <2>9. var' = [x \in DOMAIN var |-> [var[x] EXCEPT !.size =
          IF HasQuot(fn) /\ x = c.w THEN full ELSE IF HasRem(fn) /\ x = r THEN zero ELSE @]]
    BY <2>5, <2>6, <2>8
  <2>10. var' = [x \in DOMAIN var |-> var'[x]]
    BY <2>9
  <2>11. ASSUME NEW x \in DOMAIN var
         PROVE  \E m : /\ var'[x] = [var[x] EXCEPT !.size = m]
                       /\ \/ m = var[x].size
                          \/ m \in {0, -1, 1} /\ x \in {c.r, c.w}
                          \/ HasQuot(fn) /\ x = c.w /\ \E f, q : m = Signed(f, LessTop(n, q))
    <3>1. PICK m : m = IF HasQuot(fn) /\ x = c.w THEN full ELSE IF HasRem(fn) /\ x = r THEN zero ELSE var[x].size
      OBVIOUS
    <3>2. var'[x] = [var[x] EXCEPT !.size = m]
      BY <2>9, <3>1
    <3>3. \/ m = var[x].size
          \/ m \in {0, -1, 1} /\ x \in {c.r, c.w}
          \/ HasQuot(fn) /\ x = c.w /\ \E f, q : m = Signed(f, LessTop(n, q))
      BY <2>7, <2>8, <3>1
    <3> QED
      BY <3>2, <3>3, Zenon
  <2> QED
    BY <2>10, <2>11, Zenon
<1>7. ASSUME NEW x \in Var \cup {Temp}
      PROVE  /\ var'[x] \in Fields /\ var'[x].d = var[x].d /\ var'[x].alloc = var[x].alloc
             /\ Abs(var'[x].size) <= var[x].alloc \/ var'[x].size = var[x].size
  <2>1. PICK m : /\ var'[x] = [var[x] EXCEPT !.size = m]
                 /\ \/ m = var[x].size
                    \/ m \in {0, -1, 1} /\ x \in {c.r, c.w}
                    \/ HasQuot(fn) /\ x = c.w /\ \E f, q : m = Signed(f, LessTop(n, q))
    BY <1>5, <1>6, Zenon
  <2>2. var[x] \in Fields /\ var[x].size \in Int
    BY <1>5 DEF Fields
  <2>3. m \in Int /\ (Abs(m) <= var[x].alloc \/ m = var[x].size)
    <3>1. CASE m = var[x].size
      BY <2>2, <3>1
    <3>2. CASE m \in {0, -1, 1} /\ x \in {c.r, c.w}
      <4>1. var[x].alloc \in Nat /\ var[x].alloc >= 1
        BY <1>4, <3>2, SizesSay DEF Bounds
      <4> QED
        BY <3>2, <4>1 DEF Abs
    <3>3. CASE HasQuot(fn) /\ x = c.w /\ \E f, q : m = Signed(f, LessTop(n, q))
      <4>1. PICK f, q : m = Signed(f, LessTop(n, q))
        BY <3>3
      <4>2. LessTop(n, q) \in Int /\ Abs(LessTop(n, q)) <= a
        BY <1>3, <3>3, Small2
      <4> QED
        BY <1>3, <3>3, <4>1, <4>2, SignedType
    <3> QED
      BY <2>1, <3>1, <3>2, <3>3
  <2>4. var'[x].size = m
    BY <2>1, <2>2 DEF Fields
  <2> QED
    BY <2>1, <2>2, <2>3, <2>4 DEF Fields
<1>8. Resized
  BY <1>5, <1>6, <1>7 DEF Resized
<1>9. LensKept
  <2>1. \E h, p, k, x : /\ h = heap \/ \E q, i, y : h = Written(heap, q, i, y)
                        /\ heap' = h \/ heap' = Written(h, p, k, x)
    BY DEF UiDiv
  <2>2. PICK h, p, k, x : /\ h = heap \/ \E q, i, y : h = Written(heap, q, i, y)
                          /\ heap' = h \/ heap' = Written(h, p, k, x)
    BY <2>1
  <2>3. DOMAIN h = DOMAIN heap /\ \A q \in DOMAIN heap : h[q].len = heap[q].len
    BY <2>2, DomainWritten, LensOfWritten
  <2>4. \A q \in DOMAIN h : heap'[q].len = h[q].len
    BY <2>2, LensOfWritten
  <2> QED
    BY <2>3, <2>4 DEF LensKept
<1>10. Sizes'
  BY <1>7, <1>8, <1>9, SizesKept DEF Bounds
<1>11. PICK value : FinishWith(value)
  BY DEF UiDiv
<1> QED
  BY <1>10, <1>11, Leaves

\* The quotient fits in its destination, the remainder in its.
LEMMA TdivComputeBounds ==
  ASSUME IInv, Bounds, TdivCompute
  PROVE  Bounds'
<1>1. pc = "compute" /\ Finish /\ c.fn = "tdiv_qr"
  BY DEF TdivCompute, At
<1>2. QuotSize >= 1 /\ QuotSize \in Int
  BY <1>1, ComputeSays DEF Bounds, Computing, QuotSize
<1>3. PICK n \in Nat, k \in Nat : n = Abs(loc.vs) /\ k = QuotSize
  BY <1>1, <1>2, ComputeSays
<1>4. PICK x, y : x = c.w /\ y = c.r
  OBVIOUS
<1>5. x \in Usable /\ y \in Usable /\ Sizes
  BY <1>1, <1>4, UsableArguments DEF Bounds
<1>6. var[x].alloc \in Nat /\ k <= var[x].alloc /\ var[x].alloc >= 1
  BY <1>1, <1>3, <1>4, ComputeSays, NeededHolds DEF NeededIs
<1>7. var[y].alloc \in Nat /\ n <= var[y].alloc
  <2>1. loc.rp = var[y].d /\ n <= heap[loc.rp].len
    BY <1>1, <1>3, <1>4 DEF Bounds, PointersLive
  <2> QED
    BY <1>5, <2>1, Known
<1>8. PICK f, g, q, r : var' = [var EXCEPT ![x].size = Signed(f, LessTop(k, q)),
                                           ![y].size = Signed(g, Normalized(n, r))]
  BY <1>3, <1>4, Zenon DEF TdivCompute
<1>9. PICK i, j : i = Signed(f, LessTop(k, q)) /\ j = Signed(g, Normalized(n, r))
  OBVIOUS
<1>10. i \in Int /\ Abs(i) <= var[x].alloc
  <2>1. LessTop(k, q) \in Int /\ Abs(LessTop(k, q)) <= var[x].alloc
    BY <1>6, Small2
  <2> QED
    BY <1>9, <2>1, SignedType
<1>11. j \in Int /\ Abs(j) <= var[y].alloc
  <2>1. Normalized(n, r) \in 0 .. n
    BY NormalizedType
  <2>2. PICK m \in 0 .. n : m = Normalized(n, r)
    BY <2>1
  <2>3. j = Signed(g, m) /\ m \in Int /\ Abs(m) = m
    BY <1>9, <2>2 DEF Abs
  <2>4. j \in Int /\ Abs(j) = m
    BY <2>3, SignedType
  <2> QED
    BY <1>7, <2>4
<1>12. var \in [Var \cup {Temp} -> Fields] /\ x \in Var \cup {Temp} /\ y \in Var \cup {Temp}
  BY <1>1, <1>4, Running, Zenon DEF IInv, Typing
<1>13. var' = [var EXCEPT ![x].size = i, ![y].size = j]
  BY <1>8, <1>9
<1>14. Resized
  BY <1>10, <1>11, <1>12, <1>13, TwoSizesKeep, Zenon
<1>15. ASSUME NEW z \in Var \cup {Temp}
       PROVE  Abs(var'[z].size) <= var[z].alloc \/ var'[z].size = var[z].size
  <2>1. PICK h : h = [var EXCEPT ![x].size = i]
    BY Zenon
  <2>2. /\ h \in [Var \cup {Temp} -> Fields]
        /\ h[x].size = i /\ \A u \in Var \cup {Temp} : u # x => h[u] = var[u]
    BY <1>10, <1>12, <2>1 DEF Fields
  <2>3. var' = [h EXCEPT ![y].size = j]
    BY <1>13, <2>1
  <2>4. var'[y].size = j /\ \A u \in Var \cup {Temp} : u # y => var'[u] = h[u]
    BY <1>12, <2>2, <2>3 DEF Fields
  <2>5. CASE z = y
    BY <1>11, <2>4, <2>5
  <2>6. CASE z # y /\ z = x
    BY <1>10, <2>2, <2>4, <2>6
  <2>7. CASE z # y /\ z # x
    BY <2>2, <2>4, <2>7
  <2> QED
    BY <2>5, <2>6, <2>7
<1>16. LensKept
  <2>1. \E p, u, a, q1, v, b : heap' = Without(Written(Written(heap, p, u, a), q1, v, b), {CopyU, CopyV})
    BY DEF TdivCompute
  <2>2. PICK h, h2, p, u, a, q1, v, b, S :
          /\ heap' = Without(h2, S) /\ S = {CopyU, CopyV}
          /\ h2 = Written(h, q1, v, b) /\ h = Written(heap, p, u, a)
    BY <2>1
  <2>3. DOMAIN h = DOMAIN heap /\ \A p1 \in DOMAIN heap : h[p1].len = heap[p1].len
    BY <2>2, DomainWritten, LensOfWritten
  <2>4. DOMAIN h2 = DOMAIN h /\ \A p1 \in DOMAIN h : h2[p1].len = h[p1].len
    BY <2>2, DomainWritten, LensOfWritten
  <2>5. \A p1 \in DOMAIN h2 \ S : heap'[p1] = h2[p1]
    BY <2>2 DEF Without
  <2> QED
    BY <2>2, <2>3, <2>4, <2>5, Zenon DEF LensKept
<1>17. Sizes'
  BY <1>5, <1>14, <1>15, <1>16, SizesKept
<1>18. FinishWith(0)
  BY <1>1 DEF Finish
<1> QED
  BY <1>17, <1>18, Leaves

-----------------------------------------------------------------------------
(* The functions that end where they are entered.                          *)

\* A function that changes nothing keeps them.
LEMMA EndsAsItWas ==
  ASSUME IInv, Bounds, UNCHANGED <<heap, var>>, NEW value, FinishWith(value)
  PROVE  Bounds'
BY Stays, Leaves DEF Bounds

\* A function that only sets a size keeps them if the size fits.
LEMMA EndsSized ==
  ASSUME IInv, Bounds, pc \in {"enter", "quot"}, Finish,
         NEW p, NEW n, NEW x, heap' = Written(heap, p, n, x) \/ heap' = heap,
         NEW negative, NEW size \in Int, SetSize(c.w, negative, size), Abs(size) <= var[c.w].alloc
  PROVE  Bounds'
<1>1. c.w \in Var /\ LensKept /\ Sizes /\ Sized(c.w, size)
  BY Running, WrittenKeeps, SetSizeGives, Zenon DEF Bounds
<1>2. Sizes'
  BY <1>1, OneSizeFits
<1> QED
  BY <1>2, Leaves DEF Finish

\* No variable is without a limb.
LEMMA EndsSmall ==
  ASSUME IInv, Bounds, pc = "enter", Finish,
         NEW p, NEW n, NEW x, heap' = Written(heap, p, n, x) \/ heap' = heap,
         NEW negative, NEW size \in {0, 1}, SetSize(c.w, negative, size)
  PROVE  Bounds'
<1>1. c.w \in Var /\ Sizes
  BY Running DEF Bounds
<1>2. var[c.w].alloc \in Nat /\ var[c.w].alloc >= 1
  BY <1>1, SizesSay
<1>3. Abs(size) <= var[c.w].alloc /\ size \in Int
  BY <1>2 DEF Abs
<1> QED
  BY <1>3, EndsSized

LEMMA MulZeroBounds ==
  ASSUME IInv, Bounds, MulZero
  PROVE  Bounds'
<1>1. \E negative : SetSize(c.w, negative, 0)
  BY Zenon DEF MulZero
<1> QED
  BY <1>1, EndsSmall DEF MulZero, At

LEMMA TdivQSmallBounds ==
  ASSUME IInv, Bounds, TdivQSmall
  PROVE  Bounds'
<1>1. \E negative : SetSize(c.w, negative, 0)
  BY Zenon DEF TdivQSmall
<1> QED
  BY <1>1, EndsSmall DEF TdivQSmall, At

LEMMA MulUiZeroBounds ==
  ASSUME IInv, Bounds, MulUiZero
  PROVE  Bounds'
<1>1. \E negative : SetSize(c.w, negative, 0)
  BY Zenon DEF MulUiZero
<1> QED
  BY <1>1, EndsSmall DEF MulUiZero, At

LEMMA ResultsZeroBounds ==
  ASSUME IInv, Bounds, Mul2expZero \/ TdivQ2expSmall \/ CfdivR2expZero
  PROVE  Bounds'
<1>1. pc = "enter" /\ ResultsZero
  BY DEF Mul2expZero, TdivQ2expSmall, CfdivR2expZero, At
<1>2. \E negative : SetSize(c.w, negative, 0)
  BY <1>1, Zenon DEF ResultsZero
<1> QED
  BY <1>1, <1>2, EndsSmall DEF ResultsZero

LEMMA SetUiBounds ==
  ASSUME IInv, Bounds, SetUi
  PROVE  Bounds'
<1>1. \E negative : \E size \in {0, 1} : SetSize(c.w, negative, size)
  BY Zenon DEF SetUi
<1> QED
  BY <1>1, EndsSmall DEF SetUi, At

LEMMA SetSiBounds ==
  ASSUME IInv, Bounds, SetSi
  PROVE  Bounds'
<1>1. \E negative : \E size \in {0, 1} : SetSize(c.w, negative, size)
  BY DEF SetSi
<1> QED
  BY <1>1, EndsSmall DEF SetSi, At

LEMMA CfdivQ2expSmallBounds ==
  ASSUME IInv, Bounds, CfdivQ2expSmall
  PROVE  Bounds'
<1>1. \E negative : \E size \in {0, 1} : SetSize(c.w, negative, size)
  BY DEF CfdivQ2expSmall
<1> QED
  BY <1>1, EndsSmall DEF CfdivQ2expSmall, At

LEMMA NothingDoneBounds ==
  ASSUME IInv, Bounds, DivDone \/ CfdivR2expKeep \/ AorsmulZero \/ Aorsmul1Zero
  PROVE  Bounds'
BY EndsAsItWas DEF DivDone, CfdivR2expKeep, AorsmulZero, Aorsmul1Zero, SameValue, Finish

LEMMA RaisedBounds ==
  ASSUME IInv, Bounds, TdivByZero \/ DivideByZero
  PROVE  Bounds'
<1>1. UNCHANGED <<heap, var>> /\ pc' = "raised"
  BY DEF TdivByZero, DivideByZero, Goto
<1> QED
  BY <1>1, Stays, AtRest DEF Bounds

LEMMA NegInPlaceBounds ==
  ASSUME IInv, Bounds, NegInPlace
  PROVE  Bounds'
<1>1. pc = "enter" /\ UNCHANGED heap /\ Finish
  BY DEF NegInPlace, At
<1>2. PICK x \in Var : x = c.w
  BY <1>1, Running
<1>3. /\ var[x].alloc \in Nat /\ Abs(Size(x)) <= var[x].alloc /\ Size(x) \in Int /\ var[x].size = Size(x)
  BY SizesSay DEF Bounds
<1>4. PICK size \in Int : size = Size(x)
  BY <1>3
<1>5. Sized(x, size)
  <2>1. var' = [var EXCEPT ![x].size = -size]
    BY <1>2, <1>3, <1>4 DEF NegInPlace
  <2> QED
    BY <2>1 DEF Sized
<1>6. LensKept
  BY <1>1 DEF LensKept
<1>7. Sizes'
  BY <1>3, <1>4, <1>5, <1>6, OneSizeFits DEF Bounds
<1> QED
  BY <1>1, <1>7, Leaves DEF Finish

LEMMA UiOfZeroBounds ==
  ASSUME IInv, Bounds, UiOfZero
  PROVE  Bounds'
<1>1. pc = "enter" /\ UNCHANGED heap /\ Finish /\ c.k # 0 /\ c.fn \in Calculator!DivUiFns
  BY DEF UiOfZero, At
<1>2. CASE var' = var
  BY <1>1, <1>2, EndsAsItWas DEF Finish
<1>3. CASE var' # var
  <2>1. PICK x \in Var \cup {Temp}, y \in Var \cup {Temp} : x = c.w /\ y = c.r
    BY <1>1, Running
  <2>2. var' = [var EXCEPT ![x].size = 0, ![y].size = 0]
    <3>1. var' = [var EXCEPT ![c.w].size = 0, ![c.r].size = 0]
      BY <1>3 DEF UiOfZero
    <3> QED
      BY <2>1, <3>1
  <2>3. Resized
    <3>1. x \in Var \cup {Temp} /\ y \in Var \cup {Temp} /\ 0 \in Int
      OBVIOUS
    <3> QED
      BY <2>2, <3>1, TwoSizesKeep, Zenon
  <2>4. var \in [Var \cup {Temp} -> Fields]
    BY DEF IInv, Typing
  <2>5. PICK h : h = [var EXCEPT ![x].size = 0]
    BY Zenon
  <2>6. /\ h \in [Var \cup {Temp} -> Fields]
        /\ \A z \in Var \cup {Temp} : h[z].size \in {0, var[z].size}
    BY <2>4, <2>5 DEF Fields
  <2>7. var' = [h EXCEPT ![y].size = 0]
    BY <2>2, <2>5
  <2>8. \A z \in Var \cup {Temp} : var'[z].size \in {0, var[z].size}
    BY <2>6, <2>7 DEF Fields
  <2>9. ASSUME NEW z \in Var \cup {Temp}
        PROVE  Abs(var'[z].size) <= var[z].alloc \/ var'[z].size = var[z].size
    <3>1. var[z].alloc \in Nat
      BY <2>4 DEF Fields
    <3>2. CASE var'[z].size = 0
      BY <3>1, <3>2 DEF Abs
    <3> QED
      BY <2>8, <3>2
  <2>10. LensKept
    BY <1>1 DEF LensKept
  <2>11. Sizes'
    BY <2>3, <2>9, <2>10, SizesKept DEF Bounds
  <2> QED
    BY <1>1, <2>11, Leaves DEF Finish
<1> QED
  BY <1>2, <1>3

LEMMA SwapBounds ==
  ASSUME IInv, Bounds, Swap
  PROVE  Bounds'
<1>1. pc = "enter" /\ UNCHANGED heap /\ Finish
  BY DEF Swap, At
<1>2. PICK x \in Var, y \in Var : x = c.w /\ y = c.u
  BY <1>1, Running
<1>3. var' = [var EXCEPT ![x] = var[y], ![y] = var[x]]
  BY <1>2 DEF Swap
<1>4. var \in [Var \cup {Temp} -> Fields] /\ Temp \notin Var
  BY NamesDiffer DEF IInv, Typing
<1>5. (\A z \in Var : \E w \in Var : var'[z] = var[w]) /\ var'[Temp] = var[Temp]
  BY <1>3, <1>4
<1>6. \A w \in Var : InBlock(w) /\ var[w].alloc >= 1
  BY DEF Bounds, Sizes
<1>7. ASSUME NEW z \in Var PROVE InBlock(z)' /\ var'[z].alloc >= 1
  BY <1>1, <1>5, <1>6 DEF InBlock
<1>8. Sizes'
  BY <1>1, <1>5, <1>7 DEF Bounds, Sizes, InBlock
<1> QED
  BY <1>1, <1>8, Leaves DEF Finish

LEMMA ReallocBounds ==
  ASSUME IInv, Bounds, Realloc
  PROVE  Bounds'
<1>1. pc = "enter" /\ Finish /\ c.fn \notin AorsUiFns /\ Reallocate(c.w, MaxOf(c.k, 1))
  BY DEF Realloc, At, AorsUiFns
<1>2. c.k \in Nat /\ c.w \in Var
  BY <1>1, Running, Arguments
<1>3. PICK len \in Nat : len = MaxOf(c.k, 1) /\ len >= 1
  BY <1>2 DEF MaxOf
<1>4. Sizes'
  BY <1>1, <1>2, <1>3, Reallocated DEF Bounds
<1> QED
  BY <1>1, <1>4, Leaves DEF Finish

LEMMA Realloc2Bounds ==
  ASSUME IInv, Bounds, Realloc2
  PROVE  Bounds'
<1>1. pc = "enter" /\ Finish /\ c.fn \notin AorsUiFns
      /\ Reallocate(c.w, MaxOf((c.k + LimbBits - 1) \div LimbBits, 1))
  BY DEF Realloc2, At, AorsUiFns
<1>2. c.k \in Nat /\ c.w \in Var /\ LimbBits \in Nat \ {0}
  BY <1>1, Running, Arguments, HeapAssumption
<1>3. PICK k \in Nat, d \in Nat \ {0} : k = c.k /\ d = LimbBits
  BY <1>2
<1>4. k + d - 1 \in Nat
  OBVIOUS
<1>5. PICK q \in Nat : q = (k + d - 1) \div d
  BY <1>4
<1>6. PICK len \in Nat : len = MaxOf(q, 1) /\ len >= 1
  BY DEF MaxOf
<1>7. Sizes'
  BY <1>1, <1>2, <1>3, <1>5, <1>6, Reallocated DEF Bounds
<1> QED
  BY <1>1, <1>7, Leaves DEF Finish

\* The variable of a bit operation gets no size that its block has no room for.
LEMMA BitFits ==
  ASSUME IInv, Bounds, pc = "enter", Finish,
         \/ Same
         \/ \E x, n, size, y : Becomes(x, n, size) /\ n \in Nat /\ size \in {n, Normalized(n, y), LessTop(n, y)}
  PROVE  Bounds'
<1>1. FinishWith(0)
  BY DEF Finish
<1>2. CASE Same
  BY <1>1, <1>2, EndsAsItWas DEF Same
<1>3. ASSUME NEW x, NEW n \in Nat, NEW size, NEW y, Becomes(x, n, size), size \in {n, Normalized(n, y), LessTop(n, y)}
      PROVE  Bounds'
  <2>1. PICK w \in Var : w = c.w
    BY Running
  <2>2. /\ var[w].alloc \in Nat /\ var[w].alloc >= 1 /\ heap[var[w].d].len = var[w].alloc
    BY SizesSay DEF Bounds
  <2>3. PICK a \in Nat : a = MaxOf(var[w].alloc, n) /\ a >= 1 /\ n <= a
    BY <2>2 DEF MaxOf
  <2>4. size \in Int /\ Abs(size) <= a
    <3>1. /\ LessTop(n, y) \in Int /\ Abs(LessTop(n, y)) <= a
          /\ Normalized(n, y) \in Int /\ Abs(Normalized(n, y)) <= a /\ Abs(n) <= a
      BY <2>3, Small2
    <3> QED
      BY <1>3, <3>1
  <2>5. PICK m : m = Signed(Size(w) < 0, size)
    OBVIOUS
  <2>6. Abs(m) <= a
    BY <2>4, <2>5, SignedType
  <2>7. PICK p \in (Block \ DOMAIN heap) \cup {var[w].d} :
          /\ heap' = With(Without(heap, {var[w].d}), p, Filled(Fresh(MaxOf(heap[var[w].d].len, n)), n, x))
          /\ var' = [var EXCEPT ![w] = [alloc |-> MaxOf(@.alloc, n), d |-> p, size |-> m]]
    BY <1>3, <2>1, <2>5, Zenon DEF Becomes
  <2>8. PICK b : b = Filled(Fresh(MaxOf(heap[var[w].d].len, n)), n, x)
    OBVIOUS
  <2>9. b.len = a
    BY <2>2, <2>3, <2>8 DEF Filled, Fresh
  <2>10. heap' = With(Without(heap, {var[w].d}), p, b)
    BY <2>7, <2>8
  <2>11. PICK f : f = [alloc |-> a, d |-> p, size |-> m]
    BY Zenon
  <2>12. var' = [var EXCEPT ![w] = f]
    BY <2>3, <2>7, <2>11
  <2>13. f.alloc = a /\ f.d = p /\ f.size = m
    BY <2>11
  <2>14. p \in (Block \ DOMAIN heap) \cup {var[w].d}
    BY <2>7
  <2>15. MovesTo(w, p, b, f)
    BY <2>3, <2>6, <2>9, <2>10, <2>12, <2>13, <2>14 DEF MovesTo
  <2>16. Sizes'
    BY <2>15, MovedSizes DEF Bounds
  <2> QED
    BY <1>1, <2>16, Leaves
<1> QED
  BY <1>2, <1>3

LEMMA SetBitPositiveBounds ==
  ASSUME IInv, Bounds, SetBitPositive
  PROVE  Bounds'
<1>1. pc = "enter" /\ c.fn \in {"setbit"} /\ Finish
  BY DEF SetBitPositive, At
<1>2. PICK n \in Nat : n = Enough
  BY <1>1, LimbsOfVariable DEF AorsUiFns
<1>3. Same \/ \E x : Becomes(x, n, n)
  BY <1>2 DEF SetBitPositive
<1> QED
  BY <1>1, <1>3, BitFits

LEMMA SetBitNegativeBounds ==
  ASSUME IInv, Bounds, SetBitNegative
  PROVE  Bounds'
<1>1. pc = "enter" /\ c.fn \in {"setbit"} /\ Finish
  BY DEF SetBitNegative, At
<1>2. PICK n \in Nat : n = Limbs
  BY <1>1, LimbsOfVariable DEF AorsUiFns
<1>3. Same \/ \E x, size : Becomes(x, n, size) /\ size \in {n, Normalized(n, x), LessTop(n, x)}
  BY <1>2 DEF SetBitNegative
<1> QED
  BY <1>1, <1>3, BitFits

LEMMA ClrBitPositiveBounds ==
  ASSUME IInv, Bounds, ClrBitPositive
  PROVE  Bounds'
<1>1. pc = "enter" /\ c.fn \in {"clrbit"} /\ Finish
  BY DEF ClrBitPositive, At
<1>2. PICK n \in Nat : n = Limbs
  BY <1>1, LimbsOfVariable DEF AorsUiFns
<1>3. Same \/ \E x, size : Becomes(x, n, size) /\ size = Normalized(n, x)
  BY <1>2 DEF ClrBitPositive
<1> QED
  BY <1>1, <1>3, BitFits

LEMMA ClrBitNegativeBounds ==
  ASSUME IInv, Bounds, ClrBitNegative
  PROVE  Bounds'
<1>1. pc = "enter" /\ c.fn \in {"clrbit"} /\ Finish
  BY DEF ClrBitNegative, At
<1>2. PICK k \in Nat, m \in Nat : k = Limbs /\ m = Enough
  BY <1>1, LimbsOfVariable DEF AorsUiFns
<1>3. Same \/ \E x, n, y : Becomes(x, n, n) /\ n \in {m, LessTop(k + 1, y)}
  BY <1>2 DEF ClrBitNegative
<1>4. \A y : LessTop(k + 1, y) \in Nat
  <2> TAKE y
  <2>1. LessTop(k + 1, y) \in {k + 1 - 1, k + 1}
    BY LessTopType
  <2> QED
    BY <2>1
<1>5. Same \/ \E x, n : Becomes(x, n, n) /\ n \in Nat
  BY <1>3, <1>4
<1> QED
  BY <1>1, <1>5, BitFits

LEMMA ComBitBounds ==
  ASSUME IInv, Bounds, ComBit
  PROVE  Bounds'
<1>1. pc = "enter" /\ c.fn \in {"combit"} /\ Finish
  BY DEF ComBit, At
<1>2. PICK m \in Nat : m = Enough
  BY <1>1, LimbsOfVariable DEF AorsUiFns
<1>3. \E x, n : Becomes(x, n, Normalized(n, x)) /\ n \in {m, m + 1}
  BY <1>2 DEF ComBit
<1>4. PICK x, n, size : Becomes(x, n, size) /\ n \in {m, m + 1} /\ size = Normalized(n, x)
  BY <1>3
<1>5. n \in Nat
  BY <1>4
<1> QED
  BY <1>1, <1>4, <1>5, BitFits

-----------------------------------------------------------------------------
(* Two operands, and a destination that has grown.                         *)

\* Two operands and the destination are noted.
LEMMA TwoNoted ==
  ASSUME IInv, Sizes, pc = "enter", NEW n \in Nat, Grown(c.w, n),
         NEW us, NEW vs, NEW up, NEW vp, loc' = Notes(us, vs, up, vp, var'[c.w].d, None), Goto("compute")
  PROVE  /\ c' = c /\ pc' = "compute" /\ Size(c.w)' = Size(c.w)
         /\ loc'.us = us /\ loc'.vs = vs /\ loc'.up = up /\ loc'.vp = vp /\ loc'.wp = var'[c.w].d
<1>1. c' = c /\ pc' = "compute"
  BY DEF Goto, c
<1>2. var'[c.w].size = var[c.w].size
  BY UsableArguments DEF Grown
<1>3. PICK wp : wp = var'[c.w].d
  OBVIOUS
<1>4. loc'.us = us /\ loc'.vs = vs /\ loc'.up = up /\ loc'.vp = vp /\ loc'.wp = wp
  BY <1>3 DEF Notes
<1> QED
  BY <1>1, <1>2, <1>3, <1>4 DEF Size

\* What a variable's block has room for after another has grown.
LEMMA StillLong ==
  ASSUME IInv, Sizes, NEW w, NEW n, Grown(w, n), NEW x \in Usable, NEW s \in Int, Abs(s) <= Abs(Size(x))
  PROVE  var'[x].d \in DOMAIN heap' /\ Abs(s) <= heap'[var'[x].d].len
<1>1. /\ var'[x].d \in DOMAIN heap' /\ heap'[var'[x].d].len = var'[x].alloc
      /\ var'[x].alloc \in Nat /\ var'[x].alloc >= var[x].alloc
  BY DEF Grown
<1>2. var[x].alloc \in Nat /\ Abs(Size(x)) <= var[x].alloc /\ Abs(Size(x)) \in Nat
  BY Known
<1>3. Abs(s) \in Nat
  BY DEF Abs
<1> QED
  BY <1>1, <1>2, <1>3

\* A function of two operands, and room for n limbs, goes to its computation.
LEMMA TwoNotedBounds ==
  ASSUME IInv, Sizes, pc = "enter",
         c.fn \notin BitFn \cup {"tdiv_qr", "tdiv_q", "tdiv_q_2exp", "cdiv_q_2exp", "fdiv_q_2exp"},
         NEW n \in Nat, Grown(c.w, n), NEW x \in Usable, NEW y \in Usable,
         NEW us \in Int, NEW vs \in Int, Abs(us) <= Abs(Size(x)), Abs(vs) <= Abs(Size(y)),
         NEW up, NEW vp, up = var'[x].d, vp = var'[y].d,
         loc' = Notes(us, vs, up, vp, var'[c.w].d, None), Goto("compute"),
         Needed' \in Int, Needed' <= n
  PROVE  Bounds'
<1>1. /\ c' = c /\ pc' = "compute"
      /\ loc'.us = us /\ loc'.vs = vs /\ loc'.up = up /\ loc'.vp = vp /\ loc'.wp = var'[c.w].d
  BY TwoNoted
<1>2. c.w \in Usable
  BY UsableArguments
<1>3. up \in DOMAIN heap' /\ Abs(us) <= heap'[up].len
  BY StillLong
<1>4. vp \in DOMAIN heap' /\ Abs(vs) <= heap'[vp].len
  BY StillLong
<1>5. Needed' <= heap'[var'[c.w].d].len
  <2>1. /\ heap'[var'[c.w].d].len = var'[c.w].alloc /\ var'[c.w].alloc \in Nat /\ var'[c.w].alloc >= n
    BY <1>2 DEF Grown
  <2> QED
    BY <2>1
<1>6. PointersLive'
  BY <1>1, <1>3, <1>4, <1>5 DEF PointersLive
<1>7. Computing'
  BY <1>1 DEF Computing
<1>8. Sizes'
  BY DEF Grown
<1> QED
  BY <1>1, <1>6, <1>7, <1>8, Computes

LEMMA AorsGrowBounds ==
  ASSUME IInv, Bounds, AorsGrow
  PROVE  Bounds'
<1>1. /\ pc = "enter" /\ c.fn \in {"add", "sub"} /\ Grow(c.w, MaxOf(Abs(Size(c.u)), Abs(Size(c.v))) + 1)
      /\ loc' = AorsLoc(var') /\ Goto("compute") /\ Sizes
  BY DEF AorsGrow, At, Bounds
<1>2. PICK n \in Nat : n = MaxOf(Abs(Size(c.u)), Abs(Size(c.v))) + 1
  BY <1>1, Running DEF MaxOf
<1>3. Grown(c.w, n)
  BY <1>1, <1>2, Running, GrowGrown, Zenon
<1>4. PICK us \in Int, sv \in Int : us = Size(c.u) /\ sv = Size(c.v)
  BY <1>1, Running
<1>5. PICK vs \in Int : vs = (IF c.fn = "sub" THEN -sv ELSE sv) /\ Abs(vs) = Abs(sv)
  BY DEF Abs
<1>6. Abs(us) \in Nat /\ Abs(vs) \in Nat
  BY DEF Abs
<1>7. PICK x \in Usable, y \in Usable, s \in Int, t \in Int :
        IF Abs(us) < Abs(vs) THEN x = c.v /\ y = c.u /\ s = vs /\ t = us
        ELSE x = c.u /\ y = c.v /\ s = us /\ t = vs
  <2>1. c.u \in Usable /\ c.v \in Usable
    BY <1>1, UsableArguments
  <2>2. CASE Abs(us) < Abs(vs)
    BY <2>1, <2>2
  <2>3. CASE ~ (Abs(us) < Abs(vs))
    BY <2>1, <2>3
  <2> QED
    BY <2>2, <2>3
<1>7a. PICK up, vp : up = var'[x].d /\ vp = var'[y].d
  OBVIOUS
<1>8. loc' = Notes(s, t, up, vp, var'[c.w].d, None)
  <2>1. loc' = Notes(IF Abs(us) < Abs(vs) THEN vs ELSE us, IF Abs(us) < Abs(vs) THEN us ELSE vs,
                     var'[IF Abs(us) < Abs(vs) THEN c.v ELSE c.u].d,
                     var'[IF Abs(us) < Abs(vs) THEN c.u ELSE c.v].d, var'[c.w].d, None)
    BY <1>1, <1>4, <1>5 DEF AorsLoc
  <2> QED
    BY <1>7, <1>7a, <2>1
<1>9. Abs(s) <= Abs(Size(x)) /\ Abs(t) <= Abs(Size(y)) /\ Abs(s) \in Nat /\ Abs(s) + 1 <= n
  <2>1. n = MaxOf(Abs(us), Abs(vs)) + 1 /\ Abs(us) = Abs(Size(c.u)) /\ Abs(vs) = Abs(Size(c.v))
    BY <1>2, <1>4, <1>5
  <2>2. CASE Abs(us) < Abs(vs)
    BY <1>6, <1>7, <1>7a, <2>1, <2>2 DEF MaxOf
  <2>3. CASE ~ (Abs(us) < Abs(vs))
    <3>1. x = c.u /\ y = c.v /\ s = us /\ t = vs
      BY <1>7, <1>7a, <2>3
    <3> QED
      BY <1>6, <2>1, <2>3, <3>1 DEF MaxOf
  <2> QED
    BY <2>2, <2>3
<1>10. Needed' = Abs(s) + 1
  <2>1. c' = c /\ loc'.us = s
    BY <1>1, <1>3, <1>8, TwoNoted
  <2> QED
    BY <1>1, <2>1, NeededNext DEF NeededIs
<1>11. Needed' \in Int /\ Needed' <= n
  BY <1>9, <1>10
<1> QED
  BY <1>1, <1>3, <1>7, <1>7a, <1>8, <1>9, <1>11, TwoNotedBounds DEF BitFn

LEMMA MulGrowBounds ==
  ASSUME IInv, Bounds, MulGrow
  PROVE  Bounds'
<1>1. /\ pc = "enter" /\ c.fn = "mul" /\ Grow(c.w, MulSize) /\ Goto("compute") /\ Sizes
      /\ loc' = MulLoc(var', var'[c.u].d, var'[c.v].d, None)
  BY DEF MulGrow, At, Bounds
<1>2. PICK us \in Int, vs \in Int : us = Size(c.u) /\ vs = Size(c.v)
  BY <1>1, Running
<1>3. PICK n \in Nat : n = MulSize /\ n = Abs(us) + Abs(vs)
  BY <1>1, <1>2, Running DEF MulSize
<1>4. Grown(c.w, n)
  BY <1>1, <1>3, Running, GrowGrown, Zenon
<1>5. PICK x \in Usable, y \in Usable : x = c.u /\ y = c.v
  BY <1>1, UsableArguments
<1>5a. PICK up, vp : up = var'[x].d /\ vp = var'[y].d
  OBVIOUS
<1>6. loc' = Notes(us, vs, up, vp, var'[c.w].d, None)
  BY <1>1, <1>2, <1>5, <1>5a DEF MulLoc
<1>7. Abs(us) <= Abs(Size(x)) /\ Abs(vs) <= Abs(Size(y))
  BY <1>1, <1>2, <1>5, <1>5a, Running
<1>8. Needed' = n
  <2>1. c' = c /\ loc'.us = us /\ loc'.vs = vs
    BY <1>1, <1>4, <1>6, TwoNoted
  <2> QED
    BY <1>1, <1>3, <2>1, NeededNext DEF NeededIs
<1> QED
  BY <1>1, <1>4, <1>5, <1>5a, <1>6, <1>7, <1>8, TwoNotedBounds DEF BitFn

LEMMA AorsmulGrowBounds ==
  ASSUME IInv, Bounds, AorsmulGrow
  PROVE  Bounds'
<1>1. /\ pc = "enter" /\ c.fn \in AorsFns /\ Goto("compute") /\ Sizes
      /\ Grow(c.w, MaxOf(Abs(Size(c.w)), Abs(Size(c.u)) + Abs(Size(c.v))) + 1)
      /\ loc' = Notes(Size(Longer), Size(Shorter), var'[Longer].d, var'[Shorter].d, var'[c.w].d, None)
  BY DEF AorsmulGrow, At, Bounds
<1>2. PICK x \in Usable, y \in Usable : x = Longer /\ y = Shorter
  BY <1>1, UsableArguments DEF Longer, Shorter
<1>2a. PICK up, vp : up = var'[x].d /\ vp = var'[y].d
  OBVIOUS
<1>3. PICK us \in Int, vs \in Int : us = Size(x) /\ vs = Size(y)
  BY <1>1, <1>2, <1>2a, Known
<1>4. Abs(us) + Abs(vs) = Abs(Size(c.u)) + Abs(Size(c.v))
  BY <1>1, <1>2, <1>2a, <1>3, Running DEF Longer, Shorter
<1>5. PICK n \in Nat : n = MaxOf(Abs(Size(c.w)), Abs(us) + Abs(vs)) + 1
  BY <1>1, <1>4, Running DEF MaxOf
<1>6. Grown(c.w, n)
  BY <1>1, <1>4, <1>5, Running, GrowGrown, Zenon
<1>7. loc' = Notes(us, vs, up, vp, var'[c.w].d, None)
  BY <1>1, <1>2, <1>2a, <1>3
<1>8. Abs(us) <= Abs(Size(x)) /\ Abs(vs) <= Abs(Size(y))
  BY <1>1, <1>3, Known
<1>9. Needed' = n
  <2>1. c' = c /\ loc'.us = us /\ loc'.vs = vs /\ Size(c.w)' = Size(c.w)
    BY <1>1, <1>6, <1>7, TwoNoted
  <2>2. Needed' = MaxOf(Abs(Size(c.w)'), Abs(loc'.us) + Abs(loc'.vs)) + 1
    BY <1>1, <2>1, NeededNext DEF NeededIs
  <2> QED
    BY <1>5, <2>1, <2>2
<1> QED
  BY <1>1, <1>2, <1>2a, <1>6, <1>7, <1>8, <1>9, TwoNotedBounds DEF BitFn, AorsFns

LEMMA TdivR2expGrowBounds ==
  ASSUME IInv, Bounds, TdivR2expGrow
  PROVE  Bounds'
<1>1. pc = "enter" /\ c.fn = "tdiv_r_2exp" /\ Goto("compute") /\ Sizes
  BY DEF TdivR2expGrow, At, Bounds
<1>2. PICK us \in Int, n \in Nat : us = Size(c.u) /\ n = Abs(us)
  BY <1>1, Running
<1>3. PICK k \in Nat : k = LimbCnt
  BY <1>1, LimbCntType DEF AorsUiFns
<1>4. \E size, x : /\ size = (IF n <= k THEN n ELSE IF Partial(x) # 0 THEN k + 1 ELSE Normalized(k, Low(x, k)))
                   /\ Grow(c.w, size)
                   /\ loc' = Notes(us, size, var'[c.u].d, var'[c.u].d, var'[c.w].d, None)
  BY <1>2, <1>3 DEF TdivR2expGrow
<1>5. PICK size, z : /\ size = (IF n <= k THEN n ELSE IF Partial(z) # 0 THEN k + 1 ELSE Normalized(k, Low(z, k)))
                     /\ Grow(c.w, size)
                     /\ loc' = Notes(us, size, var'[c.u].d, var'[c.u].d, var'[c.w].d, None)
  BY <1>4
<1>6. size \in Nat /\ size <= n
  <2>1. Normalized(k, Low(z, k)) \in 0 .. k
    BY NormalizedType
  <2> QED
    BY <1>5, <2>1
<1>7. Grown(c.w, size)
  BY <1>1, <1>5, <1>6, Running, GrowGrown, Zenon
<1>8. PICK x \in Usable : x = c.u
  BY <1>1, UsableArguments
<1>8a. PICK up : up = var'[x].d
  OBVIOUS
<1>9. loc' = Notes(us, size, up, up, var'[c.w].d, None)
  BY <1>5, <1>8, <1>8a
<1>10. Abs(us) <= Abs(Size(x)) /\ Abs(size) <= Abs(Size(x)) /\ Abs(size) = size
  BY <1>2, <1>6, <1>8, <1>8a DEF Abs
<1>11. Needed' = size
  <2>1. c' = c /\ loc'.vs = size
    BY <1>1, <1>6, <1>7, <1>9, TwoNoted
  <2> QED
    BY <1>1, <1>10, <2>1, NeededNext DEF NeededIs
<1>12. us \in Int /\ size \in Int /\ size <= size
  BY <1>6
<1> QED
  BY <1>1, <1>6, <1>7, <1>8, <1>8a, <1>9, <1>10, <1>11, <1>12, TwoNotedBounds DEF BitFn

\* Copies are made, and the variables' blocks stay as they are.
LEMMA CopiesKeepSizes ==
  ASSUME IInv, Sizes, UNCHANGED var, LensKept, pc \notin {"room", "compute"}, DOMAIN heap \subseteq DOMAIN heap'
  PROVE  /\ Sizes'
         /\ \A x \in Usable : var'[x].d = var[x].d /\ var'[x].d \in DOMAIN heap' /\ heap'[var[x].d].len = var[x].alloc
<1>1. ASSUME NEW x \in Usable
      PROVE  heap'[var[x].d].len = var[x].alloc /\ var[x].d \in DOMAIN heap'
  <2>1. var[x].d \in DOMAIN heap \ {CopyU, CopyV, loc.free} /\ heap[var[x].d].len = var[x].alloc
    BY Known
  <2> QED
    BY <2>1 DEF LensKept
<1>2. Sizes'
  <2>1. ASSUME NEW x \in Var PROVE InBlock(x)' /\ var'[x].alloc >= 1
    <3>1. x \in Usable
      BY NamesDiffer DEF Usable
    <3> QED
      BY <1>1, <3>1 DEF Sizes, InBlock
  <2>2. ASSUME var'[Temp].d = CopyD PROVE InBlock(Temp)'
    <3>1. Temp \in Usable
      BY <2>2 DEF Usable
    <3> QED
      BY <1>1, <2>2, <3>1 DEF Sizes, InBlock
  <2> QED
    BY <2>1, <2>2 DEF Sizes
<1> QED
  BY <1>1, <1>2

\* A block put at a place where there was none leaves the others as they were.
LEMMA LensWith ==
  ASSUME NEW h, NEW p, NEW b
  PROVE  /\ DOMAIN h \subseteq DOMAIN With(h, p, b) /\ p \in DOMAIN With(h, p, b) /\ With(h, p, b)[p] = b
         /\ \A q \in DOMAIN h : q # p => With(h, p, b)[q] = h[q]
BY DEF With

LEMMA MulCopyBounds ==
  ASSUME IInv, Bounds, MulCopy
  PROVE  Bounds'
<1>1. pc = "enter" /\ c.fn = "mul" /\ Goto("compute") /\ var' = var /\ Sizes /\ var[c.w].alloc >= MulSize
  BY DEF MulCopy, At, Bounds
<1>2. PICK u \in Usable, v \in Usable, w \in Usable : u = c.u /\ v = c.v /\ w = c.w
  BY <1>1, UsableArguments
<1>3. PICK us \in Int, vs \in Int : us = Size(u) /\ vs = Size(v)
  BY <1>1, Known
<1>4. /\ Abs(us) \in Nat /\ Abs(us) <= var[u].alloc /\ var[u].alloc \in Nat
      /\ Abs(vs) \in Nat /\ Abs(vs) <= var[v].alloc /\ var[v].alloc \in Nat
      /\ var[w].alloc \in Nat /\ Abs(us) + Abs(vs) <= var[w].alloc
  BY <1>1, <1>2, <1>3, Known DEF MulSize
<1>5. ASSUME var[u].d = var[w].d, var[v].d = var[w].d PROVE Abs(us) = Abs(vs)
  <2>1. u \in Var /\ w \in Var
    BY <1>1, <1>2, Running
  <2>2. v \in Var
    BY <1>5, <2>1, NamesDiffer DEF Usable, IInv, Typing
  <2>3. u = v
    BY <1>5, <2>1, <2>2 DEF IInv, Ownership
  <2> QED
    BY <1>3, <2>3
<1>6. PICK up, vp :
        /\ loc' = MulLoc(var, up, vp, None) /\ LensKept /\ DOMAIN heap \subseteq DOMAIN heap'
        /\ up = var[u].d \/ (up \in DOMAIN heap' /\ heap'[up].len = Abs(us))
        /\ vp = var[v].d \/ (vp \in DOMAIN heap' /\ heap'[vp].len = Abs(vs))
  <2>1. CASE var[u].d = var[w].d
    <3>1. PICK b : heap' = With(heap, CopyU, b) /\ b = Filled(Fresh(Abs(us)), Abs(us), Read(var[w].d, Abs(us)))
      BY <1>2, <1>3, <2>1 DEF MulCopy
    <3>2. b.len = Abs(us)
      BY <3>1 DEF Filled, Fresh
    <3>3. loc' = MulLoc(var, CopyU, IF var[v].d = var[w].d THEN CopyU ELSE var[v].d, None)
      BY <1>2, <2>1 DEF MulCopy
    <3>4. LensKept
      BY <3>1, LensWith DEF LensKept
    <3>5. CopyU \in DOMAIN heap' /\ heap'[CopyU].len = Abs(us) /\ DOMAIN heap \subseteq DOMAIN heap'
      BY <3>1, <3>2, LensWith
    <3>6. PICK vp : vp = IF var[v].d = var[w].d THEN CopyU ELSE var[v].d
      OBVIOUS
    <3>7. vp = var[v].d \/ (vp \in DOMAIN heap' /\ heap'[vp].len = Abs(vs))
      BY <1>5, <2>1, <3>5, <3>6
    <3> QED
      BY <3>3, <3>4, <3>5, <3>6, <3>7
  <2>2. CASE var[u].d # var[w].d /\ var[v].d = var[w].d
    <3>1. PICK b : heap' = With(heap, CopyV, b) /\ b = Filled(Fresh(Abs(vs)), Abs(vs), Read(var[w].d, Abs(vs)))
      BY <1>2, <1>3, <2>2 DEF MulCopy
    <3>2. b.len = Abs(vs)
      BY <3>1 DEF Filled, Fresh
    <3>3. loc' = MulLoc(var, var[u].d, CopyV, None)
      BY <1>2, <2>2 DEF MulCopy
    <3>4. LensKept
      BY <3>1, LensWith DEF LensKept
    <3>5. CopyV \in DOMAIN heap' /\ heap'[CopyV].len = Abs(vs) /\ DOMAIN heap \subseteq DOMAIN heap'
      BY <3>1, <3>2, LensWith
    <3> QED
      BY <3>3, <3>4, <3>5
  <2>3. CASE var[u].d # var[w].d /\ var[v].d # var[w].d
    <3>1. heap' = heap /\ loc' = MulLoc(var, var[u].d, var[v].d, None)
      BY <1>2, <2>3 DEF MulCopy
    <3>2. LensKept
      BY <3>1 DEF LensKept
    <3> QED
      BY <3>1, <3>2
  <2> QED
    BY <2>1, <2>2, <2>3
<1>7. /\ Sizes'
      /\ \A x \in Usable : var'[x].d = var[x].d /\ var'[x].d \in DOMAIN heap' /\ heap'[var[x].d].len = var[x].alloc
  BY <1>1, <1>6, CopiesKeepSizes
<1>8. /\ c' = c /\ pc' = "compute"
      /\ loc'.us = us /\ loc'.vs = vs /\ loc'.up = up /\ loc'.vp = vp /\ loc'.wp = var[w].d
  <2>1. loc' = Notes(us, vs, up, vp, var[w].d, None)
    BY <1>2, <1>3, <1>6 DEF MulLoc
  <2> QED
    BY <1>1, <2>1 DEF Goto, c, Notes
<1>9. Needed' = Abs(us) + Abs(vs)
  BY <1>1, <1>8, NeededNext DEF NeededIs
<1>10. /\ up \in DOMAIN heap' /\ Abs(us) <= heap'[up].len
       /\ vp \in DOMAIN heap' /\ Abs(vs) <= heap'[vp].len
       /\ Needed' <= heap'[var[w].d].len
  BY <1>4, <1>6, <1>7, <1>9
<1>11. PointersLive'
  BY <1>1, <1>2, <1>7, <1>8, <1>10 DEF PointersLive
<1>12. Computing'
  BY <1>1, <1>8 DEF Computing, BitFn
<1> QED
  BY <1>7, <1>8, <1>11, <1>12, Computes

\* The destination has a new block, and the old one is there as long as it is an operand.
LEMMA MulFreshBounds ==
  ASSUME IInv, Bounds, MulFresh
  PROVE  Bounds'
<1>1. pc = "enter" /\ c.fn = "mul" /\ Goto("compute") /\ Sizes /\ var[c.w].alloc < MulSize
  BY DEF MulFresh, At, Bounds
<1>2. PICK u \in Usable, v \in Usable, w \in Var : u = c.u /\ v = c.v /\ w = c.w
  BY <1>1, Running, UsableArguments
<1>3. PICK us \in Int, vs \in Int : us = Size(u) /\ vs = Size(v)
  BY <1>1, Known
<1>4. /\ Abs(us) \in Nat /\ Abs(us) <= var[u].alloc /\ var[u].alloc \in Nat
      /\ Abs(vs) \in Nat /\ Abs(vs) <= var[v].alloc /\ var[v].alloc \in Nat
      /\ var[w].alloc \in Nat /\ Abs(var[w].size) <= var[w].alloc /\ var[w].alloc >= 1
  BY <1>1, <1>3, Known, SizesSay
<1>5. PICK len \in Nat : len = MulSize /\ len = Abs(us) + Abs(vs) /\ len > var[w].alloc
  BY <1>1, <1>2, <1>3, <1>4 DEF MulSize
<1>6. PICK old, free : /\ old = var[w].d
                       /\ free = IF old \in {var[u].d, var[v].d} THEN old ELSE None
  OBVIOUS
<1>7. PICK rest : rest = IF free = None THEN Without(heap, {old}) ELSE heap
  OBVIOUS
<1>8. PICK p \in Block \ DOMAIN rest :
        /\ heap' = With(rest, p, Fresh(len))
        /\ var' = [var EXCEPT ![w].alloc = len, ![w].d = p]
        /\ loc' = MulLoc(var', var[u].d, var[v].d, free)
  BY <1>2, <1>5, <1>6, <1>7, Zenon DEF MulFresh
<1>9. var \in [Var \cup {Temp} -> Fields] /\ old \in Block /\ old # None /\ Temp # w
  BY <1>6, NamesDiffer DEF IInv, Typing
<1>10. /\ var'[w].alloc = len /\ var'[w].d = p /\ var'[w].size = var[w].size
       /\ \A y \in Var \cup {Temp} : y # w => var'[y] = var[y]
  BY <1>8, <1>9 DEF Fields
<1>11. p \in DOMAIN heap' /\ heap'[p].len = len
  BY <1>8, LensWith DEF Fresh
<1>12. ASSUME NEW q \in DOMAIN heap, q # old \/ free # None
       PROVE  q \in DOMAIN heap' /\ heap'[q] = heap[q]
  <2>1. q \in DOMAIN rest /\ rest[q] = heap[q]
    BY <1>7, <1>12 DEF Without
  <2> QED
    BY <1>8, <2>1, LensWith
<1>13. ASSUME NEW y \in Usable, y # w
       PROVE  /\ var[y].d \in DOMAIN heap' /\ heap'[var[y].d].len = var[y].alloc /\ var'[y] = var[y]
              /\ Abs(var[y].size) <= var[y].alloc
  <2>1. var[y].d # old
    <3>1. CASE y \in Var
      BY <1>6, <1>13, <3>1 DEF IInv, Ownership
    <3>2. CASE y = Temp
      BY <1>9, <3>2, NamesDiffer DEF Usable
    <3> QED
      BY <3>1, <3>2 DEF Usable
  <2>2. var[y].d \in DOMAIN heap /\ heap[var[y].d].len = var[y].alloc /\ Abs(var[y].size) <= var[y].alloc
    BY <1>1, Known
  <2>3. var'[y] = var[y]
    BY <1>10, <1>13 DEF Usable
  <2> QED
    BY <1>12, <2>1, <2>2, <2>3
<1>14. Sizes'
  <2>1. ASSUME NEW y \in Var PROVE InBlock(y)' /\ var'[y].alloc >= 1
    <3>1. CASE y = w
      <4>1. Abs(var[w].size) \in Nat
        BY <1>1, SizesSay
      <4>2. Abs(var[w].size) <= len /\ len >= 1
        BY <1>4, <1>5, <4>1
      <4> QED
        BY <1>10, <1>11, <3>1, <4>2 DEF InBlock
    <3>2. CASE y # w
      <4>1. y \in Usable /\ var[y].alloc >= 1
        BY <1>1, SizesSay, NamesDiffer DEF Usable
      <4> QED
        BY <1>13, <3>2, <4>1 DEF InBlock
    <3> QED
      BY <3>1, <3>2
  <2>2. ASSUME var'[Temp].d = CopyD PROVE InBlock(Temp)'
    <3>1. Temp \in Usable
      BY <1>9, <1>10, <2>2 DEF Usable
    <3> QED
      BY <1>9, <1>13, <3>1 DEF InBlock
  <2> QED
    BY <2>1, <2>2 DEF Sizes
<1>15. ASSUME NEW y \in {u, v}
       PROVE  var[y].d \in DOMAIN heap' /\ heap'[var[y].d].len = var[y].alloc
  <2>1. CASE y # w
    BY <1>13, <2>1
  <2>2. CASE y = w
    <3>1. free # None
      <4>1. old \in {var[u].d, var[v].d}
        BY <1>6, <2>2
      <4> QED
        BY <1>6, <1>9, <4>1
    <3>2. var[w].d \in DOMAIN heap /\ heap[var[w].d].len = var[w].alloc
      BY <1>1, SizesSay
    <3> QED
      BY <1>12, <2>2, <3>1, <3>2
  <2> QED
    BY <2>1, <2>2
<1>16. PICK up, vp : up = var[u].d /\ vp = var[v].d
  OBVIOUS
<1>17. /\ c' = c /\ pc' = "compute"
       /\ loc'.us = us /\ loc'.vs = vs /\ loc'.up = up /\ loc'.vp = vp /\ loc'.wp = p
  <2>1. loc' = Notes(us, vs, up, vp, p, free)
    BY <1>2, <1>3, <1>8, <1>10, <1>16 DEF MulLoc
  <2> QED
    BY <1>1, <2>1 DEF Goto, c, Notes
<1>18. Needed' = len
  BY <1>1, <1>5, <1>17, NeededNext DEF NeededIs
<1>19. /\ up \in DOMAIN heap' /\ Abs(us) <= heap'[up].len
       /\ vp \in DOMAIN heap' /\ Abs(vs) <= heap'[vp].len
  BY <1>4, <1>15, <1>16
<1>20. Needed' <= heap'[p].len
  BY <1>11, <1>18
<1>21. PointersLive'
  BY <1>1, <1>2, <1>10, <1>17, <1>19, <1>20 DEF PointersLive
<1>22. Computing'
  BY <1>1, <1>17 DEF Computing, BitFn
<1> QED
  BY <1>14, <1>17, <1>21, <1>22, Computes

-----------------------------------------------------------------------------
(* The divisions before they compute.                                      *)

\* A division goes on to its next step.
LEMMA Divides ==
  ASSUME Sizes', pc' \in {"quot", "copy"}, Dividing'
  PROVE  Bounds'
BY DEF Bounds, Copied2, Computing, PointersLive

\* The operands' sizes are noted, and have not changed.
LEMMA SizesNoted ==
  ASSUME IInv, Sizes, pc = "enter", NEW w, NEW n, Grown(w, n), loc' = OperandSizes, NEW place, Goto(place)
  PROVE  /\ c' = c /\ pc' = place
         /\ loc'.us = Size(c.u) /\ loc'.vs = Size(c.v) /\ Size(c.u)' = Size(c.u) /\ Size(c.v)' = Size(c.v)
<1>1. c' = c /\ pc' = place
  BY DEF Goto, c
<1>2. var'[c.u].size = var[c.u].size /\ var'[c.v].size = var[c.v].size
  BY UsableArguments DEF Grown
<1>3. PICK us, vs : us = Size(c.u) /\ vs = Size(c.v)
  OBVIOUS
<1>4. loc' = Notes(us, vs, None, None, None, None)
  BY <1>3 DEF OperandSizes
<1>5. loc'.us = us /\ loc'.vs = vs
  BY <1>4 DEF Notes
<1> QED
  BY <1>1, <1>2, <1>3, <1>5 DEF Size

LEMMA TdivGrowRemBounds ==
  ASSUME IInv, Bounds, TdivGrowRem
  PROVE  Bounds'
<1>1. /\ pc = "enter" /\ c.fn = "tdiv_qr" /\ Goto("quot") /\ loc' = OperandSizes
      /\ Grow(c.r, Abs(Size(c.v))) /\ Sizes
  BY DEF TdivGrowRem, At, Bounds
<1>2. PICK n \in Nat : n = Abs(Size(c.v))
  BY <1>1, Running
<1>3. Grown(c.r, n)
  <2>1. CASE c.r \in Var
    BY <1>1, <1>2, <2>1, GrowGrown
  <2>2. CASE c.r = Temp
    <3>1. var[c.r].alloc = n
      BY <1>1, <1>2, <2>2 DEF IInv, Tasks, TempRoom
    <3>2. UNCHANGED <<heap, var>>
      BY <1>1, <1>2, <3>1 DEF Grow
    <3> QED
      BY <1>1, <3>1, <3>2, UsableArguments, StayGrown
  <2> QED
    BY <1>1, <2>1, <2>2, Running, Zenon
<1>4. /\ c' = c /\ pc' = "quot"
      /\ loc'.us = Size(c.u) /\ loc'.vs = Size(c.v) /\ Size(c.u)' = Size(c.u) /\ Size(c.v)' = Size(c.v)
  BY <1>1, <1>3, SizesNoted
<1>5. Sizes' /\ var'[c.r].alloc >= n
  BY <1>3 DEF Grown
<1>6. Dividing'
  <2>1. n <= var'[c.r].alloc
    <3>1. var'[c.r].alloc \in Nat
      BY <1>1, <1>3, UsableArguments DEF Grown
    <3> QED
      BY <1>5, <3>1
  <2> QED
    BY <1>1, <1>2, <1>4, <2>1 DEF Dividing
<1> QED
  BY <1>4, <1>5, <1>6, Divides

LEMMA TdivGrowQuotBounds ==
  ASSUME IInv, Bounds, TdivGrowQuot
  PROVE  Bounds'
<1>1. /\ pc = "quot" /\ Goto("copy") /\ loc' = loc /\ Grow(c.w, QuotSize) /\ QuotSize > 0 /\ c.fn = "tdiv_qr"
      /\ Sizes
  BY DEF TdivGrowQuot, At, Bounds
<1>2. PICK n \in Nat : n = QuotSize /\ n >= 1
  BY <1>1, Running DEF QuotSize
<1>3. Grown(c.w, n)
  BY <1>1, <1>2, Running, GrowGrown, Zenon
<1>4. c' = c /\ pc' = "copy" /\ QuotSize' = QuotSize
  BY <1>1 DEF Goto, c, QuotSize
<1>5. c.w \in Usable /\ c.r \in Usable /\ c.u \in Usable /\ c.v \in Usable
  BY <1>1, UsableArguments
<1>6. Sizes' /\ var'[c.w].alloc >= n /\ var'[c.w].alloc \in Nat
  BY <1>3, <1>5 DEF Grown
<1>7. loc.us = Size(c.u) /\ loc.vs = Size(c.v) /\ Abs(loc.vs) <= var[c.r].alloc
  BY <1>1 DEF Bounds, Dividing
<1>8. Size(c.u)' = Size(c.u) /\ Size(c.v)' = Size(c.v)
  BY <1>3, <1>4, <1>5 DEF Grown, Size
<1>9. Abs(loc.vs) <= var'[c.r].alloc
  <2>1. var'[c.r].alloc \in Nat /\ var'[c.r].alloc >= var[c.r].alloc
    BY <1>3, <1>5 DEF Grown
  <2>2. var[c.r].alloc \in Nat /\ Abs(loc.vs) \in Nat
    BY <1>1, <1>5, Known, Running
  <2> QED
    BY <1>7, <2>1, <2>2
<1>10. n <= var'[c.w].alloc
  BY <1>6
<1>11. Dividing'
  BY <1>1, <1>2, <1>4, <1>7, <1>8, <1>9, <1>10 DEF Dividing
<1> QED
  BY <1>4, <1>6, <1>11, Divides

LEMMA TdivQGrowBounds ==
  ASSUME IInv, Bounds, TdivQGrow
  PROVE  Bounds'
<1>1. /\ pc = "enter" /\ Goto("copy") /\ loc' = OperandSizes /\ LongEnough /\ c.fn = "tdiv_q"
      /\ Grow(c.w, Abs(Size(c.u)) - Abs(Size(c.v)) + 1) /\ Sizes
  BY DEF TdivQGrow, At, Bounds
<1>2. PICK n \in Nat : n = Abs(Size(c.u)) - Abs(Size(c.v)) + 1 /\ n >= 1
  BY <1>1, Running DEF LongEnough
<1>3. Grown(c.w, n)
  BY <1>1, <1>2, Running, GrowGrown, Zenon
<1>4. /\ c' = c /\ pc' = "copy"
      /\ loc'.us = Size(c.u) /\ loc'.vs = Size(c.v) /\ Size(c.u)' = Size(c.u) /\ Size(c.v)' = Size(c.v)
  BY <1>1, <1>3, SizesNoted
<1>5. Sizes' /\ var'[c.w].alloc >= n /\ var'[c.w].alloc \in Nat
  BY <1>1, <1>3, UsableArguments DEF Grown
<1>6. QuotSize' = n
  BY <1>2, <1>4 DEF QuotSize
<1>7. n <= var'[c.w].alloc
  BY <1>5
<1>8. Dividing'
  BY <1>1, <1>2, <1>4, <1>6, <1>7 DEF Dividing
<1> QED
  BY <1>4, <1>5, <1>8, Divides

LEMMA TdivRGrowBounds ==
  ASSUME IInv, Bounds, TdivRGrow
  PROVE  Bounds'
<1>1. /\ pc = "enter" /\ loc' = OperandSizes /\ c.fn = "tdiv_r" /\ Grow(c.w, Abs(Size(c.v))) /\ Sizes
  BY DEF TdivRGrow, At, Bounds
<1>2. PICK place : place = (IF LongEnough THEN "copy" ELSE "quot") /\ Goto(place)
  BY DEF TdivRGrow
<1>3. PICK n \in Nat : n = Abs(Size(c.v))
  BY <1>1, Running
<1>4. Grown(c.w, n)
  BY <1>1, <1>3, Running, GrowGrown, Zenon
<1>5. /\ c' = c /\ pc' = place
      /\ loc'.us = Size(c.u) /\ loc'.vs = Size(c.v) /\ Size(c.u)' = Size(c.u) /\ Size(c.v)' = Size(c.v)
  BY <1>1, <1>2, <1>4, SizesNoted
<1>6. Sizes' /\ var'[c.w].alloc >= n /\ var'[c.w].alloc \in Nat
  BY <1>1, <1>4, UsableArguments DEF Grown
<1>7. n <= var'[c.w].alloc
  BY <1>6
<1>8. place = "quot" => Abs(Size(c.u)) < Abs(Size(c.v))
  BY <1>1, <1>2, Running DEF LongEnough
<1>9. Dividing'
  BY <1>1, <1>2, <1>3, <1>5, <1>7, <1>8 DEF Dividing
<1> QED
  BY <1>2, <1>5, <1>6, <1>9, Divides

\* A dividend that is less than the divisor is the remainder.
LEMMA TdivSmallBounds ==
  ASSUME IInv, Bounds, TdivSmall
  PROVE  Bounds'
<1>1. pc = "quot" /\ Finish /\ c.fn = "tdiv_qr" /\ QuotSize <= 0 /\ Sizes
  BY DEF TdivSmall, At, Bounds
<1>2. PICK m \in Int : m = Size(c.u)
  BY <1>1, Running
<1>3. PICK x \in Var \cup {Temp}, y \in Var \cup {Temp} : x = c.r /\ y = c.w
  BY <1>1, Running
<1>4. x \in Usable /\ c.u \in Usable
  BY <1>1, <1>3, UsableArguments
<1>5. Abs(m) <= var[x].alloc
  <2>1. loc.us = m /\ Abs(loc.vs) <= var[x].alloc
    BY <1>1, <1>2, <1>3 DEF Bounds, Dividing
  <2>2. Abs(m) \in Nat /\ Abs(loc.vs) \in Nat /\ var[x].alloc \in Nat
    BY <1>1, <1>4, <2>1, Running, Known, Zenon
  <2> QED
    BY <1>1, <2>1, <2>2 DEF QuotSize
<1>6. var \in [Var \cup {Temp} -> Fields]
  BY DEF IInv, Typing
<1>7. /\ Resized
      /\ \A z \in Var \cup {Temp} : var'[z].size \in {0, var[z].size} \/ (z = x /\ var'[z].size = m)
  <2>1. CASE c.u # c.r
    <3>1. var' = [var EXCEPT ![x].size = m, ![y].size = 0]
      <4>1. var' = [var EXCEPT ![c.r].size = Size(c.u), ![c.w].size = 0]
        BY <2>1 DEF TdivSmall
      <4> QED
        BY <1>2, <1>3, <4>1
    <3>2. m \in Int /\ 0 \in Int
      OBVIOUS
    <3>3. Resized
      BY <3>1, <3>2, TwoSizesKeep, Zenon
    <3>4. PICK h : h = [var EXCEPT ![x].size = m]
      BY Zenon
    <3>5. /\ h \in [Var \cup {Temp} -> Fields] /\ h[x].size = m
          /\ \A z \in Var \cup {Temp} : z # x => h[z] = var[z]
      BY <1>6, <3>4 DEF Fields
    <3>6. var' = [h EXCEPT ![y].size = 0]
      BY <3>1, <3>4
    <3>7. \A z \in Var \cup {Temp} : var'[z].size \in {0, h[z].size}
      BY <3>5, <3>6 DEF Fields
    <3> QED
      BY <3>3, <3>5, <3>7
  <2>2. CASE c.u = c.r
    <3>1. var' = [var EXCEPT ![y].size = 0]
      <4>1. var' = [var EXCEPT ![c.w].size = 0]
        BY <2>2 DEF TdivSmall
      <4> QED
        BY <1>3, <4>1
    <3>2. 0 \in Int
      OBVIOUS
    <3>3. Resized
      BY <3>1, <3>2, OneSizeKeeps, Zenon
    <3>4. \A z \in Var \cup {Temp} : var'[z].size \in {0, var[z].size}
      BY <1>6, <3>1 DEF Fields
    <3> QED
      BY <3>3, <3>4
  <2> QED
    BY <2>1, <2>2
<1>8. ASSUME NEW z \in Var \cup {Temp}
      PROVE  Abs(var'[z].size) <= var[z].alloc \/ var'[z].size = var[z].size
  <2>1. var[z].alloc \in Nat
    BY <1>6 DEF Fields
  <2>2. CASE var'[z].size = 0
    BY <2>1, <2>2 DEF Abs
  <2>3. CASE z = x /\ var'[z].size = m
    BY <1>5, <2>3
  <2> QED
    BY <1>7, <2>2, <2>3
<1>9. LensKept
  <2>1. \E p, n, z : heap' = heap \/ heap' = Written(heap, p, n, z)
    BY DEF TdivSmall
  <2> QED
    BY <2>1, WrittenKeeps
<1>10. Sizes'
  BY <1>1, <1>7, <1>8, <1>9, SizesKept
<1> QED
  BY <1>1, <1>10, Leaves DEF Finish

LEMMA TdivRSmallBounds ==
  ASSUME IInv, Bounds, TdivRSmall
  PROVE  Bounds'
<1>1. pc = "quot" /\ Finish /\ c.fn = "tdiv_r" /\ Sizes
  BY DEF TdivRSmall, At, Bounds
<1>2. CASE c.u = c.w
  BY <1>1, <1>2, EndsAsItWas DEF TdivRSmall, Finish
<1>3. CASE c.u # c.w
  <2>1. PICK m \in Int, w \in Var : m = Size(c.u) /\ w = c.w
    BY <1>1, Running, Zenon
  <2>2. Abs(m) <= var[w].alloc
    <3>1. loc.us = m /\ Abs(loc.vs) <= var[w].alloc /\ Abs(loc.us) < Abs(loc.vs)
      BY <1>1, <2>1 DEF Bounds, Dividing
    <3>2. Abs(m) \in Nat /\ Abs(loc.vs) \in Nat /\ var[w].alloc \in Nat
      BY <1>1, <3>1, Running, SizesSay, Zenon
    <3> QED
      BY <3>1, <3>2
  <2>3. Sized(w, m)
    <3>1. var' = [var EXCEPT ![c.w].size = Size(c.u)]
      BY <1>3 DEF TdivRSmall
    <3>2. var' = [var EXCEPT ![w].size = m]
      BY <2>1, <3>1
    <3> QED
      BY <3>2 DEF Sized
  <2>4. PICK p, n, z : heap' = Written(heap, p, n, z)
    BY <1>3 DEF TdivRSmall
  <2>5. LensKept
    BY <2>4, WrittenKeeps
  <2>6. Sizes'
    BY <1>1, <2>2, <2>3, <2>5, OneSizeFits
  <2> QED
    BY <1>1, <2>6, Leaves DEF Finish
<1> QED
  BY <1>2, <1>3

\* The operands that are results have become copies, which are as long as they are.
LEMMA CopyOperandsBounds ==
  ASSUME IInv, Bounds, NEW fns, fns \subseteq {"tdiv_qr", "tdiv_q", "tdiv_r"}, CopyOperands(fns)
  PROVE  Bounds'
<1>1. pc = "copy" /\ c.fn \in {"tdiv_qr", "tdiv_q", "tdiv_r"} /\ Goto("compute") /\ var' = var /\ Sizes
  BY DEF CopyOperands, At, Bounds
<1>2. PICK xu \in Usable, xv \in Usable, xw \in Usable, xr \in Usable :
        xu = c.u /\ xv = c.v /\ xw = c.w /\ xr = c.r
  BY <1>1, UsableArguments
<1>3. PICK u, v, w, r : u = var[xu].d /\ v = var[xv].d /\ w = var[xw].d /\ r = var[xr].d
  OBVIOUS
<1>4. PICK us \in Int, vs \in Int : us = loc.us /\ vs = loc.vs
  BY <1>1, Running
<1>5. PICK nu \in Nat, nv \in Nat : nu = Abs(us) /\ nv = Abs(vs)
  BY <1>1, <1>4, Running
<1>6. us = Size(xu) /\ vs = Size(xv)
  BY <1>1, <1>2, <1>4 DEF Bounds, Dividing
<1>7. PICK up, vp : /\ up = IF u \in {w, r} THEN CopyU ELSE u
                    /\ vp = IF v \in {w, r} THEN CopyV ELSE v
  BY Zenon
<1>8. PICK D : D = DOMAIN heap \cup ({up, vp} \cap Copy)
  BY Zenon
<1>9. /\ DOMAIN heap' = D
      /\ \A p \in DOMAIN heap : heap'[p] = heap[p]
      /\ CopyU \in D \ DOMAIN heap => heap'[CopyU].len = nu
      /\ CopyV \in D \ DOMAIN heap => heap'[CopyV].len = nv
  <2>1. heap' = [p \in D |->
              IF p \in DOMAIN heap THEN heap[p]
              ELSE LET x == IF p = CopyU THEN c.u ELSE c.v
                       n == Abs(IF p = CopyU THEN loc.us ELSE loc.vs)
                   IN  Filled(Fresh(n), n, Read(var[x].d, n))]
    BY <1>2, <1>3, <1>7, <1>8, Zenon DEF CopyOperands
  <2>2. DOMAIN heap' = D /\ D = DOMAIN heap \cup D
    BY <1>8, <2>1
  <2>3. \A p \in DOMAIN heap : heap'[p] = heap[p]
    BY <2>1, <2>2
  <2>4. ASSUME CopyU \in D \ DOMAIN heap PROVE heap'[CopyU].len = nu
    <3>1. heap'[CopyU] = Filled(Fresh(nu), nu, Read(var[c.u].d, nu))
      BY <1>4, <1>5, <2>1, <2>4
    <3> QED
      BY <3>1 DEF Filled, Fresh
  <2>5. ASSUME CopyV \in D \ DOMAIN heap PROVE heap'[CopyV].len = nv
    <3>1. heap'[CopyV] = Filled(Fresh(nv), nv, Read(var[c.v].d, nv))
      BY <1>4, <1>5, <2>1, <2>5, NamesDiffer
    <3> QED
      BY <3>1 DEF Filled, Fresh
  <2> QED
    BY <2>2, <2>3, <2>4, <2>5
<1>10. CopyU \notin DOMAIN heap /\ CopyV \notin DOMAIN heap
  <2>1. (\A q \in Loose : q = CopyD) /\ CopyU \notin Held /\ CopyV \notin Held
    BY <1>1, Bare, NamesDiffer DEF Copying, IInv, Typing, Held
  <2> QED
    BY <2>1, NamesDiffer DEF Loose
<1>11. LensKept /\ DOMAIN heap \subseteq DOMAIN heap'
  BY <1>8, <1>9 DEF LensKept
<1>12. /\ Sizes'
       /\ \A x \in Usable : var'[x].d = var[x].d /\ var'[x].d \in DOMAIN heap' /\ heap'[var[x].d].len = var[x].alloc
  BY <1>1, <1>11, CopiesKeepSizes
<1>13. /\ c' = c /\ pc' = "compute"
       /\ loc'.us = us /\ loc'.vs = vs /\ loc'.up = up /\ loc'.vp = vp /\ loc'.wp = w /\ loc'.rp = r
  <2>1. loc' = [loc EXCEPT !.up = up, !.vp = vp, !.wp = w, !.rp = r]
    BY <1>2, <1>3, <1>7 DEF CopyOperands
  <2>2. loc \in Locals
    BY DEF IInv, Typing
  <2> QED
    BY <1>1, <1>4, <2>1, <2>2 DEF Goto, c, Locals
<1>14. up \in DOMAIN heap' /\ nu <= heap'[up].len
  <2>1. CASE u \in {w, r}
    <3>1. up = CopyU /\ CopyU \in D
      BY <1>7, <1>8, <2>1, Zenon DEF Copy
    <3> QED
      BY <1>9, <1>10, <3>1
  <2>2. CASE u \notin {w, r}
    <3>1. up = var[xu].d /\ nu <= var[xu].alloc
      BY <1>1, <1>3, <1>5, <1>6, <1>7, <2>2, Known
    <3> QED
      BY <1>12, <3>1
  <2> QED
    BY <2>1, <2>2
<1>15. vp \in DOMAIN heap' /\ nv <= heap'[vp].len
  <2>1. CASE v \in {w, r}
    <3>1. vp = CopyV /\ CopyV \in D
      BY <1>7, <1>8, <2>1, Zenon DEF Copy
    <3> QED
      BY <1>9, <1>10, <3>1
  <2>2. CASE v \notin {w, r}
    <3>1. vp = var[xv].d /\ nv <= var[xv].alloc
      BY <1>1, <1>3, <1>5, <1>6, <1>7, <2>2, Known
    <3> QED
      BY <1>12, <3>1
  <2> QED
    BY <2>1, <2>2
<1>16. w = var'[c.w].d /\ r = var'[c.r].d /\ heap'[w].len = var[c.w].alloc /\ heap'[r].len = var[c.r].alloc
  BY <1>1, <1>2, <1>3, <1>12
<1>17. QuotSize' = QuotSize
  BY <1>4, <1>13 DEF QuotSize
<1>18. /\ c.fn = "tdiv_qr" => nv <= var[c.r].alloc
       /\ c.fn = "tdiv_r" => nv <= var[c.w].alloc
       /\ c.fn # "tdiv_r" => QuotSize >= 1 /\ QuotSize <= var[c.w].alloc
  BY <1>1, <1>4, <1>5 DEF Bounds, Dividing
<1>19. Needed' <= heap'[w].len
  <2>1. CASE c.fn = "tdiv_r"
    <3>1. Needed' = nv
      BY <1>5, <1>13, <2>1, NeededNext DEF NeededIs
    <3> QED
      BY <1>16, <1>18, <2>1, <3>1
  <2>2. CASE c.fn \in {"tdiv_qr", "tdiv_q"}
    <3>1. Needed' = QuotSize
      BY <1>13, <1>17, <2>2, NeededNext DEF NeededIs
    <3> QED
      BY <1>16, <1>18, <2>2, <3>1
  <2> QED
    BY <1>1, <2>1, <2>2
<1>20. PointersLive'
  BY <1>5, <1>13, <1>14, <1>15, <1>16, <1>18, <1>19 DEF PointersLive
<1>21. Computing'
  BY <1>1, <1>13, <1>17, <1>18 DEF Computing, BitFn
<1> QED
  BY <1>12, <1>13, <1>20, <1>21, Computes

\* The copies the bit operations make are as long as they say, and no operand has fewer
\* limbs than are noted of it.
LEMMA BitCopyBounds ==
  ASSUME IInv, Bounds, BitCopy
  PROVE  Bounds'
<1>1. pc = "enter" /\ c.fn \in BitFn /\ Goto("room") /\ var' = var /\ Sizes
  BY DEF BitCopy, At, Bounds
<1>2. PICK x \in Usable, y \in Usable : x = First /\ y = Second
  BY <1>1, FirstSecond, UsableArguments
<1>3. Size(x) \in Int /\ Size(y) \in Int /\ Abs(Size(x)) \in Nat /\ Abs(Size(y)) \in Nat
  BY <1>1, <1>2, Known
<1>4. PICK nx \in Nat, ny \in Nat : nx = Copied(x) /\ ny = Copied(y)
  BY <1>1, <1>2, CopiedType
<1>5. PICK a, b : a = LessOne(x) /\ b = LessOne(y)
  OBVIOUS
<1>6. a.len = nx /\ b.len = ny
  BY <1>4, <1>5 DEF LessOne, Filled, Fresh
<1>7. PICK h : h = IF Size(x) < 0 THEN With(heap, CopyU, a) ELSE heap
  OBVIOUS
<1>8. heap' = IF Size(y) < 0 THEN With(h, CopyV, b) ELSE h
  BY <1>2, <1>5, <1>7 DEF BitCopy
<1>9. /\ DOMAIN heap \subseteq DOMAIN h /\ \A q \in DOMAIN heap : q # CopyU => h[q] = heap[q]
      /\ Size(x) < 0 => CopyU \in DOMAIN h /\ h[CopyU] = a
  BY <1>7, LensWith
<1>10. /\ DOMAIN h \subseteq DOMAIN heap' /\ \A q \in DOMAIN h : q # CopyV => heap'[q] = h[q]
       /\ Size(y) < 0 => CopyV \in DOMAIN heap' /\ heap'[CopyV] = b
  BY <1>8, LensWith
<1>11. LensKept /\ DOMAIN heap \subseteq DOMAIN heap'
  BY <1>9, <1>10 DEF LensKept
<1>12. Sizes'
  BY <1>1, <1>11, CopiesKeepSizes
<1>13. PICK us, vs, up, vp :
        /\ us = Signed(Size(x) < 0, nx) /\ vs = Signed(Size(y) < 0, ny)
        /\ up = IF Size(x) < 0 THEN CopyU ELSE var[x].d
        /\ vp = IF Size(y) < 0 THEN CopyV ELSE var[y].d
  OBVIOUS
<1>14. loc' = Notes(us, vs, up, vp, None, None)
  BY <1>2, <1>4, <1>13 DEF BitCopy
<1>15. /\ c' = c /\ pc' = "room" /\ First' = First /\ Second' = Second
       /\ Size(First)' = Size(x) /\ Size(Second)' = Size(y)
  <2>1. c' = c /\ pc' = "room"
    BY <1>1 DEF Goto, c
  <2> QED
    BY <1>1, <1>2, <2>1 DEF First, Second, Size
<1>16. loc'.us = us /\ loc'.vs = vs /\ loc'.up = up /\ loc'.vp = vp
  BY <1>14 DEF Notes
<1>17. Abs(us) = nx /\ Abs(vs) = ny
  BY <1>13 DEF Signed, Abs
<1>18. var[x].d # CopyU /\ var[y].d # CopyV
  BY <1>1, Known
<1>19. (up # CopyU => nx <= Abs(Size(x))) /\ (vp # CopyV => ny <= Abs(Size(y)))
  <2>1. PICK m \in Nat, k \in Nat : m = Abs(Size(x)) /\ k = Abs(Size(y))
    BY <1>3
  <2>2. nx \in {m, MinOf(m, k)} /\ ny \in {k, MinOf(m, k)}
    BY <1>2, <1>4, <2>1 DEF Copied
  <2>3. nx <= m /\ ny <= k
    <3>1. ny \in {k, MinOf(m, k)} => ny <= k
      BY DEF MinOf
    <3>2. nx \in {m, MinOf(m, k)} => nx <= m
      BY DEF MinOf
    <3> QED
      BY <2>2, <3>1, <3>2
  <2> QED
    BY <2>1, <2>3
<1>20. up = CopyU => CopyU \in DOMAIN heap' /\ heap'[CopyU].len = nx
  <2>1. ASSUME up = CopyU PROVE Size(x) < 0
    BY <1>13, <1>18, <2>1
  <2>2. Size(x) < 0 => CopyU \in DOMAIN heap' /\ heap'[CopyU] = a
    BY <1>9, <1>10, NamesDiffer
  <2> QED
    BY <1>6, <2>1, <2>2
<1>21. vp = CopyV => CopyV \in DOMAIN heap' /\ heap'[CopyV].len = ny
  <2>1. ASSUME vp = CopyV PROVE Size(y) < 0
    BY <1>13, <1>18, <2>1
  <2> QED
    BY <1>6, <1>10, <2>1
<1>22. Copied2'
  BY <1>1, <1>15, <1>16, <1>17, <1>19, <1>20, <1>21 DEF Copied2
<1>23. Dividing' /\ Computing' /\ PointersLive'
  BY <1>15 DEF Dividing, Computing, PointersLive
<1> QED
  BY <1>12, <1>22, <1>23 DEF Bounds

\* The result of a bit operation has no more limbs than the longer operand.
LEMMA MostLimbs ==
  ASSUME IInv, pc = "room"
  PROVE  ResultLimbs \in 0 .. Most /\ Na \in Nat /\ Nb \in Nat /\ Most \in Nat
<1>1. PICK us \in Int, vs \in Int : us = loc.us /\ vs = loc.vs
  BY Running
<1>2. Na \in Nat /\ Nb \in Nat /\ (vs # 0 => Nb # 0)
  BY <1>1, Small, Zenon DEF Na, Nb
<1>3. PICK na \in Nat, nb \in Nat : na = Na /\ nb = Nb
  BY <1>2
<1>4. PICK low \in Nat, most \in Nat : low = MinOf(na, nb) /\ most = MaxOf(na, nb)
  BY DEF MinOf, MaxOf
<1>5. low <= most /\ na <= most /\ nb <= most
  BY <1>4 DEF MinOf, MaxOf
<1>6. Most = most /\ MinOf(Na, Nb) = low
  BY <1>3, <1>4 DEF Most
<1>7. /\ \A x : Normalized(low, x) \in 0 .. low
      /\ \A x : Normalized(na, x) \in 0 .. na
  BY NormalizedType
<1>8. ResultLimbs \in 0 .. most
  <2>1. CASE c.fn = "and" /\ Signs = "++"
    <3>1. PICK x : ResultLimbs = Normalized(low, x)
      BY <1>6, <2>1 DEF ResultLimbs
    <3> QED
      BY <1>5, <1>7, <3>1
  <2>2. CASE c.fn = "and" /\ Signs = "+-"
    <3>1. PICK x : ResultLimbs = na \/ ResultLimbs = Normalized(na, x)
      BY <1>3, <2>2 DEF ResultLimbs
    <3> QED
      BY <1>5, <1>7, <3>1
  <2>3. CASE c.fn = "ior" /\ Signs = "--"
    <3>1. PICK x : ResultLimbs = Normalized(na, x)
      BY <1>3, <2>3 DEF ResultLimbs
    <3> QED
      BY <1>5, <1>7, <3>1
  <2>4. CASE c.fn = "ior" /\ Signs = "+-"
    <3>1. vs < 0
      BY <1>1, <2>4 DEF Signs, SignsOf
    <3>2. PICK k : k = LessTop(nb, VValue)
      OBVIOUS
    <3>3. k \in Nat /\ k <= nb
      <4>1. k \in {nb - 1, nb} /\ nb # 0
        BY <1>1, <1>2, <1>3, <3>1, <3>2, LessTopType
      <4> QED
        BY <4>1
    <3>4. PICK x : ResultLimbs = Normalized(k, x) \/ ResultLimbs = k
      BY <1>3, <2>4, <3>2 DEF ResultLimbs
    <3>5. Normalized(k, x) \in 0 .. k
      BY <3>3, NormalizedType
    <3> QED
      BY <1>5, <3>3, <3>4, <3>5
  <2>5. CASE /\ ~ (c.fn = "and" /\ Signs = "++") /\ ~ (c.fn = "and" /\ Signs = "+-")
             /\ ~ (c.fn = "ior" /\ Signs = "--") /\ ~ (c.fn = "ior" /\ Signs = "+-")
    <3>1. ResultLimbs = most
      BY <1>6, <2>5 DEF ResultLimbs
    <3> QED
      BY <3>1
  <2> QED
    BY <2>1, <2>2, <2>3, <2>4, <2>5
<1> QED
  BY <1>2, <1>6, <1>8

\* The destination has grown, and the pointers are those of the blocks as they are now.
LEMMA BitGrowBounds ==
  ASSUME IInv, Bounds, BitGrow
  PROVE  Bounds'
<1>1. /\ pc = "room" /\ c.fn \in BitFn /\ Goto("compute") /\ Grow(c.w, Room(ResultLimbs)) /\ Sizes /\ Copied2
  BY DEF BitGrow, At, Bounds
<1>2. PICK n \in Nat : n = ResultLimbs
  BY <1>1, LimbsOfResult
<1>3. PICK len \in Nat : len = Room(n)
  BY <1>1, LimbsOfResult
<1>4. PICK x \in Usable, y \in Usable, z \in Usable : x = First /\ y = Second /\ z = c.w
  BY <1>1, FirstSecond, UsableArguments
<1>5. z \in Var
  BY <1>1, <1>4, Running
<1>6. Grown(z, len)
  BY <1>1, <1>2, <1>3, <1>4, <1>5, GrowGrown
<1>7. PICK us \in Int, vs \in Int : us = loc.us /\ vs = loc.vs
  BY <1>1, Running, Zenon
<1>8. PICK u, v, w : u = var'[x].d /\ v = var'[y].d /\ w = var'[z].d
  OBVIOUS
<1>9. PICK up, vp : up = (IF loc.up = CopyU THEN CopyU ELSE u) /\ vp = (IF loc.vp = CopyV THEN CopyV ELSE v)
  OBVIOUS
<1>10. loc' = [loc EXCEPT !.ws = n, !.up = up, !.vp = vp, !.wp = w]
  <2>1. loc' = [loc EXCEPT !.ws = n, !.up = IF @ = CopyU THEN @ ELSE u, !.vp = IF @ = CopyV THEN @ ELSE v,
                           !.wp = w]
    BY <1>2, <1>4, <1>8 DEF BitGrow
  <2> QED
    BY <1>9, <2>1, Zenon
<1>11. /\ c' = c /\ pc' = "compute"
       /\ loc'.us = us /\ loc'.vs = vs /\ loc'.ws = n /\ loc'.up = up /\ loc'.vp = vp /\ loc'.wp = w
  <2>1. loc \in Locals
    BY DEF IInv, Typing
  <2> QED
    BY <1>1, <1>7, <1>10, <2>1 DEF Goto, c, Locals
<1>12. Na' = Na /\ Nb' = Nb /\ Most' = Most /\ Signs' = Signs
  BY <1>7, <1>11 DEF Na, Nb, Most, Signs
<1>13. Needed' = len
  <2>1. Needed' = Room(loc.ws)'
    BY <1>1, <1>11, NeededNext DEF NeededIs
  <2>2. Room(loc.ws)' = Room(n)
    BY <1>11, <1>12 DEF Room
  <2> QED
    BY <1>3, <2>1, <2>2
<1>14. \A p \in DOMAIN heap \cap Copy : p \in DOMAIN heap' /\ heap'[p].len = heap[p].len
  BY <1>6 DEF Grown
<1>15. Abs(us) \in Nat /\ Abs(vs) \in Nat
  BY <1>1, <1>7, Running
<1>16. up \in DOMAIN heap' /\ Abs(us) <= heap'[up].len
  <2>1. CASE loc.up = CopyU
    <3>1. CopyU \in DOMAIN heap \cap Copy /\ heap[CopyU].len = Abs(us)
      BY <1>1, <1>7, <2>1 DEF Copied2, Copy
    <3>2. CopyU \in DOMAIN heap' /\ heap'[CopyU].len = Abs(us)
      BY <1>14, <3>1
    <3> QED
      BY <1>9, <1>15, <2>1, <3>2
  <2>2. CASE loc.up # CopyU
    <3>1. Abs(us) <= Abs(Size(x)) /\ up = var'[x].d
      BY <1>1, <1>4, <1>7, <1>8, <1>9, <2>2 DEF Copied2
    <3> QED
      BY <1>1, <1>6, <3>1, StillLong
  <2> QED
    BY <2>1, <2>2
<1>17. vp \in DOMAIN heap' /\ Abs(vs) <= heap'[vp].len
  <2>1. CASE loc.vp = CopyV
    <3>1. CopyV \in DOMAIN heap \cap Copy /\ heap[CopyV].len = Abs(vs)
      BY <1>1, <1>7, <2>1 DEF Copied2, Copy
    <3>2. CopyV \in DOMAIN heap' /\ heap'[CopyV].len = Abs(vs)
      BY <1>14, <3>1
    <3> QED
      BY <1>9, <1>15, <2>1, <3>2
  <2>2. CASE loc.vp # CopyV
    <3>1. Abs(vs) <= Abs(Size(y)) /\ vp = var'[y].d
      BY <1>1, <1>4, <1>7, <1>8, <1>9, <2>2 DEF Copied2
    <3> QED
      BY <1>1, <1>6, <3>1, StillLong
  <2> QED
    BY <2>1, <2>2
<1>18. w = var'[c.w].d /\ len <= heap'[w].len
  <2>1. heap'[w].len = var'[z].alloc /\ var'[z].alloc \in Nat /\ var'[z].alloc >= len
    BY <1>6, <1>8 DEF Grown
  <2> QED
    BY <1>4, <1>8, <2>1
<1>19. PointersLive'
  BY <1>1, <1>11, <1>13, <1>16, <1>17, <1>18 DEF PointersLive, BitFn
<1>20. Computing'
  <2>1. n \in 0 .. Most
    BY <1>1, <1>2, MostLimbs
  <2> QED
    BY <1>1, <1>11, <1>12, <2>1 DEF Computing, BitFn
<1>21. Sizes'
  BY <1>6 DEF Grown
<1> QED
  BY <1>11, <1>19, <1>20, <1>21, Computes

-----------------------------------------------------------------------------
(* The functions that call others.                                         *)

\* A function that calls others leaves only the variables to look at.
LEMMA CallsOthers ==
  ASSUME pc = "enter", UNCHANGED pc, Sizes'
  PROVE  Bounds'
BY AtRest

\* temp_divisor, or a remainder in temporary memory, is as long as it says.
LEMMA TempSizes ==
  ASSUME IInv, Sizes, pc = "enter", NEW b, NEW f, heap' = With(heap, CopyD, b),
         var' = [var EXCEPT ![Temp] = f],
         f.d = CopyD, f.alloc = b.len, Abs(f.size) <= f.alloc
  PROVE  Sizes'
<1>1. DOMAIN heap \subseteq DOMAIN heap' /\ heap'[CopyD] = b /\ \A q \in DOMAIN heap : q # CopyD => heap'[q] = heap[q]
  BY LensWith
<1>2. var \in [Var \cup {Temp} -> Fields]
  BY DEF IInv, Typing
<1>3. var'[Temp] = f /\ \A x \in Var : var'[x] = var[x]
  BY <1>2, NamesDiffer
<1>4. ASSUME NEW x \in Var PROVE InBlock(x)' /\ var'[x].alloc >= 1
  <2>1. /\ var[x].d \in DOMAIN heap /\ var[x].d # CopyD /\ heap[var[x].d].len = var[x].alloc
        /\ var[x].alloc >= 1 /\ Abs(var[x].size) <= var[x].alloc
    BY SizesSay
  <2> QED
    BY <1>1, <1>3, <2>1 DEF InBlock
<1>5. InBlock(Temp)'
  BY <1>1, <1>3 DEF InBlock
<1> QED
  BY <1>4, <1>5 DEF Sizes

\* Where the running function calls others, or returns, and changes no variable.
LEMMA CallsBounds ==
  ASSUME IInv, Bounds, Invoke \/ DivAdjust \/ CorrectQ \/ CorrectR \/ AorsmulLimb
  PROVE  Bounds'
<1>1. UNCHANGED <<heap, var>>
  BY Zenon DEF Invoke, DivAdjust, CorrectQ, CorrectR, AorsmulLimb, SameValue
<1>2. pc' \in {"enter", "done"}
  <2>1. CASE Invoke
    BY <2>1 DEF Invoke
  <2>2. CASE DivAdjust \/ AorsmulLimb
    BY <2>2 DEF DivAdjust, AorsmulLimb, At
  <2>3. CASE CorrectQ
    <3>1. pc = "enter" /\ (Finish \/ UNCHANGED pc)
      BY <2>3 DEF CorrectQ, At, Then
    <3> QED
      BY <3>1 DEF Finish, FinishWith
  <2>4. CASE CorrectR
    <3>1. pc = "enter" /\ c.fn \in {"floor_r", "ceiling_r", "least_r"}
      BY <2>4 DEF CorrectR, At
    <3>2. Finish \/ UNCHANGED pc
      <4>1. Size(c.w) = 0 \/ Size(c.w) # 0
        OBVIOUS
      <4>2. CASE c.fn = "floor_r"
        BY <2>4, <4>2, Zenon DEF CorrectR, Then
      <4>3. CASE c.fn = "ceiling_r"
        BY <2>4, <4>3, Zenon DEF CorrectR, Then
      <4>4. CASE c.fn = "least_r"
        BY <2>4, <4>4, Zenon DEF CorrectR, Then
      <4> QED
        BY <3>1, <4>2, <4>3, <4>4
    <3> QED
      BY <3>1, <3>2 DEF Finish, FinishWith
  <2> QED
    BY <2>1, <2>2, <2>3, <2>4
<1> QED
  BY <1>1, <1>2, Stays, AtRest DEF Bounds

LEMMA DivTruncateBounds ==
  ASSUME IInv, Bounds, DivTruncate
  PROVE  Bounds'
<1>1. pc = "enter" /\ pc' = pc /\ Sizes
  BY DEF DivTruncate, At, Bounds
<1>2. CASE DivCopy(c.v)
  <2>1. PICK n \in Nat, m \in Int : n = Abs(m) /\ m = Size(c.v)
    BY <1>1, Running
  <2>2. PICK b : b = Filled(Fresh(n), n, Read(var[c.v].d, n)) /\ heap' = With(heap, CopyD, b)
    BY <1>2, <2>1 DEF DivTruncate
  <2>3. PICK f : f = [alloc |-> n, size |-> m, d |-> CopyD] /\ var' = [var EXCEPT ![Temp] = f]
    BY <1>2, <2>1, Zenon DEF DivTruncate
  <2>4. f.d = CopyD /\ f.alloc = b.len /\ Abs(f.size) <= f.alloc
    BY <2>1, <2>2, <2>3 DEF Filled, Fresh
  <2> QED
    BY <1>1, <2>2, <2>3, <2>4, TempSizes, CallsOthers, Zenon
<1>3. CASE ~DivCopy(c.v)
  <2>1. UNCHANGED <<heap, var>>
    BY <1>3 DEF DivTruncate
  <2> QED
    BY <1>1, <2>1, Stays, CallsOthers
<1> QED
  BY <1>2, <1>3

LEMMA RoundQBounds ==
  ASSUME IInv, Bounds, NEW fn, NEW correct, RoundQ(fn, correct)
  PROVE  Bounds'
<1>1. pc = "enter" /\ pc' = pc /\ Sizes
  BY DEF RoundQ, At, Then, Bounds
<1>2. PICK n \in Nat : n = Abs(Size(c.v))
  BY <1>1, Running
<1>3. PICK b : b = Fresh(n) /\ heap' = With(heap, CopyD, b)
  BY <1>2 DEF RoundQ
<1>4. PICK f : f = [alloc |-> n, size |-> 0, d |-> CopyD] /\ var' = [var EXCEPT ![Temp] = f]
  BY <1>2, Zenon DEF RoundQ
<1>5. f.d = CopyD /\ f.alloc = b.len /\ Abs(f.size) <= f.alloc
  BY <1>2, <1>3, <1>4 DEF Fresh, Abs
<1> QED
  BY <1>1, <1>3, <1>4, <1>5, TempSizes, CallsOthers, Zenon

LEMMA RoundRBounds ==
  ASSUME IInv, Bounds, NEW fn, NEW correct, RoundR(fn, correct)
  PROVE  Bounds'
<1>1. pc = "enter" /\ pc' = pc /\ Sizes
  BY DEF RoundR, At, Then, Bounds
<1>2. CASE c.v = c.w
  <2>1. PICK n \in Nat, m \in Int : n = Abs(m) /\ m = Size(c.v)
    BY <1>1, Running
  <2>2. PICK b : b = Filled(Fresh(n), n, Read(var[c.v].d, n)) /\ heap' = With(heap, CopyD, b)
    BY <1>2, <2>1 DEF RoundR
  <2>3. PICK f : f = [alloc |-> n, size |-> m, d |-> CopyD] /\ var' = [var EXCEPT ![Temp] = f]
    BY <1>2, <2>1, Zenon DEF RoundR
  <2>4. f.d = CopyD /\ f.alloc = b.len /\ Abs(f.size) <= f.alloc
    BY <2>1, <2>2, <2>3 DEF Filled, Fresh
  <2> QED
    BY <1>1, <2>2, <2>3, <2>4, TempSizes, CallsOthers, Zenon
<1>3. CASE c.v # c.w
  <2>1. UNCHANGED <<heap, var>>
    BY <1>3 DEF RoundR
  <2> QED
    BY <1>1, <2>1, Stays, CallsOthers
<1> QED
  BY <1>2, <1>3

-----------------------------------------------------------------------------
(* The first state, and the program's steps.                               *)

\* Every number is in a block that is long enough at first.
LEMMA InitBounds == Init => Bounds
<1> SUFFICES ASSUME Init PROVE Bounds
  OBVIOUS
<1>1. PICK value, large : /\ heap = Blocks0(value, Sizes0(value), Lengths0(Sizes0(value), large))
                          /\ var = Vars0(value, Sizes0(value), Lengths0(Sizes0(value), large))
  BY DEF Init
<1>2. PICK size, len : size = Sizes0(value) /\ len = Lengths0(size, large)
  OBVIOUS
<1>3. pc = "idle"
  BY DEF Init
<1>4. ASSUME NEW x \in Var PROVE InBlock(x) /\ var[x].alloc >= 1
  <2>1. PICK n : n = Abs(value[x])
    OBVIOUS
  <2>2. PICK s : s = size[x]
    OBVIOUS
  <2>3. s \in 0 .. MaxSize /\ MaxSize \in Nat /\ MaxAlloc \in Nat /\ MaxSize <= MaxAlloc /\ MaxAlloc >= 1
    <3>1. s = Normalized(MaxSize, n) /\ MaxSize \in Nat
      BY <1>2, <2>1, <2>2, HeapAssumption DEF Sizes0
    <3>2. Normalized(MaxSize, n) \in 0 .. MaxSize
      BY <3>1, NormalizedType
    <3> QED
      BY <3>1, <3>2, HeapAssumption
  <2>4. PICK l : l = len[x]
    OBVIOUS
  <2>5. l \in {MaxAlloc, MaxOf(s, 1)}
    BY <1>2, <2>2, <2>4 DEF Lengths0
  <2>6. l \in Nat /\ l >= 1 /\ s <= l
    BY <2>3, <2>5 DEF MaxOf
  <2>7. PICK m : m = Signed(value[x] < 0, s)
    OBVIOUS
  <2>8. Abs(m) = s
    BY <2>3, <2>7 DEF Signed, Abs
  <2>9. var[x].alloc = l /\ var[x].size = m /\ var[x].d = Place[x]
    BY <1>1, <1>2, <2>2, <2>4, <2>7, NamesDiffer DEF Vars0
  <2>10. heap[Place[x]].len = l
    <3>1. PICK p : p = Place[x]
      OBVIOUS
    <3>2. PICK y : y = CHOOSE z \in Var : Place[z] = p
      OBVIOUS
    <3>3. y \in Var /\ Place[y] = p
      BY <3>1, <3>2
    <3>4. y = x
      BY <3>1, <3>3, PlaceIsOneToOne
    <3>5. p \in {Place[z] : z \in Var}
      BY <3>1
    <3>6. heap[p].len = len[y]
      BY <1>1, <1>2, <3>2, <3>5 DEF Blocks0
    <3> QED
      BY <2>4, <3>1, <3>4, <3>6
  <2> QED
    BY <2>6, <2>8, <2>9, <2>10 DEF InBlock
<1>5. var[Temp].d # CopyD
  <2>1. var[Temp] = NoVar
    BY <1>1, <1>2 DEF Vars0
  <2> QED
    BY <2>1, NamesDiffer DEF NoVar, Copy
<1> QED
  BY <1>3, <1>4, <1>5 DEF Bounds, Sizes, Dividing, Copied2, Computing, PointersLive

\* temp_divisor goes, and the variables' blocks stay.
LEMMA ReturnBounds ==
  ASSUME IInv, Bounds, Return
  PROVE  Bounds'
<1>1. /\ pc' = "idle" /\ heap' = Without(heap, {CopyD}) /\ var' = [var EXCEPT ![Temp] = NoVar] /\ Sizes
  BY DEF Return, Bounds
<1>2. var'[Temp] = NoVar /\ \A x \in Var : var'[x] = var[x]
  BY <1>1, NamesDiffer DEF IInv, Typing
<1>3. ASSUME NEW x \in Var PROVE InBlock(x)' /\ var'[x].alloc >= 1
  <2>1. /\ var[x].d \in DOMAIN heap /\ var[x].d # CopyD /\ heap[var[x].d].len = var[x].alloc
        /\ var[x].alloc >= 1 /\ Abs(var[x].size) <= var[x].alloc
    BY <1>1, SizesSay
  <2>2. heap'[var[x].d] = heap[var[x].d]
    BY <1>1, <2>1 DEF Without
  <2> QED
    BY <1>2, <2>1, <2>2 DEF InBlock
<1>4. var'[Temp].d # CopyD
  BY <1>2, NamesDiffer DEF NoVar, Copy
<1>5. Sizes'
  BY <1>3, <1>4 DEF Sizes
<1> QED
  BY <1>1, <1>5, AtRest

\* Nothing is out of bounds that was not before.
LEMMA StutterBounds == ASSUME Bounds, UNCHANGED vars PROVE Bounds'
<1>1. heap' = heap /\ var' = var /\ pc' = pc /\ todo' = todo /\ loc' = loc
  BY DEF vars
<1>2. c' = c
  BY <1>1 DEF c
<1>3. Sizes'
  BY <1>1 DEF Bounds, Sizes, InBlock
<1>4. Dividing' /\ Copied2' /\ Computing'
  BY <1>1, <1>2 DEF Bounds, Dividing, Copied2, Computing, Size, QuotSize, First, Second, Most, Na, Nb, LimbCnt
<1>5. PointersLive'
  <2>1. Needed' = Needed
    BY <1>1, <1>2 DEF Needed, Size, Room, Most, Na, Nb, Signs, QuotSize, LimbCnt
  <2> QED
    BY <1>1, <1>2, <2>1 DEF Bounds, PointersLive
<1> QED
  BY <1>3, <1>4, <1>5 DEF Bounds

-----------------------------------------------------------------------------
(* All steps keep the bounds.                                              *)

\* Every step of MpzHeap keeps the bounds.
LEMMA HeapStepsBounds == ASSUME IInv, Bounds, HeapStep PROVE Bounds'
<1>1. CASE TdivCopy
  <2>1. PICK fns : fns = {"tdiv_qr"}
    BY Zenon
  <2> QED
    BY <1>1, <2>1, CopyOperandsBounds DEF TdivCopy
<1>2. CASE Invoke \/ Return \/ DivAdjust \/ DivTruncate \/ TdivByZero \/ DivDone
  BY <1>2, CallsBounds, ReturnBounds, DivTruncateBounds, RaisedBounds, NothingDoneBounds
<1>3. CASE \/ AorsGrow \/ AorsAdd \/ AorsSub \/ UiGrow \/ UiCompute
           \/ MulZero \/ MulGrow \/ MulFresh \/ MulCopy \/ MulCompute
  BY <1>3, AorsGrowBounds, AorsAddBounds, AorsSubBounds, UiGrowBounds, UiComputeBounds, MulZeroBounds,
     MulGrowBounds, MulFreshBounds, MulCopyBounds, MulComputeBounds
<1>4. CASE \/ TdivGrowRem \/ TdivSmall \/ TdivGrowQuot \/ TdivCompute
           \/ NegInPlace \/ SetGrow \/ SetCopy \/ Swap \/ SetUi \/ Realloc
  BY <1>4, TdivGrowRemBounds, TdivSmallBounds, TdivGrowQuotBounds, TdivComputeBounds, NegInPlaceBounds,
     SetGrowBounds, SetCopyBounds, SwapBounds, SetUiBounds, ReallocBounds
<1> QED
  BY <1>1, <1>2, <1>3, <1>4 DEF HeapStep

\* Every step of MpzDivide.
LEMMA DivideStepsBounds == ASSUME IInv, Bounds, DivideStep PROVE Bounds'
<1>1. CASE TdivQCopy \/ TdivRCopy
  <2>1. \E fns : fns \subseteq {"tdiv_qr", "tdiv_q", "tdiv_r"} /\ CopyOperands(fns)
    <3>1. CASE TdivQCopy
      <4>1. PICK fns : fns = {"tdiv_q"}
        BY Zenon
      <4> QED
        BY <3>1, <4>1 DEF TdivQCopy
    <3>2. CASE TdivRCopy
      <4>1. PICK fns : fns = {"tdiv_r"}
        BY Zenon
      <4> QED
        BY <3>2, <4>1 DEF TdivRCopy
    <3> QED
      BY <1>1, <3>1, <3>2
  <2> QED
    BY <2>1, CopyOperandsBounds, Zenon
<1>2. CASE DivideByZero \/ TdivQSmall \/ TdivQGrow \/ TdivQCompute \/ TdivRGrow \/ TdivRSmall \/ TdivRCompute
  BY <1>2, RaisedBounds, TdivQSmallBounds, TdivQGrowBounds, TdivQComputeBounds, TdivRGrowBounds,
     TdivRSmallBounds, TdivRComputeBounds
<1>3. CASE FdivQ \/ CdivQ \/ CorrectQ \/ FdivR \/ CdivR \/ Mod \/ CorrectR \/ UiOfZero \/ UiDivGrow
  <2>1. CASE FdivQ \/ CdivQ
    <3>1. \E fn, correct : RoundQ(fn, correct)
      BY <2>1 DEF FdivQ, CdivQ
    <3> QED
      BY <3>1, RoundQBounds
  <2>2. CASE FdivR \/ CdivR \/ Mod
    <3>1. \E fn, correct : RoundR(fn, correct)
      BY <2>2 DEF FdivR, CdivR, Mod
    <3> QED
      BY <3>1, RoundRBounds
  <2> QED
    BY <1>3, <2>1, <2>2, CallsBounds, UiOfZeroBounds, UiDivGrowBounds
<1>4. CASE \/ TdivQUi \/ TdivRUi \/ TdivQrUi \/ TdivUi
           \/ FdivQUi \/ FdivRUi \/ FdivQrUi \/ FdivUi
           \/ CdivQUi \/ CdivRUi \/ CdivQrUi \/ CdivUi
  <2>1. PICK s \in {-1, 1} : s = SignOf(loc.us)
    BY DEF SignOf
  <2>2. /\ \A fn \in {"tdiv_q_ui", "tdiv_r_ui", "tdiv_qr_ui", "tdiv_ui"} : fn \in Calculator!DivUiFns
        /\ \A fn \in {"fdiv_q_ui", "fdiv_r_ui", "fdiv_qr_ui", "fdiv_ui"} : fn \in Calculator!DivUiFns
        /\ \A fn \in {"cdiv_q_ui", "cdiv_r_ui", "cdiv_qr_ui", "cdiv_ui"} : fn \in Calculator!DivUiFns
    BY DEF Calculator!DivUiFns, Calculator!QuotUiFns, Calculator!RemUiFns,
           Calculator!QuotRemUiFns, Calculator!OnlyUiFns
  <2>3. CASE TdivQUi \/ TdivRUi \/ TdivQrUi \/ TdivUi
    <3>1. \E fn \in {"tdiv_q_ui", "tdiv_r_ui", "tdiv_qr_ui", "tdiv_ui"} : UiDiv(fn, FALSE, s)
      BY <2>1, <2>3, Zenon DEF TdivQUi, TdivRUi, TdivQrUi, TdivUi
    <3> QED
      BY <2>2, <3>1, UiDivBounds, Zenon
  <2>4. CASE FdivQUi \/ FdivRUi \/ FdivQrUi \/ FdivUi
    <3>1. PICK away : away = (loc.us < 0)
      OBVIOUS
    <3>2. \E fn \in {"fdiv_q_ui", "fdiv_r_ui", "fdiv_qr_ui", "fdiv_ui"} : UiDiv(fn, away, 1)
      BY <2>4, <3>1 DEF FdivQUi, FdivRUi, FdivQrUi, FdivUi
    <3>3. PICK fn \in Calculator!DivUiFns : UiDiv(fn, away, 1)
      BY <2>2, <3>2
    <3> QED
      BY <3>3, UiDivBounds
  <2>5. CASE CdivQUi \/ CdivRUi \/ CdivQrUi \/ CdivUi
    <3>1. PICK away : away = (loc.us >= 0)
      OBVIOUS
    <3>2. \E fn \in {"cdiv_q_ui", "cdiv_r_ui", "cdiv_qr_ui", "cdiv_ui"} : UiDiv(fn, away, -1)
      BY <2>5, <3>1 DEF CdivQUi, CdivRUi, CdivQrUi, CdivUi
    <3>3. PICK fn \in Calculator!DivUiFns : UiDiv(fn, away, -1)
      BY <2>2, <3>2
    <3> QED
      BY <3>3, UiDivBounds
  <2> QED
    BY <1>4, <2>3, <2>4, <2>5
<1> QED
  BY <1>1, <1>2, <1>3, <1>4 DEF DivideStep

\* Every step of MpzShift.
LEMMA ShiftStepsBounds == ASSUME IInv, Bounds, ShiftStep PROVE Bounds'
BY ResultsZeroBounds, NothingDoneBounds, Mul2expGrowBounds, Mul2expBounds, TdivQ2expGrowBounds,
   TdivQ2expBounds, TdivR2expGrowBounds, TdivR2expBounds, CfdivQ2expSmallBounds, CfdivQ2expGrowBounds,
   CfdivQ2expBounds, CfdivR2expGrowBounds, CfdivR2expBounds, Realloc2Bounds
   DEF ShiftStep

\* Every step of MpzBitwise, as long as mpz_ior's carry is as it should be.
LEMMA BitStepsBounds == ASSUME IInv, Bounds, IorFits, BitStep PROVE Bounds'
BY BitCopyBounds, BitGrowBounds, BitComputeBounds, ComGrowBounds, ComBounds, SetBitPositiveBounds,
   SetBitNegativeBounds, ClrBitPositiveBounds, ClrBitNegativeBounds, ComBitBounds
   DEF BitStep

\* Every step of MpzMulAdd.
LEMMA MulAddStepsBounds == ASSUME IInv, Bounds, MulAddStep PROVE Bounds'
BY NothingDoneBounds, CallsBounds, AorsmulGrowBounds, AorsmulBounds, Aorsmul1GrowBounds, Aorsmul1Bounds,
   MulUiZeroBounds, MulUiGrowBounds, MulUiBounds, UiSubGrowBounds, UiSubBounds, AbsGrowBounds,
   AbsCopyBounds, SetSiBounds
   DEF MulAddStep

-----------------------------------------------------------------------------
(* Numbers: induction and recursion, powers of two, quotients.             *)

\* Induction, for a set of natural numbers.
LEMMA SetInduction ==
  ASSUME NEW P, 0 \in P, \A k \in Nat : k \in P => k + 1 \in P
  PROVE  Nat \subseteq P
<1> DEFINE T == Nat \ P
<1> SUFFICES ASSUME T # {} PROVE FALSE
  OBVIOUS
<1>1. T \subseteq Nat
  OBVIOUS
<1> HIDE DEF T
<1>2. PICK x \in T : \A y \in T : x <= y
  BY <1>1, LeastElement, Zenon
<1> USE DEF T
<1>3. x # 0 /\ x - 1 \in Nat /\ x - 1 \notin T
  BY <1>2
<1> QED
  BY <1>2, <1>3

\* A function that starts from base and goes on by step, up to n.
Follows(f, n, base, step) ==
  /\ DOMAIN f = 0 .. n /\ f[0] = base
  /\ \A k \in 0 .. n - 1 : f[k + 1] = step[f[k]]

\* One that never ends.
Endless(f, V, base, step) ==
  f \in [Nat -> V] /\ f[0] = base /\ \A k \in Nat : f[k + 1] = step[f[k]]

\* There is one.
LEMMA Recursion ==
  ASSUME NEW V, NEW base \in V, NEW step \in [V -> V]
  PROVE  \E f : Endless(f, V, base, step)
<1> DEFINE Chain(f, n) == f \in [0 .. n -> V] /\ Follows(f, n, base, step)
           P == {n \in Nat : \E f : Chain(f, n)}
           Q == {k \in Nat : \A m, n \in Nat : \A f, g :
                   Chain(f, m) /\ Chain(g, n) /\ k <= m /\ k <= n => f[k] = g[k]}
<1>1. Nat \subseteq P
  <2>1. 0 \in P
    <3>1. Chain([k \in 0 .. 0 |-> base], 0)
      BY DEF Follows
    <3>2. 0 \in Nat
      OBVIOUS
    <3> HIDE DEF Chain
    <3> QED
      BY <3>1, <3>2, Zenon
  <2>2. ASSUME NEW n \in Nat, n \in P PROVE n + 1 \in P
    <3>1. PICK f : Chain(f, n)
      BY <2>2
    <3> DEFINE g == [k \in 0 .. n + 1 |-> IF k <= n THEN f[k] ELSE step[f[n]]]
    <3>2. Chain(g, n + 1)
      <4>1. g \in [0 .. n + 1 -> V] /\ g[0] = base
        BY <3>1 DEF Follows
      <4>2. ASSUME NEW k \in 0 .. n PROVE g[k + 1] = step[g[k]]
        BY <3>1 DEF Follows
      <4> QED
        BY <4>1, <4>2 DEF Follows
    <3>3. n + 1 \in Nat
      OBVIOUS
    <3> HIDE DEF Chain, g
    <3> QED
      BY <3>2, <3>3, Zenon
  <2> HIDE DEF P
  <2> QED
    BY <2>1, <2>2, SetInduction, Zenon
<1>2. Nat \subseteq Q
  <2>1. 0 \in Q
    BY DEF Follows
  <2>2. ASSUME NEW k \in Nat, k \in Q PROVE k + 1 \in Q
    <3> SUFFICES ASSUME NEW m \in Nat, NEW n \in Nat, NEW f, NEW g,
                        Chain(f, m), Chain(g, n), k + 1 <= m, k + 1 <= n
                 PROVE  f[k + 1] = g[k + 1]
      OBVIOUS
    <3>1. f[k] = g[k]
      BY <2>2
    <3>2. k \in 0 .. m - 1 /\ k \in 0 .. n - 1
      OBVIOUS
    <3> QED
      BY <3>1, <3>2 DEF Follows
  <2> HIDE DEF Q
  <2> QED
    BY <2>1, <2>2, SetInduction, Zenon
<1> DEFINE h == [n \in Nat |-> CHOOSE f : Chain(f, n)]
           r == [n \in Nat |-> h[n][n]]
<1>3. ASSUME NEW n \in Nat PROVE Chain(h[n], n)
  <2>1. \E f : Chain(f, n)
    BY <1>1
  <2>2. h[n] = CHOOSE f : Chain(f, n)
    OBVIOUS
  <2> HIDE DEF Chain, h
  <2> QED
    BY <2>1, <2>2, Zenon
<1> HIDE DEF h
<1>4. r \in [Nat -> V]
  BY <1>3
<1>5. r[0] = base
  BY <1>3 DEF Follows
<1>6. ASSUME NEW k \in Nat PROVE r[k + 1] = step[r[k]]
  <2>1. Chain(h[k], k) /\ Chain(h[k + 1], k + 1)
    BY <1>3
  <2>2. h[k + 1][k] = h[k][k]
    <3>1. k \in Q /\ k + 1 \in Nat /\ k <= k /\ k <= k + 1
      BY <1>2
    <3> QED
      BY <2>1, <3>1
  <2>3. h[k + 1][k + 1] = step[h[k + 1][k]]
    BY <2>1 DEF Follows
  <2> QED
    BY <2>2, <2>3
<1> HIDE DEF r
<1> QED
  BY <1>4, <1>5, <1>6 DEF Endless

\* Two[n] is the product of n twos.
LEMMA TwoFacts ==
  /\ Two \in [Nat -> Nat] /\ Two[0] = 1
  /\ \A k \in Nat : Two[k + 1] = 2 * Two[k]
  /\ \A k \in Nat : Two[k] >= 1
<1> DEFINE Is(f) == f = [n \in Nat |-> IF n = 0 THEN 1 ELSE 2 * f[n - 1]]
           V == Nat
           base == 1
           step == [x \in V |-> 2 * x]
<1>1. base \in V /\ step \in [V -> V] /\ \A x \in Nat : step[x] = 2 * x
  OBVIOUS
<1> HIDE DEF step, V, base
<1>2. PICK f : Endless(f, V, base, step)
  BY <1>1, Recursion, Zenon
<1>3. Is(f)
  <2>1. ASSUME NEW n \in Nat, n # 0 PROVE f[n] = 2 * f[n - 1]
    <3>1. n - 1 \in Nat /\ (n - 1) + 1 = n
      BY <2>1
    <3> QED
      BY <1>1, <1>2, <3>1 DEF Endless, V
  <2> QED
    BY <1>2, <2>1 DEF Endless, V, base
<1>4. Is(Two)
  <2>1. Two = CHOOSE g : Is(g)
    BY DEF Two
  <2> HIDE DEF Is
  <2> QED
    BY <1>3, <2>1, Zenon
<1> DEFINE F(g) == [n \in Nat |-> IF n = 0 THEN 1 ELSE 2 * g[n - 1]]
<1>5. Two = F(Two)
  BY <1>4, Zenon
<1>6. \A g : DOMAIN F(g) = Nat /\ F(g)[0] = 1 /\ \A k \in Nat : F(g)[k + 1] = 2 * g[k]
  OBVIOUS
<1> HIDE DEF F, Is
<1>7. DOMAIN Two = Nat /\ Two[0] = 1 /\ \A k \in Nat : Two[k + 1] = 2 * Two[k]
  BY <1>5, <1>6, Zenon
<1> DEFINE P == {k \in Nat : Two[k] \in Nat /\ Two[k] >= 1}
<1>8. Nat \subseteq P
  <2>1. 0 \in P /\ \A k \in Nat : k \in P => k + 1 \in P
    BY <1>7
  <2> HIDE DEF P
  <2> QED
    BY <2>1, SetInduction, Zenon
<1>9. Two = [k \in Nat |-> Two[k]]
  BY <1>5 DEF F
<1> QED
  BY <1>7, <1>8, <1>9

\* A power of a sum.
LEMMA TwoSum ==
  ASSUME NEW m \in Nat, NEW n \in Nat
  PROVE  Two[m + n] = Two[m] * Two[n]
<1> DEFINE P == {k \in Nat : Two[m + k] = Two[m] * Two[k]}
<1>1. 0 \in P
  BY TwoFacts
<1>2. ASSUME NEW k \in Nat, k \in P PROVE k + 1 \in P
  <2>1. Two[(m + k) + 1] = 2 * Two[m + k] /\ Two[k + 1] = 2 * Two[k] /\ m + (k + 1) = (m + k) + 1
    BY TwoFacts
  <2>2. PICK a \in Nat, b \in Nat : a = Two[m] /\ b = Two[k]
    BY TwoFacts, Zenon
  <2>3. 2 * (a * b) = a * (2 * b)
    OBVIOUS
  <2> QED
    BY <1>2, <2>1, <2>2, <2>3
<1> HIDE DEF P
<1>3. n \in P
  BY <1>1, <1>2, SetInduction
<1> QED
  BY <1>3 DEF P

\* A product of natural numbers, one of them at least one.
LEMMA ProductGrows ==
  ASSUME NEW a \in Nat, NEW b \in Nat, b >= 1
  PROVE  a * b \in Nat /\ a * b >= a
<1>1. a * b = a * (b - 1) + a /\ b - 1 \in Nat
  OBVIOUS
<1>2. a * (b - 1) >= 0 /\ a * (b - 1) \in Int
  BY <1>1
<1> QED
  BY <1>1, <1>2

\* Powers of two grow with their exponents.
LEMMA TwoMonotone ==
  ASSUME NEW m \in Nat, NEW n \in Nat, m <= n
  PROVE  Two[m] <= Two[n]
<1>1. n - m \in Nat /\ m + (n - m) = n
  OBVIOUS
<1>2. Two[n] = Two[m] * Two[n - m]
  BY <1>1, TwoSum
<1>3. Two[m] \in Nat /\ Two[n - m] \in Nat /\ Two[n - m] >= 1
  BY <1>1, TwoFacts
<1> QED
  BY <1>2, <1>3, ProductGrows

\* A row of limbs.
LEMMA BaseFacts ==
  /\ B \in Nat /\ B >= 2 /\ LimbBits \in Nat /\ LimbBits >= 1 /\ B = Two[LimbBits]
  /\ Base(0) = 1 /\ Base(1) = B
  /\ \A n \in Nat : Base(n) \in Nat /\ Base(n) >= 1 /\ Base(n + 1) = B * Base(n)
  /\ \A m, n \in Nat : Base(m + n) = Base(m) * Base(n)
  /\ \A m, n \in Nat : m <= n => Base(m) <= Base(n)
<1>1. LimbBits \in Nat /\ LimbBits >= 1 /\ B = Base(1)
  BY HeapAssumption
<1>2. Base(1) = Two[LimbBits] /\ Base(0) = Two[0]
  <2>1. LimbBits * 1 = LimbBits /\ LimbBits * 0 = 0
    BY <1>1
  <2> QED
    BY <2>1 DEF Base
<1>3. \A n \in Nat : LimbBits * n \in Nat
  BY <1>1
<1>4. \A n \in Nat : Base(n) \in Nat /\ Base(n) >= 1
  BY <1>3, TwoFacts DEF Base
<1>5. ASSUME NEW m \in Nat, NEW n \in Nat PROVE Base(m + n) = Base(m) * Base(n)
  <2>1. LimbBits * (m + n) = LimbBits * m + LimbBits * n
    BY <1>1
  <2> QED
    BY <1>3, <2>1, TwoSum, Zenon DEF Base
<1>6. ASSUME NEW n \in Nat PROVE Base(n + 1) = B * Base(n)
  <2>1. Base(n + 1) = Base(n) * B /\ Base(n) \in Nat /\ B \in Nat
    BY <1>1, <1>4, <1>5, Zenon
  <2> QED
    BY <2>1
<1>7. ASSUME NEW m \in Nat, NEW n \in Nat, m <= n PROVE Base(m) <= Base(n)
  <2>1. n - m \in Nat /\ m + (n - m) = n
    BY <1>7
  <2>2. Base(n) = Base(m) * Base(n - m)
    BY <1>5, <2>1
  <2> QED
    BY <1>4, <2>1, <2>2, ProductGrows
<1>8. B >= 2
  <2>1. Two[1] <= Two[LimbBits]
    BY <1>1, TwoMonotone
  <2>2. Two[1] = 2
    BY TwoFacts
  <2> QED
    BY <1>1, <1>2, <2>1, <2>2
<1> QED
  BY <1>1, <1>2, <1>4, <1>5, <1>6, <1>7, <1>8, TwoFacts, Zenon

\* A quotient and a remainder are the only ones.
LEMMA DivisionUnique ==
  ASSUME NEW x \in Int, NEW d \in Nat, d >= 1, NEW q \in Int, NEW r \in 0 .. d - 1, x = d * q + r
  PROVE  x \div d = q /\ x % d = r
<1>1. PICK p \in Int, s \in 0 .. d - 1 : p = x \div d /\ s = x % d /\ x = d * p + s
  OBVIOUS
<1>2. d * (q - p) = s - r
  BY <1>1
<1>3. q - p = 0
  <2>1. CASE q - p >= 1
    <3>1. d * (q - p) >= d
      <4>1. d * (q - p) = d * (q - p - 1) + d /\ q - p - 1 \in Nat
        BY <1>1, <2>1
      <4>2. d * (q - p - 1) >= 0 /\ d * (q - p - 1) \in Int
        BY <4>1
      <4> QED
        BY <4>1, <4>2
    <3> QED
      BY <1>1, <1>2, <3>1
  <2>2. CASE q - p <= -1
    <3>1. d * (p - q) >= d
      <4>1. d * (p - q) = d * (p - q - 1) + d /\ p - q - 1 \in Nat
        BY <1>1, <2>2
      <4>2. d * (p - q - 1) >= 0 /\ d * (p - q - 1) \in Int
        BY <4>1
      <4> QED
        BY <4>1, <4>2
    <3>2. d * (p - q) = r - s
      BY <1>1, <1>2
    <3> QED
      BY <1>1, <3>1, <3>2
  <2> QED
    BY <1>1, <2>1, <2>2
<1> QED
  BY <1>1, <1>2, <1>3

\* There is one.
LEMMA Division ==
  ASSUME NEW x \in Int, NEW d \in Nat, d >= 1
  PROVE  /\ x \div d \in Int /\ x % d \in Nat /\ x % d < d /\ x = d * (x \div d) + (x % d)
         /\ x >= 0 => x \div d \in Nat /\ x \div d <= x /\ x % d <= x
         /\ (x >= 0 /\ x < d) => x \div d = 0 /\ x % d = x
<1>1. x \div d \in Int /\ x % d \in Nat /\ x % d < d /\ x = d * (x \div d) + (x % d)
  <2>1. PICK p \in Int, s \in 0 .. d - 1 : p = x \div d /\ s = x % d /\ x = d * p + s
    OBVIOUS
  <2> QED
    BY <2>1
<1>2. ASSUME x >= 0 PROVE x \div d \in Nat /\ x \div d <= x /\ x % d <= x
  <2>1. PICK q \in Int, r \in Nat : q = x \div d /\ r = x % d /\ r < d /\ x = d * q + r
    BY <1>1
  <2>2. q >= 0
    <3> SUFFICES ASSUME q <= -1 PROVE FALSE
      BY <2>1
    <3>1. d * q = d * (q + 1) - d
      BY <2>1
    <3>2. d * (q + 1) <= 0 /\ d * (q + 1) \in Int
      <4>1. d * (-(q + 1)) >= 0
        BY <2>1
      <4> QED
        BY <2>1, <4>1
    <3> QED
      BY <1>2, <2>1, <3>1, <3>2
  <2>3. q * d \in Nat /\ q * d >= q /\ q * d = d * q
    BY <2>1, <2>2, ProductGrows
  <2> QED
    BY <2>1, <2>2, <2>3
<1>3. ASSUME x >= 0, x < d PROVE x \div d = 0 /\ x % d = x
  <2>1. x = d * 0 + x /\ x \in 0 .. d - 1
    BY <1>3
  <2> QED
    BY <2>1, DivisionUnique
<1> QED
  BY <1>1, <1>2, <1>3

\* The remainder of a remainder, and the quotient of a quotient.
LEMMA ModOfMod ==
  ASSUME NEW x \in Int, NEW a \in Nat, NEW b \in Nat, a >= 1, b >= 1
  PROVE  /\ (x % (a * b)) % a = x % a
         /\ x \div (a * b) = (x \div a) \div b
         /\ x % (a * b) = a * ((x \div a) % b) + (x % a)
<1>1. a * b \in Nat /\ a * b >= 1
  BY ProductGrows
<1>2. PICK q \in Int, r \in 0 .. a - 1 : q = x \div a /\ r = x % a /\ x = a * q + r
  BY Division
<1>3. PICK p \in Int, s \in 0 .. b - 1 : p = q \div b /\ s = q % b /\ q = b * p + s
  BY Division
<1>4. a * s + r \in 0 .. a * b - 1
  <2>1. a * s <= a * (b - 1)
    <3>1. b - 1 - s \in Nat
      BY <1>3
    <3>2. a * (b - 1 - s) >= 0
      BY <3>1
    <3>3. a * (b - 1) = a * (b - 1 - s) + a * s
      BY <1>3
    <3> QED
      BY <1>3, <3>2, <3>3
  <2>2. a * (b - 1) = a * b - a /\ a * s >= 0 /\ a * s \in Int
    BY <1>3
  <2> QED
    BY <1>1, <1>2, <2>1, <2>2
<1>5. x = (a * b) * p + (a * s + r)
  <2>1. PICK t \in Int : t = b * p
    BY <1>3
  <2>2. x = a * (t + s) + r
    BY <1>2, <1>3, <2>1, Zenon
  <2>3. a * (t + s) = a * t + a * s
    BY <1>3
  <2>4. a * t = (a * b) * p
    BY <2>1, <1>3
  <2>5. a * t \in Int /\ a * s \in Int /\ r \in Int
    BY <1>3, <1>2
  <2> QED
    BY <2>2, <2>3, <2>4, <2>5
<1>6. x \div (a * b) = p /\ x % (a * b) = a * s + r
  BY <1>1, <1>4, <1>5, DivisionUnique
<1>7. (a * s + r) % a = r
  <2>1. a * s + r \in Int /\ s \in Int
    BY <1>2, <1>3
  <2> QED
    BY <1>2, <2>1, DivisionUnique, Zenon
<1>8. (x % (a * b)) % a = x % a
  BY <1>2, <1>6, <1>7
<1>9. x \div (a * b) = (x \div a) \div b
  BY <1>2, <1>3, <1>6
<1>10. x % (a * b) = a * ((x \div a) % b) + (x % a)
  <2>1. (x \div a) % b = s
    BY <1>2, <1>3
  <2> QED
    BY <1>2, <1>6, <2>1
<1> QED
  BY <1>8, <1>9, <1>10

-----------------------------------------------------------------------------
(* Limbs.                                                                   *)

\* A number is not junk.
LEMMA NotJunk == \A x \in Int : x # Junk
BY HeapAssumption

\* MPN_NORMALIZE leaves as many limbs as there are.
LEMMA NormalizedExactly ==
  ASSUME NEW n \in Nat, NEW x \in Nat, x < Base(n)
  PROVE  Normalized(n, x) \in 0 .. n /\ Exactly(Normalized(n, x), x)
<1> DEFINE Fits(k) == k = n \/ x < Base(k)
           T == {k \in 0 .. n : Fits(k)}
           Right(k) == (k = n \/ x < Base(k)) /\ (k = 0 \/ ~ (x < Base(k - 1)))
<1>1. n \in T /\ T \subseteq Nat
  OBVIOUS
<1> HIDE DEF T
<1>2. PICK k \in T : \A j \in T : k <= j
  BY <1>1, LeastElement, Zenon
<1>3. k \in 0 .. n /\ Fits(k)
  BY DEF T
<1>4. k = 0 \/ ~ (x < Base(k - 1))
  <2> SUFFICES ASSUME k # 0, x < Base(k - 1) PROVE FALSE
    OBVIOUS
  <2>1. k - 1 \in 0 .. n
    BY <1>3
  <2>2. k - 1 \in T
    BY <2>1 DEF T
  <2> QED
    BY <1>2, <1>3, <2>2
<1>5. \E j \in 0 .. n : Right(j)
  BY <1>3, <1>4
<1>6. Normalized(n, x) = CHOOSE j \in 0 .. n : Right(j)
  BY NotJunk DEF Normalized
<1> HIDE DEF Right
<1>7. Normalized(n, x) \in 0 .. n /\ Right(Normalized(n, x))
  BY <1>5, <1>6
<1>8. PICK j \in 0 .. n : j = Normalized(n, x) /\ Right(j)
  BY <1>7
<1>9. x < Base(j)
  BY <1>8 DEF Right
<1>10. j = 0 \/ x >= Base(j - 1)
  <2>1. CASE j # 0
    <3>1. PICK i \in Nat : i = j - 1
      BY <2>1
    <3>2. Base(i) \in Nat
      BY BaseFacts, Zenon
    <3>3. ~ (x < Base(i))
      BY <1>8, <2>1, <3>1 DEF Right
    <3> QED
      BY <3>1, <3>2, <3>3
  <2> QED
    BY <2>1
<1> QED
  BY <1>8, <1>9, <1>10 DEF Exactly

\* So does taking off the top limb, where no other can be zero.
LEMMA LessTopExactly ==
  ASSUME NEW n \in Nat, n >= 1, NEW x \in Nat, x < Base(n), n >= 2 => x >= Base(n - 2)
  PROVE  LessTop(n, x) \in 0 .. n /\ Exactly(LessTop(n, x), x)
<1>1. n - 1 \in Nat /\ Base(n - 1) \in Nat
  <2>1. PICK i \in Nat : i = n - 1
    OBVIOUS
  <2>2. Base(i) \in Nat
    BY BaseFacts, Zenon
  <2> QED
    BY <2>1, <2>2
<1>2. CASE x < Base(n - 1)
  <2>1. LessTop(n, x) = n - 1
    BY <1>2, NotJunk DEF LessTop
  <2>2. n >= 2 => (n - 1) - 1 = n - 2
    OBVIOUS
  <2> QED
    BY <1>1, <1>2, <2>1, <2>2 DEF Exactly
<1>3. CASE ~ (x < Base(n - 1))
  <2>1. LessTop(n, x) = n
    BY <1>3, NotJunk DEF LessTop
  <2> QED
    BY <1>1, <1>3, <2>1 DEF Exactly
<1> QED
  BY <1>2, <1>3

\* Less than Base(n) is n limbs at most.
LEMMA ExactlyAtMost ==
  ASSUME NEW m \in Nat, NEW n \in Nat, NEW x \in Nat, Exactly(m, x), x < Base(n)
  PROVE  m <= n
<1> SUFFICES ASSUME m >= n + 1 PROVE FALSE
  OBVIOUS
<1>1. m - 1 \in Nat /\ n <= m - 1
  OBVIOUS
<1>2. x >= Base(m - 1) /\ Base(m - 1) \in Nat /\ Base(n) \in Nat /\ Base(n) <= Base(m - 1)
  BY <1>1, BaseFacts DEF Exactly
<1> QED
  BY <1>2

\* A number of no limbs is zero, and others are not.
LEMMA ExactlyZero ==
  ASSUME NEW n \in Nat, NEW x \in Nat, Exactly(n, x)
  PROVE  /\ (n = 0 <=> x = 0) /\ x < Base(n) /\ Base(n) \in Nat /\ Base(n) >= 1
         /\ n >= 1 => x >= Base(n - 1) /\ Base(n - 1) \in Nat /\ Base(n - 1) >= 1 /\ Base(n) = B * Base(n - 1)
<1>1. x < Base(n) /\ Base(n) \in Nat /\ Base(n) >= 1 /\ Base(0) = 1
  BY BaseFacts DEF Exactly
<1>2. ASSUME n >= 1 PROVE x >= Base(n - 1) /\ Base(n - 1) \in Nat /\ Base(n - 1) >= 1 /\ Base(n) = B * Base(n - 1)
  <2>1. n - 1 \in Nat /\ (n - 1) + 1 = n
    BY <1>2
  <2>2. x >= Base(n - 1)
    BY <1>2 DEF Exactly
  <2>3. Base(n - 1) \in Nat /\ Base(n - 1) >= 1 /\ Base((n - 1) + 1) = B * Base(n - 1)
    BY <2>1, BaseFacts, Zenon
  <2> QED
    BY <2>1, <2>2, <2>3
<1>3. CASE n = 0
  BY <1>1, <1>3
<1>4. CASE n >= 1
  BY <1>1, <1>2, <1>4
<1> QED
  BY <1>1, <1>2, <1>3, <1>4

\* The low limbs of a number.
LEMMA LowLimbs ==
  ASSUME NEW x \in Nat, NEW n \in Nat
  PROVE  /\ x % Base(n) \in Nat /\ x % Base(n) < Base(n) /\ x % Base(n) <= x
         /\ x \div Base(n) \in Nat /\ x = Base(n) * (x \div Base(n)) + (x % Base(n))
         /\ x < Base(n) => x % Base(n) = x
         /\ \A m \in 0 .. n : (x % Base(n)) % Base(m) = x % Base(m)
<1>1. Base(n) \in Nat /\ Base(n) >= 1
  BY BaseFacts, Zenon
<1>2. ASSUME NEW m \in 0 .. n PROVE (x % Base(n)) % Base(m) = x % Base(m)
  <2>1. m \in Nat /\ n - m \in Nat /\ m + (n - m) = n
    OBVIOUS
  <2>2. Base(n) = Base(m) * Base(n - m) /\ Base(m) \in Nat /\ Base(m) >= 1 /\ Base(n - m) \in Nat /\ Base(n - m) >= 1
    BY <2>1, BaseFacts, Zenon
  <2>3. PICK a \in Nat, b \in Nat : a = Base(m) /\ b = Base(n - m)
    BY <2>2
  <2>4. PICK d : d = a * b
    OBVIOUS
  <2>5. (x % d) % a = x % a
    <3>1. a \in Nat /\ b \in Nat /\ a >= 1 /\ b >= 1 /\ x \in Int
      BY <2>2, <2>3
    <3>2. (x % (a * b)) % a = x % a
      BY <3>1, ModOfMod, Zenon
    <3> QED
      BY <2>4, <3>2, Zenon
  <2>6. Base(n) = d /\ Base(m) = a
    BY <2>2, <2>3, <2>4
  <2> QED
    BY <2>5, <2>6
<1>3. x \in Int /\ x >= 0
  OBVIOUS
<1> QED
  BY <1>1, <1>2, <1>3, Division, Zenon

\* n limbs of x have been written to a block, which is as long.
LEMMA FilledHolds ==
  ASSUME NEW b, b.len \in Nat, NEW n \in Nat, n <= b.len, NEW x \in Nat
  PROVE  /\ BlockOK(Filled(b, n, x)) /\ Filled(b, n, x).len = b.len
         /\ Filled(b, n, x).known = n /\ Filled(b, n, x).num = x % Base(n)
<1>1. Filled(b, n, x) = [len |-> b.len, known |-> n, num |-> x % Base(n)]
  BY NotJunk DEF Filled
<1>2. x % Base(n) \in Nat /\ x % Base(n) < Base(n)
  BY LowLimbs, Zenon
<1> QED
  BY <1>1, <1>2 DEF BlockOK

\* If they are x they are a number.
LEMMA FilledWhole ==
  ASSUME NEW b, b.len \in Nat, NEW n \in Nat, n <= b.len, NEW x \in Nat, x < Base(n),
         NEW size \in Int, Abs(size) <= n, Exactly(Abs(size), x)
  PROVE  /\ Whole(Filled(b, n, x), size) /\ Filled(b, n, x).num % Base(Abs(size)) = x
<1>1. Filled(b, n, x).known = n /\ Filled(b, n, x).num = x % Base(n)
  BY FilledHolds
<1>2. PICK m \in Nat : m = Abs(size)
  BY Small
<1>3. x % Base(n) = x /\ (x % Base(n)) % Base(m) = x
  <2>1. x < Base(m) /\ m \in 0 .. n
    BY <1>2 DEF Exactly
  <2> QED
    BY <2>1, LowLimbs
<1> QED
  BY <1>1, <1>2, <1>3 DEF Whole

\* A block as the allocation function returns it holds nothing.
LEMMA FreshBlock ==
  ASSUME NEW n \in Nat
  PROVE  BlockOK(Fresh(n)) /\ Fresh(n).len = n /\ Fresh(n).known = 0 /\ Fresh(n).num = 0 /\ Whole(Fresh(n), 0)
<1>1. Fresh(n) = [len |-> n, known |-> 0, num |-> 0]
  BY DEF Fresh
<1>2. Base(0) = 1 /\ 0 % 1 = 0
  BY BaseFacts
<1> QED
  BY <1>1, <1>2 DEF BlockOK, Whole, Exactly, Abs

\* What is read of a number, and the integer it is.
LEMMA WholeReads ==
  ASSUME BlocksOK, NEW p, NEW size \in Int, NumberAt(p, size)
  PROVE  LET x == heap[p].num % Base(Abs(size))
         IN  /\ Read(p, Abs(size)) = x /\ x \in Nat /\ Exactly(Abs(size), x) /\ x # Junk
             /\ \A n \in 0 .. Abs(size) : Read(p, n) = x % Base(n)
<1>1. p \in DOMAIN heap /\ Abs(size) <= heap[p].known /\ Exactly(Abs(size), heap[p].num % Base(Abs(size)))
  BY DEF NumberAt, Whole
<1>2. heap[p].known \in Nat /\ heap[p].num \in Nat
  BY <1>1 DEF BlocksOK, BlockOK
<1>3. PICK m \in Nat : m = Abs(size)
  BY Small
<1>4. PICK y \in Nat : y = heap[p].num
  BY <1>2
<1>5. y % Base(m) \in Nat /\ \A n \in 0 .. m : (y % Base(m)) % Base(n) = y % Base(n)
  BY LowLimbs
<1>6. \A n \in 0 .. m : Read(p, n) = y % Base(n)
  <2> TAKE n \in 0 .. m
  <2>1. n <= heap[p].known
    BY <1>1, <1>2, <1>3
  <2> QED
    BY <1>1, <1>4, <2>1 DEF Read
<1>7. m \in 0 .. m
  OBVIOUS
<1> QED
  BY <1>1, <1>3, <1>4, <1>5, <1>6, <1>7, NotJunk

\* A number with its sign.
LEMMA SignedFacts ==
  ASSUME NEW negative \in BOOLEAN, NEW x \in Nat
  PROVE  /\ Signed(negative, x) \in Int
         /\ Signed(negative, x) < 0 <=> (negative /\ x # 0)
         /\ Abs(Signed(negative, x)) = x
<1>1. CASE negative
  <2>1. Signed(negative, x) = -x
    BY <1>1 DEF Signed
  <2>2. -x \in Int /\ (-x < 0 <=> x # 0) /\ Abs(-x) = x
    BY DEF Abs
  <2> QED
    BY <1>1, <2>1, <2>2
<1>2. CASE ~negative
  <2>1. Signed(negative, x) = x
    BY <1>2 DEF Signed
  <2>2. x \in Int /\ ~(x < 0) /\ Abs(x) = x
    BY DEF Abs
  <2> QED
    BY <1>2, <2>1, <2>2
<1> QED
  BY <1>1, <1>2

\* What is known of a variable that has a number.
LEMMA Holds ==
  ASSUME IInv, BlocksOK, NEW x \in Usable, NumberAt(var[x].d, Size(x))
  PROVE  LET m == Read(var[x].d, Abs(Size(x)))
         IN  /\ m \in Nat /\ m # Junk /\ Exactly(Abs(Size(x)), m)
             /\ m = heap[var[x].d].num % Base(Abs(Size(x)))
             /\ Size(x) \in Int /\ Abs(Size(x)) \in Nat
             /\ ValueOf(x) = Signed(Size(x) < 0, m) /\ ValueOf(x) \in Int
             /\ Abs(ValueOf(x)) = m /\ (ValueOf(x) < 0 <=> Size(x) < 0) /\ (ValueOf(x) = 0 <=> Size(x) = 0)
             /\ \A n \in 0 .. Abs(Size(x)) : Read(var[x].d, n) = m % Base(n)
<1>1. PICK s \in Int : s = Size(x) /\ Abs(s) \in Nat
  BY SizeType DEF IInv, Usable
<1>2. PICK m : m = Read(var[x].d, Abs(s))
  OBVIOUS
<1>3. /\ m \in Nat /\ m # Junk /\ Exactly(Abs(s), m) /\ m = heap[var[x].d].num % Base(Abs(s))
      /\ \A n \in 0 .. Abs(s) : Read(var[x].d, n) = m % Base(n)
  BY <1>1, <1>2, WholeReads
<1>4. ValueOf(x) = Signed(s < 0, m)
  <2>1. var[x].size = s
    BY <1>1 DEF Size
  <2> QED
    BY <1>2, <1>3, <2>1, Zenon DEF ValueOf
<1>5. (s < 0 => m # 0) /\ (m = 0 <=> s = 0)
  <2>1. Abs(s) = 0 <=> s = 0
    BY Small
  <2> QED
    BY <1>1, <1>3, <2>1, ExactlyZero
<1>6. (s < 0) \in BOOLEAN
  OBVIOUS
<1>7. /\ Signed(s < 0, m) \in Int /\ (Signed(s < 0, m) < 0 <=> ((s < 0) /\ m # 0))
      /\ Abs(Signed(s < 0, m)) = m
  BY <1>3, <1>6, SignedFacts, Zenon
<1>8. PICK v \in Int : v = ValueOf(x) /\ Abs(v) = m /\ (v < 0 <=> s < 0)
  BY <1>4, <1>5, <1>7
<1>9. v = 0 <=> s = 0
  BY <1>5, <1>8, Small, Zenon
<1> QED
  BY <1>1, <1>2, <1>3, <1>4, <1>8, <1>9

-----------------------------------------------------------------------------
(* The bit operations on integers.                                          *)

\* The function BitBy finds a value of.
BitsOf(f) ==
  CHOOSE g : g = [p \in Int \X Int |->
    LET low == f[<<p[1] % 2, p[2] % 2>>]
    IN  IF p[1] \in {0, -1} /\ p[2] \in {0, -1} THEN -low
        ELSE low + 2 * g[<<p[1] \div 2, p[2] \div 2>>]]

\* The bit operations of the abstract specification, as functions.
LEMMA BitByIs ==
  ASSUME NEW f, NEW x, NEW y
  PROVE  Calculator!BitBy(f, x, y) = BitsOf(f)[<<x, y>>]
BY Zenon DEF Calculator!BitBy, BitsOf

\* Half a number: how much nearer it is to zero, or to minus one.
Far(x) == IF x < 0 THEN -x - 1 ELSE x

\* Halving brings an integer nearer, until it is 0 or -1, which it leaves alone.
LEMMA HalfFacts ==
  ASSUME NEW x \in Int
  PROVE  /\ x \div 2 \in Int /\ x % 2 \in {0, 1} /\ x = 2 * (x \div 2) + (x % 2)
         /\ Far(x) \in Nat /\ Far(x \div 2) \in Nat /\ Far(x \div 2) <= Far(x)
         /\ x \notin {0, -1} => Far(x \div 2) < Far(x)
         /\ x \in {0, -1} => x \div 2 = x /\ x % 2 = -x /\ Far(x) = 0
BY DEF Far

\* What it is, from what it is of the halves.
Whole2(f, g, p) ==
  LET low == f[<<p[1] % 2, p[2] % 2>>]
  IN  IF p[1] \in {0, -1} /\ p[2] \in {0, -1} THEN -low
      ELSE low + 2 * g[<<p[1] \div 2, p[2] \div 2>>]

\* A table of bits.
Table(f) == f \in [(0 .. 1) \X (0 .. 1) -> Int]

\* A step of the recursion gives an integer.
LEMMA Whole2Type ==
  ASSUME NEW f, Table(f), NEW g \in [Int \X Int -> Int], NEW p \in Int \X Int
  PROVE  Whole2(f, g, p) \in Int
<1>1. PICK a \in Int, b \in Int : p = <<a, b>>
  OBVIOUS
<1>2. /\ a % 2 \in 0 .. 1 /\ b % 2 \in 0 .. 1 /\ a \div 2 \in Int /\ b \div 2 \in Int
  OBVIOUS
<1>3. f[<<a % 2, b % 2>>] \in Int /\ g[<<a \div 2, b \div 2>>] \in Int
  BY <1>2 DEF Table
<1> QED
  BY <1>1, <1>3 DEF Whole2

\* The recursion ends, so that the operation is what it is of the halves.
LEMMA BitsExist ==
  ASSUME NEW f, Table(f)
  PROVE  BitsOf(f) \in [Int \X Int -> Int] /\ \A p \in Int \X Int : BitsOf(f)[p] = Whole2(f, BitsOf(f), p)
<1> DEFINE V == [Int \X Int -> Int]
           base == [p \in Int \X Int |-> 0]
           step == [g \in V |-> [p \in Int \X Int |-> Whole2(f, g, p)]]
           rank(p) == Far(p[1]) + Far(p[2])
           Half(p) == <<p[1] \div 2, p[2] \div 2>>
           Last(p) == p[1] \in {0, -1} /\ p[2] \in {0, -1}
<1>1. base \in V /\ step \in [V -> V]
  BY Whole2Type
<1>2. PICK s : Endless(s, V, base, step)
  <2> HIDE DEF V, base, step
  <2> QED
    BY <1>1, Recursion, Zenon
<1>3. ASSUME NEW n \in Nat PROVE s[n] \in V /\ \A p \in Int \X Int : s[n + 1][p] = Whole2(f, s[n], p)
  <2>1. s[n] \in V /\ s[n + 1] = step[s[n]]
    <3> HIDE DEF V, step, base
    <3> QED
      BY <1>2 DEF Endless
  <2> QED
    BY <2>1
<1>4. ASSUME NEW p \in Int \X Int
      PROVE  /\ rank(p) \in Nat /\ Half(p) \in Int \X Int /\ rank(Half(p)) \in Nat
             /\ ~Last(p) => rank(Half(p)) < rank(p)
  <2>1. PICK a \in Int, b \in Int : p = <<a, b>>
    OBVIOUS
  <2>2. p[1] = a /\ p[2] = b /\ Half(p)[1] = a \div 2 /\ Half(p)[2] = b \div 2
    BY <2>1
  <2> QED
    BY <2>1, <2>2, HalfFacts
<1>5. ASSUME NEW g, NEW h, NEW p \in Int \X Int, Last(p) \/ g[Half(p)] = h[Half(p)]
      PROVE  Whole2(f, g, p) = Whole2(f, h, p)
  BY <1>5 DEF Whole2
<1> HIDE DEF rank, Half, Last
<1> DEFINE Q == {n \in Nat : \A p \in Int \X Int : rank(p) < n => s[n][p] = s[n + 1][p]}
<1>6. Nat \subseteq Q
  <2>1. 0 \in Q
    BY <1>4
  <2>2. ASSUME NEW n \in Nat, n \in Q PROVE n + 1 \in Q
    <3> SUFFICES ASSUME NEW p \in Int \X Int, rank(p) < n + 1 PROVE s[n + 1][p] = s[(n + 1) + 1][p]
      OBVIOUS
    <3>1. s[n + 1][p] = Whole2(f, s[n], p) /\ s[(n + 1) + 1][p] = Whole2(f, s[n + 1], p)
      BY <1>3
    <3>2. Last(p) \/ s[n][Half(p)] = s[n + 1][Half(p)]
      BY <1>4, <2>2
    <3> QED
      BY <1>5, <3>1, <3>2
  <2> HIDE DEF Q
  <2> QED
    BY <2>1, <2>2, SetInduction
<1> DEFINE R == {k \in Nat : \A p \in Int \X Int : s[rank(p) + 1 + k][p] = s[rank(p) + 1][p]}
<1>7. Nat \subseteq R
  <2>1. 0 \in R
    BY <1>4
  <2>2. ASSUME NEW k \in Nat, k \in R PROVE k + 1 \in R
    <3> SUFFICES ASSUME NEW p \in Int \X Int PROVE s[rank(p) + 1 + (k + 1)][p] = s[rank(p) + 1][p]
      OBVIOUS
    <3>1. PICK n \in Nat : n = rank(p) + 1 + k /\ rank(p) < n /\ rank(p) + 1 + (k + 1) = n + 1
      BY <1>4
    <3>2. s[n][p] = s[n + 1][p]
      BY <1>6, <3>1
    <3> QED
      BY <2>2, <3>1, <3>2
  <2> HIDE DEF R
  <2> QED
    BY <2>1, <2>2, SetInduction
<1> DEFINE g == [p \in Int \X Int |-> s[rank(p) + 1][p]]
<1>8. g \in V
  <2>1. ASSUME NEW p \in Int \X Int PROVE s[rank(p) + 1][p] \in Int
    <3>1. rank(p) + 1 \in Nat
      BY <1>4
    <3>2. s[rank(p) + 1] \in V
      BY <1>3, <3>1
    <3> QED
      BY <3>2
  <2> QED
    BY <2>1
<1>9. ASSUME NEW p \in Int \X Int PROVE g[p] = Whole2(f, g, p)
  <2>1. g[p] = Whole2(f, s[rank(p)], p)
    BY <1>3, <1>4, Zenon
  <2>2. Last(p) \/ s[rank(p)][Half(p)] = g[Half(p)]
    <3> SUFFICES ASSUME ~Last(p) PROVE s[rank(p)][Half(p)] = g[Half(p)]
      OBVIOUS
    <3>1. PICK k \in Nat : rank(p) = rank(Half(p)) + 1 + k
      <4>1. rank(p) - (rank(Half(p)) + 1) \in Nat
        BY <1>4
      <4>2. rank(p) = rank(Half(p)) + 1 + (rank(p) - (rank(Half(p)) + 1))
        BY <1>4
      <4> QED
        BY <4>1, <4>2
    <3>2. k \in R /\ Half(p) \in Int \X Int
      BY <1>4, <1>7
    <3> QED
      BY <3>1, <3>2
  <2> QED
    BY <1>5, <2>1, <2>2
<1> DEFINE F(h) == [p \in Int \X Int |-> Whole2(f, h, p)]
<1>10. g = F(g)
  BY <1>8, <1>9
<1>11. BitsOf(f) = CHOOSE h : h = F(h)
  BY Zenon DEF BitsOf, Whole2
<1> HIDE DEF F, g
<1>12. BitsOf(f) = F(BitsOf(f))
  BY <1>10, <1>11, Zenon
<1>13. \A h : DOMAIN F(h) = Int \X Int /\ \A p \in Int \X Int : F(h)[p] = Whole2(f, h, p)
  BY DEF F
<1>14. \A p \in Int \X Int : BitsOf(f)[p] = Whole2(f, BitsOf(f), p)
  BY <1>12, <1>13, Zenon
<1>15. BitsOf(f) = [p \in Int \X Int |-> BitsOf(f)[p]]
  BY <1>12 DEF F
<1> DEFINE S == {k \in Nat : \A p \in Int \X Int : rank(p) < k => BitsOf(f)[p] \in Int}
<1>16. Nat \subseteq S
  <2>1. 0 \in S
    BY <1>4
  <2>2. ASSUME NEW k \in Nat, k \in S PROVE k + 1 \in S
    <3> SUFFICES ASSUME NEW p \in Int \X Int, rank(p) < k + 1 PROVE BitsOf(f)[p] \in Int
      OBVIOUS
    <3>1. PICK a \in Int, b \in Int : p = <<a, b>>
      OBVIOUS
    <3>2. f[<<a % 2, b % 2>>] \in Int
      <4>1. a % 2 \in 0 .. 1 /\ b % 2 \in 0 .. 1
        OBVIOUS
      <4> QED
        BY <4>1 DEF Table
    <3>3. Last(p) \/ BitsOf(f)[Half(p)] \in Int
      BY <1>4, <2>2
    <3> QED
      BY <1>14, <3>1, <3>2, <3>3 DEF Whole2, Last, Half
  <2> HIDE DEF S
  <2> QED
    BY <2>1, <2>2, SetInduction
<1>17. ASSUME NEW p \in Int \X Int PROVE BitsOf(f)[p] \in Int
  <2>1. rank(p) + 1 \in Nat /\ rank(p) < rank(p) + 1
    BY <1>4
  <2> QED
    BY <1>16, <2>1
<1> QED
  BY <1>14, <1>15, <1>17

\* The three operations.
Both(x, y) == Calculator!BitBy(Calculator!BitAnd, x, y)
Either(x, y) == Calculator!BitBy(Calculator!BitOr, x, y)
Differ(x, y) == Calculator!BitBy(Calculator!BitXor, x, y)

\* What the three operations do to single bits.
LEMMA TablesAre ==
  /\ Table(Calculator!BitAnd) /\ Table(Calculator!BitOr) /\ Table(Calculator!BitXor)
  /\ \A i, j \in 0 .. 1 : /\ Calculator!BitAnd[<<i, j>>] = i * j
                          /\ Calculator!BitOr[<<i, j>>] = i + j - i * j
                          /\ Calculator!BitXor[<<i, j>>] = i + j - 2 * (i * j)
<1>1. ASSUME NEW i \in 0 .. 1, NEW j \in 0 .. 1
      PROVE  i * j \in Int /\ (i + j) % 2 = i + j - 2 * (i * j)
  <2>1. i \in {0, 1} /\ j \in {0, 1}
    OBVIOUS
  <2> QED
    BY <2>1
<1>2. \A p \in (0 .. 1) \X (0 .. 1) : \E i, j \in 0 .. 1 : p = <<i, j>>
  OBVIOUS
<1>3. \A p \in (0 .. 1) \X (0 .. 1) : p[1] \in 0 .. 1 /\ p[2] \in 0 .. 1
  OBVIOUS
<1> QED
  BY <1>1, <1>2, <1>3 DEF Table, Calculator!BitAnd, Calculator!BitOr, Calculator!BitXor, Calculator!TwoBits

\* The integer from its lowest bit and its half.
LEMMA BitByHalves ==
  ASSUME NEW f, Table(f), NEW x \in Int, NEW y \in Int
  PROVE  /\ Calculator!BitBy(f, x, y) \in Int /\ Calculator!BitBy(f, x \div 2, y \div 2) \in Int
         /\ Calculator!BitBy(f, x, y) = f[<<x % 2, y % 2>>] + 2 * Calculator!BitBy(f, x \div 2, y \div 2)
<1> DEFINE g == BitsOf(f)
<1>1. g \in [Int \X Int -> Int] /\ \A p \in Int \X Int : g[p] = Whole2(f, g, p)
  BY BitsExist
<1>2. PICK i \in Int, j \in Int : i = x \div 2 /\ j = y \div 2
  OBVIOUS
<1>3. <<x, y>> \in Int \X Int /\ <<i, j>> \in Int \X Int
  OBVIOUS
<1>4. Calculator!BitBy(f, x, y) = g[<<x, y>>] /\ Calculator!BitBy(f, x \div 2, y \div 2) = g[<<i, j>>]
  BY <1>2, BitByIs
<1> HIDE DEF g
<1>5. g[<<x, y>>] \in Int /\ g[<<i, j>>] \in Int
  BY <1>1, <1>3
<1>6. f[<<x % 2, y % 2>>] \in Int
  <2>1. x % 2 \in 0 .. 1 /\ y % 2 \in 0 .. 1
    OBVIOUS
  <2> QED
    BY <2>1 DEF Table
<1>7. g[<<x, y>>] = IF x \in {0, -1} /\ y \in {0, -1} THEN -f[<<x % 2, y % 2>>]
                    ELSE f[<<x % 2, y % 2>>] + 2 * g[<<i, j>>]
  <2>1. g[<<x, y>>] = Whole2(f, g, <<x, y>>)
    BY <1>1, <1>3
  <2> QED
    BY <1>2, <2>1 DEF Whole2
<1>8. CASE x \in {0, -1} /\ y \in {0, -1}
  <2>1. i = x /\ j = y
    BY <1>2, <1>8, HalfFacts
  <2> QED
    BY <1>4, <1>5, <1>6, <1>7, <1>8, <2>1
<1>9. CASE ~ (x \in {0, -1} /\ y \in {0, -1})
  BY <1>4, <1>5, <1>6, <1>7, <1>9
<1> QED
  BY <1>8, <1>9

\* What the three operations are of the halves.
LEMMA BitHalves ==
  ASSUME NEW x \in Int, NEW y \in Int
  PROVE  /\ Both(x, y) \in Int /\ Either(x, y) \in Int /\ Differ(x, y) \in Int
         /\ Both(x \div 2, y \div 2) \in Int /\ Either(x \div 2, y \div 2) \in Int /\ Differ(x \div 2, y \div 2) \in Int
         /\ Both(x, y) = (x % 2) * (y % 2) + 2 * Both(x \div 2, y \div 2)
         /\ Either(x, y) = (x % 2) + (y % 2) - (x % 2) * (y % 2) + 2 * Either(x \div 2, y \div 2)
         /\ Differ(x, y) = (x % 2) + (y % 2) - 2 * ((x % 2) * (y % 2)) + 2 * Differ(x \div 2, y \div 2)
<1>1. PICK i \in 0 .. 1, j \in 0 .. 1 : i = x % 2 /\ j = y % 2
  OBVIOUS
<1>2. /\ Calculator!BitAnd[<<i, j>>] = i * j /\ Calculator!BitOr[<<i, j>>] = i + j - i * j
      /\ Calculator!BitXor[<<i, j>>] = i + j - 2 * (i * j)
  BY TablesAre
<1>3. /\ Both(x, y) \in Int /\ Both(x \div 2, y \div 2) \in Int
      /\ Both(x, y) = Calculator!BitAnd[<<x % 2, y % 2>>] + 2 * Both(x \div 2, y \div 2)
  BY TablesAre, BitByHalves DEF Both
<1>4. /\ Either(x, y) \in Int /\ Either(x \div 2, y \div 2) \in Int
      /\ Either(x, y) = Calculator!BitOr[<<x % 2, y % 2>>] + 2 * Either(x \div 2, y \div 2)
  BY TablesAre, BitByHalves DEF Either
<1>5. /\ Differ(x, y) \in Int /\ Differ(x \div 2, y \div 2) \in Int
      /\ Differ(x, y) = Calculator!BitXor[<<x % 2, y % 2>>] + 2 * Differ(x \div 2, y \div 2)
  BY TablesAre, BitByHalves DEF Differ
<1> QED
  BY <1>1, <1>2, <1>3, <1>4, <1>5

\* An operation on x and y, from their halves i and j, their low bits s and t, the
\* product m of those, and the operations on the halves.
Parts(x, y, i, j, s, t, m, u, v, w) ==
  /\ i \in Int /\ j \in Int /\ s \in 0 .. 1 /\ t \in 0 .. 1 /\ m \in 0 .. 1
  /\ u \in Int /\ v \in Int /\ w \in Int
  /\ i = x \div 2 /\ j = y \div 2 /\ s = x % 2 /\ t = y % 2
  /\ x = 2 * i + s /\ y = 2 * j + t /\ m <= s /\ m <= t /\ m >= s + t - 1
  /\ u = Both(i, j) /\ v = Either(i, j) /\ w = Differ(i, j)
  /\ Both(x, y) = m + 2 * u /\ Either(x, y) = s + t - m + 2 * v /\ Differ(x, y) = s + t - 2 * m + 2 * w

\* What of that is linear.
Linear(x, y, i, j, s, t, m, u, v, w) ==
  /\ i \in Int /\ j \in Int /\ s \in 0 .. 1 /\ t \in 0 .. 1 /\ m \in 0 .. 1
  /\ u \in Int /\ v \in Int /\ w \in Int
  /\ x = 2 * i + s /\ y = 2 * j + t /\ m <= s /\ m <= t /\ m >= s + t - 1

\* The equations of the parts, without products.
LEMMA PartsLinear ==
  ASSUME NEW x, NEW y, NEW i, NEW j, NEW s, NEW t, NEW m, NEW u, NEW v, NEW w,
         Parts(x, y, i, j, s, t, m, u, v, w)
  PROVE  Linear(x, y, i, j, s, t, m, u, v, w)
BY DEF Parts, Linear

\* Any two integers have such parts.
LEMMA BitParts ==
  ASSUME NEW x \in Int, NEW y \in Int
  PROVE  \E i, j, s, t, m, u, v, w : Parts(x, y, i, j, s, t, m, u, v, w)
<1>1. PICK i \in Int, j \in Int : i = x \div 2 /\ j = y \div 2
  OBVIOUS
<1>2. PICK s \in {0, 1}, t \in {0, 1} : s = x % 2 /\ t = y % 2
  OBVIOUS
<1>3. PICK m \in 0 .. 1 : m = s * t /\ m <= s /\ m <= t /\ m >= s + t - 1
  <2>1. s * t \in 0 .. 1 /\ s * t <= s /\ s * t <= t /\ s * t >= s + t - 1
    BY <1>2
  <2> QED
    BY <2>1
<1>4. x = 2 * i + s /\ y = 2 * j + t
  BY <1>1, <1>2, HalfFacts
<1>5. PICK u \in Int, v \in Int, w \in Int : u = Both(i, j) /\ v = Either(i, j) /\ w = Differ(i, j)
  BY BitHalves, Zenon
<1>6. /\ Both(x, y) = (x % 2) * (y % 2) + 2 * Both(x \div 2, y \div 2)
      /\ Either(x, y) = (x % 2) + (y % 2) - (x % 2) * (y % 2) + 2 * Either(x \div 2, y \div 2)
      /\ Differ(x, y) = (x % 2) + (y % 2) - 2 * ((x % 2) * (y % 2)) + 2 * Differ(x \div 2, y \div 2)
  BY BitHalves, Zenon
<1>7. /\ Both(x \div 2, y \div 2) = u /\ Either(x \div 2, y \div 2) = v /\ Differ(x \div 2, y \div 2) = w
      /\ (x % 2) * (y % 2) = m
  BY <1>1, <1>2, <1>3, <1>5, Zenon
<1>8. PICK a \in Int : a = (x % 2) * (y % 2)
  BY <1>3, <1>7
<1>9. Both(x, y) = a + 2 * u /\ Either(x, y) = s + t - a + 2 * v /\ Differ(x, y) = s + t - 2 * a + 2 * w
  BY <1>2, <1>6, <1>7, <1>8, Zenon
<1>10. a = m
  BY <1>7, <1>8, Zenon
<1>11. Both(x, y) = m + 2 * u /\ Either(x, y) = s + t - m + 2 * v /\ Differ(x, y) = s + t - 2 * m + 2 * w
  BY <1>9, <1>10, Zenon
<1>12. Parts(x, y, i, j, s, t, m, u, v, w)
  BY <1>1, <1>2, <1>3, <1>4, <1>5, <1>11 DEF Parts
<1> QED
  BY <1>12, Zenon

\* Induction from the halves.
LEMMA PairInduction ==
  ASSUME NEW P,
         \A x, y \in Int : (x \in {0, -1} /\ y \in {0, -1}) \/ <<x \div 2, y \div 2>> \in P => <<x, y>> \in P
  PROVE  \A x, y \in Int : <<x, y>> \in P
<1> DEFINE S == {k \in Nat : \A x, y \in Int : Far(x) + Far(y) < k => <<x, y>> \in P}
<1>1. 0 \in S
  BY HalfFacts
<1>2. ASSUME NEW k \in Nat, k \in S PROVE k + 1 \in S
  <2> SUFFICES ASSUME NEW x \in Int, NEW y \in Int, Far(x) + Far(y) < k + 1 PROVE <<x, y>> \in P
    OBVIOUS
  <2>1. CASE x \in {0, -1} /\ y \in {0, -1}
    BY <2>1
  <2>2. CASE ~ (x \in {0, -1} /\ y \in {0, -1})
    <3>1. PICK i \in Int, j \in Int : i = x \div 2 /\ j = y \div 2
      OBVIOUS
    <3>2. Far(i) + Far(j) < k
      BY <2>2, <3>1, HalfFacts
    <3>3. <<i, j>> \in P
      BY <1>2, <3>2
    <3> QED
      BY <3>1, <3>3
  <2> QED
    BY <2>1, <2>2
<1>3. Nat \subseteq S
  <2> HIDE DEF S
  <2> QED
    BY <1>1, <1>2, SetInduction
<1> TAKE x \in Int, y \in Int
<1>4. Far(x) + Far(y) + 1 \in Nat /\ Far(x) + Far(y) < Far(x) + Far(y) + 1
  BY HalfFacts
<1> QED
  BY <1>3, <1>4

\* Each operation by the one of the bits both have.
THEOREM BitSums ==
  ASSUME NEW x \in Int, NEW y \in Int
  PROVE  Either(x, y) = x + y - Both(x, y) /\ Differ(x, y) = x + y - 2 * Both(x, y)
<1> DEFINE P == {p \in Int \X Int : /\ Either(p[1], p[2]) = p[1] + p[2] - Both(p[1], p[2])
                                    /\ Differ(p[1], p[2]) = p[1] + p[2] - 2 * Both(p[1], p[2])}
<1>1. \A a, b \in Int : <<a, b>> \in P <=> /\ Either(a, b) = a + b - Both(a, b)
                                           /\ Differ(a, b) = a + b - 2 * Both(a, b)
  OBVIOUS
<1> HIDE DEF P
<1>2. ASSUME NEW a \in Int, NEW b \in Int,
             (a \in {0, -1} /\ b \in {0, -1}) \/ <<a \div 2, b \div 2>> \in P
      PROVE  <<a, b>> \in P
  <2>1. PICK i, j, s, t, m, u, v, w : Parts(a, b, i, j, s, t, m, u, v, w)
    BY BitParts
  <2>2. v = i + j - u /\ w = i + j - 2 * u
    <3>1. CASE <<i, j>> \in P
      BY <1>1, <2>1, <3>1 DEF Parts
    <3>2. CASE a \in {0, -1} /\ b \in {0, -1}
      <4>1. i = a /\ j = b /\ s = -a /\ t = -b
        BY <2>1, <3>2, HalfFacts, Zenon DEF Parts
      <4>2. u = m + 2 * u /\ v = s + t - m + 2 * v /\ w = s + t - 2 * m + 2 * w
        BY <2>1, <4>1 DEF Parts
      <4>3. Linear(a, b, i, j, s, t, m, u, v, w)
        BY <2>1, PartsLinear
      <4> QED
        BY <4>1, <4>2, <4>3 DEF Linear
    <3> QED
      BY <1>2, <2>1, <3>1, <3>2 DEF Parts
  <2>3. Both(a, b) = m + 2 * u /\ Either(a, b) = s + t - m + 2 * v /\ Differ(a, b) = s + t - 2 * m + 2 * w
    BY <2>1 DEF Parts
  <2>4. Linear(a, b, i, j, s, t, m, u, v, w)
    BY <2>1, PartsLinear
  <2>5. Either(a, b) = a + b - Both(a, b) /\ Differ(a, b) = a + b - 2 * Both(a, b)
    BY <2>2, <2>3, <2>4 DEF Linear
  <2> QED
    BY <1>1, <2>5
<1>3. <<x, y>> \in P
  BY <1>2, PairInduction
<1> QED
  BY <1>1, <1>3

\* The operation of the bits both have: exchanged, and with the complement.
THEOREM BothLaws ==
  ASSUME NEW x \in Int, NEW y \in Int
  PROVE  Both(x, y) = Both(y, x) /\ Both(x, -y - 1) = x - Both(x, y)
<1> DEFINE P == {p \in Int \X Int : /\ Both(p[1], p[2]) = Both(p[2], p[1])
                                    /\ Both(p[1], -p[2] - 1) = p[1] - Both(p[1], p[2])}
<1>1. \A a, b \in Int : <<a, b>> \in P <=> Both(a, b) = Both(b, a) /\ Both(a, -b - 1) = a - Both(a, b)
  OBVIOUS
<1> HIDE DEF P
<1>2. ASSUME NEW a \in Int, NEW b \in Int,
             (a \in {0, -1} /\ b \in {0, -1}) \/ <<a \div 2, b \div 2>> \in P
      PROVE  <<a, b>> \in P
  <2>1. PICK i, j, s, t, m, u, v, w : Parts(a, b, i, j, s, t, m, u, v, w)
    BY BitParts
  <2>2. PICK i2, j2, s2, t2, m2, u2, vv2, w2 : Parts(b, a, i2, j2, s2, t2, m2, u2, vv2, w2)
    BY BitParts
  <2>3. PICK d \in Int : d = -b - 1
    OBVIOUS
  <2>4. PICK i3, j3, s3, t3, m3, u3, vv3, w3 : Parts(a, d, i3, j3, s3, t3, m3, u3, vv3, w3)
    BY BitParts
  <2>5. i2 = j /\ j2 = i /\ s2 = t /\ t2 = s /\ m2 = m /\ u2 = Both(j, i)
    BY <2>1, <2>2 DEF Parts
  <2>6. i3 = i /\ j3 = -j - 1 /\ s3 = s /\ t3 = 1 - t /\ m3 = s - m /\ u3 = Both(i, -j - 1)
    <3>1. i3 = i /\ s3 = s /\ j3 = -j - 1 /\ t3 = 1 - t
      BY <2>1, <2>3, <2>4 DEF Parts
    <3>2. m3 = s - m
      BY <2>1, <2>4, <3>1 DEF Parts
    <3>3. u3 = Both(i3, j3)
      BY <2>4 DEF Parts
    <3> QED
      BY <3>1, <3>2, <3>3
  <2>7. u2 = u /\ u3 = i - u
    <3>1. CASE <<i, j>> \in P
      BY <1>1, <2>1, <2>5, <2>6, <3>1 DEF Parts
    <3>2. CASE a \in {0, -1} /\ b \in {0, -1}
      <4>1. i = a /\ j = b /\ -j - 1 = d /\ s = -a
        BY <2>1, <2>3, <3>2, HalfFacts, Zenon DEF Parts
      <4>2. u = m + 2 * u
        BY <2>1, <4>1 DEF Parts
      <4>3. u2 = m + 2 * u2
        BY <2>2, <2>5, <4>1 DEF Parts
      <4>4. u3 = (s - m) + 2 * u3
        BY <2>4, <2>6, <4>1 DEF Parts
      <4>5. Linear(a, b, i, j, s, t, m, u, v, w) /\ u2 \in Int /\ u3 \in Int
        BY <2>1, <2>2, <2>4, PartsLinear, Zenon DEF Parts
      <4> QED
        BY <4>1, <4>2, <4>3, <4>4, <4>5 DEF Linear
    <3> QED
      BY <1>2, <2>1, <3>1, <3>2 DEF Parts
  <2>8. Both(a, b) = m + 2 * u /\ Both(b, a) = m + 2 * u /\ Both(a, d) = (s - m) + 2 * (i - u)
    BY <2>1, <2>2, <2>4, <2>5, <2>6, <2>7, Zenon DEF Parts
  <2>9. Both(a, b) = Both(b, a) /\ Both(a, -b - 1) = a - Both(a, b)
    BY <2>1, <2>3, <2>8 DEF Parts
  <2> QED
    BY <1>1, <2>9
<1>3. <<x, y>> \in P
  BY <1>2, PairInduction
<1> QED
  BY <1>1, <1>3

\* With a natural number it is neither negative nor greater than that.
LEMMA BothBounds ==
  ASSUME NEW x \in Int, NEW y \in Nat
  PROVE  Both(x, y) \in 0 .. y
<1> DEFINE P == {p \in Int \X Int : p[2] >= 0 => Both(p[1], p[2]) >= 0 /\ Both(p[1], p[2]) <= p[2]}
<1>1. \A a, b \in Int : <<a, b>> \in P <=> (b >= 0 => Both(a, b) >= 0 /\ Both(a, b) <= b)
  OBVIOUS
<1> HIDE DEF P
<1>2. ASSUME NEW a \in Int, NEW b \in Int,
             (a \in {0, -1} /\ b \in {0, -1}) \/ <<a \div 2, b \div 2>> \in P
      PROVE  <<a, b>> \in P
  <2>1. PICK i, j, s, t, m, u, v, w : Parts(a, b, i, j, s, t, m, u, v, w)
    BY BitParts
  <2>2. j >= 0 => u >= 0 /\ u <= j
    <3>1. CASE <<i, j>> \in P
      BY <1>1, <2>1, <3>1 DEF Parts
    <3>2. CASE a \in {0, -1} /\ b \in {0, -1}
      <4>1. i = a /\ j = b /\ t = -b
        BY <2>1, <3>2, HalfFacts, Zenon DEF Parts
      <4>2. u = m + 2 * u
        BY <2>1, <4>1 DEF Parts
      <4>3. Linear(a, b, i, j, s, t, m, u, v, w)
        BY <2>1, PartsLinear
      <4> QED
        BY <4>1, <4>2, <4>3 DEF Linear
    <3> QED
      BY <1>2, <2>1, <3>1, <3>2 DEF Parts
  <2>3. b >= 0 => Both(a, b) >= 0 /\ Both(a, b) <= b
    BY <2>1, <2>2 DEF Parts
  <2> QED
    BY <1>1, <2>3
<1>3. <<x, y>> \in P
  BY <1>2, PairInduction
<1>4. Both(x, y) \in Int
  BY BitHalves
<1> QED
  BY <1>1, <1>3, <1>4

\* Only the low bits of one count that the other has.
LEMMA BothLow ==
  ASSUME NEW n \in Nat, NEW x \in Int, NEW y \in Nat, y < Two[n]
  PROVE  x % Two[n] \in Nat /\ x % Two[n] < Two[n] /\ Both(x, y) = Both(x % Two[n], y) /\ Both(x, y) <= x % Two[n]
<1> DEFINE P == {k \in Nat : \A a \in Int, b \in Nat : b < Two[k] => Both(a, b) = Both(a % Two[k], b)}
<1>1. 0 \in P
  <2> SUFFICES ASSUME NEW a \in Int, NEW b \in Nat, b < 1 PROVE Both(a, b) = Both(a % 1, b)
    BY TwoFacts
  <2>1. b = 0 /\ a % 1 \in Int
    OBVIOUS
  <2>2. Both(a, b) \in 0 .. b /\ Both(a % 1, b) \in 0 .. b
    BY <2>1, BothBounds, Zenon
  <2> QED
    BY <2>1, <2>2
<1>2. ASSUME NEW k \in Nat, k \in P PROVE k + 1 \in P
  <2> SUFFICES ASSUME NEW a \in Int, NEW b \in Nat, b < Two[k + 1] PROVE Both(a, b) = Both(a % Two[k + 1], b)
    OBVIOUS
  <2>1. PICK p \in Nat : p = Two[k] /\ p >= 1 /\ Two[k + 1] = 2 * p
    BY TwoFacts, Zenon
  <2>2. PICK i, j, s, t, m, u, v, w : Parts(a, b, i, j, s, t, m, u, v, w)
    BY BitParts
  <2>3. j \in Nat /\ j < p
    BY <2>1, <2>2 DEF Parts
  <2>4. PICK r \in Nat : r = i % p /\ r < p
    BY <2>1, <2>2, Division, Zenon DEF Parts
  <2>5. PICK d \in Int : d = 2 * r + s
    BY <2>2 DEF Parts
  <2>6. a % (2 * p) = d
    <3>1. 2 \in Nat /\ 2 >= 1
      OBVIOUS
    <3>2. a % (2 * p) = 2 * ((a \div 2) % p) + (a % 2)
      BY <2>1, <3>1, ModOfMod, Zenon
    <3>3. a \div 2 = i /\ a % 2 = s
      BY <2>2 DEF Parts
    <3>4. (a \div 2) % p = r
      BY <2>4, <3>3
    <3> QED
      BY <2>4, <2>5, <3>2, <3>3, <3>4
  <2>7. PICK i2, j2, s2, t2, m2, u2, vv2, w2 : Parts(d, b, i2, j2, s2, t2, m2, u2, vv2, w2)
    BY BitParts
  <2>8. i2 = r /\ j2 = j /\ s2 = s /\ t2 = t /\ m2 = m /\ u2 = Both(r, j)
    <3>1. i2 = r /\ s2 = s /\ j2 = j /\ t2 = t
      BY <2>2, <2>4, <2>5, <2>7 DEF Parts
    <3> QED
      BY <2>2, <2>7, <3>1 DEF Parts
  <2>9. u2 = u
    <3>1. Both(i, j) = Both(i % p, j)
      BY <1>2, <2>1, <2>2, <2>3 DEF Parts
    <3> QED
      BY <2>2, <2>4, <2>8, <3>1 DEF Parts
  <2>10. Both(a, b) = m + 2 * u /\ Both(d, b) = m + 2 * u
    BY <2>2, <2>7, <2>8, <2>9 DEF Parts
  <2> QED
    BY <2>1, <2>6, <2>10
<1> HIDE DEF P
<1>3. n \in P
  BY <1>1, <1>2, SetInduction
<1>4. PICK r \in Nat : r = x % Two[n] /\ r < Two[n]
  BY TwoFacts, Division, Zenon
<1>5. Both(x, y) = Both(r, y)
  BY <1>3, <1>4 DEF P
<1>6. Both(r, y) = Both(y, r)
  <2>1. r \in Int /\ y \in Int
    OBVIOUS
  <2> QED
    BY <2>1, BothLaws
<1>7. Both(y, r) \in 0 .. r
  <2>1. y \in Int
    OBVIOUS
  <2> QED
    BY <2>1, BothBounds, Zenon
<1> QED
  BY <1>4, <1>5, <1>6, <1>7

\* No operation makes more bits.
LEMMA BitsStay ==
  ASSUME NEW n \in Nat, NEW x \in Nat, NEW y \in Nat, x < Two[n], y < Two[n]
  PROVE  /\ Either(x, y) \in Nat /\ Either(x, y) < Two[n] /\ Differ(x, y) \in Nat /\ Differ(x, y) < Two[n]
         /\ Either(x, y) >= x /\ Either(x, y) >= y
         /\ Both(x, y) \in Nat /\ Both(x, y) <= x /\ Both(x, y) <= y
<1> DEFINE P == {k \in Nat : \A a, b \in Nat : a < Two[k] /\ b < Two[k] => Either(a, b) < Two[k]}
<1>1. 0 \in P
  <2> SUFFICES ASSUME NEW a \in Nat, NEW b \in Nat, a < 1, b < 1 PROVE Either(a, b) < 1
    BY TwoFacts
  <2>1. a = 0 /\ b = 0 /\ Both(a, b) \in 0 .. b /\ Either(a, b) = a + b - Both(a, b)
    BY BothBounds, BitSums
  <2> QED
    BY <2>1
<1>2. ASSUME NEW k \in Nat, k \in P PROVE k + 1 \in P
  <2> SUFFICES ASSUME NEW a \in Nat, NEW b \in Nat, a < Two[k + 1], b < Two[k + 1] PROVE Either(a, b) < Two[k + 1]
    OBVIOUS
  <2>1. PICK p \in Nat : p = Two[k] /\ p >= 1 /\ Two[k + 1] = 2 * p
    BY TwoFacts, Zenon
  <2>2. PICK i, j, s, t, m, u, v, w : Parts(a, b, i, j, s, t, m, u, v, w)
    BY BitParts
  <2>3. i \in Nat /\ j \in Nat /\ i < p /\ j < p
    BY <2>1, <2>2 DEF Parts
  <2>4. v < p
    BY <1>2, <2>1, <2>2, <2>3 DEF Parts
  <2> QED
    BY <2>1, <2>2, <2>4 DEF Parts
<1> HIDE DEF P
<1>3. n \in P
  BY <1>1, <1>2, SetInduction
<1>4. PICK w \in Nat : w = Two[n]
  BY TwoFacts
<1>5. Either(x, y) < w
  BY <1>3, <1>4 DEF P
<1>6. PICK m \in Int : m = Both(x, y) /\ m >= 0 /\ m <= y /\ m <= x
  <2>1. Both(x, y) \in 0 .. y
    BY BothBounds
  <2>2. Both(y, x) \in 0 .. x
    BY BothBounds
  <2>3. Both(x, y) = Both(y, x)
    BY BothLaws
  <2> QED
    BY <2>1, <2>2, <2>3
<1>7. Either(x, y) = x + y - m /\ Differ(x, y) = x + y - 2 * m
  BY <1>6, BitSums
<1> QED
  BY <1>4, <1>5, <1>6, <1>7

-----------------------------------------------------------------------------
(* The functions that compute.                                              *)

\* A function that computes has two operands, or one; only mpz_tdiv_r_2exp then notes
\* another size, of the same limbs.
Entered ==
  pc = "compute" =>
    \/ c.fn \in {"tdiv_qr", "tdiv_q", "tdiv_r", "add", "sub", "mul"} \cup AorsFns \cup BitFn
    \/ c.fn \in Calculator!OneOperand /\ (loc.vs = 0 \/ (c.fn = "tdiv_r_2exp" /\ loc.vp = loc.up))

\* Only a function that goes on to compute has anything to note.
LEMMA Ends ==
  ASSUME \/ pc' \in {"idle", "enter", "quot", "room", "copy", "done", "raised"}
         \/ Finish \/ \E value : FinishWith(value)
  PROVE  Entered'
<1>1. pc' # "compute"
  BY DEF Finish, FinishWith
<1> QED
  BY <1>1 DEF Entered

\* A function that goes on to compute has two operands, or has noted its one.
LEMMA GoesOn ==
  ASSUME NEW fns, At("enter", fns) \/ At("room", fns) \/ At("copy", fns), Goto("compute"),
         \/ fns \subseteq {"tdiv_qr", "tdiv_q", "tdiv_r", "add", "sub", "mul"} \cup AorsFns \cup BitFn
         \/ fns \subseteq Calculator!OneOperand /\ NoteOperand
  PROVE  Entered'
<1>1. c' = c /\ c.fn \in fns
  BY DEF Goto, c, At
<1>2. NoteOperand => loc'.vs = 0
  BY DEF NoteOperand, Notes
<1> QED
  BY <1>1, <1>2 DEF Entered

\* The steps of the arithmetic functions.
LEMMA EnteredByHeap == ASSUME HeapStep PROVE Entered'
<1>1. CASE Invoke \/ Return
  BY <1>1, Ends DEF Invoke, Return
<1>2. CASE AorsGrow
  BY <1>2, GoesOn DEF AorsGrow
<1>3. CASE UiGrow
  <2>1. {"add_ui", "sub_ui"} \subseteq Calculator!OneOperand
    BY DEF Calculator!OneOperand, Calculator!UiFns
  <2> QED
    BY <1>3, <2>1, GoesOn DEF UiGrow
<1>4. CASE MulGrow \/ MulFresh \/ MulCopy
  <2>1. At("enter", {"mul"}) /\ Goto("compute")
    BY <1>4 DEF MulGrow, MulFresh, MulCopy
  <2> QED
    BY <2>1, GoesOn
<1>5. CASE TdivCopy
  BY <1>5, GoesOn DEF TdivCopy, CopyOperands
<1>6. CASE SetGrow
  <2>1. At("enter", {"set", "neg"}) /\ Goto("compute") /\ NoteOperand
    BY <1>6 DEF SetGrow
  <2>2. {"set", "neg"} \subseteq Calculator!OneOperand
    BY DEF Calculator!OneOperand, Calculator!UnaryFns
  <2> QED
    BY <2>1, <2>2, GoesOn
<1>7. CASE TdivByZero \/ TdivGrowRem \/ TdivGrowQuot
  BY <1>7, Ends DEF TdivByZero, TdivGrowRem, TdivGrowQuot, Goto
<1>8. CASE DivTruncate \/ DivAdjust
  BY <1>8, Ends DEF DivTruncate, DivAdjust, At
<1>9. CASE \/ AorsAdd \/ AorsSub \/ UiCompute \/ MulZero \/ MulCompute \/ TdivSmall \/ TdivCompute \/ DivDone
           \/ NegInPlace \/ SetCopy \/ Swap \/ SetUi \/ Realloc
  <2>1. Finish
    BY <1>9, Zenon DEF AorsAdd, AorsSub, UiCompute, MulZero, MulCompute, TdivSmall, TdivCompute, DivDone, NegInPlace,
                SetCopy, Swap, SetUi, Realloc
  <2> QED
    BY <2>1, Ends
<1> QED
  BY <1>1, <1>2, <1>3, <1>4, <1>5, <1>6, <1>7, <1>8, <1>9 DEF HeapStep

\* The steps of the divisions.
LEMMA EnteredByDivision == ASSUME DivideStep PROVE Entered'
<1>1. CASE DivideByZero \/ TdivQGrow
  BY <1>1, Ends DEF DivideByZero, TdivQGrow, Goto
<1>2. CASE TdivRGrow
  <2>1. pc' \in {"copy", "quot"}
    BY <1>2 DEF TdivRGrow, Goto
  <2> QED
    BY <2>1, Ends
<1>3. CASE TdivQCopy
  BY <1>3, GoesOn DEF TdivQCopy, CopyOperands
<1>4. CASE TdivRCopy
  BY <1>4, GoesOn DEF TdivRCopy, CopyOperands
<1>5. CASE FdivQ \/ CdivQ
  <2>1. pc = "enter" /\ pc' = pc
    BY <1>5 DEF FdivQ, CdivQ, RoundQ, At, Then
  <2> QED
    BY <2>1, Ends
<1>6. CASE FdivR \/ CdivR \/ Mod
  <2>1. ASSUME NEW fn, NEW correct, RoundR(fn, correct) PROVE pc = "enter" /\ pc' = pc
    BY <2>1 DEF RoundR, At, Then
  <2>2. \E fn, correct : RoundR(fn, correct)
    BY <1>6 DEF FdivR, CdivR, Mod
  <2> QED
    BY <2>1, <2>2, Ends
<1>7. CASE UiDivGrow
  <2>1. Calculator!DivUiFns \subseteq Calculator!OneOperand
    BY DEF Calculator!OneOperand
  <2> QED
    BY <1>7, <2>1, GoesOn DEF UiDivGrow
<1>8. CASE TdivQSmall \/ TdivQCompute \/ TdivRSmall \/ TdivRCompute \/ UiOfZero
  <2>1. Finish
    BY <1>8, Zenon DEF TdivQSmall, TdivQCompute, TdivRSmall, TdivRCompute, UiOfZero
  <2> QED
    BY <2>1, Ends
<1>9. CASE CorrectQ \/ CorrectR
  <2>1. pc = "enter"
    BY <1>9, Zenon DEF CorrectQ, CorrectR, At
  <2>2. CASE CorrectQ
    <3>1. Finish \/ pc' = pc
      BY <2>2 DEF CorrectQ, Then
    <3> QED
      BY <2>1, <3>1, Ends
  <2>3. CASE CorrectR
    <3>1. c.fn \in {"floor_r", "ceiling_r", "least_r"}
      BY <2>3 DEF CorrectR, At
    <3>2. CASE Size(c.w) = 0
      <4>1. Finish
        BY <2>3, <3>2 DEF CorrectR
      <4> QED
        BY <4>1, Ends
    <3>3. ASSUME NEW fn, Then(<< [c EXCEPT !.fn = fn, !.u = c.w, !.k = 0] >>) PROVE pc' = pc
      BY <3>3 DEF Then
    <3>4. CASE Size(c.w) # 0 /\ c.fn = "floor_r"
      <4>1. Finish \/ pc' = pc
        BY <2>3, <3>3, <3>4, Zenon DEF CorrectR
      <4> QED
        BY <2>1, <4>1, Ends
    <3>5. CASE Size(c.w) # 0 /\ c.fn = "ceiling_r"
      <4>1. Finish \/ pc' = pc
        BY <2>3, <3>3, <3>5, Zenon DEF CorrectR
      <4> QED
        BY <2>1, <4>1, Ends
    <3>6. CASE Size(c.w) # 0 /\ c.fn = "least_r"
      <4>1. Finish \/ pc' = pc
        BY <2>3, <3>3, <3>6, Zenon DEF CorrectR
      <4> QED
        BY <2>1, <4>1, Ends
    <3> QED
      BY <3>1, <3>2, <3>4, <3>5, <3>6
  <2> QED
    BY <1>9, <2>2, <2>3
<1>10. CASE \/ TdivQUi \/ TdivRUi \/ TdivQrUi \/ TdivUi
            \/ FdivQUi \/ FdivRUi \/ FdivQrUi \/ FdivUi
            \/ CdivQUi \/ CdivRUi \/ CdivQrUi \/ CdivUi
  <2>1. ASSUME NEW fn, NEW away, NEW sign, UiDiv(fn, away, sign) PROVE Entered'
    <3>1. \E value : FinishWith(value)
      BY <2>1 DEF UiDiv
    <3> QED
      BY <3>1, Ends
  <2>2. \E fn, away, sign : UiDiv(fn, away, sign)
    BY <1>10, Zenon DEF TdivQUi, TdivRUi, TdivQrUi, TdivUi, FdivQUi, FdivRUi, FdivQrUi, FdivUi,
                 CdivQUi, CdivRUi, CdivQrUi, CdivUi
  <2> QED
    BY <2>1, <2>2
<1> QED
  BY <1>1, <1>2, <1>3, <1>4, <1>5, <1>6, <1>7, <1>8, <1>9, <1>10 DEF DivideStep

\* The steps of the functions that shift.
LEMMA EnteredByShift == ASSUME ShiftStep PROVE Entered'
<1>1. CASE Mul2expGrow \/ TdivQ2expGrow \/ CfdivQ2expGrow \/ CfdivR2expGrow
  <2>1. /\ {"mul_2exp"} \subseteq Calculator!OneOperand /\ {"tdiv_q_2exp"} \subseteq Calculator!OneOperand
        /\ {"cdiv_q_2exp", "fdiv_q_2exp"} \subseteq Calculator!OneOperand
        /\ {"cdiv_r_2exp", "fdiv_r_2exp"} \subseteq Calculator!OneOperand
    BY DEF Calculator!OneOperand, Calculator!ShiftFns
  <2>2. Goto("compute") /\ NoteOperand
    BY <1>1 DEF Mul2expGrow, TdivQ2expGrow, CfdivQ2expGrow, CfdivR2expGrow
  <2>3. \/ At("enter", {"mul_2exp"}) \/ At("enter", {"tdiv_q_2exp"})
        \/ At("enter", {"cdiv_q_2exp", "fdiv_q_2exp"}) \/ At("enter", {"cdiv_r_2exp", "fdiv_r_2exp"})
    BY <1>1 DEF Mul2expGrow, TdivQ2expGrow, CfdivQ2expGrow, CfdivR2expGrow, CfdivR
  <2> QED
    BY <2>1, <2>2, <2>3, GoesOn
<1>2. CASE TdivR2expGrow
  <2>1. At("enter", {"tdiv_r_2exp"}) /\ Goto("compute")
    BY <1>2 DEF TdivR2expGrow
  <2>2. c.fn = "tdiv_r_2exp" /\ c' = c
    BY <2>1 DEF At, Goto, c
  <2>3. \E size : loc' = Notes(Size(c.u), size, var'[c.u].d, var'[c.u].d, var'[c.w].d, None)
    BY <1>2 DEF TdivR2expGrow
  <2>4. loc'.vp = loc'.up
    BY <2>3 DEF Notes
  <2>5. "tdiv_r_2exp" \in Calculator!OneOperand
    BY DEF Calculator!OneOperand, Calculator!ShiftFns
  <2> QED
    BY <2>2, <2>4, <2>5 DEF Entered
<1>3. CASE \/ Mul2expZero \/ Mul2exp \/ TdivQ2expSmall \/ TdivQ2exp \/ TdivR2exp \/ CfdivQ2expSmall \/ CfdivQ2exp
           \/ CfdivR2expZero \/ CfdivR2expKeep \/ CfdivR2exp \/ Realloc2
  <2>1. Finish
    BY <1>3, Zenon DEF Mul2expZero, Mul2exp, TdivQ2expSmall, TdivQ2exp, TdivR2exp, CfdivQ2expSmall, CfdivQ2exp,
                CfdivR2expZero, CfdivR2expKeep, CfdivR2exp, Realloc2, Results, ResultsZero
  <2> QED
    BY <2>1, Ends
<1> QED
  BY <1>1, <1>2, <1>3 DEF ShiftStep

\* The steps of the bit operations.
LEMMA EnteredByBits == ASSUME BitStep PROVE Entered'
<1>1. CASE BitCopy
  BY <1>1, Ends DEF BitCopy, Goto
<1>2. CASE BitGrow
  <2>1. At("room", BitFn) /\ Goto("compute")
    BY <1>2 DEF BitGrow
  <2> QED
    BY <2>1, GoesOn
<1>3. CASE ComGrow
  <2>1. {"com"} \subseteq Calculator!OneOperand
    BY DEF Calculator!OneOperand, Calculator!UnaryFns
  <2> QED
    BY <1>3, <2>1, GoesOn DEF ComGrow
<1>4. CASE BitCompute \/ Com \/ SetBitPositive \/ SetBitNegative \/ ClrBitPositive \/ ClrBitNegative \/ ComBit
  <2>1. Finish
    BY <1>4, Zenon DEF BitCompute, Com, SetBitPositive, SetBitNegative, ClrBitPositive, ClrBitNegative, ComBit
  <2> QED
    BY <2>1, Ends
<1> QED
  BY <1>1, <1>2, <1>3, <1>4 DEF BitStep

\* The steps of the functions that multiply and add.
LEMMA EnteredByMulAdd == ASSUME MulAddStep PROVE Entered'
<1>1. CASE AorsmulLimb
  <2>1. pc = "enter" /\ pc' = pc
    BY <1>1 DEF AorsmulLimb, At
  <2> QED
    BY <2>1, Ends
<1>2. CASE AorsmulGrow
  <2>1. At("enter", AorsFns) /\ Goto("compute")
    BY <1>2 DEF AorsmulGrow
  <2> QED
    BY <2>1, GoesOn
<1>3. CASE Aorsmul1Grow \/ MulUiGrow \/ UiSubGrow \/ AbsGrow
  <2>1. /\ AorsUiFns \subseteq Calculator!OneOperand /\ {"mul_ui", "mul_si"} \subseteq Calculator!OneOperand
        /\ {"ui_sub"} \subseteq Calculator!OneOperand /\ {"abs"} \subseteq Calculator!OneOperand
    BY DEF Calculator!OneOperand, Calculator!UnaryFns, Calculator!UiFns, AorsUiFns
  <2>2. Goto("compute") /\ NoteOperand
    BY <1>3 DEF Aorsmul1Grow, MulUiGrow, UiSubGrow, AbsGrow
  <2>3. At("enter", AorsUiFns) \/ At("enter", {"mul_ui", "mul_si"}) \/ At("enter", {"ui_sub"}) \/ At("enter", {"abs"})
    BY <1>3 DEF Aorsmul1Grow, MulUiGrow, UiSubGrow, AbsGrow
  <2> QED
    BY <2>1, <2>2, <2>3, GoesOn
<1>4. CASE \/ AorsmulZero \/ Aorsmul \/ Aorsmul1Zero \/ Aorsmul1 \/ MulUiZero \/ MulUi \/ UiSub \/ AbsCopy \/ SetSi
  <2>1. Finish
    BY <1>4, Zenon DEF AorsmulZero, Aorsmul, Aorsmul1Zero, Aorsmul1, MulUiZero, MulUi, UiSub, AbsCopy, SetSi
  <2> QED
    BY <2>1, Ends
<1> QED
  BY <1>1, <1>2, <1>3, <1>4 DEF MulAddStep

\* Every function that computes is one of those.
LEMMA EnteredHolds == Spec => []Entered
<1>1. Init => Entered
  BY DEF Init, Entered
<1>2. Entered /\ [Next]_vars => Entered'
  <2>1. ASSUME Entered, UNCHANGED vars PROVE Entered'
    BY <2>1 DEF Entered, vars, c
  <2> QED
    BY <2>1, EnteredByHeap, EnteredByDivision, EnteredByShift, EnteredByBits, EnteredByMulAdd DEF Next
<1> QED
  BY <1>1, <1>2, PTL DEF Spec

=============================================================================
