--------------------------- MODULE TmpReentProofs ---------------------------
(***************************************************************************)
(* Proofs about TmpReent.                                                  *)
(***************************************************************************)
EXTENDS TmpReent, TLAPS, FiniteSetTheorems, WellFoundedInduction

-----------------------------------------------------------------------------
(* Induction of sets of numbers; rounding up to a multiple of a number and   *)
(* sums of multiples.                                                        *)

\* A set of natural numbers that is not empty has a least element.
LEMMA LeastElement ==
  ASSUME NEW T, T \subseteq Nat, T # {}
  PROVE  \E x \in T : \A y \in T : x <= y
<1> DEFINE R == OpToRel(<, Nat)
<1>1. IsWellFoundedOn(R, Nat)
  BY NatLessThanWellFounded
<1>2. \A x, y \in Nat : y < x => <<y, x>> \in R
  BY DEF R, OpToRel
<1> HIDE DEF R
<1>3. PICK x \in T : \A y \in T : ~ (<<y, x>> \in R)
  BY <1>1, WFMin
<1>4. ASSUME NEW y \in T PROVE x <= y
  <2>1. x \in Nat /\ y \in Nat /\ ~(y < x)
    BY <1>2, <1>3
  <2> QED
    BY <2>1
<1> QED
  BY <1>4

\* Induction up to n, for a set of numbers.
LEMMA SetInduction ==
  ASSUME NEW n \in Nat, NEW P, 0 \in P, \A k \in 0 .. n - 1 : k \in P => k + 1 \in P
  PROVE  0 .. n \subseteq P
<1> DEFINE T == (0 .. n) \ P
<1> SUFFICES ASSUME T # {} PROVE FALSE
  OBVIOUS
<1>1. T \subseteq Nat
  OBVIOUS
<1> HIDE DEF T
<1>2. PICK x \in T : \A y \in T : x <= y
  BY <1>1, LeastElement
<1> USE DEF T
<1>3. x # 0 /\ x - 1 \in 0 .. n - 1 /\ x - 1 \notin T
  BY <1>2
<1> QED
  BY <1>2, <1>3

\* Rounding up to a multiple of a number, as the allocators do, and sums of multiples.
LEMMA Multiple ==
  ASSUME NEW a \in Nat \ {0}, NEW k \in Int
  PROVE  (a * k) % a = 0
OBVIOUS

\* Rounding up gives a multiple that is no smaller.
LEMMA RoundedUp ==
  ASSUME NEW a \in Nat \ {0}, NEW n \in Nat
  PROVE  /\ n + ((-n) % a) \in Nat /\ n + ((-n) % a) >= n
         /\ (n + ((-n) % a)) % a = 0
<1>1. (-n) % a \in 0 .. a - 1
  OBVIOUS
<1> DEFINE q == (-n) \div a
<1>2. q \in Int /\ -n = a * q + ((-n) % a)
  OBVIOUS
<1>3. -q \in Int /\ n + ((-n) % a) = a * (-q)
  BY <1>1, <1>2
<1> HIDE DEF q
<1>4. (a * (-q)) % a = 0
  BY <1>3, Multiple
<1> QED
  BY <1>1, <1>3, <1>4

\* The sum of multiples is one.
LEMMA MultipleSum ==
  ASSUME NEW a \in Nat \ {0}, NEW m \in Nat, NEW n \in Nat, m % a = 0, n % a = 0
  PROVE  (m + n) % a = 0
<1> DEFINE p == m \div a  q == n \div a
<1>1. p \in Int /\ q \in Int /\ m = a * p /\ n = a * q
  OBVIOUS
<1>2. m + n = a * (p + q)
  BY <1>1
<1>3. p + q \in Int
  BY <1>1
<1> HIDE DEF p, q
<1>4. (a * (p + q)) % a = 0
  BY <1>3, Multiple
<1> QED
  BY <1>2, <1>4

-----------------------------------------------------------------------------

\* Two tables of headers have the same links in S.
SameLinks(h, k, S) == \A q \in S : k[q].next = h[q].next

\* Nodes that can be numbered along their links are a list.
LEMMA ListOf ==
  ASSUME NEW h, NEW p, NEW S, IsFiniteSet(S), NEW s, NEW n \in Nat,
         Numbers(s, n, h, p, S), n = Cardinality(S)
  PROVE  IsList(h, p, S)
BY DEF IsList, Numbers

\* The nodes of a list can be.
LEMMA NumbersOf ==
  ASSUME NEW h, NEW p, NEW S \in SUBSET Node, IsList(h, p, S)
  PROVE  /\ Cardinality(S) \in Nat /\ IsFiniteSet(S)
         /\ \E s : Numbers(s, Cardinality(S), h, p, S)
<1>1. IsFiniteSet(S)
  BY FS_Subset, ReentAssumption
<1> QED
  BY <1>1, FS_CardinalityType DEF IsList

\* Nothing is an empty list, and an empty list is nothing.
LEMMA EmptyList ==
  ASSUME NEW h
  PROVE  IsList(h, Null, {})
<1> DEFINE s == [i \in 1 .. 0 |-> Null]
<1>1. Numbers(s, 0, h, Null, {})
  BY DEF Numbers
<1> HIDE DEF s
<1> QED
  BY <1>1, FS_EmptySet, ListOf

\* A list that begins with a null pointer has no nodes.
LEMMA ListEmpty ==
  ASSUME NEW h, NEW S \in SUBSET Node, IsList(h, Null, S)
  PROVE  S = {}
<1>1. PICK s : Cardinality(S) \in Nat /\ IsFiniteSet(S) /\ Numbers(s, Cardinality(S), h, Null, S)
  BY NumbersOf
<1>2. Cardinality(S) = 0
  <2> SUFFICES ASSUME Cardinality(S) # 0 PROVE FALSE
    OBVIOUS
  <2>1. Cardinality(S) \in 1 .. Cardinality(S)
    BY <1>1
  <2>2. s[Cardinality(S)] \in S /\ s[Cardinality(S)] = Null
    BY <1>1, <2>1 DEF Numbers
  <2> QED
    BY <2>2, ReentAssumption
<1> QED
  BY <1>1, <1>2, FS_EmptySet

\* A list stays one while the links of its blocks do.
LEMMA ListKept ==
  ASSUME NEW h, NEW k, NEW p, NEW S \in SUBSET Node, IsList(h, p, S), SameLinks(h, k, S)
  PROVE  IsList(k, p, S)
<1>1. PICK s : Cardinality(S) \in Nat /\ IsFiniteSet(S) /\ Numbers(s, Cardinality(S), h, p, S)
  BY NumbersOf
<1>2. PICK n : n = Cardinality(S)
  OBVIOUS
<1>3. Numbers(s, n, k, p, S)
  <2>1. ASSUME NEW i \in 1 .. n PROVE k[s[i]].next = IF i = 1 THEN Null ELSE s[i - 1]
    <3>1. s[i] \in S /\ h[s[i]].next = IF i = 1 THEN Null ELSE s[i - 1]
      BY <1>1, <1>2 DEF Numbers
    <3> QED
      BY <3>1 DEF SameLinks
  <2> QED
    BY <1>1, <1>2, <2>1 DEF Numbers
<1> QED
  BY <1>1, <1>2, <1>3, ListOf

\* A block put before a list makes it longer.
LEMMA ListPush ==
  ASSUME NEW h, NEW k, NEW p, NEW S \in SUBSET Node, IsList(h, p, S), SameLinks(h, k, S),
         NEW q \in Node \ S, k[q].next = p
  PROVE  IsList(k, q, S \cup {q})
<1>1. PICK s : Cardinality(S) \in Nat /\ IsFiniteSet(S) /\ Numbers(s, Cardinality(S), h, p, S)
  BY NumbersOf
<1>2. PICK n \in Nat : n = Cardinality(S)
  BY <1>1
<1>3. PICK T : T = S \cup {q}
  OBVIOUS
<1>4. IsFiniteSet(T) /\ Cardinality(T) = n + 1
  BY <1>1, <1>2, <1>3, FS_AddElement
<1> DEFINE t == [i \in 1 .. n + 1 |-> IF i = n + 1 THEN q ELSE s[i]]
<1>5. s \in [1 .. n -> S] /\ p = (IF n = 0 THEN Null ELSE s[n])
  BY <1>1, <1>2 DEF Numbers
<1>6. /\ t \in [1 .. n + 1 -> T] /\ t[n + 1] = q /\ \A i \in 1 .. n : t[i] = s[i] /\ t[i] # q
      /\ n + 1 # 0
  BY <1>3, <1>5
<1> HIDE DEF t
<1>7. \A r \in T : \E i \in 1 .. n + 1 : t[i] = r
  <2>1. ASSUME NEW r \in S PROVE \E i \in 1 .. n + 1 : t[i] = r
    <3>1. PICK i \in 1 .. n : s[i] = r
      BY <1>1, <1>2 DEF Numbers
    <3> QED
      BY <1>6, <3>1
  <2> QED
    BY <1>3, <1>6, <2>1
<1>8. ASSUME NEW i \in 1 .. n + 1, NEW j \in 1 .. n + 1, t[i] = t[j] PROVE i = j
  <2>1. \A a, b \in 1 .. n : s[a] = s[b] => a = b
    BY <1>1, <1>2 DEF Numbers
  <2> QED
    BY <1>6, <1>8, <2>1
<1>9. ASSUME NEW i \in 1 .. n + 1 PROVE k[t[i]].next = IF i = 1 THEN Null ELSE t[i - 1]
  <2>1. CASE i = n + 1
    <3>1. k[t[i]].next = p
      BY <1>6, <2>1
    <3>2. CASE n = 0
      BY <1>5, <2>1, <3>1, <3>2
    <3>3. CASE n # 0
      <4>1. i # 1 /\ i - 1 = n /\ n \in 1 .. n
        BY <2>1, <3>3
      <4> QED
        BY <1>5, <1>6, <3>1, <3>3, <4>1
    <3> QED
      BY <3>2, <3>3
  <2>2. CASE i # n + 1
    <3>1. i \in 1 .. n /\ (i # 1 => i - 1 \in 1 .. n)
      BY <2>2
    <3>2. s[i] \in S /\ h[s[i]].next = IF i = 1 THEN Null ELSE s[i - 1]
      BY <1>1, <1>2, <3>1 DEF Numbers
    <3> QED
      BY <1>6, <3>1, <3>2 DEF SameLinks
  <2> QED
    BY <2>1, <2>2
<1>10. Numbers(t, n + 1, k, q, T)
  BY <1>6, <1>7, <1>8, <1>9 DEF Numbers
<1> QED
  BY <1>3, <1>4, <1>10, ListOf

\* The first block taken off a list leaves the rest of it.
LEMMA ListPop ==
  ASSUME NEW h, NEW k, NEW p, p # Null, NEW S \in SUBSET Node, IsList(h, p, S),
         SameLinks(h, k, S \ {p})
  PROVE  p \in S /\ IsList(k, h[p].next, S \ {p})
<1>1. PICK s : Cardinality(S) \in Nat /\ IsFiniteSet(S) /\ Numbers(s, Cardinality(S), h, p, S)
  BY NumbersOf
<1>2. PICK n \in Nat : n = Cardinality(S)
  BY <1>1
<1>3. /\ n # 0 /\ n \in 1 .. n /\ n - 1 \in Nat /\ p = s[n] /\ s \in [1 .. n -> S] /\ p \in S
      /\ h[p].next = IF n = 1 THEN Null ELSE s[n - 1]
  <2>1. n # 0 /\ p = s[n] /\ s \in [1 .. n -> S]
    BY <1>1, <1>2 DEF Numbers
  <2>2. n \in 1 .. n /\ n - 1 \in Nat
    BY <2>1
  <2> QED
    BY <1>1, <1>2, <2>1, <2>2 DEF Numbers
<1>4. PICK T : T = S \ {p}
  OBVIOUS
<1>5. IsFiniteSet(T) /\ Cardinality(T) = n - 1
  BY <1>1, <1>2, <1>3, <1>4, FS_RemoveElement
<1> DEFINE t == [i \in 1 .. n - 1 |-> s[i]]
<1>6. \A i \in 1 .. n - 1 : t[i] = s[i] /\ i \in 1 .. n /\ i # n /\ s[i] \in S /\ s[i] # p
  BY <1>1, <1>2, <1>3 DEF Numbers
<1>7. t \in [1 .. n - 1 -> T]
  BY <1>4, <1>6
<1> HIDE DEF t
<1>8. ASSUME NEW r \in T PROVE \E i \in 1 .. n - 1 : t[i] = r
  <2>1. PICK i \in 1 .. n : s[i] = r
    BY <1>1, <1>2, <1>4 DEF Numbers
  <2>2. i \in 1 .. n - 1
    BY <1>3, <1>4, <2>1
  <2> QED
    BY <1>6, <2>1, <2>2
<1>9. ASSUME NEW i \in 1 .. n - 1, NEW j \in 1 .. n - 1, t[i] = t[j] PROVE i = j
  BY <1>1, <1>2, <1>6, <1>9 DEF Numbers
<1>10. ASSUME NEW i \in 1 .. n - 1 PROVE k[t[i]].next = IF i = 1 THEN Null ELSE t[i - 1]
  <2>1. h[s[i]].next = IF i = 1 THEN Null ELSE s[i - 1]
    BY <1>1, <1>2, <1>6 DEF Numbers
  <2>2. i # 1 => i - 1 \in 1 .. n - 1
    OBVIOUS
  <2>3. s[i] \in S \ {p} /\ t[i] = s[i]
    BY <1>6
  <2> QED
    BY <1>6, <2>1, <2>2, <2>3 DEF SameLinks
<1>11. h[p].next = IF n - 1 = 0 THEN Null ELSE t[n - 1]
  <2>1. n - 1 # 0 => n - 1 \in 1 .. n - 1 /\ n # 1
    BY <1>3
  <2> QED
    BY <1>3, <1>6, <2>1
<1>12. Numbers(t, n - 1, k, h[p].next, T)
  BY <1>7, <1>8, <1>9, <1>10, <1>11 DEF Numbers
<1> QED
  BY <1>3, <1>4, <1>5, <1>12, ListOf

\* What is reached from the first block of a list within as many links as there
\* are addresses is the list.
LEMMA ReachedIsList ==
  ASSUME NEW h, NEW p, NEW S \in SUBSET Node, IsList(h, p, S)
  PROVE  Reached(h, p, Cardinality(Node)) = S
<1>1. PICK s : Cardinality(S) \in Nat /\ IsFiniteSet(S) /\ Numbers(s, Cardinality(S), h, p, S)
  BY NumbersOf
<1>2. PICK n, N : n = Cardinality(S) /\ N = Cardinality(Node)
  OBVIOUS
<1>3. n \in Nat /\ N \in Nat /\ n <= N
  BY <1>1, <1>2, FS_Subset, FS_CardinalityType, ReentAssumption
<1> DEFINE Is(f) == f = [k \in 0 .. N |-> IF k = 0 THEN p ELSE IF f[k - 1] = Null THEN Null
                                          ELSE h[f[k - 1]].next]
           F == [k \in 0 .. N |-> IF k < n THEN s[n - k] ELSE Null]
           G == CHOOSE f : Is(f)
<1>4. /\ s \in [1 .. n -> S] /\ p = (IF n = 0 THEN Null ELSE s[n])
      /\ \A i \in 1 .. n : s[i] # Null /\ s[i] \in S
      /\ \A i \in 1 .. n : h[s[i]].next = IF i = 1 THEN Null ELSE s[i - 1]
  BY <1>1, <1>2, ReentAssumption DEF Numbers
<1>5. Is(F)
  <2>1. ASSUME NEW k \in 0 .. N
        PROVE  F[k] = IF k = 0 THEN p ELSE IF F[k - 1] = Null THEN Null ELSE h[F[k - 1]].next
    <3>1. CASE k = 0
      BY <1>3, <1>4, <3>1
    <3>2. CASE k # 0
      <4>1. k - 1 \in 0 .. N /\ F[k - 1] = IF k - 1 < n THEN s[n - (k - 1)] ELSE Null
        BY <1>3, <3>2
      <4>2. CASE k - 1 < n
        <5>1. n - (k - 1) \in 1 .. n
          BY <1>3, <3>2, <4>2
        <5>2. F[k - 1] = s[n - (k - 1)] /\ F[k - 1] # Null
          BY <1>4, <4>1, <4>2, <5>1
        <5>3. h[F[k - 1]].next = IF n - (k - 1) = 1 THEN Null ELSE s[(n - (k - 1)) - 1]
          BY <1>4, <5>1, <5>2
        <5>4. (n - (k - 1) = 1 <=> ~(k < n)) /\ (n - (k - 1)) - 1 = n - k
          BY <1>3, <4>2
        <5>5. F[k] = IF k < n THEN s[n - k] ELSE Null
          OBVIOUS
        <5> HIDE DEF F
        <5> QED
          BY <3>2, <5>2, <5>3, <5>4, <5>5
      <4>3. CASE ~(k - 1 < n)
        BY <1>3, <3>2, <4>1, <4>3
      <4> QED
        BY <4>2, <4>3
    <3> QED
      BY <3>1, <3>2
  <2>2. F = [k \in 0 .. N |-> F[k]]
    OBVIOUS
  <2> QED
    BY <2>1, <2>2
<1>6. \A k \in 0 .. N : F[k] = IF k < n THEN s[n - k] ELSE Null
  OBVIOUS
<1> HIDE DEF Is, F
<1>7. Is(CHOOSE f : Is(f))
  BY <1>5, Zenon
<1> DEFINE P == {k \in 0 .. N : G[k] = F[k]}
<1> HIDE DEF G
<1>8. G = [k \in 0 .. N |-> IF k = 0 THEN p ELSE IF G[k - 1] = Null THEN Null
                                          ELSE h[G[k - 1]].next]
  BY <1>7 DEF G, Is
<1>9. 0 .. N \subseteq P
  <2>1. 0 \in P
    BY <1>3, <1>5, <1>8 DEF Is
  <2>2. ASSUME NEW k \in 0 .. N - 1, k \in P PROVE k + 1 \in P
    <3>1. k \in 0 .. N /\ k + 1 \in 0 .. N /\ k + 1 # 0 /\ (k + 1) - 1 = k
      BY <1>3
    <3>2. G[k + 1] = (IF G[k] = Null THEN Null ELSE h[G[k]].next)
      BY <1>8, <3>1
    <3>3. F[k + 1] = (IF F[k] = Null THEN Null ELSE h[F[k]].next)
      BY <1>5, <3>1 DEF Is
    <3> QED
      BY <2>2, <3>1, <3>2, <3>3
  <2> HIDE DEF P
  <2> QED
    BY <1>3, <2>1, <2>2, SetInduction, Zenon
<1>10. Reached(h, p, N) = {G[k] : k \in 0 .. N} \ {Null}
  BY DEF Reached, G, Is
<1>11. {G[k] : k \in 0 .. N} = {F[k] : k \in 0 .. N}
  BY <1>9
<1>12. {F[k] : k \in 0 .. N} \ {Null} = S
  <2>1. ASSUME NEW k \in 0 .. N, F[k] # Null PROVE F[k] \in S
    <3>1. k < n /\ n - k \in 1 .. n
      BY <1>3, <1>6, <2>1
    <3> QED
      BY <1>4, <1>6, <3>1
  <2>2. ASSUME NEW q \in S PROVE q # Null /\ \E k \in 0 .. N : F[k] = q
    <3>1. PICK i \in 1 .. n : s[i] = q
      BY <1>1, <1>2 DEF Numbers
    <3>2. n - i \in 0 .. N /\ n - i < n /\ n - (n - i) = i
      BY <1>3
    <3> QED
      BY <1>4, <1>6, <3>1, <3>2
  <2> QED
    BY <2>1, <2>2
<1> QED
  BY <1>2, <1>10, <1>11, <1>12

-----------------------------------------------------------------------------
\* What the invariant says of the list of one function.
LEMMA ListAt ==
  ASSUME IInv, NEW t \in Thread, NEW f \in 1 .. Len(frames[t])
  PROVE  /\ ToFree(t, f) \in SUBSET Node /\ ToFree(t, f) \subseteq DOMAIN heap
         /\ ToFree(t, f) \subseteq Got(t, f)
         /\ IsList(header, First(t, f), ToFree(t, f))
         /\ frames[t] \in Seq(Frame) /\ frames[t][f] \in Frame
<1>1. ToFree(t, f) \subseteq Got(t, f)
  BY DEF IInv, ListsExact
<1>2. ToFree(t, f) \subseteq Node
  BY <1>1 DEF Got
<1>3. ToFree(t, f) \subseteq DOMAIN heap
  BY <1>2 DEF IInv, NothingLost
<1>4. IsList(header, First(t, f), ToFree(t, f))
  BY DEF IInv, ListState
<1>5. frames[t] \in Seq(Frame) /\ frames[t][f] \in Frame
  BY DEF IInv, TypeOK
<1> QED
  BY <1>1, <1>2, <1>3, <1>4, <1>5

\* No block is on two lists.
LEMMA Apart ==
  ASSUME IInv, NEW t \in Thread, NEW f \in 1 .. Len(frames[t]),
         NEW u \in Thread, NEW g \in 1 .. Len(frames[u]), t # u \/ f # g
  PROVE  ToFree(t, f) \cap ToFree(u, g) = {}
BY DEF IInv, NothingLost

\* A step that leaves one function what it has to free.
Same(u, g) ==
  /\ ToFree(u, g)' = ToFree(u, g) /\ IsList(header', First(u, g)', ToFree(u, g))
  /\ Got(u, g)' = Got(u, g) /\ (Freeing(u, g) => Freeing(u, g)')

\* A function whose list and whose links a step leaves alone is as it was.
LEMMA SameList ==
  ASSUME IInv, NEW u \in Thread, NEW g \in 1 .. Len(frames[u]),
         First(u, g)' = First(u, g), SameLinks(header, header', ToFree(u, g)),
         Got(u, g)' = Got(u, g), Freeing(u, g) => Freeing(u, g)'
  PROVE  Same(u, g)
<1>1. ToFree(u, g) \in SUBSET Node /\ IsList(header, First(u, g), ToFree(u, g))
  BY ListAt
<1>2. IsList(header', First(u, g)', ToFree(u, g))
  BY <1>1, ListKept
<1>3. Reached(header', First(u, g)', Cardinality(Node)) = ToFree(u, g)
  BY <1>1, <1>2, ReachedIsList
<1> QED
  BY <1>2, <1>3 DEF Same, ToFree

\* What the functions have to free before a step, and after it: of the thread t the
\* first n functions keep what they have, another has Old before and New after.
Others(t, n) ==
  /\ \A u \in Thread \ {t} : /\ Len(frames'[u]) = Len(frames[u])
                             /\ \A g \in 1 .. Len(frames[u]) : Same(u, g)
  /\ \A g \in 1 .. n : Same(t, g)

OldTop(t, n, Old) ==
  /\ Len(frames[t]) \in {n, n + 1}
  /\ Old = IF Len(frames[t]) = n THEN {} ELSE ToFree(t, n + 1)

NewTop(t, n, New) ==
  /\ Len(frames'[t]) \in {n, n + 1}
  /\ Len(frames'[t]) = n => New = {}
  /\ Len(frames'[t]) = n + 1 =>
       /\ IsList(header', First(t, n + 1)', New)
       /\ New \subseteq Got(t, n + 1)'
       /\ ~Freeing(t, n + 1)' => New = Got(t, n + 1)'

\* The argument for all actions: what the last function of one thread has changes, by nodes
\* that were its own or free, and nothing else does.
LEMMA Preserved ==
  ASSUME IInv, NEW t \in Thread, NEW n \in Nat, NEW Old, NEW New \in SUBSET Node,
         Others(t, n), OldTop(t, n, Old), NewTop(t, n, New),
         New \subseteq Old \cup (Node \ DOMAIN heap),
         DOMAIN heap' = (DOMAIN heap \ Old) \cup New
  PROVE  ListState' /\ ListsExact' /\ NothingLost'
<1>1. ASSUME Len(frames'[t]) = n + 1 PROVE ToFree(t, n + 1)' = New
  <2>1. IsList(header', First(t, n + 1)', New)
    BY <1>1 DEF NewTop
  <2>2. Reached(header', First(t, n + 1)', Cardinality(Node)) = New
    BY <2>1, ReachedIsList
  <2> QED
    BY <2>2 DEF ToFree
<1>2. /\ Len(frames[t]) \in {n, n + 1} /\ Len(frames'[t]) \in {n, n + 1}
      /\ n \in 0 .. Len(frames[t]) /\ n \in 0 .. Len(frames'[t])
  BY DEF OldTop, NewTop
<1>3. ASSUME NEW u \in Thread, NEW g \in 1 .. Len(frames'[u])
      PROVE  \/ g \in 1 .. Len(frames[u]) /\ Same(u, g) /\ (u = t => g \in 1 .. n)
             \/ u = t /\ g = n + 1 /\ Len(frames'[t]) = n + 1
  <2>1. CASE u # t
    BY <2>1 DEF Others
  <2>2. CASE u = t /\ g <= n
    <3>1. g \in 1 .. n
      BY <1>2, <2>2
    <3> QED
      BY <1>2, <2>2, <3>1 DEF Others
  <2>3. CASE u = t /\ ~(g <= n)
    BY <1>2, <2>3
  <2> QED
    BY <2>1, <2>2, <2>3
<1>4. ListState'
  <2> SUFFICES ASSUME NEW u \in Thread, NEW g \in 1 .. Len(frames'[u])
               PROVE  IsList(header', First(u, g)', ToFree(u, g)')
    BY DEF ListState
  <2>1. CASE Same(u, g)
    BY <2>1 DEF Same
  <2>2. CASE u = t /\ g = n + 1 /\ Len(frames'[t]) = n + 1
    BY <1>1, <2>2 DEF NewTop
  <2> QED
    BY <1>3, <2>1, <2>2
<1>5. ListsExact'
  <2> SUFFICES ASSUME NEW u \in Thread, NEW g \in 1 .. Len(frames'[u])
               PROVE  /\ ToFree(u, g)' \subseteq Got(u, g)'
                      /\ ~Freeing(u, g)' => ToFree(u, g)' = Got(u, g)'
    BY DEF ListsExact
  <2>1. CASE g \in 1 .. Len(frames[u]) /\ Same(u, g)
    <3>1. ToFree(u, g) \subseteq Got(u, g) /\ (~Freeing(u, g) => ToFree(u, g) = Got(u, g))
      BY <2>1 DEF IInv, ListsExact
    <3> QED
      BY <2>1, <3>1 DEF Same
  <2>2. CASE u = t /\ g = n + 1 /\ Len(frames'[t]) = n + 1
    BY <1>1, <2>2 DEF NewTop
  <2> QED
    BY <1>3, <2>1, <2>2
<1>6. ASSUME NEW u \in Thread, NEW g \in 1 .. Len(frames[u]), u = t => g \in 1 .. n
      PROVE  /\ g \in 1 .. Len(frames'[u]) /\ ToFree(u, g)' = ToFree(u, g)
             /\ ToFree(u, g) \cap Old = {} /\ ToFree(u, g) \cap New = {}
  <2>1. ToFree(u, g)' = ToFree(u, g) /\ g \in 1 .. Len(frames'[u])
    BY <1>2, <1>6 DEF Others, Same
  <2>2. ToFree(u, g) \cap Old = {}
    <3>1. CASE Len(frames[t]) = n
      BY <3>1 DEF OldTop
    <3>2. CASE Len(frames[t]) # n
      <4>1. n + 1 \in 1 .. Len(frames[t]) /\ Old = ToFree(t, n + 1) /\ (u # t \/ g # n + 1)
        BY <1>2, <1>6, <3>2 DEF OldTop
      <4> QED
        BY <4>1, Apart
    <3> QED
      BY <3>1, <3>2
  <2>3. ToFree(u, g) \subseteq DOMAIN heap
    BY ListAt
  <2> QED
    BY <2>1, <2>2, <2>3
<1>7. NothingLost'
  <2>1. ASSUME NEW p \in Node, p \in DOMAIN heap'
        PROVE  \E u \in Thread : \E g \in 1 .. Len(frames'[u]) : p \in ToFree(u, g)'
    <3>1. CASE p \in New
      <4>1. Len(frames'[t]) = n + 1
        BY <1>2, <3>1 DEF NewTop
      <4>2. n + 1 \in 1 .. Len(frames'[t])
        BY <4>1
      <4> QED
        BY <1>1, <3>1, <4>1, <4>2
    <3>2. CASE p \notin New
      <4>1. p \in DOMAIN heap /\ p \notin Old
        BY <2>1, <3>2
      <4>2. PICK u \in Thread : \E g \in 1 .. Len(frames[u]) : p \in ToFree(u, g)
        BY <4>1 DEF IInv, NothingLost
      <4>3. PICK g \in 1 .. Len(frames[u]) : p \in ToFree(u, g)
        BY <4>2
      <4>4. u = t => g \in 1 .. n
        BY <1>2, <4>1, <4>3 DEF OldTop
      <4> QED
        BY <1>6, <4>3, <4>4
    <3> QED
      BY <3>1, <3>2
  <2>2. ASSUME NEW p \in Node, NEW u \in Thread, NEW g \in 1 .. Len(frames'[u]),
               p \in ToFree(u, g)'
        PROVE  p \in DOMAIN heap'
    <3>1. CASE g \in 1 .. Len(frames[u]) /\ Same(u, g) /\ (u = t => g \in 1 .. n)
      <4>1. p \in ToFree(u, g) /\ p \in DOMAIN heap
        BY <2>2, <3>1, ListAt DEF Same
      <4>2. p \notin Old
        BY <1>6, <3>1, <4>1
      <4> QED
        BY <4>1, <4>2
    <3>2. CASE u = t /\ g = n + 1 /\ Len(frames'[t]) = n + 1
      BY <1>1, <2>2, <3>2
    <3> QED
      BY <1>3, <3>1, <3>2
  <2>3. ASSUME NEW u \in Thread, NEW v \in Thread,
               NEW f \in 1 .. Len(frames'[u]), NEW g \in 1 .. Len(frames'[v]), u # v \/ f # g
        PROVE  ToFree(u, f)' \cap ToFree(v, g)' = {}
    <3>1. CASE /\ f \in 1 .. Len(frames[u]) /\ Same(u, f) /\ (u = t => f \in 1 .. n)
               /\ g \in 1 .. Len(frames[v]) /\ Same(v, g) /\ (v = t => g \in 1 .. n)
      BY <2>3, <3>1, Apart DEF Same
    <3>2. CASE /\ f \in 1 .. Len(frames[u]) /\ Same(u, f) /\ (u = t => f \in 1 .. n)
               /\ v = t /\ g = n + 1 /\ Len(frames'[t]) = n + 1
      BY <1>1, <1>6, <3>2 DEF Same
    <3>3. CASE /\ g \in 1 .. Len(frames[v]) /\ Same(v, g) /\ (v = t => g \in 1 .. n)
               /\ u = t /\ f = n + 1 /\ Len(frames'[t]) = n + 1
      BY <1>1, <1>6, <3>3 DEF Same
    <3>4. CASE u = t /\ f = n + 1 /\ v = t /\ g = n + 1
      BY <2>3, <3>4
    <3> QED
      BY <1>3, <3>1, <3>2, <3>3, <3>4
  <2> QED
    BY <2>1, <2>2, <2>3 DEF NothingLost
<1> QED
  BY <1>4, <1>5, <1>7

\* What a step leaves alone: other threads, and of its own thread the functions that
\* called the last one.
Still(t, n) ==
  /\ \A u \in Thread \ {t} : frames'[u] = frames[u] /\ pc'[u] = pc[u] /\ mark'[u] = mark[u]
  /\ n <= Len(frames[t])
  /\ \A g \in 1 .. n : /\ frames'[t][g] = frames[t][g]
                       /\ ~Freeing(t, g) /\ ~Freeing(t, g)'

LinksKept(t, n) ==
  \A u \in Thread : \A g \in 1 .. Len(frames[u]) :
    u # t \/ g <= n => SameLinks(header, header', ToFree(u, g))

\* Functions whose frames and links are as before are left alone.
LEMMA OthersKept ==
  ASSUME IInv, NEW t \in Thread, NEW n \in Nat, Still(t, n), LinksKept(t, n)
  PROVE  Others(t, n)
<1>1. ASSUME NEW u \in Thread \ {t}, NEW g \in 1 .. Len(frames[u]) PROVE Same(u, g)
  <2>1. frames'[u] = frames[u] /\ pc'[u] = pc[u] /\ mark'[u] = mark[u]
    BY DEF Still
  <2>2. Freeing(u, g)' <=> Freeing(u, g)
    BY <2>1 DEF Freeing
  <2>3. First(u, g)' = First(u, g) /\ Got(u, g)' = Got(u, g)
    BY <2>1, <2>2 DEF First, Got
  <2>4. SameLinks(header, header', ToFree(u, g))
    BY DEF LinksKept
  <2> QED
    BY <2>2, <2>3, <2>4, SameList
<1>2. ASSUME NEW g \in 1 .. n PROVE Same(t, g)
  <2>1. /\ frames'[t][g] = frames[t][g] /\ ~Freeing(t, g) /\ ~Freeing(t, g)'
        /\ g \in 1 .. Len(frames[t])
    BY DEF Still, IInv, TypeOK
  <2>2. First(t, g)' = First(t, g) /\ Got(t, g)' = Got(t, g)
    BY <2>1 DEF First, Got
  <2>3. SameLinks(header, header', ToFree(t, g))
    BY <2>1 DEF LinksKept
  <2> QED
    BY <2>1, <2>2, <2>3, SameList
<1> QED
  BY <1>1, <1>2 DEF Others, Still

\* A block that is on no list but that of the last function may change its header.
LEMMA LinksOfOthers ==
  ASSUME IInv, NEW t \in Thread, NEW n \in Nat, NEW p \in Node, NEW e,
         header' = [header EXCEPT ![p] = e],
         \A u \in Thread : \A g \in 1 .. Len(frames[u]) : u # t \/ g <= n => p \notin ToFree(u, g)
  PROVE  LinksKept(t, n)
<1>1. ASSUME NEW q \in Node, q # p PROVE header'[q] = header[q]
  BY <1>1 DEF IInv, TypeOK
<1>2. ASSUME NEW u \in Thread, NEW g \in 1 .. Len(frames[u]), u # t \/ g <= n
      PROVE  SameLinks(header, header', ToFree(u, g))
  <2>1. p \notin ToFree(u, g) /\ ToFree(u, g) \subseteq Node
    BY <1>2, ListAt
  <2> QED
    BY <1>1, <2>1 DEF SameLinks
<1> QED
  BY <1>2 DEF LinksKept

\* Where no header changes no link does.
LEMMA LinksUnchanged ==
  ASSUME IInv, NEW t \in Thread, NEW n \in Nat, header' = header
  PROVE  LinksKept(t, n)
BY DEF LinksKept, SameLinks

-----------------------------------------------------------------------------
\* The blocks of the functions that a step leaves alone are where they were.
LEMMA PlacesKept ==
  ASSUME IInv, NEW t \in Thread, NEW u \in Thread \ {t},
         frames'[u] = frames[u], pc'[u] = pc[u], sp'[u] = sp[u]
  PROVE  /\ sp'[u] % Align = 0
         /\ pc'[u] = "free" => frames'[u] # <<>>
         /\ \A f \in 1 .. Len(frames'[u]) :
              /\ frames'[u][f].sp % Align = 0
              /\ \A b \in frames'[u][f].blocks : Placed(u, f, b)'
<1>1. /\ sp[u] % Align = 0 /\ (pc[u] = "free" => frames[u] # <<>>)
      /\ \A f \in 1 .. Len(frames[u]) :
              /\ frames[u][f].sp % Align = 0
              /\ \A b \in frames[u][f].blocks : Placed(u, f, b)
  BY DEF IInv, StackState
<1> QED
  BY <1>1 DEF Placed

\* No function has been called, and nothing is allocated.
LEMMA InitIInv ==
  ASSUME Init
  PROVE  IInv
<1>1. /\ frames = [t \in Thread |-> <<>>] /\ DOMAIN heap = {}
      /\ \A t \in Thread : frames[t] = <<>> /\ Len(frames[t]) = 0 /\ 1 .. Len(frames[t]) = {}
      /\ \A t \in Thread : pc[t] = "run" /\ sp[t] = 0
  BY DEF Init
<1>2. TypeOK
  BY <1>1 DEF Init, TypeOK, Junk
<1>3. ListState /\ ListsExact
  BY <1>1 DEF ListState, ListsExact
<1>4. NothingLost /\ FreedWithSize
  BY <1>1 DEF NothingLost, FreedWithSize
<1>5. StackState
  <2>1. 0 % Align = 0
    BY ReentAssumption
  <2> QED
    BY <1>1, <2>1 DEF StackState
<1> QED
  BY <1>2, <1>3, <1>4, <1>5 DEF IInv

\* The function that a thread is in.
LEMMA TopFrame ==
  ASSUME IInv, NEW t \in Thread, frames[t] # <<>>
  PROVE  /\ frames[t] \in Seq(Frame) /\ Len(frames[t]) \in Nat /\ Len(frames[t]) - 1 \in Nat
         /\ Len(frames[t]) \in 1 .. Len(frames[t])
         /\ Last(frames[t]) = frames[t][Len(frames[t])]
         /\ frames[t][Len(frames[t])] \in Frame
BY DEF IInv, TypeOK, Last

\* TMP_MARK.
LEMMA MarkStep ==
  ASSUME IInv, NEW t \in Thread, Mark(t)
  PROVE  IInv'
<1>1. PICK n, e : n = Len(frames[t]) /\ e = [marker |-> Null, sp |-> sp[t], blocks |-> {}]
  OBVIOUS
<1>2. frames[t] \in Seq(Frame) /\ n \in Nat /\ e \in Frame /\ frames \in [Thread -> Seq(Frame)]
  <2>1. sp[t] \in Nat /\ frames \in [Thread -> Seq(Frame)]
    BY DEF IInv, TypeOK
  <2>2. e \in Frame
    BY <1>1, <2>1 DEF Frame
  <2> QED
    BY <1>1, <2>1, <2>2
<1>3. /\ frames'[t] = Append(frames[t], e) /\ \A u \in Thread \ {t} : frames'[u] = frames[u]
      /\ frames' \in [Thread -> Seq(Frame)]
      /\ pc[t] = "run" /\ pc' = pc /\ mark' = mark /\ sp' = sp /\ header' = header /\ heap' = heap
  BY <1>1, <1>2 DEF Mark
<1>4. /\ Len(frames'[t]) = n + 1 /\ frames'[t][n + 1] = e
      /\ \A g \in 1 .. n : frames'[t][g] = frames[t][g]
  BY <1>1, <1>2, <1>3
<1>5. TypeOK'
  BY <1>3 DEF IInv, TypeOK
<1>6. Others(t, n)
  <2>1. Still(t, n)
    BY <1>1, <1>2, <1>3, <1>4 DEF Still, Freeing
  <2> QED
    BY <1>2, <1>3, <2>1, LinksUnchanged, OthersKept
<1>7. OldTop(t, n, {})
  BY <1>1 DEF OldTop
<1>8. NewTop(t, n, {})
  <2>1. First(t, n + 1)' = Null
    BY <1>1, <1>3, <1>4 DEF First, Freeing
  <2>2. Got(t, n + 1)' = {}
    BY <1>1, <1>4 DEF Got
  <2> QED
    BY <1>4, <2>1, <2>2, EmptyList DEF NewTop
<1>9. ListState' /\ ListsExact' /\ NothingLost'
  BY <1>2, <1>3, <1>6, <1>7, <1>8, Preserved
<1>10. FreedWithSize'
  BY <1>3 DEF IInv, FreedWithSize
<1>11. StackState'
  <2> SUFFICES ASSUME NEW u \in Thread
               PROVE  /\ sp'[u] % Align = 0
                      /\ pc'[u] = "free" => frames'[u] # <<>>
                      /\ \A f \in 1 .. Len(frames'[u]) :
                           /\ frames'[u][f].sp % Align = 0
                           /\ \A b \in frames'[u][f].blocks : Placed(u, f, b)'
    BY DEF StackState
  <2>1. CASE u # t
    BY <1>3, <2>1, PlacesKept
  <2>2. CASE u = t
    <3>1. sp'[u] % Align = 0 /\ pc'[u] # "free"
      BY <1>3, <2>2 DEF IInv, StackState
    <3>2. ASSUME NEW f \in 1 .. n, NEW b \in frames[t][f].blocks PROVE Placed(t, f, b)'
      <4>1. Placed(t, f, b)
        BY <1>1 DEF IInv, StackState
      <4>2. ASSUME NEW g \in f + 1 .. n + 1, b.chunk = t
            PROVE  b.off + b.size <= frames'[t][g].sp
        <5>1. CASE g = n + 1
          <6>1. frames'[t][g] = e /\ e.sp = sp[t]
            BY <1>1, <1>4, <5>1
          <6>2. b.off + b.size <= sp[t]
            BY <4>1, <4>2 DEF Placed
          <6> QED
            BY <6>1, <6>2
        <5>2. CASE g # n + 1
          <6>0. n \in Nat /\ f \in Nat /\ f >= 1
            BY <1>2
          <6>1. g \in 1 .. n /\ g \in f + 1 .. n
            BY <5>2, <6>0
          <6>2. frames'[t][g] = frames[t][g]
            BY <1>4, <6>1
          <6>3. b.off + b.size <= frames[t][g].sp
            BY <1>1, <4>1, <4>2, <6>1 DEF Placed
          <6> QED
            BY <6>2, <6>3
        <5> QED
          BY <5>1, <5>2
      <4> QED
        BY <1>3, <1>4, <4>1, <4>2 DEF Placed
    <3>3. ASSUME NEW f \in 1 .. n + 1
          PROVE  /\ frames'[t][f].sp % Align = 0
                 /\ \A b \in frames'[t][f].blocks : Placed(t, f, b)'
      <4>1. CASE f = n + 1
        BY <1>1, <1>4, <3>1, <1>3, <2>2, <4>1
      <4>2. CASE f # n + 1
        <5>1. f \in 1 .. n
          BY <1>2, <4>2
        <5> QED
          BY <1>1, <1>4, <3>2, <5>1 DEF IInv, StackState
      <4> QED
        BY <4>1, <4>2
    <3> QED
      BY <1>4, <2>2, <3>1, <3>3
  <2> QED
    BY <2>1, <2>2
<1> QED
  BY <1>5, <1>9, <1>10, <1>11 DEF IInv

\* The last function of a thread has become e.
TopIs(t, m, e) ==
  /\ m = Len(frames[t]) /\ e \in Frame
  /\ frames' = [frames EXCEPT ![t] = [frames[t] EXCEPT ![m] = e]]

\* Only the last frame of the thread changes.
LEMMA TopFacts ==
  ASSUME IInv, NEW t \in Thread, frames[t] # <<>>, NEW m, NEW e, TopIs(t, m, e)
  PROVE  /\ frames' \in [Thread -> Seq(Frame)]
         /\ Len(frames'[t]) = m /\ frames'[t][m] = e /\ frames'[t] # <<>>
         /\ m \in Nat /\ m - 1 \in Nat /\ m \in 1 .. m /\ (m - 1) + 1 = m
         /\ \A g \in 1 .. m : g # m => frames'[t][g] = frames[t][g]
         /\ \A g \in 1 .. m - 1 : g \in 1 .. m /\ g # m
         /\ \A u \in Thread \ {t} : frames'[u] = frames[u]
<1>1. frames \in [Thread -> Seq(Frame)] /\ m = Len(frames[t]) /\ e \in Frame
  BY DEF IInv, TypeOK, TopIs
<1>2. m \in Nat /\ m \in 1 .. m
  BY <1>1
<1>3. PICK F : F = [frames[t] EXCEPT ![m] = e]
  OBVIOUS
<1>4. /\ F \in Seq(Frame) /\ Len(F) = m /\ F[m] = e /\ F # <<>>
      /\ \A g \in 1 .. m : g # m => F[g] = frames[t][g]
  BY <1>1, <1>2, <1>3
<1>5. frames' = [frames EXCEPT ![t] = F]
  BY <1>3 DEF TopIs
<1>6. frames' \in [Thread -> Seq(Frame)] /\ frames'[t] = F
      /\ \A u \in Thread \ {t} : frames'[u] = frames[u]
  BY <1>1, <1>4, <1>5
<1> QED
  BY <1>2, <1>4, <1>6

\* A block more is placed, the stack pointer moved past it if it is on the stack.
NewPlace(t, b) ==
  /\ b.chunk \in Node \cup {t} /\ b.off % Align = 0
  /\ b.chunk = t => b.off + b.size <= sp'[t]

\* A new block is above the others of its stack, or in a node of its own.
LEMMA PlacesAfterAlloc ==
  ASSUME IInv, TypeOK', NEW t \in Thread, frames[t] # <<>>, pc[t] = "run", NEW m, NEW e,
         NEW b, TopIs(t, m, e), e.sp = frames[t][m].sp, e.blocks = frames[t][m].blocks \cup {b},
         NewPlace(t, b), pc' = pc, sp'[t] >= sp[t], sp'[t] % Align = 0,
         \A u \in Thread \ {t} : sp'[u] = sp[u]
  PROVE  StackState'
<1>1. /\ Len(frames'[t]) = m /\ frames'[t][m] = e
      /\ m \in Nat /\ m \in 1 .. m
      /\ \A g \in 1 .. m : g # m => frames'[t][g] = frames[t][g]
      /\ \A u \in Thread \ {t} : frames'[u] = frames[u]
  BY TopFacts
<1>2. m = Len(frames[t]) /\ frames[t] \in Seq(Frame)
  BY DEF TopIs, IInv, TypeOK
<1>3. \A g \in 1 .. m : frames'[t][g].sp = frames[t][g].sp
  BY <1>1
<1>4. ASSUME NEW f \in 1 .. m, NEW a \in frames[t][f].blocks PROVE Placed(t, f, a)'
  <2>1. Placed(t, f, a)
    BY <1>2 DEF IInv, StackState
  <2>2. a.off + a.size <= sp[t] => a.off + a.size <= sp'[t]
    <3>1. frames[t][f] \in Frame
      BY <1>2
    <3>2. a \in Block
      BY <3>1 DEF Frame
    <3>3. a.off \in Nat /\ a.size \in Nat
      BY <3>2, ReentAssumption DEF Block
    <3>4. sp[t] \in Nat /\ sp'[t] \in Nat
      BY DEF IInv, TypeOK
    <3> QED
      BY <3>3, <3>4
  <2>3. ASSUME NEW g \in f + 1 .. m, a.chunk = t PROVE a.off + a.size <= frames'[t][g].sp
    <3>1. a.off + a.size <= frames[t][g].sp
      BY <1>2, <2>1, <2>3 DEF Placed
    <3>2. g \in 1 .. m
      BY <1>1
    <3> QED
      BY <1>3, <3>1, <3>2
  <2> QED
    BY <1>1, <2>1, <2>2, <2>3 DEF Placed
<1>5. Placed(t, m, b)'
  BY <1>1 DEF NewPlace, Placed
<1>6. ASSUME NEW f \in 1 .. m
      PROVE  /\ frames'[t][f].sp % Align = 0
             /\ \A a \in frames'[t][f].blocks : Placed(t, f, a)'
  <2>1. frames'[t][f].sp % Align = 0
    BY <1>2, <1>3 DEF IInv, StackState
  <2>2. frames'[t][f].blocks \subseteq frames[t][f].blocks \cup (IF f = m THEN {b} ELSE {})
    BY <1>1
  <2> QED
    BY <1>4, <1>5, <2>1, <2>2
<1> SUFFICES ASSUME NEW u \in Thread
             PROVE  /\ sp'[u] % Align = 0
                    /\ pc'[u] = "free" => frames'[u] # <<>>
                    /\ \A f \in 1 .. Len(frames'[u]) :
                         /\ frames'[u][f].sp % Align = 0
                         /\ \A a \in frames'[u][f].blocks : Placed(u, f, a)'
  BY DEF StackState
<1>7. CASE u # t
  BY <1>1, <1>7, PlacesKept
<1>8. CASE u = t
  BY <1>1, <1>6, <1>8
<1> QED
  BY <1>7, <1>8

\* TMP_ALLOC on the stack leaves the lists alone.
LEMMA AllocStackStep ==
  ASSUME IInv, NEW t \in Thread, NEW k \in 1 .. MaxSize, AllocStack(t, k)
  PROVE  IInv'
<1>1. PICK m, b : m = Len(frames[t]) /\ b = [chunk |-> t, off |-> sp[t], size |-> k]
  OBVIOUS
<1>2. PICK e : e = [frames[t][m] EXCEPT !.blocks = @ \cup {b}]
  OBVIOUS
<1>3. /\ frames[t] # <<>> /\ pc[t] = "run" /\ pc' = pc /\ mark' = mark
      /\ header' = header /\ heap' = heap
      /\ sp' = [sp EXCEPT ![t] = @ + RoundUp(k)]
      /\ frames' = [frames EXCEPT ![t][m] = e]
  BY <1>1, <1>2 DEF AllocStack, MayAlloc, Running
<1>4. /\ frames[t] \in Seq(Frame) /\ m \in Nat /\ m - 1 \in Nat /\ m \in 1 .. Len(frames[t])
      /\ frames[t][m] \in Frame
  BY <1>1, <1>3, TopFrame
<1>5. b \in Block /\ sp \in [Thread -> Nat]
  BY <1>1 DEF IInv, TypeOK, Block
<1>6. /\ e \in Frame /\ e.marker = frames[t][m].marker /\ e.sp = frames[t][m].sp
      /\ e.blocks = frames[t][m].blocks \cup {b}
  BY <1>2, <1>4, <1>5 DEF Frame
<1>7. TopIs(t, m, e)
  BY <1>1, <1>3, <1>6 DEF TopIs
<1>8. /\ frames' \in [Thread -> Seq(Frame)]
      /\ Len(frames'[t]) = m /\ frames'[t][m] = e /\ m \in 1 .. m /\ (m - 1) + 1 = m
      /\ \A g \in 1 .. m - 1 : frames'[t][g] = frames[t][g]
      /\ \A u \in Thread \ {t} : frames'[u] = frames[u]
  BY <1>3, <1>7, TopFacts
<1>9. /\ sp' \in [Thread -> Nat] /\ sp'[t] >= sp[t] /\ sp'[t] % Align = 0
      /\ sp[t] + k <= sp'[t] /\ \A u \in Thread \ {t} : sp'[u] = sp[u]
  <2>1. RoundUp(k) \in Nat /\ RoundUp(k) >= k /\ RoundUp(k) % Align = 0 /\ k \in Nat
    BY RoundedUp, ReentAssumption DEF RoundUp
  <2>2. sp[t] \in Nat /\ sp[t] % Align = 0
    BY <1>5 DEF IInv, StackState
  <2>3. (sp[t] + RoundUp(k)) % Align = 0
    BY <2>1, <2>2, MultipleSum, ReentAssumption
  <2>4. sp'[t] = sp[t] + RoundUp(k) /\ \A u \in Thread \ {t} : sp'[u] = sp[u]
    BY <1>3, <1>5
  <2>5. sp' \in [Thread -> Nat]
    BY <1>3, <1>5, <2>1
  <2> QED
    BY <2>1, <2>2, <2>3, <2>4, <2>5
<1>10. TypeOK'
  BY <1>3, <1>8, <1>9 DEF IInv, TypeOK
<1>11. Got(t, m)' = Got(t, m) /\ First(t, m)' = First(t, m)
  <2>1. b.chunk \notin Node
    BY <1>1, ReentAssumption
  <2>2. Got(t, m)' = Got(t, m)
    BY <1>6, <1>8, <2>1 DEF Got
  <2>3. First(t, m)' = First(t, m)
    BY <1>3, <1>6, <1>8 DEF First, Freeing
  <2> QED
    BY <2>2, <2>3
<1>12. ToFree(t, m) \in SUBSET Node /\ IsList(header', First(t, m)', ToFree(t, m))
       /\ ToFree(t, m) \subseteq Got(t, m)' /\ ToFree(t, m) = Got(t, m)'
       /\ ToFree(t, m) \subseteq DOMAIN heap
  <2>1. m \in 1 .. Len(frames[t]) /\ ~Freeing(t, m)
    BY <1>3, <1>4 DEF Freeing
  <2>2. ToFree(t, m) = Got(t, m)
    BY <2>1 DEF IInv, ListsExact
  <2> QED
    BY <1>3, <1>11, <2>1, <2>2, ListAt
<1>13. Others(t, m - 1)
  <2>1. Still(t, m - 1)
    BY <1>1, <1>3, <1>4, <1>8 DEF Still, Freeing
  <2> QED
    BY <1>3, <1>4, <2>1, LinksUnchanged, OthersKept
<1>14. OldTop(t, m - 1, ToFree(t, m))
  BY <1>1, <1>4 DEF OldTop
<1>15. NewTop(t, m - 1, ToFree(t, m))
  BY <1>4, <1>8, <1>12 DEF NewTop
<1>16. ListState' /\ ListsExact' /\ NothingLost'
  <2>1. DOMAIN heap' = (DOMAIN heap \ ToFree(t, m)) \cup ToFree(t, m)
    BY <1>3, <1>12
  <2> QED
    BY <1>4, <1>12, <1>13, <1>14, <1>15, <2>1, Preserved
<1>17. FreedWithSize'
  BY <1>3 DEF IInv, FreedWithSize
<1>18. StackState'
  <2>1. NewPlace(t, b)
    <3>1. sp[t] % Align = 0
      BY DEF IInv, StackState
    <3> QED
      BY <1>1, <1>9, <3>1 DEF NewPlace
  <2> QED
    BY <1>3, <1>6, <1>7, <1>9, <1>10, <2>1, PlacesAfterAlloc
<1> QED
  BY <1>10, <1>16, <1>17, <1>18 DEF IInv

\* TMP_ALLOC of a block of its own puts it first on the list.
LEMMA AllocListStep ==
  ASSUME IInv, NEW t \in Thread, NEW k \in 1 .. MaxSize, AllocList(t, k)
  PROVE  IInv'
<1>1. PICK p \in Node \ DOMAIN heap :
        /\ heap' = [q \in DOMAIN heap \cup {p} |-> IF q = p THEN k + Hsiz ELSE heap[q]]
        /\ header' = [header EXCEPT ![p] = Header(t, k)]
        /\ frames' = [frames EXCEPT ![t][Len(frames[t])] =
                        [marker |-> p, sp |-> @.sp,
                         blocks |-> @.blocks \cup {[chunk |-> p, off |-> Hsiz, size |-> k]}]]
  BY DEF AllocList
<1>2. PICK m, b : m = Len(frames[t]) /\ b = [chunk |-> p, off |-> Hsiz, size |-> k]
  OBVIOUS
<1>3. PICK e : e = [marker |-> p, sp |-> frames[t][m].sp, blocks |-> frames[t][m].blocks \cup {b}]
  OBVIOUS
<1>4. /\ frames[t] # <<>> /\ pc[t] = "run" /\ pc' = pc /\ mark' = mark /\ sp' = sp
      /\ frames' = [frames EXCEPT ![t][m] = e]
  BY <1>1, <1>2, <1>3 DEF AllocList, MayAlloc, Running
<1>5. /\ frames[t] \in Seq(Frame) /\ m \in Nat /\ m - 1 \in Nat /\ m \in 1 .. Len(frames[t])
      /\ frames[t][m] \in Frame /\ Last(frames[t]) = frames[t][m]
  BY <1>2, <1>4, TopFrame
<1>6. b \in Block /\ Hsiz \in Nat /\ k \in Nat /\ MaxSize \in Nat
  <2>1. Hsiz \in Nat /\ MaxSize \in Nat
    BY ReentAssumption
  <2> QED
    BY <1>2, <2>1 DEF Block
<1>7. /\ e \in Frame /\ e.marker = p /\ e.sp = frames[t][m].sp
      /\ e.blocks = frames[t][m].blocks \cup {b}
  BY <1>3, <1>5, <1>6 DEF Frame
<1>8. TopIs(t, m, e)
  BY <1>2, <1>4, <1>7 DEF TopIs
<1>9. /\ frames' \in [Thread -> Seq(Frame)]
      /\ Len(frames'[t]) = m /\ frames'[t][m] = e /\ m \in 1 .. m /\ (m - 1) + 1 = m
      /\ \A g \in 1 .. m - 1 : frames'[t][g] = frames[t][g]
      /\ \A u \in Thread \ {t} : frames'[u] = frames[u]
  BY <1>4, <1>8, TopFacts
<1>10. PICK d : d = Header(t, k)
  OBVIOUS
<1>11. d \in [next : Node \cup {Null}, size : Nat] /\ d.next = frames[t][m].marker
       /\ d.size = k + Hsiz
  <2>1. d = [next |-> frames[t][m].marker, size |-> k + Hsiz]
    BY <1>5, <1>10 DEF Header
  <2>2. frames[t][m].marker \in Node \cup {Null} /\ k + Hsiz \in Nat
    BY <1>5, <1>6 DEF Frame
  <2> QED
    BY <2>1, <2>2
<1>12. /\ header' = [header EXCEPT ![p] = d] /\ header'[p] = d
       /\ header' \in [Node -> [next : Node \cup {Null}, size : Nat]]
       /\ \A q \in Node \ {p} : header'[q] = header[q]
  BY <1>1, <1>10, <1>11 DEF IInv, TypeOK
<1>13. /\ DOMAIN heap' = DOMAIN heap \cup {p} /\ heap'[p] = k + Hsiz
       /\ \A q \in DOMAIN heap : heap'[q] = heap[q]
  BY <1>1
<1>14. TypeOK'
  <2>1. DOMAIN heap' \subseteq Node /\ \A q \in DOMAIN heap' : heap'[q] \in Nat
    <3>1. k + Hsiz \in Nat
      BY <1>6
    <3> QED
      BY <1>13, <3>1 DEF IInv, TypeOK
  <2> QED
    BY <1>4, <1>9, <1>12, <2>1 DEF IInv, TypeOK
<1>15. /\ ToFree(t, m) \in SUBSET Node /\ ToFree(t, m) = Got(t, m) /\ p \notin ToFree(t, m)
       /\ IsList(header, First(t, m), ToFree(t, m)) /\ First(t, m) = frames[t][m].marker
       /\ ToFree(t, m) \subseteq DOMAIN heap
  <2>1. m \in 1 .. Len(frames[t]) /\ ~Freeing(t, m)
    BY <1>4, <1>5 DEF Freeing
  <2>2. ToFree(t, m) = Got(t, m)
    BY <2>1 DEF IInv, ListsExact
  <2> QED
    BY <1>4, <2>1, <2>2, ListAt DEF First
<1>16. PICK S : S = ToFree(t, m) \cup {p}
  OBVIOUS
<1>17. IsList(header', First(t, m)', S) /\ S = Got(t, m)' /\ S \in SUBSET Node
  <2>1. SameLinks(header, header', ToFree(t, m))
    BY <1>12, <1>15 DEF SameLinks
  <2>2. IsList(header', p, S)
    BY <1>11, <1>12, <1>15, <1>16, <2>1, ListPush
  <2>3. First(t, m)' = p
    BY <1>4, <1>7, <1>9 DEF First, Freeing
  <2>4. Got(t, m)' = Got(t, m) \cup {p}
    BY <1>2, <1>7, <1>9 DEF Got
  <2> QED
    BY <1>15, <1>16, <2>2, <2>3, <2>4
<1>18. Others(t, m - 1)
  <2>1. Still(t, m - 1)
    BY <1>2, <1>4, <1>5, <1>9 DEF Still, Freeing
  <2>2. ASSUME NEW u \in Thread, NEW g \in 1 .. Len(frames[u]) PROVE p \notin ToFree(u, g)
    BY ListAt
  <2>3. LinksKept(t, m - 1)
    BY <1>5, <1>12, <2>2, LinksOfOthers
  <2> QED
    BY <1>5, <2>1, <2>3, OthersKept
<1>19. OldTop(t, m - 1, ToFree(t, m))
  BY <1>2, <1>5 DEF OldTop
<1>20. NewTop(t, m - 1, S)
  BY <1>5, <1>9, <1>17 DEF NewTop
<1>21. ListState' /\ ListsExact' /\ NothingLost'
  <2>1. DOMAIN heap' = (DOMAIN heap \ ToFree(t, m)) \cup S /\ S \subseteq ToFree(t, m) \cup (Node \ DOMAIN heap)
    BY <1>13, <1>15, <1>16
  <2> QED
    BY <1>5, <1>17, <1>18, <1>19, <1>20, <2>1, Preserved
<1>22. FreedWithSize'
  <2>1. \A q \in DOMAIN heap : q \in Node \ {p} /\ header[q].size = heap[q]
    BY DEF IInv, FreedWithSize, TypeOK
  <2> QED
    BY <1>11, <1>12, <1>13, <2>1 DEF FreedWithSize
<1>23. StackState'
  <2>1. NewPlace(t, b)
    <3>1. Hsiz % Align = 0 /\ p # t
      BY ReentAssumption
    <3> QED
      BY <1>2, <3>1 DEF NewPlace
  <2>2. sp'[t] >= sp[t] /\ sp'[t] % Align = 0
    <3>1. sp[t] \in Nat /\ sp[t] % Align = 0
      BY DEF IInv, TypeOK, StackState
    <3> QED
      BY <1>4, <3>1
  <2> QED
    BY <1>4, <1>7, <1>8, <1>14, <2>1, <2>2, PlacesAfterAlloc
<1> QED
  BY <1>14, <1>21, <1>22, <1>23 DEF IInv

\* A step of TMP_FREE that leaves the functions and the stack pointer as they are.
LEMMA PlacesUnmoved ==
  ASSUME IInv, NEW t \in Thread, frames' = frames, sp' = sp, frames[t] # <<>>,
         \A u \in Thread \ {t} : pc'[u] = pc[u]
  PROVE  StackState'
<1>1. ASSUME NEW u \in Thread PROVE pc'[u] = "free" => frames[u] # <<>>
  BY DEF IInv, StackState
<1>2. ASSUME NEW u \in Thread, NEW f \in 1 .. Len(frames[u]), NEW b \in frames[u][f].blocks
      PROVE  Placed(u, f, b)'
  <2>1. Placed(u, f, b)
    BY DEF IInv, StackState
  <2> QED
    BY <2>1 DEF Placed
<1> QED
  BY <1>1, <1>2 DEF IInv, StackState

\* TMP_FREE: the loop has the whole list before it.
LEMMA FreeStep ==
  ASSUME IInv, NEW t \in Thread, Free(t)
  PROVE  IInv'
<1>1. PICK m : m = Len(frames[t])
  OBVIOUS
<1>2. /\ frames[t] # <<>> /\ pc[t] = "run" /\ frames' = frames /\ sp' = sp /\ header' = header
      /\ heap' = heap /\ pc' = [pc EXCEPT ![t] = "free"]
      /\ mark' = [mark EXCEPT ![t] = Last(frames[t]).marker]
  BY DEF Free, Running
<1>3. /\ frames[t] \in Seq(Frame) /\ m \in Nat /\ m - 1 \in Nat /\ m \in 1 .. Len(frames[t])
      /\ frames[t][m] \in Frame /\ Last(frames[t]) = frames[t][m] /\ (m - 1) + 1 = m
  BY <1>1, <1>2, TopFrame
<1>4. frames[t][m].marker \in Node \cup {Null}
  BY <1>3 DEF Frame
<1>5. /\ pc'[t] = "free" /\ mark'[t] = frames[t][m].marker
      /\ pc' \in [Thread -> {"run", "free"}] /\ mark' \in [Thread -> Node \cup {Null}]
      /\ \A u \in Thread \ {t} : pc'[u] = pc[u] /\ mark'[u] = mark[u]
  BY <1>2, <1>3, <1>4 DEF IInv, TypeOK
<1>6. TypeOK'
  BY <1>2, <1>5 DEF IInv, TypeOK
<1>7. First(t, m)' = First(t, m) /\ Got(t, m)' = Got(t, m) /\ Freeing(t, m)'
  BY <1>1, <1>2, <1>5 DEF First, Got, Freeing
<1>8. /\ ToFree(t, m) \in SUBSET Node /\ IsList(header', First(t, m)', ToFree(t, m))
      /\ ToFree(t, m) \subseteq Got(t, m)' /\ ToFree(t, m) \subseteq DOMAIN heap
  BY <1>2, <1>3, <1>7, ListAt
<1>9. Others(t, m - 1)
  <2>1. Still(t, m - 1)
    BY <1>1, <1>2, <1>3, <1>5 DEF Still, Freeing
  <2> QED
    BY <1>2, <1>3, <2>1, LinksUnchanged, OthersKept
<1>10. OldTop(t, m - 1, ToFree(t, m)) /\ NewTop(t, m - 1, ToFree(t, m))
  BY <1>1, <1>2, <1>3, <1>7, <1>8 DEF OldTop, NewTop
<1>11. ListState' /\ ListsExact' /\ NothingLost'
  <2>1. DOMAIN heap' = (DOMAIN heap \ ToFree(t, m)) \cup ToFree(t, m)
    BY <1>2, <1>8
  <2> QED
    BY <1>3, <1>8, <1>9, <1>10, <2>1, Preserved
<1>12. FreedWithSize'
  BY <1>2 DEF IInv, FreedWithSize
<1>13. StackState'
  BY <1>2, <1>5, PlacesUnmoved
<1> QED
  BY <1>6, <1>11, <1>12, <1>13 DEF IInv

\* One block is given back: the list is the rest of it.
LEMMA FreeNodeStep ==
  ASSUME IInv, NEW t \in Thread, FreeNode(t)
  PROVE  IInv'
<1>1. PICK m, p : m = Len(frames[t]) /\ p = mark[t]
  OBVIOUS
<1>2. /\ pc[t] = "free" /\ p # Null /\ frames' = frames /\ sp' = sp /\ pc' = pc
      /\ mark' = [mark EXCEPT ![t] = header[p].next]
      /\ heap' = [q \in DOMAIN heap \ {p} |-> heap[q]]
      /\ header' = [header EXCEPT ![p] = Junk]
  BY <1>1 DEF FreeNode
<1>3. frames[t] # <<>>
  BY <1>2 DEF IInv, StackState
<1>4. /\ frames[t] \in Seq(Frame) /\ m \in Nat /\ m - 1 \in Nat /\ m \in 1 .. Len(frames[t])
      /\ (m - 1) + 1 = m
  BY <1>1, <1>3, TopFrame
<1>5. p \in Node /\ header[p].next \in Node \cup {Null}
  <2>1. p \in Node
    BY <1>1, <1>2 DEF IInv, TypeOK
  <2>2. header[p] \in [next : Node \cup {Null}, size : Nat]
    BY <2>1 DEF IInv, TypeOK
  <2> QED
    BY <2>1, <2>2
<1>6. /\ mark' \in [Thread -> Node \cup {Null}] /\ mark'[t] = header[p].next
      /\ \A u \in Thread \ {t} : mark'[u] = mark[u]
  BY <1>2, <1>5 DEF IInv, TypeOK
<1>7. /\ header' \in [Node -> [next : Node \cup {Null}, size : Nat]]
      /\ \A q \in Node \ {p} : header'[q] = header[q]
  <2>1. Junk \in [next : Node \cup {Null}, size : Nat]
    BY DEF Junk
  <2> QED
    BY <1>2, <2>1 DEF IInv, TypeOK
<1>8. DOMAIN heap' = DOMAIN heap \ {p} /\ \A q \in DOMAIN heap' : heap'[q] = heap[q]
  BY <1>2
<1>9. TypeOK'
  BY <1>2, <1>6, <1>7, <1>8 DEF IInv, TypeOK
<1>10. /\ Freeing(t, m) /\ Freeing(t, m)' /\ First(t, m) = p /\ First(t, m)' = header[p].next
       /\ Got(t, m)' = Got(t, m)
  BY <1>1, <1>2, <1>6 DEF Freeing, First, Got
<1>11. /\ ToFree(t, m) \in SUBSET Node /\ IsList(header, p, ToFree(t, m))
       /\ ToFree(t, m) \subseteq Got(t, m) /\ ToFree(t, m) \subseteq DOMAIN heap
  BY <1>4, <1>10, ListAt
<1>12. PICK S : S = ToFree(t, m) \ {p}
  OBVIOUS
<1>13. p \in ToFree(t, m) /\ IsList(header', First(t, m)', S) /\ S \in SUBSET Node
  <2>1. SameLinks(header, header', S)
    BY <1>7, <1>11, <1>12 DEF SameLinks
  <2> QED
    BY <1>2, <1>10, <1>11, <1>12, <2>1, ListPop
<1>14. Others(t, m - 1)
  <2>1. Still(t, m - 1)
    BY <1>1, <1>2, <1>4, <1>6 DEF Still, Freeing
  <2>2. ASSUME NEW u \in Thread, NEW g \in 1 .. Len(frames[u]), u # t \/ g <= m - 1
        PROVE  p \notin ToFree(u, g)
    <3>1. u # t \/ g # m
      BY <1>4, <2>2
    <3> QED
      BY <1>4, <1>13, <3>1, Apart
  <2>3. LinksKept(t, m - 1)
    BY <1>2, <1>4, <1>5, <2>2, LinksOfOthers
  <2> QED
    BY <1>4, <2>1, <2>3, OthersKept
<1>15. OldTop(t, m - 1, ToFree(t, m)) /\ NewTop(t, m - 1, S)
  BY <1>1, <1>2, <1>4, <1>10, <1>11, <1>12, <1>13 DEF OldTop, NewTop
<1>16. ListState' /\ ListsExact' /\ NothingLost'
  <2>1. /\ DOMAIN heap' = (DOMAIN heap \ ToFree(t, m)) \cup S
        /\ S \subseteq ToFree(t, m) \cup (Node \ DOMAIN heap)
    BY <1>8, <1>11, <1>12, <1>13
  <2> QED
    BY <1>4, <1>13, <1>14, <1>15, <2>1, Preserved
<1>17. FreedWithSize'
  <2>1. \A q \in DOMAIN heap : q \in Node /\ header[q].size = heap[q]
    BY DEF IInv, FreedWithSize, TypeOK
  <2> QED
    BY <1>7, <1>8, <2>1 DEF FreedWithSize
<1>18. StackState'
  BY <1>2, <1>3, PlacesUnmoved
<1> QED
  BY <1>9, <1>16, <1>17, <1>18 DEF IInv

\* A function without a list returns: its part of the stack goes with it.
LEMMA PopStep ==
  ASSUME IInv, NEW t \in Thread, NEW m, m = Len(frames[t]), frames[t] # <<>>, Pop(t),
         ToFree(t, m) = {}, pc'[t] = "run", pc' \in [Thread -> {"run", "free"}],
         \A u \in Thread \ {t} : pc'[u] = pc[u],
         mark' = mark, header' = header, heap' = heap
  PROVE  IInv'
<1>1. /\ frames[t] \in Seq(Frame) /\ m \in Nat /\ m - 1 \in Nat /\ m \in 1 .. Len(frames[t])
      /\ frames[t][m] \in Frame /\ Last(frames[t]) = frames[t][m] /\ (m - 1) + 1 = m
  BY TopFrame
<1>2. PICK F : F = Front(frames[t])
  OBVIOUS
<1>3. F \in Seq(Frame) /\ Len(F) = m - 1 /\ \A g \in 1 .. m - 1 : F[g] = frames[t][g]
  BY <1>1, <1>2 DEF Front
<1>4. /\ frames' \in [Thread -> Seq(Frame)] /\ frames'[t] = F
      /\ \A u \in Thread \ {t} : frames'[u] = frames[u]
  BY <1>2, <1>3 DEF IInv, TypeOK, Pop
<1>5. /\ sp' \in [Thread -> Nat] /\ sp'[t] = frames[t][m].sp
      /\ \A u \in Thread \ {t} : sp'[u] = sp[u]
  <2>1. frames[t][m].sp \in Nat
    BY <1>1 DEF Frame
  <2> QED
    BY <1>1, <2>1 DEF IInv, TypeOK, Pop
<1>6. TypeOK'
  BY <1>4, <1>5 DEF IInv, TypeOK
<1>7. Others(t, m - 1)
  <2>1. \A g \in 1 .. m - 1 : ~Freeing(t, g) /\ ~Freeing(t, g)'
    BY <1>1 DEF Freeing
  <2>2. m - 1 <= Len(frames[t]) /\ \A g \in 1 .. m - 1 : frames'[t][g] = frames[t][g]
    BY <1>1, <1>3, <1>4
  <2>3. Still(t, m - 1)
    BY <1>4, <2>1, <2>2 DEF Still
  <2> QED
    BY <1>1, <2>3, LinksUnchanged, OthersKept
<1>8. OldTop(t, m - 1, {}) /\ NewTop(t, m - 1, {})
  BY <1>1, <1>3, <1>4 DEF OldTop, NewTop
<1>9. ListState' /\ ListsExact' /\ NothingLost'
  BY <1>1, <1>7, <1>8, Preserved
<1>10. FreedWithSize'
  BY DEF IInv, FreedWithSize
<1>11. StackState'
  <2>1. ASSUME NEW f \in 1 .. m - 1
        PROVE  /\ frames'[t][f].sp % Align = 0
               /\ \A b \in frames'[t][f].blocks : Placed(t, f, b)'
    <3>1. f \in 1 .. Len(frames[t]) /\ m \in f + 1 .. Len(frames[t]) /\ frames'[t][f] = frames[t][f]
      BY <1>1, <1>3, <1>4
    <3>2. frames[t][f].sp % Align = 0
      BY <3>1 DEF IInv, StackState
    <3>3. ASSUME NEW b \in frames[t][f].blocks PROVE Placed(t, f, b)'
      <4>1. Placed(t, f, b)
        BY <3>1 DEF IInv, StackState
      <4>2. b.chunk = t => b.off + b.size <= frames[t][m].sp
        BY <3>1, <4>1 DEF Placed
      <4>3. ASSUME NEW g \in f + 1 .. m - 1, b.chunk = t PROVE b.off + b.size <= frames'[t][g].sp
        <5>1. g \in 1 .. m - 1 /\ g \in f + 1 .. Len(frames[t])
          BY <1>1
        <5>2. b.off + b.size <= frames[t][g].sp
          BY <4>1, <4>3, <5>1 DEF Placed
        <5> QED
          BY <1>3, <1>4, <5>1, <5>2
      <4> QED
        BY <1>3, <1>4, <1>5, <4>1, <4>2, <4>3 DEF Placed
    <3> QED
      BY <3>1, <3>2, <3>3
  <2>2. sp'[t] % Align = 0
    BY <1>1, <1>5 DEF IInv, StackState
  <2> SUFFICES ASSUME NEW u \in Thread
               PROVE  /\ sp'[u] % Align = 0
                      /\ pc'[u] = "free" => frames'[u] # <<>>
                      /\ \A f \in 1 .. Len(frames'[u]) :
                           /\ frames'[u][f].sp % Align = 0
                           /\ \A b \in frames'[u][f].blocks : Placed(u, f, b)'
    BY DEF StackState
  <2>3. CASE u # t
    BY <1>4, <1>5, <2>3, PlacesKept
  <2>4. CASE u = t
    BY <1>3, <1>4, <2>1, <2>2, <2>4
  <2> QED
    BY <2>3, <2>4
<1> QED
  BY <1>6, <1>9, <1>10, <1>11 DEF IInv

\* A function that has freed its list returns, and its part of the stack is gone.
LEMMA ReturnStep ==
  ASSUME IInv, NEW t \in Thread, Return(t)
  PROVE  IInv'
<1>1. PICK m : m = Len(frames[t])
  OBVIOUS
<1>2. /\ pc[t] = "free" /\ mark[t] = Null /\ Pop(t) /\ pc' = [pc EXCEPT ![t] = "run"]
      /\ mark' = mark /\ header' = header /\ heap' = heap
  BY DEF Return
<1>3. frames[t] # <<>>
  BY <1>2 DEF IInv, StackState
<1>4. m \in 1 .. Len(frames[t])
  BY <1>1, <1>3, TopFrame
<1>5. First(t, m) = Null
  BY <1>1, <1>2 DEF First, Freeing
<1>6. ToFree(t, m) = {}
  BY <1>4, <1>5, ListAt, ListEmpty
<1>7. /\ pc'[t] = "run" /\ pc' \in [Thread -> {"run", "free"}]
      /\ \A u \in Thread \ {t} : pc'[u] = pc[u]
  BY <1>2 DEF IInv, TypeOK
<1> QED
  BY <1>1, <1>2, <1>3, <1>6, <1>7, PopStep

\* So does one that marked and allocated nothing.
LEMMA ReturnUnfreedStep ==
  ASSUME IInv, NEW t \in Thread, ReturnUnfreed(t)
  PROVE  IInv'
<1>1. PICK m : m = Len(frames[t])
  OBVIOUS
<1>2. /\ pc[t] = "run" /\ frames[t] # <<>> /\ Last(frames[t]).blocks = {} /\ Pop(t) /\ pc' = pc
      /\ mark' = mark /\ header' = header /\ heap' = heap
  BY DEF ReturnUnfreed, Running
<1>3. m \in 1 .. Len(frames[t]) /\ frames[t][m].blocks = {}
  BY <1>1, <1>2, TopFrame
<1>4. ToFree(t, m) = {}
  BY <1>3, ListAt DEF Got
<1>5. /\ pc'[t] = "run" /\ pc' \in [Thread -> {"run", "free"}]
      /\ \A u \in Thread \ {t} : pc'[u] = pc[u]
  BY <1>2 DEF IInv, TypeOK
<1> QED
  BY <1>1, <1>2, <1>4, <1>5, PopStep

-----------------------------------------------------------------------------
\* Lists, headers and the blocks on the stacks stay as they are supposed to be,
\* whatever the threads do and in whatever order they are scheduled.
THEOREM Invariance == Spec => []IInv
<1>1. Init => IInv
  BY InitIInv
<1>2. IInv /\ [Next]_vars => IInv'
  <2> SUFFICES ASSUME IInv, [Next]_vars PROVE IInv'
    OBVIOUS
  <2>1. ASSUME NEW t \in Thread, Mark(t) PROVE IInv'
    BY <2>1, MarkStep
  <2>2. ASSUME NEW t \in Thread, NEW n \in 1 .. MaxSize, AllocStack(t, n) PROVE IInv'
    BY <2>2, AllocStackStep
  <2>3. ASSUME NEW t \in Thread, NEW n \in 1 .. MaxSize, AllocList(t, n) PROVE IInv'
    BY <2>3, AllocListStep
  <2>4. ASSUME NEW t \in Thread, Free(t) PROVE IInv'
    BY <2>4, FreeStep
  <2>5. ASSUME NEW t \in Thread, FreeNode(t) PROVE IInv'
    BY <2>5, FreeNodeStep
  <2>6. ASSUME NEW t \in Thread, Return(t) PROVE IInv'
    BY <2>6, ReturnStep
  <2>7. ASSUME NEW t \in Thread, ReturnUnfreed(t) PROVE IInv'
    BY <2>7, ReturnUnfreedStep
  <2>8. CASE UNCHANGED vars
    <3>1. /\ pc' = pc /\ mark' = mark /\ frames' = frames /\ sp' = sp /\ header' = header
          /\ heap' = heap
      BY <2>8 DEF vars
    <3>2. TypeOK' /\ FreedWithSize' /\ StackState'
      BY <3>1 DEF IInv, TypeOK, FreedWithSize, StackState, Placed
    <3>3. ASSUME NEW t \in Thread, NEW f \in 1 .. Len(frames[t])
          PROVE  /\ Freeing(t, f)' = Freeing(t, f) /\ First(t, f)' = First(t, f)
                 /\ ToFree(t, f)' = ToFree(t, f) /\ Got(t, f)' = Got(t, f)
      BY <3>1 DEF ToFree, First, Freeing, Got
    <3>4. ListState' /\ ListsExact' /\ NothingLost'
      BY <3>1, <3>3 DEF IInv, ListState, ListsExact, NothingLost
    <3> QED
      BY <3>2, <3>4 DEF IInv
  <2> QED
    BY <2>1, <2>2, <2>3, <2>4, <2>5, <2>6, <2>7, <2>8 DEF Next
<1> QED
  BY <1>1, <1>2, PTL DEF Spec

\* Every variable keeps its type, for any number of threads and addresses.
THEOREM TypeCorrect == Spec => []TypeOK
<1>1. IInv => TypeOK
  BY DEF IInv
<1> QED
  BY <1>1, Invariance, PTL

\* The list of a function is what it got from the allocation function, and the loop
\* of TMP_FREE, which gives the blocks with the links in them back one by one, never
\* comes to a block that has been given to another thread.
THEOREM ListsExactHolds == Spec => []ListsExact
<1>1. IInv => ListsExact
  BY DEF IInv
<1> QED
  BY <1>1, Invariance, PTL

\* What is allocated is on one list, and what is on a list is allocated.
THEOREM NothingLostHolds == Spec => []NothingLost
<1>1. IInv => NothingLost
  BY DEF IInv
<1> QED
  BY <1>1, Invariance, PTL

\* The size in the header of an allocated block is the one it was allocated with.
THEOREM FreedWithSizeHolds == Spec => []FreedWithSize
<1>1. IInv => FreedWithSize
  BY DEF IInv
<1> QED
  BY <1>1, Invariance, PTL

-----------------------------------------------------------------------------
\* What TmpStack sees of a thread: the blocks of the functions that still use them.
LEMMA UsesFacts ==
  ASSUME IInv, NEW t \in Thread
  PROVE  /\ Depth(t) \in Nat /\ Len(Uses(t)) = Depth(t) /\ Uses(t) \in Seq(SUBSET Block)
         /\ \A f \in 1 .. Depth(t) : /\ f \in 1 .. Len(frames[t]) /\ ~Freeing(t, f)
                                     /\ Uses(t)[f] = frames[t][f].blocks
<1>1. frames[t] \in Seq(Frame) /\ (pc[t] = "free" => frames[t] # <<>>)
  BY DEF IInv, TypeOK, StackState
<1>2. Depth(t) \in Nat /\ \A f \in 1 .. Depth(t) : f \in 1 .. Len(frames[t]) /\ ~Freeing(t, f)
  BY <1>1 DEF Depth, Freeing
<1>3. \A f \in 1 .. Depth(t) : frames[t][f].blocks \in SUBSET Block
  <2>1. ASSUME NEW f \in 1 .. Depth(t) PROVE frames[t][f].blocks \in SUBSET Block
    <3>1. frames[t][f] \in Frame
      BY <1>1, <1>2
    <3> QED
      BY <3>1 DEF Frame
  <2> QED
    BY <2>1
<1>4. Uses(t) \in [1 .. Depth(t) -> SUBSET Block]
  BY <1>3 DEF Uses
<1> QED
  BY <1>2, <1>4 DEF Uses

\* A new block shares no byte with one in use: on the stack it is above all of its
\* thread's, and what the allocation function returns is on no list.
LEMMA OwnBytes ==
  ASSUME IInv, NEW t \in Thread, NEW b,
         \/ b.chunk = t /\ b.off = sp[t]
         \/ b.chunk \in Node \ DOMAIN heap,
         NEW u \in Thread, NEW f \in 1 .. Depth(u), NEW a \in frames[u][f].blocks
  PROVE  a.chunk # b.chunk \/ a.off + a.size <= b.off
<1>1. f \in 1 .. Len(frames[u]) /\ ~Freeing(u, f)
  BY UsesFacts
<1>2. CASE b.chunk = t /\ b.off = sp[t]
  <2> SUFFICES ASSUME a.chunk = t PROVE a.off + a.size <= sp[t]
    BY <1>2
  <2>1. Placed(u, f, a)
    BY <1>1 DEF IInv, StackState
  <2>2. u = t
    BY <2>1, ReentAssumption DEF Placed
  <2> QED
    BY <2>1, <2>2 DEF Placed
<1>3. CASE b.chunk \in Node \ DOMAIN heap
  <2> SUFFICES ASSUME a.chunk = b.chunk PROVE FALSE
    OBVIOUS
  <2>1. a.chunk \in Got(u, f)
    BY <1>3 DEF Got
  <2>2. ToFree(u, f) = Got(u, f) /\ ToFree(u, f) \subseteq DOMAIN heap
    BY <1>1, ListAt DEF IInv, ListsExact
  <2> QED
    BY <1>3, <2>1, <2>2
<1> QED
  BY <1>2, <1>3

\* An allocation is one of TmpStack.
LEMMA AllocPromised ==
  ASSUME IInv, NEW t \in Thread, frames[t] # <<>>, pc[t] = "run", pc' = pc, NEW m, NEW e,
         TopIs(t, m, e), NEW b \in Block, e.blocks = frames[t][m].blocks \cup {b},
         b.off % Align = 0,
         \/ b.chunk = t /\ b.off = sp[t]
         \/ b.chunk \in Node \ DOMAIN heap
  PROVE  Promised!Alloc(t)
<1> DEFINE AF == [u \in Thread |-> Uses(u)]
<1>1. /\ Len(frames'[t]) = m /\ frames'[t][m] = e
      /\ m \in Nat /\ m \in 1 .. m
      /\ \A g \in 1 .. m : g # m => frames'[t][g] = frames[t][g]
      /\ \A u \in Thread \ {t} : frames'[u] = frames[u]
  BY TopFacts
<1>2. m = Len(frames[t]) /\ Depth(t) = m /\ Depth(t)' = m
  BY <1>1 DEF TopIs, Depth
<1>3. Uses(t) \in Seq(SUBSET Block) /\ Len(Uses(t)) = m
      /\ \A f \in 1 .. m : Uses(t)[f] = frames[t][f].blocks
  BY <1>2, UsesFacts
<1>4. Uses(t)' = [Uses(t) EXCEPT ![m] = @ \cup {b}]
  BY <1>1, <1>2, <1>3 DEF Uses
<1>5. ASSUME NEW u \in Thread, u # t PROVE Uses(u)' = Uses(u)
  BY <1>1, <1>5 DEF Uses, Depth
<1>6. Len(Uses(t)') = m /\ Uses(t)'[m] = Uses(t)[m] \cup {b} /\ b \in Uses(t)'[m]
  BY <1>1, <1>3, <1>4
<1>7. Promised!IsBlock(b)
  <2>1. DOMAIN b = {"chunk", "off", "size"} /\ b.size > 0
    BY ReentAssumption DEF Block
  <2> QED
    BY <2>1 DEF Promised!IsBlock
<1>8. \A a \in Promised!InUse : ~Promised!ShareBytes(a, b)
  <2>1. ASSUME NEW a \in Promised!InUse PROVE ~Promised!ShareBytes(a, b)
    <3>1. PICK u \in Thread : a \in UNION Promised!Range(Uses(u))
      BY DEF Promised!InUse
    <3>2. Len(Uses(u)) = Depth(u) /\ Uses(u) \in Seq(SUBSET Block)
      BY UsesFacts
    <3>3. PICK f \in 1 .. Depth(u) : a \in Uses(u)[f]
      BY <3>1, <3>2 DEF Promised!Range
    <3>4. a \in frames[u][f].blocks /\ a \in Block
      BY <3>2, <3>3, UsesFacts
    <3>5. a.chunk # b.chunk \/ a.off + a.size <= b.off
      BY <3>4, OwnBytes
    <3>6. a.off \in Nat /\ a.size \in Nat /\ b.off \in Nat
      BY <3>4, ReentAssumption DEF Block
    <3> QED
      BY <3>5, <3>6 DEF Promised!ShareBytes
  <2> QED
    BY <2>1
<1>9. AF[t] = Uses(t) /\ AF'[t] = Uses(t)' /\ Uses(t) # <<>>
  BY <1>1, <1>3
<1>10. AF' = [AF EXCEPT ![t][Len(AF[t])] = @ \cup {b}]
  <2>1. [AF EXCEPT ![t][Len(AF[t])] = @ \cup {b}] =
          [AF EXCEPT ![t] = [Uses(t) EXCEPT ![m] = @ \cup {b}]]
    BY <1>3, <1>9
  <2>2. AF' = [u \in Thread |-> Uses(u)']
    OBVIOUS
  <2>3. AF' = [AF EXCEPT ![t] = Uses(t)']
    BY <1>5, <2>2
  <2> QED
    BY <1>4, <2>1, <2>3
<1>11. b \in Promised!Last(AF'[t]) /\ Len(AF'[t]) = Len(AF[t])
  BY <1>3, <1>6, <1>9 DEF Promised!Last
<1> QED
  BY <1>7, <1>8, <1>9, <1>10, <1>11 DEF Promised!Alloc

\* A small block is in nobody else's bytes, as TmpStack promises.
LEMMA AllocStackPromised ==
  ASSUME IInv, NEW t \in Thread, NEW k \in 1 .. MaxSize, AllocStack(t, k)
  PROVE  Promised!Alloc(t)
<1>1. PICK m, b : m = Len(frames[t]) /\ b = [chunk |-> t, off |-> sp[t], size |-> k]
  OBVIOUS
<1>2. PICK e : e = [frames[t][m] EXCEPT !.blocks = @ \cup {b}]
  OBVIOUS
<1>3. /\ frames[t] # <<>> /\ pc[t] = "run" /\ pc' = pc
      /\ frames' = [frames EXCEPT ![t][m] = e]
  BY <1>1, <1>2 DEF AllocStack, MayAlloc, Running
<1>4. frames[t][m] \in Frame
  BY <1>1, <1>3, TopFrame
<1>5. b \in Block /\ sp[t] % Align = 0
  BY <1>1 DEF IInv, TypeOK, Block, StackState
<1>6. e \in Frame /\ e.blocks = frames[t][m].blocks \cup {b}
  BY <1>2, <1>4, <1>5 DEF Frame
<1>7. TopIs(t, m, e)
  BY <1>1, <1>3, <1>6 DEF TopIs
<1> QED
  BY <1>1, <1>3, <1>5, <1>6, <1>7, AllocPromised

\* Nor is a large one.
LEMMA AllocListPromised ==
  ASSUME IInv, NEW t \in Thread, NEW k \in 1 .. MaxSize, AllocList(t, k)
  PROVE  Promised!Alloc(t)
<1>1. PICK p \in Node \ DOMAIN heap :
        frames' = [frames EXCEPT ![t][Len(frames[t])] =
                     [marker |-> p, sp |-> @.sp,
                      blocks |-> @.blocks \cup {[chunk |-> p, off |-> Hsiz, size |-> k]}]]
  BY DEF AllocList
<1>2. PICK m, b : m = Len(frames[t]) /\ b = [chunk |-> p, off |-> Hsiz, size |-> k]
  OBVIOUS
<1>3. PICK e : e = [marker |-> p, sp |-> frames[t][m].sp, blocks |-> frames[t][m].blocks \cup {b}]
  OBVIOUS
<1>4. /\ frames[t] # <<>> /\ pc[t] = "run" /\ pc' = pc
      /\ frames' = [frames EXCEPT ![t][m] = e]
  BY <1>1, <1>2, <1>3 DEF AllocList, MayAlloc, Running
<1>5. frames[t][m] \in Frame
  BY <1>2, <1>4, TopFrame
<1>6. b \in Block /\ Hsiz % Align = 0
  BY <1>2, ReentAssumption DEF Block
<1>7. e \in Frame /\ e.blocks = frames[t][m].blocks \cup {b}
  BY <1>3, <1>5, <1>6 DEF Frame
<1>8. TopIs(t, m, e)
  BY <1>2, <1>4, <1>7 DEF TopIs
<1> QED
  BY <1>2, <1>4, <1>6, <1>7, <1>8, AllocPromised

\* So is a call.
LEMMA MarkPromised ==
  ASSUME IInv, NEW t \in Thread, Mark(t)
  PROVE  Promised!Mark(t)
<1> DEFINE AF == [u \in Thread |-> Uses(u)]
<1>1. PICK m, e : m = Len(frames[t]) /\ e = [marker |-> Null, sp |-> sp[t], blocks |-> {}]
  OBVIOUS
<1>2. frames[t] \in Seq(Frame) /\ frames \in [Thread -> Seq(Frame)] /\ m \in Nat
  BY <1>1 DEF IInv, TypeOK
<1>3. /\ frames'[t] = Append(frames[t], e) /\ \A u \in Thread \ {t} : frames'[u] = frames[u]
      /\ pc[t] = "run" /\ pc' = pc
  BY <1>1, <1>2 DEF Mark
<1>4. /\ Len(frames'[t]) = m + 1
      /\ \A f \in 1 .. m + 1 : frames'[t][f].blocks = IF f \in 1 .. m THEN frames[t][f].blocks ELSE {}
  BY <1>1, <1>2, <1>3
<1>5. Depth(t) = m /\ Depth(t)' = m + 1
  BY <1>1, <1>3, <1>4 DEF Depth
<1>6. Uses(t) \in Seq(SUBSET Block) /\ Len(Uses(t)) = m
      /\ \A f \in 1 .. m : Uses(t)[f] = frames[t][f].blocks
  BY <1>5, UsesFacts
<1>7. Uses(t)' = Append(Uses(t), {})
  <2>1. Uses(t)' = [f \in 1 .. m + 1 |-> IF f \in 1 .. m THEN Uses(t)[f] ELSE {}]
    BY <1>4, <1>5, <1>6 DEF Uses
  <2>2. PICK A, h : A = Append(Uses(t), {}) /\ h = Uses(t)'
    OBVIOUS
  <2>3. /\ A \in Seq(SUBSET Block) /\ Len(A) = m + 1
        /\ \A f \in 1 .. m + 1 : A[f] = IF f \in 1 .. m THEN Uses(t)[f] ELSE {}
    BY <1>2, <1>6, <2>2
  <2>4. A \in [1 .. m + 1 -> SUBSET Block]
    BY <2>3
  <2>5. A = h
    BY <2>1, <2>2, <2>3, <2>4
  <2> QED
    BY <2>2, <2>5
<1>8. ASSUME NEW u \in Thread, u # t PROVE Uses(u)' = Uses(u)
  BY <1>3, <1>8 DEF Uses, Depth
<1>9. AF' = [AF EXCEPT ![t] = Append(@, {})]
  <2>1. AF' = [u \in Thread |-> Uses(u)']
    OBVIOUS
  <2> QED
    BY <1>7, <1>8, <2>1
<1> QED
  BY <1>9 DEF Promised!Mark

\* And entering the loop of TMP_FREE, or returning without it.
LEMMA FreePromised ==
  ASSUME IInv, NEW t \in Thread, frames[t] # <<>>, pc[t] = "run", Depth(t)' = Len(frames[t]) - 1,
         \A f \in 1 .. Len(frames[t]) - 1 : frames'[t][f] = frames[t][f],
         \A u \in Thread \ {t} : Uses(u)' = Uses(u)
  PROVE  Promised!Free(t)
<1> DEFINE AF == [u \in Thread |-> Uses(u)]
<1>1. PICK m : m = Len(frames[t])
  OBVIOUS
<1>2. m \in Nat /\ m - 1 \in Nat /\ m >= 1
  BY <1>1, TopFrame
<1>3. Depth(t) = m /\ Depth(t)' = m - 1
  BY <1>1 DEF Depth
<1>4. Uses(t) \in Seq(SUBSET Block) /\ Len(Uses(t)) = m
      /\ \A f \in 1 .. m : Uses(t)[f] = frames[t][f].blocks
  BY <1>3, UsesFacts
<1>5. Uses(t)' = Promised!Front(Uses(t))
  <2>1. Uses(t)' = [f \in 1 .. m - 1 |-> Uses(t)[f]]
    BY <1>1, <1>2, <1>3, <1>4 DEF Uses
  <2>2. Promised!Front(Uses(t)) = SubSeq(Uses(t), 1, m - 1)
    BY <1>4 DEF Promised!Front
  <2>3. SubSeq(Uses(t), 1, m - 1) = [f \in 1 .. m - 1 |-> Uses(t)[f]]
    BY <1>2, <1>4
  <2> QED
    BY <2>1, <2>2, <2>3
<1>6. AF' = [AF EXCEPT ![t] = Promised!Front(@)]
  <2>1. AF' = [u \in Thread |-> Uses(u)']
    OBVIOUS
  <2> QED
    BY <1>5, <2>1
<1>7. AF[t] # <<>>
  BY <1>2, <1>4
<1> QED
  BY <1>6, <1>7 DEF Promised!Free

\* What a function gets from TMP_ALLOC is aligned, is as large as it asked for and
\* shares no byte with a block that any thread uses, until TMP_FREE: every step is one
\* that TmpStack allows, or one it does not see.
THEOREM Refinement == Spec => Implements
<1>1. Init => Promised!Init
  <2> SUFFICES ASSUME Init PROVE Promised!Init
    OBVIOUS
  <2>1. ASSUME NEW t \in Thread PROVE Uses(t) = <<>>
    <3>1. Depth(t) = 0
      BY DEF Init, Depth
    <3> QED
      BY <3>1 DEF Uses
  <2> QED
    BY <2>1 DEF Promised!Init
<1>2. IInv /\ [Next]_vars => [Promised!Next]_[t \in Thread |-> Uses(t)]
  <2> SUFFICES ASSUME IInv, [Next]_vars
               PROVE  Promised!Next \/ \A t \in Thread : Uses(t)' = Uses(t)
    OBVIOUS
  <2>1. ASSUME NEW t \in Thread, Mark(t) PROVE Promised!Next
    BY <2>1, MarkPromised DEF Promised!Next
  <2>2. ASSUME NEW t \in Thread, NEW n \in 1 .. MaxSize, AllocStack(t, n) PROVE Promised!Next
    BY <2>2, AllocStackPromised DEF Promised!Next
  <2>3. ASSUME NEW t \in Thread, NEW n \in 1 .. MaxSize, AllocList(t, n) PROVE Promised!Next
    BY <2>3, AllocListPromised DEF Promised!Next
  <2>4. ASSUME NEW t \in Thread, Free(t) PROVE Promised!Next
    <3>1. /\ frames[t] # <<>> /\ pc[t] = "run" /\ frames' = frames
          /\ pc'[t] = "free" /\ \A u \in Thread \ {t} : pc'[u] = pc[u]
      BY <2>4 DEF Free, Running, IInv, TypeOK
    <3>2. \A u \in Thread \ {t} : Uses(u)' = Uses(u)
      BY <3>1 DEF Uses, Depth
    <3>3. Depth(t)' = Len(frames[t]) - 1
      BY <3>1 DEF Depth
    <3>4. Promised!Free(t)
      BY <3>1, <3>2, <3>3, FreePromised
    <3> QED
      BY <3>4 DEF Promised!Next
  <2>5. ASSUME NEW t \in Thread, FreeNode(t) PROVE \A u \in Thread : Uses(u)' = Uses(u)
    BY <2>5 DEF FreeNode, Uses, Depth
  <2>6. ASSUME NEW t \in Thread, frames[t] # <<>>, Pop(t)
        PROVE  /\ Len(frames'[t]) = Len(frames[t]) - 1
               /\ \A f \in 1 .. Len(frames[t]) - 1 : frames'[t][f] = frames[t][f]
               /\ \A u \in Thread \ {t} : frames'[u] = frames[u]
    <3>1. PICK m, F : m = Len(frames[t]) /\ F = Front(frames[t])
      OBVIOUS
    <3>2. frames[t] \in Seq(Frame) /\ frames \in [Thread -> Seq(Frame)] /\ m \in Nat /\ m - 1 \in Nat
      BY <2>6, <3>1, TopFrame DEF IInv, TypeOK
    <3>3. Len(F) = m - 1 /\ \A f \in 1 .. m - 1 : F[f] = frames[t][f]
      BY <3>1, <3>2 DEF Front
    <3>4. frames'[t] = F /\ \A u \in Thread \ {t} : frames'[u] = frames[u]
      BY <2>6, <3>1, <3>2 DEF Pop
    <3> QED
      BY <3>1, <3>3, <3>4
  <2>7. ASSUME NEW t \in Thread, Return(t) PROVE \A u \in Thread : Uses(u)' = Uses(u)
    <3>1. /\ pc[t] = "free" /\ frames[t] # <<>> /\ Pop(t)
          /\ pc'[t] = "run" /\ \A u \in Thread \ {t} : pc'[u] = pc[u]
      BY <2>7 DEF Return, IInv, TypeOK, StackState
    <3>2. Depth(t) = Len(frames[t]) - 1 /\ Depth(t)' = Len(frames[t]) - 1
      BY <2>6, <3>1 DEF Depth
    <3>3. Uses(t)' = Uses(t)
      BY <2>6, <3>1, <3>2 DEF Uses
    <3>4. \A u \in Thread \ {t} : Uses(u)' = Uses(u)
      BY <2>6, <3>1 DEF Uses, Depth
    <3> QED
      BY <3>3, <3>4
  <2>8. ASSUME NEW t \in Thread, ReturnUnfreed(t) PROVE Promised!Next
    <3>1. pc[t] = "run" /\ frames[t] # <<>> /\ Pop(t) /\ pc' = pc
      BY <2>8 DEF ReturnUnfreed, Running
    <3>2. \A u \in Thread \ {t} : Uses(u)' = Uses(u)
      BY <2>6, <3>1 DEF Uses, Depth
    <3>3. Depth(t)' = Len(frames[t]) - 1
      BY <2>6, <3>1 DEF Depth
    <3>4. Promised!Free(t)
      BY <2>6, <3>1, <3>2, <3>3, FreePromised
    <3> QED
      BY <3>4 DEF Promised!Next
  <2>9. CASE UNCHANGED vars
    BY <2>9 DEF vars, Uses, Depth
  <2> QED
    BY <2>1, <2>2, <2>3, <2>4, <2>5, <2>7, <2>8, <2>9 DEF Next
<1> QED
  BY <1>1, <1>2, Invariance, PTL DEF Spec, Implements, Promised!Spec

=============================================================================
