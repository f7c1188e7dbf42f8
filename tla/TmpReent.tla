------------------------------ MODULE TmpReent ------------------------------
(***************************************************************************)
(* The allocators of temporary memory that any number of threads may use:  *)
(* --enable-alloca=malloc-reentrant, where every TMP_ALLOC is a block of   *)
(* the allocation function on a list of the calling function's own         *)
(* (tal-reent.c), and --enable-alloca=alloca, where only the large ones    *)
(* are and the others are on the stack of the thread (gmp-impl.h).         *)
(*                                                                         *)
(* The links of a list are in the blocks themselves, which go back to the  *)
(* allocation function, and so to other threads, one by one.               *)
(***************************************************************************)
EXTENDS Integers, Sequences, FiniteSets, SequencesExt

CONSTANTS Thread,
          Node,        \* what the allocation function returns: addresses
          Null,
          AllocaLimit, \* smaller requests are on the stack: 65536, or 1 for none
          Align,       \* __TMP_ALIGN
          Hsiz,        \* HSIZ
          MaxSize,     \* bound: the largest request
          MaxFrames,   \* bound: functions of a thread that call each other
          MaxBlocks    \* bound: blocks of one function

ASSUME ReentAssumption ==
  /\ IsFiniteSet(Node) /\ Null \notin Node
  /\ Node \cap Thread = {}
  /\ Align \in Nat \ {0}
  /\ Hsiz \in Nat \ {0} /\ Hsiz % Align = 0
  /\ {AllocaLimit, MaxSize, MaxFrames, MaxBlocks} \subseteq Nat

VARIABLES pc,      \* "run", or "free" in the loop of __gmp_tmp_reentrant_free
          mark,    \* what that loop has still to free
          frames,  \* the functions running: __tmp_marker, the stack pointer when
                   \* it was called, and the blocks it got
          sp,      \* the stack pointer
          header,  \* struct tmp_reentrant_t at the start of each block
          heap     \* external: the blocks allocated, and the sizes asked for

vars == <<pc, mark, frames, sp, header, heap>>

\* The allocation function may write over what it gets back.
Junk == [next |-> Null, size |-> 0]

Init ==
  /\ pc = [t \in Thread |-> "run"]
  /\ mark = [t \in Thread |-> Null]
  /\ frames = [t \in Thread |-> <<>>]
  /\ sp = [t \in Thread |-> 0]
  /\ header = [p \in Node |-> Junk]
  /\ heap = <<>>

Running(t) == pc[t] = "run" /\ frames[t] # <<>>

\* TMP_MARK
Mark(t) ==
  /\ pc[t] = "run"
  /\ Len(frames[t]) < MaxFrames
  /\ frames' = [frames EXCEPT ![t] =
                  Append(@, [marker |-> Null, sp |-> sp[t], blocks |-> {}])]
  /\ UNCHANGED <<pc, mark, sp, header, heap>>

MayAlloc(t) == Running(t) /\ Cardinality(Last(frames[t]).blocks) < MaxBlocks

\* Mutant: no rounding.
RoundUpNone(n) == n

RoundUp(n) == n + ((-n) % Align)

\* TMP_ALLOC of few bytes: alloca.
AllocStack(t, n) ==
  /\ MayAlloc(t)
  /\ n < AllocaLimit
  /\ frames' = [frames EXCEPT ![t][Len(frames[t])].blocks =
                  @ \cup {[chunk |-> t, off |-> sp[t], size |-> n]}]
  /\ sp' = [sp EXCEPT ![t] = @ + RoundUp(n)]
  /\ UNCHANGED <<pc, mark, header, heap>>

\* Mutants: a header without the size of the header, and one without the link.
HeaderUnsized(t, n) == [next |-> Last(frames[t]).marker, size |-> n]
HeaderUnlinked(t, n) == [next |-> Null, size |-> n + Hsiz]

\* The header of a new block of n bytes: it comes first on the list.
Header(t, n) == [next |-> Last(frames[t]).marker, size |-> n + Hsiz]

\* TMP_ALLOC otherwise: __gmp_tmp_reentrant_alloc.
AllocList(t, n) ==
  /\ MayAlloc(t)
  /\ n >= AllocaLimit
  /\ \E p \in Node \ DOMAIN heap :
       /\ heap' = [q \in DOMAIN heap \cup {p} |-> IF q = p THEN n + Hsiz ELSE heap[q]]
       /\ header' = [header EXCEPT ![p] = Header(t, n)]
       /\ frames' = [frames EXCEPT ![t][Len(frames[t])] =
            [marker |-> p, sp |-> @.sp,
             blocks |-> @.blocks \cup {[chunk |-> p, off |-> Hsiz, size |-> n]}]]
  /\ UNCHANGED <<pc, mark, sp>>

\* TMP_FREE: the loop is entered with the list.
Free(t) ==
  /\ Running(t)
  /\ pc' = [pc EXCEPT ![t] = "free"]
  /\ mark' = [mark EXCEPT ![t] = Last(frames[t]).marker]
  /\ UNCHANGED <<frames, sp, header, heap>>

\* Mutant: the link is read after the block has been given back.
FreeNodeFirst(t) ==
  /\ pc[t] = "free"
  /\ mark[t] # Null
  /\ header' = [header EXCEPT ![mark[t]] = Junk]
  /\ mark' = [mark EXCEPT ![t] = header'[mark[t]].next]
  /\ heap' = [q \in DOMAIN heap \ {mark[t]} |-> heap[q]]
  /\ UNCHANGED <<pc, frames, sp>>

\* One iteration: the link is read before the block is given back.
FreeNode(t) ==
  /\ pc[t] = "free"
  /\ mark[t] # Null
  /\ LET p == mark[t]
     IN  /\ mark' = [mark EXCEPT ![t] = header[p].next]
         /\ heap' = [q \in DOMAIN heap \ {p} |-> heap[q]]
         /\ header' = [header EXCEPT ![p] = Junk]
  /\ UNCHANGED <<pc, frames, sp>>

\* The function returns, and with it goes its part of the stack.
Pop(t) ==
  /\ frames' = [frames EXCEPT ![t] = Front(@)]
  /\ sp' = [sp EXCEPT ![t] = Last(frames[t]).sp]

Return(t) ==
  /\ pc[t] = "free"
  /\ mark[t] = Null
  /\ Pop(t)
  /\ pc' = [pc EXCEPT ![t] = "run"]
  /\ UNCHANGED <<mark, header, heap>>

\* "TMP_FREE doesn't need to be done if a TMP_MARK was made, but then no
\* TMP_ALLOCs."
ReturnUnfreed(t) ==
  /\ Running(t)
  /\ Last(frames[t]).blocks = {}
  /\ Pop(t)
  /\ UNCHANGED <<pc, mark, header, heap>>

Next ==
  \E t \in Thread :
    \/ Mark(t)
    \/ \E n \in 1 .. MaxSize : AllocStack(t, n) \/ AllocList(t, n)
    \/ Free(t) \/ FreeNode(t) \/ Return(t) \/ ReturnUnfreed(t)

Spec == Init /\ [][Next]_vars

-----------------------------------------------------------------------------
Block == [chunk : Node \cup Thread, off : Nat, size : 1 .. MaxSize]
Frame == [marker : Node \cup {Null}, sp : Nat, blocks : SUBSET Block]

TypeOK ==
  /\ pc \in [Thread -> {"run", "free"}]
  /\ mark \in [Thread -> Node \cup {Null}]
  /\ frames \in [Thread -> Seq(Frame)]
  /\ sp \in [Thread -> Nat]
  /\ header \in [Node -> [next : Node \cup {Null}, size : Nat]]
  /\ DOMAIN heap \subseteq Node /\ \A p \in DOMAIN heap : heap[p] \in Nat

\* The blocks reached from p within n links, when the blocks have the headers h.
Reached(h, p, n) ==
  LET At[k \in 0 .. n] == IF k = 0 THEN p ELSE IF At[k - 1] = Null THEN Null
                          ELSE h[At[k - 1]].next
  IN  {At[k] : k \in 0 .. n} \ {Null}

\* The loop of TMP_FREE is at the last function that the thread called.
Freeing(t, f) == pc[t] = "free" /\ f = Len(frames[t])

\* What a function has still to free: its list, or the rest of it.
First(t, f) == IF Freeing(t, f) THEN mark[t] ELSE frames[t][f].marker
ToFree(t, f) == Reached(header, First(t, f), Cardinality(Node))

\* The blocks a function got from the allocation function.
Got(t, f) == {b.chunk : b \in frames[t][f].blocks} \cap Node

\* The list of a function holds every block it got from the allocation function
\* and, while it is freed, nothing another thread has got meanwhile.
ListsExact ==
  \A t \in Thread : \A f \in 1 .. Len(frames[t]) :
    /\ ToFree(t, f) \subseteq Got(t, f)
    /\ ~Freeing(t, f) => ToFree(t, f) = Got(t, f)

\* What is allocated is what some function has still to free, each block once.
NothingLost ==
  /\ \A p \in Node :
       p \in DOMAIN heap <=>
         \E t \in Thread : \E f \in 1 .. Len(frames[t]) : p \in ToFree(t, f)
  /\ \A t, u \in Thread : \A f \in 1 .. Len(frames[t]), g \in 1 .. Len(frames[u]) :
       t # u \/ f # g => ToFree(t, f) \cap ToFree(u, g) = {}

\* The size a block is freed with, read from its header, is the size it was
\* allocated with.
FreedWithSize == \A p \in DOMAIN heap : header[p].size = heap[p]

\* What the functions get is what TmpStack promises; a function that has entered
\* the loop uses its blocks no more.
Depth(t) == IF pc[t] = "free" THEN Len(frames[t]) - 1 ELSE Len(frames[t])
Uses(t) == [f \in 1 .. Depth(t) |-> frames[t][f].blocks]

Promised == INSTANCE TmpStack WITH frames <- [t \in Thread |-> Uses(t)]
Implements == Promised!Spec

-----------------------------------------------------------------------------
(* The inductive invariant. *)

\* s numbers the n blocks of S along a list that starts at p, from the last.
Numbers(s, n, h, p, S) ==
  /\ s \in [1 .. n -> S]
  /\ \A q \in S : \E i \in 1 .. n : s[i] = q
  /\ \A i, j \in 1 .. n : s[i] = s[j] => i = j
  /\ \A i \in 1 .. n : h[s[i]].next = IF i = 1 THEN Null ELSE s[i - 1]
  /\ p = IF n = 0 THEN Null ELSE s[n]

\* The blocks of S are a list that starts at p and ends.
IsList(h, p, S) ==
  \E s \in [1 .. Cardinality(S) -> S] : Numbers(s, Cardinality(S), h, p, S)

ListState == \A t \in Thread : \A f \in 1 .. Len(frames[t]) : IsList(header, First(t, f), ToFree(t, f))

\* A block on the stack ends below the stack pointer, and below those that later
\* functions have saved.
Placed(t, f, b) ==
  /\ b.chunk \in Node \cup {t} /\ b.off % Align = 0
  /\ b.chunk = t => /\ b.off + b.size <= sp[t]
                    /\ \A g \in f + 1 .. Len(frames[t]) : b.off + b.size <= frames[t][g].sp

StackState ==
  \A t \in Thread :
    /\ sp[t] % Align = 0
    /\ pc[t] = "free" => frames[t] # <<>>
    /\ \A f \in 1 .. Len(frames[t]) :
         /\ frames[t][f].sp % Align = 0
         /\ \A b \in frames[t][f].blocks : Placed(t, f, b)

IInv == TypeOK /\ ListState /\ ListsExact /\ NothingLost /\ FreedWithSize /\ StackState

=============================================================================
