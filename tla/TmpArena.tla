------------------------------ MODULE TmpArena ------------------------------
(***************************************************************************)
(* The allocator of temporary memory of a build with                       *)
(* --enable-alloca=malloc-notreentrant (tal-notreent.c): a stack of chunks *)
(* in static variables.  A mark is a position in the stack; TMP_FREE pops  *)
(* every chunk above it.  A new chunk is made large enough for what has    *)
(* ever been in use at once, and more.  Sizes and positions are in bytes.  *)
(***************************************************************************)
EXTENDS Integers, Sequences, FiniteSets, SequencesExt

CONSTANTS ChunkId,   \* what the allocation function returns: addresses of chunks
          Align,     \* __TMP_ALIGN
          Hsiz,      \* HSIZ
          MaxSize,   \* bound: the largest request
          MaxFrames, \* bound: functions that call each other
          MaxBlocks, \* bound: blocks of one function
          MaxTotal   \* bound: bytes in all chunks

ASSUME ArenaAssumption ==
  /\ Align \in Nat \ {0}
  /\ Hsiz \in Nat \ {0} /\ Hsiz % Align = 0
  /\ {MaxSize, MaxFrames, MaxBlocks, MaxTotal} \subseteq Nat

Base == "xxx"
ASSUME BaseNotAChunk == Base \notin ChunkId

VARIABLES stack,   \* struct tmp_stack from xxx up to current
          current_total_allocation,
          max_total_allocation,
          heap,    \* external: the chunks allocated, and the sizes asked for
          frames   \* the marks of the functions running, and the blocks they got

vars == <<stack, current_total_allocation, max_total_allocation, heap, frames>>

Current == Last(stack)

Init ==
  /\ stack = << [id |-> Base, end |-> 0, alloc_point |-> 0] >>
  /\ current_total_allocation = 0
  /\ max_total_allocation = 0
  /\ heap = <<>>
  /\ frames = <<>>

\* Mutants: no rounding, and rounding downwards.
RoundUpNone(n) == n
RoundDown(n) == n - (n % Align)

\* ROUND_UP_MULTIPLE (n, __TMP_ALIGN)
RoundUp(n) == n + ((-n) % Align)

\* __gmp_tmp_mark
Mark ==
  /\ Len(frames) < MaxFrames
  /\ frames' = Append(frames, [which_chunk |-> Current.id,
                               alloc_point |-> Current.alloc_point,
                               blocks |-> {}])
  /\ UNCHANGED <<stack, current_total_allocation, max_total_allocation, heap>>

\* The block of size bytes the function gets from the chunk at the top of s.
Take(s, n) ==
  /\ frames' = [frames EXCEPT ![Len(frames)].blocks =
       @ \cup {[chunk |-> Last(s).id, off |-> Last(s).alloc_point, size |-> n]}]
  /\ stack' = [s EXCEPT ![Len(s)].alloc_point = @ + RoundUp(n)]

Fits(size) == size <= Current.end - Current.alloc_point

\* __gmp_tmp_alloc, when the current chunk has room.
AllocHere(n) ==
  /\ Fits(RoundUp(n))
  /\ Take(stack, n)
  /\ UNCHANGED <<current_total_allocation, max_total_allocation, heap>>

\* The bytes that shall be in all chunks when size more are needed.
NewTotal(size) ==
  LET now == current_total_allocation + size
  IN  IF now > max_total_allocation THEN RoundUp((now * 3) \div 2) ELSE max_total_allocation

\* __gmp_tmp_alloc, when it needs a new chunk.
AllocChunk(n) ==
  LET total == NewTotal(RoundUp(n))
      chunk_size == total - current_total_allocation + Hsiz
  IN  /\ ~Fits(RoundUp(n))
      /\ total <= MaxTotal
      /\ current_total_allocation' = total
      /\ max_total_allocation' = IF total > max_total_allocation THEN total
                                 ELSE max_total_allocation
      /\ \E id \in ChunkId \ DOMAIN heap :
           /\ heap' = [c \in DOMAIN heap \cup {id} |-> IF c = id THEN chunk_size ELSE heap[c]]
           /\ Take(Append(stack, [id |-> id, end |-> chunk_size, alloc_point |-> Hsiz]), n)

Alloc(n) ==
  /\ frames # <<>>
  /\ Cardinality(Last(frames).blocks) < MaxBlocks
  /\ AllocHere(n) \/ AllocChunk(n)

\* Mutants: no chunk is popped, and the chunk of the mark is popped too.
KeptAll(mark) == Len(stack)
KeptBelow(mark) ==
  LET k == CHOOSE k \in 1 .. Len(stack) : stack[k].id = mark.which_chunk
  IN  IF k > 1 THEN k - 1 ELSE k

\* The chunks the loop of __gmp_tmp_free keeps: it pops until it meets the
\* chunk of the mark.
Kept(mark) ==
  LET at == {k \in 1 .. Len(stack) : stack[k].id = mark.which_chunk}
  IN  CHOOSE k \in at : \A l \in at : l <= k

\* Mutant: only one chunk is counted.
BytesOfTop(s, k) == IF k < Len(s) THEN Last(s).end - Hsiz ELSE 0

\* The bytes in the chunks of s above the k-th: what popping them subtracts.
BytesAbove(s, k) ==
  LET Bytes[l \in k .. Len(s)] ==
        IF l = k THEN 0 ELSE Bytes[l - 1] + (s[l].end - Hsiz)
  IN  Bytes[Len(s)]

\* __gmp_tmp_free
Free ==
  /\ frames # <<>>
  /\ LET mark == Last(frames)
         k == Kept(mark)
         freed == {stack[l].id : l \in k + 1 .. Len(stack)}
     IN  /\ stack' = [SubSeq(stack, 1, k) EXCEPT ![k].alloc_point = mark.alloc_point]
         /\ current_total_allocation' = current_total_allocation - BytesAbove(stack, k)
         /\ heap' = [c \in DOMAIN heap \ freed |-> heap[c]]
  /\ frames' = Front(frames)
  /\ UNCHANGED max_total_allocation

\* "TMP_FREE doesn't need to be done if a TMP_MARK was made, but then no
\* TMP_ALLOCs": the function returns without it.
ReturnUnfreed ==
  /\ frames # <<>>
  /\ Last(frames).blocks = {}
  /\ frames' = Front(frames)
  /\ UNCHANGED <<stack, current_total_allocation, max_total_allocation, heap>>

Next ==
  \/ Mark
  \/ \E n \in 1 .. MaxSize : Alloc(n)
  \/ Free
  \/ ReturnUnfreed

Spec == Init /\ [][Next]_vars

-----------------------------------------------------------------------------
Chunk == [id : ChunkId \cup {Base}, end : Nat, alloc_point : Nat]
Block == [chunk : ChunkId, off : Nat, size : 1 .. MaxSize]
Marker == [which_chunk : ChunkId \cup {Base}, alloc_point : Nat, blocks : SUBSET Block]

TypeOK ==
  /\ stack \in Seq(Chunk) /\ stack # <<>>
  /\ current_total_allocation \in Nat
  /\ max_total_allocation \in Nat
  /\ DOMAIN heap \subseteq ChunkId /\ heap \in [DOMAIN heap -> Nat]
  /\ frames \in Seq(Marker)

\* Positions in the stack: a chunk, and how far into it.
Index(s, id) == CHOOSE k \in 1 .. Len(s) : s[k].id = id
Below(p, q) == p[1] < q[1] \/ (p[1] = q[1] /\ p[2] <= q[2])

\* Where the mark of the f-th function is; after the last one, the top.
MarkPos(f) ==
  IF f \in 1 .. Len(frames)
  THEN <<Index(stack, frames[f].which_chunk), frames[f].alloc_point>>
  ELSE <<Len(stack), Current.alloc_point>>

\* Every mark still finds its chunk on the stack, once, whatever has been
\* allocated and freed since and although addresses of chunks are used again;
\* marks of callees lie above those of their callers, and all below the top.
MarksValid ==
  /\ \A k, l \in 1 .. Len(stack) : stack[k].id = stack[l].id => k = l
  /\ \A f \in 1 .. Len(frames) :
       \E k \in 1 .. Len(stack) : stack[k].id = frames[f].which_chunk
  /\ \A f, g \in 1 .. Len(frames) + 1 : f <= g => Below(MarkPos(f), MarkPos(g))

\* A block in use lies in a chunk that has not been freed, behind its header and
\* below its alloc_point, and between the mark of its function and the mark of
\* the function called next, so that freeing that one leaves it alone.
LiveInChunk ==
  \A f \in 1 .. Len(frames) : \A b \in frames[f].blocks :
    /\ b.chunk \in DOMAIN heap
    /\ Hsiz <= b.off /\ b.off + b.size <= heap[b.chunk]
    /\ Below(MarkPos(f), <<Index(stack, b.chunk), b.off>>)
    /\ Below(<<Index(stack, b.chunk), b.off + b.size>>, MarkPos(f + 1))

\* current_total_allocation is what the chunks on the stack hold, never more
\* than the maximum, and each chunk goes back to the free function with the size
\* it was asked for with: exactly the chunks on the stack are allocated.
Accounting ==
  /\ current_total_allocation = BytesAbove(stack, 1)
  /\ current_total_allocation <= max_total_allocation
  /\ DOMAIN heap = {stack[k].id : k \in 2 .. Len(stack)}
  /\ \A k \in 2 .. Len(stack) : heap[stack[k].id] = stack[k].end

\* When the outermost function has returned nothing is left allocated, and the
\* next one starts from the bottom again.
AllReturned ==
  frames = <<>> => heap = <<>> /\ stack = << [id |-> Base, end |-> 0, alloc_point |-> 0] >>

\* Where a block may start: aligned, behind the header and not past the end.
\* Nothing starts in the static bottom of the stack, which is empty.
IsPlace(p) ==
  /\ p[1] \in 1 .. Len(stack)
  /\ p[2] % Align = 0
  /\ IF p[1] = 1 THEN p[2] = 0 ELSE p[2] \in Hsiz .. stack[p[1]].end

\* The inductive invariant.  The stack: the bottom is never used up nor left, and
\* the free bytes of a chunk begin at a place.
StackState ==
  /\ stack[1] = [id |-> Base, end |-> 0, alloc_point |-> 0]
  /\ \A k \in 2 .. Len(stack) : stack[k].id \in ChunkId
  /\ \A k \in 1 .. Len(stack) : IsPlace(<<k, stack[k].alloc_point>>)

\* Marks are places, the first one the bottom of the stack; a function without
\* a block has left the top where it found it, and may go without TMP_FREE.
MarkState ==
  /\ MarkPos(1) = <<1, 0>>
  /\ \A f \in 1 .. Len(frames) :
       /\ IsPlace(MarkPos(f))
       /\ frames[f].blocks = {} => MarkPos(f + 1) = MarkPos(f)

\* Blocks are places too, in the chunks they are said to be in.
BlockState ==
  \A f \in 1 .. Len(frames) : \A b \in frames[f].blocks :
    IsPlace(<<Index(stack, b.chunk), b.off>>)

IInv ==
  /\ TypeOK
  /\ StackState /\ MarksValid /\ MarkState
  /\ LiveInChunk /\ BlockState
  /\ Accounting

\* What the functions get is what TmpStack promises.
Promised ==
  INSTANCE TmpStack WITH Thread <- {Base},
    frames <- [t \in {Base} |-> [f \in 1 .. Len(frames) |-> frames[f].blocks]]
Implements == Promised!Spec

=============================================================================
