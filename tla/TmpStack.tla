------------------------------ MODULE TmpStack ------------------------------
(***************************************************************************)
(* What the TMP macros of gmp-impl.h promise a function that uses them,    *)
(* whichever allocator is behind them: a block it gets from TMP_ALLOC is   *)
(* as large as it asked for, is aligned, and shares no byte with any other *)
(* block in use; all blocks since TMP_MARK are given up at TMP_FREE.  The  *)
(* abstract specification of TmpArena and TmpReent.                        *)
(***************************************************************************)
EXTENDS Naturals, Sequences, SequencesExt

CONSTANTS Thread,
          Align  \* __TMP_ALIGN

VARIABLE frames  \* of each thread: the blocks of each function that has a mark

\* A block: where it starts in which piece of memory, and the size asked for.
IsBlock(b) == DOMAIN b = {"chunk", "off", "size"} /\ b.off % Align = 0 /\ b.size > 0

ShareBytes(a, b) ==
  /\ a.chunk = b.chunk
  /\ a.off < b.off + b.size
  /\ b.off < a.off + a.size

InUse == UNION {UNION Range(frames[t]) : t \in Thread}

Init == frames = [t \in Thread |-> <<>>]

Mark(t) == frames' = [frames EXCEPT ![t] = Append(@, {})]

Alloc(t) ==
  /\ frames[t] # <<>>
  /\ Len(frames'[t]) = Len(frames[t])
  /\ \E b \in Last(frames'[t]) :
       /\ IsBlock(b)
       /\ \A a \in InUse : ~ShareBytes(a, b)
       /\ frames' = [frames EXCEPT ![t][Len(frames[t])] = @ \cup {b}]

Free(t) ==
  /\ frames[t] # <<>>
  /\ frames' = [frames EXCEPT ![t] = Front(@)]

Next == \E t \in Thread : Mark(t) \/ Alloc(t) \/ Free(t)

Spec == Init /\ [][Next]_frames

=============================================================================
