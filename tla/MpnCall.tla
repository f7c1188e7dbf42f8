------------------------------ MODULE MpnCall ------------------------------
(***************************************************************************)
(* A call of an mpn function as its caller sees it: the abstract           *)
(* specification that the loops of CarryLoops, AheadLoops and PropLoops    *)
(* implement.  A call that has been made completes in one step.            *)
(***************************************************************************)
EXTENDS MpnContract

VARIABLES mem,    \* the memory
          phase,  \* "idle", "called" or "returned"
          call,   \* the call being made
          ret     \* the value returned

Init ==
  /\ mem \in Memory
  /\ phase = "idle"
  /\ call = NoCall
  /\ ret = 0

Invoke ==
  /\ phase = "idle"
  /\ phase' = "called"
  /\ call' \in Calls(Op)
  /\ UNCHANGED <<mem, ret>>

Complete ==
  /\ phase = "called"
  /\ phase' = "returned"
  /\ mem' \in Memory
  /\ ret' \in Limb
  /\ \E chain \in Chain : Promise(call, mem, mem', ret', chain)
  /\ UNCHANGED call

Return ==
  /\ phase = "returned"
  /\ phase' = "idle"
  /\ call' = NoCall
  /\ ret' = 0
  /\ UNCHANGED mem

Next == Invoke \/ Complete \/ Return

vars == <<mem, phase, call, ret>>

Spec == Init /\ [][Next]_vars

============================================================================
