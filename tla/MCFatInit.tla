----------------------------- MODULE MCFatInit -----------------------------
(* FatInit for TLC: the generic setup, a chip's and a variant's on top. *)
EXTENDS FatInit, TLC

CONSTANTS t1, t2

MCThread == {t1, t2}

\* Fields 1 and 2 are functions, 3 is a threshold.
MCSetups == << 1 :> 10 @@ 2 :> 20 @@ 3 :> 30, 2 :> 21 @@ 3 :> 31, 3 :> 32 >>

============================================================================
