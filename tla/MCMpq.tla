------------------------------- MODULE MCMpq -------------------------------
(* Mpq for TLC: two variables that are assigned, and one that is not.       *)
EXTENDS Mpq, TLC

CONSTANTS q1, q2, q3

MCVar == {q1, q2, q3}
MCFixed == {q3}
\* 16 is the number of three limbs of which two are zero.
MCTerms == (-4 .. 4) \cup {16}
MCLiterals == {-5, 0, 1, 4}

\* Fractions in canonical form.
MCFractions ==
  {f \in [num : MCTerms, den : MCTerms] :
     f.den > 0 /\ \A d \in 2 .. f.den : f.den % d = 0 => Abs(f.num) % d # 0}
MCInitial ==
  {q1 :> f @@ q2 :> g @@ q3 :> h :
     f \in MCFractions, g \in MCFractions, h \in {[num |-> -5, den |-> 6], [num |-> 3, den |-> 4]}}

=============================================================================
