---------------------------- MODULE MCAlgorithms ----------------------------
(* Tasks for the algorithms.  A state is a function and its operands; the    *)
(* properties are of the step that answers it: what the function returns is  *)
(* what its definition says.                                                 *)
CONSTANTS TinyBits, ShortBits,  \* limbs that are short give numbers of many
          LongBits,             \* limbs of the divisions whose divisor is cut
          WideBits,             \* limbs of the divisors of one limb, and of common divisors
          ByteBits, DoubleBits, ShortApprox, LongApprox,  \* limbs and tables of square roots
          ModexactThreshold, DivremNormThreshold, DivremUnnormThreshold,
          EuclidHenselThreshold, DcDivQrThreshold, Fudge, SbDivapprCutoff,
          DcDivQThreshold, DcDivapprQThreshold, RshHenselThreshold,
          HenselQrThreshold, Divexact1Threshold, DcBdivQrThreshold,
          DcBdivQThreshold, Mod11Threshold, Mod12Threshold, Mod13Threshold,
          MulKaratsubaThreshold, MulBasecaseMaxUn, SqrBasecaseThreshold,
          SqrKaratsubaThreshold, MullowBasecaseThreshold, MullowDcThreshold,
          MullowMulThreshold, MulhighBasecaseThreshold, MulhighDcThreshold,
          MulhighMulThreshold, WrapAroundBound, MpnFftMulNMinsize,
          InvDivQrThreshold, InvDivapprQNThreshold, MulmidToom42Threshold, Chunk, Mulmod2expm1Threshold,
          GcdShift, PowmThreshold, RootremThreshold, SmallestOmittedPrime,
          MaxBits, MaxPowered,  \* bounds: of a power, and of what may be one
          MaxNumber,            \* bound: the magnitude of the numbers
          Prec                  \* limbs of precision of the results of mpf

VARIABLES task,     \* the function asked and its operands
          answered

vars == <<task, answered>>

Short == INSTANCE MCNumbers WITH LimbBits <- ShortBits
Long == INSTANCE MCResidues WITH LimbBits <- LongBits
Tiny == INSTANCE MCResidues WITH LimbBits <- TinyBits
Lowest == INSTANCE MCResidues WITH LimbBits <- ShortBits
Wide == INSTANCE MCResidues WITH LimbBits <- WideBits
Narrow == INSTANCE MCProducts WITH LimbBits <- ShortBits
Broad == INSTANCE MCProducts WITH LimbBits <- LongBits

\* The primes below the smallest omitted one (PRIMES of mpz/perfpow.c).
Primes == <<3, 5>>

Pairs == INSTANCE MCTheory WITH LimbBits <- ShortBits, ApproxBits <- ShortApprox
Nibbles == INSTANCE MCTheory WITH LimbBits <- WideBits, ApproxBits <- ShortApprox
Bytes == INSTANCE MCTheory WITH LimbBits <- ByteBits, ApproxBits <- ShortApprox
Doubles == INSTANCE MCTheory WITH LimbBits <- DoubleBits, ApproxBits <- LongApprox

Init ==
  /\ \/ Short!NumberTask
     \/ Long!QuotientTask
     \/ Tiny!LongTask \/ Tiny!ManyLimbsTask
     \/ Lowest!LongTask
     \/ Wide!OneLimbTask
     \/ Lowest!InverseTask(7) \/ Long!InverseTask(5) \/ Lowest!LongInverseTask
     \/ Narrow!SumTask \/ Narrow!ProductTask
     \/ Narrow!MiddleTask \/ Broad!MiddleTask
     \/ Narrow!ModularTask \/ Broad!ModularTask
     \/ Nibbles!GcdTask
     \/ Pairs!PowerTask \/ Nibbles!PowerTask
     \/ Pairs!RootTask \/ Nibbles!RootTask \/ Nibbles!PowerPTask
     \/ Nibbles!SquareRootTask(6) \/ Bytes!SquareRootTask(2)
     \/ Bytes!OneLimbRootTask \/ Doubles!OneLimbRootTask
     \/ Nibbles!SequenceTask \/ Bytes!SequenceTask \/ Doubles!SequenceTask
  /\ answered = FALSE

Next ==
  /\ ~answered
  /\ answered' = TRUE
  /\ UNCHANGED task

Spec == Init /\ [][Next]_vars

----------------------------------------------------------------------------
\* The functions that look at numbers answer as the integers would: comparisons,
\* bits of two's complement, divisibility and congruence.
QueriesExact == [][Short!QueriesRight]_vars

\* The quotient times the divisor and the remainder make up the dividend, the
\* remainder is less than the divisor, and no borrow leaves it; a quotient asked
\* for alone is the same, and an approximate one is that or one more.
QuotientsExact == [][/\ Short!DivisionRight /\ Long!QuotientRight
                        /\ Lowest!InverseRight /\ Long!InverseRight]_vars

\* Divisions from the low end: the quotient times the divisor agrees with the dividend
\* in the limbs that are asked for, and what is above is the remainder and its borrow,
\* or the overflow.  Remainders by one limb are those of the integers.
ResiduesExact == [][Tiny!ResiduesRight /\ Lowest!ResiduesRight /\ Wide!ResiduesRight]_vars

\* Sums and differences of several numbers, whichever of them are the results: every
\* number is read before it is overwritten, and what is returned is the carry of all.
SumsExact == [][Narrow!SumsRight]_vars

\* Products are exact, in the limbs or the residue that is asked for, and no carry runs
\* past the end of the product: "safe?", as mul.c:121 asks.
ProductsExact == [][Narrow!ProductsRight /\ Broad!ProductsRight]_vars

\* The results of mpf are as near to the exact ones as their precision says.
FloatsAccurate == [][Short!FloatsRight]_vars

\* The mpf functions on whole parts: truncation and the nearest integers above and
\* below, conversions to a limb of a value that fits, and leading bits.
FloatIntegersExact == [][Short!FloatIntegersRight]_vars

\* Greatest common divisors and least common multiples are what they say; the
\* cofactors make up the gcd and are the ones that the manual chooses; an inverse
\* is one, reduced, and none exists where none is found.
GcdExact == [][Nibbles!DivisorsRight]_vars

\* The functions of quadratic residues find the Kronecker symbol of every pair of
\* numbers, with signs, zeros and common factors.
SymbolsExact == [][Nibbles!SymbolRight]_vars

\* Powers, also modulo a number, are what they say, end in the buffer of the result
\* and fit in it; what is left when a factor is removed is not divisible by it.
PowersExact == [][Pairs!PowersRight /\ Nibbles!PowersRight]_vars

\* Roots are the largest whose power is not more than the number, with the rest as
\* remainder; perfect powers are recognised; Fibonacci and Lucas numbers are theirs.
RootsExact == [][Pairs!RootsRight /\ Nibbles!RootsRight /\ Bytes!RootsRight /\ Doubles!RootsRight]_vars

=============================================================================
