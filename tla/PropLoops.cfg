\* Carries that die out at every limb, every overlap of two operands of
\* different lengths with the result: six one-bit limbs.
SPECIFICATION Spec
CONSTANTS
  B = 2
  MemSize = 6
INVARIANTS
  ReadsOriginal
  ResultExact
PROPERTY Implements
