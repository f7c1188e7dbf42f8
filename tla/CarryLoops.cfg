\* Carries and products of two digits, overlaps of two operands and a result:
\* four limbs of base 4.
SPECIFICATION Spec
CONSTANTS
  B = 4
  MemSize = 4
INVARIANTS
  ReadsOriginal
  ResultExact
PROPERTY Implements
