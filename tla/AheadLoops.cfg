\* Room for three limbs moved by two, which a shift, one limb ahead, does not survive:
\* five limbs of base 4.
SPECIFICATION Spec
CONSTANTS
  B = 4
  MemSize = 5
INVARIANTS
  ReadsOriginal
  ResultExact
PROPERTY Implements
