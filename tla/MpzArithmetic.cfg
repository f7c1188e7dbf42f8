\* Every aliasing of three numbers of up to two one-bit limbs.
SPECIFICATION Spec
CONSTANTS
  B = 2
  LimbBits = 1
  v1 = v1
  v2 = v2
  v3 = v3
  temp = temp
  b1 = b1
  b2 = b2
  b3 = b3
  b4 = b4
  Var <- MCTriple
  Temp = temp
  Block <- MCBlock
  CopyU = CopyU
  CopyV = CopyV
  CopyD = CopyD
  None = None
  Junk = Junk
  Fns <- MCArithmetic
  Karatsuba = 3
  Numbers <- MCSmall
  MaxSize = 2
  MaxAlloc = 4
  MaxBits = 0
  MaxCalls = 1
INVARIANTS
  WellFormed
  OwnedOnce
  PointersLive
PROPERTY Implements
CHECK_DEADLOCK FALSE
