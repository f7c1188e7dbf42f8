\* Limb, bit count and bit operations on two numbers of up to three limbs of base 4.
SPECIFICATION Spec
CONSTANTS
  B = 4
  LimbBits = 2
  v1 = v1
  v2 = v2
  v3 = v3
  temp = temp
  b1 = b1
  b2 = b2
  b3 = b3
  b4 = b4
  Var <- MCPair
  Temp = temp
  Block <- MCBlock
  CopyU = CopyU
  CopyV = CopyV
  CopyD = CopyD
  None = None
  Junk = Junk
  Fns <- MCLimb
  Karatsuba = 3
  Numbers <- MCNumbers
  MaxSize = 3
  MaxAlloc = 5
  MaxBits = 7
  MaxCalls = 1
PROPERTY Implements
CHECK_DEADLOCK FALSE
