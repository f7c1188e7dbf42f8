\* What the manual and the comments say of mpf, with limbs of two bits.
SPECIFICATION Spec
CONSTANTS
  LimbBits = 2
  Prec = 3
  MaxNumber = 80
  ModexactThreshold = 2
  DivremNormThreshold = 2
  DivremUnnormThreshold = 2
  EuclidHenselThreshold = 3
  RshHenselThreshold = 3
  DcDivQrThreshold = 6
INVARIANT SomePromiseKept
