\* Questions, quotients and floats with limbs of two bits; greatest common divisors and
\* residue symbols with limbs of four, the least for which mpn_hgcd2 finds matrices.
SPECIFICATION Spec
CONSTANTS
  TinyBits = 1
  ShortBits = 2
  LongBits = 3
  WideBits = 4
  ByteBits = 8
  DoubleBits = 16
  ShortApprox = 2
  LongApprox = 8
  ModexactThreshold = 2
  DivremNormThreshold = 2
  DivremUnnormThreshold = 2
  EuclidHenselThreshold = 3
  DcDivQrThreshold = 6
  Fudge = 2
  SbDivapprCutoff = 3
  DcDivQThreshold = 6
  DcDivapprQThreshold = 5
  RshHenselThreshold = 3
  HenselQrThreshold = 3
  Divexact1Threshold = 2
  DcBdivQrThreshold = 3
  DcBdivQThreshold = 6
  Mod11Threshold = 3
  Mod12Threshold = 4
  Mod13Threshold = 5
  MulKaratsubaThreshold = 3
  MulBasecaseMaxUn = 4
  SqrBasecaseThreshold = 3
  SqrKaratsubaThreshold = 4
  MullowBasecaseThreshold = 2
  MullowDcThreshold = 4
  MullowMulThreshold = 7
  MulhighBasecaseThreshold = 3
  MulhighDcThreshold = 6
  MulhighMulThreshold = 8
  WrapAroundBound = 4
  MpnFftMulNMinsize = 2
  InvDivQrThreshold = 6
  InvDivapprQNThreshold = 6
  MulmidToom42Threshold = 4
  Chunk = 6
  Mulmod2expm1Threshold = 2
  GcdShift = 2
  PowmThreshold = 3
  RootremThreshold = 4
  SmallestOmittedPrime = 7
  MaxBits = 24
  MaxPowered = 1500
  Prec = 3
  MaxNumber = 80
PROPERTIES
  QueriesExact
  QuotientsExact
  ResiduesExact
  SumsExact
  ProductsExact
  FloatsAccurate
  FloatIntegersExact
  GcdExact
  SymbolsExact
  PowersExact
  RootsExact
CHECK_DEADLOCK FALSE
