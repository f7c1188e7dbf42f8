\* mpq_mul_2exp and mpq_div_2exp in place, where a zero limb is dropped from three.
SPECIFICATION Spec
CONSTANTS
  LimbBits = 2
  q1 = q1
  q2 = q2
  q3 = q3
  Var <- MCVar
  Fixed <- MCFixed
  Initial <- MCInitial
  Terms <- MCTerms
  Literals <- MCLiterals
  MaxShift = 3
PROPERTY ShiftsExact
CHECK_DEADLOCK FALSE
