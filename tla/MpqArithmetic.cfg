\* mpq functions on two variables and a third operand.
SPECIFICATION Spec
CONSTANTS
  LimbBits = 2
  q1 = q1
  q2 = q2
  q3 = q3
  Var <- MCVar
  Fixed <- MCFixed
  Initial <- MCInitial
  Terms <- MCTerms
  Literals <- MCLiterals
  MaxShift = 3
PROPERTY Implements
CHECK_DEADLOCK FALSE
