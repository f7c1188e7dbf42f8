------------------------------ MODULE MpqCalc ------------------------------
(***************************************************************************)
(* The mpq functions as their callers see them: a variable is a numerator  *)
(* and a denominator, and arithmetic on variables in canonical form gives  *)
(* the exact result in canonical form, whichever of destination, operands  *)
(* and parts of operands are the same.  The abstract specification of Mpq. *)
(***************************************************************************)
EXTENDS Integers

CONSTANTS Var,       \* the program's mpq_t variables
          Fixed,     \* those it never assigns
          Initial,   \* the stores the variables may begin with
          Terms,     \* bound: numerators and denominators of variables a call is made on
          Literals,  \* the numbers assigned and compared with
          MaxShift   \* bound: the bit counts

VARIABLES val,     \* [num, den] for each variable
          call,    \* the call being made, NoCall, or Raised
          answer   \* the sign or the truth the last call returned, else 0

vars == <<val, call, answer>>

BinaryFns == {"add", "sub", "mul", "div"}
UnaryFns == {"set", "neg", "abs", "inv", "swap"}
PartFns == {"set_z", "set_num", "set_den"}
ShiftFns == {"mul_2exp", "div_2exp"}
QueryFns == {"cmp", "cmp_z", "equal"}

\* Calls: w is the destination, x and y the operands.  The mpz operand of PartFns
\* and of cmp_z is a part of x or y.  k is a bit count, n and d are numbers; set_si
\* and cmp_si stand for set_ui and cmp_ui where n is not negative.
Calls ==
  LET Dest == Var \ Fixed
  IN  [fn : BinaryFns, w : Dest, x : Var, y : Var]
        \cup [fn : UnaryFns \ {"swap"}, w : Dest, x : Var]
        \cup [fn : {"swap"}, w : Dest, x : Dest]
        \cup [fn : PartFns, w : Dest, x : Var, part : {"num", "den"}]
        \cup [fn : ShiftFns, w : Dest, x : Var, k : 0 .. MaxShift]
        \cup [fn : {"canonicalize"}, w : Dest]
        \cup [fn : {"set_si"}, w : Dest, n : Literals, d : Literals \cap (Nat \ {0})]
        \cup [fn : {"cmp", "equal"}, x : Var, y : Var]
        \cup [fn : {"cmp_z"}, x : Var, y : Var, part : {"num", "den"}]
        \cup [fn : {"cmp_si"}, x : Var, n : Literals, d : Literals \cap (Nat \ {0})]

NoCall == [fn |-> "none"]
Raised == [fn |-> "raised"]

----------------------------------------------------------------------------
Magnitude(x) == IF x < 0 THEN -x ELSE x

\* The greatest common divisor of the magnitudes.
GcdOf(x, y) ==
  LET Euclid[a \in Nat, b \in Nat] == IF b = 0 THEN a ELSE Euclid[b, a % b]
  IN  Euclid[Magnitude(x), Magnitude(y)]

Fraction(n, d) == [num |-> n, den |-> d]

\* The fraction n / d in canonical form: no common factor, and a denominator
\* that is positive.
Reduced(n, d) ==
  LET g == GcdOf(n, d)
      sign == IF d < 0 THEN -1 ELSE 1
  IN  Fraction((sign * n) \div g, (sign * d) \div g)

Canonical(f) == f.den > 0 /\ GcdOf(f.num, f.den) = 1

PartOf(f, part) == IF part = "num" THEN f.num ELSE f.den
SignOf(x) == IF x < 0 THEN -1 ELSE IF x = 0 THEN 0 ELSE 1

\* The order of two fractions with positive denominators.
Order(n1, d1, n2, d2) == SignOf(n1 * d2 - n2 * d1)

\* The variables a call reads, which are in canonical form unless it is one of
\* the functions that copy or make canonical; a copy's denominator has no sign.
Operands(c) ==
  IF c.fn \in BinaryFns \cup {"cmp", "equal", "cmp_z"} THEN {c.x, c.y}
  ELSE IF c.fn \in UnaryFns \cup PartFns \cup ShiftFns \cup {"cmp_si"} THEN {c.x}
  ELSE IF c.fn = "canonicalize" THEN {c.w} ELSE {}
AnyForm == {"set", "neg", "abs", "swap", "canonicalize"} \cup PartFns
PositiveForm == {"set", "neg", "abs"}

Legal(c, f) ==
  \A x \in Operands(c) :
    /\ c.fn \notin AnyForm => Canonical(f[x])
    /\ c.fn \in PositiveForm => f[x].den >= 0

DividesByZero(c, f) ==
  \/ c.fn = "div" /\ f[c.y].num = 0
  \/ c.fn = "inv" /\ f[c.x].num = 0
  \/ c.fn = "canonicalize" /\ f[c.w].den = 0

\* The variables after call c, and what it returns.
After(c, f) ==
  LET u == f[c.x]
      v == f[c.y]
      Gets(n, d) == [f EXCEPT ![c.w] = Reduced(n, d)]
  IN  CASE c.fn = "add" -> Gets(u.num * v.den + v.num * u.den, u.den * v.den)
        [] c.fn = "sub" -> Gets(u.num * v.den - v.num * u.den, u.den * v.den)
        [] c.fn = "mul" -> Gets(u.num * v.num, u.den * v.den)
        [] c.fn = "div" -> Gets(u.num * v.den, u.den * v.num)
        [] c.fn = "inv" -> Gets(u.den, u.num)
        [] c.fn = "mul_2exp" -> Gets(u.num * 2 ^ c.k, u.den)
        [] c.fn = "div_2exp" -> Gets(u.num, u.den * 2 ^ c.k)
        [] c.fn = "canonicalize" -> Gets(f[c.w].num, f[c.w].den)
        [] c.fn = "set" -> [f EXCEPT ![c.w] = u]
        [] c.fn = "neg" -> [f EXCEPT ![c.w] = Fraction(-u.num, u.den)]
        [] c.fn = "abs" -> [f EXCEPT ![c.w] = Fraction(Magnitude(u.num), u.den)]
        [] c.fn = "swap" -> [f EXCEPT ![c.w] = u, ![c.x] = f[c.w]]
        [] c.fn = "set_z" -> [f EXCEPT ![c.w] = Fraction(PartOf(u, c.part), 1)]
        [] c.fn = "set_num" -> [f EXCEPT ![c.w].num = PartOf(u, c.part)]
        [] c.fn = "set_den" -> [f EXCEPT ![c.w].den = PartOf(u, c.part)]
        [] c.fn = "set_si" -> [f EXCEPT ![c.w] = Fraction(c.n, IF c.n = 0 THEN 1 ELSE c.d)]
        [] OTHER -> f

Returned(c, f) ==
  LET u == f[c.x]
  IN  CASE c.fn = "cmp" -> Order(u.num, u.den, f[c.y].num, f[c.y].den)
        [] c.fn = "cmp_z" -> Order(u.num, u.den, PartOf(f[c.y], c.part), 1)
        [] c.fn = "cmp_si" -> Order(u.num, u.den, c.n, c.d)
        [] c.fn = "equal" -> IF u = f[c.y] THEN 1 ELSE 0
        [] OTHER -> 0

----------------------------------------------------------------------------
Init ==
  /\ val \in Initial
  /\ call = NoCall
  /\ answer = 0

Invoke ==
  /\ call = NoCall
  /\ \A v \in Var \ Fixed : val[v].num \in Terms /\ val[v].den \in Terms
  /\ call' \in Calls
  /\ Legal(call', val)
  /\ answer' = 0
  /\ UNCHANGED val

Complete ==
  /\ call \notin {NoCall, Raised}
  /\ ~DividesByZero(call, val)
  /\ val' = After(call, val)
  /\ answer' = Returned(call, val)
  /\ call' = NoCall

\* The exception of a division by zero leaves the variables as they were.
Raise ==
  /\ call \notin {NoCall, Raised}
  /\ DividesByZero(call, val)
  /\ call' = Raised
  /\ UNCHANGED <<val, answer>>

Next == Invoke \/ Complete \/ Raise

Spec == Init /\ [][Next]_vars

============================================================================
