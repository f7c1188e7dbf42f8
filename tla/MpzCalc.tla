------------------------------ MODULE MpzCalc ------------------------------
(***************************************************************************)
(* The mpz functions as their callers see them: variables hold integers,   *)
(* and a call gives its destinations the exact result for the values its   *)
(* operands had when it was made, whichever of them are the same variable. *)
(* The abstract specification of MpzHeap and of the modules that extend it.*)
(***************************************************************************)
EXTENDS Integers

CONSTANTS B,        \* the limb base
          LimbBits, \* its bits
          Two,      \* the powers of two: Two[n] is 2 ^ n
          Var,      \* the program's mpz_t variables
          Fns,      \* the functions it calls
          MaxBits   \* bound: bit counts and bit indices

VARIABLES val,    \* the integer each variable holds
          ret,    \* what the last function returned: 0 unless it returns a limb
          phase,  \* "idle", "called", "returned" or "raised"
          call    \* the call being made

vars == <<val, ret, phase, call>>

Magnitude(x) == IF x < 0 THEN -x ELSE x

\* Calls: w is the destination or the quotient, r the remainder, u and v the
\* operands and k an unsigned long, a bit count, or limbs for mpz_realloc.  A
\* variable the function does not have is w.
BinaryFns == {"add", "sub", "mul", "addmul", "submul", "and", "ior", "xor"}
QuotFns == {"tdiv_q", "fdiv_q", "cdiv_q"}
RemFns == {"tdiv_r", "fdiv_r", "cdiv_r", "mod"}
QuotRemFns == {"tdiv_qr", "fdiv_qr", "cdiv_qr"}
UnaryFns == {"set", "neg", "abs", "com", "swap"}
UiFns == {"add_ui", "sub_ui", "ui_sub", "mul_ui", "mul_si", "addmul_ui", "submul_ui"}
QuotUiFns == {"tdiv_q_ui", "fdiv_q_ui", "cdiv_q_ui"}
RemUiFns == {"tdiv_r_ui", "fdiv_r_ui", "cdiv_r_ui"}
QuotRemUiFns == {"tdiv_qr_ui", "fdiv_qr_ui", "cdiv_qr_ui"}
OnlyUiFns == {"tdiv_ui", "fdiv_ui", "cdiv_ui"}
ShiftFns == {"mul_2exp", "tdiv_q_2exp", "fdiv_q_2exp", "cdiv_q_2exp",
             "tdiv_r_2exp", "fdiv_r_2exp", "cdiv_r_2exp"}
BitFns == {"setbit", "clrbit", "combit"}
LimbFns == {"set_ui", "set_si", "realloc"}

DivUiFns == QuotUiFns \cup RemUiFns \cup QuotRemUiFns \cup OnlyUiFns
DivFns == QuotFns \cup RemFns \cup QuotRemFns
TwoResults == QuotRemFns \cup QuotRemUiFns
NoOperand == LimbFns \cup BitFns \cup {"realloc2"}
OneOperand == UnaryFns \cup UiFns \cup DivUiFns \cup ShiftFns

CallRecord ==
  [fn : BinaryFns \cup DivFns \cup OneOperand \cup NoOperand,
   w : Var, r : Var, u : Var, v : Var, k : Nat]

\* The destinations of a division differ.
Legal(c) ==
  /\ IF c.fn \in TwoResults THEN c.r # c.w ELSE c.r = c.w
  /\ c.fn \in NoOperand \cup OnlyUiFns => c.u = c.w
  /\ c.fn \in NoOperand \cup OneOperand => c.v = c.w
  /\ IF c.fn \in UiFns \cup DivUiFns \cup {"set_ui", "set_si"} THEN c.k < B
     ELSE IF c.fn = "realloc" THEN c.k <= 3
     ELSE IF c.fn \in ShiftFns \cup BitFns \cup {"realloc2"} THEN c.k <= MaxBits
     ELSE c.k = 0

NoCall == [fn |-> "none"]

----------------------------------------------------------------------------
Truncated(n, d) ==
  LET q == Magnitude(n) \div Magnitude(d)
  IN  IF (n < 0) = (d < 0) THEN q ELSE -q

Floor(n, d) == IF d > 0 THEN n \div d ELSE (-n) \div (-d)
Ceiling(n, d) == -Floor(-n, d)

\* Quotient and remainder of each kind of division: the kind is in the name.
Rounded(fn, n, d) ==
  IF fn \in {"tdiv_q", "tdiv_r", "tdiv_qr", "tdiv_q_ui", "tdiv_r_ui", "tdiv_qr_ui", "tdiv_ui",
             "tdiv_q_2exp", "tdiv_r_2exp"}
  THEN Truncated(n, d)
  ELSE IF fn \in {"cdiv_q", "cdiv_r", "cdiv_qr", "cdiv_q_ui", "cdiv_r_ui", "cdiv_qr_ui", "cdiv_ui",
                  "cdiv_q_2exp", "cdiv_r_2exp"}
  THEN Ceiling(n, d)
  ELSE IF fn = "mod" THEN Floor(n, Magnitude(d)) * (IF d < 0 THEN -1 ELSE 1)
  ELSE Floor(n, d)

Rest(fn, n, d) == n - Rounded(fn, n, d) * d

\* Bit i of an integer in two's complement, without end.
Bit(x, i) == (x \div Two[i]) % 2

\* The integer each of whose bits is f of the bits of x and y there; all the bits
\* from some one on are the sign.
BitBy(f, x, y) ==
  LET Bits[p \in Int \X Int] ==
        LET low == f[<<p[1] % 2, p[2] % 2>>]
        IN  IF p[1] \in {0, -1} /\ p[2] \in {0, -1} THEN -low
            ELSE low + 2 * Bits[<<p[1] \div 2, p[2] \div 2>>]
  IN  Bits[<<x, y>>]

TwoBits == (0 .. 1) \X (0 .. 1)
BitAnd == [p \in TwoBits |-> p[1] * p[2]]
BitOr == [p \in TwoBits |-> p[1] + p[2] - p[1] * p[2]]
BitXor == [p \in TwoBits |-> (p[1] + p[2]) % 2]

\* The limbs mpz_realloc and mpz_realloc2 leave a variable with.
LimbsFor(c) ==
  LET n == IF c.fn = "realloc" THEN c.k ELSE (c.k + LimbBits - 1) \div LimbBits
  IN  IF n = 0 THEN 1 ELSE n

\* The values after call c of variables that had values f before it.
After(c, f) ==
  LET u == f[c.u]
      v == f[c.v]
      w == f[c.w]
      power == Two[c.k]
      Gets(x) == [f EXCEPT ![c.w] = x]
  IN  CASE c.fn = "add" -> Gets(u + v)
        [] c.fn = "sub" -> Gets(u - v)
        [] c.fn = "mul" -> Gets(u * v)
        [] c.fn = "addmul" -> Gets(w + u * v)
        [] c.fn = "submul" -> Gets(w - u * v)
        [] c.fn = "and" -> Gets(BitBy(BitAnd, u, v))
        [] c.fn = "ior" -> Gets(BitBy(BitOr, u, v))
        [] c.fn = "xor" -> Gets(BitBy(BitXor, u, v))
        [] c.fn = "add_ui" -> Gets(u + c.k)
        [] c.fn = "sub_ui" -> Gets(u - c.k)
        [] c.fn = "ui_sub" -> Gets(c.k - u)
        [] c.fn = "mul_ui" -> Gets(u * c.k)
        [] c.fn = "mul_si" -> Gets(-(u * c.k))
        [] c.fn = "addmul_ui" -> Gets(w + u * c.k)
        [] c.fn = "submul_ui" -> Gets(w - u * c.k)
        [] c.fn = "set" -> Gets(u)
        [] c.fn = "neg" -> Gets(-u)
        [] c.fn = "abs" -> Gets(Magnitude(u))
        [] c.fn = "com" -> Gets(-u - 1)
        [] c.fn = "swap" -> [f EXCEPT ![c.w] = u, ![c.u] = w]
        [] c.fn = "set_ui" -> Gets(c.k)
        [] c.fn = "set_si" -> Gets(-c.k)
        [] c.fn \in {"realloc", "realloc2"} ->
             Gets(IF Magnitude(w) < Two[LimbBits * LimbsFor(c)] THEN w ELSE 0)
        [] c.fn = "setbit" -> Gets(IF Bit(w, c.k) = 1 THEN w ELSE w + power)
        [] c.fn = "clrbit" -> Gets(IF Bit(w, c.k) = 0 THEN w ELSE w - power)
        [] c.fn = "combit" -> Gets(IF Bit(w, c.k) = 0 THEN w + power ELSE w - power)
        [] c.fn = "mul_2exp" -> Gets(u * power)
        [] c.fn \in {"tdiv_q_2exp", "fdiv_q_2exp", "cdiv_q_2exp"} -> Gets(Rounded(c.fn, u, power))
        [] c.fn \in {"tdiv_r_2exp", "fdiv_r_2exp", "cdiv_r_2exp"} -> Gets(Rest(c.fn, u, power))
        [] c.fn \in QuotFns -> Gets(Rounded(c.fn, u, v))
        [] c.fn \in RemFns -> Gets(Rest(c.fn, u, v))
        [] c.fn \in QuotRemFns -> [Gets(Rounded(c.fn, u, v)) EXCEPT ![c.r] = Rest(c.fn, u, v)]
        [] c.fn \in QuotUiFns -> Gets(Rounded(c.fn, u, c.k))
        [] c.fn \in RemUiFns -> Gets(Rest(c.fn, u, c.k))
        [] c.fn \in QuotRemUiFns ->
             [Gets(Rounded(c.fn, u, c.k)) EXCEPT ![c.r] = Rest(c.fn, u, c.k)]
        [] OTHER -> f

\* The divisions by an unsigned long return the absolute value of the remainder.
Returned(c, f) == IF c.fn \in DivUiFns THEN Magnitude(Rest(c.fn, f[c.u], c.k)) ELSE 0

----------------------------------------------------------------------------
Init ==
  /\ val \in [Var -> Int]
  /\ ret = 0
  /\ phase = "idle"
  /\ call = NoCall

Invoke ==
  /\ phase = "idle"
  /\ phase' = "called"
  /\ call' \in CallRecord /\ call'.fn \in Fns /\ Legal(call')
  /\ ret' = 0
  /\ UNCHANGED val

DividesByZero ==
  \/ call.fn \in DivFns /\ val[call.v] = 0
  \/ call.fn \in DivUiFns /\ call.k = 0

Complete ==
  /\ phase = "called"
  /\ ~DividesByZero
  /\ phase' = "returned"
  /\ val' = After(call, val)
  /\ ret' = Returned(call, val)
  /\ UNCHANGED call

\* The exception of a division by zero leaves the variables as they were.
Raise ==
  /\ phase = "called"
  /\ DividesByZero
  /\ phase' = "raised"
  /\ UNCHANGED <<val, ret, call>>

Return ==
  /\ phase = "returned"
  /\ phase' = "idle"
  /\ call' = NoCall
  /\ UNCHANGED <<val, ret>>

Next == Invoke \/ Complete \/ Raise \/ Return

Spec == Init /\ [][Next]_vars

============================================================================
