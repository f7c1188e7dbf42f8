------------------------------ MODULE MCTheory ------------------------------
(* Common divisors, residue symbols, powers, roots, Fibonacci and Lucas      *)
(* numbers: the tasks, what the functions answer, and what is right.         *)
EXTENDS Jacobi, Powers

CONSTANTS MaxBits,    \* bound: the bits of a power
          MaxPowered  \* bound: the magnitude of what is asked to be a power

VARIABLE task  \* the function asked, its operands, and the width of their limbs

Ask(fn, x, y, z) == task = [limb |-> LimbBits, fn |-> fn, x |-> x, y |-> y, z |-> z]
Signed(S) == S \cup {-x : x \in S}
AskedFor(fns) == task.fn \in fns /\ task.limb = LimbBits

\* Powers with as many bits as the bound, of numbers of up to three limbs.
Bases(n) == {x \in 2 .. B ^ n - 1 : x < 2 * B \/ x % B \in {1, B - 1} \/ x % (B * HighBit) = 0}
Exponents(b) == {e \in 0 .. MaxBits : e * BitLength(b) <= MaxBits}
Moduli(n) == 1 .. B + 1 \cup {B ^ 2 - 3, B ^ 2 - 2, B ^ 2 - 1, B ^ 2, B ^ 2 + B, B ^ 2 + B + 1} \cup {B ^ n - B - 1, B ^ n - 2, B ^ n - 1}
LongExponents(bits) == 0 .. B + 2 \cup {(2 ^ bits - 1) \div i : i \in {1, 2, 3, 5, 7, 11, 13, 19, 100, 333, 3000}}
PowerTask ==
  \/ \E b \in Bases(3) : \E e \in Exponents(b) :
       \/ e < B /\ Ask("pow_1", b, e, 0)
       \/ \E sign \in {-1, 1} : Ask("n_pow_ui", sign * b, e, 0)
  \/ \E b \in {-1, 0, 1}, e \in 0 .. 5 : Ask("n_pow_ui", b, e, 0)
  \/ \E b \in {-B - 1, -2, 0, 1, 5, B ^ 2 + 1, B ^ 3 - 1}, m \in Moduli(3), e \in LongExponents(MaxBits) :
       Ask(IF e < B THEN "powm_ui" ELSE "powm", b, e, m)
  \/ \E b \in {-B - 1, -3, 2, 5, B ^ 2 + 1}, m \in Moduli(3), e \in Signed(0 .. 5), sign \in {-1, 1} :
       Ask("powm", b, e, sign * m)
  \/ \E f \in {2, 3, 4, 6, B}, x \in Signed(0 .. 400 \cup {2 ^ 12, 3 ^ 9, 6 ^ 6, 5 * 3 ^ 7}) : Ask("remove", x, f, 0)

\* What is next to the powers of the roots.
RootTask ==
  \E k \in 2 .. 11 : \E r \in 1 .. 2 ^ 10 :
    /\ k * BitLength(r) <= 18
    /\ r < 40 \/ r % B \in {0, 1, B - 1}
    /\ \E x \in {r ^ k - 1, r ^ k, r ^ k + 1, r ^ k + r} \ {0} :
         \/ Ask("root", x, k, 0) \/ Ask("rootrem", x, k, 0)
         \/ RootDefined(-x, k) /\ (Ask("root", -x, k, 0) \/ Ask("rootrem", -x, k, 0))
PowerPTask == \E x \in 0 .. MaxPowered, sign \in {-1, 1} : Ask("perfect_power_p", sign * x, 0, 0)

SquareRootTask(limbs) ==
  \E r \in 1 .. B ^ ((limbs + 1) \div 2) : \E x \in {r * r - 1, r * r, r * r + 1, r * r + 2 * r} :
    /\ r < 32 \/ r % 16 = 1 \/ r % B \in {0, 1, HighBit, B - 1}
    /\ x < B ^ limbs
    /\ Ask("sqrtrem", x, 0, 0)
OneLimbRootTask == \E x \in {y \in HighBit \div 2 .. B - 1 : y % 256 \in {0, 1, 255} \/ B <= 2 ^ 8} : Ask("sqrtrem_1", x, 0, 0)

SequenceTask == \E n \in 0 .. MinOf(B - 1, 43) : Ask("fib_ui", n, 0, 0) \/ (n < 43 /\ Ask("lucnum_ui", n, 0, 0))

\* Pairs of numbers of up to two limbs, longer ones with limbs at the edges, and small
\* ones with signs.
EdgeLimbs(n, limbs) == {x \in B ^ (n - 1) .. B ^ n - 1 : \A i \in 0 .. n - 1 : LimbAt(x, i) \in limbs}
GcdTask ==
  LET short == 0 .. B ^ 2 - 1
      long == EdgeLimbs(3, {0, 1, HighBit, B - 1})
      longer == {x \in EdgeLimbs(4, {0, 1, HighBit \div 2, B - 1}) : x < B ^ 3 * HighBit}
  IN  \/ \E fn \in {"gcd", "gcdext", "jacobi"} :
           \/ \E u \in short, v \in short : (v <= u \/ fn = "jacobi") /\ Ask(fn, u, v, 0)
           \/ \E u \in long \cup longer, v \in long : Ask(fn, u, v, 0)
           \/ fn # "gcdext" /\ \E u \in long \cup longer, v \in longer : Ask(fn, u, v, 0)
      \/ \E fn \in {"gcdext", "mpz_invert", "jacobi", "lcm"}, u \in Signed(0 .. 40), v \in Signed(0 .. 40) :
           Ask(fn, u, v, 0)
      \/ \E u \in Signed(short \cup long) :
           \/ \E v \in 0 .. B - 1 :
                \/ \E fn \in {"gcd_ui", "lcm_ui", "kronecker_ui"} : Ask(fn, u, v, 0)
                \/ Ask("ui_kronecker", v, u, 0)
           \/ \E v \in 1 - B .. B - 1 : Ask("kronecker_si", u, v, 0) \/ Ask("si_kronecker", v, u, 0)

----------------------------------------------------------------------------
\* The greatest common divisor, by Euclid.
RECURSIVE CommonDivisor(_, _)
CommonDivisor(x, y) == IF y = 0 THEN x ELSE CommonDivisor(y, x % y)
Gcd(x, y) == CommonDivisor(Abs(x), Abs(y))

\* "These relations define s and t uniquely", and the exceptional cases.
Cofactor(s, a, b, g) ==
  IF Abs(a) = Abs(b) THEN s = 0
  ELSE IF b = 0 \/ Abs(b) = 2 * g THEN s = SignOf(a)
  ELSE (s = 0 <=> g = Abs(b)) /\ (s = 0 \/ 2 * g * Abs(s) < Abs(b))

DivisorsRight ==
  /\ AskedFor({"gcd"}) => MpzGcd(task.x, task.y) = Gcd(task.x, task.y)
  /\ AskedFor({"gcd_ui"}) =>
       LET g == Gcd(task.x, task.y) IN GcdUi(task.x, task.y) = [w |-> g, ret |-> IF g < B THEN g ELSE 0]
  /\ AskedFor({"lcm"}) => Lcm(task.x, task.y) * Gcd(task.x, task.y) = Abs(task.x * task.y)
  /\ AskedFor({"lcm_ui"}) => LcmUi(task.x, task.y) * Gcd(task.x, task.y) = Abs(task.x * task.y)
  /\ AskedFor({"gcdext"}) =>
       LET a == task.x
           b == task.y
           result == Gcdext(a, b)
           g == result.g
       IN  /\ g = Gcd(a, b)
           /\ a * result.s + b * result.t = g
           /\ Cofactor(result.s, a, b, g)
           /\ IF Abs(a) = Abs(b) THEN result.t = SignOf(b) ELSE Cofactor(result.t, b, a, g)
  /\ AskedFor({"mpz_invert"}) =>
       LET result == Invert(task.x, task.y)
       IN  /\ result.exists = (task.x # 0 /\ Abs(task.y) # 1 /\ Gcd(task.x, task.y) = 1)
           /\ result.exists /\ task.y # 0 =>
                /\ result.inverse \in 0 .. Abs(task.y) - 1
                /\ (result.inverse * task.x) % Abs(task.y) = 1

\* The Legendre symbol by Euler's criterion, and with it the Kronecker symbol, prime
\* factor by prime factor.
RECURSIVE EulerPower(_, _, _)
EulerPower(x, n, p) ==
  IF n = 0 THEN 1 ELSE (EulerPower((x * x) % p, n \div 2, p) * (IF n % 2 = 1 THEN x ELSE 1)) % p
Legendre(a, p) ==
  IF p = 2 THEN (IF a % 2 = 0 THEN 0 ELSE IF a % 8 \in {1, 7} THEN 1 ELSE -1)
  ELSE IF a % p = 0 THEN 0 ELSE IF EulerPower(a % p, (p - 1) \div 2, p) = 1 THEN 1 ELSE -1
PrimeFactor(n) == LET S == {p \in 2 .. 181 : p * p <= n /\ n % p = 0} IN IF S = {} THEN n ELSE Min(S)
RECURSIVE Symbol(_, _)
Symbol(a, b) ==
  IF b = 0 THEN (IF Abs(a) = 1 THEN 1 ELSE 0)
  ELSE IF b < 0 THEN (IF a < 0 THEN -1 ELSE 1) * Symbol(a, -b)
  ELSE IF b = 1 THEN 1
  ELSE LET p == PrimeFactor(b) IN Legendre(a, p) * Symbol(a, b \div p)

SymbolRight ==
  /\ AskedFor({"jacobi"}) => MpzJacobi(task.x, task.y) = Symbol(task.x, task.y)
  /\ AskedFor({"kronecker_si", "kronecker_ui"}) => KroneckerSi(task.x, task.y) = Symbol(task.x, task.y)
  /\ AskedFor({"si_kronecker", "ui_kronecker"}) => SiKronecker(task.x, task.y) = Symbol(task.x, task.y)

RECURSIVE PowerModulo(_, _, _)
PowerModulo(b, e, m) ==
  IF e = 0 THEN 1 % m
  ELSE LET root == PowerModulo((b * b) % m, e \div 2, m) IN IF e % 2 = 1 THEN (root * (b % m)) % m ELSE root

InverseModulo(b, m) == CHOOSE x \in 0 .. m - 1 : (x * b) % m = 1
PowersRight ==
  /\ AskedFor({"pow_1"}) =>
       LET n == Limbs(task.x ^ task.y) + 1
           result == Pow1(task.x, Limbs(task.x), task.y, n, n)
       IN  result.p = task.x ^ task.y /\ result.n = Limbs(result.p) /\ result.home /\ result.fits
  /\ AskedFor({"n_pow_ui"}) =>
       LET result == NPowUi(task.x, task.y)
       IN  result.v = (IF task.y = 0 THEN 1 ELSE task.x ^ task.y) /\ result.n = Limbs(result.v) /\ result.home /\ result.fits
  /\ AskedFor({"powm_ui"}) => PowmUi(task.x, task.y, task.z) = PowerModulo(task.x % task.z, task.y, task.z)
  /\ AskedFor({"powm", "powm_ui"}) =>
       LET m == Abs(task.z)
           b == IF task.y < 0 THEN InverseModulo(task.x % m, m) ELSE task.x
       IN  IF task.y < 0 /\ (m = 1 \/ Gcd(task.x, m) # 1) THEN ~PowmDefined(task.x, task.y, task.z)
           ELSE /\ PowmDefined(task.x, task.y, task.z)
                /\ MpzPowm(task.x, task.y, task.z) = PowerModulo(b % m, Abs(task.y), m)
  /\ AskedFor({"remove"}) =>
       LET result == Remove(task.x, task.y)
       IN  IF task.x = 0 THEN result = [dest |-> 0, ret |-> 0]
           ELSE result.dest * task.y ^ result.ret = task.x /\ result.dest % task.y # 0

RootOf(root, rem, x, k) == Abs(root) ^ k + Abs(rem) = Abs(x) /\ (Abs(root) + 1) ^ k > Abs(x)
Signs(result, x) == \A y \in result : y # 0 => SignOf(y) = SignOf(x)
RootsRight ==
  /\ AskedFor({"root"}) =>
       LET result == MpzRoot(task.x, task.y)
           rem == Abs(task.x) - Abs(result.root) ^ task.y
       IN  rem >= 0 /\ RootOf(result.root, rem, task.x, task.y) /\ Signs({result.root}, task.x)
             /\ result.exact = (rem = 0) /\ result.sound
  /\ AskedFor({"rootrem"}) =>
       LET result == MpzRootrem(task.x, task.y)
       IN  RootOf(result.root, result.rem, task.x, task.y) /\ Signs({result.root, result.rem}, task.x) /\ result.sound
  /\ AskedFor({"sqrtrem"}) =>
       LET result == Sqrtrem(task.x) IN result.r >= 0 /\ RootOf(result.s, result.r, task.x, 2)
  /\ AskedFor({"sqrtrem_1"}) =>
       LET result == Sqrtrem1(task.x) IN RootOf(result.s, result.r, task.x, 2)
  /\ AskedFor({"perfect_power_p"}) =>
       PerfectPowerP(task.x) = (\/ Abs(task.x) <= 1
                                \/ \E k \in 2 .. 16 : \E a \in Signed(2 .. 64) :
                                     BitLength(Abs(a)) * k <= 24 /\ a ^ k = task.x)
  /\ AskedFor({"fib_ui"}) =>
       /\ FibUi(task.x) = FibTable[task.x]
       /\ Fib2Ui(task.x) = [f |-> FibTable[task.x], f1 |-> FibTable[task.x - 1]]
  /\ AskedFor({"lucnum_ui"}) =>
       LET l == FibTable[task.x + 1] + FibTable[task.x - 1]
       IN  /\ LucnumUi(task.x) = l
           /\ Lucnum2Ui(task.x) = [l |-> l, l1 |-> IF task.x = 0 THEN -1 ELSE FibTable[task.x] + FibTable[task.x - 2]]

=============================================================================
