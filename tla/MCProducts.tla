----------------------------- MODULE MCProducts -----------------------------
(* Sums of more than two numbers and products: the tasks, what the           *)
(* functions answer, and what is right.  Short limbs make carries travel and *)
(* corrections overflow in numbers that are few.                             *)
EXTENDS MpnProducts

VARIABLE task  \* the function asked, its operands, and the width of their limbs

\* Numbers of n limbs: all, if they are few; those made of limbs 0, 1 and B - 1; edges.
RECURSIVE Digits(_)
Digits(n) == IF n = 0 THEN {0} ELSE {x * B + limb : x \in Digits(n - 1), limb \in {0, 1, B - 1}}
EdgesOf(bits) ==
  LET half == 2 ^ (bits \div 2)
  IN  {x \in {0, 1, 2, half - 1, half, half + 1, 2 ^ bits - half, 2 ^ bits - half - 1, 2 ^ (bits - 1),
              2 ^ (bits - 1) - 1, 2 ^ bits - 2, 2 ^ bits - 1} : x >= 0 /\ x < 2 ^ bits}
Ends(n) == EdgesOf(n * LimbBits)
Samples(n) == IF B ^ n <= 64 THEN 0 .. B ^ n - 1 ELSE IF 3 ^ n <= 81 THEN Digits(n) ELSE Ends(n)
Residual(bits) == IF bits <= 5 THEN 0 .. 2 ^ bits - 1 ELSE EdgesOf(bits)

\* Two limbs, in numbers that are the same or separate.
SumTask ==
  LET Values == {0, 1, B * B - 2, B * B - 1, B * HighBit}
  IN  \/ \E fn \in {"addadd", "addsub", "subadd"}, x \in {"t", "a"}, y \in {"t", "a", "b"}, z \in {"t", "a", "b", "c"},
            mem \in [{"t", "a", "b", "c"} -> Values] :
           task = [limb |-> LimbBits, fn |-> fn, mem |-> mem, x |-> x, y |-> y, z |-> z]
      \/ \E x \in {"s", "d", "a"}, y \in {"s", "d", "a", "b"}, mem \in [{"s", "d", "a", "b"} -> Values] :
           task = [limb |-> LimbBits, fn |-> "sumdiff", mem |-> mem, x |-> x, y |-> y]

ProductTask ==
  \/ \E n \in 1 .. 7 : \E x \in Samples(n), y \in Samples(n) :
       \E fn \in {"mullow", "mulhigh"} \cup (IF n > 1 THEN {"kara_mul"} ELSE {}) \cup (IF n > 2 THEN {"mulshort"} ELSE {}) :
         task = [limb |-> LimbBits, fn |-> fn, x |-> x, y |-> y, n |-> n]
  \/ \E n \in 1 .. 7 : \E x \in (IF n < 5 THEN 0 .. B ^ n - 1 ELSE Digits(n)) :
       task = [limb |-> LimbBits, fn |-> "sqr", x |-> x, n |-> n]
  \/ \E un \in 1 .. 11, vn \in 1 .. 6 : \E x \in Ends(un), y \in Ends(vn) :
       /\ un >= vn /\ un + vn <= 13
       /\ task = [limb |-> LimbBits, fn |-> "mul", x |-> x, un |-> un, y |-> y, vn |-> vn]
  \/ \E xn \in 1 .. 4, yn \in 1 .. 4 : \E n \in xn .. xn + yn, x \in Samples(xn), y \in Ends(yn) :
       /\ yn <= xn
       /\ task = [limb |-> LimbBits, fn |-> "mullow_basecase", x |-> x, xn |-> xn, y |-> y, yn |-> yn, n |-> n]

\* The sum of the limbs of v, of which the two highest limbs of a middle product are made.
Weight(v, vn) == MapThenSumSet(LAMBDA j : LimbAt(v, j), 0 .. vn - 1)

MiddleTask ==
  \/ \E n \in 4 .. 5 : \E a \in Ends(2 * n - 1) \cup {(B ^ (2 * n - 1) - 1) \div (B + 1), B ^ n + B ^ (n - 1) - 1}, b \in Digits(n) :
       task = [limb |-> LimbBits, fn |-> "mulmid_n", a |-> a, b |-> b, n |-> n]
  \/ \E a \in Digits(7), b \in {B * B + 1, B ^ 4 - 1} :
       task = [limb |-> LimbBits, fn |-> "mulmid_n", a |-> a, b |-> b, n |-> 4]
  \/ \E s \in {t \in [bn : 1 .. 9, rn : 1 .. 10] : (t.bn + t.rn + 1) * LimbBits <= 30} :
     \E a \in Ends(s.bn + s.rn - 1), b \in Ends(s.bn) \cup {B ^ s.bn \div 3} :
       /\ Weight(b, s.bn) * (B - 1) < B * B
       /\ task = [limb |-> LimbBits, fn |-> "mulmid", a |-> a, an |-> s.bn + s.rn - 1, b |-> b, bn |-> s.bn]

ModularTask ==
  \/ \E bits \in 1 .. 14 : \E y \in (IF bits <= 7 THEN 0 .. 2 ^ bits - 1 ELSE EdgesOf(bits)), z \in Residual(bits) :
       task = [limb |-> LimbBits, fn |-> "expm1", y |-> y, z |-> z, bits |-> bits]
  \/ \E n \in 1 .. 3 : \E y \in 0 .. B ^ n, z \in {B ^ n} \cup Samples(n) :
       task = [limb |-> LimbBits, fn |-> "Bexpp1", y |-> y, z |-> z, n |-> n]
  \/ \E rn \in 1 .. 4 : \E an \in 1 .. rn : \E bn \in 1 .. an : \E y \in Ends(an), z \in Ends(bn) :
       task = [limb |-> LimbBits, fn |-> "bnm1", y |-> y, an |-> an, z |-> z, bn |-> bn, rn |-> rn]

Asked(fns) == task.fn \in fns
Ours == "limb" \in DOMAIN task /\ task.limb = LimbBits
NoAnswer == "none"

SumAnswer ==
  CASE task.fn = "addadd" -> AddaddN(task.mem, "t", task.x, task.y, task.z, 2)
    [] task.fn = "addsub" -> AddsubN(task.mem, "t", task.x, task.y, task.z, 2)
    [] task.fn = "subadd" -> SubaddN(task.mem, "t", task.x, task.y, task.z, 2)
    [] task.fn = "sumdiff" -> SumdiffN(task.mem, "s", "d", task.x, task.y, 2)
    [] OTHER -> NoAnswer

ProductAnswer ==
  CASE task.fn = "kara_mul" -> KaraMulN(task.x, task.y, task.n)
    [] task.fn = "sqr" -> Sqr(task.x, task.n)
    [] task.fn = "mul" -> Mul(task.x, task.un, task.y, task.vn)
    [] task.fn = "mullow" -> MullowN(task.x, task.y, task.n)
    [] task.fn = "mullow_basecase" -> MullowBasecase(task.x, task.xn, task.y, task.yn, task.n)
    [] task.fn = "mulhigh" -> MulhighN(task.x, task.y, task.n)
    [] task.fn = "mulshort" -> MulshortN(task.x, task.y, task.n)
    [] task.fn = "mulmid_n" -> Whole(MulmidN(task.a, task.b, task.n))
    [] task.fn = "mulmid" -> Mulmid(task.a, task.an, task.b, task.bn)
    [] task.fn = "expm1" -> MulmodExpm1(task.y, task.z, task.bits)
    [] task.fn = "bnm1" -> MulmodBnm1(task.rn, task.y, task.an, task.z, task.bn)
    [] task.fn = "Bexpp1" -> MulmodBexpp1(task.y, task.z, task.n)
    [] OTHER -> NoAnswer

\* The result with what is returned above it, and all numbers that are no results
\* as they were.
SumsRight ==
  Ours /\ Asked({"addadd", "addsub", "subadd", "sumdiff"}) =>
    LET result == SumAnswer
        Old(name) == task.mem[name]
        Value(name, returned) == result.mem[name] + returned * B ^ 2
        results == IF Asked({"sumdiff"}) THEN {"s", "d"} ELSE {"t"}
    IN  /\ Asked({"addadd"}) => Value("t", result.ret) = Old(task.x) + Old(task.y) + Old(task.z)
        /\ Asked({"addsub"}) => Value("t", result.ret) = Old(task.x) + Old(task.y) - Old(task.z)
        /\ Asked({"subadd"}) => Value("t", -result.ret) = Old(task.x) - Old(task.y) - Old(task.z)
        /\ Asked({"sumdiff"}) =>
             /\ Value("s", result.ret \div 2) = Old(task.x) + Old(task.y)
             /\ Value("d", -(result.ret % 2)) = Old(task.x) - Old(task.y)
        /\ \A name \in DOMAIN task.mem \ results : result.mem[name] = Old(name)

MiddleProduct(a, an, b, bn) ==
  LET Row(j) == LimbAt(b, j) * Part(a, bn - 1 - j, an - j) IN MapThenSumSet(Row, 0 .. bn - 1)

\* The products of limbs that reach limb n - 2.
ShortProduct(x, y, n) ==
  LET Row(j) == LimbAt(y, j) * ((Part(x, MaxOf(n - 2 - j, 0), n) * B ^ MaxOf(j - n + 2, 0)))
  IN  MapThenSumSet(Row, 0 .. n - 1)

ProductRight ==
  LET result == ProductAnswer
      product == task.x * task.y
  IN  /\ Asked({"kara_mul"}) => result = [p |-> product, inside |-> TRUE]
      /\ Asked({"sqr"}) => result = [p |-> task.x * task.x, inside |-> TRUE]
      /\ Asked({"mul"}) =>
           result = [p |-> product, inside |-> TRUE, top |-> LimbAt(product, task.un + task.vn - 1)]
      /\ Asked({"mullow"}) => result.inside /\ result.p % B ^ task.n = product % B ^ task.n
      /\ Asked({"mullow_basecase"}) => result = product % B ^ task.n
      /\ Asked({"mulhigh"}) => result = product \div B ^ task.n
      /\ Asked({"mulshort"}) =>
           /\ result.inside
           /\ result.p \in ShortProduct(task.x, task.y, task.n) .. product \div B ^ (task.n - 2)

ModularRight ==
  LET result == ProductAnswer
      product == task.y * task.z
  IN  /\ Asked({"expm1"}) =>
           result \in 0 .. 2 ^ task.bits - 1 /\ (result - product) % (2 ^ task.bits - 1) = 0
      /\ Asked({"Bexpp1"}) => result = product % (B ^ task.n + 1)
      /\ Asked({"bnm1"}) =>
           IF task.an + task.bn < task.rn THEN result = product
           ELSE result \in 0 .. B ^ task.rn - 1 /\ (result - product) % (B ^ task.rn - 1) = 0

ProductsRight ==
  Ours =>
    /\ Asked({"kara_mul", "sqr", "mul", "mullow", "mullow_basecase", "mulhigh", "mulshort"}) => ProductRight
    /\ Asked({"mulmid_n"}) => ProductAnswer.p = MiddleProduct(task.a, 2 * task.n - 1, task.b, task.n)
    /\ Asked({"mulmid"}) => ProductAnswer = Whole(MiddleProduct(task.a, task.an, task.b, task.bn))
    /\ Asked({"expm1", "bnm1", "Bexpp1"}) => ModularRight

=============================================================================
