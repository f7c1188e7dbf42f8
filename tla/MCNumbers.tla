----------------------------- MODULE MCNumbers -----------------------------
(* Questions about numbers, quotients with remainders and floats: the tasks, *)
(* what the functions answer, and what the right answer is.                  *)
EXTENDS MpzQuery, MpfFloat

CONSTANTS MaxNumber,  \* bound: the magnitude of the numbers
          Prec        \* limbs of precision of the results of mpf

VARIABLE task  \* the function asked and its operands

Number == -MaxNumber .. MaxNumber
BitIndex == 0 .. 4 * LimbBits

BitTasks ==
  [fn : {"tstbit", "scan0", "scan1", "divisible_2exp"}, u : Number, k : BitIndex]
    \cup [fn : {"popcount"}, u : Number]
    \cup [fn : {"hamdist", "cmp", "cmpabs"}, u : Number, v : Number]
CompareTasks ==
  [fn : {"cmp_ui", "cmpabs_ui"}, u : Number, k : 0 .. B - 1]
    \cup [fn : {"cmp_si"}, u : Number, k : 1 - B .. B - 1]
CongruenceTasks ==
  [fn : {"congruent_2exp"}, u : Number, v : -20 .. 20 \cup {-80, -64, 64, 80}, k : BitIndex]
    \cup [fn : {"congruent_ui"}, u : Number, v : 0 .. B - 1, d : 0 .. B - 1]
    \cup [fn : {"divisible_ui"}, u : Number, d : 0 .. B - 1]
    \cup [fn : {"divisible"}, u : Number, d : Number]
    \cup [fn : {"congruent"}, u : Number, v : -6 .. 6 \cup {-20, -15, 15, 20}, d : -20 .. 20]

\* Divisions made from the quotient and the remainder, at the edges of both:
\* every divisor of up to four limbs, and six limbs for the divide and conquer.
Divisors(dn) ==
  {d \in B ^ (dn - 1) .. B ^ dn - 1 : dn < 5 \/ d % B ^ 3 \in {0, 1, B ^ 3 - 1}}
Edges(n) == {0, 1, B ^ n - 1} \cup (IF n = 0 THEN {} ELSE {B ^ (n - 1), B ^ n - 2})
Longest(dn) == IF dn = 6 THEN 14 ELSE dn + 4
DivTask ==
  \E dn \in {2, 3, 4, 6} : \E d \in Divisors(dn), nn \in dn .. Longest(dn) :
    \E q \in Edges(nn - dn) \cup Edges(nn - dn + 1), r \in {0, 1, d \div 2, d - 1} :
      /\ q * d + r < B ^ nn
      /\ task = [fn |-> "tdiv_qr", n |-> q * d + r, nn |-> nn, d |-> d, dn |-> dn]
PrimitiveTasks ==
  [fn : {"divrem_1"}, n : 0 .. B ^ 4 - 1, d : 1 .. B - 1, qxn : 0 .. 2]
    \cup {t \in [fn : {"udiv_qrnnd_preinv"}, n : 0 .. B * B - 1, d : HighBit .. B - 1] : Hi(t.n) < t.d}
    \cup {t \in [fn : {"udiv_qr_3by2"}, n : 0 .. B ^ 3 - 1, d : B * HighBit .. B * B - 1] : t.n \div B < t.d}

\* Floats of up to two limbs, and longer ones with the limbs that matter when nearly
\* equal operands are subtracted; and zero, also the one mpf_ui_sub may leave.
TopLimb(m, n) == m \div B ^ (n - 1)
Mantissas ==
  1 .. B ^ 2 - 1
    \cup {m \in B ^ 2 .. B ^ 3 - 1 : LimbAt(m, 1) \in {0, B - 1}}
    \cup UNION {{m \in B ^ (n - 1) .. B ^ n - 1 :
                   TopLimb(m, n) \in {1, B - 1} /\ \A i \in 0 .. n - 2 : LimbAt(m, i) \in {0, B - 1}} : n \in {4, 5}}
Floats(exponents, signs) ==
  {Float(neg, m, Limbs(m), e) : neg \in signs, m \in Mantissas, e \in exponents}
Positive(e) == Floats({e}, {FALSE})
Signs == {FALSE, TRUE}
Zeros == {Zero, Float(FALSE, 0, 0, -1)}
FloatTasks ==
  [fn : {"mpf_add", "mpf_sub"}, u : Floats(-2 .. 4, {FALSE}), v : Positive(1) \cup Zeros]
    \cup [fn : {"mpf_add", "mpf_sub"}, u : Floats(0 .. 2, {FALSE}), v : Floats({1}, {TRUE})]
    \cup [fn : {"mpf_mul", "mpf_div", "mpf_reldiff", "mpf_eq"}, u : Positive(1), v : Positive(1)]
    \cup [fn : {"mpf_add_ui", "mpf_sub_ui", "mpf_mul_ui", "mpf_cmp_ui", "mpf_cmp_si", "mpf_fits"},
          u : Floats(-4 .. 4, Signs) \cup Zeros, k : 0 .. B - 1]
    \cup [fn : {"mpf_div_ui", "mpf_ui_div"}, u : Positive(1), k : 1 .. B - 1]
    \cup [fn : {"mpf_ui_sub"}, v : Floats(-2 .. 4, Signs) \cup Zeros, k : 0 .. B - 1]
    \cup [fn : {"mpf_mul_2exp", "mpf_div_2exp"}, u : Positive(1), k : 0 .. 2 * LimbBits]
    \cup [fn : {"mpf_set", "mpf_trunc", "mpf_ceil", "mpf_floor", "mpf_integer_p", "mpf_get"},
          u : Floats(-1 .. 5, Signs) \cup Zeros]
    \cup [fn : {"mpf_cmp"}, u : Floats({0, 1}, Signs) \cup Zeros, v : Floats({0}, Signs) \cup Zeros]
    \cup [fn : {"mpf_set_q"}, u : -20 .. 20 \cup {B ^ 5 - 1}, v : 1 .. 80 \cup {B ^ 5 - 1}]

NumberTask ==
  \/ task \in BitTasks
  \/ task \in CompareTasks
  \/ task \in CongruenceTasks
  \/ DivTask
  \/ task \in PrimitiveTasks
  \/ task \in FloatTasks

Asked(fns) == task.fn \in fns
NoAnswer == "none"

\* The answers of the functions that look at numbers.
QueryAnswer ==
  CASE task.fn = "cmp" -> Cmp(task.u, task.v)
    [] task.fn = "cmpabs" -> Cmpabs(task.u, task.v)
    [] task.fn = "cmp_ui" -> CmpUi(task.u, task.k)
    [] task.fn = "cmpabs_ui" -> CmpabsUi(task.u, task.k)
    [] task.fn = "cmp_si" -> CmpSi(task.u, task.k)
    [] task.fn = "tstbit" -> Tstbit(task.u, task.k)
    [] task.fn = "scan0" -> Scan0(task.u, task.k)
    [] task.fn = "scan1" -> Scan1(task.u, task.k)
    [] task.fn = "popcount" -> Popcount(task.u)
    [] task.fn = "hamdist" -> Hamdist(task.u, task.v)
    [] task.fn = "divisible_2exp" -> Divisible2exp(task.u, task.k)
    [] task.fn = "congruent_2exp" -> Congruent2exp(task.u, task.v, task.k)
    [] task.fn = "divisible_ui" -> DivisibleUi(task.u, task.d)
    [] task.fn = "divisible" -> Divisible(task.u, task.d)
    [] task.fn = "congruent_ui" -> CongruentUi(task.u, task.v, task.d)
    [] task.fn = "congruent" -> Congruent(task.u, task.v, task.d)
    [] task.fn = "mpf_cmp_ui" -> FloatCmpUi(task.u, task.k)
    [] task.fn = "mpf_cmp_si" -> FloatCmpSi(task.u, -task.k)
    [] task.fn = "mpf_cmp" -> FloatCmp(task.u, task.v)
    [] OTHER -> NoAnswer

\* The answers of the divisions.
QuotientAnswer ==
  CASE task.fn = "tdiv_qr" -> TdivQr(task.n, task.nn, task.d, task.dn)
    [] task.fn = "divrem_1" -> Divrem1(task.n, Limbs(task.n), task.d, task.qxn)
    [] task.fn = "udiv_qrnnd_preinv" -> UdivQrnndPreinv(Hi(task.n), Lo(task.n), task.d, InvertLimb(task.d))
    [] task.fn = "udiv_qr_3by2" -> UdivQr3by2(LimbAt(task.n, 2), LimbAt(task.n, 1), LimbAt(task.n, 0),
         Hi(task.d), Lo(task.d), InvertPi1(Hi(task.d), Lo(task.d)))
    [] OTHER -> NoAnswer

\* The answers of the functions of mpf.
FloatAnswer ==
  CASE task.fn = "mpf_add" -> Add(task.u, task.v, Prec)
    [] task.fn = "mpf_sub" -> Sub(task.u, task.v, Prec)
    [] task.fn = "mpf_mul" -> Mul(task.u, task.v, Prec)
    [] task.fn = "mpf_div" -> Div(task.u, task.v, Prec)
    [] task.fn = "mpf_reldiff" -> Reldiff(task.u, task.v, Prec)
    [] task.fn = "mpf_eq" -> {k \in 1 .. 4 * LimbBits : Eq(task.u, task.v, k)}
    [] task.fn = "mpf_add_ui" -> AddUi(task.u, task.k, Prec)
    [] task.fn = "mpf_sub_ui" -> SubUi(task.u, task.k, Prec)
    [] task.fn = "mpf_ui_sub" -> UiSub(task.k, task.v, Prec)
    [] task.fn = "mpf_mul_ui" -> MulUi(task.u, task.k, Prec)
    [] task.fn = "mpf_fits" -> <<FitsU(task.u, task.k), FitsS(task.u, -task.k, task.k)>>
    [] task.fn = "mpf_div_ui" -> DivUi(task.u, task.k, Prec)
    [] task.fn = "mpf_ui_div" -> UiDiv(task.k, task.u, Prec)
    [] task.fn = "mpf_mul_2exp" -> Mul2exp(task.u, task.k, Prec)
    [] task.fn = "mpf_div_2exp" -> Div2exp(task.u, task.k, Prec)
    [] task.fn = "mpf_set" -> Set(task.u, Prec)
    [] task.fn = "mpf_trunc" -> Trunc(task.u, Prec)
    [] task.fn = "mpf_ceil" -> CeilOrFloor(task.u, FALSE, Prec)
    [] task.fn = "mpf_floor" -> CeilOrFloor(task.u, TRUE, Prec)
    [] task.fn = "mpf_integer_p" -> IntegerP(task.u)
    [] task.fn = "mpf_get" -> <<GetUi(task.u), GetSi(task.u)>>
    [] task.fn = "mpf_set_q" -> SetQ(task.u, task.v, Prec)
    [] OTHER -> NoAnswer

----------------------------------------------------------------------------
\* Bit i of an integer in two's complement, without end, and all that can be
\* one or zero up to where only the sign is left.
Bit(x, i) == (x \div 2 ^ i) % 2
AllBits == 0 .. 5 * LimbBits
FirstFrom(k, S) == LET above == {i \in S : i >= k} IN IF above = {} THEN BitcntMax ELSE Min(above)

\* A bit of a number, or the first one or zero from a bit on, is that of the
\* number in two's complement; so are the bits in which two numbers differ.
BitsExact(result) ==
  /\ Asked({"tstbit"}) => result = Bit(task.u, task.k)
  /\ Asked({"scan0"}) => result = FirstFrom(task.k, {i \in AllBits : Bit(task.u, i) = 0})
  /\ Asked({"scan1"}) => result = FirstFrom(task.k, {i \in AllBits : Bit(task.u, i) = 1})
  /\ Asked({"popcount"}) =>
       result = IF task.u < 0 THEN BitcntMax ELSE Cardinality({i \in AllBits : Bit(task.u, i) = 1})
  /\ Asked({"hamdist"}) =>
       result = IF SameSign(task.u, task.v)
                THEN Cardinality({i \in AllBits : Bit(task.u, i) # Bit(task.v, i)})
                ELSE BitcntMax

\* A float in units of B ^ low, and the unit of its lowest limb.
In(u, low) == (IF u.neg THEN -1 ELSE 1) * u.m * B ^ (u.e - u.n - low)
Low(u) == u.e - u.n
Lowest(u, v) == MinOf(Low(u), Low(v))

OrderExact(result) ==
  /\ Asked({"cmp"}) => SignOf(result) = SignOf(task.u - task.v)
  /\ Asked({"cmpabs"}) => SignOf(result) = SignOf(Abs(task.u) - Abs(task.v))
  /\ Asked({"cmp_ui", "cmp_si"}) => SignOf(result) = SignOf(task.u - task.k)
  /\ Asked({"cmpabs_ui"}) => SignOf(result) = SignOf(Abs(task.u) - task.k)
  /\ Asked({"mpf_cmp"}) =>
       LET low == Lowest(task.u, task.v) IN result = SignOf(In(task.u, low) - In(task.v, low))
  /\ Asked({"mpf_cmp_ui", "mpf_cmp_si"}) =>
       LET low == MinOf(0, Low(task.u))
           k == IF task.fn = "mpf_cmp_ui" THEN task.k ELSE -task.k
       IN  result = SignOf(In(task.u, low) - k * B ^ (-low))

\* "Congruence modulo zero is equality."
MultipleOf(x, d) == IF d = 0 THEN x = 0 ELSE x % Abs(d) = 0
CongruencesExact(result) ==
  /\ Asked({"divisible_2exp"}) => result = MultipleOf(task.u, 2 ^ task.k)
  /\ Asked({"congruent_2exp"}) => result = MultipleOf(task.u - task.v, 2 ^ task.k)
  /\ Asked({"divisible_ui", "divisible"}) => result = MultipleOf(task.u, task.d)
  /\ Asked({"congruent_ui", "congruent"}) => result = MultipleOf(task.u - task.v, task.d)

QueriesRight ==
  LET result == QueryAnswer
  IN  BitsExact(result) /\ OrderExact(result) /\ CongruencesExact(result)

DivisionRight ==
  LET result == QuotientAnswer
  IN  /\ Asked({"tdiv_qr", "udiv_qrnnd_preinv", "udiv_qr_3by2"}) =>
           /\ task.n = result.q * task.d + result.r
           /\ result.r \in 0 .. task.d - 1
      /\ Asked({"divrem_1"}) =>
           /\ task.n * B ^ task.qxn = result.q * task.d + result.r
           /\ result.r \in 0 .. task.d - 1
      /\ Asked({"tdiv_qr"}) => ~result.stray

\* At most Prec + 1 limbs, the highest not zero; a zero has no sign, and an exponent
\* that makes mpf_get_si take it for a fraction.
WellFormedFloat(r) ==
  IF r.n = 0 THEN r.m = 0 /\ ~r.neg /\ r.e <= 0
  ELSE r.n <= Prec + 1 /\ B ^ (r.n - 1) <= r.m /\ r.m < B ^ r.n

\* An exact value x * B ^ low: a sum, a product, or a quotient cut below the Prec + 1
\* limbs a result may have.
Value(x, low) == [x |-> x, low |-> low]
SumOf(u, v) == LET low == Lowest(u, v) IN Value(In(u, low) + In(v, low), low)
DifferenceOf(u, v) == SumOf(u, Negated(v))
ProductOf(u, v) == Value(In(u, Low(u)) * In(v, Low(v)), Low(u) + Low(v))
QuotientBy(u, v) ==
  LET k == MaxOf(0, v.n + Prec + 1 - u.n)
      q == (u.m * B ^ k) \div v.m
  IN  Value(IF u.neg # v.neg THEN -q ELSE q, Low(u) - Low(v) - k)
RelativeDifference(u, v) ==
  LET diff == DifferenceOf(u, v)
      n == Limbs(diff.x)
  IN  IF u.n = 0 \/ n = 0 THEN Value(IF u.n = 0 /\ v.n # 0 THEN 1 ELSE 0, 0)
      ELSE QuotientBy(Float(FALSE, Abs(diff.x), n, n + diff.low), u)

\* A value in units of B ^ low, for the result r to be compared with; and the exponent
\* of a value, which says what a limb of it is worth.
LowOf(r, value) == MinOf(Low(r), value.low)
Units(value, low) == value.x * B ^ (value.low - low)
ExponentOf(value) == value.low + Limbs(value.x)

\* x without what is below its highest p limbs.
Cut(x, p) ==
  LET n == Limbs(x) IN IF n <= p THEN x ELSE SignOf(x) * (Abs(x) \div B ^ (n - p)) * B ^ (n - p)

\* Four degrees of accuracy: the value cut to the precision of the destination or a
\* limb more; what is at most that value, by less than so many limbs of the precision;
\* what is at most it, by less than so many times the least difference between floats
\* of Prec limbs; and what is on either side, by less than a limb that a float of
\* the given exponent has in that place.
IsCut(r, value) ==
  LET low == LowOf(r, value)
  IN  \E p \in {Prec, Prec + 1} : In(r, low) = Cut(Units(value, low), p)
NotAbove(r, value) ==
  LET low == LowOf(r, value)
  IN  Abs(In(r, low)) <= Abs(Units(value, low)) /\ In(r, low) * SignOf(value.x) >= 0
Near(r, value, units, exponent) ==
  LET low == MinOf(LowOf(r, value), exponent - Prec)
  IN  Abs(In(r, low) - Units(value, low)) < units * B ^ (exponent - Prec - low)
CutBy(r, value, units) == NotAbove(r, value) /\ Near(r, value, units, ExponentOf(value))
CutByRatio(r, value, units) ==
  LET low == LowOf(r, value)
      x == Abs(Units(value, low))
  IN  NotAbove(r, value) /\ (x - Abs(In(r, low))) * B ^ (Prec - 1) <= units * x

\* Magnitudes that are added lose at most a limb of each operand; of magnitudes that
\* are subtracted the cut may fall on either side.
Summed(r, u, v) ==
  LET value == SumOf(u, v)
  IN  IF u.n = 0 \/ v.n = 0 THEN IsCut(r, value)
      ELSE IF u.neg = v.neg THEN CutBy(r, value, 2)
      ELSE Near(r, value, 1, ExponentOf(value))

Accurate(result) ==
  /\ Asked({"mpf_add", "mpf_sub", "mpf_mul", "mpf_div", "mpf_reldiff", "mpf_add_ui", "mpf_sub_ui",
               "mpf_ui_sub", "mpf_mul_ui", "mpf_div_ui", "mpf_ui_div", "mpf_mul_2exp", "mpf_div_2exp",
               "mpf_set_q", "mpf_set"}) => WellFormedFloat(result)
  /\ Asked({"mpf_set"}) => IsCut(result, SumOf(task.u, Zero))
  /\ Asked({"mpf_set_q"}) => IsCut(result, QuotientBy(SetZ(task.u, 9), SetZ(task.v, 9)))
  /\ Asked({"mpf_mul_ui"}) => IsCut(result, ProductOf(task.u, SetUi(task.k)))
  /\ Asked({"mpf_div"}) => IsCut(result, QuotientBy(task.u, task.v))
  /\ Asked({"mpf_div_ui"}) => IsCut(result, QuotientBy(task.u, SetUi(task.k)))
  /\ Asked({"mpf_ui_div"}) => IsCut(result, QuotientBy(SetUi(task.k), task.u))
  /\ Asked({"mpf_reldiff"}) => IsCut(result, RelativeDifference(task.u, task.v))
  /\ Asked({"mpf_add"}) => Summed(result, task.u, task.v)
  /\ Asked({"mpf_sub"}) => Summed(result, task.u, Negated(task.v))
  /\ Asked({"mpf_sub_ui"}) => Summed(result, task.u, Negated(SetUi(task.k)))
  /\ Asked({"mpf_add_ui"}) =>
       IF task.u.neg THEN Summed(result, task.u, SetUi(task.k))
       ELSE CutBy(result, SumOf(task.u, SetUi(task.k)), 1)
  /\ Asked({"mpf_ui_sub"}) =>
       LET value == DifferenceOf(SetUi(task.k), task.v)
       IN  IF task.v.neg THEN CutBy(result, value, 1)
           ELSE Near(result, value, 1, IF task.k = 0 THEN task.v.e ELSE MaxOf(1, task.v.e))
  /\ Asked({"mpf_mul"}) => CutByRatio(result, ProductOf(task.u, task.v), 2)
  /\ Asked({"mpf_mul_2exp"}) => CutByRatio(result, ProductOf(task.u, SetZ(2 ^ task.k, 9)), 1)
  /\ Asked({"mpf_div_2exp"}) => CutByRatio(result, QuotientBy(task.u, SetZ(2 ^ task.k, 9)), 1)

FloatsRight == Accurate(FloatAnswer)

\* The whole part of a float, and whether there is more of it.
Whole(u) == IF u.e < 0 THEN 0 ELSE IF u.n <= u.e THEN In(u, 0) ELSE SignOf(In(u, Low(u))) * (u.m \div B ^ (u.n - u.e))
HasFraction(u) == u.n > 0 /\ (u.e < 0 \/ (u.n > u.e /\ u.m % B ^ (u.n - u.e) # 0))
Ceiling(u) == Whole(u) + (IF HasFraction(u) /\ ~u.neg THEN 1 ELSE 0)
Floor(u) == Whole(u) - (IF HasFraction(u) /\ u.neg THEN 1 ELSE 0)

\* The least number of Prec + 1 limbs that is not less than the integer x.
Above(x) ==
  LET cut == Cut(x, Prec + 1) IN IF cut >= x THEN cut ELSE cut + B ^ (Limbs(x) - Prec - 1)

\* What mpf_ceil, mpf_floor and mpf_trunc cannot keep of an integer is rounded their way.
\* "Zero fits, negatives don't", not even those an unsigned type would hold once truncated
\* (both are against what is said of them: see MCManual).
WholeExact(result) ==
  /\ Asked({"mpf_trunc", "mpf_ceil", "mpf_floor"}) => WellFormedFloat(result)
  /\ Asked({"mpf_trunc"}) => In(result, 0) = Cut(Whole(task.u), Prec + 1)
  /\ Asked({"mpf_ceil"}) => In(result, 0) = Above(Ceiling(task.u))
  /\ Asked({"mpf_floor"}) => In(result, 0) = -Above(-Floor(task.u))
  /\ Asked({"mpf_integer_p"}) => result = ~HasFraction(task.u)
  /\ Asked({"mpf_get"}) =>
       /\ result[1] = Abs(Whole(task.u)) % B
       /\ Whole(task.u) \in -HighBit .. HighBit - 1 => result[2] = Whole(task.u)
  /\ Asked({"mpf_fits"}) =>
       /\ result[1] = (~task.u.neg /\ Whole(task.u) \in 0 .. task.k)
       /\ result[2] = (Whole(task.u) \in -task.k .. task.k)
  /\ Asked({"mpf_eq"}) =>
       LET low == Lowest(task.u, task.v)
           Size(x) == Max({i \in 0 .. 9 * LimbBits : 2 ^ i <= In(x, low)}) + 1
           Leads(x, k) == (In(x, low) * 2 ^ (4 * LimbBits)) \div 2 ^ (Size(x) + 4 * LimbBits - k)
       IN  result = {k \in 1 .. 4 * LimbBits : Size(task.u) = Size(task.v) /\ Leads(task.u, k) = Leads(task.v, k)}

FloatIntegersRight == WholeExact(FloatAnswer)

=============================================================================
