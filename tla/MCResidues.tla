----------------------------- MODULE MCResidues -----------------------------
(* Divisions from the low end and remainders by one limb: the tasks, what    *)
(* the functions answer, and what is right.  Numbers of many limbs, which    *)
(* the recursive functions need, are asked for with limbs of one bit, and    *)
(* divisors of one limb with wider ones.  Quotients, at the edges of the     *)
(* quotient, the remainder and the divisor, and those from reciprocals.      *)
EXTENDS MpnHensel, MpnInverse

VARIABLE task  \* the function asked, its operands, and the width of their limbs

\* Numbers of up to n limbs: all, if there are few, or those whose limbs are edges.
RECURSIVE Edges(_)
Edges(n) ==
  IF n = 0 THEN {0}
  ELSE {x * B + limb : x \in Edges(n - 1), limb \in {0, 1, HighBit - 1, HighBit, B - 1} \cap 0 .. B - 1}
Numbers(n) == IF B ^ n <= 256 THEN 0 .. B ^ n - 1 ELSE Edges(n)
Odd(S) == {x \in S : x % 2 = 1}
Ends(n) == {x \in {0, 1, 2, B ^ n - 1, B ^ n - 2, B ^ n \div 2, B ^ (n \div 2), B ^ n - B ^ (n \div 2)} : x < B ^ n}

OneLimbTask ==
  \E n \in 1 .. 4 : \E x \in Numbers(n) :
    \/ \E fn \in {"divrem_hensel", "hensel_rsh", "rsh_hensel"}, d \in Odd(1 .. B - 1), s \in 0 .. 2 :
         \E cin \in IF fn = "rsh_hensel" THEN {0, x % d, x % (d * 2 ^ s)} ELSE {0} :
           /\ d * 2 ^ s < B
           /\ n > 1 \/ fn # "rsh_hensel"
           /\ task = [limb |-> LimbBits, fn |-> fn, x |-> x, n |-> n, d |-> d, s |-> s, cin |-> cin]
    \/ \E f \in {3, 5, 15} : \E cin \in IF f = 3 THEN 0 .. 2 ELSE {0} :
         task = [limb |-> LimbBits, fn |-> "by_factor", x |-> x, n |-> n, d |-> f, cin |-> cin]
    \/ task = [limb |-> LimbBits, fn |-> "byff", x |-> x, n |-> n, d |-> B - 1, cin |-> 0]
    \/ \E d \in 1 .. B - 1 :
         \/ task = [limb |-> LimbBits, fn |-> "divexact_1", x |-> x - (x % d), n |-> n, d |-> d]
         \/ task = [limb |-> LimbBits, fn |-> "euclidean", x |-> x, n |-> n, d |-> d]
         \/ \E k \in 1 .. 3 :
              /\ d > 1 /\ (k + 1) * (d - 1) <= B /\ n > k + 1
              /\ task = [limb |-> LimbBits, fn |-> "mod_1_k", x |-> x, n |-> n, d |-> d, k |-> k]
         \/ d >= HighBit /\ task = [limb |-> LimbBits, fn |-> "preinv_mod_1", x |-> x, n |-> n, d |-> d]
    \/ \E d \in B * HighBit .. B * B - 1 :
         /\ n > 1
         /\ task = [limb |-> LimbBits, fn |-> "euclidean_2", x |-> x, n |-> n, d |-> d]

\* The lengths: qn limbs of quotient and dn of divisor.
LongSizes ==
  [fn : {"sb_bdiv_q"}, qn : 0 .. 4, dn : 1 .. 4]
    \cup [fn : {"sb_bdiv_qr"}, qn : 1 .. 6, dn : 1 .. 3]
    \cup [fn : {"dc_bdiv_qr"}, qn : 1 .. 7, dn : 2 .. 4]
    \cup [fn : {"redc_1", "redc_2"}, qn : {0}, dn : 1 .. 4]
    \cup [fn : {"bdivmod"}, qn : {0, 2}, dn : 1 .. 3]
LongTask ==
  \E s \in LongSizes :
    LET nn == IF s.fn \in {"redc_1", "redc_2"} THEN 2 * s.dn ELSE s.qn + s.dn
    IN  \E d \in Odd(Numbers(s.dn)), n \in IF B ^ nn <= 256 THEN 0 .. B ^ nn - 1 ELSE Ends(nn) :
          IF s.fn # "bdivmod" THEN task = [limb |-> LimbBits, fn |-> s.fn, n |-> n, nn |-> nn, d |-> d, dn |-> s.dn]
          ELSE \E bits \in 1 .. nn * LimbBits :
                 task = [limb |-> LimbBits, fn |-> s.fn, n |-> n, nn |-> nn, d |-> d, dn |-> s.dn, bits |-> bits]

\* "n >= 6", so that these need numbers of many limbs; with limbs of one bit the
\* overflow of more than eight does not fit in two.
ManyLimbsSizes ==
  [fn : {"dc_bdiv_q_n"}, nn : 6 .. 8, dn : {0}]
    \cup [fn : {"dc_bdiv_q"}, nn : 6 .. 19, dn : {6, 7}]
    \cup [fn : {"divexact"}, nn : 2 .. 14, dn : 1 .. 9]
ManyLimbsTask ==
  \E s \in {t \in ManyLimbsSizes : t.nn >= t.dn} :
    LET dn == IF s.dn = 0 THEN s.nn ELSE s.dn
    IN  \E d \in Numbers(dn) :
          IF s.fn = "divexact"
          THEN \E q \in Ends(s.nn - dn) \cup Ends(s.nn - dn + 1) :
                 /\ d >= B ^ (dn - 1)
                 /\ q * d \in B ^ (s.nn - 1) .. B ^ s.nn - 1
                 /\ task = [limb |-> LimbBits, fn |-> s.fn, n |-> q * d, nn |-> s.nn, d |-> d, dn |-> dn]
          ELSE \E n \in Ends(s.nn) :
                 /\ d % 2 = 1
                 /\ task = [limb |-> LimbBits, fn |-> s.fn, n |-> n, nn |-> s.nn, d |-> d, dn |-> dn]

\* Quotients alone, of numbers made in the same way; the divisors are normalised
\* for all but mpn_tdiv_q.
QuotientEdges(n) ==
  IF n <= 0 THEN {0}
  ELSE {x \in {0, 1, B ^ n - 1, B ^ (n - 1), (B - 1) * B ^ (n - 1), B ^ n - 2, B ^ n - B - 1} : x >= 0}
Divisors(dn) ==
  LET low == B ^ (dn - 1)
      lower == B ^ (dn - 2)
  IN  {HighBit * low, HighBit * low + 1, (HighBit + 1) * low - 1, (HighBit * B + 1) * lower,
       (B - 1) * low, (B - 1) * low + 1, (B * B - 1) * lower, (B * B - 1) * lower - 1, B ^ dn - 1, B ^ dn - B - 1}
Dividends(nn, d, dn) ==
  {q * d + r : q \in {x \in QuotientEdges(nn - dn) \cup QuotientEdges(nn - dn + 1) : x < B ^ nn \div d},
               r \in {0, 1, d \div 2, d - 1}}
\* The functions, and the lengths they are asked for.
QuotientSizes ==
  [fn : {"tdiv_q"}, nn : 2 .. 8, dn : 2 .. 7]
    \cup [fn : {"sb_div_q", "sb_divappr_q"}, nn : 3 .. 9, dn : 3 .. 6]
    \cup [fn : {"dc_divappr_q"}, nn : 9 .. 10, dn : 6 .. 7]
    \cup [fn : {"dc_div_q"}, nn : {9}, dn : {6}]
Least(fn) == CASE fn \in {"tdiv_q", "sb_div_q"} -> 0 [] fn = "sb_divappr_q" -> 1 [] OTHER -> 3
QuotientTask ==
  \E s \in {t \in QuotientSizes : t.nn - t.dn >= Least(t.fn)} : \E d \in Divisors(s.dn) :
    \E c \in IF s.fn = "tdiv_q" THEN {1, 2, 4} ELSE {1} :
    \E n \in Dividends(s.nn, d \div c, s.dn) :
      /\ s.fn = "tdiv_q" => n >= B ^ (s.nn - 1)
      /\ task = [fn |-> s.fn, n |-> n, nn |-> s.nn, d |-> d \div c, dn |-> s.dn]

\* Divisors with a reciprocal, and the functions that use it; stray is the limb below.
RECURSIVE LowDigits(_)
LowDigits(n) == IF n = 0 THEN {0} ELSE {x * B + limb : x \in LowDigits(n - 1), limb \in {0, 1, B - 1}}
Invertible(n) ==
  IF B ^ n <= 512 THEN B ^ n \div 2 .. B ^ n - 1
  ELSE {high * B ^ (n - 1) + low : high \in {HighBit, HighBit + 1, B - 1},
        low \in IF n <= 5 THEN LowDigits(n - 1) ELSE QuotientEdges(n - 1) \cup {B ^ (n - 1) \div 3, B ^ (n - 1) \div (B - 1)}}
InverseTask(longest) ==
  \/ \E n \in 1 .. longest : \E d \in Invertible(n) :
       task = [limb |-> LimbBits, fn |-> "invert", n |-> 0, nn |-> n, d |-> d, dn |-> n, stray |-> 0]
  \/ \E n \in 1 .. longest - 2 : \E d \in Invertible(n) : \E x \in Dividends(2 * n, d, n) :
       \E fn \in {"inv_div_qr_n", "inv_divappr_q_n"} :
         task = [limb |-> LimbBits, fn |-> fn, n |-> x, nn |-> 2 * n, d |-> d, dn |-> n, stray |-> 0]
LongInverseTask ==
  \E dn \in 6 .. 7 : \E nn \in dn + 1 .. 14 : \E d \in Invertible(dn) : \E x \in Dividends(nn, d, dn) :
    \/ /\ nn - dn >= 3
       /\ task = [limb |-> LimbBits, fn |-> "inv_div_qr", n |-> x, nn |-> nn, d |-> d, dn |-> dn, stray |-> 0]
    \/ \E fn \in {"inv_div_q", "inv_divappr_q"}, stray \in {0, B - 1} :
         /\ nn < 14
         /\ fn = "inv_div_q" => nn - dn >= 3
         /\ task = [limb |-> LimbBits, fn |-> fn, n |-> x, nn |-> nn, d |-> d, dn |-> dn, stray |-> stray]

Asked(fns) == task.fn \in fns
Ours == "limb" \in DOMAIN task /\ task.limb = LimbBits
NoAnswer == "none"

OneLimbAnswer ==
  CASE task.fn = "divrem_hensel" -> DivremHenselQr(task.x, task.n, task.d)
    [] task.fn = "hensel_rsh" -> DivremHenselRsh(task.x, task.n, task.d, task.s)
    [] task.fn = "rsh_hensel" -> RshDivremHensel(task.x, task.n, task.d, task.s, task.cin)
    [] task.fn = "by_factor" ->
         IF task.d = 3 THEN DivexactBy3c(task.x, task.n, task.cin) ELSE DivexactByfobm1(task.x, task.n, task.d)
    [] task.fn = "byff" -> DivexactByff(task.x, task.n)
    [] task.fn = "divexact_1" -> Divexact1(task.x, task.n, task.d)
    [] task.fn = "euclidean" -> [both |-> EuclideanQr1(task.x, task.n, task.d), r |-> EuclideanR1(task.x, task.n, task.d)]
    [] task.fn = "mod_1_k" -> Mod1K(task.x, task.n, task.d, task.k)
    [] task.fn = "preinv_mod_1" -> PreinvMod1(task.x, task.n, task.d)
    [] task.fn = "euclidean_2" -> EuclideanQr2(task.x, task.n, task.d)
    [] OTHER -> NoAnswer

LongAnswer ==
  CASE task.fn = "sb_bdiv_q" -> SbBdivQ(task.n, task.nn, task.d, task.dn)
    [] task.fn = "sb_bdiv_qr" -> SbBdivQr(task.n, task.nn, task.d, task.dn)
    [] task.fn = "dc_bdiv_qr" -> DcBdivQr(task.n, task.nn, task.d, task.dn)
    [] task.fn = "dc_bdiv_q_n" -> DcBdivQN(task.n, task.d, task.nn)
    [] task.fn = "dc_bdiv_q" -> DcBdivQ(task.n, task.nn, task.d, task.dn)
    [] task.fn = "bdivmod" -> Bdivmod(task.n, task.nn, task.d, task.dn, task.bits)
    [] task.fn = "divexact" -> Divexact(task.n, task.nn, task.d, task.dn)
    [] task.fn = "redc_1" -> Redc1(task.n, task.d, task.dn)
    [] task.fn = "redc_2" -> Redc2(task.n, task.d, task.dn)
    [] OTHER -> NoAnswer

\* x - cin = q * d - r * B ^ n, the quotient shifted by s.
HenselRight(result, x, n, d, cin, s) ==
  LET multiple == x - cin + result.r * B ^ n
  IN  /\ multiple % d = 0
      /\ result.q = (multiple \div d) \div 2 ^ s
      /\ result.r \in 0 .. d - 1
      /\ multiple \div d < B ^ n

OneLimbRight ==
  LET result == OneLimbAnswer
  IN  /\ Asked({"divrem_hensel"}) => HenselRight(result, task.x, task.n, task.d, 0, 0)
      /\ Asked({"hensel_rsh"}) => HenselRight(result, task.x \div 2 ^ task.s, task.n, task.d, 0, 0)
      /\ Asked({"rsh_hensel"}) => HenselRight(result, task.x, task.n, task.d, task.cin, task.s)
      /\ Asked({"by_factor", "byff"}) => HenselRight(result, task.x, task.n, task.d, task.cin, 0)
      /\ Asked({"divexact_1"}) => result * task.d = task.x
      /\ Asked({"euclidean"}) =>
           /\ result.both = [q |-> task.x \div task.d, r |-> task.x % task.d]
           /\ result.r = task.x % task.d
      /\ Asked({"euclidean_2"}) => result = [q |-> task.x \div task.d, r |-> task.x % task.d]
      /\ Asked({"mod_1_k", "preinv_mod_1"}) => result = task.x % task.d

\* The products of limbs of q and d that reach the lowest nn limbs.
LowProducts(q, d, nn) ==
  LET Row(j) == LimbAt(q, j) * (d % B ^ (nn - j)) * B ^ j IN MapThenSumSet(Row, 0 .. nn - 1)

LongRight ==
  LET result == LongAnswer
  IN  /\ Asked({"sb_bdiv_q", "dc_bdiv_q_n"}) =>
           /\ (result.q * task.d - task.n) % B ^ task.nn = 0
           /\ result.q \in 0 .. B ^ task.nn - 1
           /\ task.nn < B * B => LowProducts(result.q, task.d, task.nn) = task.n + result.w * B ^ task.nn
      /\ Asked({"sb_bdiv_qr", "dc_bdiv_qr"}) =>
           /\ task.n - result.q * task.d = (result.r - result.cy * B ^ task.dn) * B ^ (task.nn - task.dn)
           /\ result.q \in 0 .. B ^ (task.nn - task.dn) - 1
           /\ result.r \in 0 .. B ^ task.dn - 1
      /\ Asked({"dc_bdiv_q"}) =>
           /\ (result * task.d - task.n) % B ^ task.nn = 0
           /\ result \in 0 .. B ^ task.nn - 1
      /\ Asked({"bdivmod"}) =>
           /\ result.q \in 0 .. 2 ^ task.bits - 1
           /\ (result.q * task.d - task.n) % 2 ^ task.bits = 0
           /\ result.r = (task.n - result.q * task.d) % B ^ task.nn
      /\ Asked({"divexact"}) => result * task.d = task.n
      /\ Asked({"redc_1", "redc_2"}) =>
           /\ (result * B ^ task.dn - task.n) % task.d = 0
           /\ result \in 0 .. B ^ task.dn - 1
           /\ task.n < task.d * B ^ task.dn => result <= 2 * task.d

ResiduesRight == Ours => OneLimbRight /\ LongRight

QuotientAnswer ==
  CASE task.fn = "tdiv_q" -> TdivQ(task.n, task.nn, task.d, task.dn)
    [] task.fn = "sb_div_q" -> SbDivQ(task.n, task.nn, task.d, task.dn)
    [] task.fn = "dc_div_q" -> DcDivQ(task.n, task.nn, task.d, task.dn)
    [] task.fn = "sb_divappr_q" -> SbDivapprQ(task.n, task.nn, task.d, task.dn).q
    [] task.fn = "dc_divappr_q" -> DcDivapprQ(task.n, task.nn, task.d, task.dn).q
    [] OTHER -> NoAnswer

QuotientRight ==
  LET result == QuotientAnswer
  IN  /\ Asked({"tdiv_q", "sb_div_q", "dc_div_q"}) => result = task.n \div task.d
      /\ Asked({"sb_divappr_q", "dc_divappr_q"}) => result - (task.n \div task.d) \in {0, 1}

InverseAnswer ==
  LET inv == MpnInvert(task.d, task.dn)
  IN  CASE task.fn = "invert" -> inv
        [] task.fn = "inv_div_qr_n" -> InvDivQrN(task.n, task.d, task.dn, inv)
        [] task.fn = "inv_divappr_q_n" -> InvDivapprQN(task.n, task.d, task.dn, inv)
        [] task.fn = "inv_div_qr" -> InvDivQr(task.n, task.nn, task.d, task.dn, inv)
        [] task.fn = "inv_divappr_q" -> InvDivapprQ(task.n, task.nn, task.d, task.dn, inv, task.stray)
        [] task.fn = "inv_div_q" -> InvDivQ(task.n, task.nn, task.d, task.dn, inv, task.stray)
        [] OTHER -> NoAnswer

\* The reciprocal is the largest x for which x * d has not more limbs than d and the
\* power of the base have; quotients are exact, or that or one more.
InverseRight ==
  LET result == InverseAnswer
      q == task.n \div task.d
  IN  Ours =>
      /\ Asked({"invert"}) =>
           /\ (B ^ task.dn + result) * task.d < B ^ (2 * task.dn)
           /\ (B ^ task.dn + result + 1) * task.d >= B ^ (2 * task.dn)
      /\ Asked({"inv_div_qr_n", "inv_div_qr"}) => result = [q |-> q, r |-> task.n % task.d, sound |-> TRUE]
      /\ Asked({"inv_div_q"}) => result = [q |-> q, sound |-> TRUE]
      /\ Asked({"inv_divappr_q_n", "inv_divappr_q"}) => result.q - q \in {0, 1} /\ result.sound

=============================================================================
