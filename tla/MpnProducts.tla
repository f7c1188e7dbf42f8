---------------------------- MODULE MpnProducts ----------------------------
(***************************************************************************)
(* Sums of more than two numbers, and products: the basecase and its       *)
(* variants that leave out low or high limbs, Karatsuba's products with    *)
(* their carries in the middle, products of numbers of different lengths   *)
(* by blocks, middle products, and products modulo 2^b - 1 and 2^b + 1.    *)
(* In a product a region of memory is a number; what the code adds to some *)
(* of its limbs is added to those, and a carry that runs on without a      *)
(* limit is one that must end inside of the region.  The thresholds are    *)
(* those of mpn/generic; numbers above them, where Toom and Fourier        *)
(* products begin, are not modelled.                                       *)
(***************************************************************************)
EXTENDS Words

CONSTANTS MulKaratsubaThreshold,   \* MUL_KARATSUBA_THRESHOLD, at least 3
          MulBasecaseMaxUn,        \* MUL_BASECASE_MAX_UN
          SqrBasecaseThreshold,    \* SQR_BASECASE_THRESHOLD
          SqrKaratsubaThreshold,   \* SQR_KARATSUBA_THRESHOLD
          MullowBasecaseThreshold, MullowDcThreshold, MullowMulThreshold,
          MulhighBasecaseThreshold, MulhighDcThreshold, MulhighMulThreshold,
          MulmidToom42Threshold,   \* MULMID_TOOM42_THRESHOLD, at least 4
          Chunk,                   \* CHUNK of mulmid.c
          Mulmod2expm1Threshold    \* MULMOD_2EXPM1_THRESHOLD

----------------------------------------------------------------------------
(* More than two numbers added and subtracted, or more returned than a     *)
(* sum: mpn_addadd_n and its like are passes of mpn_add_n and mpn_sub_n    *)
(* over numbers that are the same or separate, in an order that depends on *)
(* which are the same.  Here a memory is a function from the names of its  *)
(* numbers to their values.                                                *)

\* A pass over n limbs: the memory with the result in r, and the carry or borrow,
\* after passes that left ret.
AddPass(state, r, a, b, n, weight) ==
  LET sum == state.mem[a] + state.mem[b]
  IN  [mem |-> [state.mem EXCEPT ![r] = sum % B ^ n], ret |-> state.ret + weight * (sum \div B ^ n)]
SubPass(state, r, a, b, n, weight) ==
  LET difference == state.mem[a] - state.mem[b]
  IN  [mem |-> [state.mem EXCEPT ![r] = difference % B ^ n],
       ret |-> state.ret + weight * (IF difference < 0 THEN 1 ELSE 0)]
Begin(mem) == [mem |-> mem, ret |-> 0]

\* Mutant: x is added last when t is y alone too.
AddaddNNoSwap(mem, t, x, y, z, n) ==
  LET Sum(a, b, c) == AddPass(AddPass(Begin(mem), t, a, b, n, 1), t, t, c, n, 1) IN Sum(x, y, z)

\* mpn_addadd_n: t = x + y + z.  First the number that is t, if there is one.
AddaddN(mem, t, x, y, z, n) ==
  LET Sum(a, b, c) == AddPass(AddPass(Begin(mem), t, a, b, n, 1), t, t, c, n, 1)
      triple == 3 * mem[x]
  IN  IF t = x
      THEN IF t # y THEN Sum(x, z, y)
           ELSE IF t # z THEN Sum(x, y, z)
           ELSE [mem |-> [mem EXCEPT ![t] = triple % B ^ n], ret |-> triple \div B ^ n]
      ELSE IF t = y THEN Sum(y, z, x) ELSE Sum(z, y, x)

\* mpn_addsub_n: t = x + y - z; what it returns may be negative.
AddsubN(mem, t, x, y, z, n) ==
  LET AddFirst(a, b) == SubPass(AddPass(Begin(mem), t, a, b, n, 1), t, t, z, n, -1)
      SubFirst(a, b) == AddPass(SubPass(Begin(mem), t, a, z, n, -1), t, t, b, n, 1)
  IN  CASE t = x /\ t = y /\ t = z -> Begin(mem)
        [] t = z /\ t = y /\ t # x -> SubFirst(y, x)
        [] t = z /\ t # y -> SubFirst(x, y)
        [] t # z /\ t = y /\ t # x -> AddFirst(y, x)
        [] OTHER -> AddFirst(x, y)

\* mpn_subadd_n: t = x - y - z.
SubaddN(mem, t, x, y, z, n) ==
  LET Twice(b, c) == SubPass(SubPass(Begin(mem), t, x, b, n, 1), t, t, c, n, 1)
  IN  CASE t = x /\ t = y /\ t = z ->
             [mem |-> [mem EXCEPT ![t] = (-mem[z]) % B ^ n], ret |-> IF mem[z] = 0 THEN 0 ELSE 1]
        [] t = y /\ t = z /\ t # x -> SubPass(AddPass(Begin(mem), t, y, z, n, 1), t, x, t, n, 1)
        [] t = y /\ t # z -> Twice(y, z)
        [] t = x /\ t # y /\ t # z -> Twice(y, z)
        [] OTHER -> Twice(z, y)

\* mpn_sumdiff_n: s = x + y and d = x - y, the difference by way of a temporary if
\* both operands are results; the carry has weight two.
SumdiffN(mem, s, d, x, y, n) ==
  LET crossed == (s = x /\ d = y) \/ (s = y /\ d = x)
      difference == mem[x] - mem[y]
      borrow == IF difference < 0 THEN 1 ELSE 0
      sum == AddPass([mem |-> mem, ret |-> borrow], s, x, y, n, 2)
  IN  IF n = 0 THEN Begin(mem)
      ELSE IF crossed THEN [sum EXCEPT !.mem[d] = difference % B ^ n]
      ELSE IF s \in {x, y} THEN AddPass(SubPass(Begin(mem), d, x, y, n, 1), s, x, y, n, 2)
      ELSE SubPass(AddPass(Begin(mem), s, x, y, n, 2), d, x, y, n, 1)

----------------------------------------------------------------------------
(* Sums that also return where their carries were: c[i + 1] is the carry   *)
(* out of limb i, and the sum of c[i + 1] * y[n - 1 - i] is returned in    *)
(* two limbs for each y of ys.                                             *)

\* A pair of limbs el and eh, and zl added to it as the code does it.
AddToPair(e, zl) == LET el == Wrap(Lo(e) + zl) IN el + B * Wrap(Hi(e) + (IF el < zl THEN 1 ELSE 0))

CarryErrors(ys, n, CarryOut(_)) ==
  LET Error(y) ==
        LET From[i \in 0 .. n] ==
              IF i = 0 THEN 0
              ELSE AddToPair(From[i - 1], IF CarryOut(i) = 0 THEN 0 ELSE LimbAt(y, n - i))
        IN  From[n]
  IN  [j \in DOMAIN ys |-> Error(ys[j])]

\* mpn_add_err1_n and mpn_add_err2_n.
AddErr(u, v, ys, n, cy) ==
  LET CarryOut(i) == ((u % B ^ i) + (v % B ^ i) + cy) \div B ^ i
      sum == u + v + cy
  IN  [r |-> sum % B ^ n, cy |-> sum \div B ^ n, e |-> CarryErrors(ys, n, CarryOut)]

\* mpn_sub_err1_n and mpn_sub_err2_n.
SubErr(u, v, ys, n, cy) ==
  LET BorrowOut(i) == IF (u % B ^ i) - (v % B ^ i) - cy < 0 THEN 1 ELSE 0
      difference == u - v - cy
  IN  [r |-> difference % B ^ n, cy |-> IF difference < 0 THEN 1 ELSE 0, e |-> CarryErrors(ys, n, BorrowOut)]

----------------------------------------------------------------------------
(* Products.                                                               *)

\* Limbs from at, len of them, of the region r, and r with others in their place.
Field(r, at, len) == (r \div B ^ at) % B ^ len
Store(r, at, len, v) == r + (v - Field(r, at, len)) * B ^ at

\* mpn_add and mpn_sub to limbs of a region, and the carry or borrow out of them.
AddIn(r, at, len, v) == Store(r, at, len, (Field(r, at, len) + v) % B ^ len)
CarryIn(r, at, len, v) == Abs((Field(r, at, len) + v) \div B ^ len)

\* mpn_incr_u and mpn_decr_u: the carry goes as far as it has to, so that all is
\* well only if it ends within the n limbs of the region.
Within(r, n) == r \in 0 .. B ^ n - 1

----------------------------------------------------------------------------
(* The basecase: rows of mpn_mul_1 and mpn_addmul_1, whose carry is the    *)
(* limb above them.                                                        *)

Rows(u, un, v, vn) ==
  LET After[j \in 1 .. vn] ==
        IF j = 1 THEN u * LimbAt(v, 0)
        ELSE LET row == Field(After[j - 1], j - 1, un) + u * LimbAt(v, j - 1)
             IN  (After[j - 1] % B ^ (j - 1)) + row * B ^ (j - 1)
  IN  After[vn]

MulBasecase(u, un, v, vn) == Rows(u, un, v, vn)

\* mpn_sqr_basecase: the products above the diagonal, doubled, and the squares.
SqrBasecase(u, n) ==
  LET Triangle[i \in 0 .. n - 1] ==
        IF i = 0 THEN 0
        ELSE LET row == Field(Triangle[i - 1], 2 * i - 2, n - i) + Part(u, i, n) * LimbAt(u, i - 1)
             IN  (Triangle[i - 1] % B ^ (2 * i - 2)) + row * B ^ (2 * i - 2)
      Square(i) == LimbAt(u, i) ^ 2 * B ^ (2 * i)
      diagonal == MapThenSumSet(Square, 0 .. n - 1)
      len == 2 * n - 2
      twice == 2 * Triangle[n - 1]
      cy == twice \div B ^ len + CarryIn(diagonal, 1, len, twice % B ^ len)
      added == AddIn(diagonal, 1, len, twice % B ^ len)
  IN  IF n = 1 THEN diagonal ELSE Store(added, 2 * n - 1, 1, Wrap(LimbAt(added, 2 * n - 1) + cy))

\* mpn_mullow_basecase: rows as long as all limbs below n need them.
MullowBasecase(x, xn, y, yn, n) ==
  LET After[j \in 1 .. yn] ==
        IF j = 1 THEN x * LimbAt(y, 0)
        ELSE LET i == j - 1
                 len == MinOf(xn, n - i)
                 row == Field(After[i], i, len) + (x % B ^ len) * LimbAt(y, i)
             IN  IF i <= n - xn THEN (After[i] % B ^ i) + row * B ^ i
                 ELSE Store(After[i], i, len, row % B ^ len)
  IN  After[yn] % B ^ n

\* mpn_mullow_n_basecase: the carries of the rows are dropped.
MullowNBasecase(x, y, n) ==
  LET After[j \in 1 .. n] ==
        IF j = 1 THEN (x * LimbAt(y, 0)) % B ^ n
        ELSE AddIn(After[j - 1], j - 1, n - j + 1, (x % B ^ (n - j + 1)) * LimbAt(y, j - 1))
  IN  After[n]

----------------------------------------------------------------------------
(* Karatsuba's products.                                                   *)

\* mpn_karasub: the region has the low product in 2 * n2 limbs and the high one
\* above it; their sum less t is added in the middle.  When n is odd, the highest
\* two limbs of the middle are done last, with what stood there before the carries.
KaraSub(region, t, n) ==
  LET n2 == n \div 2
      mid == 3 * n2
      len == 2 * n2
      high == Field(region, len, len)
      c1 == IF high < t % B ^ len THEN 1 ELSE 0
      difference == (high - t) % B ^ len
      c2 == (difference + (region % B ^ len)) \div B ^ len
      sum == (difference + region) % B ^ len
      c3 == CarryIn(region, n2, len, sum)
      added == AddIn(region, n2, len, sum)
      top == Field(added, 2 * n - 2, 2)
      r1 == added + c3 * B ^ mid
      r2 == r1 + c2 * B ^ mid
      r3 == r2 - c1 * B ^ mid
      two == t \div B ^ len
      r4 == AddIn(r3, mid, 2, -two)
      r5 == AddIn(r4, mid, 2, top)
      r6 == r5 + (CarryIn(r4, mid, 2, top) - CarryIn(r3, mid, 2, -two)) * B ^ (mid + 2)
  IN  IF n % 2 = 0 THEN [p |-> r3, inside |-> \A r \in {r1, r2, r3} : Within(r, 2 * n)]
      ELSE [p |-> r6, inside |-> \A r \in {r1, r2, r3, r6} : Within(r, 2 * n)]

\* mpn_karaadd: t is added to the sum.
KaraAdd(region, t, n) ==
  LET n2 == n \div 2
      n3 == n - n2
      high == region \div B ^ (2 * n2)
      c1 == (high + t) \div B ^ (2 * n3)
      middle == (high + t) % B ^ (2 * n3)
      c2 == CarryIn(middle, 0, 2 * n2, region % B ^ (2 * n2))
      sum == AddIn(middle, 0, 2 * n2, region % B ^ (2 * n2))
      c3 == CarryIn(region, n2, 2 * n3, sum)
      r1 == AddIn(region, n2, 2 * n3, sum) + (c3 + c1) * B ^ (n2 + 2 * n3)
      r2 == r1 + c2 * B ^ (3 * n2)
  IN  [p |-> r2, inside |-> \A r \in {r1, r2} : Within(r, 2 * n)]

\* The products of the halves put together.
Together(low, mid, high, n, Combine(_, _, _)) ==
  LET all == Combine(low.p + high.p * B ^ (2 * (n \div 2)), mid.p, n)
  IN  [p |-> all.p, inside |-> low.inside /\ mid.inside /\ high.inside /\ all.inside]
Whole(p) == [p |-> p, inside |-> TRUE]

\* mpn_kara_mul_n: differences of halves without their signs, which say whether the
\* product of the differences is added.
RECURSIVE KaraMulN(_, _, _)
KaraMulN(x, y, n) ==
  LET n2 == n \div 2
      n3 == n - n2
      Dif(z) == (z \div B ^ n2) - (z % B ^ n2)
      Half(a, b, len) ==
        IF n3 < MulKaratsubaThreshold THEN Whole(MulBasecase(a, len, b, len)) ELSE KaraMulN(a, b, len)
      low == Half(x % B ^ n2, y % B ^ n2, n2)
      mid == Half(Abs(Dif(x)), Abs(Dif(y)), n3)
      high == Half(x \div B ^ n2, y \div B ^ n2, n3)
  IN  IF (Dif(x) >= 0) = (Dif(y) >= 0) THEN Together(low, mid, high, n, KaraSub)
      ELSE Together(low, mid, high, n, KaraAdd)

\* mpn_kara_sqr_n.
RECURSIVE KaraSqrN(_, _)
KaraSqrN(x, n) ==
  LET n2 == n \div 2
      n3 == n - n2
      Half(a, len) ==
        CASE n3 < SqrBasecaseThreshold -> Whole(MulBasecase(a, len, a, len))
          [] n3 >= SqrBasecaseThreshold /\ n3 < SqrKaratsubaThreshold -> Whole(SqrBasecase(a, len))
          [] OTHER -> KaraSqrN(a, len)
  IN  Together(Half(x % B ^ n2, n2), Half(Abs((x \div B ^ n2) - (x % B ^ n2)), n3),
               Half(x \div B ^ n2, n3), n, KaraSub)

\* mpn_mul_n and mpn_sqr, below the thresholds of Toom's products.
MulN(a, b, n) ==
  IF n < MulKaratsubaThreshold THEN Whole(MulBasecase(a, n, b, n)) ELSE KaraMulN(a, b, n)
Sqr(a, n) ==
  CASE n < SqrBasecaseThreshold -> Whole(MulBasecase(a, n, a, n))
    [] n >= SqrBasecaseThreshold /\ n < SqrKaratsubaThreshold -> Whole(SqrBasecase(a, n))
    [] OTHER -> KaraSqrN(a, n)

----------------------------------------------------------------------------
(* mpn_mul: numbers of different lengths, un >= vn.  What it returns is    *)
(* the limb the code finds at the end of what is left of the operands.     *)

\* Blocks of MUL_BASECASE_MAX_UN limbs of u: the high vn limbs of a product are
\* preserved, and added to the next one.
MulBlocks(u, un, v, vn) ==
  LET After[i \in 0 .. (un - 1) \div MulBasecaseMaxUn] ==
        LET at == i * MulBasecaseMaxUn
            len == MinOf(un - at, MulBasecaseMaxUn)
            block == IF len > vn THEN MulBasecase(Part(u, at, at + len), len, v, vn)
                     ELSE MulBasecase(v, vn, Part(u, at, at + len), len)
            before == After[i - 1]
            sum == before.p \div B ^ at + block
        IN  IF i = 0 THEN Whole(block)
            ELSE [p |-> (before.p % B ^ at) + sum * B ^ at,
                  inside |-> before.inside /\ Within(sum, len + vn)]
  IN  After[(un - 1) \div MulBasecaseMaxUn]

\* A product ws of size limbs added at the limb at, above which there are l limbs
\* and a carry t: the limbs ws has in common with those are added, the others stored.
AddProduct(rest, ws, size) ==
  IF rest.l > size
  THEN LET c == CarryIn(rest.p, rest.at, size, ws)
           sum == AddIn(rest.p, rest.at, size, ws)
       IN  [rest EXCEPT !.p = AddIn(sum, rest.at + size, rest.l - size, c),
                        !.t = rest.t + CarryIn(sum, rest.at + size, rest.l - size, c)]
  ELSE LET t == rest.t + CarryIn(rest.p, rest.at, rest.l, ws % B ^ rest.l)
           sum == AddIn(rest.p, rest.at, rest.l, ws % B ^ rest.l)
           above == ws \div B ^ rest.l + t
       IN  IF rest.l = size THEN [rest EXCEPT !.p = sum, !.t = t]
           ELSE [rest EXCEPT !.p = sum + (above % B ^ (size - rest.l)) * B ^ (rest.at + rest.l),
                             !.t = above \div B ^ (size - rest.l), !.l = size]

\* What is left of the longer operand, un limbs of u, times v; the two change
\* places whenever less is left of u than v has.
RECURSIVE MulRest(_, _, _, _, _)
MulRest(rest, u, un, v, vn) ==
  IF un < vn THEN MulRest(rest, v, vn, u, un)
  ELSE IF vn >= MulKaratsubaThreshold
       THEN LET ws == MulN(u % B ^ vn, v, vn)
                sum == AddProduct([rest EXCEPT !.inside = rest.inside /\ ws.inside], ws.p, 2 * vn)
            IN  MulRest([sum EXCEPT !.at = rest.at + vn, !.l = sum.l - vn], u \div B ^ vn, un - vn, v, vn)
       ELSE LET sum == IF vn = 0 THEN rest ELSE AddProduct(rest, MulBasecase(u, un, v, vn), un + vn)
            IN  [p |-> sum.p, inside |-> sum.inside, top |-> LimbAt(sum.p, sum.at + un + vn - 1)]

Mul(u, un, v, vn) ==
  LET square == MulN(u % B ^ vn, v, vn)
      short == MulBlocks(u, un, v, vn)
      Top(product) == [p |-> product.p, inside |-> product.inside, top |-> LimbAt(product.p, un + vn - 1)]
  IN  CASE un = vn -> Top(square)
        [] un > vn /\ vn < MulKaratsubaThreshold -> Top(short)
        [] OTHER -> MulRest([p |-> square.p, inside |-> square.inside, at |-> vn, l |-> vn, t |-> 0],
                            u \div B ^ vn, un - vn, v, vn)

----------------------------------------------------------------------------
(* Low and high halves of products.                                        *)

\* mpn_mullow_n: a square of m by m limbs, and what it leaves out below limb n.
RECURSIVE MullowN(_, _, _)
MullowN(x, y, n) ==
  LET wanted == (n * 87) \div 128
      m == IF 2 * wanted < n THEN n - n \div 2 ELSE wanted
      square == MulN(x % B ^ m, y % B ^ m, m)
      one == MullowN(x % B ^ (n - m), y \div B ^ m, n - m)
      other == MullowN(x \div B ^ m, y % B ^ (n - m), n - m)
      AddLow(r, part) == AddIn(r, m, n - m, part % B ^ (n - m))
  IN  CASE n < MullowBasecaseThreshold -> Whole(MulBasecase(x, n, y, n))
        [] n >= MullowBasecaseThreshold /\ n < MullowDcThreshold -> Whole(MullowNBasecase(x, y, n))
        [] n >= MullowMulThreshold -> MulN(x, y, n)
        [] OTHER -> [p |-> AddLow(AddLow(square.p, one.p), other.p) % B ^ n,
                     inside |-> square.inside /\ one.inside /\ other.inside]

\* mpn_mulshort_n_basecase: the products of limbs that reach limb k = n - 2.
MulshortNBasecase(x, y, n) ==
  LET Row(j) == IF j < n - 1 THEN Part(x, n - 2 - j, n) * LimbAt(y, j) ELSE x * LimbAt(y, j) * B
  IN  MapThenSumSet(Row, 0 .. n - 1)

\* mpn_mulshort_n, from limb n - 2 on: a product of the high m limbs, two short ones
\* beside it and the two products of limbs between; no carry leaves the sums.
RECURSIVE MulshortN(_, _, _)
MulshortN(x, y, n) ==
  LET wanted == (87 * n) \div 128
      enough == IF 2 * wanted < n + 2 THEN (n + 1) \div 2 + 1 ELSE wanted
      m == MinOf(enough, n - 1)
      high == MulN(x \div B ^ (n - m), y \div B ^ (n - m), m)
      one == MulshortN(x % B ^ (n - m), y \div B ^ m, n - m)
      other == MulshortN(x \div B ^ m, y % B ^ (n - m), n - m)
      sum == high.p \div B ^ (2 * m - n - 2) + one.p + other.p
             + LimbAt(x, m - 1) * LimbAt(y, n - m - 1) + LimbAt(x, n - m - 1) * LimbAt(y, m - 1)
  IN  CASE n < MulhighBasecaseThreshold -> Whole(MulBasecase(x, n, y, n) \div B ^ (n - 2))
        [] n >= MulhighBasecaseThreshold /\ n < MulhighDcThreshold -> Whole(MulshortNBasecase(x, y, n))
        [] OTHER -> [p |-> sum, inside |-> high.inside /\ one.inside /\ other.inside /\ Within(sum, n + 2)]

\* Mutant: what is left out is taken to have no effect on the high half.
MulhighNTrusting(x, y, n) ==
  IF n < MulhighBasecaseThreshold THEN MulBasecase(x, n, y, n) \div B ^ n
  ELSE MulshortN(x, y, n).p \div B ^ 2

\* mpn_mulhigh_n: the high n limbs, unless what is left out may reach them.
MulhighN(x, y, n) ==
  LET short == MulshortN(x, y, n).p
  IN  CASE n < MulhighBasecaseThreshold -> MulBasecase(x, n, y, n) \div B ^ n
        [] n >= MulhighMulThreshold -> MulN(x, y, n).p \div B ^ n
        [] OTHER -> IF Wrap(LimbAt(short, 1) + n - 2) < n - 2 THEN MulN(x, y, n).p \div B ^ n
                    ELSE short \div B ^ 2

----------------------------------------------------------------------------
(* Middle products: those products of limbs of a and b which lie in the    *)
(* rn = an - bn + 1 places where every limb of b takes part, in rn + 2     *)
(* limbs.                                                                  *)

MulmidBasecase(u, un, v, vn) ==
  LET Row(j) == Part(u, vn - 1 - j, un - j) * LimbAt(v, j)
  IN  MapThenSumSet(Row, 0 .. vn - 1) % B ^ (un - vn + 3)

\* Two limbs subtracted from those at the limb at, or added, by SUBC_LIMB and
\* ADDC_LIMB: the carry into the high limb e may be lost there.
AddPair(r, at, e) ==
  LET high == Wrap(Hi(e) + CarryIn(r, at, 1, Lo(e)))
      low == AddIn(r, at, 1, Lo(e))
  IN  [r |-> AddIn(low, at + 1, 1, high), cy |-> CarryIn(low, at + 1, 1, high)]
SubPair(r, at, e) ==
  LET high == Wrap(Hi(e) + CarryIn(r, at, 1, -Lo(e)))
      low == AddIn(r, at, 1, -Lo(e))
  IN  [r |-> AddIn(low, at + 1, 1, -high), cy |-> CarryIn(low, at + 1, 1, -high)]

\* mpn_toom42_mulmid: 2 * n - 1 limbs of a, n of b.  Three middle products of half
\* the size, corrected by what the carries of the sums between them would have
\* contributed; then the row and the diagonal which an odd n adds.
RECURSIVE Toom42Mulmid(_, _, _)
Toom42Mulmid(a, b, n) ==
  LET m == n \div 2
      odd == n % 2
      u == a \div B ^ odd
      b0 == b % B ^ m
      b1 == Part(b, m, 2 * m)
      Half(x, y) == IF m < MulmidToom42Threshold THEN MulmidBasecase(x, 2 * m - 1, y, m) ELSE Toom42Mulmid(x, y, m)
      s0 == AddErr(Part(u, 0, m - 1), Part(u, m, 2 * m - 1), <<b1>>, m - 1, 0)
      s1 == AddErr(Part(u, m - 1, 2 * m - 1), Part(u, 2 * m - 1, 3 * m - 1), <<b1, b0>>, m, s0.cy)
      s2 == AddErr(Part(u, 2 * m - 1, 3 * m - 1), Part(u, 3 * m - 1, 4 * m - 1), <<b0>>, m, s1.cy)
      s == s0.r + s1.r * B ^ (m - 1) + s2.r * B ^ (2 * m - 1)
      neg == b1 < b0
      ys == <<Part(u, m - 1, 2 * m - 1), Part(u, 2 * m - 1, 3 * m - 1)>>
      d == IF neg THEN SubErr(b0, b1, ys, m, 0) ELSE SubErr(b1, b0, ys, m, 0)
      p2 == Half(Part(s, m, 3 * m - 1), b0)
      p1 == Half(Part(u, m, 3 * m - 1), d.r)
      p0 == Half(Part(s, 0, 2 * m - 1), b1)
      t0 == LimbAt(p2, 0)
      t1 == LimbAt(p2, 1)
      both == p0 + (p2 \div B ^ 2) * B ^ (m + 2)
      r0 == SubPair(both, 0, s0.e[1])
      r1 == AddIn(r0.r, 2, m - 1, -r0.cy)
      e2 == (s1.e[2] + r0.cy * CarryIn(r0.r, 2, m - 1, -1) * B) % B ^ 2
      r2 == AddIn(r1, m, 2, s1.e[1] + t0)
      r3 == AddIn(r2, m + 1, m + 1, t1)
      r4 == SubPair(r3, m, e2)
      r5 == AddIn(r4.r, m + 2, m, -r4.cy)
      r6 == AddIn(r5, 2 * m, 2, s2.e[1])
      q0 == AddPair(p1, 0, d.e[1])
      q1 == AddIn(q0.r, 2, m, q0.cy)
      q2 == AddIn(q1, m, 2, -d.e[2])
      cy == LimbAt(q2, m + 1) \div HighBit
      sign == IF neg THEN 1 ELSE -1
      r7 == AddIn(r6, m + 2, m, -sign * cy)
      r8 == AddIn(r7, 0, 2 * m + 2, sign * q2)
      even == AddIn(r8, m, m + 2, -sign * q2)
      row == (a % B ^ n) * LimbAt(b, n - 1)
      out == CarryIn(even, 0, n, row % B ^ n) + row \div B ^ n
      rowed == AddIn(even, 0, n, row % B ^ n) % B ^ n
      top == LimbAt(even, n) + out
      diagonal == MulmidBasecase(Part(a, n, 2 * n - 1), n - 1, b % B ^ (n - 1), n - 1)
  IN  IF odd = 0 THEN even ELSE AddIn(rowed + top * B ^ n, n - 1, 3, diagonal)

\* mpn_mulmid_n.
MulmidN(a, b, n) ==
  IF n < MulmidToom42Threshold THEN MulmidBasecase(a, 2 * n - 1, b, n) ELSE Toom42Mulmid(a, b, n)

\* A middle product of len limbs beside the ones before it, of which two limbs lie
\* where it begins: they are saved, and added back.
Beside(before, at, block, len) ==
  LET saved == before.p \div B ^ at
      low == Lo(block) + Lo(saved)
      sum == block - Lo(block) + Wrap(low) + Wrap(Hi(saved) + low \div B) * B
  IN  [p |-> (before.p % B ^ at) + sum * B ^ at, inside |-> before.inside /\ Within(sum, len)]

\* Pieces of k diagonals side by side, the last one of fewer.
Across(Piece(_, _), rn, k) ==
  LET After[i \in 0 .. (rn - 1) \div k] ==
        LET width == MinOf(k, rn - i * k)
        IN  IF i = 0 THEN Whole(Piece(0, width))
            ELSE Beside(After[i - 1], i * k, Piece(i * k, width), width + 2)
  IN  After[(rn - 1) \div k]

\* Pieces of h rows on top of each other, the last one of fewer.
Down(Piece(_, _), bn, h, rn) ==
  LET Row(i) == Piece(i * h, MinOf(h, bn - i * h))
  IN  Whole(MapThenSumSet(Row, 0 .. (bn - 1) \div h) % B ^ (rn + 2))

\* mpn_mulmid: chunks for locality where the shorter side is short, and squares for
\* mpn_toom42_mulmid where it is not.
RECURSIVE Mulmid(_, _, _, _)
Mulmid(a, an, b, bn) ==
  LET rn == an - bn + 1
      Wide(at, width) == Part(a, at, at + width + bn - 1)
      Tall(at, rows) == Part(a, at, at + rn + rows - 1)
      Slice(at, rows) == Part(b, bn - at - rows, bn - at)
      WideBase(at, width) == MulmidBasecase(Wide(at, width), width + bn - 1, b, bn)
      TallBase(at, rows) == MulmidBasecase(Tall(at, rows), rn + rows - 1, Slice(at, rows), rows)
      WideToom(at, width) ==
        IF width = bn THEN Toom42Mulmid(Wide(at, bn), b, bn) ELSE Mulmid(Wide(at, width), width + bn - 1, b, bn).p
      TallToom(at, rows) ==
        IF rows = rn THEN Toom42Mulmid(Tall(at, rn), Slice(at, rn), rn)
        ELSE Mulmid(Tall(at, rows), rn + rows - 1, Slice(at, rows), rows).p
      base == Whole(MulmidBasecase(a, an, b, bn))
      short == MulmidToom42Threshold
  IN  CASE bn < short -> IF an < Chunk THEN base ELSE Across(WideBase, rn, Chunk - bn + 1)
        [] bn >= short /\ rn < short -> IF bn < Chunk THEN base ELSE Down(TallBase, bn, Chunk, rn)
        [] bn >= short /\ rn >= short /\ bn > rn -> Down(TallToom, bn, rn, rn)
        [] OTHER -> Across(WideToom, rn, bn)

----------------------------------------------------------------------------
(* Products modulo 2^b - 1 and 2^b + 1, of numbers of b bits.              *)

LimbsOfBits(b) == (b + LimbBits - 1) \div LimbBits

\* mpn_mulmod_2expm1_basecase: the high b bits added to the low ones, and the carry.
MulmodExpm1Basecase(y, z, b) ==
  LET t == MulN(y, z, LimbsOfBits(b)).p
      sum == (t % 2 ^ b) + (t \div 2 ^ b)
  IN  (sum % 2 ^ b) + (sum \div 2 ^ b)

\* A negative number of n limbs, the borrow added back: its b low bits, and
\* whether it was -1, which is 2^b and has its own bit.
Wound(x, n, b) ==
  LET back == (x % B ^ n) + (IF x < 0 THEN 1 ELSE 0)
  IN  [r |-> back % 2 ^ b, c |-> back \div B ^ n]

\* mpn_mulmod_2expp1_basecase: cy and cz say that y and z are 2^b, not zero.
MulmodExpp1Basecase(y, z, cy, cz, b) ==
  LET n == LimbsOfBits(b)
      t == MulN(y, z, n).p
  IN  CASE cy = 0 /\ cz = 0 -> Wound((t % 2 ^ b) - (t \div 2 ^ b), n, b)
        [] cy = 0 /\ cz # 0 -> Wound(-y, n, b)
        [] cy # 0 /\ cz = 0 -> Wound(-z, n, b)
        [] OTHER -> [r |-> 1, c |-> 0]

\* The residues modulo 2^h - 1 and 2^h + 1 of a number of 2 * h bits; top says that
\* the second one is 2^h.
Residues(x, h, m) ==
  LET exact == h = LimbBits * m
      both == SumdiffN([y |-> x % 2 ^ h, m |-> 0, p |-> x \div 2 ^ h], "m", "p", "y", "p", m)
      carry == IF exact THEN both.ret \div 2 ELSE both.mem.m \div 2 ^ h
      plus == both.mem.p + (IF exact THEN both.ret % 2 ELSE both.ret)
  IN  [minus |-> (both.mem.m + carry) % 2 ^ h, plus |-> (plus % B ^ m) % 2 ^ h, top |-> plus \div B ^ m]

\* mpn_mulmod_2expm1: for an even b, from the residues modulo the two factors.
RECURSIVE MulmodExpm1(_, _, _)
MulmodExpm1(y, z, b) ==
  LET h == b \div 2
      m == LimbsOfBits(h)
      exact == h = LimbBits * m
      ry == Residues(y, h, m)
      rz == Residues(z, h, m)
      s == MulmodExpm1(ry.minus, rz.minus, h)
      d == MulmodExpp1Basecase(ry.plus, rz.plus, ry.top, rz.top, h)
      both == SumdiffN([s |-> s, d |-> d.r], "s", "d", "s", "d", m)
      sum == IF d.c = 0 THEN both.mem.s ELSE s
      difference == IF d.c = 0 THEN both.mem.d % 2 ^ h ELSE s
      c == IF d.c # 0 \/ (~exact /\ sum \div 2 ^ h # 0) THEN 1 ELSE both.ret \div 2
      bor == IF d.c # 0 THEN 1 ELSE both.ret % 2
      low == (sum % 2 ^ h) - bor
      high == difference + c
      out == IF high \div B ^ m # 0 \/ (~exact /\ high \div 2 ^ h # 0) THEN 1 ELSE 0
      whole == IF low < 0 THEN (low % 2 ^ h) + difference * 2 ^ h
               ELSE (IF out # 0 THEN low + 1 - (low % 2) ELSE low) + (high % 2 ^ h) * 2 ^ h
  IN  IF b % 2 = 1 \/ LimbsOfBits(b) < Mulmod2expm1Threshold THEN MulmodExpm1Basecase(y, z, b)
      ELSE whole \div 2 + (whole % 2) * 2 ^ (b - 1)

\* mpn_mulmod_bnm1: modulo B^rn - 1, of numbers of an and bn limbs.
MulmodBnm1(rn, a, an, b, bn) == MulmodExpm1(a, b, rn * LimbBits) % B ^ MinOf(rn, an + bn)

\* mpn_normmod_2expp1: a number of n limbs and a signed one above them.
Normmod(x, n) ==
  LET Fold(y) == (y % B ^ n) - (y \div B ^ n)
      once == Fold(x)
      twice == Fold(once)
  IN  IF x \div B ^ n = 0 THEN x
      ELSE IF once \div B ^ n = 0 THEN once
      ELSE IF twice \div B ^ n = -1 THEN (twice % B ^ n) + 1 ELSE twice

\* mpn_mulmod_Bexpp1: modulo B^n + 1, of numbers up to B^n.
MulmodBexpp1(i1, i2, n) ==
  LET product == MulmodExpp1Basecase(i1, i2, i1 \div B ^ n, i2 \div B ^ n, n * LimbBits)
  IN  IF i2 \div B ^ n # 0 THEN Normmod(-i1, n)
      ELSE IF i1 \div B ^ n # 0 THEN Normmod(-i2, n)
      ELSE product.r + product.c * B ^ n

=============================================================================
