# A verification development for MPIR

MPIR is a C library for arithmetic on numbers of any length. This directory
holds TLA+ models of it, of two kinds. The first are of the parts whose
correctness depends on *order*: which limb is read before which is overwritten,
which thread sees which field of a table, which block of memory has moved when a
pointer to it is used. The second are of the *algorithms*: quotients that are
estimated and corrected, products with carries in the middle, reductions that must
stop in time, whose hazards are limbs that come up once in 2^64. TLC checks the
models on small instances and small limbs; for the central ones of the first kind TLAPS proves
the same properties for every limb base, memory size, number of threads and so on.

Contents: [inventory](#the-system) · [modules](#the-modules) ·
[runs](#what-the-runs-check) · [proofs](#what-is-proved) ·
[disagreements](#disagreements-between-words-and-code) ·
[assumptions and omissions](#what-is-assumed-or-left-out) · [plan](#plan)

To check: `tlc -config CarryLoops.cfg CarryLoops` (module and configuration
of each run are in the table below), `tlapm CarryLoopsProofs.tla`.

## The system

### Components

| Component | State | Operations | What makes it correct |
|---|---|---|---|
| **mpn loops** (`mpn/generic`, macros of `gmp-h.in` and `gmp-impl.h`) | none but the limbs of their operands, a carry and an index | `mpn_add_n`, `mpn_sub_n`, `mpn_mul_1`, `mpn_addmul_1`, `mpn_submul_1`, `mpn_com_n`; copies; `mpn_lshift`, `mpn_rshift`; `mpn_add`, `mpn_sub`, `mpn_add_1`, `mpn_sub_1`, `mpn_neg_n` | exact digits and carry; no limb read after it was overwritten, for every overlap the ASSERTs allow; nothing else written |
| **fat binary** (`mpn/x86_64/fat`, `configure.ac`) | `__gmpn_cpuvec`: function pointers, thresholds, a flag | entry points, init routines, `CPUVEC_THRESHOLD`, `__gmpn_cpuvec_init` | threads that initialise together use only what was chosen for the CPU; every call gets through |
| **temporary memory** (`tal-notreent.c`, `tal-reent.c`, `TMP_*` of `gmp-impl.h`) | a stack of chunks, or lists of blocks | mark, allocate, free | blocks in use are disjoint, aligned and large enough; everything is given back, with its size |
| **mpz** (`mpz/`) | variables: allocated length, signed size, block | arithmetic, shifts, divisions by rounding, bits in two's complement, assignment, reallocation; comparisons and questions | exact integers for every aliasing of arguments; normalised sizes; no leak, no dangling pointer |
| **mpn sums and products** | operands and scratch space | functions of three operands, basecases, Karatsuba, blocks, low, high and middle products, products modulo `2^b - 1` and `2^b + 1` | exact results; no carry past the end |
| **mpn division** | operands, a remainder in place of the dividend | schoolbook, by halves, by a reciprocal, quotients alone, from the low end, remainders by a limb | exact quotients; approximate ones at most one too large; no borrow left |
| **mpn gcd, jacobi** | two numbers and cofactors; a byte of state | Lehmer's method, `mpn_hgcd2`, cofactors, symbols | greatest common divisors; small cofactors; signs |
| **powers and roots** | two buffers that change places; a root and its power | `mpz_n_pow_ui`, `mpz_powm`, `mpz_remove`, square and other roots, perfect powers, Fibonacci numbers | exact values; roots rounded towards zero, with their remainders |
| **mpq** | pairs of mpz | arithmetic, shifts, comparisons | canonical fractions under aliasing |
| **mpf** | limbs, an exponent, a precision | arithmetic, rounding, comparisons | results as accurate as the precision |
| radix conversion | digits, powers of the base | `mpn_get_str`, `mpn_set_str` | round trips |
| random states | generator state, a lazily made global one | seeding, generation | the sequence of the generator |
| input and output, C++ classes, primes | streams, format strings; sieve | printf, scanf, operators, sieving | round trips; primes |
| memory hooks | three function pointers | get, set | sizes handed back are those asked for |
| debugging allocator, tuning, tests, assembly, build projects | | | |

`PROJECT.json` lists each of them with its sources and says which are modelled.

### How they interact

An mpz function reads sizes and pointers of its variables, grows its destination
through the memory hooks (the block may *move*), takes temporary memory for
operands it is about to overwrite, and calls mpn functions, which know nothing
but addresses and lengths. mpq functions are calls of mpz functions on numerators
and denominators; mpf functions call mpn functions on operands they have cut. The mpn
functions call each other down to the loops: a division by halves calls products and
the schoolbook division, a greatest common divisor calls divisions, a root
powers and quotients. In a fat build the mpn call is a jump through
`__gmpn_cpuvec`. There are no locks anywhere; the library promises that threads
may use it on different variables at the same time, so whatever it shares
(the table of the fat binary, the allocation function) must stand concurrent use.

### What is hard

* **Overlap.** Operands may be the result or lie beside it; each function asserts
  which overlaps it accepts, and each loop is right only for those.
* **Aliasing and moving blocks.** Any of a function's variables may be the same;
  a pointer taken before a reallocation may be dead after it.
* **Unsynchronised initialisation.** Threads fill the table at the same time, with
  stores that reach memory late.
* **Histories.** The stack allocator recognises its chunks by addresses that
  the allocation function hands out again, and accounts for bytes across
  nested functions that may skip their `TMP_FREE`.
* **Rare limbs.** Carries that appear for one pair of limbs in 2^64; a quotient
  that needs its second correction; a test of one limb that decides whether the long
  way is taken. Tests with random operands do not meet them; with limbs of
  two bits they are everywhere.
* **Layers of approximation.** Each layer relies on how wrong the one below
  may be (by one, by two, in which direction), and says so in a comment at most.

Every place where one of these bites is a hazard in `PROJECT.json`, with its
line and the properties that cover it, or a note why none does yet.

## The modules

| Module | What it models |
|---|---|
| `Limbs` | a limb, C arithmetic on it, and what one iteration of each carry loop computes |
| `MpnContract` | memory, the overlap predicates, the calls the ASSERTs allow, and what each function promises of its result |
| `MpnCall` | *abstract*: a call completes in one step, keeping the promise |
| `CarryLoops` | one pass with a carry: `mpn_add_n`, `mpn_sub_n`, `mpn_mul_1`, `mpn_addmul_1`, `mpn_submul_1`, `mpn_com_n` |
| `AheadLoops` | loops that hold a limb between its load and its store: `MPN_COPY_INCR`, `MPN_COPY_DECR`, `mpn_lshift`, `mpn_rshift` |
| `PropLoops` | loops that stop when the carry dies out: `__GMPN_AORS`, `__GMPN_AORS_1`, `__GMPN_COPY_REST`, `mpn_neg_n` |
| `FatInit` | the table of the fat binary, threads and their store buffers |
| `TmpStack` | *abstract*: what `TMP_MARK`, `TMP_ALLOC`, `TMP_FREE` promise |
| `TmpArena` | `tal-notreent.c`: chunks on a stack, one thread |
| `TmpReent` | `tal-reent.c` and the alloca build: lists of blocks, several threads |
| `MpzCalc` | *abstract*: variables are integers, a call gives the exact result for the values at the call |
| `MpzHeap` | variables, blocks that move, and the sums, products and truncating divisions on them |
| `MpzDivide`, `MpzShift`, `MpzBitwise`, `MpzMulAdd` | the mpz functions that round down or up or divide exactly; shift and take bits off; work on bits in two's complement; add products in place |
| `MpqCalc` | *abstract*: variables are fractions, a call gives the exact result in canonical form |
| `Mpq` | the mpq functions, assignment by assignment |
| `Words` | numbers as rows of limbs, and the limb operations of `gmp-impl.h` and `longlong.h`, for the algorithms below |
| `MpzQuery` | mpz functions that look at numbers: comparisons, bits, divisibility, congruence |
| `MpnProducts` | functions that add and subtract more than two numbers, under aliasing; products: basecases, Karatsuba, blocks; low, high, middle; modulo `2^b - 1` and `2^b + 1` |
| `MpnDivision`, `MpnQuotient` | quotients and remainders; quotients alone and approximate ones |
| `MpnInverse` | reciprocals by Newton's iteration and the divisions that use them |
| `MpnHensel` | division from the low end, Montgomery's reduction, remainders by one limb |
| `Gcd`, `Jacobi` | `mpn_hgcd2`, Lehmer's greatest common divisors and cofactors; residue symbols |
| `Powers` | powers and powers modulo a number; roots, perfect powers, Fibonacci and Lucas numbers |
| `MpfFloat` | the functions of mpf |
| `MpnFacts` | induction over numbers, lemmas on limbs, calls and numbers, and the theorem that right digits make a right number |
| `CarryLoopsProofs`, `AheadLoopsProofs`, `PropLoopsProofs`, `TmpReentProofs` | lemmas and theorems of these modules |
| `StaticDataProofs` | those of `FatInit` and `TmpArena`, the components whose state is static data |
| `MpzProofs`, `MpzContents` | those of `MCMpz` and the mpz modules it puts together: who has which block and how long it is, lemmas on powers and bits; and, built on these, what the blocks hold |
| `MC...` | instances for TLC: which calls, which operands, and for the algorithms their definitions |

Compositions: `CarryLoops`, `AheadLoops` and `PropLoops` each instantiate
`MpnCall` through a refinement mapping and state `Implements == Abs!Spec`;
`TmpArena` and `TmpReent` do so with `TmpStack`, `MpzHeap` and the modules that extend
it with `MpzCalc`, and `Mpq`, but for one kind of call, with `MpqCalc`.
`MCMpz` puts the mpz modules together: `mpz_fdiv_qr` is a list (`todo`) of calls to
`mpz_tdiv_qr`, `mpz_add` and `mpz_sub_ui`, run by the actions that model those.
The algorithms compose as the code does: `MpnQuotient` extends `MpnDivision`,
`MpnInverse` and `MpnHensel` extend that, `Gcd` uses divisions, `Jacobi` and `Powers` use
`Gcd` and Montgomery's reduction, the roots of `Powers` use quotients. A function
calls what the code calls, not what that computes. Where an mpn function is
taken at its word instead, the section on omissions says so.

### The mpn loops

All operands lie in one memory `mem`, a function from addresses to limbs; a
pointer is an address, so overlap is not an abstraction but simply happens. An
action is one iteration: it reads the limbs of that iteration *as they are by
then* and stores one. `call` holds the arguments, `i` the loop index, `carry`
(`cout`, `held`, `retval`) the local variables. Two history variables are
there for the properties: `entry`, the memory at the call, and the carries so far.

`Invoke` chooses any call `Asserted` admits, from a memory with any contents; so
states in which other numbers lie directly behind the result are included. The
promise of a function is stated by digits
(`MpnContract!Digit`: limb and carry out are the quotient and remainder of the
exact sum or product of limb and carry in), because a digit is what an iteration computes.
It also says that nothing but the result has
changed. `ResultExact` says the same of the result as one equation between whole
numbers (`MpnContract!ExactResult`; `Value` is the number in a row of limbs, each counted with
its `Weight`). TLC evaluates it, and that it follows from the digits is a theorem.

A step of `AheadLoops` is a turn of the loop, with the load and the store in the order of the source.
A copy stores the limb it holds and then loads the next one from the memory the store has left
(`StoreLoad`; `gmp-impl.h:1597`); a shift loads the next one first, for the bits that cross
(`LoadStore`; `rshift.c:55`). The model treats a shift by `cnt` bits as multiplication by `2^cnt`
(`call.v`); `|` of two parts is their sum, which is right because the type
invariant shows that they never share a bit. `PropLoops` includes the loop of
`mpn_add_n` that `mpn_add` calls first and the loop of `mpn_com_n` that
`mpn_neg_n` calls.

### The fat binary

`vec` is the table in memory; field numbers are in the order in which
`CPUVEC_INSTALL` stores them, the flag `initialized` last. A thread's
`pc` follows the code: `test`/`fetch` are the two loads of `CPUVEC_THRESHOLD`, `jump`
the jump through the table, `decide`, `setup`, `install` the steps of
`__gmpn_cpuvec_init`, `run` the function. The setups the CPU selects are the constant
`Setups`, applied in order with the generic one first, as in the cascade of
`fat.c`. Because every thread detects the same CPU, all decide on the same values;
that is what makes the missing lock harmless, and it is visible in the model only as
`Setups` being a constant.

x86_64 executes stores in program order but late: `issued[t]` of a thread's
stores are in program order, the first `drained[t]` of them in memory. `View`
is what the thread loads, its own pending stores first. `Drain` is a step the
hardware takes whenever it likes.

### Temporary memory

`TmpArena` has the variables of `tal-notreent.c` by their names, sizes and
positions in bytes. `heap` stands for the allocation function, external to the
code: it returns any address that is free. `ReturnUnfreed` is the function that
made a mark, allocated nothing and returns without `TMP_FREE`, as `gmp-impl.h`
permits. `TmpReent` frees a list block by block, with other threads running
in between, and lets a block that was given back lose its contents.

### mpz

A block is `[len, known, num]`: its length in limbs, how many low limbs have
been written, and the number in them. Reading more than was written, or reading
a block that is gone, gives `Junk`; writing past the end spoils the block; an mpn
function whose result overlaps its operand in a way it does not accept yields
`Junk`. `Junk` is not an integer, so any path by which it reaches a variable violates
`WellFormed` and `Implements`. The program counter follows the code: growing the
destination (`AorsGrow`, `MulFresh`, ...), copying operands, computing, and setting the
size are separate where the code has something in between that can go wrong.
`Reallocate` leaves the block where it is or moves it to any free address.

`MpzHeap` has what all of them need and the sums, products and truncating
divisions; the modules that extend it add their functions as further values of
the program counter and give a disjunct of `Next` each (`DivideStep`, `ShiftStep`, `BitStep`,
`MulAddStep`). `mpz_and` and its like keep pointers into operands over a
reallocation, and fetch again some of them but not those to temporary copies; the
model keeps such pointers in local variables, as the code does.

`mpz_mul` swaps its operands so that the larger is first; the model does
not, because it chooses between `mpn_mul_1`, basecase and temporary copies
by the size of `v`; both orders of the operands are among the calls.

### mpq

A store maps the program's variables to numerators and denominators. Each mpq
function of `Mpq` is its sequence of assignments to parts of the destination, an
operator from the store it finds to the one it leaves, in which a later
assignment reads what an earlier one has left, whether the destination is an
operand or not. `MpqCalc` gives the fraction in canonical form. The comparisons
decide by limb and bit counts where the code does, and `MpqCalc` by the
products. mpz functions are taken to be exact, as `MpzCalc` has them.

The functions of `md_2exp.c` copy limbs themselves. `Mord2exp` drops the zero limbs of the number shifted
right, and when that number is its own destination and no bits are left to shift, copies what remains
with the loop of `MPN_COPY_DECR` onto the lower place (`CopiedDown`), which loses limbs: see
[below](#disagreements-between-words-and-code). So `Implements` asks of those calls (`OverlappingCopy`) only that
sizes, signs and the other variables are right; of all others, those of them included where one limb is
copied, it asks the exact fraction. With an assembly `mpn_copyd` the limbs lost may be others.

### Algorithms

Here a state is a *task*: the name of a function and its operands. `Init` chooses
any task within the bounds, the only step answers it, and a property is an action property
of that step: the value of the operator that models the function is the one
its definition says. So a run is a comparison of an algorithm with its definition
over all operands of certain lengths, or, for long ones, over all whose limbs are at the edges
(0, 1, half the base, the base less one, and the like), where carries and corrections are.

The operators follow the code: an estimate and its corrections, the passes of a
product, the cases by length and threshold, each in the order of the code. A region
of memory is a number or a row of limbs. Arithmetic on single limbs wraps
(`Words!Wrap`); what is added to or taken from some limbs is done to those, and where
the code relies on a carry dying out in time (`MPN_INCR_U`, an addition with a
length that cannot be right) the operator says whether it does (`sound`,
`inside`), and that is part of the property.

What a function promises is not always the exact result. Approximate quotients are the quotient
or one more, which is what their callers rely on; reciprocals are the largest
that fit; cofactors are those the manual defines, which are unique;
divisions from the low end agree with the dividend in the limbs asked for, and return
the limbs of overflow.

The functions of mpf cut their operands and not the exact result, so how accurate they are is not one
answer, in spite of what the manual says. `Accurate` asks of each function the most that is true of it. Exactly
the value cut, to the precision or a limb more (`IsCut`): assignments, products with a limb,
quotients, `mpf_reldiff`, and sums with a zero. At most the value, by less than a limb of the precision for
a limb added, and two for sums of like signs (`CutBy`); by a relative bound for products and shifts
(`CutByRatio`). On either side, by less than a limb (`Near`), for differences; in `mpf_ui_sub` that is a
limb of the *operands*, however small the difference. A zero has no sign, and an exponent that
makes it a fraction; operands include the zero of exponent -1 that `mpf_ui_sub` leaves.
`WholeExact` has the functions on whole parts as precisely, with what `mpf_ceil` and `mpf_floor` do to
integers too long for their destination.

The numbers of MPIR are cut by thresholds that tuning finds for each processor.
The models have them as constants, with values as small as the algorithms bear, so
that a number of six limbs meets every layer.

## What the runs check

All are exhaustive within the bounds. The "violation" runs are the subject of
[the section on disagreements](#disagreements-between-words-and-code).

| Run | Module | Instance | Properties |
|---|---|---|---|
| `CarryLoops` | `CarryLoops` | base 4, 4 limbs | `ReadsOriginal`, `ResultExact`, `Implements` |
| `AheadLoops` | `AheadLoops` | base 4, 5 limbs | `ReadsOriginal`, `ResultExact`, `Implements` |
| `PropLoops` | `PropLoops` | base 2, 6 limbs | `ReadsOriginal`, `ResultExact`, `Implements` |
| `FatInit` | `MCFatInit` | 2 threads, 2 functions, 1 threshold, 3 setups | `ConsistentUse`, `FlagMeansReady`, `InitRoutineOnce`, `FieldsSettle`, `CallsRun` |
| `TmpArena` | `TmpArena` | 3 addresses, 3 functions deep, 2 blocks each, requests of 1 to 3 bytes, 18 bytes in all | `MarksValid`, `LiveInChunk`, `Accounting`, `AllReturned`, `Implements` |
| `TmpReent` | `TmpReent` | 2 threads, 3 addresses, 2 functions deep, 2 blocks each | `ListsExact`, `NothingLost`, `FreedWithSize`, `Implements` |
| `MpzArithmetic` | `MCMpz` | functions of numbers, with `mpz_and`, `mpz_ior`, `mpz_xor`; 3 variables of up to 2 limbs, base 2 | `WellFormed`, `OwnedOnce`, `PointersLive`, `Implements` |
| `MpzLimb` | `MCMpz` | functions with a limb, a bit count or a bit, and bit operations; 2 variables of up to 3 limbs, base 4 | `Implements` |
| `MpqArithmetic` | `MCMpq` | 2 variables and a third operand, limbs of 2 bits, terms of 1 or 2 limbs and one of 3 | `Implements` |
| `MpqShift` | `MCMpq` | the same | `ShiftsExact` (violation) |
| `Algorithms` | `MCAlgorithms` | 1.66 million tasks: questions, quotients, products, floats, number theory | `QueriesExact`, `QuotientsExact`, `ResiduesExact`, `SumsExact`, `ProductsExact`, `FloatsAccurate`, `FloatIntegersExact`, `GcdExact`, `SymbolsExact`, `PowersExact`, `RootsExact` |
| `FloatManual` | `MCManual` | 31 calls of mpf, 3 limbs of precision | `SomePromiseKept` (violation) |

`Implements` is the refinement of the abstract module named above. The other properties
are stated and explained where they are defined.

### Why the bounds are enough to be interesting

* **Loops.** The hazards are relations between addresses: result equal to, before,
  behind, or beside an operand. Base 4 is the smallest in which products have two
  digits, `mpn_submul_1` borrows more than one, both overflow tests of `mpn_add_n`
  matter and shifts are possible. A shift, which loads one limb ahead, survives an overlap
  by one limb in either direction (a copy does not), so `AheadLoops` needs five limbs: three
  limbs moved by two. Base 4 allows shifts by one bit only; that the two
  counts add up when they differ is left to the proofs, which lift base and size. `PropLoops`
  has two operands of different lengths: its run has six limbs, of one
  bit each, where carries travel furthest. `DigitsExact`, part of the
  inductive invariants, is what `ResultExact` and `Implements` say of an unfinished call.
* **Fat binary.** One threshold and two functions give the three orders of interest:
  a function pointer before another, pointer before threshold, threshold before
  flag. Three setups include a field overridden once, one overridden twice and
  one only the generic setup has. The proof lifts all these numbers.
* **Arena.** 18 bytes are enough for three chunks on top of each other, and three
  addresses for each to be used again; requests of 1 and 3 bytes are rounded,
  and the factor 3/2 rounds as well.
* **Reentrant lists.** Two threads with lists of two blocks and three addresses
  in all: while one thread walks its list the other can get the block just freed.
  Requests of 1 byte are below the alloca limit, of 2 bytes above. The proof lifts all these numbers.
* **mpz.** Three variables make every aliasing pattern of three arguments, and of four
  with two of them distinct. `Init` is not the state after `mpz_init` but *every*
  well-formed state within the bounds, each block exact or roomy. That
  each function takes any such state to another is checked by `WellFormed` and `OwnedOnce`
  at its end, so one call (`MaxCalls`) is enough: a longer run only repeats it. There
  is one address more than variables, so a freed block is the next one
  allocated and a stale pointer shows. `MpzLimb` needs base 4 because in base 2 a
  one-limb number that is not zero is never smaller than the limb added; the bit
  operations need three limbs there, so that a carry or borrow of a complement crosses one
  limb and stops in another.
* **mpq.** Numerators and denominators that share no factor, one, and a power of
  two; with two variables and a third operand every aliasing occurs. The term 16 has three limbs, the
  lower two of them zero: shifted in place by two bits two limbs of it are copied onto itself, by
  three it is shifted on the way.
* **Quotients.** Each run of tasks has the width of limb at which its corrections
  occur and its operands are still few. Two bits make nearly every estimate of a quotient wrong
  once and many twice. Quotients alone, and reciprocals, have three bits also: with two,
  a divisor of many limbs makes an approximate quotient wrong by two, for there the sum of
  the errors of one part of a limb each exceeds the limb, which with 64 bits takes lengths
  no memory holds. Divisions by one limb have four bits; the recursive ones from the low
  end have one, so that the six limbs at which they begin can be enumerated.
* **Products.** Karatsuba from three limbs, its least. Middle and modular
  products have two and three bits. Middle products are taken where the
  sum of the limbs of one operand fits its two high limbs of overflow, as it does
  in the library for every length below 2^64.
* **Floats.** Three limbs of precision: enough for one that is lost, one that is kept
  and a carry between. Exponents are far enough apart for operands that do not meet,
  meet in part, or cover each other. Operands have up to five limbs, one more than a result may have.
* **Number theory.** Four bits are the least for which `mpn_hgcd2` finds matrices
  and does not only give up. Powers are computed with two and four bits, since
  buffers change places with every bit of the exponent; roots also with eight and
  sixteen, where the table of square roots is the library's own. Fibonacci numbers run
  past the table on four-bit limbs and within it on eight.

The mpz, mpq and task runs switch deadlock checking off: after its last call the program
stops, and a division by zero raises an exception, which ends it. In the others the
system never has to stop, and TLC checks that it does not.

### Fairness

Only `FatInit` has a liveness property: `CallsRun`, every call gets to run its
function. It assumes that a thread that can take a step eventually does, and that its
oldest store eventually reaches memory. Both are what the operating system and
the processor provide. No fairness is assumed of callers: nobody has to
make a call. The loops and the other sequential models terminate because their
index moves at every step; liveness would say nothing more about them.

### Mutants

Each property of each passing run has a plausible bug in the code that violates it,
kept beside the definition it changes (comments marked "Mutant") and listed in
`PROJECT.json`: an overlap test off by one, one of two overflow tests missing, the
flag stored first, pointers taken before the reallocation, a link followed after
the free, a correction made once instead of as often as needed, the cofactor of
the wrong operand, and so on. The operators named in mutants are used nowhere else,
except where the mutant is to leave out a case that has an operator of its own.

## What is proved

`tlapm` checks every step; the assumptions are those declared in the modules
(`BaseAssumption`: the base is at least 2; `MemSizeAssumption`; `FatAssumption`:
at least one function, and a generic setup that has a value for every
field, which `ASSERT_CPUVEC` in `fat.c` demands; in `AheadLoops`, that shift factors
divide the base; `ArenaAssumption`: the header is a positive multiple of the alignment, which
`HSIZ` is made to be, and the bounds are numbers; `BaseNotAChunk`: the allocation function does not
return the address of a static variable; `ReentAssumption`: there are finitely many addresses,
none is the null pointer or on the stack of a thread, and the header is a multiple of the alignment;
`HeapAssumption`: a limb has a bit or more, there is an address for every variable, and the names of
temporaries, of their addresses and of what is not a number are none of the others).

**`CarryLoops`, `AheadLoops`, `PropLoops`** — theorems `Invariance`, `TypeCorrect`,
`ReadsOriginalHolds`, `FrameHolds`, `DigitsExactHolds`, `ResultExactHolds`, `Refinement` in
`CarryLoopsProofs`, `AheadLoopsProofs` and `PropLoopsProofs`: for every base and memory size,
hence for every length and every legal overlap of operands, the types,
that every limb read is the caller's, that nothing but the result is written, that its
digits are right, that the result is the exact sum, difference, product, shift,
complement or negative as a whole number, and that the loops implement `MpnCall`.

The invariants are not inductive one by one. That the limb stored is the
right digit needs `ReadsOriginal` (the limbs read are the caller's) and that
the carry in hand is the one the previous digit produced; `ReadsOriginal` needs the
precondition, that a limb below `i` of the result is never a limb at or above `i` of
an operand. So `IInv` is their conjunction with `TypeOK` and with `LoopState`, which links
index, carry and history. The proof has one lemma for the arithmetic of each
operation (`MpnFacts`: one iteration yields quotient and remainder, and the carry
fits its limb), one about addresses (`StoreIsSafe`: storing limb `i` disturbs
no limb still to be read, from the asserted overlap), and one about an iteration in
general (`LoopStep`), which the actions of the six functions instantiate.
In `AheadLoops` the two orders of load and store are first shown to do the same to a legal call
(`LoadStoreTurn`, `StoreLoadTurn`). For a copy that is where the overlap decides, as the next limb is
loaded from the memory just stored to: `StoreFacts`, by the asserted direction, says that the store was
not to a limb still to be loaded. `TurnInv` is then about either.
`Refinement` follows: iterations are stutters, the last one completes the
call, and `IInv` in its final state is the promise, with the history of carries
as witness for the chain.

`PropLoops` needs more history: its loops stop where the carry does. `LoopState` there says
that the chain beyond the digits computed is the one a call starts with, so that the limbs the
loop leaves to the copy, or in place, are digits with no carry in or out (`RestDigit`);
for `mpn_neg_n`, whose borrow is the missing carry of an addition of 1 to the complement, "no
carry" is a borrow through every limb that is left. `StoreInv` is the
one lemma for a digit stored, `PlusInv` the one for a digit that takes a single carry.

**Digits make numbers** — theorem `PromiseExact` in `MpnFacts`: whatever chain of carries a
promise goes through, the whole numbers satisfy the equation of the operation. `Combination`
does it once for all thirteen operations: a relation `a u + b v + d r + e q = B hi - lo` between the
digits of the four numbers of a call becomes one between the numbers, because the carries cancel
(`Telescope`); an operation is a choice of `a`, `b`, `d`, `e`. It is an induction over the length,
done with sets instead of predicates: a set of numbers has a least element (`LeastElement`, from
`WFMin` of the library), so a set that holds 0 and with every number its successor holds all
(`SetInduction`), and a recursive definition on `0 .. n` denotes what its equations say (`Recursion`).

**`FatInit`** — theorems `FatInvariance`, `FatTypeCorrect`, `ConsistentUseHolds`,
`FlagMeansReadyHolds`, `InitRoutineOnceHolds`, `FieldsSettleHolds` in `StaticDataProofs`:
for any number of threads, functions, thresholds and setups. `FatInv` has two
parts. `TableState`: a field is unset or holds what is chosen; whatever a thread has
drained is in memory; a visible flag means that all is. `ThreadState`, of one thread:
between `setup` and `install` its private table is what the first `applied` setups make of
it; it has issued all its stores or none except while installing; when it
fetches a threshold it sees the flag. `TableState` is what the other threads
rely on, so the step of one thread disturbs the `ThreadState` of another only
through `vec`, and that only towards the chosen values (lemma on `View`).

**`TmpArena`** — theorems `Invariance`, `TypeCorrect`, `MarksValidHolds`, `LiveInChunkHolds`,
`AccountingHolds`, `AllReturnedHolds`, `Refinement` in `StaticDataProofs`: for every set of
addresses, alignment, header (a multiple of the alignment), size of requests and depth
of calls. None of the invariants is inductive alone: that a block stays below the top needs
the order of *all* positions, marks and blocks, in the stack, and the order survives
`TMP_FREE` only because a mark is a place a block could start at (`IsPlace`: aligned,
behind the header, not past the end) and because addresses on the stack differ; they do because
exactly the chunks on the stack are allocated (`Accounting`). So `IInv` is the conjunction of
the properties with `StackState`, `MarkState` and `BlockState`. `MarkState` also says that the
first mark is the bottom, whence `AllReturned`, and that a function without blocks left
the top where its mark is, which is what makes it right to leave `TMP_FREE` out.
The argument is one for all actions: the lowest `j` chunks stay (`Agree`), so positions in
them keep their meaning (`Carried`), the marks that remain are where they were
(`MarksCarried`), and the blocks too (`Preserved`); an action has only to say what it does at the
top. The total is a sum over the stack, for which four lemmas by induction
(`BytesUnique` to `BytesSplit`) say what a chunk more or less does to it. `Refinement`
is `OwnBytes`: in the top chunk a new block lies above all others, and a new chunk is none of theirs.

**`TmpReent`** — theorems `Invariance`, `TypeCorrect`, `ListsExactHolds`, `NothingLostHolds`,
`FreedWithSizeHolds`, `Refinement` in `TmpReentProofs`: for any number of threads, addresses,
requests and calls, with a small limit for alloca or none. `ListsExact` speaks of what is reached
through the links, which says nothing of the order, nor that the list ends; but `TMP_FREE` takes one
block off, and what is left must be reached from the next. So `ListState` says that
what a function has still to free `IsList`: its blocks can be numbered from the last, each linked to the
one numbered before. One block more or less at the head is then one number more or less
(`ListPush`, `ListPop`), a list of which no header changes stays one (`ListKept`), and what a
numbering counts is what the links reach, there being no more blocks than addresses
(`ReachedIsList`). A header changes while other threads hold lists; theirs stay because the address
is not among them, being free before or being on this list and, by `NothingLost`, on no other
(`LinksOfOthers`). That is `Preserved`, the one argument for all actions: what the last
function of one thread has changes, nothing else does. `StackState` is the order of blocks and
saved stack pointers, for `Refinement` (`OwnBytes`: blocks with one byte in common are the same
block of one function).

**mpz** — theorems `Invariance` and `OwnedOnceHolds` in `MpzProofs`: for any set of variables, any
numbers, sizes and limbs, and for every step of `MpzHeap`, `MpzDivide`, `MpzShift`, `MpzBitwise` and
`MpzMulAdd`: no two variables share a block, a block that no variable has is freed by the call that
runs, and between calls there is none. `OwnedOnce` alone is not inductive. It says who might free
a block, and that is not enough to show that it does, nor that a new block or a copy is not put
where one already is: a pointer among the locals may be to a variable's block or to a copy,
and a copy is freed by those functions only that make copies. So `IInv` has four parts. `Typing`: fields,
locals and the calls to make are numbers and pointers. `Control`: when there are locals, calls to
make and a temporary divisor. `Tasks`: which calls may be to make, and which of them may name the temporary
divisor; as a remainder it is as long as the divisor, and so never grows, for it is not on the heap.
`Ownership`: every variable has its block, different ones different blocks, every other block `Freed` by
whom it belongs to, and the block `mpz_mul` is to free is no variable's. TLC checked `IInv` on both
configurations of `MCMpz` before. The proof has a lemma for each way a step can
treat blocks: nothing moves (`Settled`), one block moves (`Grow`), copies are made, copies are freed,
a call is replaced by those it makes (`CallTwo`); an action has only to show which it is.

**mpz, bounds** — at every call of an mpn function the operands and results are
blocks that are still there and as long as what is read and written. By then a function may have
grown its destination, copied its operands, or read pointers that a later `MPZ_REALLOC` may
have made stale, so the invariant has to say what is true at each point on the way:
`Bounds`, which is inductive with `IInv`. `Sizes`: every variable's `alloc` is its block's length and
its size fits in it, and so for a temporary divisor. `Dividing`: while a division still makes room for its quotient or
copies operands, its locals are the operands' sizes and the remainder has its room.
`Copied2`: when a bit operation asks for room, its copies are as long as what they copy, and what
it did not copy is still its argument. `Computing`: what the sizes of the results rely on. And
`PointersLive` itself, of the moment of the call. Every action `A` has a lemma
`AStep` for `IInv` and `ABounds` for `Bounds`. Assumed of the constants is only that the
initial blocks can hold their numbers (`MaxSize <= MaxAlloc`, `MaxAlloc >= 1`).
One fact these lemmas take as a hypothesis, `IorFits`: `mpz_ior` of negative operands adds one to its
result without asking for a limb more. That the carry dies inside depends on what is in the
limbs, so the bounds hold of every behaviour only together with the contents.

**mpz, contents** — theorems `GoodHolds`, `IorFitsAlways`, `BoundsHold`, `PointersLiveHolds` and
`WellFormedHolds` in `MpzContents`. `Good` is `IInv`, `Bounds` and `Contents` of `MCMpz` (TLC checked it on
both configurations before it was proved). `Contents` has five parts. `BlocksOK`: what has been written of a block is a number
of that many limbs. `NumbersOK`: each variable has a number with exactly as many limbs as its size says
(`Exactly`: not more, and the top one not zero), except where `mpz_mul` has taken a new block for it.
`TasksOK`: the arguments of the calls still to make are limbs, and a call with two results has two
destinations. `LocalsOK`: what each kind of function knows when it computes: a division has the numbers of
its operands, or copies of them that are the same, apart from its results (`DivisionNoted`); a bit operation
has each operand, or if negative a copy of it less one (`BitsNoted`); a product, a sum and the
functions of one operand have them where the variables are, or in the block that is to be freed (`ProductNoted`, `SumNoted`,
`OneNoted`). `CountsOK`: the value returned is a limb.

The lemma `AContents` of an action `A` says that it keeps `Contents` from a `Good` state. Steps that change no number are one
lemma (`CarriesContents`), those that end a call with a result another (`GivesContents`), and an action has to
show what its result is and how many limbs it has. For sums and products that is arithmetic of powers of the base. The powers
are the function `Two` of `MpzHeap`, defined by recursion, because no prover knows anything of `^`; `TwoFacts` and
`BaseFacts` are all that is used of them. For bit operations it is the theorems on integers of either sign `BitSums` and `BothLaws`, by
induction on how far the operands are from 0 and -1: the bits of either are the sum less the bits of both, and complements
change one into the other. From these `IorFitsHolds`: for negative operands the code combines `|x| - 1` and `|y| - 1`,
and one more than what they have in common is at most either magnitude; where only one is negative the same is true of
what the negative one has and the other not. So the result of `mpz_ior` has no more limbs than a negative operand of it.

`WellFormed` also says that no mpn function is given limbs that nobody wrote. The operands of each are noted by
`LocalsOK`; `Entered`, an invariant on its own, says that a function that computes is one of those that `LocalsOK`
speaks of, or has only one operand.

Assumed of the constants, beyond the above, is only that the program calls functions there are (`FnsAssumption`).

**Only model-checked**: of the mpz modules, that values are exact (`Implements`); `Mpq`; all the
algorithms, which are recursive operators and bit operations, out of the provers' reach; and the liveness
property `CallsRun` (liveness under fairness is not among what the prover supports).

## Disagreements between words and code

Shown by `MpqShift`:

* **`mpq_mul_2exp` and `mpq_div_2exp` in place give a wrong number** (`mpq/md_2exp.c:58`). They shift one
  part to the right by dropping zero limbs and copying the others down. In place the copy goes to a lower,
  overlapping address, and `MPN_COPY_DECR` starts at the top ("need DECR when src==dst", says the comment;
  it is `MPN_COPY_INCR` that is needed). Of a denominator `{0, a, b}` remains `{b, b}`: in the run -3/16
  times 4 is -3/5. In a build with assertions that of `MPN_COPY_DECR` fails.

Shown by `FloatManual`, whose counterexample is a sequence of calls that break one of eight promises
each (numbers in base 4, three limbs of precision):

* **"Infinite precision followed by a truncation"** (`doc/mpir.texi:4402`) is not what `mpf_add`,
  `mpf_add_ui`, `mpf_sub` and `mpf_mul` do. They cut the operands: 3333 + 1 is 3330, and 3333
  if the 1 is a limb; 1 - .00001 is 1, above the exact value; .2010 times .1333
  loses the carry that makes the product longer. The property only asks that the highest limb is that of
  the exact result. Errors stay within the bounds of `Accurate`.
* **`mpf_ui_sub` loses all precision** (`mpf/ui_sub.c:97`). Of operands
  that nearly cancel it skips only leading limbs that are equal; a one
  and limbs of zeros less limbs of all ones have none, and are then cut although
  their whole difference is in what is cut. `mpf/sub.c` skips such limbs. 1 - .33333 is .01, with
  an error larger than the difference.
* **A zero whose exponent is not zero** (`mpf/ui_sub.c:327`). The manual (`doc/mpir.texi:9794`) has both
  fields zero, and `mpf/get_si.c:58` counts on it. 1 less {0, 1} leaves the exponent -1. No function
  modelled is misled by it: they look at the size first, or for an exponent above zero.
* **`mpf_fits_ulong_p` and its like refuse every negative number** (`mpf/fits_u.h:38`), also one that
  truncates to zero, against `doc/mpir.texi:4921` and the comment at `fits_u.h:26`.
* **`mpf_ceil` and `mpf_floor` are not `mpf_set` of an integer** (`mpf/ceilfloor.c:86`), as the comment at
  line 28 has it, if it is longer than the destination: what does not fit counts as
  part of the fraction, and 10001 becomes 10010.

These were read while modelling; they do no harm, or are not within the models' reach:

* `fat_entry.asm:91` says that only one of the init routines is executed, and only
  once. Two threads that make their first calls together each execute one.
  It does no harm (`ConsistentUse`, `FieldsSettle`), and `fat.c:82` expects it. What is
  true of one thread is `InitRoutineOnce`.
* `gmp-impl.h:443` says that `TMP_ALLOC(0)` is not allowed. `mpz_fdiv_qr` and
  `mpz_cdiv_qr` with a divisor of zero that is also a result copy the
  divisor before they find it is zero; only a build with assertions notices.
* `mpz_combit` gives `mpn_sub_1` more limbs than the number has; the borrow ends inside it.
* `dc_bdiv_q.c:90` subtracts a borrow from `qn` limbs where `qn - dn` are left; if the rest of the
  dividend is zero, the borrow runs past its end.
* `mulhigh_n.c:199` asserts `n >= 4` where the lengths below need more, which the
  threshold guarantees.
* The last block of `inv_divappr_q.c:176`, and a quotient of one limb fewer than the
  divisor, take a limb from below the dividend. The models give it extreme values
  (`stray`), and the result is right with each.
* `mpz_rootrem` whose root is NULL leaves the remainder where it was computed if it is
  also the operand.
* `mpn_pow_1` finds the buffer of its result by the parity of the bits of a limb, and so
  is right for an even `GMP_LIMB_BITS` only, which all are.

## What is assumed or left out

* *Loops.* Builds without nails (`GMP_NAIL_BITS` is 0, as in every supported
  configuration). Assembly versions of the same functions are not modelled: they
  share the contract, not the loop. A loop's `restrict`-free C is executed as written:
  one load or store at a time, in order.
* *Fat binary.* The two loads of `CPUVEC_THRESHOLD` are taken in program
  order. The code does not force it (neither is volatile), x86_64 hardware does not
  reorder loads, a compiler might. `cpuid` itself is a constant. A thread's
  stores to `decided_cpuvec` are its own business, being on its stack.
* *Temporary memory.* Allocation never fails (the library aborts the
  program when it does). Sizes do not overflow. In `TmpReent` every node of the
  heap is as large as asked for, and alloca never exhausts the stack.
* *mpz, mpq.* The mpn functions are taken to compute what they promise where the overlap
  is one they accept, and nothing useful elsewhere; what they compute is the
  subject of the modules on algorithms. Builds without `mpn_mul_2`; an `unsigned
  long` no longer than a limb. Sizes stay far below the overflow of `int`.
* *Algorithms.* Operands do not overlap, except where the functions choose by it (`MpnSums`), and
  scratch space is as long as it has to be; the block sizes that are rounded by macros
  (`MPN_FIB2_SIZE`, the sizes of the Newton steps of a root) are not modelled.
  Builds with nails, with `mpn_addmul_2` or with other limbs are not. In the roots of `Powers` the quotient
  `mpn_tdiv_q` is taken as exact; `MpnQuotient` is where that is checked.
* *mpf.* Comparisons and sums as for numbers whose exponents do not overflow; the
  variant that reduces exponents to fit a limb exactly (`REDUCE_EXPONENT`) is off, as
  in the source.

*Not modelled*, with the reason for each in `PROJECT.json`:

* Toom-3, 4 and 8 and the Fourier products, and the recursive half gcd: they start at operands
  longer than TLC's integers even on small limbs, and their divisions by 3, 15, 255 need
  limbs in which those are small. `mpn_mod_34lsub1` needs limbs of twelve bits, and so do
  the residue tests of `mpz_perfect_square_p`.
* Radix conversion, formatted input and output and the C++ classes: text.
* Random states, primality, factorials and binomial coefficients.
* Assembly, `tune/`, `yasm/`, the tests and the build projects: per processor,
  vendored or not the library's own logic. They are most of the lines of the repository.

## Plan

Done: the loops and their contract, with proofs; the only code of the library that
threads share, with proofs; temporary memory; the mpz functions that compute; mpq; the
questions of mpz; mpn sums, products, quotients and divisors; powers and roots; mpf. To
come, in this order:

1. Proofs: that the mpz functions implement `MpzCalc`. `Gives` in `MpzContents` already says of most actions which
   number they leave; what is missing is that it is the one `MpzCalc` defines, call by call.
2. Radix conversion by halves (`mpn_get_str`, `mpn_set_str`) on small limbs and bases.
3. The pointwise and the recombining parts of Toom-3, taken apart so that each fits.
4. A variant of `FatInit` in which a compiler exchanges the two loads of
   `CPUVEC_THRESHOLD`, expected to violate `ConsistentUse`.
5. The sieve, factorials and binomial coefficients, the pushback of `scanf/doscan.c`.
