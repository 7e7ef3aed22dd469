# TLA+ models of DBC_snark

DBC_snark computes scalar multiplications on elliptic curves by *double-base
chains*: a scalar n is written as a sum of terms ±2^a 3^b whose exponents never
increase, and n·G is evaluated with doublings, triplings and additions. The
repository holds a CPU version (`DBCTest/`, on a vendored OpenSSL extended by a
point tripling), a GPU version and a range-proof prover (`gpuec/`), and timing
scripts. This directory models the parts whose correctness is not obvious from
the code, checks them with TLC and proves the central ones with TLAPS.

## The system

| component | state it keeps | operations | what makes it correct |
|---|---|---|---|
| chain store (`variables.cpp`) | `DBC_store[2][MAX_2][3]`, `DBC_len[2]`, tables of powers; all global | written by generators, read by evaluations | a reader gets the slot and length the last generator meant |
| chain evaluation (`functions.h` `DBC_POINT_mul`) | accumulator point, current exponents, index of the next term | `EC_POINT_add/dbl/tpl` | result is n·a for every sound chain, at the cost `compute_TTV` charges |
| point arithmetic (`ecp_smpl.c`, own `EC_POINT_tpl`) | coordinates and the flag `Z_is_one` | add, dbl, tpl, invert, copy | the flag never lies about Z |
| greedy generators (`EOS_DBC.cpp`, `subOptimal_DBC.cpp`) | two slots, slot in work, bounds, remainder, sign | one call: several descents, compare | returns the cheapest chain built, and it is a chain of n |
| optimal generator (`optimal_DBC.cpp`, `DBC.h`) | tables `w`, `w_` of linked nodes, `bBound`, `now_DBC`, `w_min` (global, never cleared) | one call: fill the tables in blocks, unpack the best chain | returns a chain of n and none is cheaper |
| fixed-width integers (`myBigInt.h`, `gpuec/uint288.cu`) | limbs | subtraction, comparison, ×2, ×3, ÷3^18, residues | equal to integer arithmetic |
| reference multiplications (`functions.h`) | two points, scalar | binary, NAF | same result as `EC_POINT_mul` |
| harness (`DBC.cpp`, `MSMTest.cpp`) | result arrays r1..r6 | every generator with the evaluation, compared with OpenSSL | counts every difference |
| earlier evaluation (`optimal_DBC2.cpp`) | as the chain evaluation | the same from the smallest term | result is n·a |
| GPU points and chains (`gpuec256.cu`, `gpuec/DBC.cu`) | thread-local points, one chain per thread | `run_DBC_v2`, `get_DBC`, `getDBC`, multiplications by a scalar | as on the CPU; the addition meets no case its formula lacks |
| GPU sums (`DBCTest.cu`, `curveTest.cu`) | an array in global memory | `accumulate_sum`, a kernel with barriers | no round reads what another thread has yet to write |
| range proof (`rp.cu`, verified by `cuverify.cu`) | parameters, random numbers, vectors and the proof, in device memory, some plain and some in Montgomery form | a fixed sequence of kernels, each reducing vectors in shared memory | every proof passes the verifier's equations, whatever the order of the threads |

On the CPU everything runs in one thread; components interact by calls and
through the global store. What is hard there is state left over from earlier
calls (the store, the tables of the optimal generator, the flag of a point),
index arithmetic at block edges, and loops that end only for a numerical
reason. On the GPU what is hard is the order of threads between barriers, and
numbers and points handed from kernel to kernel in a form, or at an address,
that only a convention fixes.
`PROJECT.json` lists the hazards with their lines.

## Modules

| module | models |
|---|---|
| `Terms`, `DoubleBase` | the data: powers and terms; the store, the value and cost of a chain |
| `ECPoint` | points as multiples of one base point, with Z ("zero", "one", "other") and `Z_is_one`; `Add`, `Dbl`, `Tpl`, `Invert` |
| `ECClient` | an application that calls the point functions in any order and with any aliasing |
| `ScalarMul` | the abstract multiplication: a call with n returns n |
| `ChainMul` | `DBC_POINT_mul`, one step per point operation |
| `GreedyChain` | `getEOSDBC`, `getSubOptimalDBC` and the GPU's `get_DBC` and `DBCv2::getDBC`, one step per exponent skipped, term taken, chain compared |
| `OptimalChain` | `getOptimalDBC`, one step per cell of the tables |
| `MyBigInt` | the limb loops of `myBigInt.h` and `uint288.cu`, one step per limb |
| `ReferenceMul` | `binary_POINT_mul`, `int_to_naf`, `NAF_POINT_mul`, the two multiplications of `gpuec256.cu` and the evaluation of `optimal_DBC2.cpp`, one step per round |
| `Harness` | `main` of `DBC.cpp`: composes `GreedyChain`, `ChainMul` and `ReferenceMul` over one store |
| `GpuEval` | `run_DBC_v2`, with points as the three coordinates it copies |
| `ThreadBlock` | a block of threads in warps over a shared array: loads, stores, barriers |
| `BlockKernels` | the kernels that reduce an array, as programs of `ThreadBlock` |
| `RangeProof` | `main` of `rp.cu` and of `cuverify.cu`, one step per kernel |
| `MC...` | values of the constants for TLC |
| `ArithmeticProofs` | lemmas on recursion, division, powers, sums and double-base chains below a bound |
| `ChainMulProofs`, `GreedyChainProofs`, `OptimalChainProofs`, `ReferenceMulProofs`, `MyBigIntProofs`, `BlockKernelsProofs`, `HarnessProofs` | the theorems on the module of that name |

**Points.** All points are multiples of G, so `k` stands for the coordinates; k
is not reduced, so that a model can also say *which* multiple was computed.
`Add` and `Dbl` read the flag, `Tpl` reads the real Z and leaves the flag of its
result alone, as in `ecp_smpl.c`. An operation on a point whose flag is wrong
yields Z = "wrong", coordinates of no known multiple. The formulas themselves
(field arithmetic) are taken to be right when their inputs are. A Z that
happens to be 1 after a general formula is "other".

**ChainMul.** `Setup` is lines 88-97 (r := a + a − a), `Double` and `Triple` the
branches of the inner loop and of the tail loops (the target of the tail is 0),
`AddTerm` lines 117-124, `Return` the end. The sign of the first row is never
read, as in the code. The constant `Jobs` holds the chains handed over, with the
assumption `SoundChain` (leading sign +1, exponents never increasing, no proper
prefix a multiple of the order): what the generators have to guarantee.

**GreedyChain.** The remainder is an exact integer. In the code it is a `myBigInt`,
whose `operator-` is wrong on certain limbs of all ones (`SubtractionWrongOnOnes`), so
what is said of a scalar here, in `Harness` and in the proofs about either, is
said of one on whose descent that does not occur. The doubles `B1`, `B2`, `LBound`,
`RBound`, `k_j` are replaced by exact integer conditions (`UpToB1(p)` says 2^k 3^b ≤ 9n/(7√2), squared); no power
of two and three lies on either bound, the factors being irrational. Rounding of
doubles at scalars above 2^53 is therefore not modelled. The functions differ in
`job.b_try`, `job.window`, `job.dbc_coef` and `job.price` only; the two of the GPU
do not test for negative bounds, and their jobs have none. `tried` is a history
variable with the costs of the chains of the current call.

**OptimalChain.** A pointer is a pair of table and indices; the tables, `bBound`,
`now_DBC` and slot 0 of the store survive from call to call, as globals do. The
block size 32 x 18 is a pair of constants. `quot` is computed from the
word-sized residue `n0` as in the code, and compared with the exact value by
`SixthExact`; 6n itself, its quotients and the costs are exact integers. n = 0 (undefined behaviour in `operator=`) is left out. `Rivals` are
double-base chains built without the dynamic program, as a reference for `Optimal`.

**MyBigInt.** Numbers are arrays of `INTS` limbs modulo `Radix`; both loops of
`operator-`, the comparison, ×2, ×3, the long division of `div_3_18` and the
residue `mod_2_33_3_19` each run limb by limb, with the wrap-around of 32 bits
where the code has it. `"gpu -"` is the subtraction of `uint288.cu`, the other
operations being the same there, unrolled.

**ReferenceMul.** `Bit` is a round of the loop of `binary_POINT_mul`, `Digit` of
`int_to_naf`, `EvalDigit` of `NAF_POINT_mul`, `BitDown` of
`dh_point_mult_finalversion`, `BitUp` of `d_base_point_mul`; `DoubleUp`,
`TripleUp` and `AddTermUp` are the branches of the earlier evaluation. The scalar
is an exact integer, as the BIGNUM is; on the GPU it has `BITS` bits. An addition
of the GPU on equal, opposite or infinite points yields garbage.

**GpuEval.** The copies of `run_DBC_v2` move coordinates one by one, so a
coordinate is an axis and the multiple it was computed for. The formulas give a
point only on a point; on anything else the result is `Indeterminate`.

**ThreadBlock.** A kernel is straight-line code: a sequence of phases, each with
one assignment per thread on cells of the shared array and a flag for
`__syncthreads()`. The threads of a warp load together and store together;
between two barriers the loads and stores of different warps interleave in any
order. `readers` and `writers` say which warps have touched a cell since the last
barrier, and `raced` remembers a conflict. A warp of one thread stands for a
device that schedules threads independently. Curve points and field elements are
integers, since the kernels only add them; the operands are powers of 3, so that
a sum shows which of them it holds, and how often.

**BlockKernels.** The phases follow the statements of the kernels; what a thread
computes from values of its own is one operand. `T` is the number of threads, 32
or 64 in the code.

**RangeProof.** A step is a host function or a kernel, in the order of the two
`main`s. Scalars are integers modulo the order N, in the form (plain or
Montgomery) the code has them in; `MonMult`, `ModExp` and the two phases of the
inversion are computed as in the code, with the carry lost at the width W. A
point is the function from generators to exponents; `At` is the point at an
offset in the struct of parameters, where Hh follows Gg. A hash is any digest,
the same for equal points. Multiplying by 0 and inverting 0 lead to
"undefined", where nothing is claimed. A kernel of one warp is one step, its threads
in step. `kernel_cal_S` has two warps and no barrier in its rounds, and thread 0 adds
`tp[32]`, what the second warp has summed so far, in its last: so the step chooses
what it finds there, a sum of 1, 2, 4 ... or all of the terms, or the coordinates of
two such sums ("torn"). That these are the cases is the property `LowerPlusPrefix` of
`BlockKernels` (which moves points as a whole). `late` is a history variable that
says whether it was too early.

**Harness.** The variables of the three instances stand side by side;
`DBC_store` and `DBC_len` are shared by the greedy generators, by `getOptimalDBC`
(an action that leaves a cheapest chain in slot 0, its contract) and by the
evaluation. `Methods` lists what `main` runs through, with the array each method
writes; `phase` follows one loop round. An evaluation of a slot of length 2^20
ends in phase "undefined". `spent` is a history variable with the cost of the
operations performed.

## Runs

| run | checks | bounds |
|---|---|---|
| `chain_mul` | type, Horner invariant, alignment, flags, cost, refinement of `ScalarMul`, termination | every sound chain of ≤ 3 terms with exponents ≤ 2; order 11. Three terms give a first, a middle and a last one; the order is small enough that multiples of it occur |
| `greedy_chain` | type, descent, length, cheapest slot, chain of n, positive prefixes, a chain found among five consecutive exponents, no additions `run_DBC_v2` cannot do but of equal last rows, termination | n in 0..60 and some larger ones, exponents of 3 ≤ 6, the lists, windows, limits and prices of CPU and GPU; three later jobs on the left-overs of each first one. 0..60 has the scalars without a chain, the ones with one and with several descents |
| `optimal_chain` | type, contents of the tables, chain of n, residues at block edges, optimality, termination | n in 1..40 on fresh tables and three scalars on left-over ones; blocks of 2 x 2, so that calls span up to 4 x 3 blocks |
| `big_int` | every operation against integer arithmetic; for the subtractions and ×3 the exact set of inputs on which they are wrong | all numbers and pairs of numbers of four limbs of two bits: two middle limbs, so that borrows and carries pass one and stop at the other; divisor 3, modulus 6, as 3^18 and 2·3^19 not dividing the radix |
| `reference_mul` | loop invariants of the six loops, sparse digits, refinement of `ScalarMul` | n in 0..200, order 61, 6 bits on the GPU: scalars above the order on the CPU, every scalar below it on the GPU; chains of ≤ 3 terms with exponents ≤ 2 |
| `harness` | sound chains reach the evaluation, no error counted, reported cost, termination | all pairs of five scalars that have chains in every list used; six methods, of the five limits of `getSubOptimalDBC` two; order 127, above every prefix |
| `block_kernels` | determinism of race-free kernels, the sums of all but the `accumulate_sum` of `DBCTest.cu`, which kernels race, what the race of `kernel_cal_S` on two warps can leave; no deadlock at a barrier | every kernel on 4 threads in one and in two warps; the shorter ones also with a warp per thread, and those launched over several warps on 8 threads in two. Two warps are all a race needs, and two or three rounds all a reduction has to show |
| `range_proof` | the equations (65) and (68) for every proof, (66)/(67) exactly for those on which the second warp of `kernel_cal_S` was not late | vectors of 4 bits, the values 0..7 (`rand()` leaves the top bit 0), order 11 with Montgomery radix 16 (so that a wrong form shows), two choices of randomness, digests of five numbers, 1 among them |
| `pair_sum` | (violation) `accumulate_sum` leaves the sum of the points in in[0] | the two sums of points on 4 threads, in one and in two warps |
| `harness_range` | (violation) no error on a scalar the test may draw | the scalar 10, EOS and NAF |
| `ec_triple` | (violation) the promise of `ec.h` on the point functions | two points, multipliers up to 6 |
| `gpu_eval` | (violation) `run_DBC_v2` returns n·pt1 | chains of one and two rows |

`Optimal` compares with an enumeration of all chains of up to `MaxAdditions` = 4
additions, each term up to `MaxLead` = 160, that shares nothing with the dynamic program.

Every passing property has a mutant of the code (`\* mutated` operators next to
the operator they change) that violates it.

Fairness: weak fairness of the steps of a running call, a thread that is never
blocked; calls themselves are not fair. `Harness` is one thread from start to
end, so its whole next-state relation is fair. `ThreadBlock` has no liveness
property and assumes no fairness.

Deadlock is checked everywhere but in `ec_triple` (its bound on multipliers may
disable all actions) and in the runs of `Harness` and `RangeProof` (the programs
end). In `greedy_chain` it is the check that the writes to
`DBC_store` stay inside the slot.

## Findings

`ec_triple`: `EC_POINT_tpl` does not clear `Z_is_one` of its result
(`ecp_smpl.c:1147-1163`), while add and dbl do. Tripling an affine point in place
and using the result in an addition or doubling gives wrong coordinates, against
`include/openssl/ec.h:811`. `DBC_POINT_mul` is not affected, since it starts from
a + a − a: theorem `NeverMisread`.

`pair_sum`: `accumulate_sum` of `DBCTest.cu` (line 217) adds the same odd cells to
the same even ones in every round, so its in[0] ends as in[0] + log2(threads)·in[1]
(theorem `PairsMissTheSum`), and not as the sum of the points that the comment
"res == in[0]" (line 221) announces. The one of `curveTest.cu` is right.

`kernel_cal_S` (`rp.cu:725`) sums over two warps without a barrier between its
rounds. `RacesExactly` says that it always races, `LowerPlusPrefix` what that can
leave in S, and `ProofAccepted` the consequence: the proof passes (65) and (68) in
any case, but (66)/(67) only if the second warp was in time.

Three operations on limbs are wrong on rare inputs, and the properties of the run
`big_int` say on which. `operator-` of `myBigInt.h` (line 304) takes any middle limb
of all ones for one a borrow has wrapped, and lowers the limb above
(`SubtractionWrongOnOnes`; for random operands about once in 2^32 limbs); the GPU's
subtraction loses a borrow through a zero limb (`SubtractionWrongOnZero`); `mul_3`
loses a carry out of the sum of two halves (`MultipleExact`).

`harness_range`: when `getEOSDBC` accepts no exponent (n = 0, 10 and 11) it still
returns a slot, whose length is 2^20, and `DBC_POINT_mul` reads past the store.
`getSubOptimalDBC` does the same for more scalars: its list starts in the middle,
and a negative bound at the first exponent ends the call, so no scalar much
below 3^(first exponent) gets a chain. Random inputs of the full width, as the
test draws, practically never meet this.

`NAF_POINT_mul` returns G for n = 0 (`ReferenceMul!Promised`).

`gpu_eval`: `dh_my_point_copy` (`gpuec256.cu:2296-2300`) assigns x twice and z
never, so `run_DBC_v2` computes on points without a z and returns the multiple of
no chain. With the copy repaired one case would be left: a chain whose last two
rows are equal makes it add a point to itself, for which `dh_ellipticAdd_JJ` has
no case. `OnlyLastRowsMeet` says that the generators lead to no other.

Two more things the passing runs state of the code that a reader may not expect.
`RacesExactly`: all reductions of the range proof race as soon as their threads
are in two warps. All but `kernel_cal_S` are launched with at most 32 threads and
depend on a warp executing in step. `ProofAccepted`:
`gpu_cal_S` passes `Gg` where the kernel's parameter is `Hh`, and is right all the
same, since the kernel's second half of threads indexes it from 32 on and `Hh`
follows `Gg` in the struct.

## Proofs

All theorems hold for every value of the constants that satisfies the named
assumptions (`MaxAssumption`, `OrderAssumption`, `JobsAssumption`,
`SizeAssumption`, `OptimalAssumption`, `ReferenceAssumption`, `LimbAssumption`,
`LaunchAssumption`, `InputAssumption`, `KernelsAssumption`, `HarnessAssumption`), which TLC evaluates on the
instances of the runs. The theorems on the harness name three conditions on its scalars
besides (below). Those on the generators and the harness are about exact integers
(see GreedyChain and OptimalChain above).

*ArithmeticProofs*: a function defined by recursion exists and satisfies its
equation: over the naturals (`IterationExists`), over 0..m (`BoundedIteration`),
from x to x ÷ 2 (`HalvingExists`), each by induction over a SET of naturals
(`SetInduction`, from well-foundedness of <). Then quotients and remainders: they
are unique, a quotient by a·b is a quotient of a quotient, and a remainder by 6m
gives those by 3m and 2m (`Sixths`). The powers and the partial sums are such functions:
`Pow2Facts`, `Pow3Facts`, `RunningSumsFacts` and `SameSums` (sums depend on the rows below only);
products and quotients of powers (`PowerSum`, `PowerProduct`), the bits of a number
(`BitStep`, `NoBits`).
The last part is about double-base chains as such. `Under(l, v, d, e)` says that v is a
sum of l terms, each a proper multiple of the next, below the *bound* 2^d 3^e. By
induction over l: v is then strictly between the bound and its opposite (`UnderSmall`);
a chain a third of the bound or more below 0 can be raised by the bound with as many
terms, or by a third of it with fewer (`Raising`); one of half the bound or more can be
lowered by that half with fewer (`Lowering`). `SplitTop` and these give `Options`: by
where v lies under the bound, a chain below it comes from one below its half or its
third, in one of the ways that lines 55-73 of `optimal_DBC.cpp` try.

*ChainMulProofs*: `HornerInv` is not inductive alone. `IndInv` adds that the chain
is sound, that the operations done and the exponents left make up the first row
(`Progress`), that r is in Jacobian form with its flag off and at infinity only
as a multiple of the order. The last part needs arithmetic: r scaled by
2^x 3^y is a prefix sum, and the order divides no such product unless it divides
the prefix. From `IndInv`: `TypeCorrect`, `HornerCorrect`, `AlwaysAligned`,
`NeverMisread`, `CostExact`, and `Refinement` (every step of `ChainMul` is a step
or a stutter of `ScalarMul`).

*GreedyChainProofs*: `IndInv` adds that exponents stay within the tables (hence
every real cost is below that of the unset slot), that the bounds of the next
term are the exponents of the last one, that slot 0 is in work until the first
chain is complete, and that the kept slot holds a cheapest chain of n during a
descent too. From it: `TypeCorrect`, `DescentCorrect`, `ReturnsChainOfN`,
`ReturnsCheapest`.
`ShortChains` and `PrefixesBetween` are about the power nearest to the remainder
(second half of the module, `BoundsInv`). Call `Reach` the largest power the next
term may take. Among the powers within it there is always one that leaves at most
half of the power itself unless the remainder is above `Reach` (`DescentBounded`:
the remainder is at most 3/2 of `Reach`), and when it is above half of `Reach`
("high") the bounds may stay for one step, after which it is not: that pays for
the one term in a + b + 1 the exponents do not. The start needs the bounds: if
`LBound` = `RBound` the first power is within a factor of n. `RemainderBelow`: from
the first term on the remainder is below n, so every prefix lies between 0 and 2n
(`PrefixesSoFar`; `PrefixesStayBetween`). The window has to hold at least two exponents besides the
current one (`JobsAssumption`; the code has 4 and 6).
`FiveSuffice`: while no chain has been built, the bounds of every exponent passed have
differed (`RejectedSoFar`), and among five consecutive exponents within n the bounds of
one agree. For they agree if some 2^k 3^e lies between B1 and B2 = 32/27 B1, and within
a factor of 2 the multiples by 81, 96, 108, 128 and 144 leave no gap wider than that
(`FiveMultiples`; without the fifth there is one, and n = 42 falls through 0..3).
`RowsMeetAtEnd`: what is left of n after a row equals the row only if the remainder is
the power `Reach` itself, which is then chosen again and completes the chain
(`ReachChosen`, `RowsMeet`).
`CostByArguments`: a call finds the store as the last one left it, so that its result
does not depend on that has to be proved. The *core* of a call is its place in the
list, the costs tried, and in a descent the bounds, the remainder and the first term;
the next core is a function of the last one and of the arguments (`Advance`,
`LookFollows`, `TermFollows`, `ChainFollows`). So the cores of a call lie on the
`Course` of its job, a set of constants, which ends in one place (`OneEnd`), and the
cost of the chain kept is `GreedyCost` of the job. The last section is what a caller
may rely on: from any left-overs of the right types a call (`FreshCall`) that keeps
its steps (`CallerStays`) and whose list finds a chain (`Finds`) hands over one of n
(`Delivered`).

*OptimalChainProofs*: what a cell means does not depend on the residues the code
computes on the way, only on n: `CellValue(d, e)` is n mod 2^d 3^e, in `w_` less the
power. `IndInv` says that every cell passed so far is null or *leads* a chain of that
value: its parent is another such cell, with one term less, whose value and the
term of the node add up to it (`CellsRight`); which cells have been passed
(`Filled`: whole blocks, whole columns of the current block, and a part of one); that
the borders are null and the corner is empty (`Borders`); what `temp_outer` and
`record_outer` are of 6n (`BlocksRight`); that `bBound` is what its search looks for
(`BoundsRight`); and that `w_min` leads a chain of n, or is the binary one
(`BestRight`). The step of a cell is then four identities between remainders of n
by 2^d 3^e and by its half and its third, read off six-fold numbers as the code
does (`SixthOfCell`, `ResidueRight`, `ComplementRight`): `SixthsAreExact`. For the end
of a call: the *trail* of a node follows parents for `length` steps; by induction over
it the terms add up to the value (`TrailLeads`), their exponents never increase and
each is a row of the store. So `ReturnsChain`, on any left-over tables, and `TypeCorrect`, `TablesHoldResidues`.

That the chain is a *cheapest* one is the second half of the module. By the sixth that
the residue lies in, a cell tries one node or three, and leaves out others that exist;
that this loses nothing is `Options`. `CellsShort` says that every cell passed leads a shortest chain of its
value, among all chains below the modulus (`ResidueShort`, `ComplementShort`):
`TablesShortest`. A shortest chain need not be a cheapest one, but among chains with the same
leading term it is, and a leading term of at most 2n is at least half of n: in its column it
is the power at `bBound` or half of that, which is where `w_min` is compared. `BestCheap` says that `w_min` costs no more than each boundary cell passed, by
`getV`, and `BasicCost` what the binary chain costs; with `CellsShort` these three are
inductive (`CheapInv`). At the end every chain of n with a leading term up to 2n is compared
with the boundary cell of its column (`BoundaryCheap`). One with a larger leading term is
not cheaper, by induction over that term: by `Raising` the rest can absorb it into a
smaller one (`NoCheaper`). Conversely the nodes are chains in that sense (`CellChains`,
`BinaryChains`, `BestIsChain`). So `NoneIsCheaper`: the cost returned is the `LeastPrice`
that any double-base chain of n has, with any number of terms of any size. There is one
such price only (`OneLeastPrice`), so it depends on neither the block sizes nor what earlier
calls left. `ReturnsOptimal` is the case of the chains the model enumerates.

*ReferenceMulProofs*: `LoopsExact` with the types and what holds between the loops is
`LoopInv`. The last digit of `int_to_naf` is 1 (`Leading`), which is why the evaluation
may start from a copy of G. In the GPU's loops the two operands of an addition are
multiples of G that are neither equal nor opposite, since the scalar, and so every
part of it, is below the order (`GpuScalars`); above it the formulas meet cases they
lack. `LoopsCorrect` and `Refinement` (all six implement `ScalarMul`, NAF of 0
excepted) follow. `SparseForm` needs a second invariant (`CostInv`): the digits made so
far that cost an addition, and the bits set in what is left, are together at most the
bits set in n (`DigitFacts` is the step), and there are at most as many digits as bits
and one more (`Room`).

*MyBigIntProofs*: division, comparison and residue start at the top limb, so what
they have seen is a prefix of the number (`PrefixFacts`, `PrefixAgree`).
`DivisionCorrect`: with the types of what it works on, `DivisionInv` is inductive; a
round is `DivideLimb`. `ComparisonCorrect`: the limbs seen so far are equal, and the
first difference decides (`FirstDifferenceDecides`). `ResidueCorrect`: the sum of the
weighed limbs is congruent to the prefix seen (`Weighing`), and a remainder is unique.
Multiples and subtraction start at the bottom, so what is done is a low part
(`LowFacts`). `MultiplesCorrect`: m times a number is the product's limbs, a carry out
of the top and the carries *lost* on the way (`CarryChain`); nothing lost is exactness
modulo the width, and a lost carry cannot be made up for by others, the highest being
worth more than all below it. `OnesMisjudged` and `ZerosMisjudged` are exact
characterisations: `Owes` is the true borrow, by comparison of low parts, and `Lent`
the limb that the first loop should leave. It leaves it in all limbs if and only if no
middle limb has been `Misjudged` (`Subtracting`); if it does, the second loop yields
the difference (`ExactDifference`), and if it does not, another number, because limbs
are determined by the value (`LimbsUnique`).

*BlockKernelsProofs*, first about `ThreadBlock`: why barriers suffice. In a race-free
kernel, a cell that some warp has written since the last barrier is touched by that
warp only; so each cell holds what it holds in step after as many phases as its owner
has done, and each cell nobody has written holds what it held at the barrier. With the
position of every warp between the last barrier and the next this is inductive
(`IInv`), for any number of warps, cells and phases. From it `TypeCorrect` and
`BarriersSuffice` (the theorem behind `Deterministic`). `RacesSeen` is the converse: in
a kernel with an unseparated conflict every execution races, whatever the schedule. It
needs that no access of the current epoch goes unrecorded (`Recorded`), and that of two
conflicting accesses the later one notices (`ConflictsSeen`).

Then about the kernels, on blocks of 2^n threads (from four on) and every division of
them into warps (`KernelsAssumption`; the range proof has 4, 32 or 64). Which race
is decided by `RacesDecided`: the two sums of points are made of phases separated by
barriers, and satisfy the hypothesis of `BarriersSuffice` (`PointSumsRaceFree`); in each
kernel of the range proof, thread 0 and the first thread of the upper half, which are in
different warps if there are two, have conflicting accesses in two given phases. What
they compute is stated by `SumsCorrect`, and for the `accumulate_sum` of `DBCTest.cu`,
whose sum is another, by `PairsMissTheSum`. In step, an execution is a chain of memories
(`Runs`), each obtained from the one before by a phase (`InPhase`); there is a lemma for
what a phase of each kind leaves in the cells (`PhaseEffect`, `FillEffect`,
`AddEffect`...), and chains can be cut where programs are joined (`RunsSplit`). A round of
a halving or a tree replaces the cells by sums of pairs and so preserves the sum of what
is left, stated with prefix sums (`Prefix`); after log2 of the threads rounds it is one
cell. `BarriersSuffice` carries this to every execution that does not race, and `RacesSeen`
to those in which `raced` is not set.

*HarnessProofs*: `Harness` steps its parts only by their own actions, so the proofs
of the parts are instantiated for its variables (`Gr`, `Ev`, `Ref`; the `Same...`
lemmas bridge the copies of the operators), and `Inv` says how they meet. Between two
calls only the types of the store are known (`Stored`): getOptimalDBC overwrites slot 0,
another scalar or method both. At "generated" slot `min_index` holds a chain of the scalar
in hand, at the cost of the method (`HandOver`); so the evaluation starts on a job
`ChainMul` calls sound (`HandedIsJob`), ends at the scalar (`PointInHand`) and has
performed what the chain costs (`CostInHand`). `PointsInv` then says that every point of
a method that has passed is right, also where methods share an array, and `CostsInv`
that both passes add up the same `Charges`, which needs that the cost of a chain
generated a second time is that of the first (`CostByArguments` for the greedy
generators; for getOptimalDBC it is part of its contract). Hence `HandsOverSoundChains`,
`MethodsAgree` and `ReportsWhatWasSpent`.

They are false of inputs that `test_DBC_POINT_mul.py` may draw, so they name their
conditions: no scalar is 0 (`PositiveScalars`; NAF_POINT_mul of 0 is G), every greedy
list comes to an exponent it accepts (`ListsFind`; `harness_range` shows 10, where it
does not), and no chain passes through a multiple of the order on its way
(`AvoidsOrder`). All three are met by the instance of the run `harness`. The last two
follow from conditions on the inputs: `ListsFind` from five consecutive exponents
within n in each list (`FiveInARowSuffice`), and `AvoidsOrder`, for positive scalars
whose lists find a chain, from their being at most half the order, since the prefixes
of a greedy chain are below 2n (`BenchmarkCorrect`). A fourth condition is in the model:
arithmetic on scalars is exact, so nothing is said of a scalar on whose descent
`operator-` meets the limbs of `OnesMisjudged`. `HarnessAssumption` takes getOptimalDBC by its
contract: the chain it leaves is one of n within the store, which `ReturnsChain` proves
of `OptimalChain`, and all it may leave cost the same, which `NoneIsCheaper` and
`OneLeastPrice` prove: it is the least cost of a chain of n.

Only model-checked: termination (`Returns`, `Finishes`; liveness under fairness is out
of the prover's reach); `LowerPlusPrefix`, since what a racing kernel leaves is no
execution in step; `GpuEval`, whose one property is violated; and `RangeProof`, which
declares a recursive operator for the inversion that keeps it from the prover.

## Not modelled

* `kernel_ipverify` of `cuverify.cu` (the logarithmic check of the inner product),
  which the authors left unfinished, and the experiments `ag_*`.
* In `RangeProof`, additions that meet equal points or infinity (random points of a
  group of 2^256 elements do not; in a group of order 11 they would), and digests
  above the order.
* In `BlockKernels`, what each thread computes alone, and the code of
  `curveTest.cu` under `CONST_SCALE >= 18` (the constant is 13).
* The fixed store of 100 rows of the GPU generators: `ShortChains` allows longer
  chains, and that they do not occur is an average.
* n = 0 for `getOptimalDBC` (undefined behaviour), and failures inside OpenSSL.
* Rounding of doubles in the generators above 2^53.
* The program that `MSMTest.cpp` adds to `DBC.cpp` (the same without the cost
  passes), timing and test drivers, scripts.

What could be proved next: the equations of the range proof, with the inversion as a
recursive function. Its first phase runs on integers of W bits that lose a carry, so the
proof needs the invariant of the Montgomery inversion and a bound that excludes the loss.

Left out for good: field arithmetic (PTX and OpenSSL), hashing, timing and
printing, and the vendored libraries. Those libraries, OpenSSL 3.0.8 before all,
are more than nine tenths of the repository's code; of them only the functions on
points that the program calls are modelled.
