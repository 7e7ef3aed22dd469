---------------------------- MODULE BlockKernels ----------------------------
(***************************************************************************)
(* The kernels of gpuec/ whose threads work together on one array, as      *)
(* programs of ThreadBlock: the sums of points of the two benchmarks       *)
(* (accumulate_sum), of the range-proof prover (rp.cu) and of its verifier *)
(* (cuverify.cu).  T is the number of threads of the block, a power of 2;  *)
(* cells are numbered as in the code, with T for the code's 32 (64 in      *)
(* kernel_cal_S).  What a thread computes from values of its own, and what *)
(* it keeps in cells no other thread touches, is an operand Input[i].      *)
(***************************************************************************)
EXTENDS ThreadBlock, FiniteSets

CONSTANT Input     \* the values of the operands, at most three per thread

Operands == 3 * MAX_CELL

ASSUME InputAssumption == Input \in [0 .. Operands - 1 -> Int]

(* What shared memory holds before a thread has written it.                *)
Garbage      == 777
SharedMemory == [c \in Cells |-> Garbage]

Assign(d, l, r, a) == [dst |-> d, left |-> l, right |-> r, add |-> a]
Idle        == Assign(NoCell, NoCell, NoCell, 0)
AddTo(d, c) == Assign(d, d, c, 0)              \* dh_ellipticAdd_JJ(d, c, d)
Copy(d, c)  == Assign(d, c, NoCell, 0)
Put(d, i)   == Assign(d, NoCell, NoCell, Input[i])

(* A phase in which the threads tx of the set S execute do[tx].            *)
Only(T, S, do, sync) ==
  [op |-> [tx \in 0 .. T - 1 |-> IF tx \in S THEN do[tx] ELSE Idle], sync |-> sync]

Below(w) == 0 .. w - 1                                      \* if (tx < w)
EachMultiple(T, i) == {tx \in 0 .. T - 1 : tx % i = 0}      \* if (tx % i == 0)

(* Thread tx fills cell base + tx with the operand i + tx.                 *)
Fill(T, base, i, sync) ==
  Only(T, Below(T), [tx \in 0 .. T - 1 |-> Put(base + tx, i + tx)], sync)

Thread0(T, do, sync) == Only(T, {0}, [tx \in {0} |-> do], sync)

(* A block has 2^n threads.                                                *)
TwoTo[n \in Nat] == IF n = 0 THEN 1 ELSE 2 * TwoTo[n - 1]
Log2(T) == CHOOSE n \in 0 .. T : TwoTo[n] = T

(* if (tx < i) [tx] += [tx + i], and the variant of DBCTest.cu, which adds  *)
(* the odd cells to the even ones whatever the round.                      *)
Round(T, i, sync) == Only(T, Below(i), [tx \in 0 .. T - 1 |-> AddTo(tx, tx + i)], sync)
PairRound(T, i)   == Only(T, Below(i), [tx \in 0 .. T - 1 |-> AddTo(2 * tx, 2 * tx + 1)], TRUE)

(* for (i = T/2; i; i /= 2)                                                *)
Halving(T, sync) == [r \in 1 .. Log2(T) |-> Round(T, T \div TwoTo[r], sync)]

(* accumulate_sum of curveTest.cu: half as many threads as points, and the *)
(* first round already adds a point per thread.                            *)
SumRounds(T, sync) == [r \in 1 .. Log2(T) + 1 |-> Round(T, (2 * T) \div TwoTo[r], sync)]

AccumulateSumNoSync(T)   == SumRounds(T, FALSE)                   \* mutated
AccumulateSumFromHalf(T) == Halving(T, TRUE)                      \* mutated
AccumulateSum(T)         == SumRounds(T, TRUE)

(* accumulate_sum of DBCTest.cu.                                           *)
AccumulatePairs(T) == [r \in 1 .. Log2(T) |-> PairRound(T, T \div TwoTo[r])]

(* rp.cu kernel_cal_S: the commitment S, without barriers in the loop.     *)
CalSRounds(T) ==
  [r \in 1 .. Log2(T) |->
     Only(T, EachMultiple(T, TwoTo[r]),
          [tx \in 0 .. T - 1 |-> AddTo(tx, tx + TwoTo[r - 1])], FALSE)]

CalSFrom(T, sync) ==
  <<Fill(T, 0, 0, sync)>> \o CalSRounds(T)
    \o <<Thread0(T, Put(1, T), FALSE), Thread0(T, AddTo(0, 1), FALSE)>>

CalSNoSync(T) == CalSFrom(T, FALSE)                               \* mutated
CalS(T)       == CalSFrom(T, TRUE)

(* rp.cu kernel_cal_t12: three inner products in the same cells; the first *)
(* two make t1 (in cell T), the third t2 (in cell T + 1); threads 0 and 1  *)
(* commit to them in T12, and thread 0 hashes both commitments.  lh is a   *)
(* register of thread 0.                                                   *)
CalT12(T) ==
  LET lh    == 2 * T
      T12   == 2 * T + 1
      hash  == 2 * T + 3
      two   == [tx \in {0, 1} |-> Copy(T12 + tx, T + tx)]
  IN  <<Fill(T, 0, 0, TRUE)>> \o Halving(T, TRUE)
        \o <<Thread0(T, Copy(lh, 0), FALSE), Fill(T, 0, T, FALSE)>> \o Halving(T, TRUE)
        \o <<Thread0(T, Assign(T, lh, 0, 0), FALSE), Fill(T, 0, 2 * T, FALSE)>>
        \o Halving(T, TRUE)
        \o <<Thread0(T, Copy(T + 1, 0), FALSE), Only(T, {0, 1}, two, FALSE),
             Thread0(T, Assign(hash, T12, T12 + 1, 0), FALSE)>>

(* rp.cu kernel_cal_vlr: tprime = <l, r>, copied out (to cell T) before    *)
(* thread 0 uses the cells again for taux and mu.                          *)
CalVlr(T) ==
  <<Fill(T, 0, 0, FALSE)>> \o Halving(T, TRUE)
    \o <<Thread0(T, Copy(T, 0), FALSE), Thread0(T, Put(0, T), FALSE)>>

(* cuverify.cu kernel_calP: P of equation (66), two points per thread.     *)
CalP(T) ==
  <<Fill(T, 0, 0, FALSE), Fill(T, T, T, FALSE)>>
    \o [r \in 1 .. Log2(T) + 1 |->
          Only(T, EachMultiple(T, TwoTo[r - 1]),
               [tx \in 0 .. T - 1 |-> AddTo(2 * tx, 2 * tx + TwoTo[r - 1])], TRUE)]
    \o <<Thread0(T, Assign(0, 0, NoCell, Input[2 * T]), FALSE),
         Thread0(T, Put(1, 2 * T + 1), FALSE), Thread0(T, AddTo(0, 1), FALSE)>>

(* cuverify.cu kernel_rhs65: thread 0 leaves the four scalars in cells 0   *)
(* to 3, thread tx puts its multiple into cell 4 + tx.                     *)
Rhs65 ==
  LET put(c) == Thread0(4, Put(c, c), FALSE)
  IN  <<put(0), put(3), put(1), put(2),
        Only(4, Below(4), [tx \in 0 .. 3 |-> Copy(4 + tx, tx)], FALSE)>>
        \o [r \in 1 .. 2 |->
              Only(4, EachMultiple(4, TwoTo[r]),
                   [tx \in 0 .. 3 |-> AddTo(4 + tx, 4 + tx + TwoTo[r - 1])], FALSE)]

(* cuverify.cu kernel_calip68: <l, r>, the products formed in place.       *)
CalIp68(T) == <<Fill(T, 0, 0, FALSE)>> \o Halving(T, TRUE)

(* The sum of the first n operands, and of the operands i .. j - 1.        *)
SumTo[n \in 0 .. Operands] == IF n = 0 THEN 0 ELSE SumTo[n - 1] + Input[n - 1]
InputSum(i, j) == SumTo[j] - SumTo[i]

KernelOf(name, T) ==
  CASE name = "accumulate_sum"      -> AccumulateSum(T)
    [] name = "accumulate_sum_DBC" -> AccumulatePairs(T)
    [] name = "kernel_cal_S"        -> CalS(T)
    [] name = "kernel_cal_t12"      -> CalT12(T)
    [] name = "kernel_cal_vlr"      -> CalVlr(T)
    [] name = "kernel_calP"         -> CalP(T)
    [] name = "kernel_rhs65"        -> Rhs65
    [] name = "kernel_calip68"      -> CalIp68(T)

PointSums == {"accumulate_sum", "accumulate_sum_DBC"}
Names     == PointSums \cup {"kernel_cal_S", "kernel_cal_t12", "kernel_cal_vlr",
                             "kernel_calP", "kernel_rhs65", "kernel_calip68"}

(* Cells the kernel is run for, with the sum of the operands they are to   *)
(* have; in[0] for accumulate_sum, of two points for each thread.          *)
SumsOf(name, T) ==
  CASE name \in PointSums           -> {<<0, InputSum(0, 2 * T)>>}
    [] name = "kernel_cal_S"        -> {<<0, InputSum(0, T + 1)>>}
    [] name = "kernel_cal_t12"      -> {<<2 * T + 1, InputSum(0, 2 * T)>>,
                                        <<2 * T + 2, InputSum(2 * T, 3 * T)>>,
                                        <<2 * T + 3, InputSum(0, 3 * T)>>}
    [] name = "kernel_cal_vlr"      -> {<<T, InputSum(0, T)>>}
    [] name = "kernel_calP"         -> {<<0, InputSum(0, 2 * T + 2)>>}
    [] name = "kernel_rhs65"        -> {<<4, InputSum(0, 4)>>}
    [] name = "kernel_calip68"      -> {<<0, InputSum(0, T)>>}

MemoryOf(name) == IF name \in PointSums THEN [c \in Cells |-> Input[c]] ELSE SharedMemory

(* Warps of W consecutive threads.                                         *)
WarpsOf(T, W) == {{v * W + t : t \in 0 .. W - 1} : v \in 0 .. (T \div W) - 1}

LaunchOf(name, T, W) ==
  [name    |-> name,
   program |-> KernelOf(name, T),
   warps   |-> WarpsOf(T, W),
   memory  |-> MemoryOf(name),
   sums    |-> SumsOf(name, T)]

(* What the code launches: a kernel on a block of 2^n threads, four at     *)
(* least, divided into warps; kernel_rhs65 on four.                        *)
ASSUME KernelsAssumption ==
  \A k \in Launches :
    /\ k.name \in Names
    /\ \E n \in 2 .. MAX_CELL :
         /\ TwoTo[n] <= MAX_CELL
         /\ UNION k.warps = 0 .. TwoTo[n] - 1
         /\ k.name = "kernel_rhs65" => n = 2
         /\ \E W \in 1 .. MAX_CELL : k = LaunchOf(k.name, TwoTo[n], W)

-----------------------------------------------------------------------------
Launched == "name" \in DOMAIN kernel

HasSums == \A s \in kernel.sums : mem[s[1]] = s[2]

(* accumulate_sum leaves the sum of all points in in[0], as the comment at *)
(* the end of that of DBCTest.cu says.                                     *)
PointsInFirst == Launched /\ Finished /\ kernel.name \in PointSums => HasSums

(* Every other kernel that was not disturbed by a race has computed the    *)
(* sums it is there for, and so has the accumulate_sum of curveTest.cu.    *)
SumsExact ==
  Launched /\ Finished /\ ~raced /\ kernel.name # "accumulate_sum_DBC" => HasSums

(* The races of kernel_cal_S on two warps can do one thing only, whatever  *)
(* the schedule: to the sum of the first warp thread 0 adds what the       *)
(* second has summed so far, 1, 2, 4 ... or all of its terms.              *)
LowerPlusPrefix ==
  Launched /\ Finished /\ kernel.name = "kernel_cal_S" /\ Cardinality(Warps) = 2 =>
    LET half == Cardinality(Threads) \div 2
    IN  \E r \in 0 .. Log2(half) :
          mem[0] = InputSum(0, half + TwoTo[r]) + Input[2 * half]

(* Which kernels race does not depend on the schedule, and the accesses    *)
(* of the program decide it: the two sums of points never do; each kernel  *)
(* of the range proof does as soon as its threads belong to two warps, as  *)
(* those of kernel_cal_S (64 threads) always do.                           *)
RacesExactly ==
  Launched /\ Finished =>
    /\ raced = ~RaceFree(kernel)
    /\ raced = (kernel.name \notin PointSums /\ Cardinality(Warps) > 1)
=============================================================================
