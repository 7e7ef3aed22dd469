------------------------- MODULE BlockKernelsProofs -------------------------
(***************************************************************************)
(* Proofs about ThreadBlock: a kernel whose conflicting accesses are       *)
(* separated by barriers never races, and computes what its threads would  *)
(* compute in step, for every block, partition into warps and schedule; a  *)
(* kernel with other accesses races in every execution.  And about         *)
(* BlockKernels: the two sums of points of the benchmarks are kernels of   *)
(* the first kind, for any number of threads, those of the range proof of  *)
(* the second as soon as their threads are two warps; and what each kernel *)
(* leaves in the cell the host reads is the sum of its operands, or what   *)
(* the wrong one computes in its place.                                    *)
(***************************************************************************)
EXTENDS BlockKernels, ArithmeticProofs

(* The number of phases a warp has executed.                               *)
Executed(w) == IF stage[w] = "barrier" THEN pc[w] ELSE pc[w] - 1

(* Another warp writes cell c in the epoch warp w is in.                   *)
OthersWrite(w, c) ==
  \E v \in Warps, p \in 1 .. Length :
    v # w /\ SameEpoch(kernel.program, p, pc[w]) /\ c \in Writes(kernel.program[p], v)

StagesOK ==
  \A w \in Warps : /\ stage[w] = "store" => pc[w] <= Length
                   /\ stage[w] = "barrier" => pc[w] <= Length /\ Phase(w).sync

(* No warp is a barrier ahead of another.                                  *)
Together == \A w, v \in Warps : SameEpoch(kernel.program, pc[w], pc[v])

(* The sets of readers and writers record accesses of the current epoch.   *)
Touched ==
  \A c \in Cells, w \in Warps :
    /\ w \in readers[c] => \E p \in 1 .. Length : SameEpoch(kernel.program, p, pc[w])
                                                   /\ c \in Reads(kernel.program[p], w)
    /\ w \in writers[c] => \E p \in 1 .. Length : SameEpoch(kernel.program, p, pc[w])
                                                   /\ c \in Writes(kernel.program[p], w)

(* What a warp finds in a cell nobody else writes is what an execution in  *)
(* step has there after as many phases.                                    *)
MemoryInStep ==
  \A w \in Warps, c \in Cells : ~OthersWrite(w, c) => mem[c] = InStep(kernel)[Executed(w)][c]

RegInStep ==
  \A w \in Warps : stage[w] = "store" =>
    \A t \in w : reg[t] = Sum(InStep(kernel)[pc[w] - 1], Phase(w).op[t])

(* Before the first launch nothing runs.                                   *)
Unlaunched == Warps = {} => mem = kernel.memory

InStepInv == MemoryInStep /\ RegInStep /\ ~raced

IInv ==
  /\ TypeOK
  /\ StagesOK
  /\ Together
  /\ Touched
  /\ Unlaunched
  /\ RaceFree(kernel) => InStepInv

-----------------------------------------------------------------------------
(* Being in one epoch is an equivalence of phases.                         *)
LEMMA EpochSymmetric ==
  ASSUME NEW program, NEW p \in Int, NEW q \in Int, SameEpoch(program, p, q)
  PROVE  SameEpoch(program, q, p)
BY DEF SameEpoch

(* Reflexivity of it.                                                      *)
LEMMA EpochReflexive ==
  ASSUME NEW program, Len(program) \in Nat, NEW p \in Int
  PROVE  SameEpoch(program, p, p)
BY DEF SameEpoch

(* Transitivity of it.                                                     *)
LEMMA EpochTransitive ==
  ASSUME NEW program, Len(program) \in Nat, NEW p \in Int, NEW q \in Int, NEW r \in Int,
         SameEpoch(program, p, q), SameEpoch(program, q, r)
  PROVE  SameEpoch(program, p, r)
<1>1. SUFFICES ASSUME NEW x \in 1 .. Len(program),
                      (p <= x /\ x < r) \/ (r <= x /\ x < p)
               PROVE  ~program[x].sync
  BY DEF SameEpoch
<1>2. \/ (p <= x /\ x < q) \/ (q <= x /\ x < p)
      \/ (q <= x /\ x < r) \/ (r <= x /\ x < q)
  BY <1>1
<1>3. QED
  BY <1>2 DEF SameEpoch

(* A phase without a barrier leads on within its epoch.                    *)
LEMMA EpochGoesOn ==
  ASSUME NEW program, Len(program) \in Nat, NEW p \in 1 .. Len(program), ~program[p].sync
  PROVE  SameEpoch(program, p, p + 1)
<1>1. SUFFICES ASSUME NEW x \in 1 .. Len(program),
                      (p <= x /\ x < p + 1) \/ (p + 1 <= x /\ x < p)
               PROVE  ~program[x].sync
  BY DEF SameEpoch
<1>2. x = p
  BY <1>1
<1>3. QED
  BY <1>2

(* Two barriers of one epoch are the same.                                 *)
LEMMA OneBarrier ==
  ASSUME NEW program, Len(program) \in Nat,
         NEW p \in 1 .. Len(program), NEW q \in 1 .. Len(program),
         SameEpoch(program, p, q), program[p].sync, program[q].sync
  PROVE  p = q
<1>1. CASE p < q
  BY <1>1 DEF SameEpoch
<1>2. CASE q < p
  BY <1>2 DEF SameEpoch
<1>3. QED
  BY <1>1, <1>2

-----------------------------------------------------------------------------
(* What is known of a launch: types of its phases and accesses.            *)
LEMMA KernelTypes ==
  ASSUME NEW k, WellFormed(k)
  PROVE  /\ Len(k.program) \in Nat
         /\ k.memory \in [Cells -> Int]
         /\ \A p \in 1 .. Len(k.program) :
              /\ k.program[p].sync \in BOOLEAN
              /\ \A t \in UNION k.warps : k.program[p].op[t] \in Access
<1>1. k.program \in Seq(PhaseOf(UNION k.warps))
  BY DEF WellFormed
<1>2. \A p \in 1 .. Len(k.program) : k.program[p] \in PhaseOf(UNION k.warps)
  BY <1>1
<1>3. QED
  BY <1>1, <1>2 DEF WellFormed, PhaseOf

(* What a thread computes is an integer.                                   *)
LEMMA SumType ==
  ASSUME NEW m \in [Cells -> Int], NEW a \in Access
  PROVE  Sum(m, a) \in Int
BY DEF Sum, Operand, Access

(* The recursive equation of an execution in step.                         *)
LEMMA InStepFacts ==
  ASSUME NEW k, WellFormed(k)
  PROVE  /\ InStep(k)[0] = k.memory
         /\ \A p \in 1 .. Len(k.program) :
              InStep(k)[p] = After(InStep(k)[p - 1], k.program[p], UNION k.warps)
         /\ \A p \in 0 .. Len(k.program) : InStep(k)[p] \in [Cells -> Int]
<1> DEFINE S == [Cells -> Int]
           n == Len(k.program)
           all == UNION k.warps
           h == [x \in Nat \X S |-> IF x[1] < n THEN After(x[2], k.program[x[1] + 1], all)
                                               ELSE x[2]]
<1>1. n \in Nat /\ k.memory \in S
  BY KernelTypes
<1>2. ASSUME NEW p \in 1 .. n, NEW m \in S PROVE After(m, k.program[p], all) \in S
  <2>1. \A t \in all : Sum(m, k.program[p].op[t]) \in Int
    BY KernelTypes, SumType
  <2>2. ASSUME NEW c \in Cells, \E t \in all : k.program[p].op[t].dst = c
        PROVE  (CHOOSE t \in all : k.program[p].op[t].dst = c) \in all
    BY <2>2
  <2>3. QED
    BY <2>1, <2>2 DEF After
<1>3. \A p \in Nat, m \in S : h[<<p, m>>] = IF p < n THEN After(m, k.program[p + 1], all) ELSE m
  OBVIOUS
<1>4. Closed(S, h)
  <2>1. SUFFICES ASSUME NEW p \in Nat, NEW m \in S PROVE h[<<p, m>>] \in S
    BY DEF Closed
  <2>2. CASE p < n
    <3>1. p + 1 \in 1 .. n
      BY <1>1, <2>2
    <3>2. h[<<p, m>>] = After(m, k.program[p + 1], all)
      BY <1>3, <2>2
    <3> HIDE DEF h, S
    <3>3. QED
      BY <1>2, <3>1, <3>2
  <2>3. CASE ~ (p < n)
    BY <1>3, <2>3
  <2>4. QED
    BY <2>2, <2>3
<1>5. PICK v \in [Nat -> S] : Iterates(v, k.memory, h)
  <2> HIDE DEF h, S
  <2>1. QED
    BY <1>1, <1>4, IterationExists DEF Iterable
<1>6. v[0] = k.memory /\ \A p \in Nat : p < n => v[p + 1] = After(v[p], k.program[p + 1], all)
  <2>1. \A p \in Nat : v[p] \in S
    BY <1>5
  <2> HIDE DEF h, S
  <2>2. QED
    BY <1>3, <1>5, <2>1 DEF Iterates
<1>7. ASSUME NEW p \in 1 .. n PROVE v[p] = After(v[p - 1], k.program[p], all)
  <2>1. p - 1 \in Nat /\ p - 1 < n /\ (p - 1) + 1 = p
    BY <1>1
  <2>2. QED
    BY <1>6, <2>1
<1> DEFINE f == [p \in 0 .. n |-> v[p]]
<1>8. f = [p \in 0 .. n |-> IF p = 0 THEN k.memory ELSE After(f[p - 1], k.program[p], all)]
  <2>1. ASSUME NEW p \in 0 .. n
        PROVE  v[p] = IF p = 0 THEN k.memory ELSE After(f[p - 1], k.program[p], all)
    <3>1. CASE p = 0
      BY <1>6, <3>1
    <3>2. CASE p # 0
      <4>1. p \in 1 .. n /\ p - 1 \in 0 .. n
        BY <1>1, <3>2
      <4>2. f[p - 1] = v[p - 1]
        BY <4>1
      <4>3. QED
        BY <1>7, <3>2, <4>1, <4>2
    <3>3. QED
      BY <3>1, <3>2
  <2>2. QED
    BY <2>1
<1> DEFINE g == CHOOSE m : m = [p \in 0 .. n |-> IF p = 0 THEN k.memory
                                               ELSE After(m[p - 1], k.program[p], all)]
<1>9. g = [p \in 0 .. n |-> IF p = 0 THEN k.memory ELSE After(g[p - 1], k.program[p], all)]
  <2> HIDE DEF f
  <2>1. QED
    BY <1>8
<1>10. InStep(k) = g
  BY DEF InStep
<1> HIDE DEF g, f, h
<1>11. g[0] = k.memory /\ \A p \in 1 .. n : g[p] = After(g[p - 1], k.program[p], all)
  <2>1. 0 \in 0 .. n /\ \A p \in 1 .. n : p \in 0 .. n /\ p # 0
    BY <1>1
  <2>2. QED
    BY <1>9, <2>1
<1> DEFINE T == {p \in Nat : p <= n => g[p] \in S}
<1>12. 0 \in T /\ \A p \in Nat : p \in T => p + 1 \in T
  <2>1. 0 \in T
    BY <1>1, <1>11
  <2>2. ASSUME NEW p \in Nat, p \in T, p + 1 <= n PROVE g[p + 1] \in S
    <3>1. p <= n /\ p + 1 \in 1 .. n /\ (p + 1) - 1 = p
      BY <1>1, <2>2
    <3>2. g[p] \in S
      BY <2>2, <3>1
    <3> HIDE DEF S
    <3>3. g[p + 1] = After(g[p], k.program[p + 1], all)
      BY <1>11, <3>1
    <3>4. QED
      BY <1>2, <3>1, <3>2, <3>3
  <2>3. ASSUME NEW p \in Nat, p \in T PROVE p + 1 \in T
    <3>1. p + 1 \in Nat
      OBVIOUS
    <3>2. p + 1 <= n => g[p + 1] \in S
      BY <2>2, <2>3
    <3> HIDE DEF S
    <3>3. QED
      BY <3>1, <3>2
  <2> HIDE DEF T
  <2>4. QED
    BY <2>1, <2>3
<1>13. Nat \subseteq T
  <2> HIDE DEF T
  <2>1. QED
    BY <1>12, SetInduction
<1>14. \A p \in 0 .. n : g[p] \in S
  BY <1>1, <1>13
<1>15. QED
  BY <1>10, <1>11, <1>14

-----------------------------------------------------------------------------
(* Facts about a state that is well typed.                                 *)
LEMMA StateTypes ==
  ASSUME TypeOK
  PROVE  /\ Length \in Nat
         /\ \A w \in Warps : pc[w] \in 1 .. Length + 1 /\ pc[w] \in Int
         /\ \A w \in Warps : pc[w] <= Length => pc[w] \in 1 .. Length
         /\ \A w \in Warps : \A t \in w : t \in Threads
<1>1. Length \in Nat
  BY KernelTypes DEF TypeOK, Length
<1>2. QED
  BY <1>1 DEF TypeOK, Threads

(* A warp reads and writes cells only.                                     *)
LEMMA CellsTouched ==
  ASSUME TypeOK, NEW w \in Warps, NEW p \in 1 .. Length
  PROVE  /\ Reads(kernel.program[p], w) \subseteq Cells
         /\ Writes(kernel.program[p], w) \subseteq Cells
         /\ \A t \in w : kernel.program[p].op[t] \in Access
<1>1. \A t \in w : kernel.program[p].op[t] \in Access
  BY KernelTypes, StateTypes DEF TypeOK, Length, Threads, Warps
<1>2. QED
  BY <1>1 DEF Reads, Writes, Access

(* Load keeps the types.                                                   *)
LEMMA LoadType ==
  ASSUME TypeOK, NEW w \in Warps, Load(w)
  PROVE  TypeOK'
<1>1. pc[w] \in 1 .. Length
  BY StateTypes DEF Load
<1>2. \A t \in w : Sum(mem, Phase(w).op[t]) \in Int
  BY <1>1, CellsTouched, SumType DEF TypeOK, Phase
<1>3. reg' \in [Threads -> Int]
  BY <1>2 DEF TypeOK, Load
<1>4. readers' \in [Cells -> SUBSET Warps] /\ stage' \in [Warps -> {"load", "store", "barrier"}]
  BY DEF TypeOK, Load
<1>5. raced' \in BOOLEAN
  BY DEF TypeOK, Load
<1>6. QED
  BY <1>3, <1>4, <1>5 DEF TypeOK, Load, Warps, Threads, Length

(* Store keeps the types.                                                  *)
LEMMA StoreType ==
  ASSUME TypeOK, StagesOK, NEW w \in Warps, Store(w)
  PROVE  TypeOK'
<1> USE DEF Store
<1>1. pc[w] \in 1 .. Length
  BY StateTypes DEF StagesOK
<1>2. ASSUME NEW c \in Cells, c \in Writes(Phase(w), w)
      PROVE  reg[CHOOSE t \in w : Phase(w).op[t].dst = c] \in Int
  <2>1. \E t \in w : Phase(w).op[t].dst = c
    BY <1>2 DEF Writes
  <2>2. (CHOOSE t \in w : Phase(w).op[t].dst = c) \in w
    BY <2>1
  <2>3. QED
    BY <2>2, StateTypes DEF TypeOK
<1>3. mem' \in [Cells -> Int]
  BY <1>2 DEF TypeOK
<1>4. writers' \in [Cells -> SUBSET Warps] /\ stage' \in [Warps -> {"load", "store", "barrier"}]
  BY DEF TypeOK
<1>5. pc' \in [Warps -> 1 .. Length + 1]
  BY <1>1, StateTypes DEF TypeOK
<1>6. raced' \in BOOLEAN
  BY DEF TypeOK
<1>7. QED
  BY <1>3, <1>4, <1>5, <1>6 DEF TypeOK, Warps, Threads, Length

(* Barrier keeps the types.                                                *)
LEMMA BarrierType ==
  ASSUME TypeOK, StagesOK, Barrier
  PROVE  TypeOK'
<1> USE DEF Barrier, BarrierWhen
<1>1. \A w \in Warps : pc[w] \in 1 .. Length
  BY StateTypes DEF StagesOK
<1>2. pc' \in [Warps -> 1 .. Length + 1] /\ stage' \in [Warps -> {"load", "store", "barrier"}]
  BY <1>1, StateTypes DEF TypeOK
<1>3. readers' \in [Cells -> SUBSET Warps] /\ writers' \in [Cells -> SUBSET Warps]
  BY DEF Nobody
<1>4. QED
  BY <1>2, <1>3 DEF TypeOK, Warps, Threads, Length

(* Launch keeps the types.                                                 *)
LEMMA LaunchType ==
  ASSUME NEW k \in Launches, Launch(k)
  PROVE  TypeOK'
<1> USE DEF Launch
<1>1. WellFormed(kernel') /\ kernel'.warps = k.warps
  BY LaunchAssumption
<1>2. Len(k.program) \in Nat
  BY <1>1, KernelTypes
<1>3. 1 \in 1 .. Len(k.program) + 1
  BY <1>2
<1>4. pc' \in [k.warps -> 1 .. Len(k.program) + 1]
  BY <1>3
<1>5. mem' \in [Cells -> Int]
  BY <1>1, KernelTypes
<1>6. readers' \in [Cells -> SUBSET k.warps] /\ writers' \in [Cells -> SUBSET k.warps]
  BY DEF Nobody
<1>7. stage' \in [k.warps -> {"load", "store", "barrier"}] /\ reg' \in [UNION k.warps -> Int]
  OBVIOUS
<1>8. Warps' = k.warps /\ Threads' = UNION k.warps /\ Length' = Len(k.program)
  BY <1>1 DEF Warps, Threads, Length
<1>9. QED
  BY <1>1, <1>4, <1>5, <1>6, <1>7, <1>8 DEF TypeOK

(* Before the first launch nothing runs.                                   *)
LEMMA InitFacts ==
  ASSUME Init
  PROVE  TypeOK /\ Warps = {} /\ Length = 0 /\ mem = kernel.memory /\ ~raced
<1> USE DEF Init
<1>1. kernel.warps = {} /\ kernel.program = <<>> /\ kernel.memory = [c \in Cells |-> 0]
  OBVIOUS
<1>2. Len(kernel.program) = 0 /\ kernel.program \in Seq(PhaseOf(UNION kernel.warps))
  BY <1>1
<1>3. WellFormed(kernel)
  BY <1>1, <1>2 DEF WellFormed
<1>4. readers \in [Cells -> SUBSET Warps] /\ writers \in [Cells -> SUBSET Warps]
  BY DEF Nobody
<1>5. Warps = {} /\ Length = 0
  BY <1>1, <1>2 DEF Warps, Length
<1>6. pc \in [Warps -> 1 .. Length + 1] /\ stage \in [Warps -> {"load", "store", "barrier"}]
  BY <1>5
<1>7. reg \in [Threads -> Int] /\ mem \in [Cells -> Int]
  BY <1>1
<1>8. QED
  BY <1>3, <1>4, <1>5, <1>6, <1>7 DEF TypeOK

-----------------------------------------------------------------------------
(* All warps have executed the same phases and nothing of the next epoch:  *)
(* then the whole array is as after an execution in step.                  *)
LEMMA WholeArray ==
  ASSUME IInv, RaceFree(kernel), NEW d \in 0 .. Length, NEW e \in Int,
         \A w \in Warps : pc[w] = e /\ Executed(w) = d,
         Warps = {} => d = 0
  PROVE  mem = InStep(kernel)[d]
<1>1. MemoryInStep /\ TypeOK
  BY DEF IInv, InStepInv
<1>2. Length \in Nat
  BY <1>1, StateTypes
<1>3. InStep(kernel)[d] \in [Cells -> Int]
  BY <1>1, InStepFacts DEF TypeOK, Length
<1>4. ASSUME NEW c \in Cells, Warps # {} PROVE mem[c] = InStep(kernel)[d][c]
  <2>1. \E w \in Warps : ~OthersWrite(w, c)
    <3>1. SUFFICES ASSUME \A w \in Warps : OthersWrite(w, c) PROVE FALSE
      OBVIOUS
    <3>2. PICK w \in Warps : TRUE
      BY <1>4
    <3>3. PICK v \in Warps, p \in 1 .. Length :
            v # w /\ SameEpoch(kernel.program, p, e) /\ c \in Writes(kernel.program[p], v)
      BY <3>1, <3>2 DEF OthersWrite
    <3>4. PICK u \in Warps, q \in 1 .. Length :
            u # v /\ SameEpoch(kernel.program, q, e) /\ c \in Writes(kernel.program[q], u)
      BY <3>1, <3>3 DEF OthersWrite
    <3>5. SameEpoch(kernel.program, p, q)
      BY <1>2, <3>3, <3>4, EpochSymmetric, EpochTransitive DEF Length
    <3>6. QED
      BY <3>3, <3>4, <3>5 DEF RaceFree, Warps, Length
  <2>2. QED
    BY <1>1, <2>1 DEF MemoryInStep
<1>5. CASE Warps = {}
  <2>1. InStep(kernel)[0] = kernel.memory
    BY <1>1, InStepFacts DEF TypeOK
  <2>2. QED
    BY <1>5, <2>1 DEF IInv, Unlaunched
<1>6. CASE Warps # {}
  BY <1>1, <1>3, <1>4, <1>6 DEF TypeOK
<1>7. QED
  BY <1>5, <1>6

(* Load changes no cell, and reads what an execution in step would read.   *)
LEMMA LoadInv ==
  ASSUME IInv, NEW w \in Warps, Load(w)
  PROVE  IInv'
<1> USE DEF Load
<1>1. TypeOK /\ StagesOK /\ Together /\ Touched
  BY DEF IInv
<1>2. Warps' = Warps /\ Length' = Length /\ Threads' = Threads /\ pc' = pc
  BY DEF Warps, Length, Threads
<1>3. Length \in Nat /\ pc[w] \in 1 .. Length
  BY <1>1, StateTypes
<1>4. \A v \in Warps : stage'[v] = IF v = w THEN "store" ELSE stage[v]
  BY <1>1 DEF TypeOK
<1>5. StagesOK'
  BY <1>1, <1>2, <1>3, <1>4 DEF StagesOK, Phase
<1>6. Together'
  BY <1>1, <1>2 DEF Together
<1>7. Touched'
  <2>1. SUFFICES ASSUME NEW c \in Cells, NEW v \in Warps, v \in readers'[c]
                 PROVE  \E p \in 1 .. Length : SameEpoch(kernel.program, p, pc[v])
                                               /\ c \in Reads(kernel.program[p], v)
    BY <1>1, <1>2 DEF Touched
  <2>2. CASE v \in readers[c]
    BY <1>1, <2>2 DEF Touched
  <2>3. CASE v \notin readers[c]
    <3>1. v = w /\ c \in Reads(kernel.program[pc[w]], w)
      BY <1>1, <2>1, <2>3 DEF Phase
    <3>2. SameEpoch(kernel.program, pc[w], pc[w])
      BY <1>3, EpochReflexive DEF Length
    <3>3. QED
      BY <1>3, <3>1, <3>2
  <2>4. QED
    BY <2>2, <2>3
<1>8. Unlaunched'
  BY <1>2 DEF Unlaunched
<1>9. ASSUME RaceFree(kernel) PROVE InStepInv'
  <2>1. MemoryInStep /\ RegInStep /\ ~raced
    BY <1>9 DEF IInv, InStepInv
  <2>2. ASSUME NEW c \in Reads(Phase(w), w), NEW v \in Warps, NEW p \in 1 .. Length,
               v # w, SameEpoch(kernel.program, p, pc[w])
        PROVE  c \notin Writes(kernel.program[p], v)
    BY <1>3, <1>9, <2>2 DEF RaceFree, Warps, Length, Phase
  <2>3. \A c \in Reads(Phase(w), w) : mem[c] = InStep(kernel)[pc[w] - 1][c]
    <3>1. SUFFICES ASSUME NEW c \in Reads(Phase(w), w)
                   PROVE  mem[c] = InStep(kernel)[pc[w] - 1][c]
      OBVIOUS
    <3>2. c \in Cells
      BY <1>1, <1>3, CellsTouched DEF Phase
    <3>3. ~OthersWrite(w, c)
      BY <2>2 DEF OthersWrite
    <3>4. Executed(w) = pc[w] - 1
      BY DEF Executed
    <3>5. QED
      BY <2>1, <3>2, <3>3, <3>4 DEF MemoryInStep
  <2>4. MemoryInStep'
    <3>1. \A v \in Warps : Executed(v)' = Executed(v)
      BY <1>2, <1>4 DEF Executed
    <3>2. \A v \in Warps, c \in Cells : OthersWrite(v, c)' = OthersWrite(v, c)
      BY <1>2 DEF OthersWrite
    <3>3. QED
      BY <1>2, <2>1, <3>1, <3>2 DEF MemoryInStep
  <2>5. RegInStep'
    <3>1. SUFFICES ASSUME NEW v \in Warps, stage'[v] = "store", NEW t \in v
                   PROVE  reg'[t] = Sum(InStep(kernel)[pc[v] - 1], Phase(v).op[t])
      BY <1>2 DEF RegInStep, Phase
    <3>2. t \in Threads
      BY DEF Threads
    <3>3. CASE v = w
      <4>1. Phase(w).op[t] \in Access
        BY <1>1, <1>3, <3>3, CellsTouched DEF Phase
      <4>2. \A c \in {Phase(w).op[t].left, Phase(w).op[t].right} \ {NoCell} :
              mem[c] = InStep(kernel)[pc[w] - 1][c]
        BY <2>3, <3>3 DEF Reads
      <4>3. Sum(mem, Phase(w).op[t]) = Sum(InStep(kernel)[pc[w] - 1], Phase(w).op[t])
        BY <4>2 DEF Sum, Operand
      <4>4. QED
        BY <3>2, <3>3, <4>3
    <3>4. CASE v # w
      <4>1. t \notin w
        BY <1>1, <3>1, <3>4 DEF TypeOK, WellFormed, Warps
      <4>2. reg'[t] = reg[t]
        BY <3>2, <4>1
      <4>3. QED
        BY <1>4, <2>1, <3>1, <3>4, <4>2 DEF RegInStep
    <3>5. QED
      BY <3>3, <3>4
  <2>6. ~raced'
    <3>1. SUFFICES ASSUME NEW c \in Reads(Phase(w), w), NEW v \in writers[c], v # w
                   PROVE  FALSE
      BY <2>1
    <3>2. c \in Cells
      BY <1>1, <1>3, CellsTouched DEF Phase
    <3>3. v \in Warps
      BY <1>1, <3>1, <3>2 DEF TypeOK
    <3>4. PICK p \in 1 .. Length : SameEpoch(kernel.program, p, pc[v])
                                   /\ c \in Writes(kernel.program[p], v)
      BY <1>1, <3>1, <3>2, <3>3 DEF Touched
    <3>5. SameEpoch(kernel.program, p, pc[w])
      BY <1>1, <1>3, <3>3, <3>4, StateTypes, EpochTransitive DEF Together, Length
    <3>6. QED
      BY <2>2, <3>1, <3>3, <3>4, <3>5
  <2>7. QED
    BY <2>4, <2>5, <2>6 DEF InStepInv
<1>10. TypeOK'
  BY <1>1, LoadType
<1>11. RaceFree(kernel)' => RaceFree(kernel)
  OBVIOUS
<1>12. QED
  BY <1>5, <1>6, <1>7, <1>8, <1>9, <1>10, <1>11 DEF IInv

(* Store moves a warp one phase on, within its epoch.                      *)
LEMMA StoreInv ==
  ASSUME IInv, NEW w \in Warps, Store(w)
  PROVE  IInv'
<1> USE DEF Store
<1> DEFINE n == pc[w]
           ph == Phase(w)
<1>1. TypeOK /\ StagesOK /\ Together /\ Touched
  BY DEF IInv
<1>2. Warps' = Warps /\ Length' = Length /\ Threads' = Threads /\ kernel' = kernel
  BY DEF Warps, Length, Threads
<1>3. Length \in Nat /\ n \in 1 .. Length /\ ph = kernel.program[n] /\ ph.sync \in BOOLEAN
  BY <1>1, StateTypes, KernelTypes DEF StagesOK, Phase, TypeOK, Length
<1>4. \A v \in Warps : /\ stage'[v] = IF v = w THEN IF ph.sync THEN "barrier" ELSE "load"
                                               ELSE stage[v]
                       /\ pc'[v] = IF v = w /\ ~ph.sync THEN n + 1 ELSE pc[v]
                       /\ pc[v] \in Int /\ pc'[v] \in Int
  BY <1>1, <1>3, StateTypes DEF TypeOK
<1>5. \A v \in Warps : SameEpoch(kernel.program, pc[v], pc'[v])
  <2>1. SUFFICES ASSUME NEW v \in Warps PROVE SameEpoch(kernel.program, pc[v], pc'[v])
    OBVIOUS
  <2>2. CASE v = w /\ ~ph.sync
    BY <1>3, <1>4, <2>2, EpochGoesOn DEF Length
  <2>3. CASE ~(v = w /\ ~ph.sync)
    BY <1>3, <1>4, <2>3, EpochReflexive DEF Length
  <2>4. QED
    BY <2>2, <2>3
<1>6. \A v \in Warps, p \in Int : SameEpoch(kernel.program, p, pc[v])
                                     <=> SameEpoch(kernel.program, p, pc'[v])
  BY <1>3, <1>4, <1>5, EpochSymmetric, EpochTransitive DEF Length
<1>7. TypeOK'
  BY <1>1, StoreType
<1>8. StagesOK'
  BY <1>1, <1>2, <1>3, <1>4, SMTT(60) DEF StagesOK, Phase
<1>9. Together'
  <2>1. SUFFICES ASSUME NEW u \in Warps, NEW v \in Warps
                 PROVE  SameEpoch(kernel.program, pc'[u], pc'[v])
    BY <1>2 DEF Together
  <2>2. SameEpoch(kernel.program, pc[u], pc'[v])
    BY <1>1, <1>4, <1>6 DEF Together
  <2>3. SameEpoch(kernel.program, pc'[u], pc[u])
    BY <1>3, <1>4, <1>5, EpochSymmetric DEF Length
  <2>4. QED
    BY <1>3, <1>4, <2>2, <2>3, EpochTransitive DEF Length
<1>10. Touched'
  <2>1. SUFFICES ASSUME NEW c \in Cells, NEW v \in Warps
                 PROVE  /\ v \in readers[c] => \E p \in 1 .. Length :
                              SameEpoch(kernel.program, p, pc[v]) /\ c \in Reads(kernel.program[p], v)
                        /\ v \in writers'[c] => \E p \in 1 .. Length :
                              SameEpoch(kernel.program, p, pc[v]) /\ c \in Writes(kernel.program[p], v)
    BY <1>2, <1>3, <1>6 DEF Touched
  <2>2. CASE v \in writers'[c] /\ v \notin writers[c]
    <3>1. v = w /\ c \in Writes(kernel.program[n], w)
      BY <1>1, <1>3, <2>2
    <3>2. SameEpoch(kernel.program, n, n)
      BY <1>3, EpochReflexive DEF Length
    <3>3. QED
      BY <1>1, <1>3, <3>1, <3>2 DEF Touched
  <2>3. CASE ~(v \in writers'[c] /\ v \notin writers[c])
    BY <1>1, <2>3 DEF Touched
  <2>4. QED
    BY <2>2, <2>3
<1>11. Unlaunched'
  BY <1>2 DEF Unlaunched
<1>12. ASSUME RaceFree(kernel) PROVE InStepInv'
  <2>1. MemoryInStep /\ RegInStep /\ ~raced
    BY <1>12 DEF IInv, InStepInv
  <2>2. ASSUME NEW c \in Writes(ph, w), NEW v \in Warps, NEW p \in 1 .. Length,
               v # w, SameEpoch(kernel.program, p, n)
        PROVE  /\ c \notin Writes(kernel.program[p], v)
               /\ c \notin Reads(kernel.program[p], v)
    <3>1. SameEpoch(kernel.program, n, p)
      BY <1>3, <2>2, EpochSymmetric
    <3>2. QED
      BY <1>3, <1>12, <2>2, <3>1 DEF RaceFree, Warps, Length
  <2>3. \A v \in Warps, c \in Cells : OthersWrite(v, c)' <=> OthersWrite(v, c)
    BY <1>2, <1>3, <1>6 DEF OthersWrite
  <2>4. \A v \in Warps : Executed(v)' = IF v = w THEN n ELSE Executed(v)
    BY <1>2, <1>3, <1>4 DEF Executed
  <2>5. Executed(w) = n - 1
    BY DEF Executed
  <2>6. InStep(kernel)[n] = After(InStep(kernel)[n - 1], ph, Threads)
    BY <1>1, <1>3, InStepFacts DEF TypeOK, Length, Threads, Warps
  <2>7. ASSUME NEW c \in Cells, ~OthersWrite(w, c)
        PROVE  mem'[c] = InStep(kernel)[n][c]
    <3>1. mem[c] = InStep(kernel)[n - 1][c]
      BY <2>1, <2>5, <2>7 DEF MemoryInStep
    <3>2. CASE c \in Writes(ph, w)
      <4>1. PICK t \in w : ph.op[t].dst = c
        BY <3>2 DEF Writes
      <4>2. c # NoCell
        BY <3>2 DEF Writes
      <4>3. w \subseteq Threads /\ t \in Threads
        BY DEF Threads
      <4>4. \A u \in Threads : ph.op[u].dst = c => u = t
        <5>1. \A p \in 1 .. Length : \A u, v \in Threads :
                kernel.program[p].op[u].dst = kernel.program[p].op[v].dst =>
                  u = v \/ kernel.program[p].op[u].dst = NoCell
          BY <1>1 DEF TypeOK, WellFormed, Threads, Warps, Length
        <5>2. \A u, v \in Threads : ph.op[u].dst = ph.op[v].dst => u = v \/ ph.op[u].dst = NoCell
          BY <1>3, <5>1, SMTT(60)
        <5> HIDE DEF ph
        <5>3. QED
          BY <4>1, <4>2, <4>3, <5>2
      <4>5. (CHOOSE u \in w : ph.op[u].dst = c) = t /\ (CHOOSE u \in Threads : ph.op[u].dst = c) = t
        BY <4>1, <4>3, <4>4
      <4>6. mem'[c] = reg[t]
        BY <3>2, <4>5
      <4>7. reg[t] = Sum(InStep(kernel)[n - 1], ph.op[t])
        BY <2>1, <4>1 DEF RegInStep
      <4>8. After(InStep(kernel)[n - 1], ph, Threads)[c] = Sum(InStep(kernel)[n - 1], ph.op[t])
        BY <4>1, <4>3, <4>5 DEF After
      <4>9. QED
        BY <2>6, <4>6, <4>7, <4>8
    <3>3. CASE c \notin Writes(ph, w)
      <4>1. mem'[c] = mem[c]
        BY <3>3
      <4>2. c # NoCell
        BY <1>1 DEF Cells, NoCell
      <4>3. ASSUME NEW t \in Threads, ph.op[t].dst = c PROVE FALSE
        <5>1. PICK v \in Warps : t \in v
          BY DEF Threads
        <5>2. c \in Writes(ph, v)
          BY <4>2, <4>3, <5>1 DEF Writes
        <5>3. v # w
          BY <3>3, <5>2
        <5>4. SameEpoch(kernel.program, n, n)
          BY <1>3, EpochReflexive DEF Length
        <5>5. QED
          BY <1>3, <2>7, <5>2, <5>3, <5>4 DEF OthersWrite
      <4>4. After(InStep(kernel)[n - 1], ph, Threads)[c] = InStep(kernel)[n - 1][c]
        BY <4>3 DEF After
      <4>5. QED
        BY <2>6, <3>1, <4>1, <4>4
    <3>4. QED
      BY <3>2, <3>3
  <2>8. MemoryInStep'
    <3>1. SUFFICES ASSUME NEW v \in Warps, NEW c \in Cells, ~OthersWrite(v, c)
                   PROVE  mem'[c] = InStep(kernel)[Executed(v)'][c]
      BY <1>2, <2>3 DEF MemoryInStep
    <3>2. CASE v = w
      BY <2>4, <2>7, <3>1, <3>2
    <3>3. CASE v # w
      <4>1. SameEpoch(kernel.program, n, pc[v])
        BY <1>1 DEF Together
      <4>2. c \notin Writes(ph, w)
        BY <1>3, <3>1, <3>3, <4>1 DEF OthersWrite
      <4>3. mem'[c] = mem[c]
        BY <4>2
      <4>4. QED
        BY <2>1, <2>4, <3>1, <3>3, <4>3 DEF MemoryInStep
    <3>4. QED
      BY <3>2, <3>3
  <2>9. RegInStep'
    <3>1. SUFFICES ASSUME NEW v \in Warps, stage'[v] = "store", NEW t \in v
                   PROVE  reg[t] = Sum(InStep(kernel)[pc'[v] - 1], kernel.program[pc'[v]].op[t])
      <4>1. reg' = reg
        OBVIOUS
      <4>2. QED
        BY <1>2, <4>1, Zenon DEF RegInStep, Phase
    <3>2. v # w /\ stage[v] = "store" /\ pc'[v] = pc[v]
      BY <1>3, <1>4, <3>1
    <3>3. QED
      BY <2>1, <3>1, <3>2 DEF RegInStep, Phase
  <2>10. ~raced'
    <3>1. SUFFICES ASSUME NEW c \in Writes(ph, w), NEW v \in readers[c] \cup writers[c], v # w
                   PROVE  FALSE
      BY <2>1
    <3>2. c \in Cells
      BY <1>1, <1>3, CellsTouched
    <3>3. v \in Warps
      BY <1>1, <3>1, <3>2 DEF TypeOK
    <3>4. PICK p \in 1 .. Length :
            /\ SameEpoch(kernel.program, p, pc[v])
            /\ c \in Reads(kernel.program[p], v) \cup Writes(kernel.program[p], v)
      BY <1>1, <3>1, <3>2, <3>3 DEF Touched
    <3>5. SameEpoch(kernel.program, p, n)
      BY <1>1, <1>3, <1>4, <3>3, <3>4, EpochTransitive DEF Together, Length
    <3>6. QED
      BY <2>2, <3>1, <3>3, <3>4, <3>5
  <2>11. QED
    BY <2>8, <2>9, <2>10 DEF InStepInv
<1>13. RaceFree(kernel)' => RaceFree(kernel)
  BY <1>2
<1>14. QED
  BY <1>7, <1>8, <1>9, <1>10, <1>11, <1>12, <1>13 DEF IInv

(* A barrier finds every warp at the same phase; what other warps have     *)
(* written before it becomes visible to all.                               *)
LEMMA BarrierInv ==
  ASSUME IInv, Barrier
  PROVE  IInv'
<1> USE DEF Barrier, BarrierWhen
<1>1. TypeOK /\ StagesOK /\ Together
  BY DEF IInv
<1>2. Warps' = Warps /\ Length' = Length /\ Threads' = Threads /\ kernel' = kernel
  BY DEF Warps, Length, Threads
<1>3. \A w \in Warps : /\ stage[w] = "barrier" /\ stage'[w] = "load"
                       /\ pc[w] \in 1 .. Length /\ pc'[w] = pc[w] + 1
                       /\ kernel.program[pc[w]].sync
  BY <1>1, StateTypes DEF StagesOK, Phase
<1>4. PICK w0 \in Warps : TRUE
  BY DEF Finished
<1> DEFINE n == pc[w0]
<1>5. Length \in Nat /\ n \in 1 .. Length
  BY <1>1, <1>3, StateTypes
<1>6. ASSUME NEW w \in Warps PROVE pc[w] = n
  <2>1. SameEpoch(kernel.program, pc[w], n)
    BY <1>1 DEF Together
  <2>2. QED
    BY <1>3, <1>5, <2>1, OneBarrier DEF Length
<1>7. \A w \in Warps : pc'[w] = n + 1 /\ Executed(w) = n /\ Executed(w)' = n
  BY <1>2, <1>3, <1>6 DEF Executed
<1>8. TypeOK'
  BY <1>1, BarrierType
<1>9. StagesOK'
  BY <1>2, <1>3 DEF StagesOK
<1>10. Together'
  BY <1>2, <1>5, <1>7, EpochReflexive DEF Together, Length
<1>11. Touched'
  BY DEF Touched, Nobody
<1>12. Unlaunched'
  BY <1>2 DEF Unlaunched
<1>13. ASSUME RaceFree(kernel) PROVE InStepInv'
  <2>1. mem = InStep(kernel)[n]
    BY <1>4, <1>5, <1>6, <1>7, <1>13, WholeArray
  <2>2. MemoryInStep'
    BY <1>2, <1>7, <2>1 DEF MemoryInStep
  <2>3. RegInStep'
    BY <1>2, <1>3 DEF RegInStep
  <2>4. ~raced'
    BY <1>13 DEF IInv, InStepInv
  <2>5. QED
    BY <2>2, <2>3, <2>4 DEF InStepInv
<1>14. RaceFree(kernel)' => RaceFree(kernel)
  BY <1>2
<1>15. QED
  BY <1>8, <1>9, <1>10, <1>11, <1>12, <1>13, <1>14 DEF IInv

(* A launch starts with every warp at the first phase and the memory of    *)
(* the kernel.                                                             *)
LEMMA LaunchInv ==
  ASSUME NEW k \in Launches, Launch(k)
  PROVE  IInv'
<1> USE DEF Launch
<1>1. TypeOK'
  BY LaunchType
<1>2. Warps' = k.warps /\ Length' = Len(k.program) /\ WellFormed(k)
  BY LaunchAssumption DEF Warps, Length
<1>3. Len(k.program) \in Nat /\ InStep(k)[0] = k.memory
  BY <1>2, KernelTypes, InStepFacts
<1>4. StagesOK'
  BY <1>2 DEF StagesOK
<1>5. Together'
  BY <1>2, <1>3, EpochReflexive DEF Together
<1>6. Touched'
  BY DEF Touched, Nobody
<1>7. Unlaunched'
  BY DEF Unlaunched
<1>8. InStepInv'
  <2>1. \A w \in Warps' : Executed(w)' = 0
    BY <1>2 DEF Executed
  <2>2. MemoryInStep'
    BY <1>3, <2>1 DEF MemoryInStep
  <2>3. RegInStep'
    BY <1>2 DEF RegInStep
  <2>4. QED
    BY <2>2, <2>3 DEF InStepInv
<1>9. QED
  BY <1>1, <1>4, <1>5, <1>6, <1>7, <1>8 DEF IInv

(* The inductive invariant holds throughout.                               *)
THEOREM Inductive == Spec => []IInv
<1>1. Init => IInv
  <2>1. SUFFICES ASSUME Init PROVE IInv
    OBVIOUS
  <2>2. TypeOK /\ Warps = {} /\ mem = kernel.memory /\ ~raced
    BY <2>1, InitFacts
  <2>3. StagesOK /\ Together /\ Unlaunched /\ MemoryInStep /\ RegInStep
    BY <2>2 DEF StagesOK, Together, Unlaunched, MemoryInStep, RegInStep
  <2>4. Touched
    BY <2>2 DEF Touched
  <2>5. QED
    BY <2>2, <2>3, <2>4 DEF IInv, InStepInv
<1>2. IInv /\ [Next]_vars => IInv'
  <2>1. SUFFICES ASSUME IInv, [Next]_vars PROVE IInv'
    OBVIOUS
  <2>2. CASE \E k \in Launches : Launch(k)
    BY <2>2, LaunchInv
  <2>3. CASE \E w \in Warps : Load(w)
    BY <2>1, <2>3, LoadInv
  <2>4. CASE \E w \in Warps : Store(w)
    BY <2>1, <2>4, StoreInv
  <2>5. CASE Barrier
    BY <2>1, <2>5, BarrierInv
  <2>6. CASE UNCHANGED vars
    BY <2>1, <2>6 DEF vars, IInv, TypeOK, StagesOK, Together, Touched, Unlaunched, InStepInv,
          MemoryInStep, RegInStep, Executed, OthersWrite, Warps, Threads, Length, Phase
  <2>7. QED
    BY <2>1, <2>2, <2>3, <2>4, <2>5, <2>6 DEF Next
<1>3. QED
  BY <1>1, <1>2, PTL DEF Spec

(* Type correctness of the execution of a block.                           *)
THEOREM TypeCorrect == Spec => []TypeOK
<1>1. IInv => TypeOK
  BY DEF IInv
<1>2. QED
  BY <1>1, Inductive, PTL

(* A kernel whose accesses are separated by barriers never races and ends  *)
(* with the array an execution in step would have left: no schedule of the *)
(* warps, and no division of the block into warps, changes its result.     *)
THEOREM BarriersSuffice == Spec => []Deterministic
<1>1. IInv => Deterministic
  <2>1. SUFFICES ASSUME IInv, RaceFree(kernel) PROVE ~raced /\ (Finished => mem = InStep(kernel)[Length])
    BY DEF Deterministic
  <2>2. TypeOK /\ StagesOK /\ ~raced
    BY <2>1 DEF IInv, InStepInv
  <2>3. Length \in Nat
    BY <2>2, StateTypes
  <2>4. ASSUME Finished PROVE mem = InStep(kernel)[Length]
    <3>1. \A w \in Warps : pc[w] = Length + 1 /\ Executed(w) = Length
      BY <2>2, <2>3, <2>4 DEF Finished, StagesOK, Executed
    <3>2. Warps = {} => Length = 0
      BY <2>2 DEF TypeOK, WellFormed, Warps, Length
    <3>3. QED
      BY <2>1, <2>3, <3>1, <3>2, WholeArray
  <2>5. QED
    BY <2>2, <2>4
<1>2. QED
  BY <1>1, Inductive, PTL

-----------------------------------------------------------------------------
(* A warp has read the operands of phase p; it has executed phase p.       *)
Loaded(w, p) == p < pc[w] \/ (p = pc[w] /\ stage[w] # "load")
Stored(w, p) == p < pc[w] \/ (p = pc[w] /\ stage[w] = "barrier")

(* No access of the current epoch goes unrecorded.                         *)
Recorded ==
  \A w \in Warps : \A p \in 1 .. Length :
    SameEpoch(kernel.program, p, pc[w]) =>
      /\ Loaded(w, p) => \A c \in Reads(kernel.program[p], w) : w \in readers[c]
      /\ Stored(w, p) => \A c \in Writes(kernel.program[p], w) : w \in writers[c]

(* Two conflicting accesses that have both happened have been noticed.     *)
Conflict(w, p, v, q) ==
  \/ Loaded(v, q) /\ Writes(kernel.program[p], w) \cap Reads(kernel.program[q], v) # {}
  \/ Stored(v, q) /\ Writes(kernel.program[p], w) \cap Writes(kernel.program[q], v) # {}

ConflictsSeen ==
  \A w, v \in Warps : \A p, q \in 1 .. Length :
    w # v /\ SameEpoch(kernel.program, p, q) /\ Stored(w, p) /\ Conflict(w, p, v, q) => raced

RaceInv == IInv /\ Recorded /\ ConflictsSeen

(* The phases of the current epoch are the same for every warp.            *)
LEMMA SameEpochForAll ==
  ASSUME IInv, NEW w \in Warps, NEW v \in Warps, NEW p \in 1 .. Length,
         SameEpoch(kernel.program, p, pc[w])
  PROVE  SameEpoch(kernel.program, p, pc[v])
<1>1. TypeOK /\ Together
  BY DEF IInv
<1>2. Len(kernel.program) \in Nat /\ p \in Int /\ pc[w] \in Int /\ pc[v] \in Int
  BY <1>1, StateTypes DEF Length
<1>3. SameEpoch(kernel.program, pc[w], pc[v])
  BY <1>1 DEF Together
<1>4. QED
  BY <1>2, <1>3, EpochTransitive

(* A load that meets what another warp has written is noticed.             *)
LEMMA LoadSeen ==
  ASSUME RaceInv, NEW w0 \in Warps, Load(w0)
  PROVE  Recorded' /\ ConflictsSeen'
<1> USE DEF Load
<1> DEFINE n == pc[w0]
<1>1. IInv /\ TypeOK /\ Recorded /\ ConflictsSeen
  BY DEF RaceInv, IInv
<1>2. Warps' = Warps /\ Length' = Length /\ kernel' = kernel /\ pc' = pc /\ writers' = writers
  BY DEF Warps, Length
<1>3. n \in 1 .. Length /\ \A w \in Warps : pc[w] \in Int
  BY <1>1, StateTypes
<1>4. stage' = [stage EXCEPT ![w0] = "store"] /\ stage \in [Warps -> {"load", "store", "barrier"}]
  BY <1>1 DEF TypeOK
<1>5. ASSUME NEW w \in Warps, NEW p \in 1 .. Length
      PROVE  /\ Loaded(w, p)' <=> Loaded(w, p) \/ (w = w0 /\ p = n)
             /\ Stored(w, p)' <=> Stored(w, p)
  <2>1. CASE w = w0
    BY <1>2, <1>4, <2>1 DEF Loaded, Stored
  <2>2. CASE w # w0
    BY <1>2, <1>4, <2>2 DEF Loaded, Stored
  <2>3. QED
    BY <2>1, <2>2
<1>6. ASSUME NEW c \in Cells
      PROVE  /\ readers[c] \subseteq readers'[c]
             /\ c \in Reads(kernel.program[n], w0) => w0 \in readers'[c]
  BY DEF Phase
<1>7. Recorded'
  <2>1. SUFFICES ASSUME NEW w \in Warps, NEW p \in 1 .. Length,
                        SameEpoch(kernel.program, p, pc[w])
                 PROVE  /\ Loaded(w, p)' => \A c \in Reads(kernel.program[p], w) : w \in readers'[c]
                        /\ Stored(w, p)' => \A c \in Writes(kernel.program[p], w) : w \in writers[c]
    BY <1>2 DEF Recorded
  <2>2. Reads(kernel.program[p], w) \subseteq Cells
    BY <1>1, CellsTouched
  <2>3. ASSUME Loaded(w, p)', NEW c \in Reads(kernel.program[p], w) PROVE w \in readers'[c]
    <3>1. CASE Loaded(w, p)
      BY <1>1, <1>6, <2>1, <2>2, <2>3, <3>1 DEF Recorded
    <3>2. CASE w = w0 /\ p = n
      BY <1>6, <2>2, <2>3, <3>2
    <3>3. QED
      BY <1>5, <2>3, <3>1, <3>2
  <2>4. Stored(w, p)' => \A c \in Writes(kernel.program[p], w) : w \in writers[c]
    BY <1>1, <1>5, <2>1 DEF Recorded
  <2>5. QED
    BY <2>3, <2>4
<1>8. ConflictsSeen'
  <2>1. SUFFICES ASSUME NEW w \in Warps, NEW v \in Warps, NEW p \in 1 .. Length,
                        NEW q \in 1 .. Length,
                        w # v, SameEpoch(kernel.program, p, q), Stored(w, p)',
                        Conflict(w, p, v, q)'
                 PROVE  raced'
    BY <1>2 DEF ConflictsSeen
  <2>2. Stored(w, p)
    BY <1>5, <2>1
  <2>3. CASE Conflict(w, p, v, q)
    BY <1>1, <2>1, <2>2, <2>3 DEF ConflictsSeen
  <2>4. CASE ~ Conflict(w, p, v, q)
    <3>1. v = w0 /\ q = n
          /\ Writes(kernel.program[p], w) \cap Reads(kernel.program[q], v) # {}
      BY <1>2, <1>5, <2>1, <2>4 DEF Conflict
    <3>2. PICK c : c \in Writes(kernel.program[p], w) /\ c \in Reads(kernel.program[n], w0)
      BY <3>1
    <3>3. SameEpoch(kernel.program, p, pc[w])
      BY <1>1, <2>1, <3>1, SameEpochForAll
    <3>4. w \in writers[c] \ {w0}
      BY <1>1, <2>1, <2>2, <3>1, <3>2, <3>3 DEF Recorded
    <3>5. \E d \in Reads(kernel.program[n], w0) : writers[d] \ {w0} # {}
      BY <3>2, <3>4
    <3>6. QED
      BY <3>5 DEF Phase
  <2>5. QED
    BY <2>3, <2>4
<1>9. QED
  BY <1>7, <1>8

(* A store that meets what another warp has read or written is noticed.    *)
LEMMA StoreSeen ==
  ASSUME RaceInv, NEW w0 \in Warps, Store(w0)
  PROVE  Recorded' /\ ConflictsSeen'
<1> USE DEF Store
<1> DEFINE n == pc[w0]
<1>1. IInv /\ TypeOK /\ StagesOK /\ Recorded /\ ConflictsSeen
  BY DEF RaceInv, IInv
<1>2. Warps' = Warps /\ Length' = Length /\ kernel' = kernel /\ readers' = readers
  BY DEF Warps, Length
<1>3. n \in 1 .. Length /\ Length \in Nat /\ \A w \in Warps : pc[w] \in Int
  BY <1>1, StateTypes DEF StagesOK
<1>4. /\ stage \in [Warps -> {"load", "store", "barrier"}] /\ stage[w0] = "store"
      /\ pc \in [Warps -> 1 .. Length + 1]
      /\ \A w \in Warps : w # w0 => pc'[w] = pc[w] /\ stage'[w] = stage[w]
      /\ \/ pc'[w0] = n /\ stage'[w0] = "barrier"
         \/ pc'[w0] = n + 1 /\ stage'[w0] = "load"
  BY <1>1 DEF TypeOK
<1>5. ASSUME NEW w \in Warps, NEW p \in 1 .. Length
      PROVE  /\ Loaded(w, p)' <=> Loaded(w, p)
             /\ Stored(w, p)' <=> Stored(w, p) \/ (w = w0 /\ p = n)
  <2>1. CASE w = w0
    <3>1. p \in Int /\ n \in Int /\ stage[w] = "store" /\ stage[w] # "barrier" /\ stage[w] # "load"
      BY <1>3, <1>4, <2>1
    <3>2. p < n + 1 <=> p < n \/ p = n
      BY <3>1
    <3>3. CASE pc'[w0] = n /\ stage'[w0] = "barrier"
      BY <2>1, <3>1, <3>3 DEF Loaded, Stored
    <3>4. CASE pc'[w0] = n + 1 /\ stage'[w0] = "load"
      <4>1. p = n + 1 => stage'[w0] # "barrier" /\ ~ (stage'[w0] # "load")
        BY <3>4
      <4>2. QED
        BY <2>1, <3>1, <3>2, <3>4, <4>1 DEF Loaded, Stored
    <3>5. QED
      BY <1>4, <3>3, <3>4
  <2>2. CASE w # w0
    BY <1>4, <2>2 DEF Loaded, Stored
  <2>3. QED
    BY <2>1, <2>2
<1>6. ASSUME NEW c \in Cells
      PROVE  /\ writers[c] \subseteq writers'[c]
             /\ c \in Writes(kernel.program[n], w0) => w0 \in writers'[c]
  BY DEF Phase
<1>7. ASSUME NEW w \in Warps, NEW p \in 1 .. Length, Loaded(w, p)' \/ Stored(w, p)',
             SameEpoch(kernel.program, p, pc'[w])
      PROVE  SameEpoch(kernel.program, p, pc[w])
  <2>1. CASE pc'[w] = pc[w]
    BY <1>7, <2>1
  <2>2. CASE pc'[w] # pc[w]
    <3>1. w = w0 /\ pc'[w] = n + 1 /\ stage'[w] = "load"
      BY <1>4, <2>2
    <3>2. p < n + 1
      <4>1. ~ (stage'[w] # "load") /\ stage'[w] # "barrier"
        BY <3>1
      <4>2. QED
        BY <1>7, <3>1, <4>1 DEF Loaded, Stored
    <3>3. p \in Int /\ n \in Int /\ p <= n
      BY <1>3, <3>2
    <3>4. QED
      BY <1>3, <1>7, <3>1, <3>3 DEF SameEpoch
  <2>3. QED
    BY <2>1, <2>2
<1>8. Recorded'
  <2>1. SUFFICES ASSUME NEW w \in Warps, NEW p \in 1 .. Length,
                        SameEpoch(kernel.program, p, pc'[w])
                 PROVE  /\ Loaded(w, p)' => \A c \in Reads(kernel.program[p], w) : w \in readers[c]
                        /\ Stored(w, p)' => \A c \in Writes(kernel.program[p], w) : w \in writers'[c]
    BY <1>2 DEF Recorded
  <2>2. Writes(kernel.program[p], w) \subseteq Cells
    BY <1>1, CellsTouched
  <2>3. Loaded(w, p)' => \A c \in Reads(kernel.program[p], w) : w \in readers[c]
    BY <1>1, <1>5, <1>7, <2>1 DEF Recorded
  <2>4. ASSUME Stored(w, p)', NEW c \in Writes(kernel.program[p], w) PROVE w \in writers'[c]
    <3>1. CASE Stored(w, p)
      BY <1>1, <1>6, <1>7, <2>1, <2>2, <2>4, <3>1 DEF Recorded
    <3>2. CASE w = w0 /\ p = n
      BY <1>6, <2>2, <2>4, <3>2
    <3>3. QED
      BY <1>5, <2>4, <3>1, <3>2
  <2>5. QED
    BY <2>3, <2>4
<1>9. ConflictsSeen'
  <2>1. SUFFICES ASSUME NEW w \in Warps, NEW v \in Warps, NEW p \in 1 .. Length,
                        NEW q \in 1 .. Length,
                        w # v, SameEpoch(kernel.program, p, q), Stored(w, p)',
                        Conflict(w, p, v, q)'
                 PROVE  raced'
    BY <1>2 DEF ConflictsSeen
  <2>2. Len(kernel.program) \in Nat /\ p \in Int /\ q \in Int
    BY <1>3 DEF Length
  <2>3. CASE Stored(w, p) /\ Conflict(w, p, v, q)
    BY <1>1, <2>1, <2>3 DEF ConflictsSeen
  <2>4. CASE ~ Stored(w, p)
    <3>1. w = w0 /\ p = n /\ Conflict(w, p, v, q)
      BY <1>2, <1>5, <2>1, <2>4 DEF Conflict
    <3>2. SameEpoch(kernel.program, q, pc[v])
      <4>1. SameEpoch(kernel.program, q, n)
        BY <2>1, <2>2, <3>1, EpochSymmetric
      <4>2. QED
        BY <1>1, <4>1, SameEpochForAll
    <3>3. PICK c : /\ c \in Writes(kernel.program[n], w0)
                   /\ v \in readers[c] \cup writers[c]
      <4>1. CASE Loaded(v, q) /\ Writes(kernel.program[p], w) \cap Reads(kernel.program[q], v) # {}
        BY <1>1, <3>1, <3>2, <4>1 DEF Recorded
      <4>2. CASE Stored(v, q) /\ Writes(kernel.program[p], w) \cap Writes(kernel.program[q], v) # {}
        BY <1>1, <3>1, <3>2, <4>2 DEF Recorded
      <4>3. QED
        BY <3>1, <4>1, <4>2 DEF Conflict
    <3>4. \E d \in Writes(kernel.program[n], w0) : (readers[d] \cup writers[d]) \ {w0} # {}
      BY <2>1, <3>1, <3>3
    <3>5. QED
      BY <3>4 DEF Phase
  <2>5. CASE Stored(w, p) /\ ~ Conflict(w, p, v, q)
    <3>1. v = w0 /\ q = n
          /\ Writes(kernel.program[p], w) \cap Writes(kernel.program[q], v) # {}
      BY <1>2, <1>5, <2>1, <2>5 DEF Conflict
    <3>2. PICK c : c \in Writes(kernel.program[p], w) /\ c \in Writes(kernel.program[n], w0)
      BY <3>1
    <3>3. SameEpoch(kernel.program, p, pc[w])
      BY <1>1, <2>1, <3>1, SameEpochForAll
    <3>4. w \in writers[c] \ {w0}
      BY <1>1, <2>1, <2>5, <3>1, <3>2, <3>3 DEF Recorded
    <3>5. \E d \in Writes(kernel.program[n], w0) : (readers[d] \cup writers[d]) \ {w0} # {}
      BY <3>2, <3>4
    <3>6. QED
      BY <3>5 DEF Phase
  <2>6. QED
    BY <2>3, <2>4, <2>5
<1>10. QED
  BY <1>8, <1>9

(* A barrier forgets the accesses of an epoch that is over.                *)
LEMMA BarrierSeen ==
  ASSUME RaceInv, Barrier
  PROVE  Recorded' /\ ConflictsSeen'
<1> USE DEF Barrier, BarrierWhen
<1>1. IInv /\ TypeOK /\ StagesOK /\ Recorded /\ ConflictsSeen
  BY DEF RaceInv, IInv
<1>2. Warps' = Warps /\ Length' = Length /\ kernel' = kernel /\ raced' = raced
  BY DEF Warps, Length
<1>3. \A w \in Warps : /\ stage[w] = "barrier" /\ stage'[w] = "load"
                       /\ pc[w] \in 1 .. Length /\ pc'[w] = pc[w] + 1
                       /\ kernel.program[pc[w]].sync
  BY <1>1, StateTypes DEF StagesOK, Phase
<1>4. ASSUME NEW w \in Warps, NEW p \in 1 .. Length
      PROVE  /\ Loaded(w, p)' <=> p <= pc[w]
             /\ Stored(w, p)' <=> p <= pc[w]
             /\ Loaded(w, p) <=> p <= pc[w]
             /\ Stored(w, p) <=> p <= pc[w]
  <2>1. p \in Int /\ pc[w] \in Int /\ stage[w] # "load" /\ stage'[w] # "barrier"
        /\ ~ (stage'[w] # "load")
    BY <1>3
  <2>2. (p < pc[w] + 1 <=> p <= pc[w]) /\ (p < pc[w] \/ p = pc[w] <=> p <= pc[w])
    BY <2>1
  <2>3. QED
    BY <1>3, <2>1, <2>2 DEF Loaded, Stored
<1>5. Recorded'
  <2>1. SUFFICES ASSUME NEW w \in Warps, NEW p \in 1 .. Length,
                        SameEpoch(kernel.program, p, pc'[w]), p <= pc[w]
                 PROVE  FALSE
    BY <1>2, <1>4 DEF Recorded
  <2>2. pc[w] < pc'[w] /\ pc[w] \in 1 .. Len(kernel.program) /\ kernel.program[pc[w]].sync
    BY <1>3 DEF Length
  <2>3. QED
    BY <2>1, <2>2 DEF SameEpoch
<1>6. ConflictsSeen'
  <2>1. SUFFICES ASSUME NEW w \in Warps, NEW v \in Warps, NEW p \in 1 .. Length,
                        NEW q \in 1 .. Length,
                        w # v, SameEpoch(kernel.program, p, q), Stored(w, p)',
                        Conflict(w, p, v, q)'
                 PROVE  raced
    BY <1>2 DEF ConflictsSeen
  <2>2. Stored(w, p) /\ Conflict(w, p, v, q)
    BY <1>2, <1>4, <2>1 DEF Conflict
  <2>3. QED
    BY <1>1, <2>1, <2>2 DEF ConflictsSeen
<1>7. QED
  BY <1>5, <1>6

(* A launch starts with no access made and none recorded.                  *)
LEMMA LaunchSeen ==
  ASSUME NEW k \in Launches, Launch(k)
  PROVE  Recorded' /\ ConflictsSeen'
<1> USE DEF Launch
<1>1. Warps' = k.warps /\ Length' = Len(k.program) /\ kernel' = k
  BY DEF Warps, Length
<1>2. ASSUME NEW w \in k.warps, NEW p \in 1 .. Len(k.program)
      PROVE  ~ Loaded(w, p)' /\ ~ Stored(w, p)'
  <2>1. pc'[w] = 1 /\ stage'[w] = "load" /\ stage'[w] # "barrier" /\ ~ (stage'[w] # "load")
    OBVIOUS
  <2>2. ~ (p < 1)
    OBVIOUS
  <2>3. QED
    BY <2>1, <2>2 DEF Loaded, Stored
<1>3. Recorded'
  BY <1>1, <1>2 DEF Recorded
<1>4. ConflictsSeen'
  BY <1>1, <1>2 DEF ConflictsSeen
<1>5. QED
  BY <1>3, <1>4

(* Whether a kernel races is seen in every execution of it, or in none:    *)
(* the accesses of the program and the division into warps decide it.      *)
THEOREM RacesSeen == Spec => [](Finished => (raced <=> ~RaceFree(kernel)))
<1>1. Init => Recorded /\ ConflictsSeen
  <2>1. SUFFICES ASSUME Init PROVE Recorded /\ ConflictsSeen
    OBVIOUS
  <2>2. Warps = {}
    BY <2>1, InitFacts
  <2>3. QED
    BY <2>2 DEF Recorded, ConflictsSeen
<1>2. IInv /\ (Recorded /\ ConflictsSeen) /\ [Next]_vars => (Recorded /\ ConflictsSeen)'
  <2>1. SUFFICES ASSUME RaceInv, [Next]_vars PROVE Recorded' /\ ConflictsSeen'
    BY DEF RaceInv
  <2>2. CASE \E k \in Launches : Launch(k)
    BY <2>2, LaunchSeen
  <2>3. CASE \E w \in Warps : Load(w)
    BY <2>1, <2>3, LoadSeen
  <2>4. CASE \E w \in Warps : Store(w)
    BY <2>1, <2>4, StoreSeen
  <2>5. CASE Barrier
    BY <2>1, <2>5, BarrierSeen
  <2>6. CASE UNCHANGED vars
    <3>1. Recorded'
      BY <2>1, <2>6 DEF vars, RaceInv, Recorded, Loaded, Stored, Warps, Length
    <3>2. ConflictsSeen'
      <4>1. Warps' = Warps /\ Length' = Length /\ kernel' = kernel /\ raced' = raced
            /\ pc' = pc /\ stage' = stage
        BY <2>6 DEF vars, Warps, Length
      <4>2. SUFFICES ASSUME NEW w \in Warps, NEW v \in Warps, NEW p \in 1 .. Length,
                            NEW q \in 1 .. Length,
                            w # v, SameEpoch(kernel.program, p, q), Stored(w, p)',
                            Conflict(w, p, v, q)'
                     PROVE  raced
        BY <4>1 DEF ConflictsSeen
      <4>3. Stored(w, p) /\ Conflict(w, p, v, q)
        BY <4>1, <4>2 DEF Stored, Loaded, Conflict
      <4>4. QED
        BY <2>1, <4>2, <4>3 DEF RaceInv, ConflictsSeen
    <3>3. QED
      BY <3>1, <3>2
  <2>7. QED
    BY <2>1, <2>2, <2>3, <2>4, <2>5, <2>6 DEF Next
<1>3. RaceInv => (Finished => (raced <=> ~RaceFree(kernel)))
  <2>1. SUFFICES ASSUME RaceInv, Finished PROVE raced <=> ~RaceFree(kernel)
    OBVIOUS
  <2>2. IInv /\ TypeOK /\ StagesOK /\ ConflictsSeen
    BY <2>1 DEF RaceInv, IInv
  <2>3. RaceFree(kernel) => ~raced
    BY <2>2 DEF IInv, InStepInv
  <2>4. ASSUME ~RaceFree(kernel) PROVE raced
    <3>1. PICK w \in Warps, v \in Warps, p \in 1 .. Length, q \in 1 .. Length :
            /\ w # v /\ SameEpoch(kernel.program, p, q)
            /\ Writes(kernel.program[p], w)
                 \cap (Reads(kernel.program[q], v) \cup Writes(kernel.program[q], v)) # {}
      BY <2>4 DEF RaceFree, Warps, Length
    <3>2. Stored(w, p) /\ Stored(v, q) /\ Loaded(v, q)
      <4>1. Length \in Nat /\ pc[w] = Length + 1 /\ pc[v] = Length + 1
        BY <2>1, <2>2, StateTypes DEF Finished
      <4>2. p < pc[w] /\ q < pc[v]
        BY <4>1
      <4>3. QED
        BY <4>2 DEF Stored, Loaded
    <3>3. Conflict(w, p, v, q)
      BY <3>1, <3>2 DEF Conflict
    <3>4. QED
      BY <2>2, <3>1, <3>2, <3>3 DEF ConflictsSeen
  <2>5. QED
    BY <2>3, <2>4
<1>4. QED
  <2>1. Spec => [](Recorded /\ ConflictsSeen)
    BY <1>1, <1>2, Inductive, PTL DEF Spec
  <2>2. IInv /\ (Recorded /\ ConflictsSeen) => RaceInv
    BY DEF RaceInv
  <2>3. QED
    BY <1>3, <2>1, <2>2, Inductive, PTL

-----------------------------------------------------------------------------
(* A round of one of the two functions.                                    *)
SumRound(phase, T, i) == phase = Round(T, i, TRUE) \/ phase = PairRound(T, i)

(* Thread u does not touch what thread t writes.                           *)
Apart(phase, t, u) ==
  phase.op[t].dst # NoCell =>
    phase.op[t].dst \notin {phase.op[u].dst, phase.op[u].left, phase.op[u].right}

(* What a thread of a round writes, another thread neither reads nor       *)
(* writes in that round.                                                   *)
LEMMA RoundsSeparate ==
  ASSUME NEW T \in Nat, NEW i \in Nat, NEW t \in 0 .. T - 1, NEW u \in 0 .. T - 1, t # u,
         NEW phase, SumRound(phase, T, i)
  PROVE  Apart(phase, t, u)
<1> SUFFICES ASSUME phase.op[t].dst # NoCell
             PROVE  phase.op[t].dst \notin {phase.op[u].dst, phase.op[u].left, phase.op[u].right}
  BY DEF Apart
<1> USE DEF Only, Below, AddTo, Assign, Idle, NoCell
<1>1. CASE phase = Round(T, i, TRUE)
  <2>1. t < i /\ phase.op[t].dst = t
    BY <1>1 DEF Round
  <2>2. \/ phase.op[u].dst = u /\ phase.op[u].left = u /\ phase.op[u].right = u + i
        \/ phase.op[u].dst = -1 /\ phase.op[u].left = -1 /\ phase.op[u].right = -1
    BY <1>1 DEF Round
  <2>3. QED
    BY <2>1, <2>2
<1>2. CASE phase = PairRound(T, i)
  <2>1. phase.op[t].dst = 2 * t
    BY <1>2 DEF PairRound
  <2>2. \/ phase.op[u].dst = 2 * u /\ phase.op[u].left = 2 * u /\ phase.op[u].right = 2 * u + 1
        \/ phase.op[u].dst = -1 /\ phase.op[u].left = -1 /\ phase.op[u].right = -1
    BY <1>2 DEF PairRound
  <2>3. QED
    BY <2>1, <2>2
<1>3. QED
  BY <1>1, <1>2 DEF SumRound

(* A kernel made of such rounds, as accumulate_sum of curveTest.cu and of  *)
(* DBCTest.cu are, is free of races for every block and division of it     *)
(* into warps.                                                             *)
THEOREM PointSumsRaceFree ==
  ASSUME NEW T \in Nat, NEW k, WellFormed(k), UNION k.warps \subseteq 0 .. T - 1,
         \A p \in 1 .. Len(k.program) :
           \E i \in Nat : SumRound(k.program[p], T, i)
  PROVE  RaceFree(k)
<1>1. SUFFICES ASSUME NEW w \in k.warps, NEW v \in k.warps, w # v,
                      NEW p \in 1 .. Len(k.program), NEW q \in 1 .. Len(k.program),
                      SameEpoch(k.program, p, q), NEW c \in Writes(k.program[p], w),
                      c \in Reads(k.program[q], v) \cup Writes(k.program[q], v)
               PROVE  FALSE
  BY DEF RaceFree
<1>2. Len(k.program) \in Nat
  BY KernelTypes
<1>3. \A r \in 1 .. Len(k.program) : k.program[r].sync
  <2>1. SUFFICES ASSUME NEW r \in 1 .. Len(k.program) PROVE k.program[r].sync
    OBVIOUS
  <2>2. PICK i \in Nat : SumRound(k.program[r], T, i)
    OBVIOUS
  <2>3. Round(T, i, TRUE).sync /\ PairRound(T, i).sync
    BY DEF Round, PairRound, Only
  <2>4. QED
    BY <2>2, <2>3 DEF SumRound
<1>4. p = q
  BY <1>1, <1>2, <1>3, OneBarrier
<1>5. PICK t \in w : k.program[p].op[t].dst = c /\ c # NoCell
  BY <1>1 DEF Writes
<1>6. PICK u \in v : c \in {k.program[p].op[u].dst, k.program[p].op[u].left, k.program[p].op[u].right}
  BY <1>1, <1>4 DEF Reads, Writes
<1>7. t # u /\ t \in 0 .. T - 1 /\ u \in 0 .. T - 1
  BY <1>1 DEF WellFormed
<1>8. PICK i \in Nat : SumRound(k.program[p], T, i)
  OBVIOUS
<1> DEFINE phase == k.program[p]
<1>9. /\ SumRound(phase, T, i)
      /\ phase.op[t].dst = c /\ c # NoCell
      /\ c \in {phase.op[u].dst, phase.op[u].left, phase.op[u].right}
  BY <1>5, <1>6, <1>8
<1> HIDE DEF phase
<1>10. Apart(phase, t, u)
  BY <1>7, <1>8, <1>9, RoundsSeparate
<1>11. QED
  BY <1>9, <1>10 DEF Apart
-----------------------------------------------------------------------------
(* The powers of two are the naturals the recursion says.                  *)
LEMMA TwoToFacts ==
  /\ TwoTo[0] = 1
  /\ \A n \in Nat : TwoTo[n + 1] = 2 * TwoTo[n]
  /\ \A n \in Nat : TwoTo[n] \in Nat \ {0}
<1> DEFINE h == [x \in Nat \X Nat |-> 2 * x[2]]
<1>1. Closed(Nat, h)
  BY DEF Closed
<1>2. PICK v \in [Nat -> Nat] : Iterates(v, 1, h)
  <2> HIDE DEF h
  <2>1. QED
    BY <1>1, IterationExists DEF Iterable
<1>3. v[0] = 1 /\ \A n \in Nat : v[n + 1] = 2 * v[n]
  BY <1>2 DEF Iterates
<1>4. v = [n \in Nat |-> IF n = 0 THEN 1 ELSE 2 * v[n - 1]]
  <2>1. ASSUME NEW n \in Nat PROVE v[n] = IF n = 0 THEN 1 ELSE 2 * v[n - 1]
    <3>1. CASE n = 0
      BY <1>3, <3>1
    <3>2. CASE n # 0
      <4>1. n - 1 \in Nat /\ (n - 1) + 1 = n
        BY <3>2
      <4>2. QED
        BY <1>3, <3>2, <4>1
    <3>3. QED
      BY <3>1, <3>2
  <2>2. QED
    BY <1>2, <2>1
<1> DEFINE g == CHOOSE f : f = [n \in Nat |-> IF n = 0 THEN 1 ELSE 2 * f[n - 1]]
<1>5. g = [n \in Nat |-> IF n = 0 THEN 1 ELSE 2 * g[n - 1]]
  BY <1>4
<1>6. TwoTo = g
  BY DEF TwoTo
<1> HIDE DEF g
<1>7. g[0] = 1 /\ \A n \in Nat : g[n + 1] = 2 * g[n]
  <2>1. \A n \in Nat : n + 1 \in Nat /\ n + 1 # 0 /\ (n + 1) - 1 = n
    OBVIOUS
  <2>2. QED
    BY <1>5, <2>1
<1> DEFINE S == {n \in Nat : g[n] \in Nat \ {0}}
<1>8. 0 \in S /\ \A n \in Nat : n \in S => n + 1 \in S
  BY <1>7
<1>9. Nat \subseteq S
  <2> HIDE DEF S
  <2>1. QED
    BY <1>8, SetInduction
<1>10. QED
  BY <1>6, <1>7, <1>9

(* They grow, and faster than their exponents.                             *)
LEMMA TwoToGrows ==
  ASSUME NEW n \in Nat
  PROVE  /\ n < TwoTo[n]
         /\ \A m \in Nat : m < n => TwoTo[m] < TwoTo[n]
<1> DEFINE S == {x \in Nat : x < TwoTo[x] /\ \A m \in Nat : m < x => TwoTo[m] < TwoTo[x]}
<1>1. 0 \in S
  BY TwoToFacts
<1>2. ASSUME NEW x \in Nat, x \in S PROVE x + 1 \in S
  <2>1. TwoTo[x] \in Nat /\ x < TwoTo[x] /\ TwoTo[x + 1] = 2 * TwoTo[x] /\ TwoTo[x] # 0
    BY <1>2, TwoToFacts
  <2>2. ASSUME NEW m \in Nat, m < x + 1 PROVE TwoTo[m] < TwoTo[x + 1]
    <3>1. TwoTo[m] \in Nat /\ (m = x \/ m < x)
      BY <2>2, TwoToFacts
    <3>2. TwoTo[m] <= TwoTo[x]
      BY <1>2, <2>1, <3>1
    <3>3. QED
      BY <2>1, <3>1, <3>2
  <2>3. x + 1 < TwoTo[x + 1]
    BY <2>1
  <2>4. QED
    BY <2>2, <2>3
<1>3. Nat \subseteq S
  <2> HIDE DEF S
  <2>1. QED
    BY <1>1, <1>2, SetInduction
<1>4. QED
  BY <1>3

(* Log2 finds the exponent again.                                          *)
LEMMA Log2Power ==
  ASSUME NEW n \in Nat
  PROVE  Log2(TwoTo[n]) = n
<1> DEFINE T == TwoTo[n]
<1>1. T \in Nat /\ n \in 0 .. T /\ TwoTo[n] = T
  BY TwoToFacts, TwoToGrows
<1>2. ASSUME NEW m \in 0 .. T, TwoTo[m] = T PROVE m = n
  <2>1. m \in Nat /\ T \in Nat
    BY <1>1
  <2>2. ~ (m < n) /\ ~ (n < m)
    BY <1>2, <2>1, TwoToGrows
  <2>3. QED
    BY <2>1, <2>2
<1>3. Log2(T) = CHOOSE m \in 0 .. T : TwoTo[m] = T
  BY DEF Log2
<1> HIDE DEF T
<1>4. Log2(T) = n
  BY <1>1, <1>2, <1>3
<1>5. QED
  BY <1>4 DEF T

-----------------------------------------------------------------------------
(* A program of n phases.                                                  *)
Phases(s, n) == n \in Nat /\ s = [p \in 1 .. n |-> s[p]]

(* Program c is a followed by b.                                           *)
Join(c, a, m, b, n) ==
  /\ m \in Nat /\ n \in Nat /\ Phases(c, m + n) /\ Len(c) = m + n
  /\ \A p \in 1 .. m : c[p] = a[p]
  /\ \A p \in 1 .. n : c[m + p] = b[p]

(* What concatenation does.                                                *)
LEMMA Concatenated ==
  ASSUME NEW a, NEW b, NEW m, NEW n, Phases(a, m), Phases(b, n)
  PROVE  Join(a \o b, a, m, b, n)
<1> DEFINE S == {a[p] : p \in 1 .. m} \cup {b[p] : p \in 1 .. n}
<1>1. m \in Nat /\ n \in Nat
  BY DEF Phases
<1>2. a \in [1 .. m -> S] /\ b \in [1 .. n -> S]
  BY DEF Phases
<1> HIDE DEF S
<1>3. a \in Seq(S) /\ b \in Seq(S) /\ Len(a) = m /\ Len(b) = n
  BY <1>1, <1>2
<1>4. /\ a \o b \in Seq(S) /\ Len(a \o b) = m + n
      /\ \A p \in 1 .. m + n : (a \o b)[p] = IF p <= m THEN a[p] ELSE b[p - m]
  BY <1>1, <1>3
<1>5. a \o b = [p \in 1 .. m + n |-> (a \o b)[p]]
  <2>1. \A s \in Seq(S) : s \in [1 .. Len(s) -> S]
    OBVIOUS
  <2>2. a \o b \in [1 .. m + n -> S]
    BY <1>4, <2>1
  <2>3. QED
    BY <2>2
<1>6. ASSUME NEW p \in 1 .. n PROVE (a \o b)[m + p] = b[p]
  <2>1. m + p \in 1 .. m + n /\ ~ (m + p <= m) /\ (m + p) - m = p
    BY <1>1
  <2>2. QED
    BY <1>4, <2>1
<1>7. QED
  BY <1>1, <1>4, <1>5, <1>6, SMTT(60) DEF Phases, Join

(* Programs joined one after the other.                                    *)
LEMMA Joined ==
  ASSUME NEW a, NEW b, NEW m, NEW n, Phases(a, m), Phases(b, n), NEW c, c = a \o b
  PROVE  Join(c, a, m, b, n) /\ Phases(c, m + n)
<1>1. Join(a \o b, a, m, b, n)
  BY Concatenated
<1>2. Join(c, a, m, b, n)
  BY <1>1
<1>3. QED
  BY <1>2 DEF Join

(* Programs of one to three phases.                                        *)
LEMMA ShortPrograms ==
  /\ \A x : Phases(<<x>>, 1) /\ <<x>>[1] = x
  /\ \A x, y : Phases(<<x, y>>, 2) /\ <<x, y>>[1] = x /\ <<x, y>>[2] = y
  /\ \A x, y, z : Phases(<<x, y, z>>, 3) /\ <<x, y, z>>[1] = x /\ <<x, y, z>>[2] = y
                                         /\ <<x, y, z>>[3] = z
BY DEF Phases

-----------------------------------------------------------------------------
(* Launch k is a kernel on T threads, 2^n of them; h is half of them.      *)
BlockOf(k, n, T, h) ==
  /\ n \in Nat /\ n >= 2
  /\ h = TwoTo[n - 1] /\ h \in Nat /\ h >= 2
  /\ T = TwoTo[n] /\ T \in Nat /\ T = 2 * h /\ Log2(T) = n
  /\ UNION k.warps = 0 .. T - 1
  /\ k.name \in Names
  /\ k.name = "kernel_rhs65" => n = 2
  /\ MAX_CELL \in Nat /\ T <= MAX_CELL
  /\ k.program = KernelOf(k.name, T)
  /\ k.memory = MemoryOf(k.name) /\ k.sums = SumsOf(k.name, T)
  /\ \E W \in Nat \ {0} : k.warps = WarpsOf(T, W)

(* Every launch of the code is one.                                        *)
LEMMA LaunchedBlock ==
  ASSUME NEW k \in Launches
  PROVE  WellFormed(k) /\ \E n, T, h \in Nat : BlockOf(k, n, T, h)
<1>1. WellFormed(k) /\ MAX_CELL \in Nat
  BY LaunchAssumption
<1>2. PICK n \in 2 .. MAX_CELL : /\ TwoTo[n] <= MAX_CELL
                                 /\ UNION k.warps = 0 .. TwoTo[n] - 1
                                 /\ k.name = "kernel_rhs65" => n = 2
                                 /\ \E W \in 1 .. MAX_CELL :
                                      k = LaunchOf(k.name, TwoTo[n], W)
  BY KernelsAssumption
<1>3. k.name \in Names
  BY KernelsAssumption
<1>4. PICK W \in 1 .. MAX_CELL : k = LaunchOf(k.name, TwoTo[n], W)
  BY <1>2
<1>5. /\ k.program = KernelOf(k.name, TwoTo[n]) /\ k.warps = WarpsOf(TwoTo[n], W)
      /\ k.memory = MemoryOf(k.name) /\ k.sums = SumsOf(k.name, TwoTo[n])
  BY <1>4 DEF LaunchOf
<1> DEFINE h == TwoTo[n - 1]
           T == TwoTo[n]
<1>6. n \in Nat /\ n >= 2 /\ W \in Nat \ {0} /\ n - 1 \in Nat /\ (n - 1) + 1 = n
  BY <1>1
<1>7. h \in Nat /\ T \in Nat /\ T = 2 * h
  BY <1>6, TwoToFacts
<1>8. h >= 2
  <2>1. n - 1 < h
    BY <1>6, TwoToGrows
  <2>2. QED
    BY <1>6, <1>7, <2>1
<1>9. Log2(T) = n
  BY <1>6, Log2Power
<1>10. /\ h = TwoTo[n - 1] /\ T = TwoTo[n] /\ UNION k.warps = 0 .. T - 1
       /\ k.program = KernelOf(k.name, T) /\ k.warps = WarpsOf(T, W)
       /\ k.memory = MemoryOf(k.name) /\ k.sums = SumsOf(k.name, T)
       /\ MAX_CELL \in Nat /\ T <= MAX_CELL
  BY <1>1, <1>2, <1>5
<1> HIDE DEF h, T
<1>11. BlockOf(k, n, T, h)
  BY <1>2, <1>3, <1>6, <1>7, <1>8, <1>9, <1>10 DEF BlockOf
<1>12. QED
  BY <1>1, <1>6, <1>7, <1>11

(* A block of several warps: thread 0 and the first thread of the upper    *)
(* half are in different ones.                                             *)
LEMMA HalvesApart ==
  ASSUME NEW k, NEW n, NEW T, NEW h, BlockOf(k, n, T, h),
         NEW x \in k.warps, NEW y \in k.warps, x # y
  PROVE  \E w \in k.warps, v \in k.warps : w # v /\ 0 \in w /\ h \in v
<1>1. h \in Nat \ {0} /\ T \in Nat /\ T = 2 * h /\ UNION k.warps = 0 .. T - 1
  BY DEF BlockOf
<1>2. PICK W \in Nat \ {0} : k.warps = WarpsOf(T, W)
  BY DEF BlockOf
<1> DEFINE m == T \div W
           warp(i) == {i * W + t : t \in 0 .. W - 1}
<1>3. m \in Nat /\ T = (W * m) + (T % W) /\ T % W \in 0 .. W - 1
  BY <1>1
<1>4. \A w \in k.warps : \E i \in 0 .. m - 1 : w = warp(i)
  BY <1>2 DEF WarpsOf
<1> HIDE DEF m
<1>5. PICK w \in k.warps : 0 \in w
  <2>1. 0 \in 0 .. T - 1
    BY <1>1
  <2>2. QED
    BY <1>1, <2>1
<1>6. PICK v \in k.warps : h \in v
  <2>1. h \in 0 .. T - 1
    BY <1>1
  <2>2. QED
    BY <1>1, <2>1
<1>7. ASSUME w = v PROVE FALSE
  <2>1. PICK i \in 0 .. m - 1 : w = warp(i)
    BY <1>4
  <2>2. PICK t \in 0 .. W - 1 : 0 = i * W + t
    BY <1>5, <2>1
  <2>3. PICK u \in 0 .. W - 1 : h = i * W + u
    BY <1>6, <1>7, <2>1
  <2>4. h < W
    <3> DEFINE s == i * W
    <3>1. i \in Nat /\ W \in Nat /\ s \in Nat
      BY <1>3
    <3>2. 0 = s + t /\ h = s + u
      BY <2>2, <2>3
    <3> HIDE DEF s
    <3>3. QED
      BY <3>1, <3>2
  <2>5. m <= 1
    <3>1. SUFFICES ASSUME m >= 2 PROVE FALSE
      BY <1>3
    <3>2. PICK e \in Nat : m = 2 + e
      <4>1. m - 2 \in Nat /\ m = 2 + (m - 2)
        BY <1>3, <3>1
      <4>2. QED
        BY <4>1
    <3>3. W * (2 + e) = W + W + W * e /\ W * e \in Nat
      OBVIOUS
    <3> DEFINE f == W * e
    <3>4. T = W + W + f + (T % W) /\ f \in Nat
      BY <1>3, <3>2, <3>3
    <3> HIDE DEF f
    <3>5. QED
      BY <1>1, <1>3, <2>4, <3>4
  <2>6. x = warp(0) /\ y = warp(0)
    <3>1. \A j \in 0 .. m - 1 : j = 0
      BY <1>3, <2>5
    <3>2. PICK i1 \in 0 .. m - 1 : x = warp(i1)
      BY <1>4
    <3>3. PICK i2 \in 0 .. m - 1 : y = warp(i2)
      BY <1>4
    <3>4. i1 = 0 /\ i2 = 0
      BY <3>1
    <3>5. QED
      BY <3>2, <3>3, <3>4
  <2>7. QED
    BY <2>6
<1>8. QED
  BY <1>5, <1>6, <1>7

(* In phase p thread t writes a cell that thread u touches in the next,    *)
(* and no barrier lies between.                                            *)
Clash(program, p, t, u) ==
  LET a == program[p].op[t]
      b == program[p + 1].op[u]
  IN  /\ p \in 1 .. Len(program) - 1
      /\ ~program[p].sync
      /\ a.dst # NoCell /\ a.dst \in {b.dst, b.left, b.right}

(* If these threads are in different warps, they race.                     *)
LEMMA ClashRaces ==
  ASSUME NEW k, WellFormed(k), NEW w \in k.warps, NEW v \in k.warps, w # v,
         NEW t \in w, NEW u \in v, NEW p, Clash(k.program, p, t, u)
  PROVE  ~RaceFree(k)
<1> DEFINE c == k.program[p].op[t].dst
<1>1. Len(k.program) \in Nat
  BY KernelTypes
<1>2. p \in 1 .. Len(k.program) /\ p + 1 \in 1 .. Len(k.program) /\ ~k.program[p].sync
  <2>1. p \in 1 .. Len(k.program) - 1 /\ ~k.program[p].sync
    BY DEF Clash
  <2>2. QED
    BY <1>1, <2>1
<1>3. SameEpoch(k.program, p, p + 1)
  BY <1>1, <1>2, EpochGoesOn
<1>4. c # NoCell /\ c \in {k.program[p + 1].op[u].dst, k.program[p + 1].op[u].left,
                           k.program[p + 1].op[u].right}
  BY DEF Clash
<1> HIDE DEF c
<1>5. c \in Writes(k.program[p], w)
  BY <1>4 DEF Writes, c
<1>6. c \in Reads(k.program[p + 1], v) \cup Writes(k.program[p + 1], v)
  BY <1>4 DEF Writes, Reads
<1>7. QED
  BY <1>2, <1>3, <1>5, <1>6 DEF RaceFree

-----------------------------------------------------------------------------
(* A halving sum begins by adding the upper half of the cells to the lower.*)
LEMMA HalvingStarts ==
  ASSUME NEW k, NEW n, NEW T, NEW h, BlockOf(k, n, T, h)
  PROVE  Phases(Halving(T, TRUE), n) /\ Halving(T, TRUE)[1] = Round(T, h, TRUE)
<1>1. n \in Nat /\ n >= 2 /\ h \in Nat /\ Log2(T) = n /\ T = 2 * h
  BY DEF BlockOf
<1>2. Halving(T, TRUE) = [r \in 1 .. n |-> Round(T, T \div TwoTo[r], TRUE)]
  BY <1>1 DEF Halving
<1>3. TwoTo[1] = 2
  <2>1. 0 \in Nat /\ 0 + 1 = 1
    OBVIOUS
  <2>2. QED
    BY <2>1, TwoToFacts
<1>4. T \div 2 = h
  BY <1>1
<1>5. 1 \in 1 .. n
  BY <1>1
<1>6. Halving(T, TRUE)[1] = Round(T, T \div TwoTo[1], TRUE)
  BY <1>2, <1>5
<1>7. QED
  BY <1>1, <1>2, <1>3, <1>4, <1>6 DEF Phases

(* Cells filled and summed without a barrier between: thread 0 reads, in   *)
(* the first round, the cell the first thread of the upper half fills.     *)
LEMMA FillThenRound ==
  ASSUME NEW program, NEW p, p \in 1 .. Len(program) - 1,
         NEW T \in Nat, NEW h \in Nat, T = 2 * h, h >= 2, NEW i,
         program[p] = Fill(T, 0, i, FALSE), program[p + 1] = Round(T, h, TRUE)
  PROVE  Clash(program, p, h, 0)
<1> DEFINE a == program[p]
           b == program[p + 1]
           base == 0
           zero == 0
<1>1. h \in 0 .. T - 1 /\ zero \in 0 .. T - 1 /\ zero < h /\ zero = 0 /\ base = 0
  OBVIOUS
<1>2. a = Fill(T, base, i, FALSE) /\ b = Round(T, h, TRUE)
  OBVIOUS
<1>3. program[p] = a /\ program[p + 1] = b
  OBVIOUS
<1> HIDE DEF a, b, base, zero
<1>4. a.op[h] = Put(base + h, i + h) /\ a.sync = FALSE
  BY <1>1, <1>2 DEF Fill, Only, Below
<1>5. b.op[zero] = AddTo(zero, zero + h)
  BY <1>1, <1>2 DEF Round, Only, Below
<1>6. a.op[h].dst = h /\ b.op[zero].right = h /\ h # NoCell
  BY <1>1, <1>4, <1>5 DEF Put, AddTo, Assign, NoCell
<1>7. QED
  BY <1>1, <1>3, <1>4, <1>6 DEF Clash

(* A program that has these two phases somewhere: x ends in the first one, *)
(* y begins with the other.                                                *)
LEMMA FillJoined ==
  ASSUME NEW k, NEW n, NEW T, NEW h, BlockOf(k, n, T, h), NEW i,
         NEW program, NEW x, NEW l, NEW y, NEW m, Join(program, x, l, y, m),
         l >= 1, m >= 1, x[l] = Fill(T, 0, i, FALSE), y[1] = Round(T, h, TRUE)
  PROVE  Clash(program, l, h, 0)
<1>1. h \in Nat /\ h >= 2 /\ T \in Nat /\ T = 2 * h /\ l \in Nat /\ m \in Nat
  BY DEF BlockOf, Join
<1>2. Len(program) = l + m /\ program[l] = x[l] /\ program[l + 1] = y[1]
  <2>1. l \in 1 .. l /\ 1 \in 1 .. m
    BY <1>1
  <2>2. QED
    BY <2>1 DEF Join
<1>3. l \in 1 .. Len(program) - 1
  BY <1>1, <1>2
<1>4. QED
  BY <1>1, <1>2, <1>3, FillThenRound

(* A clash in a program is one in every program that contains it.          *)
LEMMA ClashFirst ==
  ASSUME NEW c, NEW a, NEW m, NEW b, NEW n, Join(c, a, m, b, n), Len(a) = m,
         NEW p, NEW t, NEW u, Clash(a, p, t, u)
  PROVE  Clash(c, p, t, u)
<1>1. m \in Nat /\ n \in Nat /\ Len(c) = m + n /\ p \in 1 .. m - 1
  BY DEF Join, Clash
<1>2. c[p] = a[p] /\ c[p + 1] = a[p + 1]
  <2>1. p \in 1 .. m /\ p + 1 \in 1 .. m
    BY <1>1
  <2>2. QED
    BY <2>1 DEF Join
<1>3. p \in 1 .. Len(c) - 1
  BY <1>1
<1>4. QED
  BY <1>2, <1>3 DEF Clash

(* The same when it is in the second part.                                 *)
LEMMA ClashSecond ==
  ASSUME NEW c, NEW a, NEW m, NEW b, NEW n, Join(c, a, m, b, n), Len(b) = n,
         NEW p, NEW t, NEW u, Clash(b, p, t, u)
  PROVE  Clash(c, m + p, t, u)
<1>1. m \in Nat /\ n \in Nat /\ Len(c) = m + n /\ p \in 1 .. n - 1
  BY DEF Join, Clash
<1>2. c[m + p] = b[p] /\ c[m + p + 1] = b[p + 1]
  <2>1. p \in 1 .. n /\ p + 1 \in 1 .. n /\ m + (p + 1) = m + p + 1
    BY <1>1
  <2>2. QED
    BY <2>1 DEF Join
<1>3. m + p \in 1 .. Len(c) - 1
  BY <1>1
<1>4. QED
  BY <1>2, <1>3 DEF Clash

(* Some pair of threads 0 and h clashes.                                   *)
HalvesClash(program, h) ==
  \E p \in Nat : Clash(program, p, h, 0) \/ Clash(program, p, 0, h)

(* kernel_calip68 sums the products without a barrier after forming them.  *)
LEMMA CalIp68Clashes ==
  ASSUME NEW k, NEW n, NEW T, NEW h, BlockOf(k, n, T, h)
  PROVE  HalvesClash(CalIp68(T), h)
<1> DEFINE fill == <<Fill(T, 0, 0, FALSE)>>
           sum == Halving(T, TRUE)
           one == 1
           i == 0
<1>1. Phases(fill, one) /\ fill[one] = Fill(T, 0, i, FALSE)
  BY ShortPrograms
<1>2. Phases(sum, n) /\ sum[1] = Round(T, h, TRUE) /\ n \in Nat /\ n >= 1 /\ one \in Nat /\ one >= 1
  <2>1. Phases(sum, n) /\ sum[1] = Round(T, h, TRUE)
    BY HalvingStarts
  <2>2. n \in Nat /\ n >= 1 /\ one \in Nat /\ one >= 1
    BY DEF BlockOf
  <2>3. QED
    BY <2>1, <2>2
<1>3. CalIp68(T) = fill \o sum
  BY DEF CalIp68
<1> HIDE DEF fill, sum, one, i
<1>4. Join(CalIp68(T), fill, one, sum, n)
  BY <1>1, <1>2, <1>3, Joined
<1>5. Clash(CalIp68(T), one, h, 0)
  BY <1>1, <1>2, <1>4, FillJoined
<1>6. QED
  BY <1>2, <1>5 DEF HalvesClash

(* kernel_cal_vlr begins in the same way.                                  *)
LEMMA CalVlrClashes ==
  ASSUME NEW k, NEW n, NEW T, NEW h, BlockOf(k, n, T, h)
  PROVE  HalvesClash(CalVlr(T), h)
<1> DEFINE start == CalIp68(T)
           tail == <<Thread0(T, Copy(T, 0), FALSE), Thread0(T, Put(0, T), FALSE)>>
           two == 2
           l == 1 + n
<1>1. Phases(tail, two)
  BY ShortPrograms
<1>2. Phases(start, l) /\ Len(start) = l
  <2> DEFINE fill == <<Fill(T, 0, 0, FALSE)>>
             sum == Halving(T, TRUE)
             one == 1
  <2>1. Phases(fill, one)
    BY ShortPrograms
  <2>2. Phases(sum, n)
    BY HalvingStarts
  <2>3. start = fill \o sum /\ l = one + n
    BY DEF CalIp68
  <2> HIDE DEF fill, sum, one, start, l
  <2>4. Join(start, fill, one, sum, n)
    BY <2>1, <2>2, <2>3, Joined
  <2>5. QED
    BY <2>3, <2>4 DEF Join
<1>3. HalvesClash(start, h)
  BY CalIp68Clashes
<1>4. CalVlr(T) = start \o tail
  BY DEF CalVlr, CalIp68
<1> HIDE DEF start, tail, two, l
<1>5. Join(CalVlr(T), start, l, tail, two)
  BY <1>1, <1>2, <1>4, Joined
<1>6. ASSUME NEW p \in Nat, NEW t, NEW u, Clash(start, p, t, u)
      PROVE  Clash(CalVlr(T), p, t, u)
  BY <1>2, <1>5, <1>6, ClashFirst
<1>7. QED
  BY <1>3, <1>6 DEF HalvesClash

(* kernel_cal_t12 fills the cells for its second sum, which follows at     *)
(* once.                                                                   *)
LEMMA CalT12Clashes ==
  ASSUME NEW k, NEW n, NEW T, NEW h, BlockOf(k, n, T, h)
  PROVE  HalvesClash(CalT12(T), h)
<1> DEFINE fill == <<Fill(T, 0, 0, TRUE)>>
           sum == Halving(T, TRUE)
           lh == 2 * T
           T12 == 2 * T + 1
           first == Thread0(T, Copy(lh, 0), FALSE)
           again == Fill(T, 0, T, FALSE)
           pair == <<first, again>>
           b == <<Thread0(T, Assign(T, lh, 0, 0), FALSE), Fill(T, 0, 2 * T, FALSE)>>
           twoT == [tx \in {0, 1} |-> Copy(T12 + tx, T + tx)]
           e == <<Thread0(T, Copy(T + 1, 0), FALSE), Only(T, {0, 1}, twoT, FALSE),
                  Thread0(T, Assign(2 * T + 3, T12, T12 + 1, 0), FALSE)>>
           one == 1
           two == 2
           three == 3
           c1 == fill \o sum
           c2 == c1 \o pair
           c3 == c2 \o sum
           c4 == c3 \o b
           c5 == c4 \o sum
<1>1. /\ Phases(fill, one) /\ Phases(pair, two) /\ Phases(b, two) /\ Phases(e, three)
      /\ pair[2] = again
  BY ShortPrograms
<1>2. Phases(sum, n) /\ sum[1] = Round(T, h, TRUE) /\ n \in Nat /\ n >= 2
  <2>1. Phases(sum, n) /\ sum[1] = Round(T, h, TRUE)
    BY HalvingStarts
  <2>2. n \in Nat /\ n >= 2
    BY DEF BlockOf
  <2>3. QED
    BY <2>1, <2>2
<1>3. CalT12(T) = c5 \o e
  BY DEF CalT12
<1>4. /\ c1 = fill \o sum /\ c2 = c1 \o pair /\ c3 = c2 \o sum
      /\ c4 = c3 \o b /\ c5 = c4 \o sum
      /\ again = Fill(T, 0, T, FALSE) /\ one = 1 /\ two = 2
  OBVIOUS
<1> HIDE DEF fill, sum, first, again, pair, b, e, one, two, three, c1, c2, c3, c4, c5
<1>5. Phases(c1, one + n)
  BY <1>1, <1>2, <1>4, Joined
<1>6. Join(c2, c1, one + n, pair, two) /\ Phases(c2, (one + n) + two)
  BY <1>1, <1>4, <1>5, Joined
<1> DEFINE l == (one + n) + two
<1>7. l \in Nat /\ l >= 1 /\ l = (one + n) + 2
  BY <1>2, <1>4
<1> HIDE DEF l
<1>8. Phases(c2, l) /\ c2[l] = again
  <2>1. 2 \in 1 .. two
    BY <1>4
  <2>2. c2[(one + n) + 2] = pair[2]
    BY <1>6, <2>1 DEF Join
  <2>3. QED
    BY <1>1, <1>6, <1>7, <2>2 DEF l
<1>9. Join(c3, c2, l, sum, n) /\ Phases(c3, l + n)
  BY <1>2, <1>4, <1>8, Joined
<1>10. Clash(c3, l, h, 0)
  <2>1. c2[l] = Fill(T, 0, T, FALSE) /\ n >= 1
    BY <1>2, <1>4, <1>8
  <2>2. QED
    BY <1>2, <1>7, <1>9, <2>1, FillJoined
<1>11. Join(c4, c3, l + n, b, two) /\ Phases(c4, (l + n) + two)
  BY <1>1, <1>4, <1>9, Joined
<1>12. Join(c5, c4, (l + n) + two, sum, n) /\ Phases(c5, ((l + n) + two) + n)
  BY <1>2, <1>4, <1>11, Joined
<1>13. Join(CalT12(T), c5, ((l + n) + two) + n, e, three)
  BY <1>1, <1>3, <1>12, Joined
<1>14. Clash(c4, l, h, 0)
  <2>1. Len(c3) = l + n
    BY <1>9 DEF Join
  <2>2. QED
    BY <1>10, <1>11, <2>1, ClashFirst
<1>15. Clash(c5, l, h, 0)
  <2>1. Len(c4) = (l + n) + two
    BY <1>11 DEF Join
  <2>2. QED
    BY <1>12, <1>14, <2>1, ClashFirst
<1>16. Clash(CalT12(T), l, h, 0)
  <2>1. Len(c5) = ((l + n) + two) + n
    BY <1>12 DEF Join
  <2>2. QED
    BY <1>13, <1>15, <2>1, ClashFirst
<1>17. QED
  BY <1>7, <1>16 DEF HalvesClash

(* kernel_calP fills two cells per thread; the thread in the middle sums   *)
(* into the cell thread 0 has filled last.                                 *)
LEMMA CalPClashes ==
  ASSUME NEW k, NEW n, NEW T, NEW h, BlockOf(k, n, T, h)
  PROVE  HalvesClash(CalP(T), h)
<1> DEFINE a == Fill(T, T, T, FALSE)
           fill == <<Fill(T, 0, 0, FALSE), a>>
           do(r) == [tx \in 0 .. T - 1 |-> AddTo(2 * tx, 2 * tx + TwoTo[r - 1])]
           sum == [r \in 1 .. Log2(T) + 1 |-> Only(T, EachMultiple(T, TwoTo[r - 1]), do(r), TRUE)]
           e == <<Thread0(T, Assign(0, 0, NoCell, Input[2 * T]), FALSE),
                  Thread0(T, Put(1, 2 * T + 1), FALSE), Thread0(T, AddTo(0, 1), FALSE)>>
           b == sum[1]
           two == 2
           three == 3
           l == n + 1
           c == fill \o sum
           zero == 0
<1>1. Phases(fill, two) /\ Phases(e, three) /\ fill[2] = a
  BY ShortPrograms
<1>2. n \in Nat /\ n >= 2 /\ Log2(T) = n /\ T \in Nat /\ h \in Nat /\ h >= 2 /\ T = 2 * h
  BY DEF BlockOf
<1>3. Phases(sum, l)
  BY <1>2 DEF Phases
<1>4. CalP(T) = c \o e
  BY DEF CalP
<1>5. a.op[zero].dst = T /\ a.sync = FALSE /\ T # NoCell
  <2>1. zero \in 0 .. T - 1 /\ zero = 0
    BY <1>2
  <2> HIDE DEF zero
  <2>2. a.op[zero] = Put(T + zero, T + zero) /\ a.sync = FALSE
    BY <2>1 DEF Fill, Only, Below
  <2> HIDE DEF a
  <2>3. a.op[zero].dst = T + zero
    BY <2>2 DEF Put, Assign
  <2>4. QED
    BY <1>2, <2>1, <2>2, <2>3 DEF NoCell
<1>6. b.op[h].dst = T
  <2>1. 1 \in 1 .. Log2(T) + 1 /\ h \in 0 .. T - 1
    BY <1>2
  <2>2. b = Only(T, EachMultiple(T, TwoTo[1 - 1]), do(1), TRUE)
    BY <2>1
  <2>3. TwoTo[1 - 1] = 1
    BY TwoToFacts
  <2>4. h \in EachMultiple(T, 1)
    BY <1>2, <2>1 DEF EachMultiple
  <2>5. do(1)[h] = AddTo(2 * h, 2 * h + TwoTo[1 - 1])
    BY <2>1
  <2> HIDE DEF do, b
  <2>6. b.op[h] = do(1)[h]
    BY <2>1, <2>2, <2>3, <2>4 DEF Only
  <2>7. QED
    BY <1>2, <2>5, <2>6 DEF AddTo, Assign
<1>7. c = fill \o sum /\ b = sum[1] /\ two = 2 /\ l = n + 1 /\ zero = 0
  OBVIOUS
<1> HIDE DEF a, fill, do, sum, e, b, two, three, l, c, zero
<1>8. Join(c, fill, two, sum, l) /\ Phases(c, two + l)
  BY <1>1, <1>3, <1>7, Joined
<1>9. Join(CalP(T), c, two + l, e, three)
  BY <1>1, <1>4, <1>8, Joined
<1>10. Clash(c, two, zero, h)
  <2>1. Len(c) = two + l /\ c[2] = a /\ c[3] = b
    <3>1. 2 \in 1 .. two /\ 1 \in 1 .. l /\ two + 1 = 3
      BY <1>2, <1>7
    <3>2. c[2] = fill[2] /\ c[two + 1] = sum[1] /\ Len(c) = two + l
      BY <1>8, <3>1 DEF Join
    <3>3. QED
      BY <1>1, <1>7, <3>1, <3>2
  <2>2. two \in 1 .. Len(c) - 1 /\ c[two] = a /\ c[two + 1] = b
    BY <1>2, <1>7, <2>1
  <2>3. QED
    BY <1>5, <1>6, <2>2 DEF Clash
<1>11. Clash(CalP(T), two, zero, h)
  <2>1. Len(c) = two + l
    BY <1>8 DEF Join
  <2>2. QED
    BY <1>9, <1>10, <2>1, ClashFirst
<1>12. QED
  BY <1>7, <1>11 DEF HalvesClash

(* kernel_rhs65: thread 2 reads what thread 0 has just put there.          *)
LEMMA Rhs65Clashes == HalvesClash(Rhs65, 2)
<1> DEFINE put(c) == Thread0(4, Put(c, c), FALSE)
           do == [tx \in 0 .. 3 |-> Copy(4 + tx, tx)]
           copy == Only(4, Below(4), do, FALSE)
           a == <<put(0), put(3), put(1), put(2), copy>>
           b == [r \in 1 .. 2 |->
                  Only(4, EachMultiple(4, TwoTo[r]),
                       [tx \in 0 .. 3 |-> AddTo(4 + tx, 4 + tx + TwoTo[r - 1])], FALSE)]
           five == 5
           two == 2
           four == 4
           zero == 0
<1>1. Phases(a, five) /\ Phases(b, two) /\ Len(a) = 5
  BY DEF Phases
<1>2. Rhs65 = a \o b
  BY DEF Rhs65
<1>3. a[4] = put(2) /\ a[5] = copy
  OBVIOUS
<1>4. put(2).op[0].dst = 2 /\ put(2).sync = FALSE
  BY DEF Thread0, Only, Put, Assign
<1>5. copy.op[2].left = 2
  BY DEF Only, Below, Copy, Assign
<1>6. five = 5 /\ two = 2 /\ four = 4 /\ zero = 0
  OBVIOUS
<1> HIDE DEF put, copy, do, a, b, five, two, four, zero
<1>7. Join(Rhs65, a, five, b, two)
  BY <1>1, <1>2, Joined
<1>8. Clash(a, four, zero, two)
  <2>1. four \in 1 .. Len(a) - 1 /\ a[four] = put(2) /\ a[four + 1] = copy
    BY <1>1, <1>3, <1>6
  <2>2. QED
    BY <1>4, <1>5, <1>6, <2>1 DEF Clash, NoCell
<1>9. Clash(Rhs65, four, zero, two)
  BY <1>1, <1>6, <1>7, <1>8, ClashFirst
<1>10. QED
  BY <1>6, <1>9 DEF HalvesClash

(* kernel_cal_S has no barriers in its loop: in the last round thread 0    *)
(* adds the sum the thread in the middle has made in the round before.     *)
LEMMA CalSClashes ==
  ASSUME NEW k, NEW n, NEW T, NEW h, BlockOf(k, n, T, h)
  PROVE  HalvesClash(CalS(T), h)
<1> DEFINE fill == <<Fill(T, 0, 0, TRUE)>>
           sum == CalSRounds(T)
           e == <<Thread0(T, Put(1, T), FALSE), Thread0(T, AddTo(0, 1), FALSE)>>
           c == fill \o sum
           do(r) == [tx \in 0 .. T - 1 |-> AddTo(tx, tx + TwoTo[r - 1])]
           q == n - 1
           one == 1
           two == 2
           zero == 0
<1>1. Phases(fill, one) /\ Phases(e, two)
  BY ShortPrograms
<1>2. /\ n \in Nat /\ n >= 2 /\ Log2(T) = n /\ T \in Nat /\ h \in Nat /\ h >= 2 /\ T = 2 * h
      /\ h = TwoTo[n - 1] /\ T = TwoTo[n]
  BY DEF BlockOf
<1>3. CalS(T) = c \o e
  BY DEF CalS, CalSFrom
<1>4. sum = [r \in 1 .. n |-> Only(T, EachMultiple(T, TwoTo[r]), do(r), FALSE)]
  BY <1>2 DEF CalSRounds
<1>5. Phases(sum, n) /\ Len(sum) = n
  BY <1>2, <1>4 DEF Phases
<1>6. /\ sum[q] = Only(T, EachMultiple(T, h), do(q), FALSE)
      /\ sum[q + 1] = Only(T, EachMultiple(T, T), do(n), FALSE)
  <2>1. q \in 1 .. n /\ q + 1 \in 1 .. n /\ q + 1 = n /\ TwoTo[q] = h /\ TwoTo[q + 1] = T
    BY <1>2
  <2> HIDE DEF sum, do, q
  <2>2. /\ sum[q] = Only(T, EachMultiple(T, TwoTo[q]), do(q), FALSE)
        /\ sum[q + 1] = Only(T, EachMultiple(T, TwoTo[q + 1]), do(q + 1), FALSE)
    BY <1>4, <2>1
  <2>3. QED
    BY <2>1, <2>2
<1>7. sum[q].op[h].dst = h /\ sum[q].sync = FALSE
  <2>1. h \in 0 .. T - 1
    BY <1>2
  <2>2. h % h = 0
    <3>1. 1 \in Nat /\ 0 \in 0 .. h - 1 /\ h * 1 + 0 = h /\ h \in Nat \ {0}
      BY <1>2
    <3> DEFINE x == 1
               y == 0
    <3>2. x \in Nat /\ y \in 0 .. h - 1 /\ h * x + y = h /\ y = 0
      BY <3>1
    <3> HIDE DEF x, y
    <3>3. (h * x + y) % h = y
      BY <3>1, <3>2, RemainderUnique
    <3>4. QED
      BY <3>2, <3>3
  <2>3. h \in EachMultiple(T, h)
    BY <2>1, <2>2 DEF EachMultiple
  <2>4. do(q)[h] = AddTo(h, h + TwoTo[q - 1])
    BY <2>1
  <2> HIDE DEF do, sum
  <2>5. sum[q].op[h] = do(q)[h] /\ sum[q].sync = FALSE
    BY <1>6, <2>1, <2>3 DEF Only
  <2>6. QED
    BY <2>4, <2>5 DEF AddTo, Assign
<1>8. sum[q + 1].op[zero].right = h
  <2>1. zero \in 0 .. T - 1 /\ zero = 0
    BY <1>2
  <2>2. zero % T = 0
    BY <1>2
  <2> HIDE DEF zero
  <2>3. zero \in EachMultiple(T, T)
    BY <2>1, <2>2 DEF EachMultiple
  <2>4. do(n)[zero] = AddTo(zero, zero + h)
    BY <1>2, <2>1
  <2> HIDE DEF do, sum
  <2>5. sum[q + 1].op[zero] = do(n)[zero]
    BY <1>6, <2>1, <2>3 DEF Only
  <2>6. QED
    BY <1>2, <2>1, <2>4, <2>5 DEF AddTo, Assign
<1>9. c = fill \o sum /\ zero = 0 /\ one = 1 /\ q = n - 1
  OBVIOUS
<1> HIDE DEF fill, sum, e, c, do, q, one, two, zero
<1>10. Clash(sum, q, h, zero)
  <2>1. q \in 1 .. Len(sum) - 1 /\ h # NoCell
    BY <1>2, <1>5, <1>9 DEF NoCell
  <2>2. QED
    BY <1>7, <1>8, <2>1 DEF Clash
<1>11. Join(c, fill, one, sum, n) /\ Phases(c, one + n)
  BY <1>1, <1>5, <1>9, Joined
<1>12. Join(CalS(T), c, one + n, e, two)
  BY <1>1, <1>3, <1>11, Joined
<1>13. Clash(c, one + q, h, zero)
  BY <1>5, <1>10, <1>11, ClashSecond
<1>14. Clash(CalS(T), one + q, h, zero)
  <2>1. Len(c) = one + n
    BY <1>11 DEF Join
  <2>2. QED
    BY <1>12, <1>13, <2>1, ClashFirst
<1>15. one + q \in Nat
  BY <1>2, <1>9
<1>16. QED
  BY <1>9, <1>14, <1>15 DEF HalvesClash

(* Whichever kernel of the range proof it is.                              *)
LEMMA OthersClash ==
  ASSUME NEW k, NEW n, NEW T, NEW h, BlockOf(k, n, T, h), k.name \notin PointSums
  PROVE  HalvesClash(k.program, h)
<1>1. k.program = KernelOf(k.name, T) /\ k.name \in Names
  BY DEF BlockOf
<1>2. CASE k.name = "kernel_cal_S"
  BY <1>1, <1>2, CalSClashes DEF KernelOf
<1>3. CASE k.name = "kernel_cal_t12"
  BY <1>1, <1>3, CalT12Clashes DEF KernelOf
<1>4. CASE k.name = "kernel_cal_vlr"
  BY <1>1, <1>4, CalVlrClashes DEF KernelOf
<1>5. CASE k.name = "kernel_calP"
  BY <1>1, <1>5, CalPClashes DEF KernelOf
<1>6. CASE k.name = "kernel_rhs65"
  <2>1. k.program = Rhs65
    BY <1>1, <1>6 DEF KernelOf
  <2>2. h = 2
    <3>1. n = 2 /\ h = TwoTo[n - 1]
      BY <1>6 DEF BlockOf
    <3>2. 0 \in Nat /\ 2 - 1 = 0 + 1
      OBVIOUS
    <3>3. TwoTo[0 + 1] = 2
      BY <3>2, TwoToFacts
    <3>4. QED
      BY <3>1, <3>2, <3>3
  <2>3. QED
    BY <2>1, <2>2, Rhs65Clashes
<1>7. CASE k.name = "kernel_calip68"
  BY <1>1, <1>7, CalIp68Clashes DEF KernelOf
<1>8. QED
  BY <1>1, <1>2, <1>3, <1>4, <1>5, <1>6, <1>7 DEF Names

(* The two sums of points consist of rounds.                               *)
LEMMA PointSumRounds ==
  ASSUME NEW k, NEW n, NEW T, NEW h, BlockOf(k, n, T, h), k.name \in PointSums
  PROVE  \A p \in 1 .. Len(k.program) : \E i \in Nat : SumRound(k.program[p], T, i)
<1>1. n \in Nat /\ Log2(T) = n /\ T \in Nat /\ k.program = KernelOf(k.name, T)
  BY DEF BlockOf
<1>2. \A r \in Nat : T \div TwoTo[r] \in Nat /\ (2 * T) \div TwoTo[r] \in Nat
  <2>1. SUFFICES ASSUME NEW r \in Nat
                 PROVE  T \div TwoTo[r] \in Nat /\ (2 * T) \div TwoTo[r] \in Nat
    OBVIOUS
  <2>2. TwoTo[r] \in Nat \ {0}
    BY TwoToFacts
  <2>3. QED
    BY <1>1, <2>2
<1>3. CASE k.name = "accumulate_sum"
  <2>1. k.program = [r \in 1 .. n + 1 |-> Round(T, (2 * T) \div TwoTo[r], TRUE)]
    BY <1>1, <1>3 DEF KernelOf, AccumulateSum, SumRounds
  <2>2. Len(k.program) = n + 1
    BY <1>1, <2>1
  <2>3. ASSUME NEW p \in 1 .. n + 1
        PROVE  \E i \in Nat : SumRound(k.program[p], T, i)
    <3>1. p \in Nat /\ k.program[p] = Round(T, (2 * T) \div TwoTo[p], TRUE)
      BY <1>1, <2>1
    <3>2. QED
      BY <1>2, <3>1 DEF SumRound
  <2>4. QED
    BY <2>2, <2>3
<1>4. CASE k.name = "accumulate_sum_DBC"
  <2>1. k.program = [r \in 1 .. n |-> PairRound(T, T \div TwoTo[r])]
    BY <1>1, <1>4 DEF KernelOf, AccumulatePairs
  <2>2. Len(k.program) = n
    BY <1>1, <2>1
  <2>3. ASSUME NEW p \in 1 .. n
        PROVE  \E i \in Nat : SumRound(k.program[p], T, i)
    <3>1. p \in Nat /\ k.program[p] = PairRound(T, T \div TwoTo[p])
      BY <1>1, <2>1
    <3>2. QED
      BY <1>2, <3>1 DEF SumRound
  <2>4. QED
    BY <2>2, <2>3
<1>5. QED
  BY <1>3, <1>4 DEF PointSums

(* A set with two elements is not of cardinality 1, and conversely.        *)
LEMMA SeveralWarps ==
  ASSUME NEW S, IsFiniteSet(S)
  PROVE  Cardinality(S) \in Nat /\ (Cardinality(S) > 1 <=> \E x, y \in S : x # y)
<1>1. Cardinality(S) \in Nat
  BY FS_CardinalityType
<1>2. (Cardinality(S) = 0 <=> S = {}) /\ (Cardinality(S) = 1 <=> \E x : S = {x})
  BY FS_EmptySet, FS_Singleton
<1>3. Cardinality(S) > 1 <=> ~ (S = {}) /\ ~ (\E x : S = {x})
  BY <1>1, <1>2
<1>4. (~ (S = {}) /\ ~ (\E x : S = {x})) <=> \E x, y \in S : x # y
  OBVIOUS
<1>5. QED
  BY <1>1, <1>3, <1>4

(* The threads of a block are finitely many, and so are its warps.         *)
LEMMA WarpsFinite ==
  ASSUME NEW k, NEW n, NEW T, NEW h, BlockOf(k, n, T, h)
  PROVE  IsFiniteSet(k.warps)
<1> DEFINE S == 0 .. T - 1
<1>1. T \in Nat /\ UNION k.warps = S
  BY DEF BlockOf
<1>2. IsFiniteSet(S)
  <2> DEFINE a == 0
             b == T - 1
  <2>1. a \in Int /\ b \in Int /\ S = a .. b
    BY <1>1
  <2> HIDE DEF a, b, S
  <2>2. IsFiniteSet(a .. b)
    BY <2>1, FS_Interval
  <2>3. QED
    BY <2>1, <2>2
<1> HIDE DEF S
<1>3. IsFiniteSet(SUBSET S)
  BY <1>2, FS_SUBSET
<1>4. k.warps \in SUBSET (SUBSET S)
  BY <1>1
<1>5. QED
  BY <1>3, <1>4, FS_Subset

(* Which launches are free of races: the two sums of points, and every     *)
(* kernel whose threads are one warp.                                      *)
LEMMA WhichRace ==
  ASSUME NEW k \in Launches
  PROVE  /\ Cardinality(k.warps) \in Nat
         /\ ~RaceFree(k) <=> k.name \notin PointSums /\ Cardinality(k.warps) > 1
<1>1. WellFormed(k)
  BY LaunchedBlock
<1>2. PICK n, T, h \in Nat : BlockOf(k, n, T, h)
  BY LaunchedBlock
<1>3. /\ Cardinality(k.warps) \in Nat
      /\ Cardinality(k.warps) > 1 <=> \E x, y \in k.warps : x # y
  BY <1>2, WarpsFinite, SeveralWarps
<1>4. CASE k.name \in PointSums
  <2>1. T \in Nat /\ UNION k.warps \subseteq 0 .. T - 1
    BY <1>2 DEF BlockOf
  <2>2. \A p \in 1 .. Len(k.program) : \E i \in Nat : SumRound(k.program[p], T, i)
    BY <1>2, <1>4, PointSumRounds
  <2>3. RaceFree(k)
    BY <1>1, <2>1, <2>2, PointSumsRaceFree
  <2>4. QED
    BY <1>3, <1>4, <2>3
<1>5. CASE ~ (\E x, y \in k.warps : x # y)
  <2>1. RaceFree(k)
    BY <1>5 DEF RaceFree
  <2>2. QED
    BY <1>3, <1>5, <2>1
<1>6. CASE k.name \notin PointSums /\ \E x, y \in k.warps : x # y
  <2>1. PICK w \in k.warps, v \in k.warps : w # v /\ 0 \in w /\ h \in v
    BY <1>2, <1>6, HalvesApart
  <2>2. PICK p \in Nat : Clash(k.program, p, h, 0) \/ Clash(k.program, p, 0, h)
    BY <1>2, <1>6, OthersClash DEF HalvesClash
  <2> DEFINE zero == 0
  <2>3. zero \in w /\ (Clash(k.program, p, h, zero) \/ Clash(k.program, p, zero, h))
    BY <2>1, <2>2
  <2> HIDE DEF zero
  <2>4. ~RaceFree(k)
    BY <1>1, <2>1, <2>3, ClashRaces
  <2>5. QED
    BY <1>3, <1>6, <2>4
<1>7. QED
  BY <1>4, <1>5, <1>6

(* The kernel being executed is one of the launches, but before the first. *)
KernelIsLaunched == Launched => kernel \in Launches

(* It is: programs change by a launch only.                                *)
LEMMA LaunchedOnly == Spec => []KernelIsLaunched
<1>1. Init => KernelIsLaunched
  BY DEF Init, KernelIsLaunched, Launched
<1>2. KernelIsLaunched /\ [Next]_vars => KernelIsLaunched'
  <2>1. SUFFICES ASSUME KernelIsLaunched, [Next]_vars PROVE KernelIsLaunched'
    OBVIOUS
  <2>2. CASE \E k \in Launches : Launch(k)
    BY <2>2 DEF Launch, KernelIsLaunched
  <2>3. CASE kernel' = kernel
    BY <2>1, <2>3 DEF KernelIsLaunched, Launched
  <2>4. kernel' = kernel \/ \E k \in Launches : Launch(k)
    BY <2>1 DEF Next, vars, Load, Store, Barrier, BarrierWhen
  <2>5. QED
    BY <2>2, <2>3, <2>4
<1>3. QED
  BY <1>1, <1>2, PTL DEF Spec

(* Which kernels race: for every size of block that is a power of two,     *)
(* from four threads, every division into warps of one size and every      *)
(* schedule, the two sums of points never do, and each kernel of the range *)
(* proof does, in every execution, as soon as its threads are two warps.   *)
THEOREM RacesDecided == Spec => []RacesExactly
<1>1. IInv /\ KernelIsLaunched /\ (Finished => (raced <=> ~RaceFree(kernel))) => RacesExactly
  <2>1. SUFFICES ASSUME IInv, KernelIsLaunched, Finished => (raced <=> ~RaceFree(kernel)),
                        Launched, Finished
                 PROVE  /\ raced = ~RaceFree(kernel)
                        /\ raced = (kernel.name \notin PointSums /\ Cardinality(Warps) > 1)
    BY DEF RacesExactly
  <2>2. kernel \in Launches /\ raced \in BOOLEAN /\ (raced <=> ~RaceFree(kernel))
    BY <2>1 DEF KernelIsLaunched, IInv, TypeOK
  <2>3. ~RaceFree(kernel) <=> kernel.name \notin PointSums /\ Cardinality(Warps) > 1
    BY <2>2, WhichRace DEF Warps
  <2>4. RaceFree(kernel) \in BOOLEAN
    BY DEF RaceFree
  <2>5. QED
    BY <2>2, <2>3, <2>4
<1>2. QED
  BY <1>1, LaunchedOnly, Inductive, RacesSeen, PTL

-----------------------------------------------------------------------------
(* Sums of the values of a function on the naturals.                       *)
IsPrefix(s, v) == s[0] = 0 /\ \A n \in Nat : s[n + 1] = s[n] + v[n]
Prefix(v) == CHOOSE s \in [Nat -> Int] : IsPrefix(s, v)

(* They exist.                                                             *)
LEMMA PrefixFacts ==
  ASSUME NEW v \in [Nat -> Int]
  PROVE  /\ Prefix(v) \in [Nat -> Int]
         /\ Prefix(v)[0] = 0
         /\ \A n \in Nat : Prefix(v)[n + 1] = Prefix(v)[n] + v[n]
<1> DEFINE h == [x \in Nat \X Int |-> x[2] + v[x[1]]]
           zero == 0
<1>1. Closed(Int, h) /\ zero \in Int /\ zero = 0
  BY DEF Closed
<1>2. \A n \in Nat, x \in Int : h[<<n, x>>] = x + v[n]
  OBVIOUS
<1> HIDE DEF h, zero
<1>3. PICK s \in [Nat -> Int] : Iterates(s, zero, h)
  BY <1>1, IterationExists DEF Iterable
<1>4. s[0] = 0 /\ \A n \in Nat : s[n + 1] = s[n] + v[n]
  BY <1>1, <1>2, <1>3 DEF Iterates
<1>5. \E f \in [Nat -> Int] : IsPrefix(f, v)
  BY <1>4 DEF IsPrefix
<1>6. Prefix(v) \in [Nat -> Int] /\ IsPrefix(Prefix(v), v)
  BY <1>5 DEF Prefix
<1>7. QED
  BY <1>6 DEF IsPrefix

(* Adding the upper half to the lower does not change the sum.             *)
LEMMA PrefixHalves ==
  ASSUME NEW v \in [Nat -> Int], NEW w \in [Nat -> Int], NEW i \in Nat,
         \A c \in Nat : c < i => w[c] = v[c] + v[c + i]
  PROVE  Prefix(w)[i] = Prefix(v)[i + i]
<1> DEFINE p == Prefix(v)
           q == Prefix(w)
           S == {j \in Nat : j <= i => q[j] = p[j] + p[i + j] - p[i]}
<1>1. /\ p \in [Nat -> Int] /\ p[0] = 0 /\ \A n \in Nat : p[n + 1] = p[n] + v[n]
      /\ q \in [Nat -> Int] /\ q[0] = 0 /\ \A n \in Nat : q[n + 1] = q[n] + w[n]
  BY PrefixFacts
<1> HIDE DEF p, q
<1>2. 0 \in S
  BY <1>1
<1>3. ASSUME NEW j \in Nat, j \in S PROVE j + 1 \in S
  <2>1. SUFFICES ASSUME j + 1 <= i PROVE q[j + 1] = p[j + 1] + p[i + (j + 1)] - p[i]
    OBVIOUS
  <2>2. q[j] = p[j] + p[i + j] - p[i] /\ w[j] = v[j] + v[j + i] /\ i + j \in Nat
    BY <1>3, <2>1
  <2>3. q[j + 1] = q[j] + w[j] /\ p[j + 1] = p[j] + v[j] /\ p[(i + j) + 1] = p[i + j] + v[i + j]
    BY <1>1, <2>2
  <2>4. i + (j + 1) = (i + j) + 1 /\ j + i = i + j
    OBVIOUS
  <2>5. /\ p[j] \in Int /\ p[i + j] \in Int /\ p[i] \in Int /\ v[j] \in Int /\ v[i + j] \in Int
    BY <1>1, <2>2
  <2>6. QED
    BY <2>2, <2>3, <2>4, <2>5
<1>4. Nat \subseteq S
  <2> HIDE DEF S
  <2>1. QED
    BY <1>2, <1>3, SetInduction
<1>5. q[i] = p[i] + p[i + i] - p[i]
  BY <1>4
<1>6. p[i] \in Int /\ p[i + i] \in Int
  BY <1>1
<1>7. QED
  BY <1>5, <1>6 DEF p, q

(* What SumTo is.                                                          *)
LEMMA SumToFacts ==
  ASSUME MAX_CELL \in Nat
  PROVE  /\ SumTo[0] = 0
         /\ \A n \in 0 .. Operands - 1 : SumTo[n + 1] = SumTo[n] + Input[n] /\ Input[n] \in Int
         /\ \A n \in 0 .. Operands : SumTo[n] \in Int
<1> DEFINE v == [n \in Nat |-> IF n < Operands THEN Input[n] ELSE 0]
           s == [n \in 0 .. Operands |-> Prefix(v)[n]]
<1>1. Operands \in Nat
  BY DEF Operands
<1>2. \A n \in 0 .. Operands - 1 : Input[n] \in Int
  BY InputAssumption
<1>3. v \in [Nat -> Int] /\ \A n \in 0 .. Operands - 1 : v[n] = Input[n]
  BY <1>1, <1>2
<1> HIDE DEF v
<1>4. /\ Prefix(v) \in [Nat -> Int] /\ Prefix(v)[0] = 0
      /\ \A n \in Nat : Prefix(v)[n + 1] = Prefix(v)[n] + v[n]
  BY <1>3, PrefixFacts
<1>5. s = [n \in 0 .. Operands |-> IF n = 0 THEN 0 ELSE s[n - 1] + Input[n - 1]]
  <2>1. ASSUME NEW n \in 0 .. Operands
        PROVE  Prefix(v)[n] = IF n = 0 THEN 0 ELSE s[n - 1] + Input[n - 1]
    <3>1. CASE n = 0
      BY <1>4, <3>1
    <3>2. CASE n # 0
      <4>1. n - 1 \in Nat /\ n - 1 \in 0 .. Operands - 1 /\ n - 1 \in 0 .. Operands
            /\ (n - 1) + 1 = n
        BY <1>1, <3>2
      <4>2. Prefix(v)[(n - 1) + 1] = Prefix(v)[n - 1] + v[n - 1]
        BY <1>4, <4>1
      <4>3. QED
        BY <1>3, <3>2, <4>1, <4>2
    <3>3. QED
      BY <3>1, <3>2
  <2>2. QED
    BY <2>1
<1> DEFINE g == CHOOSE f : f = [n \in 0 .. Operands |-> IF n = 0 THEN 0
                                                       ELSE f[n - 1] + Input[n - 1]]
<1>6. g = [n \in 0 .. Operands |-> IF n = 0 THEN 0 ELSE g[n - 1] + Input[n - 1]]
  <2> HIDE DEF s
  <2>1. QED
    BY <1>5
<1>7. SumTo = g
  BY DEF SumTo
<1> HIDE DEF g, s
<1>8. g[0] = 0 /\ \A n \in 0 .. Operands - 1 : g[n + 1] = g[n] + Input[n]
  <2>1. 0 \in 0 .. Operands
    BY <1>1
  <2>2. \A n \in 0 .. Operands - 1 : n + 1 \in 0 .. Operands /\ n + 1 # 0 /\ (n + 1) - 1 = n
    BY <1>1
  <2>3. QED
    BY <1>6, <2>1, <2>2
<1> DEFINE S == {n \in Nat : n <= Operands => g[n] \in Int}
<1>9. 0 \in S
  BY <1>8
<1>10. ASSUME NEW n \in Nat, n \in S PROVE n + 1 \in S
  <2>1. SUFFICES ASSUME n + 1 <= Operands PROVE g[n + 1] \in Int
    OBVIOUS
  <2>2. n \in 0 .. Operands - 1 /\ g[n] \in Int
    BY <1>1, <1>10, <2>1
  <2>3. QED
    BY <1>2, <1>8, <2>2
<1>11. Nat \subseteq S
  <2> HIDE DEF S
  <2>1. QED
    BY <1>9, <1>10, SetInduction
<1>12. \A n \in 0 .. Operands : g[n] \in Int
  BY <1>1, <1>11
<1>13. QED
  BY <1>2, <1>7, <1>8, <1>12

(* Cells that hold consecutive operands.                                   *)
LEMMA PrefixOfInput ==
  ASSUME MAX_CELL \in Nat, NEW w \in [Nat -> Int], NEW b \in Nat, NEW n \in Nat,
         b + n <= Operands, \A c \in Nat : c < n => w[c] = Input[b + c]
  PROVE  \A j \in 0 .. n : Prefix(w)[j] = InputSum(b, b + j)
<1> DEFINE q == Prefix(w)
           S == {j \in Nat : j <= n => q[j] = SumTo[b + j] - SumTo[b]}
<1>1. q \in [Nat -> Int] /\ q[0] = 0 /\ \A j \in Nat : q[j + 1] = q[j] + w[j]
  BY PrefixFacts
<1>2. /\ Operands \in Nat
      /\ \A j \in 0 .. Operands - 1 : SumTo[j + 1] = SumTo[j] + Input[j] /\ Input[j] \in Int
      /\ \A j \in 0 .. Operands : SumTo[j] \in Int
  BY SumToFacts DEF Operands
<1> HIDE DEF q
<1>3. 0 \in S
  <2>1. b \in 0 .. Operands /\ b + 0 = b
    BY <1>2
  <2>2. SumTo[b] \in Int
    BY <1>2, <2>1
  <2>3. QED
    BY <1>1, <2>1, <2>2
<1>4. ASSUME NEW j \in Nat, j \in S PROVE j + 1 \in S
  <2>1. SUFFICES ASSUME j + 1 <= n PROVE q[j + 1] = SumTo[b + (j + 1)] - SumTo[b]
    OBVIOUS
  <2>2. /\ q[j] = SumTo[b + j] - SumTo[b] /\ w[j] = Input[b + j]
        /\ b + j \in 0 .. Operands - 1 /\ b + j \in 0 .. Operands /\ b \in 0 .. Operands
        /\ b + (j + 1) = (b + j) + 1
    BY <1>2, <1>4, <2>1
  <2>3. SumTo[(b + j) + 1] = SumTo[b + j] + Input[b + j] /\ Input[b + j] \in Int
        /\ SumTo[b + j] \in Int /\ SumTo[b] \in Int
    BY <1>2, <2>2
  <2>4. q[j + 1] = q[j] + w[j]
    BY <1>1
  <2>5. QED
    BY <2>2, <2>3, <2>4
<1>5. Nat \subseteq S
  <2> HIDE DEF S
  <2>1. QED
    BY <1>3, <1>4, SetInduction
<1>6. ASSUME NEW j \in 0 .. n PROVE q[j] = SumTo[b + j] - SumTo[b]
  BY <1>5
<1>7. QED
  BY <1>6 DEF q, InputSum

(* Dividing powers of two.                                                 *)
LEMMA TwoToDivide ==
  ASSUME NEW n \in Nat, NEW r \in 0 .. n
  PROVE  TwoTo[n] \div TwoTo[r] = TwoTo[n - r] /\ TwoTo[n] = TwoTo[r] * TwoTo[n - r]
<1> DEFINE S == {m \in Nat : \A q \in Nat : TwoTo[m + q] = TwoTo[m] * TwoTo[q]}
<1>1. 0 \in S
  BY TwoToFacts
<1>2. ASSUME NEW m \in Nat, m \in S PROVE m + 1 \in S
  <2>1. SUFFICES ASSUME NEW q \in Nat PROVE TwoTo[(m + 1) + q] = TwoTo[m + 1] * TwoTo[q]
    OBVIOUS
  <2>2. (m + 1) + q = (m + q) + 1 /\ m + q \in Nat
    OBVIOUS
  <2>3. TwoTo[(m + q) + 1] = 2 * TwoTo[m + q] /\ TwoTo[m + 1] = 2 * TwoTo[m]
    BY <2>2, TwoToFacts
  <2>4. TwoTo[m + q] = TwoTo[m] * TwoTo[q]
    BY <1>2
  <2>5. TwoTo[m] \in Nat /\ TwoTo[q] \in Nat
    BY TwoToFacts
  <2> DEFINE x == TwoTo[m]
             y == TwoTo[q]
  <2>6. x \in Nat /\ y \in Nat
    BY <2>5
  <2> HIDE DEF x, y
  <2>7. 2 * (x * y) = (2 * x) * y
    BY <2>6
  <2>8. QED
    BY <2>2, <2>3, <2>4, <2>7 DEF x, y
<1>3. Nat \subseteq S
  <2> HIDE DEF S
  <2>1. QED
    BY <1>1, <1>2, SetInduction
<1> DEFINE m == TwoTo[r]
           q == TwoTo[n - r]
           zero == 0
<1>4. r \in Nat /\ n - r \in Nat /\ r + (n - r) = n
  OBVIOUS
<1>5. TwoTo[n] = m * q
  <2>1. TwoTo[r + (n - r)] = TwoTo[r] * TwoTo[n - r]
    BY <1>3, <1>4
  <2>2. QED
    BY <1>4, <2>1
<1>6. m \in Nat \ {0} /\ q \in Nat
  BY <1>4, TwoToFacts
<1>7. zero \in 0 .. m - 1 /\ zero = 0
  BY <1>6
<1> HIDE DEF m, q, zero
<1>8. (m * q + zero) \div m = q /\ m * q + zero = m * q
  <2>1. (m * q + zero) \div m = q
    BY <1>6, <1>7, QuotientUnique
  <2>2. QED
    BY <1>6, <1>7, <2>1
<1>9. QED
  BY <1>5, <1>8 DEF m, q

-----------------------------------------------------------------------------
(* The threads 0 .. T - 1 execute a phase in step, from memory x to y.     *)
InPhase(phase, T, x, y) ==
  /\ phase.op \in [0 .. T - 1 -> Access]
  /\ \A t, u \in 0 .. T - 1 :
       phase.op[t].dst = phase.op[u].dst => t = u \/ phase.op[t].dst = NoCell
  /\ x \in [Cells -> Int] /\ y \in [Cells -> Int]
  /\ y = After(x, phase, 0 .. T - 1)

(* They execute a program of n phases.                                     *)
Runs(program, n, T, x, y) ==
  /\ n \in Nat
  /\ \E s \in [0 .. n -> [Cells -> Int]] :
       /\ s[0] = x /\ s[n] = y
       /\ \A p \in 1 .. n : InPhase(program[p], T, s[p - 1], s[p])

(* InStep is such an execution.                                            *)
LEMMA InStepRuns ==
  ASSUME NEW k, WellFormed(k), NEW T \in Nat, UNION k.warps = 0 .. T - 1
  PROVE  Runs(k.program, Len(k.program), T, k.memory, InStep(k)[Len(k.program)])
<1> DEFINE n == Len(k.program)
           s == [p \in 0 .. n |-> InStep(k)[p]]
           all == 0 .. T - 1
<1>1. n \in Nat /\ all = UNION k.warps /\ k.memory \in [Cells -> Int]
  BY KernelTypes
<1>2. /\ InStep(k)[0] = k.memory
      /\ \A p \in 1 .. n : InStep(k)[p] = After(InStep(k)[p - 1], k.program[p], all)
      /\ \A p \in 0 .. n : InStep(k)[p] \in [Cells -> Int]
  BY <1>1, InStepFacts
<1>3. ASSUME NEW p \in 1 .. n
      PROVE  /\ k.program[p].op \in [all -> Access]
             /\ \A t, u \in all : k.program[p].op[t].dst = k.program[p].op[u].dst =>
                                    t = u \/ k.program[p].op[t].dst = NoCell
  <2>1. k.program[p] \in PhaseOf(all)
    BY <1>1 DEF WellFormed
  <2>2. QED
    BY <1>1, <2>1 DEF WellFormed, PhaseOf
<1> HIDE DEF n, all
<1>4. s \in [0 .. n -> [Cells -> Int]]
  BY <1>2
<1>5. s[0] = k.memory /\ s[n] = InStep(k)[n]
  BY <1>1, <1>2
<1>6. ASSUME NEW p \in 1 .. n PROVE InPhase(k.program[p], T, s[p - 1], s[p])
  <2>1. p \in 0 .. n /\ p - 1 \in 0 .. n
    BY <1>1
  <2>2. /\ s[p] = InStep(k)[p] /\ s[p - 1] = InStep(k)[p - 1]
        /\ InStep(k)[p] \in [Cells -> Int] /\ InStep(k)[p - 1] \in [Cells -> Int]
    BY <1>2, <2>1
  <2> HIDE DEF s
  <2>3. s[p] = After(s[p - 1], k.program[p], all)
    BY <1>2, <2>2
  <2>4. QED
    BY <1>3, <2>2, <2>3 DEF InPhase, all
<1> HIDE DEF s
<1>7. QED
  BY <1>1, <1>4, <1>5, <1>6 DEF Runs, n

(* An execution of a program in two parts is one of each.                  *)
LEMMA RunsParts ==
  ASSUME NEW c, NEW a, NEW m, NEW b, NEW n, Join(c, a, m, b, n),
         NEW T, NEW x, NEW y, Runs(c, m + n, T, x, y)
  PROVE  \E z \in [Cells -> Int] : Runs(a, m, T, x, z) /\ Runs(b, n, T, z, y)
<1>1. m \in Nat /\ n \in Nat
  BY DEF Join
<1>2. PICK s \in [0 .. m + n -> [Cells -> Int]] :
        /\ s[0] = x /\ s[m + n] = y
        /\ \A p \in 1 .. m + n : InPhase(c[p], T, s[p - 1], s[p])
  BY DEF Runs
<1> DEFINE f == [p \in 0 .. m |-> s[p]]
           g == [p \in 0 .. n |-> s[m + p]]
           z == s[m]
           M == [Cells -> Int]
<1>3. f \in [0 .. m -> M] /\ g \in [0 .. n -> M] /\ z \in M
  BY <1>1
<1>4. f[0] = x /\ f[m] = z
  BY <1>1, <1>2
<1>5. g[0] = z /\ g[n] = y
  BY <1>1, <1>2
<1>6. ASSUME NEW p \in 1 .. m PROVE InPhase(a[p], T, f[p - 1], f[p])
  <2>1. p \in 1 .. m + n /\ p \in 0 .. m /\ p - 1 \in 0 .. m
    BY <1>1
  <2>2. f[p - 1] = s[p - 1] /\ f[p] = s[p]
    BY <2>1
  <2>3. a[p] = c[p]
    BY DEF Join
  <2> HIDE DEF f
  <2>4. QED
    BY <1>2, <2>1, <2>2, <2>3
<1>7. ASSUME NEW p \in 1 .. n PROVE InPhase(b[p], T, g[p - 1], g[p])
  <2>1. m + p \in 1 .. m + n /\ p \in 0 .. n /\ p - 1 \in 0 .. n /\ m + (p - 1) = (m + p) - 1
    BY <1>1
  <2>2. g[p - 1] = s[(m + p) - 1] /\ g[p] = s[m + p]
    BY <2>1
  <2>3. b[p] = c[m + p]
    BY DEF Join
  <2> HIDE DEF g
  <2>4. InPhase(c[m + p], T, s[(m + p) - 1], s[m + p])
    BY <1>2, <2>1
  <2>5. QED
    BY <2>2, <2>3, <2>4
<1> HIDE DEF f, g, z
<1>8. Runs(a, m, T, x, z)
  BY <1>1, <1>3, <1>4, <1>6 DEF Runs
<1>9. Runs(b, n, T, z, y)
  BY <1>1, <1>3, <1>5, <1>7 DEF Runs
<1>10. QED
  BY <1>3, <1>8, <1>9

(* Executions of one, two and three phases.                                *)
LEMMA RunsOne ==
  ASSUME NEW a, NEW n, n = 1, NEW T, NEW x, NEW y, Runs(a, n, T, x, y)
  PROVE  InPhase(a[1], T, x, y)
<1>1. PICK s \in [0 .. 1 -> [Cells -> Int]] :
        /\ s[0] = x /\ s[1] = y
        /\ \A p \in 1 .. 1 : InPhase(a[p], T, s[p - 1], s[p])
  BY DEF Runs
<1>2. 1 \in 1 .. 1 /\ 1 - 1 = 0
  OBVIOUS
<1>3. InPhase(a[1], T, s[1 - 1], s[1])
  BY <1>1, <1>2
<1>4. QED
  BY <1>1, <1>2, <1>3

(* Two phases.                                                             *)
LEMMA RunsTwo ==
  ASSUME NEW a, NEW n, n = 2, NEW T, NEW x, NEW y, Runs(a, n, T, x, y)
  PROVE  \E z \in [Cells -> Int] : InPhase(a[1], T, x, z) /\ InPhase(a[2], T, z, y)
<1>1. PICK s \in [0 .. 2 -> [Cells -> Int]] :
        /\ s[0] = x /\ s[2] = y
        /\ \A p \in 1 .. 2 : InPhase(a[p], T, s[p - 1], s[p])
  BY DEF Runs
<1>2. 1 \in 1 .. 2 /\ 2 \in 1 .. 2 /\ 1 - 1 = 0 /\ 2 - 1 = 1 /\ 1 \in 0 .. 2
  OBVIOUS
<1>3. InPhase(a[1], T, s[1 - 1], s[1]) /\ InPhase(a[2], T, s[2 - 1], s[2])
  BY <1>1, <1>2
<1>4. InPhase(a[1], T, x, s[1]) /\ InPhase(a[2], T, s[1], y)
  BY <1>1, <1>2, <1>3
<1>5. s[1] \in [Cells -> Int]
  BY <1>2
<1>6. QED
  BY <1>4, <1>5

(* Three phases.                                                           *)
LEMMA RunsThree ==
  ASSUME NEW a, NEW n, n = 3, NEW T, NEW x, NEW y, Runs(a, n, T, x, y)
  PROVE  \E z1, z2 \in [Cells -> Int] : /\ InPhase(a[1], T, x, z1) /\ InPhase(a[2], T, z1, z2)
                                        /\ InPhase(a[3], T, z2, y)
<1>1. PICK s \in [0 .. 3 -> [Cells -> Int]] :
        /\ s[0] = x /\ s[3] = y
        /\ \A p \in 1 .. 3 : InPhase(a[p], T, s[p - 1], s[p])
  BY DEF Runs
<1>2. /\ 1 \in 1 .. 3 /\ 2 \in 1 .. 3 /\ 3 \in 1 .. 3
      /\ 1 - 1 = 0 /\ 2 - 1 = 1 /\ 3 - 1 = 2 /\ 1 \in 0 .. 3 /\ 2 \in 0 .. 3
  OBVIOUS
<1>3. /\ InPhase(a[1], T, s[1 - 1], s[1]) /\ InPhase(a[2], T, s[2 - 1], s[2])
      /\ InPhase(a[3], T, s[3 - 1], s[3])
  BY <1>1, <1>2
<1>4. InPhase(a[1], T, x, s[1]) /\ InPhase(a[2], T, s[1], s[2]) /\ InPhase(a[3], T, s[2], y)
  BY <1>1, <1>2, <1>3
<1>5. s[1] \in [Cells -> Int] /\ s[2] \in [Cells -> Int]
  BY <1>2
<1>6. QED
  BY <1>4, <1>5

-----------------------------------------------------------------------------
(* A cell a thread writes has the sum this thread makes; the others stay.  *)
Written(phase, T, x, y) ==
  \A t \in 0 .. T - 1 : \A c :
    phase.op[t].dst = c /\ c # NoCell => c \in Cells /\ y[c] = Sum(x, phase.op[t])
Kept(phase, T, x, y) ==
  \A c \in Cells : (\A t \in 0 .. T - 1 : phase.op[t].dst # c) => y[c] = x[c]

(* This is what a phase executed in step does.                             *)
LEMMA PhaseEffect ==
  ASSUME NEW phase, NEW T \in Nat, NEW x, NEW y, InPhase(phase, T, x, y)
  PROVE  /\ \A t \in 0 .. T - 1 : phase.op[t] \in Access
         /\ Written(phase, T, x, y) /\ Kept(phase, T, x, y)
<1> DEFINE all == 0 .. T - 1
<1>1. /\ phase.op \in [all -> Access]
      /\ \A t, u \in all :
           phase.op[t].dst = phase.op[u].dst => t = u \/ phase.op[t].dst = NoCell
      /\ y = After(x, phase, all)
  BY DEF InPhase
<1> HIDE DEF all
<1>2. ASSUME NEW t \in all, phase.op[t].dst # NoCell
      PROVE  phase.op[t].dst \in Cells /\ y[phase.op[t].dst] = Sum(x, phase.op[t])
  <2> DEFINE c == phase.op[t].dst
             u == CHOOSE v \in all : phase.op[v].dst = c
  <2>1. c \in Cells
    BY <1>1, <1>2 DEF Access
  <2>2. u \in all /\ phase.op[u].dst = c
    OBVIOUS
  <2>3. u = t
    BY <1>1, <1>2, <2>2
  <2>4. y[c] = Sum(x, phase.op[u])
    BY <1>1, <2>1 DEF After
  <2>5. QED
    BY <2>1, <2>3, <2>4
<1>3. ASSUME NEW c \in Cells, \A t \in all : phase.op[t].dst # c PROVE y[c] = x[c]
  BY <1>1, <1>3 DEF After
<1>4. Written(phase, T, x, y)
  BY <1>2 DEF Written, all
<1>5. Kept(phase, T, x, y)
  BY <1>3 DEF Kept, all
<1>6. QED
  BY <1>1, <1>4, <1>5 DEF all

(* Sums that use no cell, one or two.                                      *)
LEMMA Sums ==
  ASSUME NEW x \in [Cells -> Int], NEW d, NEW l, NEW r, NEW e \in Int
  PROVE  /\ Sum(x, Assign(d, NoCell, NoCell, e)) = e
         /\ l \in Cells => Sum(x, Assign(d, l, NoCell, e)) = x[l] + e
         /\ l \in Cells /\ r \in Cells => Sum(x, Assign(d, l, r, e)) = x[l] + x[r] + e
<1>1. ASSUME NEW c \in Cells PROVE c # NoCell /\ x[c] \in Int
  BY DEF Cells, NoCell
<1>2. QED
  BY <1>1 DEF Sum, Operand, Assign

(* Every thread fills a cell.                                              *)
LEMMA FillEffect ==
  ASSUME NEW T \in Nat, NEW b \in Nat, NEW i, NEW sync, NEW x, NEW y,
         InPhase(Fill(T, b, i, sync), T, x, y)
  PROVE  /\ \A t \in 0 .. T - 1 : b + t \in Cells /\ y[b + t] = Input[i + t]
         /\ \A c \in Cells : c < b \/ c >= b + T => y[c] = x[c]
<1> DEFINE phase == Fill(T, b, i, sync)
<1>1. \A t \in 0 .. T - 1 : phase.op[t] = Put(b + t, i + t)
  BY DEF Fill, Only, Below
<1>2. InPhase(phase, T, x, y) /\ x \in [Cells -> Int]
  BY DEF InPhase
<1> HIDE DEF phase
<1>3. /\ \A t \in 0 .. T - 1 : phase.op[t] \in Access
      /\ Written(phase, T, x, y) /\ Kept(phase, T, x, y)
  BY <1>2, PhaseEffect
<1>4. ASSUME NEW t \in 0 .. T - 1
      PROVE  phase.op[t] = Assign(b + t, NoCell, NoCell, Input[i + t])
             /\ phase.op[t].dst = b + t /\ phase.op[t].add = Input[i + t]
  <2>1. phase.op[t] = Assign(b + t, NoCell, NoCell, Input[i + t])
    BY <1>1 DEF Put
  <2>2. QED
    BY <2>1 DEF Assign
<1>5. ASSUME NEW t \in 0 .. T - 1
      PROVE  b + t \in Cells /\ y[b + t] = Input[i + t]
  <2> DEFINE c == b + t
             e == Input[i + t]
  <2>1. c # NoCell
    BY DEF NoCell
  <2>2. phase.op[t] = Assign(c, NoCell, NoCell, e) /\ phase.op[t].dst = c /\ phase.op[t].add = e
    BY <1>4
  <2> HIDE DEF c, e
  <2>3. c \in Cells /\ y[c] = Sum(x, phase.op[t])
    BY <1>3, <2>1, <2>2 DEF Written
  <2>4. e \in Int
    <3>1. phase.op[t] \in Access
      BY <1>3
    <3>2. QED
      BY <2>2, <3>1 DEF Access
  <2>5. y[c] = e
    BY <1>2, <2>2, <2>3, <2>4, Sums
  <2>6. QED
    BY <2>3, <2>5 DEF c, e
<1>6. ASSUME NEW c \in Cells, c < b \/ c >= b + T PROVE y[c] = x[c]
  <2>1. ASSUME NEW t \in 0 .. T - 1 PROVE phase.op[t].dst # c
    <3>1. phase.op[t].dst = b + t
      BY <1>4
    <3>2. c \in Int /\ b + t # c
      BY <1>6 DEF Cells
    <3>3. QED
      BY <3>1, <3>2
  <2>2. QED
    BY <1>3, <2>1 DEF Kept
<1>7. QED
  BY <1>5, <1>6

(* A round.                                                                *)
LEMMA RoundEffect ==
  ASSUME NEW T \in Nat, NEW i \in Nat, i <= T, NEW sync, NEW x, NEW y,
         InPhase(Round(T, i, sync), T, x, y)
  PROVE  /\ \A t \in 0 .. i - 1 : t \in Cells /\ t + i \in Cells /\ y[t] = x[t] + x[t + i]
         /\ \A c \in Cells : c >= i => y[c] = x[c]
<1> DEFINE phase == Round(T, i, sync)
<1>1. \A t \in 0 .. T - 1 : phase.op[t] = IF t < i THEN AddTo(t, t + i) ELSE Idle
  BY DEF Round, Only, Below
<1>2. InPhase(phase, T, x, y) /\ x \in [Cells -> Int]
  BY DEF InPhase
<1> HIDE DEF phase
<1>3. /\ \A t \in 0 .. T - 1 : phase.op[t] \in Access
      /\ Written(phase, T, x, y) /\ Kept(phase, T, x, y)
  BY <1>2, PhaseEffect
<1>4. ASSUME NEW t \in 0 .. i - 1
      PROVE  t \in Cells /\ t + i \in Cells /\ y[t] = x[t] + x[t + i]
  <2> DEFINE l == t + i
             zero == 0
  <2>1. t \in 0 .. T - 1 /\ t < i /\ t # NoCell /\ l # NoCell /\ zero = 0
    BY DEF NoCell
  <2>2. phase.op[t] = Assign(t, t, l, zero)
    BY <1>1, <2>1 DEF AddTo
  <2> HIDE DEF l, zero
  <2>3. phase.op[t].dst = t /\ phase.op[t].right = l
    BY <2>2 DEF Assign
  <2>4. t \in Cells /\ y[t] = Sum(x, phase.op[t])
    BY <1>3, <2>1, <2>3 DEF Written
  <2>5. l \in Cells
    <3>1. phase.op[t] \in Access
      BY <1>3, <2>1
    <3>2. phase.op[t].right \in Cells \cup {NoCell}
      BY <3>1 DEF Access
    <3>3. QED
      BY <2>1, <2>3, <3>2
  <2>6. y[t] = x[t] + x[l] + zero
    <3>1. zero \in Int
      BY <2>1
    <3>2. QED
      BY <1>2, <2>2, <2>4, <2>5, <3>1, Sums
  <2>7. x[t] \in Int /\ x[l] \in Int
    BY <1>2, <2>4, <2>5
  <2>8. y[t] = x[t] + x[l]
    BY <2>1, <2>6, <2>7
  <2>9. QED
    BY <2>4, <2>5, <2>8 DEF l
<1>5. ASSUME NEW c \in Cells, c >= i PROVE y[c] = x[c]
  <2>1. ASSUME NEW t \in 0 .. T - 1 PROVE phase.op[t].dst # c
    <3>1. c \in Nat
      BY DEF Cells
    <3>2. CASE t < i
      <4>1. phase.op[t] = AddTo(t, t + i)
        BY <1>1, <3>2
      <4>2. phase.op[t].dst = t
        BY <4>1 DEF AddTo, Assign
      <4>3. QED
        BY <1>5, <3>1, <3>2, <4>2
    <3>3. CASE ~ (t < i)
      <4>1. phase.op[t] = Idle
        BY <1>1, <3>3
      <4>2. QED
        BY <3>1, <4>1 DEF Idle, Assign, NoCell
    <3>4. QED
      BY <3>2, <3>3
  <2>2. QED
    BY <1>3, <2>1 DEF Kept
<1>6. QED
  BY <1>4, <1>5

(* A phase of thread 0 alone.                                              *)
LEMMA Thread0Effect ==
  ASSUME NEW T \in Nat, T > 0, NEW do, NEW sync, NEW x, NEW y,
         InPhase(Thread0(T, do, sync), T, x, y)
  PROVE  /\ do \in Access
         /\ do.dst # NoCell => do.dst \in Cells /\ y[do.dst] = Sum(x, do)
         /\ \A c \in Cells : c # do.dst => y[c] = x[c]
<1> DEFINE phase == Thread0(T, do, sync)
           zero == 0
<1>1. phase.op[zero] = do /\ \A t \in 0 .. T - 1 : t # zero => phase.op[t] = Idle
  BY DEF Thread0, Only
<1>2. InPhase(phase, T, x, y) /\ zero \in 0 .. T - 1
  OBVIOUS
<1> HIDE DEF phase, zero
<1>3. /\ \A t \in 0 .. T - 1 : phase.op[t] \in Access
      /\ Written(phase, T, x, y) /\ Kept(phase, T, x, y)
  BY <1>2, PhaseEffect
<1>4. do \in Access /\ (do.dst # NoCell => do.dst \in Cells /\ y[do.dst] = Sum(x, do))
  BY <1>1, <1>2, <1>3 DEF Written
<1>5. ASSUME NEW c \in Cells, c # do.dst PROVE y[c] = x[c]
  <2>1. c # NoCell /\ Idle.dst = NoCell
    BY DEF Cells, NoCell, Idle, Assign
  <2>2. ASSUME NEW t \in 0 .. T - 1 PROVE phase.op[t].dst # c
    BY <1>1, <1>5, <2>1
  <2>3. QED
    BY <1>3, <2>2 DEF Kept
<1>6. QED
  BY <1>4, <1>5

-----------------------------------------------------------------------------
(* A thread that adds one cell to another.                                 *)
LEMMA AddEffect ==
  ASSUME NEW phase, NEW T \in Nat, NEW x, NEW y, InPhase(phase, T, x, y),
         NEW t \in 0 .. T - 1, NEW d \in Nat, NEW l \in Nat, phase.op[t] = AddTo(d, l)
  PROVE  d \in Cells /\ l \in Cells /\ y[d] = x[d] + x[l]
<1> DEFINE zero == 0
<1>1. x \in [Cells -> Int] /\ zero = 0 /\ zero \in Int
  BY DEF InPhase
<1>2. /\ \A u \in 0 .. T - 1 : phase.op[u] \in Access
      /\ Written(phase, T, x, y)
  BY PhaseEffect
<1>3. phase.op[t] = Assign(d, d, l, zero)
  BY DEF AddTo
<1>4. phase.op[t].dst = d /\ phase.op[t].right = l /\ d # NoCell /\ l # NoCell
  BY <1>3 DEF Assign, NoCell
<1> HIDE DEF zero
<1>5. d \in Cells /\ y[d] = Sum(x, phase.op[t])
  BY <1>2, <1>4 DEF Written
<1>6. l \in Cells
  <2>1. phase.op[t] \in Access
    BY <1>2
  <2>2. phase.op[t].right \in Cells \cup {NoCell}
    BY <2>1 DEF Access
  <2>3. QED
    BY <1>4, <2>2
<1>7. y[d] = x[d] + x[l] + zero
  BY <1>1, <1>3, <1>5, <1>6, Sums
<1>8. x[d] \in Int /\ x[l] \in Int
  BY <1>1, <1>5, <1>6
<1>9. QED
  BY <1>1, <1>5, <1>6, <1>7, <1>8

(* A memory as a function on all naturals.                                 *)
Total(x) == [c \in Nat |-> IF c \in Cells THEN x[c] ELSE 0]

(* It has the values of the memory.                                        *)
LEMMA TotalFacts ==
  ASSUME NEW x \in [Cells -> Int]
  PROVE  /\ Total(x) \in [Nat -> Int]
         /\ \A c \in Cells : Total(x)[c] = x[c]
BY DEF Total, Cells

(* The q rounds of a program halve the number of cells, from 2^q on.       *)
Halves(program, T, q) ==
  \A r \in 1 .. q : program[r] = Round(T, TwoTo[q - r], TRUE) /\ TwoTo[q - r] <= T

(* Rounds that halve the number of cells until one is left: it has the sum *)
(* of all, and the cells beyond them have kept their values.               *)
LEMMA HalvingEffect ==
  ASSUME MAX_CELL \in Nat, 0 \in Cells, NEW T \in Nat, NEW q \in Nat,
         NEW program, NEW x, NEW y, Runs(program, q, T, x, y), Halves(program, T, q)
  PROVE  /\ y[0] = Prefix(Total(x))[TwoTo[q]]
         /\ \A c \in Cells : c >= TwoTo[q] => y[c] = x[c]
<1>1. PICK s \in [0 .. q -> [Cells -> Int]] :
        /\ s[0] = x /\ s[q] = y
        /\ \A p \in 1 .. q : InPhase(program[p], T, s[p - 1], s[p])
  BY DEF Runs
<1> DEFINE N == TwoTo[q]
           Same(r) == \A c \in Cells : c >= N => s[r][c] = x[c]
           Total0(r) == Prefix(Total(s[r]))[TwoTo[q - r]] = Prefix(Total(x))[N]
           S == {r \in Nat : r <= q => Total0(r) /\ Same(r)}
<1>2. 0 \in S
  BY <1>1
<1>3. ASSUME NEW r \in Nat, r \in S, r + 1 <= q PROVE Total0(r + 1) /\ Same(r + 1)
  <2> DEFINE i == TwoTo[q - (r + 1)]
             u == s[r]
             z == s[r + 1]
             yes == TRUE
  <2>1. r <= q /\ r \in 0 .. q /\ r + 1 \in 0 .. q /\ r + 1 \in 1 .. q /\ (r + 1) - 1 = r
        /\ q - (r + 1) \in Nat /\ (q - (r + 1)) + 1 = q - r /\ q - r \in Nat
    BY <1>3
  <2>2. i \in Nat /\ TwoTo[q - r] = i + i /\ i <= N
    <3>1. i \in Nat /\ TwoTo[(q - (r + 1)) + 1] = 2 * i
      BY <2>1, TwoToFacts
    <3>2. q - (r + 1) < q
      BY <2>1
    <3>3. i < N /\ N \in Nat
      BY <2>1, <3>2, TwoToFacts, TwoToGrows
    <3>4. QED
      BY <2>1, <3>1, <3>3
  <2>3. u \in [Cells -> Int] /\ z \in [Cells -> Int]
    BY <2>1
  <2>4. Total0(r) /\ Same(r)
    BY <1>3, <2>1
  <2>5. i <= T /\ InPhase(Round(T, i, yes), T, u, z)
    <3>1. program[r + 1] = Round(T, i, TRUE) /\ i <= T
      BY <2>1 DEF Halves
    <3>2. InPhase(program[r + 1], T, s[(r + 1) - 1], s[r + 1])
      BY <1>1, <2>1
    <3>3. QED
      BY <2>1, <3>1, <3>2
  <2>6. TwoTo[q - (r + 1)] = i /\ s[r] = u /\ s[r + 1] = z
    OBVIOUS
  <2> HIDE DEF i, u, z, yes
  <2>7. /\ \A t \in 0 .. i - 1 : t \in Cells /\ t + i \in Cells /\ z[t] = u[t] + u[t + i]
        /\ \A c \in Cells : c >= i => z[c] = u[c]
    BY <2>2, <2>5, RoundEffect
  <2>8. Prefix(Total(z))[i] = Prefix(Total(u))[i + i]
    <3>1. Total(u) \in [Nat -> Int] /\ Total(z) \in [Nat -> Int]
      BY <2>3, TotalFacts
    <3>2. ASSUME NEW c \in Nat, c < i PROVE Total(z)[c] = Total(u)[c] + Total(u)[c + i]
      <4>1. c \in 0 .. i - 1
        BY <2>2, <3>2
      <4>2. c \in Cells /\ c + i \in Cells /\ z[c] = u[c] + u[c + i]
        BY <2>7, <4>1
      <4>3. QED
        BY <2>3, <4>2, TotalFacts
    <3>3. QED
      BY <2>2, <3>1, <3>2, PrefixHalves
  <2>9. Total0(r + 1)
    BY <2>2, <2>4, <2>6, <2>8
  <2>10. Same(r + 1)
    <3>1. SUFFICES ASSUME NEW c \in Cells, c >= N PROVE z[c] = x[c]
      BY <2>6
    <3>2. c >= i
      <4>1. c \in Nat
        BY DEF Cells
      <4>2. N \in Nat
        BY TwoToFacts
      <4> HIDE DEF N
      <4>3. QED
        BY <2>2, <3>1, <4>1, <4>2
    <3>3. z[c] = u[c] /\ u[c] = x[c]
      BY <2>4, <2>6, <2>7, <3>1, <3>2
    <3>4. QED
      BY <3>3
  <2>11. QED
    BY <2>9, <2>10
<1>4. Nat \subseteq S
  <2>1. ASSUME NEW r \in Nat, r \in S PROVE r + 1 \in S
    <3>1. r + 1 <= q => Total0(r + 1) /\ Same(r + 1)
      BY <1>3, <2>1
    <3> HIDE DEF Total0, Same
    <3>2. QED
      BY <3>1
  <2> HIDE DEF S
  <2>2. QED
    BY <1>2, <2>1, SetInduction
<1>5. Total0(q) /\ Same(q)
  BY <1>4
<1>6. Prefix(Total(y))[TwoTo[0]] = Prefix(Total(x))[N]
  <2>1. q - q = 0
    OBVIOUS
  <2>2. QED
    BY <1>1, <1>5, <2>1
<1>7. Prefix(Total(y))[TwoTo[0]] = y[0]
  <2>1. y \in [Cells -> Int] /\ q \in 0 .. q
    BY <1>1
  <2>2. Total(y) \in [Nat -> Int] /\ Total(y)[0] = y[0] /\ y[0] \in Int
    BY <2>1, TotalFacts
  <2>3. Prefix(Total(y))[0] = 0 /\ Prefix(Total(y))[0 + 1] = Prefix(Total(y))[0] + Total(y)[0]
    BY <2>2, PrefixFacts
  <2>4. TwoTo[0] = 0 + 1
    BY TwoToFacts
  <2>5. QED
    BY <2>2, <2>3, <2>4
<1>8. QED
  BY <1>1, <1>5, <1>6, <1>7

(* A round of a sum along a tree whose leaves begin at cell b: each cell   *)
(* at a multiple of 2^r gets what is 2^(r - 1) ahead.                      *)
TreeRound(r, N, b, u, z) ==
  \A j \in Nat : TwoTo[r] * j < N =>
    z[b + TwoTo[r] * j] = u[b + TwoTo[r] * j] + u[b + TwoTo[r] * j + TwoTo[r - 1]]

(* The q rounds of a program are.                                          *)
IsTree(program, T, q, N, b) ==
  \A r \in 1 .. q : \A u, z \in [Cells -> Int] :
    InPhase(program[r], T, u, z) => TreeRound(r, N, b, u, z)

(* Multiples of g below a multiple of g are g below it.                    *)
LEMMA MultipleBelow ==
  ASSUME NEW g \in Nat \ {0}, NEW j \in Nat, NEW m \in Nat, g * j < g * m
  PROVE  g * j + g <= g * m
<1>1. j < m
  <2>1. SUFFICES ASSUME m <= j PROVE FALSE
    OBVIOUS
  <2>2. PICK e \in Nat : j = m + e
    <3>1. j - m \in Nat /\ j = m + (j - m)
      BY <2>1
    <3>2. QED
      BY <3>1
  <2>3. g * (m + e) = g * m + g * e /\ g * e \in Nat /\ g * m \in Nat
    OBVIOUS
  <2>4. QED
    BY <2>2, <2>3
<1>2. PICK e \in Nat : m = j + 1 + e
  <2>1. m - j - 1 \in Nat /\ m = j + 1 + (m - j - 1)
    BY <1>1
  <2>2. QED
    BY <2>1
<1>3. g * (j + 1 + e) = g * j + g + g * e /\ g * e \in Nat /\ g * j \in Nat
  OBVIOUS
<1>4. QED
  BY <1>2, <1>3

(* Such rounds leave the sum of all leaves in the first one.               *)
LEMMA TreeEffect ==
  ASSUME MAX_CELL \in Nat, NEW T \in Nat, NEW q \in Nat, NEW b \in Nat,
         NEW program, NEW x, NEW y, Runs(program, q, T, x, y),
         IsTree(program, T, q, TwoTo[q], b),
         NEW v \in [Nat -> Int], \A c \in Nat : c < TwoTo[q] => v[c] = x[b + c]
  PROVE  y[b] = Prefix(v)[TwoTo[q]]
<1>1. PICK s \in [0 .. q -> [Cells -> Int]] :
        /\ s[0] = x /\ s[q] = y
        /\ \A p \in 1 .. q : InPhase(program[p], T, s[p - 1], s[p])
  BY DEF Runs
<1> DEFINE N == TwoTo[q]
           P == Prefix(v)
           Summed(r) == \A j \in Nat : TwoTo[r] * j < N =>
                          s[r][b + TwoTo[r] * j] = P[TwoTo[r] * j + TwoTo[r]] - P[TwoTo[r] * j]
           S == {r \in Nat : r <= q => Summed(r)}
<1>2. P \in [Nat -> Int] /\ P[0] = 0 /\ \A n \in Nat : P[n + 1] = P[n] + v[n]
  BY PrefixFacts
<1>3. N \in Nat
  BY TwoToFacts
<1> HIDE DEF P
<1>4. 0 \in S
  <2>1. ASSUME NEW j \in Nat, j < N PROVE s[0][b + j] = P[j + 1] - P[j]
    <3>1. s[0][b + j] = v[j] /\ v[j] \in Int /\ P[j] \in Int /\ P[j + 1] = P[j] + v[j]
      BY <1>1, <1>2, <2>1
    <3>2. QED
      BY <3>1
  <2>2. TwoTo[0] = 1 /\ \A j \in Nat : 1 * j = j
    BY TwoToFacts
  <2>3. Summed(0)
    BY <2>1, <2>2
  <2>4. QED
    BY <2>3
<1>5. ASSUME NEW r \in Nat, r \in S, r + 1 <= q PROVE Summed(r + 1)
  <2>1. r <= q /\ r \in 0 .. q /\ r + 1 \in 0 .. q /\ r + 1 \in 1 .. q /\ (r + 1) - 1 = r
    BY <1>5
  <2>2. SUFFICES ASSUME NEW j \in Nat, TwoTo[r + 1] * j < N
                 PROVE  s[r + 1][b + TwoTo[r + 1] * j]
                          = P[TwoTo[r + 1] * j + TwoTo[r + 1]] - P[TwoTo[r + 1] * j]
    OBVIOUS
  <2> DEFINE g == TwoTo[r]
             h == TwoTo[r + 1]
             m == TwoTo[q - (r + 1)]
             c == h * j
  <2>3. g \in Nat \ {0} /\ h = 2 * g /\ h \in Nat \ {0} /\ m \in Nat /\ N = h * m
    <3>1. g \in Nat \ {0} /\ h = 2 * g /\ h \in Nat \ {0}
      <4>1. g \in Nat \ {0}
        BY TwoToFacts
      <4>2. h = 2 * g
        BY TwoToFacts
      <4>3. h \in Nat \ {0}
        BY <2>1, TwoToFacts
      <4>4. QED
        BY <4>1, <4>2, <4>3
    <3>2. q - (r + 1) \in Nat /\ r + 1 \in 0 .. q
      BY <2>1
    <3>3. m \in Nat /\ N = h * m
      BY <3>2, TwoToFacts, TwoToDivide
    <3>4. QED
      BY <3>1, <3>3
  <2>4. Summed(r) /\ c < N
    BY <1>5, <2>1, <2>2
  <2>5. s[r + 1][b + c] = s[r][b + c] + s[r][b + c + g]
    <3>1. InPhase(program[r + 1], T, s[(r + 1) - 1], s[r + 1])
      BY <1>1, <2>1
    <3>2. s[r] \in [Cells -> Int] /\ s[r + 1] \in [Cells -> Int]
      BY <2>1
    <3>3. TreeRound(r + 1, N, b, s[r], s[r + 1])
      BY <2>1, <3>1, <3>2 DEF IsTree
    <3>4. QED
      BY <2>1, <2>2, <3>3 DEF TreeRound
  <2> HIDE DEF g, h, m, N
  <2>6. c \in Nat /\ c + g < N
    <3>1. h * j < h * m
      BY <2>3, <2>4
    <3>2. h * j + h <= h * m
      BY <2>3, <3>1, MultipleBelow
    <3>3. c \in Nat
      BY <2>3
    <3> HIDE DEF c
    <3>4. c + h <= N
      BY <2>3, <3>2 DEF c
    <3>5. QED
      BY <1>3, <2>3, <3>3, <3>4
  <2>7. g * (2 * j) = c /\ g * (2 * j + 1) = c + g /\ 2 * j \in Nat /\ 2 * j + 1 \in Nat
    BY <2>3
  <2> HIDE DEF c
  <2>8. \A i \in Nat : g * i < N => s[r][b + g * i] = P[g * i + g] - P[g * i]
    BY <2>4 DEF g
  <2>9. s[r][b + c] = P[c + g] - P[c]
    BY <2>4, <2>7, <2>8
  <2>10. s[r][b + (c + g)] = P[(c + g) + g] - P[c + g]
    BY <2>6, <2>7, <2>8
  <2>11. (c + g) + g = c + h /\ b + c + g = b + (c + g) /\ c + g \in Nat /\ c + h \in Nat
    BY <2>3, <2>6
  <2>12. P[c] \in Int /\ P[c + g] \in Int /\ P[c + h] \in Int
    BY <1>2, <2>6, <2>11
  <2>13. s[r + 1][b + c] = P[c + h] - P[c]
    <3>1. s[r][b + c + g] = P[c + h] - P[c + g]
      BY <2>10, <2>11
    <3> DEFINE p1 == P[c]
               p2 == P[c + g]
               p3 == P[c + h]
    <3>2. s[r + 1][b + c] = (p2 - p1) + (p3 - p2)
      BY <2>5, <2>9, <3>1
    <3>3. p1 \in Int /\ p2 \in Int /\ p3 \in Int
      BY <2>12
    <3> HIDE DEF p1, p2, p3
    <3>4. s[r + 1][b + c] = p3 - p1
      BY <3>2, <3>3
    <3>5. QED
      BY <3>4 DEF p1, p3
  <2>14. QED
    BY <2>13 DEF c, h
<1>6. Nat \subseteq S
  <2>1. ASSUME NEW r \in Nat, r \in S PROVE r + 1 \in S
    <3>1. r + 1 <= q => Summed(r + 1)
      BY <1>5, <2>1
    <3> HIDE DEF Summed
    <3>2. QED
      BY <3>1
  <2> HIDE DEF S
  <2>2. QED
    BY <1>4, <2>1, SetInduction
<1>7. Summed(q)
  BY <1>6
<1>8. N * 0 = 0 /\ 0 < N /\ b + 0 = b /\ 0 + N = N
  <2>1. N \in Nat \ {0}
    BY TwoToFacts
  <2> HIDE DEF N
  <2>2. QED
    BY <2>1
<1>9. s[q][b] = P[N] - P[0]
  <2> DEFINE zero == 0
  <2>1. zero \in Nat /\ N * zero = 0 /\ N * zero < N
    BY <1>8
  <2>2. s[q][b + N * zero] = P[N * zero + N] - P[N * zero]
    BY <1>7, <2>1
  <2>3. QED
    BY <1>8, <2>1, <2>2
<1>10. P[N] \in Int
  BY <1>2, <1>3
<1>11. y[b] = P[N]
  <2>1. y[b] = P[N] - 0
    BY <1>1, <1>2, <1>9
  <2>2. QED
    BY <1>10, <2>1
<1>12. QED
  BY <1>11 DEF P

-----------------------------------------------------------------------------
(* A phase in which thread 0 adds a number to two cells.                   *)
LEMMA Thread0Two ==
  ASSUME NEW T \in Nat, T > 0, NEW d \in Nat, NEW l \in Nat, NEW r \in Nat, NEW e, NEW sync,
         NEW x, NEW y, InPhase(Thread0(T, Assign(d, l, r, e), sync), T, x, y)
  PROVE  /\ d \in Cells /\ l \in Cells /\ r \in Cells /\ e \in Int
         /\ y[d] = x[l] + x[r] + e
         /\ \A c \in Cells : c # d => y[c] = x[c]
<1> DEFINE do == Assign(d, l, r, e)
<1>1. do.dst = d /\ do.left = l /\ do.right = r /\ do.add = e
  BY DEF Assign
<1>2. d # NoCell /\ l # NoCell /\ r # NoCell /\ x \in [Cells -> Int]
  BY DEF NoCell, InPhase
<1>3. InPhase(Thread0(T, do, sync), T, x, y)
  OBVIOUS
<1>4. do = Assign(d, l, r, e)
  OBVIOUS
<1> HIDE DEF do
<1>5. /\ do \in Access /\ d \in Cells /\ y[d] = Sum(x, do)
      /\ \A c \in Cells : c # d => y[c] = x[c]
  BY <1>1, <1>2, <1>3, Thread0Effect
<1>6. l \in Cells /\ r \in Cells /\ e \in Int
  BY <1>1, <1>2, <1>5 DEF Access
<1>7. y[d] = x[l] + x[r] + e
  BY <1>2, <1>4, <1>5, <1>6, Sums
<1>8. QED
  BY <1>5, <1>6, <1>7

(* The same with one cell.                                                 *)
LEMMA Thread0One ==
  ASSUME NEW T \in Nat, T > 0, NEW d \in Nat, NEW l \in Nat, NEW e, NEW sync,
         NEW x, NEW y, InPhase(Thread0(T, Assign(d, l, NoCell, e), sync), T, x, y)
  PROVE  /\ d \in Cells /\ l \in Cells /\ e \in Int
         /\ y[d] = x[l] + e
         /\ \A c \in Cells : c # d => y[c] = x[c]
<1> DEFINE do == Assign(d, l, NoCell, e)
<1>1. do.dst = d /\ do.left = l /\ do.add = e
  BY DEF Assign
<1>2. d # NoCell /\ l # NoCell /\ x \in [Cells -> Int]
  BY DEF NoCell, InPhase
<1>3. InPhase(Thread0(T, do, sync), T, x, y)
  OBVIOUS
<1>4. do = Assign(d, l, NoCell, e)
  OBVIOUS
<1> HIDE DEF do
<1>5. /\ do \in Access /\ d \in Cells /\ y[d] = Sum(x, do)
      /\ \A c \in Cells : c # d => y[c] = x[c]
  BY <1>1, <1>2, <1>3, Thread0Effect
<1>6. l \in Cells /\ e \in Int
  BY <1>1, <1>2, <1>5 DEF Access
<1>7. y[d] = x[l] + e
  BY <1>2, <1>4, <1>5, <1>6, Sums
<1>8. QED
  BY <1>5, <1>6, <1>7

(* The same with none.                                                     *)
LEMMA Thread0None ==
  ASSUME NEW T \in Nat, T > 0, NEW d \in Nat, NEW e, NEW sync,
         NEW x, NEW y, InPhase(Thread0(T, Assign(d, NoCell, NoCell, e), sync), T, x, y)
  PROVE  /\ d \in Cells /\ e \in Int /\ y[d] = e
         /\ \A c \in Cells : c # d => y[c] = x[c]
<1> DEFINE do == Assign(d, NoCell, NoCell, e)
<1>1. do.dst = d /\ do.add = e
  BY DEF Assign
<1>2. d # NoCell /\ x \in [Cells -> Int]
  BY DEF NoCell, InPhase
<1>3. InPhase(Thread0(T, do, sync), T, x, y)
  OBVIOUS
<1>4. do = Assign(d, NoCell, NoCell, e)
  OBVIOUS
<1> HIDE DEF do
<1>5. /\ do \in Access /\ d \in Cells /\ y[d] = Sum(x, do)
      /\ \A c \in Cells : c # d => y[c] = x[c]
  BY <1>1, <1>2, <1>3, Thread0Effect
<1>6. e \in Int
  BY <1>1, <1>5 DEF Access
<1>7. y[d] = e
  BY <1>2, <1>4, <1>5, <1>6, Sums
<1>8. QED
  BY <1>5, <1>6, <1>7

-----------------------------------------------------------------------------
(* What is used of a block in what follows.                                *)
LEMMA BlockSizes ==
  ASSUME NEW k, NEW n, NEW T, NEW h, BlockOf(k, n, T, h)
  PROVE  /\ MAX_CELL \in Nat /\ T \in Nat /\ T >= 4 /\ T <= MAX_CELL /\ T = TwoTo[n]
         /\ n \in Nat /\ n >= 2 /\ 0 \in Cells /\ Operands \in Nat /\ 3 * T <= Operands
         /\ Log2(T) = n
<1>1. MAX_CELL \in Nat /\ T \in Nat /\ T >= 4 /\ T <= MAX_CELL /\ T = TwoTo[n]
      /\ n \in Nat /\ n >= 2 /\ Log2(T) = n
  BY DEF BlockOf
<1>2. QED
  BY <1>1 DEF Cells, Operands

(* The rounds of the halving sum.                                          *)
LEMMA HalvingHalves ==
  ASSUME NEW k, NEW n, NEW T, NEW h, BlockOf(k, n, T, h)
  PROVE  Halves(Halving(T, TRUE), T, n)
<1>1. n \in Nat /\ T \in Nat /\ T = TwoTo[n] /\ Log2(T) = n
  BY BlockSizes
<1>2. Halving(T, TRUE) = [r \in 1 .. n |-> Round(T, T \div TwoTo[r], TRUE)]
  BY <1>1 DEF Halving
<1>3. ASSUME NEW r \in 1 .. n
      PROVE  T \div TwoTo[r] = TwoTo[n - r] /\ TwoTo[n - r] <= T
  <2>1. r \in 0 .. n /\ n - r \in Nat /\ n - r < n
    BY <1>1
  <2>2. TwoTo[n] \div TwoTo[r] = TwoTo[n - r]
    BY <1>1, <2>1, TwoToDivide
  <2>3. TwoTo[n - r] < TwoTo[n] /\ TwoTo[n - r] \in Nat
    BY <1>1, <2>1, TwoToGrows, TwoToFacts
  <2>4. QED
    BY <1>1, <2>2, <2>3
<1>4. QED
  BY <1>2, <1>3, Zenon DEF Halves

(* Operands filled in from cell 0 and summed by halving.                   *)
LEMMA FillSum ==
  ASSUME NEW k, NEW n, NEW T, NEW h, BlockOf(k, n, T, h), NEW i \in Nat, i + T <= Operands,
         NEW b, b = 0, NEW sync, NEW program, Halves(program, T, n),
         NEW x, NEW z, NEW y, InPhase(Fill(T, b, i, sync), T, x, z), Runs(program, n, T, z, y)
  PROVE  /\ y[b] = InputSum(i, i + T)
         /\ \A c \in Cells : c >= T => y[c] = x[c]
<1>1. /\ MAX_CELL \in Nat /\ T \in Nat /\ T = TwoTo[n] /\ n \in Nat /\ 0 \in Cells
      /\ b \in Nat
  BY BlockSizes
<1>2. z \in [Cells -> Int]
  BY DEF InPhase
<1>3. /\ \A t \in 0 .. T - 1 : b + t \in Cells /\ z[b + t] = Input[i + t]
      /\ \A c \in Cells : c < b \/ c >= b + T => z[c] = x[c]
  BY <1>1, FillEffect
<1>4. /\ y[0] = Prefix(Total(z))[TwoTo[n]]
      /\ \A c \in Cells : c >= TwoTo[n] => y[c] = z[c]
  BY <1>1, HalvingEffect
<1>5. Prefix(Total(z))[T] = InputSum(i, i + T)
  <2>1. Total(z) \in [Nat -> Int]
    BY <1>2, TotalFacts
  <2>2. ASSUME NEW c \in Nat, c < T PROVE Total(z)[c] = Input[i + c]
    <3>1. c \in 0 .. T - 1 /\ b + c = c
      BY <1>1, <2>2
    <3>2. c \in Cells /\ z[c] = Input[i + c]
      BY <1>3, <3>1
    <3>3. QED
      BY <1>2, <3>2, TotalFacts
  <2>3. \A j \in 0 .. T : Prefix(Total(z))[j] = InputSum(i, i + j)
    BY <1>1, <2>1, <2>2, PrefixOfInput, ZenonT(60)
  <2>4. T \in 0 .. T
    BY <1>1
  <2>5. QED
    BY <2>3, <2>4
<1>6. ASSUME NEW c \in Cells, c >= T PROVE y[c] = x[c]
  <2>1. b + T = T /\ y[c] = z[c]
    BY <1>1, <1>4, <1>6
  <2>2. QED
    BY <1>3, <1>6, <2>1
<1>7. y[b] = InputSum(i, i + T)
  BY <1>1, <1>4, <1>5
<1>8. QED
  BY <1>6, <1>7

(* kernel_calip68.                                                         *)
LEMMA CalIp68Sum ==
  ASSUME NEW k, NEW n, NEW T, NEW h, BlockOf(k, n, T, h),
         NEW x, NEW y, Runs(CalIp68(T), Len(CalIp68(T)), T, x, y)
  PROVE  Len(CalIp68(T)) = 1 + n /\ y[0] = InputSum(0, T)
<1> DEFINE zero == 0
           no == FALSE
           phase == Fill(T, zero, zero, no)
           fill == <<phase>>
           sum == Halving(T, TRUE)
           one == 1
<1>1. Phases(fill, one) /\ fill[1] = phase
  BY ShortPrograms
<1>2. Phases(sum, n)
  BY HalvingStarts
<1>3. CalIp68(T) = fill \o sum /\ one = 1 /\ phase = Fill(T, zero, zero, no) /\ sum = Halving(T, TRUE)
  BY DEF CalIp68
<1>4. /\ MAX_CELL \in Nat /\ T \in Nat /\ T >= 4 /\ Operands \in Nat /\ 3 * T <= Operands
      /\ zero \in Nat /\ zero = 0
  BY BlockSizes
<1> HIDE DEF zero, no, phase, fill, sum, one
<1>5. Join(CalIp68(T), fill, one, sum, n)
  BY <1>1, <1>2, <1>3, Joined
<1>6. Len(CalIp68(T)) = one + n
  BY <1>5 DEF Join
<1>7. PICK z \in [Cells -> Int] : Runs(fill, one, T, x, z) /\ Runs(sum, n, T, z, y)
  BY <1>5, <1>6, RunsParts
<1>8. InPhase(phase, T, x, z)
  BY <1>1, <1>3, <1>7, RunsOne
<1>9. /\ zero + T <= Operands /\ zero + T = T
      /\ InPhase(Fill(T, zero, zero, no), T, x, z) /\ Halves(sum, T, n)
  <2>1. zero + T <= Operands /\ zero + T = T
    BY <1>4
  <2>2. InPhase(Fill(T, zero, zero, no), T, x, z)
    BY <1>3, <1>8
  <2>3. Halves(Halving(T, TRUE), T, n)
    BY HalvingHalves
  <2>4. QED
    BY <1>3, <2>1, <2>2, <2>3
<1>10. y[zero] = InputSum(zero, zero + T)
  BY <1>4, <1>7, <1>9, FillSum
<1>11. QED
  BY <1>3, <1>4, <1>6, <1>9, <1>10

(* kernel_cal_vlr copies its sum out of the way before it uses cell 0      *)
(* again.                                                                  *)
LEMMA CalVlrSum ==
  ASSUME NEW k, NEW n, NEW T, NEW h, BlockOf(k, n, T, h),
         NEW x, NEW y, Runs(CalVlr(T), Len(CalVlr(T)), T, x, y)
  PROVE  y[T] = InputSum(0, T)
<1> DEFINE zero == 0
           no == FALSE
           start == CalIp68(T)
           copy == Thread0(T, Assign(T, zero, NoCell, zero), no)
           e == Input[T]
           put == Thread0(T, Assign(zero, NoCell, NoCell, e), no)
           tail == <<copy, put>>
           two == 2
           l == Len(start)
<1>1. Phases(tail, two) /\ tail[1] = copy /\ tail[2] = put
  BY ShortPrograms
<1>2. Phases(start, l)
  <2> DEFINE fill == <<Fill(T, 0, 0, FALSE)>>
             sum == Halving(T, TRUE)
             one == 1
  <2>1. Phases(fill, one)
    BY ShortPrograms
  <2>2. Phases(sum, n)
    BY HalvingStarts
  <2>3. start = fill \o sum
    BY DEF CalIp68
  <2>4. l = Len(start)
    OBVIOUS
  <2> HIDE DEF fill, sum, one, start, l
  <2>5. Join(start, fill, one, sum, n)
    BY <2>1, <2>2, <2>3, Joined
  <2>6. QED
    BY <2>4, <2>5 DEF Join
<1>3. CalVlr(T) = start \o tail
  BY DEF CalVlr, CalIp68, Copy, Put
<1>4. start = CalIp68(T) /\ l = Len(start) /\ two = 2
      /\ copy = Thread0(T, Assign(T, zero, NoCell, zero), no)
      /\ put = Thread0(T, Assign(zero, NoCell, NoCell, e), no)
  OBVIOUS
<1>5. T \in Nat /\ T > 0 /\ zero \in Nat /\ zero = 0
  BY BlockSizes
<1> HIDE DEF zero, no, e, start, copy, put, tail, two, l
<1>6. Join(CalVlr(T), start, l, tail, two)
  BY <1>1, <1>2, <1>3, Joined
<1>7. Len(CalVlr(T)) = l + two
  BY <1>6 DEF Join
<1>8. PICK z \in [Cells -> Int] : Runs(start, l, T, x, z) /\ Runs(tail, two, T, z, y)
  BY <1>6, <1>7, RunsParts
<1>9. z[zero] = InputSum(0, T)
  <2>1. Runs(CalIp68(T), Len(CalIp68(T)), T, x, z)
    BY <1>4, <1>8
  <2>2. QED
    BY <1>5, <2>1, CalIp68Sum
<1>10. PICK u \in [Cells -> Int] : InPhase(tail[1], T, z, u) /\ InPhase(tail[2], T, u, y)
  BY <1>4, <1>8, RunsTwo
<1>11. T \in Cells /\ zero \in Cells /\ u[T] = z[zero] + zero
  BY <1>1, <1>4, <1>5, <1>10, Thread0One, SMTT(60)
<1>12. \A c \in Cells : c # zero => y[c] = u[c]
  <2>1. InPhase(Thread0(T, Assign(zero, NoCell, NoCell, e), no), T, u, y)
    BY <1>1, <1>4, <1>10
  <2>2. T \in Nat /\ T > 0 /\ zero \in Nat
    BY <1>5
  <2>3. zero \in Cells /\ e \in Int /\ y[zero] = e
        /\ \A c \in Cells : c # zero => y[c] = u[c]
    BY <2>1, <2>2, Thread0None
  <2>4. QED
    BY <2>3
<1>13. z[zero] \in Int
  BY <1>11
<1>14. QED
  BY <1>5, <1>9, <1>11, <1>12, <1>13

-----------------------------------------------------------------------------
(* accumulate_sum of curveTest.cu: one round more than there are halvings  *)
(* of the threads, on cells that hold the operands.                        *)
LEMMA AccumulateSumSum ==
  ASSUME NEW k, NEW n, NEW T, NEW h, BlockOf(k, n, T, h),
         NEW x, x = [c \in Cells |-> Input[c]],
         NEW y, Runs(AccumulateSum(T), Len(AccumulateSum(T)), T, x, y)
  PROVE  y[0] = InputSum(0, 2 * T)
<1> DEFINE program == AccumulateSum(T)
           q == n + 1
           zero == 0
           yes == TRUE
<1>1. /\ MAX_CELL \in Nat /\ T \in Nat /\ T >= 4 /\ T = TwoTo[n] /\ n \in Nat /\ Log2(T) = n
      /\ 0 \in Cells /\ Operands \in Nat /\ 3 * T <= Operands
  BY BlockSizes
<1>2. q \in Nat /\ q >= 1 /\ TwoTo[q] = 2 * T
  BY <1>1, TwoToFacts
<1>3. program = [r \in 1 .. q |-> Round(T, (2 * T) \div TwoTo[r], TRUE)]
  BY <1>1 DEF AccumulateSum, SumRounds
<1>4. Len(program) = q
  <2> HIDE DEF program, q
  <2>1. QED
    BY <1>2, <1>3
<1>5. ASSUME NEW r \in 1 .. q
      PROVE  (2 * T) \div TwoTo[r] = TwoTo[q - r] /\ TwoTo[q - r] <= T
  <2> DEFINE m == q - r
  <2>1. r \in 0 .. q /\ m \in Nat /\ (m < n \/ m = n) /\ m = q - r
    BY <1>1, <1>2
  <2>2. TwoTo[q] \div TwoTo[r] = TwoTo[q - r]
    BY <1>2, <2>1, TwoToDivide
  <2> HIDE DEF m
  <2>3. TwoTo[m] <= TwoTo[n]
    <3>1. TwoTo[m] \in Nat /\ TwoTo[n] \in Nat
      BY <1>1, <2>1, TwoToFacts
    <3>2. m < n => TwoTo[m] < TwoTo[n]
      BY <1>1, <2>1, TwoToGrows
    <3>3. QED
      BY <2>1, <3>1, <3>2
  <2>4. QED
    BY <1>1, <1>2, <2>1, <2>2, <2>3
<1>6. Halves(program, T, q)
  BY <1>3, <1>5, Zenon DEF Halves
<1>7. Runs(program, q, T, x, y)
  BY <1>4
<1> HIDE DEF program, q, zero, yes
<1>8. y[0] = Prefix(Total(x))[TwoTo[q]]
  BY <1>1, <1>2, <1>6, <1>7, HalvingEffect
<1>9. x \in [Cells -> Int] /\ \A c \in Nat : c < 2 * T => c \in Cells
  <2>1. PICK s \in [0 .. q -> [Cells -> Int]] :
          /\ s[0] = x
          /\ \A p \in 1 .. q : InPhase(program[p], T, s[p - 1], s[p])
    BY <1>7 DEF Runs
  <2>2. x \in [Cells -> Int]
    BY <1>2, <2>1
  <2>3. InPhase(Round(T, T, yes), T, s[1 - 1], s[1])
    <3>1. 1 \in 1 .. q /\ q - 1 = n
      BY <1>1, <1>2 DEF q
    <3>2. program[1] = Round(T, TwoTo[n], TRUE)
      BY <1>6, <3>1 DEF Halves
    <3>3. InPhase(program[1], T, s[1 - 1], s[1])
      BY <2>1, <3>1
    <3>4. QED
      BY <1>1, <3>2, <3>3 DEF yes
  <2>4. \A t \in 0 .. T - 1 : t \in Cells /\ t + T \in Cells
    BY <1>1, <2>3, RoundEffect
  <2>5. ASSUME NEW c \in Nat, c < 2 * T PROVE c \in Cells
    <3>1. CASE c < T
      BY <1>1, <2>4, <3>1
    <3>2. CASE c >= T
      <4>1. T \in Nat
        BY <1>1
      <4>2. c - T \in 0 .. T - 1 /\ (c - T) + T = c
        BY <2>5, <3>2, <4>1
      <4>3. QED
        BY <2>4, <4>2
    <3>3. QED
      BY <1>1, <3>1, <3>2
  <2>6. QED
    BY <2>2, <2>5
<1>10. Prefix(Total(x))[TwoTo[q]] = InputSum(0, 2 * T)
  <2> DEFINE N == 2 * T
  <2>1. Total(x) \in [Nat -> Int]
    BY <1>9, TotalFacts
  <2>2. ASSUME NEW c \in Nat, c < N PROVE Total(x)[c] = Input[zero + c]
    <3>1. c \in Cells /\ zero + c = c
      BY <1>9, <2>2 DEF zero
    <3>2. QED
      BY <1>9, <3>1, TotalFacts
  <2>3. N \in Nat /\ zero \in Nat /\ zero + N <= Operands /\ N \in 0 .. N /\ zero + N = N
    BY <1>1 DEF zero
  <2>4. TwoTo[q] = N /\ N = 2 * T
    BY <1>2
  <2> HIDE DEF N
  <2>5. \A j \in 0 .. N : Prefix(Total(x))[j] = InputSum(zero, zero + j)
    BY <1>1, <2>1, <2>2, <2>3, PrefixOfInput
  <2>6. Prefix(Total(x))[N] = InputSum(zero, N)
    BY <2>3, <2>5
  <2>7. QED
    BY <2>4, <2>6 DEF zero
<1>11. QED
  BY <1>8, <1>10

(* A round of accumulate_sum of DBCTest.cu, in cells 0 and 1.              *)
LEMMA PairEffect ==
  ASSUME NEW T \in Nat, T > 0, NEW i \in Nat, i > 0, NEW u, NEW z,
         InPhase(PairRound(T, i), T, u, z), NEW zero, zero = 0, NEW one, one = 1, one \in Cells
  PROVE  z[zero] = u[zero] + u[one] /\ z[one] = u[one]
<1> DEFINE phase == PairRound(T, i)
           do == [t \in 0 .. T - 1 |-> AddTo(2 * t, 2 * t + 1)]
           yes == TRUE
<1>1. phase = Only(T, Below(i), do, yes) /\ InPhase(phase, T, u, z)
  BY DEF PairRound
<1>2. \A t \in 0 .. T - 1 : do[t] = AddTo(2 * t, 2 * t + 1)
  OBVIOUS
<1> HIDE DEF phase, do, yes
<1>3. \A t \in 0 .. T - 1 : phase.op[t] = IF t < i THEN AddTo(2 * t, 2 * t + 1) ELSE Idle
  <2>1. \A t \in 0 .. T - 1 : t \in Below(i) <=> t < i
    BY DEF Below
  <2>2. \A t \in 0 .. T - 1 : phase.op[t] = IF t \in Below(i) THEN do[t] ELSE Idle
    BY <1>1 DEF Only
  <2>3. QED
    BY <1>2, <2>1, <2>2
<1>4. zero \in 0 .. T - 1 /\ zero \in Nat /\ one \in Nat /\ phase.op[zero] = AddTo(zero, one)
  <2>1. zero \in 0 .. T - 1 /\ zero < i /\ zero \in Nat /\ one \in Nat
    OBVIOUS
  <2>2. 2 * zero = zero /\ 2 * zero + 1 = one
    OBVIOUS
  <2>3. phase.op[zero] = AddTo(2 * zero, 2 * zero + 1)
    BY <1>3, <2>1
  <2>4. QED
    BY <2>1, <2>2, <2>3
<1>5. ASSUME NEW t \in 0 .. T - 1 PROVE phase.op[t].dst # one
  <2>1. AddTo(2 * t, 2 * t + 1).dst = 2 * t /\ Idle.dst = NoCell
    BY DEF AddTo, Assign, Idle
  <2>2. phase.op[t] = AddTo(2 * t, 2 * t + 1) \/ phase.op[t] = Idle
    BY <1>3
  <2>3. 2 * t # one /\ NoCell # one
    BY DEF NoCell
  <2>4. QED
    BY <2>1, <2>2, <2>3
<1>6. z[zero] = u[zero] + u[one]
  BY <1>1, <1>4, AddEffect
<1>7. Kept(phase, T, u, z)
  BY <1>1, PhaseEffect
<1>8. z[one] = u[one]
  BY <1>5, <1>7 DEF Kept
<1>9. QED
  BY <1>6, <1>8

(* accumulate_sum of DBCTest.cu: in every round thread 0 adds cell 1,      *)
(* which nobody writes, to cell 0.                                         *)
LEMMA AccumulatePairsSum ==
  ASSUME NEW k, NEW n, NEW T, NEW h, BlockOf(k, n, T, h),
         NEW x, x = [c \in Cells |-> Input[c]],
         NEW y, Runs(AccumulatePairs(T), Len(AccumulatePairs(T)), T, x, y)
  PROVE  y[0] = Input[0] + n * Input[1]
<1> DEFINE program == AccumulatePairs(T)
           zero == 0
           one == 1
<1>1. /\ MAX_CELL \in Nat /\ T \in Nat /\ T >= 4 /\ T <= MAX_CELL /\ T = TwoTo[n]
      /\ n \in Nat /\ Log2(T) = n
  BY BlockSizes
<1>2. program = [r \in 1 .. n |-> PairRound(T, T \div TwoTo[r])]
  BY <1>1 DEF AccumulatePairs
<1>3. Len(program) = n
  BY <1>1, <1>2
<1>4. zero \in Cells /\ one \in Cells /\ zero = 0 /\ one = 1
  BY <1>1 DEF Cells
<1>5. Runs(program, n, T, x, y)
  BY <1>3
<1>6. PICK s \in [0 .. n -> [Cells -> Int]] :
        /\ s[0] = x /\ s[n] = y
        /\ \A p \in 1 .. n : InPhase(program[p], T, s[p - 1], s[p])
  BY <1>5 DEF Runs
<1> HIDE DEF zero, one, program
<1>7. ASSUME NEW r \in 1 .. n, NEW u, NEW z, InPhase(program[r], T, u, z)
      PROVE  z[zero] = u[zero] + u[one] /\ z[one] = u[one]
  <2> DEFINE m == n - r
             i == TwoTo[m]
  <2>1. i \in Nat /\ i > 0 /\ T \div TwoTo[r] = i
    <3>1. r \in 0 .. n /\ m \in Nat
      BY <1>1
    <3>2. TwoTo[n] \div TwoTo[r] = i
      BY <1>1, <3>1, TwoToDivide
    <3> HIDE DEF m
    <3>3. i \in Nat \ {0}
      BY <3>1, TwoToFacts
    <3>4. QED
      BY <1>1, <3>2, <3>3
  <2>2. program[r] = PairRound(T, i)
    BY <1>2, <2>1
  <2> HIDE DEF i
  <2>3. InPhase(PairRound(T, i), T, u, z) /\ T \in Nat /\ T > 0
    BY <1>1, <1>7, <2>2
  <2>4. QED
    BY <1>4, <2>1, <2>3, PairEffect
<1>8. x[zero] = Input[0] /\ x[one] = Input[1] /\ x[zero] \in Int /\ x[one] \in Int
  <2>1. x \in [Cells -> Int]
    BY <1>1, <1>6
  <2>2. QED
    BY <1>4, <2>1
<1> DEFINE S == {r \in Nat : r <= n => s[r][zero] = x[zero] + r * x[one] /\ s[r][one] = x[one]}
<1>9. 0 \in S
  BY <1>6, <1>8
<1>10. ASSUME NEW r \in Nat, r \in S PROVE r + 1 \in S
  <2>1. SUFFICES ASSUME r + 1 <= n
                 PROVE  s[r + 1][zero] = x[zero] + (r + 1) * x[one] /\ s[r + 1][one] = x[one]
    OBVIOUS
  <2>2. r <= n /\ r + 1 \in 1 .. n /\ (r + 1) - 1 = r
    BY <1>1, <2>1
  <2>3. s[r][zero] = x[zero] + r * x[one] /\ s[r][one] = x[one]
    BY <1>10, <2>2
  <2>4. InPhase(program[r + 1], T, s[r], s[r + 1])
    <3>1. InPhase(program[r + 1], T, s[(r + 1) - 1], s[r + 1])
      BY <1>6, <2>2
    <3>2. QED
      BY <2>2, <3>1
  <2>5. s[r + 1][zero] = s[r][zero] + s[r][one] /\ s[r + 1][one] = s[r][one]
    BY <1>7, <2>2, <2>4
  <2>6. ASSUME NEW a \in Int PROVE (r + 1) * a = r * a + a /\ r * a \in Int
    OBVIOUS
  <2>7. (r + 1) * x[one] = r * x[one] + x[one] /\ r * x[one] \in Int
    BY <1>8, <2>6
  <2>8. QED
    BY <1>8, <2>3, <2>5, <2>7, SMTT(60)
<1>11. n \in S
  <2> HIDE DEF S
  <2>1. Nat \subseteq S
    BY <1>9, <1>10, SetInduction
  <2>2. QED
    BY <1>1, <2>1
<1>12. QED
  BY <1>1, <1>4, <1>6, <1>8, <1>11

-----------------------------------------------------------------------------
(* A run of a concatenation is a run of its parts.                         *)
LEMMA RunsSplit ==
  ASSUME NEW c, NEW a, NEW m, NEW b, NEW n, Phases(a, m), Phases(b, n), c = a \o b,
         NEW T, NEW x, NEW y, Runs(c, Len(c), T, x, y)
  PROVE  \E z \in [Cells -> Int] : Runs(a, Len(a), T, x, z) /\ Runs(b, n, T, z, y)
<1>1. Join(c, a, m, b, n)
  BY Joined
<1>2. Len(c) = m + n /\ Len(a) = m
  <2>1. Len(c) = m + n
    BY <1>1 DEF Join
  <2>2. Len(a) = m
    BY DEF Phases
  <2>3. QED
    BY <2>1, <2>2
<1>3. Runs(c, m + n, T, x, y)
  BY <1>2
<1>4. PICK z \in [Cells -> Int] : Runs(a, m, T, x, z) /\ Runs(b, n, T, z, y)
  BY <1>1, <1>3, RunsParts
<1>5. QED
  BY <1>2, <1>4

(* Phases of a concatenation.                                              *)
LEMMA PhasesJoined ==
  ASSUME NEW c, NEW a, NEW m, NEW b, NEW n, Phases(a, m), Phases(b, n), c = a \o b
  PROVE  Phases(c, m + n)
BY Joined

(* The phase of kernel_cal_t12 in which threads 0 and 1 copy.              *)
LEMMA TwoEffect ==
  ASSUME NEW T \in Nat, T >= 2, NEW d \in Nat, NEW sync, NEW x, NEW y,
         InPhase(Only(T, {0, 1}, [tx \in {0, 1} |-> Copy(d + tx, T + tx)], sync), T, x, y)
  PROVE  /\ d \in Cells /\ d + 1 \in Cells /\ T \in Cells /\ T + 1 \in Cells
         /\ y[d] = x[T] /\ y[d + 1] = x[T + 1]
<1> DEFINE do == [tx \in {0, 1} |-> Copy(d + tx, T + tx)]
           phase == Only(T, {0, 1}, do, sync)
<1>1. InPhase(phase, T, x, y) /\ x \in [Cells -> Int]
  BY DEF InPhase
<1>2. \A t \in {0, 1} : phase.op[t] = Copy(d + t, T + t)
  BY DEF Only
<1> HIDE DEF do, phase
<1>3. /\ \A t \in 0 .. T - 1 : phase.op[t] \in Access
      /\ Written(phase, T, x, y)
  BY <1>1, PhaseEffect
<1>4. ASSUME NEW t \in {0, 1} PROVE d + t \in Cells /\ T + t \in Cells /\ y[d + t] = x[T + t]
  <2> DEFINE e == d + t
             l == T + t
             zero == 0
  <2>1. t \in 0 .. T - 1 /\ e # NoCell /\ l # NoCell /\ zero = 0 /\ zero \in Int
    BY DEF NoCell
  <2>2. phase.op[t] = Assign(e, l, NoCell, zero)
    BY <1>2 DEF Copy
  <2> HIDE DEF e, l, zero
  <2>3. phase.op[t].dst = e /\ phase.op[t].left = l
    BY <2>2 DEF Assign
  <2>4. e \in Cells /\ y[e] = Sum(x, phase.op[t])
    BY <1>3, <2>1, <2>3 DEF Written
  <2>5. l \in Cells
    <3>1. phase.op[t] \in Access
      BY <1>3, <2>1
    <3>2. phase.op[t].left \in Cells \cup {NoCell}
      BY <3>1 DEF Access
    <3>3. QED
      BY <2>1, <2>3, <3>2
  <2>6. y[e] = x[l] + zero
    BY <1>1, <2>1, <2>2, <2>4, <2>5, Sums
  <2>7. x[l] \in Int
    BY <1>1, <2>5
  <2>8. QED
    BY <2>1, <2>4, <2>5, <2>6, <2>7 DEF e, l
<1>5. d + 0 = d /\ T + 0 = T
  OBVIOUS
<1>6. QED
  BY <1>4, <1>5

(* The last three phases of kernel_cal_t12: t2 is put into cell T + 1,     *)
(* both are committed to, and the commitments are hashed together.         *)
LEMMA LastPhases ==
  ASSUME NEW T \in Nat, T >= 2, NEW b \in Nat, NEW t1, t1 = T + 1, NEW T12 \in Nat, T12 > T + 1,
         NEW next, next = T12 + 1, NEW hash, hash = T12 + 2, NEW sync,
         NEW p1, p1 = Thread0(T, Assign(t1, b, NoCell, b), sync), b = 0,
         NEW p2, p2 = Only(T, {0, 1}, [tx \in {0, 1} |-> Copy(T12 + tx, T + tx)], sync),
         NEW p3, p3 = Thread0(T, Assign(hash, T12, next, b), sync),
         NEW x, NEW y, NEW end, end = <<p1, p2, p3>>, NEW three, three = 3,
         Runs(end, three, T, x, y)
  PROVE  /\ y[T12] = x[T] /\ y[next] = x[b] /\ y[hash] = x[T] + x[b]
<1>1. PICK u, z \in [Cells -> Int] :
        /\ InPhase(end[1], T, x, u) /\ InPhase(end[2], T, u, z)
        /\ InPhase(end[3], T, z, y)
  BY RunsThree
<1>2. end[1] = p1 /\ end[2] = p2 /\ end[3] = p3
  OBVIOUS
<1>3. /\ InPhase(Thread0(T, Assign(t1, b, NoCell, b), sync), T, x, u)
      /\ InPhase(Only(T, {0, 1}, [tx \in {0, 1} |-> Copy(T12 + tx, T + tx)], sync), T, u, z)
      /\ InPhase(Thread0(T, Assign(hash, T12, next, b), sync), T, z, y)
  BY <1>1, <1>2
<1>4. T > 0 /\ t1 \in Nat /\ next \in Nat /\ hash \in Nat
  OBVIOUS
<1>5. /\ t1 \in Cells /\ b \in Cells /\ u[t1] = x[b] + b
      /\ \A c \in Cells : c # t1 => u[c] = x[c]
  BY <1>3, <1>4, Thread0One, SMTT(60)
<1>6. /\ T12 \in Cells /\ T12 + 1 \in Cells /\ T \in Cells /\ T + 1 \in Cells
      /\ z[T12] = u[T] /\ z[T12 + 1] = u[T + 1]
  BY <1>3, TwoEffect
<1>7. /\ hash \in Cells /\ y[hash] = z[T12] + z[next] + b
      /\ \A c \in Cells : c # hash => y[c] = z[c]
  BY <1>3, <1>4, Thread0Two
<1>8. x \in [Cells -> Int]
  BY <1>1 DEF InPhase
<1>9. u[T] = x[T] /\ u[t1] = x[b] /\ x[T] \in Int /\ x[b] \in Int
  <2>1. T # t1
    OBVIOUS
  <2>2. x[T] \in Int /\ x[b] \in Int
    BY <1>5, <1>6, <1>8
  <2>3. QED
    BY <1>5, <1>6, <2>1, <2>2
<1>10. z[T12] = x[T] /\ z[next] = x[b] /\ next \in Cells
  BY <1>6, <1>9
<1>11. T12 # hash /\ next # hash
  OBVIOUS
<1>12. y[T12] = x[T] /\ y[next] = x[b]
  BY <1>6, <1>7, <1>10, <1>11
<1>13. y[hash] = x[T] + x[b]
  BY <1>7, <1>9, <1>10
<1>14. QED
  BY <1>12, <1>13

(* kernel_cal_t12.                                                         *)
LEMMA CalT12Sum ==
  ASSUME NEW k, NEW n, NEW T, NEW h, BlockOf(k, n, T, h),
         NEW x, NEW y, Runs(CalT12(T), Len(CalT12(T)), T, x, y)
  PROVE  /\ y[2 * T + 1] = InputSum(0, 2 * T)
         /\ y[2 * T + 2] = InputSum(2 * T, 3 * T)
         /\ y[2 * T + 3] = InputSum(0, 3 * T)
<1> DEFINE zero == 0
           one == 1
           two == 2
           three == 3
           no == FALSE
           yes == TRUE
           lh == 2 * T
           at == T
           t1 == T + 1
           T12 == lh + 1
           next == T12 + 1
           hash == T12 + 2
           sum == Halving(T, TRUE)
           a0 == Fill(T, zero, zero, yes)
           a1 == Thread0(T, Assign(lh, zero, NoCell, zero), no)
           a2 == Fill(T, zero, at, no)
           a3 == Thread0(T, Assign(T, lh, zero, zero), no)
           a4 == Fill(T, zero, lh, no)
           e1 == Thread0(T, Assign(t1, zero, NoCell, zero), no)
           e2 == Only(T, {0, 1}, [tx \in {0, 1} |-> Copy(T12 + tx, T + tx)], no)
           e3 == Thread0(T, Assign(hash, T12, next, zero), no)
           start == <<a0>>
           again == <<a1, a2>>
           third == <<a3, a4>>
           end == <<e1, e2, e3>>
           c1 == start \o sum
           c2 == c1 \o again
           c3 == c2 \o sum
           c4 == c3 \o third
           c5 == c4 \o sum
           c6 == c5 \o end
<1>1. CalT12(T) = c6
  <2>1. hash = 2 * T + 3 /\ next = T12 + 1 /\ T12 = 2 * T + 1 /\ t1 = T + 1 /\ lh = 2 * T
    BY BlockSizes
  <2>2. /\ Thread0(T, Copy(lh, 0), FALSE) = a1
        /\ Thread0(T, Copy(T + 1, 0), FALSE) = e1
    BY DEF Copy
  <2> HIDE DEF hash
  <2>3. CalT12(T) = c5 \o <<e1, e2, Thread0(T, Assign(2 * T + 3, T12, next, zero), no)>>
    BY <2>2 DEF CalT12
  <2>4. QED
    BY <2>1, <2>3
<1>2. /\ Phases(start, one) /\ start[1] = a0
      /\ Phases(again, two) /\ again[1] = a1 /\ again[2] = a2
      /\ Phases(third, two) /\ third[1] = a3 /\ third[2] = a4
      /\ Phases(end, three)
  BY ShortPrograms
<1>3. Phases(sum, n) /\ Halves(sum, T, n)
  BY HalvingStarts, HalvingHalves
<1>4. /\ MAX_CELL \in Nat /\ T \in Nat /\ T >= 4 /\ Operands \in Nat /\ 3 * T <= Operands
  BY BlockSizes
<1>5. /\ zero = 0 /\ one = 1 /\ two = 2 /\ three = 3 /\ at = T /\ lh = 2 * T /\ t1 = T + 1
      /\ T12 = lh + 1 /\ next = T12 + 1 /\ hash = T12 + 2
  OBVIOUS
<1>6. /\ a0 = Fill(T, zero, zero, yes)
      /\ a1 = Thread0(T, Assign(lh, zero, NoCell, zero), no) /\ a2 = Fill(T, zero, at, no)
      /\ a3 = Thread0(T, Assign(T, lh, zero, zero), no) /\ a4 = Fill(T, zero, lh, no)
      /\ e1 = Thread0(T, Assign(t1, zero, NoCell, zero), no)
      /\ e2 = Only(T, {0, 1}, [tx \in {0, 1} |-> Copy(T12 + tx, T + tx)], no)
      /\ e3 = Thread0(T, Assign(hash, T12, next, zero), no)
  OBVIOUS
<1>7. end = <<e1, e2, e3>>
  OBVIOUS
<1>8. /\ c1 = start \o sum /\ c2 = c1 \o again /\ c3 = c2 \o sum /\ c4 = c3 \o third
      /\ c5 = c4 \o sum /\ c6 = c5 \o end
  OBVIOUS
<1> HIDE DEF zero, one, two, three, no, yes, lh, at, t1, T12, next, hash, sum, a0, a1, a2, a3, a4,
             e1, e2, e3, start, again, third, end, c1, c2, c3, c4, c5, c6
<1>9. PICK l1, l2, l3, l4, l5 \in Nat :
        Phases(c1, l1) /\ Phases(c2, l2) /\ Phases(c3, l3) /\ Phases(c4, l4) /\ Phases(c5, l5)
  <2>1. Phases(c1, one + n)
    BY <1>2, <1>3, <1>8, PhasesJoined
  <2>2. Phases(c2, one + n + two)
    BY <1>2, <1>8, <2>1, PhasesJoined
  <2>3. Phases(c3, one + n + two + n)
    BY <1>3, <1>8, <2>2, PhasesJoined
  <2>4. Phases(c4, one + n + two + n + two)
    BY <1>2, <1>8, <2>3, PhasesJoined
  <2>5. Phases(c5, one + n + two + n + two + n)
    BY <1>3, <1>8, <2>4, PhasesJoined
  <2>6. \A c, l : Phases(c, l) => l \in Nat
    BY DEF Phases
  <2>7. QED
    BY <2>1, <2>2, <2>3, <2>4, <2>5, <2>6
<1>10. Runs(c6, Len(c6), T, x, y)
  BY <1>1
<1>11. PICK z5 \in [Cells -> Int] : Runs(c5, Len(c5), T, x, z5) /\ Runs(end, three, T, z5, y)
  BY <1>2, <1>8, <1>9, <1>10, RunsSplit
<1>12. PICK z4 \in [Cells -> Int] : Runs(c4, Len(c4), T, x, z4) /\ Runs(sum, n, T, z4, z5)
  BY <1>3, <1>8, <1>9, <1>11, RunsSplit
<1>13. PICK z3 \in [Cells -> Int] : Runs(c3, Len(c3), T, x, z3) /\ Runs(third, two, T, z3, z4)
  BY <1>2, <1>8, <1>9, <1>12, RunsSplit
<1>14. PICK z2 \in [Cells -> Int] : Runs(c2, Len(c2), T, x, z2) /\ Runs(sum, n, T, z2, z3)
  BY <1>3, <1>8, <1>9, <1>13, RunsSplit
<1>15. PICK z1 \in [Cells -> Int] : Runs(c1, Len(c1), T, x, z1) /\ Runs(again, two, T, z1, z2)
  BY <1>2, <1>8, <1>9, <1>14, RunsSplit
<1>16. PICK z0 \in [Cells -> Int] : Runs(start, Len(start), T, x, z0) /\ Runs(sum, n, T, z0, z1)
  BY <1>2, <1>3, <1>8, <1>15, RunsSplit
<1>17. zero \in Nat /\ lh \in Nat /\ T12 \in Nat /\ T12 > T + 1 /\ T > 0 /\ T >= 2
       /\ zero + T = T /\ at \in Nat /\ at + T = lh /\ lh + T = 3 * T
       /\ zero + T <= Operands /\ at + T <= Operands /\ lh + T <= Operands
  BY <1>4, <1>5
<1>18. z1[zero] = InputSum(zero, zero + T)
  <2>1. Len(start) = one
    BY <1>2, <1>5 DEF Phases
  <2>2. InPhase(a0, T, x, z0)
    <3>1. Runs(start, one, T, x, z0)
      BY <1>16, <2>1
    <3>2. InPhase(start[1], T, x, z0)
      BY <1>5, <3>1, RunsOne
    <3>3. QED
      BY <1>2, <3>2
  <2>3. InPhase(Fill(T, zero, zero, yes), T, x, z0)
    BY <1>6, <2>2
  <2>4. QED
    <3>1. zero \in Nat /\ zero + T <= Operands /\ zero = 0
      BY <1>5, <1>17
    <3>2. /\ z1[zero] = InputSum(zero, zero + T)
          /\ \A c \in Cells : c >= T => z1[c] = x[c]
      BY <1>3, <1>16, <2>3, <3>1, FillSum
    <3>3. QED
      BY <3>2
<1>19. PICK u \in [Cells -> Int] :
         /\ InPhase(a1, T, z1, u)
         /\ z3[zero] = InputSum(at, at + T)
         /\ \A c \in Cells : c >= T => z3[c] = u[c]
  <2>1. PICK v \in [Cells -> Int] : InPhase(again[1], T, z1, v) /\ InPhase(again[2], T, v, z2)
    BY <1>5, <1>15, RunsTwo
  <2>2. InPhase(a1, T, z1, v) /\ InPhase(Fill(T, zero, at, no), T, v, z2)
    BY <1>2, <1>6, <2>1
  <2>3. at \in Nat /\ at + T <= Operands /\ zero = 0
    BY <1>4, <1>5, <1>17
  <2>4. /\ z3[zero] = InputSum(at, at + T)
        /\ \A c \in Cells : c >= T => z3[c] = v[c]
    BY <1>3, <1>14, <2>2, <2>3, FillSum
  <2>5. QED
    BY <2>2, <2>4
<1>20. PICK w \in [Cells -> Int] :
         /\ InPhase(a3, T, z3, w)
         /\ z5[zero] = InputSum(lh, lh + T)
         /\ \A c \in Cells : c >= T => z5[c] = w[c]
  <2>1. PICK v \in [Cells -> Int] : InPhase(third[1], T, z3, v) /\ InPhase(third[2], T, v, z4)
    BY <1>5, <1>13, RunsTwo
  <2>2. InPhase(a3, T, z3, v) /\ InPhase(Fill(T, zero, lh, no), T, v, z4)
    BY <1>2, <1>6, <2>1
  <2>3. lh \in Nat /\ lh + T <= Operands /\ zero = 0
    BY <1>4, <1>5, <1>17
  <2>4. /\ z5[zero] = InputSum(lh, lh + T)
        /\ \A c \in Cells : c >= T => z5[c] = v[c]
    BY <1>3, <1>12, <2>2, <2>3, FillSum
  <2>5. QED
    BY <2>2, <2>4
<1>21. lh \in Cells /\ zero \in Cells /\ u[lh] = z1[zero] + zero
  <2>1. InPhase(Thread0(T, Assign(lh, zero, NoCell, zero), no), T, z1, u)
    BY <1>6, <1>19
  <2>2. T \in Nat /\ T > 0 /\ lh \in Nat /\ zero \in Nat
    BY <1>4, <1>17
  <2>3. lh \in Cells /\ zero \in Cells /\ zero \in Int /\ u[lh] = z1[zero] + zero
        /\ \A c \in Cells : c # lh => u[c] = z1[c]
    BY ONLY <2>1, <2>2, Thread0One, SMTT(60)
  <2>4. QED
    BY <2>3
<1>22. T \in Cells /\ w[T] = z3[lh] + z3[zero] + zero
  <2>1. InPhase(Thread0(T, Assign(T, lh, zero, zero), no), T, z3, w)
    BY <1>6, <1>20
  <2>2. QED
    BY <1>4, <1>17, <2>1, Thread0Two
<1>23. y[T12] = z5[T] /\ y[next] = z5[zero] /\ y[hash] = z5[T] + z5[zero]
  BY <1>4, <1>5, <1>6, <1>7, <1>11, <1>17, LastPhases
<1>24. SumTo[zero] \in Int /\ SumTo[T] \in Int /\ SumTo[lh] \in Int /\ SumTo[3 * T] \in Int
  <2>1. zero \in 0 .. Operands /\ T \in 0 .. Operands /\ lh \in 0 .. Operands
        /\ 3 * T \in 0 .. Operands
    BY <1>4, <1>5
  <2>2. QED
    BY <1>4, <2>1, SumToFacts
<1>25. z3[lh] = InputSum(zero, T)
  <2>1. z1[zero] = InputSum(zero, T)
    BY <1>17, <1>18
  <2>2. z1[zero] \in Int
    BY <1>21
  <2>3. z3[lh] = u[lh]
    <3>1. lh >= T
      BY <1>4, <1>5
    <3>2. QED
      BY <1>19, <1>21, <3>1
  <2>4. QED
    BY <1>5, <1>21, <2>1, <2>2, <2>3
<1>26. z5[T] = InputSum(zero, lh)
  <2>1. z3[zero] = InputSum(T, lh)
    BY <1>5, <1>17, <1>19
  <2>2. z5[T] = w[T]
    BY <1>4, <1>20, <1>22
  <2>3. InputSum(zero, T) + InputSum(T, lh) + 0 = InputSum(zero, lh)
    BY <1>24 DEF InputSum
  <2>4. QED
    BY <1>5, <1>22, <1>25, <2>1, <2>2, <2>3
<1>27. z5[zero] = InputSum(lh, 3 * T)
  BY <1>17, <1>20
<1>28. InputSum(zero, lh) + InputSum(lh, 3 * T) = InputSum(zero, 3 * T)
  BY <1>24 DEF InputSum
<1>29. hash = lh + 3 /\ next = lh + 2 /\ T12 = lh + 1
  BY <1>5, <1>17
<1>30. y[lh + 1] = InputSum(zero, lh) /\ y[lh + 2] = InputSum(lh, 3 * T)
       /\ y[lh + 3] = InputSum(zero, 3 * T)
  BY <1>23, <1>26, <1>27, <1>28, <1>29
<1>31. QED
  BY <1>5, <1>30

-----------------------------------------------------------------------------
(* A phase in which every m-th thread, of those with f cells each, adds    *)
(* the cell e ahead of its first to it.                                    *)
EachAdds(phase, T, m, b, f, e) ==
  \A t \in 0 .. T - 1 : t % m = 0 => phase.op[t] = AddTo(b + f * t, b + f * t + e)

(* Such a phase is a round of a sum along a tree.                          *)
LEMMA TreeStep ==
  ASSUME NEW T \in Nat, NEW r \in Nat, NEW N \in Nat, NEW b \in Nat,
         NEW f \in Nat \ {0}, NEW m \in Nat \ {0}, f * m = TwoTo[r], f * T = N,
         NEW e \in Nat, e = TwoTo[r - 1], NEW phase, EachAdds(phase, T, m, b, f, e),
         NEW u, NEW z, InPhase(phase, T, u, z)
  PROVE  TreeRound(r, N, b, u, z)
<1>1. SUFFICES ASSUME NEW j \in Nat, TwoTo[r] * j < N
               PROVE  z[b + TwoTo[r] * j]
                        = u[b + TwoTo[r] * j] + u[b + TwoTo[r] * j + TwoTo[r - 1]]
  BY DEF TreeRound
<1> DEFINE t == m * j
           zero == 0
<1>2. t \in Nat /\ f * t = TwoTo[r] * j
  <2>1. m * j \in Nat /\ f * (m * j) = (f * m) * j
    OBVIOUS
  <2>2. QED
    BY <2>1
<1>3. t % m = 0
  <2>1. zero \in 0 .. m - 1 /\ m * j + zero = m * j
    OBVIOUS
  <2>2. zero = 0
    OBVIOUS
  <2> HIDE DEF zero
  <2>3. (m * j + zero) % m = zero
    BY <2>1, RemainderUnique
  <2>4. QED
    BY <2>1, <2>2, <2>3
<1> HIDE DEF t
<1>4. t \in 0 .. T - 1
  <2>1. f * t < f * T
    BY <1>1, <1>2
  <2>2. SUFFICES ASSUME T <= t PROVE FALSE
    BY <1>2
  <2>3. PICK c \in Nat : t = T + c
    <3>1. t - T \in Nat /\ t = T + (t - T)
      BY <1>2, <2>2
    <3>2. QED
      BY <3>1
  <2>4. f * (T + c) = f * T + f * c /\ f * c \in Nat /\ f * T \in Nat
    OBVIOUS
  <2>5. QED
    BY <2>1, <2>3, <2>4
<1> DEFINE d == b + f * t
           l == d + e
<1>5. d \in Nat /\ l \in Nat
  <2>1. f * t \in Nat
    BY <1>2
  <2>2. QED
    BY <2>1
<1>6. phase.op[t] = AddTo(d, l)
  BY <1>3, <1>4 DEF EachAdds
<1>7. d = b + TwoTo[r] * j /\ l = d + TwoTo[r - 1]
  BY <1>2
<1> HIDE DEF d, l
<1>8. d \in Cells /\ l \in Cells /\ z[d] = u[d] + u[l]
  BY <1>4, <1>5, <1>6, AddEffect
<1>9. QED
  BY <1>7, <1>8

(* A number that thread 0 puts into cell 1 and adds to cell 0.             *)
LEMMA AddLast ==
  ASSUME NEW T \in Nat, T > 0, NEW zero, zero = 0, NEW one, one = 1, NEW i, NEW sync,
         NEW p1, p1 = Thread0(T, Put(one, i), sync), NEW p2, p2 = Thread0(T, AddTo(zero, one), sync),
         NEW x, NEW u, NEW y, InPhase(p1, T, x, u), InPhase(p2, T, u, y)
  PROVE  y[zero] = x[zero] + Input[i] /\ x[zero] \in Int /\ Input[i] \in Int
<1> DEFINE e == Input[i]
<1>1. InPhase(Thread0(T, Assign(one, NoCell, NoCell, e), sync), T, x, u)
  BY DEF Put
<1>2. AddTo(zero, one) = Assign(zero, zero, one, zero)
  BY DEF AddTo
<1>3. InPhase(Thread0(T, Assign(zero, zero, one, zero), sync), T, u, y)
  BY <1>2
<1>4. zero \in Nat /\ one \in Nat /\ e = Input[i]
  OBVIOUS
<1> HIDE DEF e
<1>5. /\ one \in Cells /\ e \in Int /\ u[one] = e
      /\ \A c \in Cells : c # one => u[c] = x[c]
  BY <1>1, <1>4, Thread0None
<1>6. /\ zero \in Cells /\ y[zero] = u[zero] + u[one] + zero
      /\ \A c \in Cells : c # zero => y[c] = u[c]
  BY <1>3, <1>4, Thread0Two
<1>7. x \in [Cells -> Int]
  BY DEF InPhase
<1>8. u[zero] = x[zero] /\ x[zero] \in Int
  BY <1>5, <1>6, <1>7
<1>9. QED
  BY <1>4, <1>5, <1>6, <1>8

(* The rounds of kernel_cal_S.                                             *)
LEMMA CalSTree ==
  ASSUME NEW k, NEW n, NEW T, NEW h, BlockOf(k, n, T, h),
         NEW zero, zero = 0, NEW N, N = TwoTo[n]
  PROVE  IsTree(CalSRounds(T), T, n, N, zero)
<1> SUFFICES ASSUME NEW r \in 1 .. n, NEW u \in [Cells -> Int], NEW z \in [Cells -> Int],
                    InPhase(CalSRounds(T)[r], T, u, z)
             PROVE  TreeRound(r, N, zero, u, z)
  BY DEF IsTree
<1> DEFINE phase == CalSRounds(T)[r]
           f == 1
           m == TwoTo[r]
           e == TwoTo[r - 1]
<1>1. n \in Nat /\ T \in Nat /\ T = TwoTo[n] /\ Log2(T) = n
  BY BlockSizes
<1>2. r \in Nat /\ r - 1 \in Nat /\ f \in Nat \ {0} /\ zero \in Nat
  BY <1>1
<1>3. m \in Nat \ {0} /\ e \in Nat
  BY <1>2, TwoToFacts
<1>4. phase = Only(T, EachMultiple(T, m), [tx \in 0 .. T - 1 |-> AddTo(tx, tx + e)], FALSE)
  BY <1>1 DEF CalSRounds
<1>5. ASSUME NEW t \in 0 .. T - 1, t % m = 0
      PROVE  phase.op[t] = AddTo(t, t + e)
  <2>1. t \in EachMultiple(T, m)
    BY <1>5 DEF EachMultiple
  <2> HIDE DEF phase, m, e
  <2>2. QED
    BY <1>4, <2>1 DEF Only
<1>6. ASSUME NEW t \in 0 .. T - 1, t % m = 0
      PROVE  phase.op[t] = AddTo(zero + f * t, zero + f * t + e)
  <2>1. zero + f * t = t /\ zero + f * t + e = t + e
    BY <1>3
  <2>2. phase.op[t] = AddTo(t, t + e)
    BY <1>5, <1>6
  <2> HIDE DEF phase, f, e
  <2>3. QED
    BY <2>1, <2>2
<1>7. f * m = TwoTo[r] /\ f * T = TwoTo[n] /\ TwoTo[n] \in Nat /\ e = TwoTo[r - 1]
  BY <1>1, <1>3
<1>8. InPhase(phase, T, u, z)
  OBVIOUS
<1>9. EachAdds(phase, T, m, zero, f, e)
  BY <1>6 DEF EachAdds
<1>10. N \in Nat /\ f * T = N
  BY <1>7
<1> HIDE DEF phase, f, m, e
<1>11. QED
  BY <1>1, <1>2, <1>3, <1>7, <1>8, <1>9, <1>10, TreeStep

(* The first N cells have been filled with the first operands.             *)
Holding(x, N) == \A c \in Nat : c < N => c \in Cells /\ x[c] = Input[c]

(* A phase that fills cells does that.                                     *)
LEMMA FillHolds ==
  ASSUME NEW T \in Nat, NEW b, b = 0, NEW sync, NEW x, NEW y, InPhase(Fill(T, b, b, sync), T, x, y)
  PROVE  Holding(y, T)
<1> DEFINE i == b
<1>1. InPhase(Fill(T, b, i, sync), T, x, y) /\ b \in Nat /\ i = b
  OBVIOUS
<1> HIDE DEF i
<1>2. \A t \in 0 .. T - 1 : b + t \in Cells /\ y[b + t] = Input[i + t]
  BY <1>1, FillEffect
<1>3. ASSUME NEW c \in Nat, c < T PROVE c \in Cells /\ y[c] = Input[c]
  <2>1. c \in 0 .. T - 1 /\ b + c = c /\ i + c = c
    BY <1>1, <1>3
  <2>2. QED
    BY <1>2, <2>1
<1>4. QED
  BY <1>3 DEF Holding

(* Rounds along a tree leave, in cell 0, the sum of the operands the cells *)
(* have been filled with.                                                  *)
LEMMA TreeSum ==
  ASSUME MAX_CELL \in Nat, NEW T \in Nat, NEW q \in Nat, NEW N, N = TwoTo[q], N <= Operands,
         NEW zero, zero = 0, NEW program, NEW x, NEW y, Runs(program, q, T, x, y),
         IsTree(program, T, q, N, zero), Holding(x, N)
  PROVE  y[zero] = InputSum(zero, N)
<1> DEFINE v == Total(x)
<1>1. x \in [Cells -> Int]
  <2>1. PICK s \in [0 .. q -> [Cells -> Int]] : s[0] = x
    BY DEF Runs
  <2>2. QED
    BY <2>1
<1>2. v \in [Nat -> Int] /\ \A c \in Cells : v[c] = x[c]
  BY <1>1, TotalFacts
<1>3. N \in Nat /\ N \in 0 .. N /\ zero \in Nat /\ zero + N = N /\ zero + N <= Operands
  BY TwoToFacts
<1> HIDE DEF v
<1>4. \A c \in Nat : c < TwoTo[q] => v[c] = x[zero + c]
  <2>1. ASSUME NEW c \in Nat, c < N PROVE v[c] = x[zero + c]
    <3>1. zero + c = c /\ c \in Cells
      BY <2>1 DEF Holding
    <3>2. QED
      BY <1>2, <3>1
  <2>2. QED
    BY <2>1
<1>5. \A c \in Nat : c < N => v[c] = Input[zero + c]
  <2>1. ASSUME NEW c \in Nat, c < N PROVE v[c] = Input[zero + c]
    <3>1. zero + c = c /\ c \in Cells /\ x[c] = Input[c]
      BY <2>1 DEF Holding
    <3>2. QED
      BY <1>2, <3>1
  <2>2. QED
    BY <2>1
<1>6. y[zero] = Prefix(v)[TwoTo[q]]
  BY <1>2, <1>3, <1>4, TreeEffect
<1>7. \A j \in 0 .. N : Prefix(v)[j] = InputSum(zero, zero + j)
  BY <1>2, <1>3, <1>5, PrefixOfInput
<1>8. Prefix(v)[N] = InputSum(zero, N)
  BY <1>3, <1>7
<1>9. QED
  BY <1>6, <1>8

(* kernel_cal_S.                                                           *)
LEMMA CalSSum ==
  ASSUME NEW k, NEW n, NEW T, NEW h, BlockOf(k, n, T, h),
         NEW x, NEW y, Runs(CalS(T), Len(CalS(T)), T, x, y)
  PROVE  y[0] = InputSum(0, T + 1)
<1> DEFINE zero == 0
           one == 1
           two == 2
           no == FALSE
           yes == TRUE
           sum == CalSRounds(T)
           fill == Fill(T, zero, zero, yes)
           put == Thread0(T, Put(one, T), no)
           add == Thread0(T, AddTo(zero, one), no)
           start == <<fill>>
           end == <<put, add>>
           c == start \o sum
           d == c \o end
<1>1. /\ MAX_CELL \in Nat /\ T \in Nat /\ T >= 4 /\ T = TwoTo[n] /\ n \in Nat /\ Log2(T) = n
      /\ Operands \in Nat /\ 3 * T <= Operands
  BY BlockSizes
<1>2. CalS(T) = d
  BY DEF CalS, CalSFrom
<1>3. Phases(sum, n)
  <2>1. sum = [r \in 1 .. n |-> sum[r]]
    BY <1>1 DEF CalSRounds
  <2>2. QED
    BY <1>1, <2>1 DEF Phases
<1>4. Phases(start, one) /\ start[1] = fill /\ Phases(end, two) /\ end[1] = put /\ end[2] = add
  BY ShortPrograms
<1>5. zero = 0 /\ one = 1 /\ two = 2 /\ c = start \o sum /\ d = c \o end /\ sum = CalSRounds(T)
  OBVIOUS
<1>6. /\ fill = Fill(T, zero, zero, yes) /\ put = Thread0(T, Put(one, T), no)
      /\ add = Thread0(T, AddTo(zero, one), no)
  OBVIOUS
<1> HIDE DEF zero, one, two, no, yes, sum, fill, put, add, start, end, c, d
<1>7. Phases(c, one + n)
  BY <1>3, <1>4, <1>5, PhasesJoined
<1>8. Runs(d, Len(d), T, x, y)
  BY <1>2
<1>9. PICK z1 \in [Cells -> Int] : Runs(c, Len(c), T, x, z1) /\ Runs(end, two, T, z1, y)
  BY <1>4, <1>5, <1>7, <1>8, RunsSplit
<1>10. PICK z0 \in [Cells -> Int] : Runs(start, Len(start), T, x, z0) /\ Runs(sum, n, T, z0, z1)
  BY <1>3, <1>4, <1>5, <1>9, RunsSplit
<1>11. PICK u \in [Cells -> Int] : InPhase(end[1], T, z1, u) /\ InPhase(end[2], T, u, y)
  BY <1>5, <1>9, RunsTwo
<1>12. InPhase(Fill(T, zero, zero, yes), T, x, z0)
  <2>1. Len(start) = one
    BY <1>4, <1>5 DEF Phases
  <2>2. Runs(start, one, T, x, z0)
    BY <1>10, <2>1
  <2>3. InPhase(start[1], T, x, z0)
    BY <1>5, <2>2, RunsOne
  <2>4. QED
    BY <1>4, <1>6, <2>3
<1>13. Holding(z0, T)
  <2>1. T \in Nat /\ zero = 0
    BY <1>1, <1>5
  <2>2. QED
    BY <1>12, <2>1, FillHolds
<1>14. z1[zero] = InputSum(zero, T)
  <2>1. T \in Nat /\ n \in Nat /\ T = TwoTo[n] /\ T <= Operands /\ MAX_CELL \in Nat /\ zero = 0
    BY <1>1, <1>5
  <2>2. IsTree(sum, T, n, T, zero)
    BY <1>5, <2>1, CalSTree
  <2>3. Runs(sum, n, T, z0, z1)
    BY <1>10
  <2>4. QED
    BY <1>13, <2>1, <2>2, <2>3, TreeSum, SMTT(90)
<1>15. y[zero] = z1[zero] + Input[T] /\ z1[zero] \in Int /\ Input[T] \in Int
  <2>1. T \in Nat /\ T > 0 /\ zero = 0 /\ one = 1
    BY <1>1, <1>5
  <2>2. InPhase(put, T, z1, u) /\ InPhase(add, T, u, y)
    BY <1>4, <1>11
  <2>3. QED
    BY <1>6, <2>1, <2>2, AddLast
<1>16. InputSum(zero, T) + Input[T] = InputSum(zero, T + 1)
  <2>1. T \in 0 .. Operands - 1 /\ zero \in 0 .. Operands /\ T \in 0 .. Operands
    BY <1>1, <1>5
  <2>2. /\ SumTo[T + 1] = SumTo[T] + Input[T] /\ Input[T] \in Int
        /\ SumTo[T] \in Int /\ SumTo[zero] \in Int
    BY <1>1, <2>1, SumToFacts
  <2>3. QED
    BY <2>2 DEF InputSum
<1>17. QED
  BY <1>5, <1>14, <1>15, <1>16

(* The rounds of kernel_calP.                                              *)
CalPRounds(T) ==
  [r \in 1 .. Log2(T) + 1 |->
     Only(T, EachMultiple(T, TwoTo[r - 1]),
          [tx \in 0 .. T - 1 |-> AddTo(2 * tx, 2 * tx + TwoTo[r - 1])], TRUE)]

(* They are along a tree, with two cells to a thread.                      *)
LEMMA CalPTree ==
  ASSUME NEW k, NEW n, NEW T, NEW h, BlockOf(k, n, T, h),
         NEW zero, zero = 0, NEW q, q = n + 1, NEW N, N = TwoTo[q]
  PROVE  IsTree(CalPRounds(T), T, q, N, zero)
<1> SUFFICES ASSUME NEW r \in 1 .. q, NEW u \in [Cells -> Int], NEW z \in [Cells -> Int],
                    InPhase(CalPRounds(T)[r], T, u, z)
             PROVE  TreeRound(r, N, zero, u, z)
  BY DEF IsTree
<1> DEFINE phase == CalPRounds(T)[r]
           f == 2
           m == TwoTo[r - 1]
           e == m
<1>1. n \in Nat /\ T \in Nat /\ T = TwoTo[n] /\ Log2(T) = n
  BY BlockSizes
<1>2. r \in Nat /\ r - 1 \in Nat /\ (r - 1) + 1 = r /\ f \in Nat \ {0} /\ zero \in Nat
  BY <1>1
<1>3. m \in Nat \ {0} /\ TwoTo[(r - 1) + 1] = 2 * m
  BY <1>2, TwoToFacts
<1>4. phase = Only(T, EachMultiple(T, m), [tx \in 0 .. T - 1 |-> AddTo(2 * tx, 2 * tx + m)], TRUE)
  BY <1>1 DEF CalPRounds
<1>5. ASSUME NEW t \in 0 .. T - 1, t % m = 0
      PROVE  phase.op[t] = AddTo(2 * t, 2 * t + m)
  <2>1. t \in EachMultiple(T, m)
    BY <1>5 DEF EachMultiple
  <2> HIDE DEF phase, m
  <2>2. QED
    BY <1>4, <2>1 DEF Only
<1>6. ASSUME NEW t \in 0 .. T - 1, t % m = 0
      PROVE  phase.op[t] = AddTo(zero + f * t, zero + f * t + e)
  <2>1. zero + f * t = 2 * t /\ zero + f * t + e = 2 * t + m
    BY <1>3
  <2>2. phase.op[t] = AddTo(2 * t, 2 * t + m)
    BY <1>5, <1>6
  <2> HIDE DEF phase, f, e, m
  <2>3. QED
    BY <2>1, <2>2
<1>7. f * m = TwoTo[r] /\ e = TwoTo[r - 1] /\ e \in Nat
  BY <1>2, <1>3
<1>8. InPhase(phase, T, u, z)
  OBVIOUS
<1>9. EachAdds(phase, T, m, zero, f, e)
  BY <1>6 DEF EachAdds
<1>10. N \in Nat /\ f * T = N
  <2>1. TwoTo[n + 1] = 2 * TwoTo[n]
    BY <1>1, TwoToFacts
  <2>2. QED
    BY <1>1, <2>1
<1> HIDE DEF phase, f, m, e
<1>11. QED
  BY <1>1, <1>2, <1>3, <1>7, <1>8, <1>9, <1>10, TreeStep

(* Two operands that thread 0 adds to cell 0, one by way of cell 1.        *)
LEMMA AddTwo ==
  ASSUME NEW T \in Nat, T > 0, NEW zero, zero = 0, NEW one, one = 1, NEW e, NEW i, NEW sync,
         NEW p1, p1 = Thread0(T, Assign(zero, zero, NoCell, e), sync),
         NEW p2, p2 = Thread0(T, Put(one, i), sync), NEW p3, p3 = Thread0(T, AddTo(zero, one), sync),
         NEW end, end = <<p1, p2, p3>>, NEW three, three = 3,
         NEW x, NEW y, Runs(end, three, T, x, y)
  PROVE  y[zero] = x[zero] + e + Input[i] /\ x[zero] \in Int /\ e \in Int /\ Input[i] \in Int
<1>1. PICK u, z \in [Cells -> Int] :
        /\ InPhase(end[1], T, x, u) /\ InPhase(end[2], T, u, z)
        /\ InPhase(end[3], T, z, y)
  BY RunsThree
<1>2. end[1] = p1 /\ end[2] = p2 /\ end[3] = p3
  OBVIOUS
<1>3. InPhase(p1, T, x, u) /\ InPhase(p2, T, u, z) /\ InPhase(p3, T, z, y)
  BY <1>1, <1>2
<1>4. /\ zero \in Cells /\ e \in Int /\ u[zero] = x[zero] + e
      /\ \A c \in Cells : c # zero => u[c] = x[c]
  <2>1. InPhase(Thread0(T, Assign(zero, zero, NoCell, e), sync), T, x, u) /\ zero \in Nat
    BY <1>3
  <2>2. zero \in Cells /\ zero \in Cells /\ e \in Int /\ u[zero] = x[zero] + e
        /\ \A c \in Cells : c # zero => u[c] = x[c]
    BY <2>1, Thread0One, SMTT(60)
  <2>3. QED
    BY <2>2
<1>5. y[zero] = u[zero] + Input[i] /\ u[zero] \in Int /\ Input[i] \in Int
  BY <1>3, AddLast
<1>6. x \in [Cells -> Int]
  BY <1>3 DEF InPhase
<1>7. QED
  BY <1>4, <1>5, <1>6

(* kernel_calP.                                                            *)
LEMMA CalPSum ==
  ASSUME NEW k, NEW n, NEW T, NEW h, BlockOf(k, n, T, h),
         NEW x, NEW y, Runs(CalP(T), Len(CalP(T)), T, x, y)
  PROVE  y[0] = InputSum(0, 2 * T + 2)
<1> DEFINE zero == 0
           one == 1
           two == 2
           three == 3
           no == FALSE
           at == T
           from == T
           N == 2 * T
           next == N + 1
           q == n + 1
           e == Input[N]
           sum == CalPRounds(T)
           low == Fill(T, zero, zero, no)
           high == Fill(T, at, from, no)
           p1 == Thread0(T, Assign(zero, zero, NoCell, e), no)
           p2 == Thread0(T, Put(one, next), no)
           p3 == Thread0(T, AddTo(zero, one), no)
           start == <<low, high>>
           end == <<p1, p2, p3>>
           c == start \o sum
           d == c \o end
<1>1. /\ MAX_CELL \in Nat /\ T \in Nat /\ T >= 4 /\ T = TwoTo[n] /\ n \in Nat /\ n >= 2
      /\ Log2(T) = n /\ Operands \in Nat /\ 3 * T <= Operands
  BY BlockSizes
<1>2. CalP(T) = d
  BY DEF CalP, CalPRounds
<1>3. Phases(sum, q)
  <2>1. sum = [r \in 1 .. q |-> sum[r]]
    BY <1>1 DEF CalPRounds
  <2>2. q \in Nat
    BY <1>1
  <2>3. QED
    BY <2>1, <2>2 DEF Phases
<1>4. /\ Phases(start, two) /\ start[1] = low /\ start[2] = high
      /\ Phases(end, three)
  BY ShortPrograms
<1>5. /\ zero = 0 /\ one = 1 /\ two = 2 /\ three = 3 /\ at = T /\ from = T /\ N = 2 * T
      /\ next = N + 1 /\ q = n + 1 /\ e = Input[N]
  OBVIOUS
<1>6. c = start \o sum /\ d = c \o end /\ end = <<p1, p2, p3>> /\ sum = CalPRounds(T)
  OBVIOUS
<1>7. /\ low = Fill(T, zero, zero, no) /\ high = Fill(T, at, from, no)
      /\ p1 = Thread0(T, Assign(zero, zero, NoCell, e), no)
      /\ p2 = Thread0(T, Put(one, next), no) /\ p3 = Thread0(T, AddTo(zero, one), no)
  OBVIOUS
<1> HIDE DEF zero, one, two, three, no, at, from, N, next, q, e, sum, low, high, p1, p2, p3,
             start, end, c, d
<1>8. Phases(c, two + q)
  BY <1>3, <1>4, <1>6, PhasesJoined
<1>9. Runs(d, Len(d), T, x, y)
  BY <1>2
<1>10. PICK z1 \in [Cells -> Int] : Runs(c, Len(c), T, x, z1) /\ Runs(end, three, T, z1, y)
  BY <1>4, <1>6, <1>8, <1>9, RunsSplit
<1>11. PICK z0 \in [Cells -> Int] : Runs(start, Len(start), T, x, z0) /\ Runs(sum, q, T, z0, z1)
  BY <1>3, <1>4, <1>6, <1>10, RunsSplit
<1>12. PICK u \in [Cells -> Int] : InPhase(low, T, x, u) /\ InPhase(high, T, u, z0)
  <2>1. Len(start) = two
    BY <1>4, <1>5 DEF Phases
  <2>2. Runs(start, two, T, x, z0)
    BY <1>11, <2>1
  <2>3. PICK u \in [Cells -> Int] : InPhase(start[1], T, x, u) /\ InPhase(start[2], T, u, z0)
    BY <1>5, <2>2, RunsTwo
  <2>4. QED
    BY <1>4, <2>3
<1>13. Holding(z0, N)
  <2>1. Holding(u, T)
    <3>1. InPhase(Fill(T, zero, zero, no), T, x, u) /\ T \in Nat /\ zero = 0
      BY <1>1, <1>5, <1>7, <1>12
    <3>2. QED
      BY <3>1, FillHolds
  <2>2. /\ \A t \in 0 .. T - 1 : at + t \in Cells /\ z0[at + t] = Input[from + t]
        /\ \A a \in Cells : a < at \/ a >= at + T => z0[a] = u[a]
    <3>1. InPhase(Fill(T, at, from, no), T, u, z0) /\ T \in Nat /\ at \in Nat
      BY <1>1, <1>5, <1>7, <1>12
    <3>2. \A t \in 0 .. T - 1 : at + t \in Cells /\ z0[at + t] = Input[from + t]
      BY <3>1, FillEffect, SMTT(90)
    <3>3. \A a \in Cells : a < at \/ a >= at + T => z0[a] = u[a]
      BY <3>1, FillEffect, SMTT(90)
    <3>4. QED
      BY <3>2, <3>3
  <2>3. ASSUME NEW a \in Nat, a < N PROVE a \in Cells /\ z0[a] = Input[a]
    <3>1. CASE a < T
      <4>1. a \in Cells /\ u[a] = Input[a] /\ a < at
        BY <1>5, <2>1, <3>1 DEF Holding
      <4>2. QED
        BY <2>2, <4>1
    <3>2. CASE a >= T
      <4>1. T \in Nat /\ a < 2 * T
        BY <1>1, <1>5, <2>3
      <4>2. a - T \in 0 .. T - 1 /\ T + (a - T) = a
        BY <3>2, <4>1
      <4>3. QED
        BY <1>5, <2>2, <4>2
    <3>3. QED
      BY <1>1, <3>1, <3>2
  <2>4. QED
    BY <2>3 DEF Holding
<1>14. z1[zero] = InputSum(zero, N)
  <2>1. /\ T \in Nat /\ q \in Nat /\ N = TwoTo[q] /\ N <= Operands /\ MAX_CELL \in Nat
        /\ zero = 0 /\ q = n + 1
    <3>1. TwoTo[n + 1] = 2 * TwoTo[n]
      BY <1>1, TwoToFacts
    <3>2. N = TwoTo[q] /\ q \in Nat
      BY <1>1, <1>5, <3>1
    <3>3. N <= Operands
      <4>1. T \in Nat /\ Operands \in Nat /\ 3 * T <= Operands /\ N = 2 * T
        BY <1>1, <1>5
      <4>2. QED
        BY <4>1
    <3>4. QED
      BY <1>1, <1>5, <3>2, <3>3
  <2>2. IsTree(sum, T, q, N, zero)
    BY <1>6, <2>1, CalPTree
  <2>3. Runs(sum, q, T, z0, z1)
    BY <1>11
  <2>4. QED
    BY <1>13, <2>1, <2>2, <2>3, TreeSum, SMTT(90)
<1>15. y[zero] = z1[zero] + e + Input[next] /\ z1[zero] \in Int /\ e \in Int /\ Input[next] \in Int
  <2>1. T \in Nat /\ T > 0 /\ zero = 0 /\ one = 1 /\ three = 3
    BY <1>1, <1>5
  <2>2. QED
    BY <1>6, <1>7, <1>10, <2>1, AddTwo
<1>16. InputSum(zero, N) + e + Input[next] = InputSum(zero, N + 2)
  <2>1. N \in 0 .. Operands - 1 /\ next \in 0 .. Operands - 1 /\ zero \in 0 .. Operands
        /\ N \in 0 .. Operands /\ N + 1 = next /\ next + 1 = N + 2
    <3>1. T \in Nat /\ T >= 4 /\ Operands \in Nat /\ 3 * T <= Operands
      BY <1>1
    <3>2. N = 2 * T /\ next = N + 1 /\ zero = 0
      BY <1>5
    <3>3. N \in Nat /\ N + 4 <= 3 * T
      BY <3>1, <3>2
    <3>4. N \in Nat /\ N + 4 <= Operands
      BY <3>1, <3>3
    <3>5. QED
      BY <3>1, <3>2, <3>4
  <2>2. /\ SumTo[N + 1] = SumTo[N] + Input[N] /\ SumTo[next + 1] = SumTo[next] + Input[next]
        /\ SumTo[N] \in Int /\ SumTo[zero] \in Int /\ Input[N] \in Int /\ Input[next] \in Int
    BY <1>1, <2>1, SumToFacts
  <2>3. SumTo[next] = SumTo[N] + e /\ SumTo[N + 2] = SumTo[next] + Input[next]
    BY <1>5, <2>1, <2>2
  <2>4. QED
    BY <1>5, <2>2, <2>3, SMTT(60) DEF InputSum
<1>17. QED
  BY <1>5, <1>14, <1>15, <1>16

(* The first five phases of kernel_rhs65, and its rounds.                  *)
Rhs65Starts ==
  <<Thread0(4, Put(0, 0), FALSE), Thread0(4, Put(3, 3), FALSE), Thread0(4, Put(1, 1), FALSE),
    Thread0(4, Put(2, 2), FALSE), Only(4, Below(4), [tx \in 0 .. 3 |-> Copy(4 + tx, tx)], FALSE)>>
Rhs65Rounds ==
  [r \in 1 .. 2 |-> Only(4, EachMultiple(4, TwoTo[r]),
                         [tx \in 0 .. 3 |-> AddTo(4 + tx, 4 + tx + TwoTo[r - 1])], FALSE)]

(* The rounds are along a tree.                                            *)
LEMMA Rhs65Tree ==
  ASSUME NEW T, T = 4, NEW q, q = 2, NEW b, b = 4
  PROVE  IsTree(Rhs65Rounds, T, q, TwoTo[q], b)
<1> SUFFICES ASSUME NEW r \in 1 .. q, NEW u \in [Cells -> Int], NEW z \in [Cells -> Int],
                    InPhase(Rhs65Rounds[r], T, u, z)
             PROVE  TreeRound(r, TwoTo[q], b, u, z)
  BY DEF IsTree
<1> DEFINE phase == Rhs65Rounds[r]
           f == 1
           m == TwoTo[r]
           e == TwoTo[r - 1]
           N == TwoTo[q]
<1>1. N = T
  <2>1. 0 \in Nat /\ 1 \in Nat /\ 0 + 1 = 1 /\ 1 + 1 = 2
    OBVIOUS
  <2>2. TwoTo[0] = 1 /\ TwoTo[0 + 1] = 2 * TwoTo[0] /\ TwoTo[1 + 1] = 2 * TwoTo[1]
    BY <2>1, TwoToFacts
  <2>3. TwoTo[2] = 4
    BY <2>1, <2>2
  <2>4. QED
    BY <2>3
<1>2. r \in Nat /\ r - 1 \in Nat /\ f \in Nat \ {0} /\ b \in Nat /\ T \in Nat /\ r \in 1 .. 2
  OBVIOUS
<1>3. m \in Nat \ {0} /\ e \in Nat
  BY <1>2, TwoToFacts
<1>4. phase = Only(T, EachMultiple(T, m), [tx \in 0 .. 3 |-> AddTo(T + tx, T + tx + e)], FALSE)
  BY <1>2 DEF Rhs65Rounds
<1>5. ASSUME NEW t \in 0 .. T - 1, t % m = 0
      PROVE  phase.op[t] = AddTo(T + t, T + t + e)
  <2>1. t \in EachMultiple(T, m) /\ t \in 0 .. 3
    BY <1>5 DEF EachMultiple
  <2> HIDE DEF phase, m, e
  <2>2. QED
    BY <1>4, <2>1 DEF Only
<1>6. ASSUME NEW t \in 0 .. T - 1, t % m = 0
      PROVE  phase.op[t] = AddTo(b + f * t, b + f * t + e)
  <2>1. b + f * t = T + t /\ b + f * t + e = T + t + e
    BY <1>3
  <2>2. phase.op[t] = AddTo(T + t, T + t + e)
    BY <1>5, <1>6
  <2> HIDE DEF phase, f, e
  <2>3. QED
    BY <2>1, <2>2
<1>7. f * m = TwoTo[r] /\ f * T = N /\ N \in Nat /\ e = TwoTo[r - 1]
  BY <1>1, <1>3
<1>8. InPhase(phase, T, u, z)
  OBVIOUS
<1>9. EachAdds(phase, T, m, b, f, e)
  BY <1>6 DEF EachAdds
<1> HIDE DEF phase, f, m, e, N
<1>10. TreeRound(r, N, b, u, z)
  BY <1>2, <1>3, <1>7, <1>8, <1>9, TreeStep
<1>11. QED
  BY <1>10 DEF N

(* A phase in which thread 0 puts an operand into a cell.                  *)
LEMMA PutEffect ==
  ASSUME NEW T \in Nat, T > 0, NEW d \in Nat, NEW i, NEW sync, NEW x, NEW y,
         InPhase(Thread0(T, Put(d, i), sync), T, x, y)
  PROVE  d \in Cells /\ y[d] = Input[i] /\ \A c \in Cells : c # d => y[c] = x[c]
<1> DEFINE e == Input[i]
<1>1. InPhase(Thread0(T, Assign(d, NoCell, NoCell, e), sync), T, x, y) /\ e = Input[i]
  BY DEF Put
<1> HIDE DEF e
<1>2. /\ d \in Cells /\ e \in Int /\ y[d] = e
      /\ \A c \in Cells : c # d => y[c] = x[c]
  BY <1>1, Thread0None
<1>3. QED
  BY <1>1, <1>2

(* Every thread copies the cell of its number to b cells further on.       *)
Copies(do, T, b) == \A t \in 0 .. T - 1 : do[t] = Copy(b + t, t)

(* What a phase does in which they do.                                     *)
LEMMA CopyEffect ==
  ASSUME NEW T \in Nat, NEW b \in Nat, NEW sync, NEW do, Copies(do, T, b),
         NEW x, NEW y, InPhase(Only(T, Below(T), do, sync), T, x, y)
  PROVE  \A t \in 0 .. T - 1 : t \in Cells /\ y[b + t] = x[t]
<1> DEFINE phase == Only(T, Below(T), do, sync)
           zero == 0
<1>1. InPhase(phase, T, x, y) /\ x \in [Cells -> Int] /\ zero = 0 /\ zero \in Int
  BY DEF InPhase
<1>2. \A t \in 0 .. T - 1 : phase.op[t] = do[t]
  BY DEF Only, Below
<1> HIDE DEF phase
<1>3. /\ \A t \in 0 .. T - 1 : phase.op[t] \in Access
      /\ Written(phase, T, x, y)
  BY <1>1, PhaseEffect
<1> SUFFICES ASSUME NEW t \in 0 .. T - 1 PROVE t \in Cells /\ y[b + t] = x[t]
  OBVIOUS
<1> DEFINE d == b + t
<1>4. d # NoCell /\ t # NoCell
  BY DEF NoCell
<1>5. phase.op[t] = Assign(d, t, NoCell, zero)
  BY <1>2 DEF Copy, Copies
<1> HIDE DEF d, zero
<1>6. phase.op[t].dst = d /\ phase.op[t].left = t
  BY <1>5 DEF Assign
<1>7. y[d] = Sum(x, phase.op[t])
  BY <1>3, <1>4, <1>6 DEF Written
<1>8. t \in Cells
  <2>1. phase.op[t] \in Access
    BY <1>3
  <2>2. phase.op[t].left \in Cells \cup {NoCell}
    BY <2>1 DEF Access
  <2>3. QED
    BY <1>4, <1>6, <2>2
<1>9. y[d] = x[t] + zero
  BY <1>1, <1>5, <1>7, <1>8, Sums
<1>10. x[t] \in Int
  BY <1>1, <1>8
<1>11. QED
  BY <1>1, <1>8, <1>9, <1>10 DEF d

(* Before its rounds kernel_rhs65 has the operands in cells 4 to 7.        *)
LEMMA Rhs65Copies ==
  ASSUME NEW x, NEW y, Runs(Rhs65, Len(Rhs65), 4, x, y)
  PROVE  \E z \in [Cells -> Int] :
           /\ Runs(Rhs65Rounds, 2, 4, z, y)
           /\ \A t \in Nat : t < 4 => z[4 + t] = Input[t]
<1> DEFINE T == 4
           zero == 0
           one == 1
           two == 2
           three == 3
           five == 5
           no == FALSE
           b == 4
           do == [tx \in 0 .. 3 |-> Copy(b + tx, tx)]
           p0 == Thread0(T, Put(zero, zero), no)
           p1 == Thread0(T, Put(one, one), no)
           p2 == Thread0(T, Put(two, two), no)
           p3 == Thread0(T, Put(three, three), no)
           copy == Only(T, Below(T), do, no)
           start == Rhs65Starts
           sum == Rhs65Rounds
           program == start \o sum
<1>1. Rhs65 = program
  BY DEF Rhs65, Rhs65Starts, Rhs65Rounds
<1>2. Phases(start, five) /\ Phases(sum, two)
  BY DEF Phases, Rhs65Starts, Rhs65Rounds
<1>3. /\ start[1] = p0 /\ start[2] = p3 /\ start[3] = p1 /\ start[4] = p2
      /\ start[5] = copy
  BY DEF Rhs65Starts
<1>4. Copies(do, T, b)
  BY DEF Copies
<1>5. /\ T = 4 /\ zero = 0 /\ one = 1 /\ two = 2 /\ three = 3 /\ b = 4 /\ five = 5
      /\ program = start \o sum
      /\ sum = Rhs65Rounds /\ copy = Only(T, Below(T), do, no)
      /\ p0 = Thread0(T, Put(zero, zero), no) /\ p1 = Thread0(T, Put(one, one), no)
      /\ p2 = Thread0(T, Put(two, two), no) /\ p3 = Thread0(T, Put(three, three), no)
  OBVIOUS
<1> HIDE DEF T, zero, one, two, three, five, no, b, do, p0, p1, p2, p3, copy, start, sum, program
<1>6. Runs(program, Len(program), T, x, y)
  BY <1>1, <1>5
<1>7. PICK z \in [Cells -> Int] : Runs(start, Len(start), T, x, z) /\ Runs(sum, two, T, z, y)
  BY <1>2, <1>5, <1>6, RunsSplit
<1>8. Runs(start, 5, T, x, z)
  <2>1. Len(start) = five
    BY <1>2, <1>5 DEF Phases
  <2>2. QED
    BY <1>5, <1>7, <2>1
<1>9. PICK s \in [0 .. 5 -> [Cells -> Int]] :
        /\ s[0] = x /\ s[5] = z
        /\ \A p \in 1 .. 5 : InPhase(start[p], T, s[p - 1], s[p])
  BY <1>8 DEF Runs
<1> DEFINE u == s[1]
           v == s[2]
           w == s[3]
           m == s[4]
<1>10. /\ InPhase(p0, T, x, u) /\ InPhase(p3, T, u, v) /\ InPhase(p1, T, v, w)
       /\ InPhase(p2, T, w, m) /\ InPhase(copy, T, m, z)
  <2>1. /\ InPhase(start[1], T, s[0], s[1]) /\ InPhase(start[2], T, s[1], s[2])
        /\ InPhase(start[3], T, s[2], s[3]) /\ InPhase(start[4], T, s[3], s[4])
        /\ InPhase(start[5], T, s[4], s[5])
    BY <1>9
  <2>2. QED
    BY <1>3, <1>9, <2>1
<1> HIDE DEF u, v, w, m
<1>11. /\ zero # one /\ zero # two /\ zero # three /\ one # two /\ one # three /\ two # three
       /\ zero \in Nat /\ one \in Nat /\ two \in Nat /\ three \in Nat
  BY <1>5
<1>12. /\ zero \in Cells /\ m[zero] = Input[zero] /\ one \in Cells /\ m[one] = Input[one]
       /\ two \in Cells /\ m[two] = Input[two] /\ three \in Cells /\ m[three] = Input[three]
  <2>1. zero \in Cells /\ u[zero] = Input[zero] /\ \A a \in Cells : a # zero => u[a] = x[a]
    <3>1. InPhase(Thread0(T, Put(zero, zero), no), T, x, u) /\ T \in Nat /\ T > 0 /\ zero \in Nat
      BY <1>5, <1>10, <1>11
    <3>2. QED
      BY <3>1, PutEffect, SMTT(90)
  <2>2. three \in Cells /\ v[three] = Input[three] /\ \A a \in Cells : a # three => v[a] = u[a]
    <3>1. InPhase(Thread0(T, Put(three, three), no), T, u, v) /\ T \in Nat /\ T > 0 /\ three \in Nat
      BY <1>5, <1>10, <1>11
    <3>2. QED
      BY <3>1, PutEffect, SMTT(90)
  <2>3. one \in Cells /\ w[one] = Input[one] /\ \A a \in Cells : a # one => w[a] = v[a]
    <3>1. InPhase(Thread0(T, Put(one, one), no), T, v, w) /\ T \in Nat /\ T > 0 /\ one \in Nat
      BY <1>5, <1>10, <1>11
    <3>2. QED
      BY <3>1, PutEffect, SMTT(90)
  <2>4. two \in Cells /\ m[two] = Input[two] /\ \A a \in Cells : a # two => m[a] = w[a]
    <3>1. InPhase(Thread0(T, Put(two, two), no), T, w, m) /\ T \in Nat /\ T > 0 /\ two \in Nat
      BY <1>5, <1>10, <1>11
    <3>2. QED
      BY <3>1, PutEffect, SMTT(90)
  <2>5. m[zero] = w[zero] /\ w[zero] = v[zero] /\ v[zero] = u[zero]
    BY <1>11, <2>1, <2>2, <2>3, <2>4
  <2>6. m[three] = w[three] /\ w[three] = v[three] /\ m[one] = w[one]
    BY <1>11, <2>2, <2>3, <2>4
  <2>7. QED
    BY <2>1, <2>2, <2>3, <2>4, <2>5, <2>6
<1>13. \A a \in 0 .. T - 1 : a \in Cells /\ z[b + a] = m[a]
  <2>1. T \in Nat /\ b \in Nat
    BY <1>5
  <2>2. InPhase(Only(T, Below(T), do, no), T, m, z)
    BY <1>5, <1>10
  <2>3. QED
    BY <1>4, <2>1, <2>2, CopyEffect, SMTT(90)
<1>14. ASSUME NEW t \in Nat, t < 4 PROVE z[b + t] = Input[t]
  <2>1. t \in 0 .. T - 1 /\ (t = zero \/ t = one \/ t = two \/ t = three)
    BY <1>5, <1>14
  <2>2. z[b + t] = m[t]
    BY <1>13, <2>1
  <2>3. m[t] = Input[t]
    BY <1>12, <2>1
  <2>4. QED
    BY <2>2, <2>3
<1>15. QED
  BY <1>5, <1>7, <1>14

(* kernel_rhs65.                                                           *)
LEMMA Rhs65Sum ==
  ASSUME MAX_CELL \in Nat, MAX_CELL >= 4,
         NEW x, NEW y, Runs(Rhs65, Len(Rhs65), 4, x, y)
  PROVE  y[4] = InputSum(0, 4)
<1> DEFINE T == 4
           b == 4
           zero == 0
           two == 2
           sum == Rhs65Rounds
           N == TwoTo[two]
           v == [t \in Nat |-> IF t < 4 THEN Input[t] ELSE 0]
<1>1. PICK z \in [Cells -> Int] : Runs(sum, two, T, z, y) /\ \A t \in Nat : t < T => z[b + t] = Input[t]
  BY Rhs65Copies
<1>2. T = 4 /\ b = 4 /\ zero = 0 /\ two = 2 /\ sum = Rhs65Rounds
  OBVIOUS
<1>3. N = T
  <2>1. 0 \in Nat /\ 1 \in Nat /\ 0 + 1 = 1 /\ 1 + 1 = 2
    OBVIOUS
  <2>2. TwoTo[0] = 1 /\ TwoTo[0 + 1] = 2 * TwoTo[0] /\ TwoTo[1 + 1] = 2 * TwoTo[1]
    BY <2>1, TwoToFacts
  <2>3. TwoTo[2] = 4
    BY <2>1, <2>2
  <2>4. QED
    BY <2>3
<1>4. Operands \in Nat /\ Operands >= 12
  BY DEF Operands
<1>5. v \in [Nat -> Int] /\ \A t \in Nat : t < T => v[t] = Input[t]
  <2>1. ASSUME NEW t \in Nat, t < 4 PROVE Input[t] \in Int
    <3>1. t \in 0 .. Operands - 1
      BY <1>4, <2>1
    <3>2. QED
      BY <3>1, SumToFacts
  <2>2. QED
    BY <2>1
<1>6. N = TwoTo[two]
  OBVIOUS
<1> HIDE DEF T, b, zero, two, sum, N, v
<1>7. y[b] = Prefix(v)[TwoTo[two]]
  <2>1. T \in Nat /\ two \in Nat /\ b \in Nat
    BY <1>2
  <2>2. IsTree(sum, T, two, TwoTo[two], b)
    BY <1>2, Rhs65Tree
  <2>3. \A c \in Nat : c < TwoTo[two] => v[c] = z[b + c]
    BY <1>1, <1>3, <1>5, <1>6
  <2>4. Runs(sum, two, T, z, y) /\ v \in [Nat -> Int]
    BY <1>1, <1>5
  <2>5. QED
    BY ONLY MAX_CELL \in Nat, <2>1, <2>2, <2>3, <2>4, TreeEffect
<1>8. Prefix(v)[N] = InputSum(zero, N)
  <2>1. zero \in Nat /\ N \in Nat /\ zero + N <= Operands /\ N \in 0 .. N /\ zero + N = N
    BY <1>2, <1>3, <1>4
  <2>2. \A c \in Nat : c < N => v[c] = Input[zero + c]
    <3>1. \A c \in Nat : zero + c = c
      BY <1>2
    <3>2. QED
      BY <1>3, <1>5, <3>1
  <2>3. \A j \in 0 .. N : Prefix(v)[j] = InputSum(zero, zero + j)
    BY <1>5, <2>1, <2>2, PrefixOfInput
  <2>4. QED
    BY <2>1, <2>3
<1>9. QED
  BY <1>2, <1>3, <1>6, <1>7, <1>8

-----------------------------------------------------------------------------
(* Each kernel executed in step computes the sums it is there for, but for *)
(* the accumulate_sum of DBCTest.cu.                                       *)
LEMMA SumsInStep ==
  ASSUME NEW k \in Launches, NEW s \in k.sums, k.name # "accumulate_sum_DBC"
  PROVE  InStep(k)[Len(k.program)][s[1]] = s[2]
<1>1. WellFormed(k)
  BY LaunchedBlock
<1>2. PICK n, T, h \in Nat : BlockOf(k, n, T, h)
  BY LaunchedBlock
<1>3. /\ k.name \in Names /\ k.program = KernelOf(k.name, T) /\ k.sums = SumsOf(k.name, T)
      /\ k.memory = MemoryOf(k.name) /\ UNION k.warps = 0 .. T - 1 /\ T \in Nat /\ Log2(T) = n
      /\ k.name = "kernel_rhs65" => n = 2
  BY <1>2 DEF BlockOf
<1> DEFINE x == k.memory
           y == InStep(k)[Len(k.program)]
<1>4. Runs(k.program, Len(k.program), T, x, y)
  BY <1>1, <1>3, InStepRuns
<1>5. y = InStep(k)[Len(k.program)] /\ x = MemoryOf(k.name)
  BY <1>3
<1> HIDE DEF x, y
<1>6. CASE k.name = "accumulate_sum"
  <2>1. k.program = AccumulateSum(T) /\ k.sums = {<<0, InputSum(0, 2 * T)>>}
    BY <1>3, <1>6 DEF KernelOf, SumsOf, PointSums
  <2>2. Runs(AccumulateSum(T), Len(AccumulateSum(T)), T, x, y)
    BY <1>4, <2>1
  <2>3. x = [c \in Cells |-> Input[c]]
    BY <1>5, <1>6 DEF MemoryOf, PointSums
  <2>4. y[0] = InputSum(0, 2 * T)
    BY <1>2, <2>2, <2>3, AccumulateSumSum
  <2>5. s[1] = 0 /\ s[2] = InputSum(0, 2 * T)
    BY <2>1
  <2>6. QED
    BY <1>3, <1>5, <2>4, <2>5
<1>7. CASE k.name = "kernel_cal_S"
  <2>1. k.program = CalS(T) /\ k.sums = {<<0, InputSum(0, T + 1)>>}
    BY <1>3, <1>7 DEF KernelOf, SumsOf, PointSums
  <2>2. Runs(CalS(T), Len(CalS(T)), T, x, y)
    BY <1>4, <2>1
  <2>3. y[0] = InputSum(0, T + 1)
    BY <1>2, <2>2, CalSSum
  <2>4. s[1] = 0 /\ s[2] = InputSum(0, T + 1)
    BY <2>1
  <2>5. QED
    BY <1>3, <1>5, <2>3, <2>4
<1>8. CASE k.name = "kernel_cal_t12"
  <2>1. k.program = CalT12(T)
    BY <1>3, <1>8 DEF KernelOf
  <2>2. k.sums = {<<2 * T + 1, InputSum(0, 2 * T)>>,
                  <<2 * T + 2, InputSum(2 * T, 3 * T)>>,
                  <<2 * T + 3, InputSum(0, 3 * T)>>}
    BY <1>3, <1>8 DEF SumsOf, PointSums
  <2>3. Runs(CalT12(T), Len(CalT12(T)), T, x, y)
    BY <1>4, <2>1
  <2>4. /\ y[2 * T + 1] = InputSum(0, 2 * T)
        /\ y[2 * T + 2] = InputSum(2 * T, 3 * T)
        /\ y[2 * T + 3] = InputSum(0, 3 * T)
    BY <1>2, <2>3, CalT12Sum
  <2>5. \/ s[1] = 2 * T + 1 /\ s[2] = InputSum(0, 2 * T)
        \/ s[1] = 2 * T + 2 /\ s[2] = InputSum(2 * T, 3 * T)
        \/ s[1] = 2 * T + 3 /\ s[2] = InputSum(0, 3 * T)
    BY <2>2
  <2>6. QED
    BY <1>5, <2>4, <2>5
<1>9. CASE k.name = "kernel_cal_vlr"
  <2>1. k.program = CalVlr(T) /\ k.sums = {<<T, InputSum(0, T)>>}
    BY <1>3, <1>9 DEF KernelOf, SumsOf, PointSums
  <2>2. Runs(CalVlr(T), Len(CalVlr(T)), T, x, y)
    BY <1>4, <2>1
  <2>3. y[T] = InputSum(0, T)
    BY <1>2, <2>2, CalVlrSum
  <2>4. s[1] = T /\ s[2] = InputSum(0, T)
    BY <2>1
  <2>5. QED
    BY <1>3, <1>5, <2>3, <2>4
<1>10. CASE k.name = "kernel_calP"
  <2>1. k.program = CalP(T) /\ k.sums = {<<0, InputSum(0, 2 * T + 2)>>}
    BY <1>3, <1>10 DEF KernelOf, SumsOf, PointSums
  <2>2. Runs(CalP(T), Len(CalP(T)), T, x, y)
    BY <1>4, <2>1
  <2>3. y[0] = InputSum(0, 2 * T + 2)
    BY <1>2, <2>2, CalPSum
  <2>4. s[1] = 0 /\ s[2] = InputSum(0, 2 * T + 2)
    BY <2>1
  <2>5. QED
    BY <1>3, <1>5, <2>3, <2>4
<1>11. CASE k.name = "kernel_rhs65"
  <2>1. k.program = Rhs65 /\ k.sums = {<<4, InputSum(0, 4)>>}
    BY <1>3, <1>11 DEF KernelOf, SumsOf, PointSums
  <2>2. T = 4 /\ MAX_CELL \in Nat /\ MAX_CELL >= 4
    <3>1. n = 2 /\ T = TwoTo[n] /\ MAX_CELL \in Nat /\ T <= MAX_CELL /\ T >= 4
      BY <1>2, <1>3, <1>11, BlockSizes
    <3>2. 0 \in Nat /\ 1 \in Nat /\ 0 + 1 = 1 /\ 1 + 1 = 2
      OBVIOUS
    <3>3. TwoTo[0] = 1 /\ TwoTo[0 + 1] = 2 * TwoTo[0] /\ TwoTo[1 + 1] = 2 * TwoTo[1]
      BY <3>2, TwoToFacts
    <3>4. TwoTo[2] = 4
      BY <3>2, <3>3
    <3>5. QED
      BY <3>1, <3>4
  <2>3. Runs(Rhs65, Len(Rhs65), 4, x, y)
    BY <1>4, <2>1, <2>2
  <2>4. y[4] = InputSum(0, 4)
    BY <2>2, <2>3, Rhs65Sum
  <2>5. s[1] = 4 /\ s[2] = InputSum(0, 4)
    BY <2>1
  <2>6. QED
    BY <1>5, <2>4, <2>5
<1>12. CASE k.name = "kernel_calip68"
  <2>1. k.program = CalIp68(T) /\ k.sums = {<<0, InputSum(0, T)>>}
    BY <1>3, <1>12 DEF KernelOf, SumsOf, PointSums
  <2>2. Runs(CalIp68(T), Len(CalIp68(T)), T, x, y)
    BY <1>4, <2>1
  <2>3. y[0] = InputSum(0, T)
    BY <1>2, <2>2, CalIp68Sum
  <2>4. s[1] = 0 /\ s[2] = InputSum(0, T)
    BY <2>1
  <2>5. QED
    BY <1>3, <1>5, <2>3, <2>4
<1>13. QED
  BY <1>3, <1>6, <1>7, <1>8, <1>9, <1>10, <1>11, <1>12 DEF Names, PointSums

(* What the kernels compute: on blocks of any size that is a power of two, *)
(* from four threads, for every division into warps, every schedule and    *)
(* all operands, a kernel that was not disturbed by a race has its sums in *)
(* their cells; the accumulate_sum of DBCTest.cu has another theorem.      *)
THEOREM SumsCorrect == Spec => []SumsExact
<1>1. /\ KernelIsLaunched /\ Deterministic
      /\ (Finished => (raced <=> ~RaceFree(kernel)))
      => SumsExact
  <2>1. SUFFICES ASSUME KernelIsLaunched, Deterministic, Finished => (raced <=> ~RaceFree(kernel)),
                        Launched, Finished, ~raced, kernel.name # "accumulate_sum_DBC",
                        NEW s \in kernel.sums
                 PROVE  mem[s[1]] = s[2]
    BY DEF SumsExact, HasSums
  <2>2. kernel \in Launches /\ mem = InStep(kernel)[Len(kernel.program)]
    BY <2>1 DEF KernelIsLaunched, Deterministic, Length
  <2>3. InStep(kernel)[Len(kernel.program)][s[1]] = s[2]
    BY <2>1, <2>2, SumsInStep
  <2>4. QED
    BY <2>2, <2>3
<1>2. QED
  BY <1>1, LaunchedOnly, BarriersSuffice, RacesSeen, PTL

(* The accumulate_sum of DBCTest.cu on 2^n threads leaves in[0] plus n     *)
(* times in[1] in in[0]: no other point counts, in[1] once per round.      *)
OnlyTheFirstPair ==
  Launched /\ Finished /\ kernel.name = "accumulate_sum_DBC" =>
    \E n \in Nat : /\ Threads = 0 .. TwoTo[n] - 1
                   /\ mem[0] = Input[0] + n * Input[1]

(* The defect of accumulate_sum in DBCTest.cu, for every size of block:    *)
(* whatever the schedule and the points, what is announced as the sum of   *)
(* all of them depends on the first two only.                              *)
THEOREM PairsMissTheSum == Spec => []OnlyTheFirstPair
<1>1. KernelIsLaunched /\ Deterministic => OnlyTheFirstPair
  <2>1. SUFFICES ASSUME KernelIsLaunched, Deterministic,
                        Launched, Finished, kernel.name = "accumulate_sum_DBC"
                 PROVE  \E n \in Nat : /\ Threads = 0 .. TwoTo[n] - 1
                                       /\ mem[0] = Input[0] + n * Input[1]
    BY DEF OnlyTheFirstPair
  <2>2. kernel \in Launches /\ WellFormed(kernel)
    BY <2>1, LaunchedBlock DEF KernelIsLaunched
  <2>3. PICK n, T, h \in Nat : BlockOf(kernel, n, T, h)
    BY <2>2, LaunchedBlock
  <2>4. /\ kernel.name \in PointSums /\ T = TwoTo[n] /\ UNION kernel.warps = 0 .. T - 1
        /\ kernel.program = KernelOf(kernel.name, T) /\ kernel.memory = MemoryOf(kernel.name)
    BY <2>1, <2>3 DEF BlockOf, PointSums
  <2>5. RaceFree(kernel)
    BY <2>2, <2>3, <2>4, WhichRace
  <2>6. mem = InStep(kernel)[Len(kernel.program)]
    BY <2>1, <2>5 DEF Deterministic, Length
  <2>7. Runs(kernel.program, Len(kernel.program), T, kernel.memory, mem)
    BY <2>2, <2>4, <2>6, InStepRuns
  <2>8. kernel.program = AccumulatePairs(T) /\ kernel.memory = [c \in Cells |-> Input[c]]
    BY <2>1, <2>4 DEF KernelOf, MemoryOf
  <2>9. mem[0] = Input[0] + n * Input[1]
    BY <2>3, <2>7, <2>8, AccumulatePairsSum
  <2>10. QED
    BY <2>4, <2>9 DEF Threads, Warps
<1>2. QED
  BY <1>1, LaunchedOnly, BarriersSuffice, PTL
=============================================================================
