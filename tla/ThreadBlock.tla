---------------------------- MODULE ThreadBlock ----------------------------
(***************************************************************************)
(* One thread block of the GPU running a kernel over an array its threads  *)
(* share.  The threads of a warp execute an instruction together: they     *)
(* load what it reads, then store what it writes.  Different warps are     *)
(* ordered by __syncthreads() only, so between two barriers their loads    *)
(* and stores interleave freely.  (A warp of one thread models a device    *)
(* that schedules the threads of a warp independently.)                    *)
(*                                                                         *)
(* A kernel is straight-line code: a sequence of phases, each with one     *)
(* assignment  dst = left + right + add  per thread on cells of the shared *)
(* array, and a flag that says whether __syncthreads() follows.  Curve     *)
(* points and field elements enter as integers: the kernels only add them. *)
(***************************************************************************)
EXTENDS Integers, Sequences

CONSTANTS
  Launches,   \* kernels a host may launch: [program, warps, memory, ...]
  MAX_CELL    \* cells of the shared array

VARIABLES
  kernel,     \* the launch being executed, or executed last
  pc,         \* phase of each warp, one past the last when it has returned
  stage,      \* "load", "store" or "barrier" (waiting in __syncthreads())
  reg,        \* per thread, the sum it is about to store
  mem,        \* the shared array
  readers,    \* warps that have read a cell since the last barrier
  writers,    \* warps that have written a cell since the last barrier
  raced       \* two warps have touched a cell without a barrier between,
              \* one of them writing

vars == <<kernel, pc, stage, reg, mem, readers, writers, raced>>

Cells  == 0 .. MAX_CELL - 1
NoCell == -1

Access == [dst : Cells \cup {NoCell}, left : Cells \cup {NoCell},
           right : Cells \cup {NoCell}, add : Int]

PhaseOf(threads) == [op : [threads -> Access], sync : BOOLEAN]

(* Threads belong to one warp each, and no two of them write one cell in   *)
(* the same phase.                                                         *)
WellFormed(k) ==
  /\ k.program \in Seq(PhaseOf(UNION k.warps))
  /\ k.memory \in [Cells -> Int]
  /\ \A w, v \in k.warps : w # v => w \cap v = {}
  /\ k.warps = {} => k.program = <<>>
  /\ \A p \in 1 .. Len(k.program) : \A t, u \in UNION k.warps :
       k.program[p].op[t].dst = k.program[p].op[u].dst =>
         t = u \/ k.program[p].op[t].dst = NoCell

ASSUME LaunchAssumption == MAX_CELL \in Nat /\ \A k \in Launches : WellFormed(k)

Warps   == kernel.warps
Threads == UNION Warps
Length  == Len(kernel.program)
Phase(w) == kernel.program[pc[w]]

Writes(phase, w) == {phase.op[t].dst : t \in w} \ {NoCell}
Reads(phase, w)  == (UNION {{phase.op[t].left, phase.op[t].right} : t \in w}) \ {NoCell}

Operand(m, c) == IF c = NoCell THEN 0 ELSE m[c]
Sum(m, a)     == Operand(m, a.left) + Operand(m, a.right) + a.add

Nobody   == [c \in Cells |-> {}]
Finished == \A w \in Warps : pc[w] = Length + 1

Init ==
  /\ kernel = [program |-> <<>>, warps |-> {}, memory |-> [c \in Cells |-> 0]]
  /\ pc = [w \in Warps |-> 1]
  /\ stage = [w \in Warps |-> "load"]
  /\ reg = [t \in Threads |-> 0]
  /\ mem = kernel.memory
  /\ readers = Nobody
  /\ writers = Nobody
  /\ raced = FALSE

Launch(k) ==
  /\ Finished
  /\ kernel' = k
  /\ pc' = [w \in k.warps |-> 1]
  /\ stage' = [w \in k.warps |-> "load"]
  /\ reg' = [t \in UNION k.warps |-> 0]
  /\ mem' = k.memory
  /\ readers' = Nobody
  /\ writers' = Nobody
  /\ raced' = FALSE

(* The threads of warp w read the operands of their phase.                 *)
Load(w) ==
  /\ stage[w] = "load"
  /\ pc[w] <= Length
  /\ reg' = [t \in Threads |-> IF t \in w THEN Sum(mem, Phase(w).op[t]) ELSE reg[t]]
  /\ readers' = [c \in Cells |-> IF c \in Reads(Phase(w), w) THEN readers[c] \cup {w}
                                                              ELSE readers[c]]
  /\ raced' = (raced \/ \E c \in Reads(Phase(w), w) : writers[c] \ {w} # {})
  /\ stage' = [stage EXCEPT ![w] = "store"]
  /\ UNCHANGED <<kernel, pc, mem, writers>>

(* They store the results; then all of them, those without an assignment   *)
(* in this phase included, wait where the code has a barrier.              *)
Store(w) ==
  /\ stage[w] = "store"
  /\ mem' = [c \in Cells |-> IF c \in Writes(Phase(w), w)
                             THEN reg[CHOOSE t \in w : Phase(w).op[t].dst = c]
                             ELSE mem[c]]
  /\ writers' = [c \in Cells |-> IF c \in Writes(Phase(w), w) THEN writers[c] \cup {w}
                                                               ELSE writers[c]]
  /\ raced' = (raced \/ \E c \in Writes(Phase(w), w) :
                          (readers[c] \cup writers[c]) \ {w} # {})
  /\ stage' = [stage EXCEPT ![w] = IF Phase(w).sync THEN "barrier" ELSE "load"]
  /\ pc' = [pc EXCEPT ![w] = IF Phase(w).sync THEN @ ELSE @ + 1]
  /\ UNCHANGED <<kernel, reg, readers>>

(* __syncthreads() lets the block go on when every warp has come to it.    *)
BarrierWhen(open) ==
  /\ ~Finished
  /\ open
  /\ pc' = [w \in Warps |-> IF stage[w] = "barrier" THEN pc[w] + 1 ELSE pc[w]]
  /\ stage' = [w \in Warps |-> IF stage[w] = "barrier" THEN "load" ELSE stage[w]]
  /\ readers' = Nobody
  /\ writers' = Nobody
  /\ UNCHANGED <<kernel, reg, mem, raced>>

BarrierForOne == BarrierWhen(\E w \in Warps : stage[w] = "barrier")    \* mutated
Barrier       == BarrierWhen(\A w \in Warps : stage[w] = "barrier")

Next ==
  \/ \E k \in Launches : Launch(k)
  \/ \E w \in Warps : Load(w)
  \/ \E w \in Warps : Store(w)
  \/ Barrier

Spec == Init /\ [][Next]_vars

-----------------------------------------------------------------------------
TypeOK ==
  /\ WellFormed(kernel)
  /\ pc \in [Warps -> 1 .. Length + 1]
  /\ stage \in [Warps -> {"load", "store", "barrier"}]
  /\ reg \in [Threads -> Int]
  /\ mem \in [Cells -> Int]
  /\ readers \in [Cells -> SUBSET Warps]
  /\ writers \in [Cells -> SUBSET Warps]
  /\ raced \in BOOLEAN

(* No barrier lies between phases p and q.                                 *)
SameEpoch(program, p, q) ==
  \A r \in 1 .. Len(program) :
    (p <= r /\ r < q) \/ (q <= r /\ r < p) => ~program[r].sync

(* No two warps touch a cell, one of them writing, without a barrier.      *)
RaceFree(k) ==
  \A w, v \in k.warps : w # v =>
    \A p, q \in 1 .. Len(k.program) : SameEpoch(k.program, p, q) =>
      Writes(k.program[p], w) \cap (Reads(k.program[q], v) \cup Writes(k.program[q], v)) = {}

(* The array after all threads of the block have executed a phase in step, *)
(* and after the first p phases of a kernel.                               *)
After(m, phase, threads) ==
  [c \in Cells |-> IF \E t \in threads : phase.op[t].dst = c
                   THEN Sum(m, phase.op[CHOOSE t \in threads : phase.op[t].dst = c])
                   ELSE m[c]]

InStep(k) ==
  LET m[p \in 0 .. Len(k.program)] ==
        IF p = 0 THEN k.memory ELSE After(m[p - 1], k.program[p], UNION k.warps)
  IN  m

(* A kernel whose accesses are separated by barriers computes what it      *)
(* would compute in step, whatever the schedule, and never races.          *)
Deterministic ==
  RaceFree(kernel) => ~raced /\ (Finished => mem = InStep(kernel)[Length])
=============================================================================
