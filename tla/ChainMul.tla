------------------------------ MODULE ChainMul ------------------------------
(***************************************************************************)
(* DBC_POINT_mul (DBCTest/functions.h): Horner evaluation of the chain in  *)
(* DBC_store[min_index] on a point a.  One step is one call of EC_POINT_*; *)
(* the benchmark calls it again and again, each time with a fresh result   *)
(* point and with the chain a generator has just left in the store.        *)
(***************************************************************************)
EXTENDS DoubleBase, ECPoint

CONSTANTS
  Scalars,    \* the values those chains stand for
  Jobs,       \* the <<slot, length>> pairs the generators hand over
  NoResult    \* what a caller sees before the call has returned

VARIABLES pc, slot, len, i, now_dbl, now_tpl, r, ops

vars == <<pc, slot, len, i, now_dbl, now_tpl, r, ops>>

(* What a chain must satisfy for the evaluation to be right: a leading     *)
(* term +2^x3^y (its sign is never read), exponents that never increase,   *)
(* and no proper prefix that is a multiple of the order of the point (r    *)
(* would pass through infinity and the next sum would copy a, flag         *)
(* included, into it).                                                     *)
SoundChain(c, l) ==
  /\ l \in 1 .. MAX_2
  /\ IsChain(c, l)
  /\ c[0].sign = 1
  /\ \A k \in 1 .. l - 1 : Value(c, k) % Order # 0

ASSUME JobsAssumption ==
  \A job \in Jobs : /\ job[1] \in Slot
                    /\ SoundChain(job[1], job[2])
                    /\ Value(job[1], job[2]) \in Scalars

a        == Affine(1)
invert_a == Invert(a)

NoOps == [add |-> 0, dbl |-> 0, tpl |-> 0]

Init ==
  /\ pc = "idle"
  /\ slot = EmptySlot
  /\ len = 0
  /\ i = 0
  /\ now_dbl = 0
  /\ now_tpl = 0
  /\ r = NewPoint
  /\ ops = NoOps

SetupWith(job, r0) ==
  /\ pc # "loop"
  /\ pc' = "loop"
  /\ slot' = job[1]
  /\ len' = job[2]
  /\ i' = 1
  /\ now_dbl' = job[1][0].dbl
  /\ now_tpl' = job[1][0].tpl
  /\ r' = r0
  /\ ops' = NoOps

(* The accumulator starts as a + a - a, and not as a copy of a.            *)
SetupByCopy(job) == SetupWith(job, a)                             \* mutated
Setup(job)       == SetupWith(job, Add(Dbl(a), invert_a))

(* The exponents the accumulator must come down to: those of the next      *)
(* term, then 0.                                                           *)
TargetDbl == IF i < len THEN slot[i].dbl ELSE 0
TargetTpl == IF i < len THEN slot[i].tpl ELSE 0

Double ==
  /\ pc = "loop"
  /\ now_dbl > TargetDbl
  /\ r' = Dbl(r)
  /\ now_dbl' = now_dbl - 1
  /\ ops' = [ops EXCEPT !.dbl = @ + 1]
  /\ UNCHANGED <<pc, slot, len, i, now_tpl>>

(* Tripling waits for the doublings: it is the else branch.                *)
TripleBy(step) ==
  /\ pc = "loop"
  /\ now_dbl <= TargetDbl
  /\ now_tpl > TargetTpl
  /\ r' = Tpl(r, r)
  /\ now_tpl' = now_tpl - step
  /\ ops' = [ops EXCEPT !.tpl = @ + 1]
  /\ UNCHANGED <<pc, slot, len, i, now_dbl>>

TripleTwice == TripleBy(2)                                        \* mutated
Triple      == TripleBy(1)

AddTermWith(point) ==
  /\ pc = "loop"
  /\ i < len
  /\ now_dbl <= TargetDbl
  /\ now_tpl <= TargetTpl
  /\ r' = Add(r, point)
  /\ i' = i + 1
  /\ ops' = [ops EXCEPT !.add = @ + 1]
  /\ UNCHANGED <<pc, slot, len, now_dbl, now_tpl>>

AddTermUnsigned == AddTermWith(a)                                 \* mutated
AddTerm == AddTermWith(IF slot[i].sign = -1 THEN invert_a ELSE a)

(* The function returns once its tail loops have brought both exponents    *)
(* down to 0.                                                              *)
ReturnIf(tail_done) ==
  /\ pc = "loop"
  /\ i >= len
  /\ tail_done
  /\ pc' = "done"
  /\ UNCHANGED <<slot, len, i, now_dbl, now_tpl, r, ops>>

ReturnPastEnd       == ReturnIf(i > len)                          \* mutated
ReturnBeforeTriples == ReturnIf(now_dbl <= TargetDbl)             \* mutated
Return == ReturnIf(now_dbl <= TargetDbl /\ now_tpl <= TargetTpl)

Next ==
  \/ \E job \in Jobs : Setup(job)
  \/ Double
  \/ Triple
  \/ AddTerm
  \/ Return

Spec == Init /\ [][Next]_vars

(* A running call is a thread that never blocks.                           *)
Running == Double \/ Triple \/ AddTerm \/ Return

FairSpec == Spec /\ WF_vars(Running)

-----------------------------------------------------------------------------
(* Type invariant.                                                         *)
TypeOK ==
  /\ pc \in {"idle", "loop", "done"}
  /\ slot \in Slot
  /\ len \in 0 .. MAX_2
  /\ i \in 0 .. MAX_2
  /\ now_dbl \in Nat
  /\ now_tpl \in Nat
  /\ r \in Point
  /\ ops \in [add : Nat, dbl : Nat, tpl : Nat]

(* Loop invariant of the Horner evaluation: the accumulator, scaled by     *)
(* the exponents still to be worked off, is the value of the terms of the  *)
(* chain consumed so far.                                                  *)
HornerInv ==
  pc # "idle" => /\ i \in 1 .. len
                 /\ r.k * Pow23(now_dbl, now_tpl) = Value(slot, i)

(* The exponents of the accumulator never undershoot those of the next     *)
(* term, so the two guards meet the term exactly.                          *)
Aligned ==
  pc # "idle" => now_dbl >= TargetDbl /\ now_tpl >= TargetTpl

(* No step ever works on a point whose Z_is_one flag lies about its Z:     *)
(* EC_POINT_tpl leaves the flag of its result untouched, so a triple in    *)
(* place of an affine point would be misread by the next addition.         *)
NeverStale == Usable(r)

(* compute_TTV charges a chain len - 1 additions and the exponents of its  *)
(* first term in doublings and triplings: that is what the evaluation does *)
(* (its two additions that set r to a apart).                              *)
CostPredicted ==
  pc = "done" => ops = [add |-> len - 1, dbl |-> slot[0].dbl, tpl |-> slot[0].tpl]

(* DBC_POINT_mul implements the abstract multiplication: it hands back     *)
(* exactly the value of the chain times a, in a usable representation.     *)
Abstract == INSTANCE ScalarMul WITH
  phase   <- IF pc = "loop" THEN "busy" ELSE pc,
  n       <- Value(slot, len),
  result  <- IF pc = "done" /\ Usable(r) THEN r.k ELSE NoResult

ImplementsScalarMul == Abstract!Spec

(* Every call returns.                                                     *)
Returns == (pc = "loop") ~> (pc = "done")

-----------------------------------------------------------------------------
(* The inductive invariant behind the properties above: the running call   *)
(* works on a sound chain, the operations done and the exponents left add  *)
(* up to the first term, and r is in Jacobian form with its flag off,      *)
(* at infinity only as a multiple of the order.                            *)
WorksOnSoundChain ==
  pc # "idle" => SoundChain(slot, len) /\ Value(slot, len) \in Scalars

Progress ==
  pc # "idle" => /\ ops.add = i - 1
                 /\ ops.dbl + now_dbl = slot[0].dbl
                 /\ ops.tpl + now_tpl = slot[0].tpl

JacobianForm ==
  /\ r.Z \in {"zero", "other"}
  /\ ~ r.Z_is_one
  /\ r.Z = "zero" => r.k % Order = 0

ExponentsDone ==
  pc = "done" => i = len /\ now_dbl = 0 /\ now_tpl = 0

IndInv ==
  /\ TypeOK
  /\ WorksOnSoundChain
  /\ HornerInv
  /\ Aligned
  /\ Progress
  /\ JacobianForm
  /\ ExponentsDone
=============================================================================
