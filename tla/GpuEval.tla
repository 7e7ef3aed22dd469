------------------------------ MODULE GpuEval ------------------------------
(***************************************************************************)
(* run_DBC_v2 (gpuec/gpuec256.cu), the evaluation of a double-base chain   *)
(* in one thread of the GPU: from the last row of the chain to the first,  *)
(* a multiple of pt1 being brought up to the exponents of each row and     *)
(* added to the result.  Points are Jacobian triples that the thread moves *)
(* coordinate by coordinate, so a coordinate is modelled by its axis and   *)
(* by the multiple of pt1 it was computed for.                             *)
(***************************************************************************)
EXTENDS DoubleBase

CONSTANTS
  Chains,         \* <<slot, length>> pairs, as get_DBC leaves them in memory
  Indeterminate   \* a coordinate never written, or computed from a non-point

VARIABLES pc, DBC, len, i, now_dbl, now_tpl, base, tmp, res, first

vars == <<pc, DBC, len, i, now_dbl, now_tpl, base, tmp, res, first>>

Abs(k) == IF k < 0 THEN -k ELSE k

(* k times pt1: a point and its inverse differ in y alone.                 *)
Multiple(k) == [x |-> <<"x", Abs(k)>>, y |-> <<"y", k>>, z |-> <<"z", Abs(k)>>]
Unwritten   == [x |-> Indeterminate, y |-> Indeterminate, z |-> Indeterminate]
Factor(p)   == p.y[2]
IsPoint(p)  == p.y # Indeterminate /\ p = Multiple(Factor(p))

(* The point `to` after dh_my_point_copy: x is assigned twice, z never.    *)
dh_my_point_copy(from, to) == [to EXCEPT !.x = from.z, !.y = from.y]

(* The formulas give a point only on points; the addition has no case for  *)
(* a point and itself.                                                     *)
ppoint_double(p) == IF IsPoint(p) THEN Multiple(2 * Factor(p)) ELSE Unwritten

dh_ellipticAdd_JJ(p, q) ==
  IF IsPoint(p) /\ IsPoint(q) /\ Factor(p) # Factor(q)
  THEN Multiple(Factor(p) + Factor(q))
  ELSE Unwritten

Inverted(p) == IF p.y = Indeterminate THEN p ELSE [p EXCEPT !.y = <<"y", -p.y[2]>>]

-----------------------------------------------------------------------------
Init ==
  /\ pc = "idle"
  /\ DBC = EmptySlot
  /\ len = 0
  /\ i = -1
  /\ now_dbl = 0
  /\ now_tpl = 0
  /\ base = Unwritten
  /\ tmp = Unwritten
  /\ res = Unwritten
  /\ first = TRUE

(* dbc_main hands over the chain that get_DBC has kept.                    *)
Call(chain) ==
  /\ pc # "loop"
  /\ pc' = "loop"
  /\ DBC' = chain[1]
  /\ len' = chain[2]
  /\ i' = chain[2] - 1
  /\ now_dbl' = 0
  /\ now_tpl' = 0
  /\ base' = dh_my_point_copy(Multiple(1), Unwritten)
  /\ tmp' = Unwritten
  /\ res' = Unwritten
  /\ first' = TRUE

InLoop == pc = "loop" /\ i >= 0

Double ==
  /\ InLoop
  /\ now_dbl < DBC[i].dbl
  /\ tmp' = ppoint_double(base)
  /\ base' = dh_my_point_copy(tmp', base)
  /\ now_dbl' = now_dbl + 1
  /\ UNCHANGED <<pc, DBC, len, i, now_tpl, res, first>>

(* A tripling is a doubling and an addition, which writes base in place.   *)
Triple ==
  /\ InLoop
  /\ now_dbl >= DBC[i].dbl
  /\ now_tpl < DBC[i].tpl
  /\ tmp' = ppoint_double(base)
  /\ base' = dh_ellipticAdd_JJ(base, tmp')
  /\ now_tpl' = now_tpl + 1
  /\ UNCHANGED <<pc, DBC, len, i, now_dbl, res, first>>

(* The term of row i goes through tmp.                                     *)
AddRow ==
  /\ InLoop
  /\ now_dbl >= DBC[i].dbl
  /\ now_tpl >= DBC[i].tpl
  /\ LET copy == dh_my_point_copy(base, tmp)
     IN  tmp' = IF DBC[i].sign = -1 THEN Inverted(copy) ELSE copy
  /\ res' = IF first THEN dh_my_point_copy(tmp', res) ELSE dh_ellipticAdd_JJ(res, tmp')
  /\ first' = FALSE
  /\ i' = i - 1
  /\ UNCHANGED <<pc, DBC, len, now_dbl, now_tpl, base>>

Return ==
  /\ pc = "loop"
  /\ i < 0
  /\ pc' = "done"
  /\ UNCHANGED <<DBC, len, i, now_dbl, now_tpl, base, tmp, res, first>>

Next ==
  \/ \E chain \in Chains : Call(chain)
  \/ Double
  \/ Triple
  \/ AddRow
  \/ Return

Spec == Init /\ [][Next]_vars

-----------------------------------------------------------------------------
(* What the comment above run_DBC_v2 says of its result: "use n            *)
(* (represented by DBC) calculate res = n * point".                        *)
ResultIsMultiple == pc = "done" => res = Multiple(Value(DBC, len))
=============================================================================
