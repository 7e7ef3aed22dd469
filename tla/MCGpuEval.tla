----------------------------- MODULE MCGpuEval -----------------------------
(* Model values of GpuEval: every chain of up to two rows over small       *)
(* exponents, the last two rows different and the first one positive.      *)
EXTENDS GpuEval

CONSTANT MaxExponent

Rows == [sign : {-1, 1}, dbl : 0 .. MaxExponent, tpl : 0 .. MaxExponent]

SlotOf(rows) == [k \in 0 .. MAX_2 - 1 |-> IF k + 1 \in DOMAIN rows THEN rows[k + 1] ELSE ZeroEntry]

MCChains ==
  { <<SlotOf(<<e>>), 1>> : e \in { f \in Rows : f.sign = 1 } }
    \cup { <<SlotOf(p), 2>> : p \in { q \in Rows \X Rows :
             /\ q[1].sign = 1
             /\ q[1] # q[2]
             /\ IsChain(SlotOf(q), 2) } }
=============================================================================
