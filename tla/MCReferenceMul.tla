--------------------------- MODULE MCReferenceMul ---------------------------
(* Model values of ReferenceMul: every scalar up to a bound, and every     *)
(* chain of up to three terms over small exponents, smallest term first.   *)
EXTENDS ReferenceMul

CONSTANTS MaxScalar, MaxExponent

MCScalars == 0 .. MaxScalar

Rows == [minus : BOOLEAN, dbl : 0 .. MaxExponent, tpl : 0 .. MaxExponent]

MCChains ==
  { rows \in UNION { [1 .. l -> Rows] : l \in 1 .. 3 } :
      Ascending(rows) /\ RowsValue(rows) \in MCScalars }
=============================================================================
