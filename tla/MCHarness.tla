----------------------------- MODULE MCHarness -----------------------------
(* Model values of Harness: the methods of DBC.cpp with two of its five    *)
(* limits for getSubOptimalDBC, on inputs of two scalars.                  *)
EXTENDS Harness, TLC

CONSTANTS MaxB, TestScalars

Method(kind, result, list, width, limit) ==
  [kind |-> kind, result |-> result, b_try |-> list, window |-> width, dbc_coef |-> limit]

EOSList   == [x \in 1 .. MaxB + 1 |-> x - 1]
CentreOut == <<2, 3, 1, 4, 0>>

EOSMethod == Method("greedy", "r2", EOSList, 4, MaxB + 1)
NAFMethod == Method("NAF", "r5", <<>>, 0, 0)

MCMethods ==
  << Method("optimal", "r1", <<>>, 0, 0),
     EOSMethod,
     Method("greedy", "r3", CentreOut, 6, 1),
     Method("greedy", "r3", CentreOut, 6, 2),
     Method("binary", "r4", <<>>, 0, 0),
     NAFMethod >>

MCInputs == {<<x, y>> : x, y \in TestScalars}

(* The cheapest chains of the scalars, as OptimalChain finds them.         *)
Row(sign, d, e) == [sign |-> sign, dbl |-> d, tpl |-> e]

Chain(rows) == <<[x \in 0 .. MAX_2 - 1 |-> IF x < Len(rows) THEN rows[x + 1] ELSE ZeroEntry],
                 Len(rows)>>

MCOptimalChains ==
     5 :> {Chain(<<Row(1, 2, 0), Row(1, 0, 0)>>)}
  @@ 13 :> {Chain(<<Row(1, 2, 1), Row(1, 0, 0)>>)}
  @@ 23 :> {Chain(<<Row(1, 3, 1), Row(-1, 0, 0)>>)}
  @@ 38 :> {Chain(<<Row(1, 2, 2), Row(1, 1, 0)>>)}
  @@ 51 :> {Chain(<<Row(1, 4, 1), Row(1, 0, 1)>>)}

(* The inputs and methods of a run over scalars that test_DBC_POINT_mul.py *)
(* may draw as well.                                                       *)
MCRangeInputs  == {<<x>> : x \in TestScalars}
MCRangeMethods == << EOSMethod, NAFMethod >>
=============================================================================
