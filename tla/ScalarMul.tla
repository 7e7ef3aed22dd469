----------------------------- MODULE ScalarMul -----------------------------
(***************************************************************************)
(* What every scalar multiplication of the repository promises: a call     *)
(* with scalar n returns n times the base point.  The result is the        *)
(* multiplier of the point handed back, NoResult while a call runs.        *)
(***************************************************************************)
EXTENDS Integers

CONSTANTS Scalars, NoResult

VARIABLES phase, n, result

vars == <<phase, n, result>>

Init == phase = "idle" /\ n = 0 /\ result = NoResult

Call == /\ phase # "busy"
        /\ phase' = "busy"
        /\ n' \in Scalars
        /\ result' = NoResult

Return == /\ phase = "busy"
          /\ phase' = "done"
          /\ result' = n
          /\ UNCHANGED n

Next == Call \/ Return

Spec == Init /\ [][Next]_vars
=============================================================================
