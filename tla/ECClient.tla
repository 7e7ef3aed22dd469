------------------------------ MODULE ECClient ------------------------------
(***************************************************************************)
(* An application of the vendored OpenSSL: a few EC_POINT objects on which *)
(* it calls the point functions of crypto/ec/ec_lib.c in any order, with   *)
(* any aliasing of result and operands.  DBC_POINT_mul is one disciplined  *)
(* client of this kind (it triples only points that are not affine); the   *)
(* interface makes no such demand.                                         *)
(***************************************************************************)
EXTENDS ECPoint

CONSTANTS
  Objects,    \* the EC_POINTs of the application
  Public,     \* the one that is the public key, affine from the start
  MaxK        \* bound on the multipliers that TLC explores

VARIABLE point

vars == <<point>>

Init == point = [o \in Objects |-> IF o = Public THEN Affine(1) ELSE NewPoint]

Bounded(p) == p.k \in -MaxK .. MaxK

Store(r, p) == Bounded(p) /\ point' = [point EXCEPT ![r] = p]

(* EC_POINT_add hands a point added to itself over to EC_POINT_dbl.        *)
EC_POINT_add(r, a, b) ==
  Store(r, IF a = b THEN Dbl(point[a]) ELSE Add(point[a], point[b]))

EC_POINT_dbl(r, a)  == Store(r, Dbl(point[a]))
EC_POINT_tpl(r, a)  == Store(r, Tpl(point[r], point[a]))
EC_POINT_copy(r, a) == Store(r, point[a])
EC_POINT_invert(r)  == Store(r, Invert(point[r]))

Next ==
  \E r, a, b \in Objects :
    \/ EC_POINT_add(r, a, b)
    \/ EC_POINT_dbl(r, a)
    \/ EC_POINT_tpl(r, a)
    \/ EC_POINT_copy(r, a)
    \/ EC_POINT_invert(r)

Spec == Init /\ [][Next]_vars

-----------------------------------------------------------------------------
(* What the header promises of these functions ("Computes the triple of a  *)
(* EC_POINT", "Computes the sum of two EC_POINT"): every object holds the  *)
(* coordinates of the multiple of G it was computed to be.                 *)
ResultsExact == \A o \in Objects : point[o].Z # "wrong"
=============================================================================
