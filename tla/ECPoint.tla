------------------------------ MODULE ECPoint ------------------------------
(***************************************************************************)
(* The point arithmetic of the vendored OpenSSL with the repository's own  *)
(* EC_POINT_tpl (crypto/ec/ecp_smpl.c), in Jacobian coordinates (X, Y, Z). *)
(*                                                                         *)
(* All points are multiples of one base point G of prime order Order, so a *)
(* point is known by a multiplier k (two points are equal iff their        *)
(* multipliers agree modulo Order).  What the arithmetic also depends on   *)
(* is the REPRESENTATION: the coordinate Z and the flag Z_is_one, which    *)
(* add and dbl trust in order to skip the multiplications by Z.  A flag    *)
(* left set while Z # 1 makes them compute with the wrong Z: the           *)
(* coordinates that come out are not those of any known multiple.          *)
(***************************************************************************)
EXTENDS Integers

CONSTANT Order      \* of G; every curve the harness names has a large prime order

ASSUME OrderAssumption == Order \in Nat /\ Order > 2

ZKinds == {"zero", "one", "other", "wrong"}    \* "wrong": X, Y, Z are garbage

Point == [k : Int, Z : ZKinds, Z_is_one : BOOLEAN]

AtInfinity(p) == p.Z = "zero"

(* EC_POINT_new, and a public key made affine by EC_KEY_generate_key.      *)
NewPoint  == [k |-> 0, Z |-> "zero", Z_is_one |-> FALSE]
Affine(k) == [k |-> k, Z |-> "one", Z_is_one |-> TRUE]

(* The outcome of the general formulas: Z is zero exactly at infinity.     *)
Jacobian(k) == [k        |-> k,
                Z        |-> IF k % Order = 0 THEN "zero" ELSE "other",
                Z_is_one |-> FALSE]
Garbage(k)  == [k |-> k, Z |-> "wrong", Z_is_one |-> FALSE]

(* A point whose flag does not describe its Z, or that is garbage already. *)
Stale(p)  == p.Z_is_one /\ p.Z # "one"
Usable(p) == p.Z # "wrong" /\ ~Stale(p)

Invert(p) == [p EXCEPT !.k = -@]

Dbl(a) ==
  CASE AtInfinity(a) -> [k |-> 2 * a.k, Z |-> "zero", Z_is_one |-> FALSE]
    [] ~AtInfinity(a) /\ Usable(a)  -> Jacobian(2 * a.k)
    [] ~AtInfinity(a) /\ ~Usable(a) -> Garbage(2 * a.k)

(* r = a + b for distinct objects a and b; a sum with a point at infinity  *)
(* is a copy of the other operand, flag included.                          *)
Add(a, b) ==
  CASE AtInfinity(a) -> [b EXCEPT !.k = a.k + b.k]
    [] ~AtInfinity(a) /\ AtInfinity(b) -> [a EXCEPT !.k = a.k + b.k]
    [] ~AtInfinity(a) /\ ~AtInfinity(b) ->
         IF Usable(a) /\ Usable(b) THEN Jacobian(a.k + b.k)
                                   ELSE Garbage(a.k + b.k)

(* r = 3a computed into the object whose old value is r.  The formulas use *)
(* the real Z of a, and the flag of r is left as it was.                   *)
Tpl(r, a) ==
  CASE AtInfinity(a)    -> [k |-> 3 * a.k, Z |-> "zero", Z_is_one |-> FALSE]
    [] a.Z = "wrong"    -> [Garbage(3 * a.k) EXCEPT !.Z_is_one = r.Z_is_one]
    [] a.Z \in {"one", "other"} -> [Jacobian(3 * a.k) EXCEPT !.Z_is_one = r.Z_is_one]
=============================================================================
