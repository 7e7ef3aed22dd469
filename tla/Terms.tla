------------------------------- MODULE Terms -------------------------------
(***************************************************************************)
(* Terms +-2^dbl * 3^tpl, the rows of the store in which DBCTest/ and      *)
(* gpuec/ hand over double-base chains, and what the first of a row of     *)
(* terms sum up to.                                                        *)
(***************************************************************************)
EXTENDS Integers

Pow2[e \in Nat] == IF e = 0 THEN 1 ELSE 2 * Pow2[e - 1]
Pow3[e \in Nat] == IF e = 0 THEN 1 ELSE 3 * Pow3[e - 1]

(* pow23_all[d][t], the table filled by init().                            *)
Pow23(d, t) == Pow2[d] * Pow3[t]

(* One row of DBC_store: sign, power of 2, power of 3.  A row never        *)
(* written is all zero, the arrays being globals.                          *)
Entry     == [sign : {-1, 0, 1}, dbl : Nat, tpl : Nat]
ZeroEntry == [sign |-> 0, dbl |-> 0, tpl |-> 0]

TermValue(e) == e.sign * Pow23(e.dbl, e.tpl)

(* RunningSums(c, m)[k] is the value of the first k of the m entries of c. *)
RunningSums(c, m) ==
  LET v[k \in 0 .. m] == IF k = 0 THEN 0 ELSE v[k - 1] + TermValue(c[k - 1])
  IN  v
=============================================================================
