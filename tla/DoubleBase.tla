----------------------------- MODULE DoubleBase -----------------------------
(***************************************************************************)
(* Double-base chains, the data every component of DBCTest/ and gpuec/     *)
(* exchanges: a scalar n written as a sum of terms +-2^dbl * 3^tpl whose   *)
(* exponents never increase from one term to the next.  A chain lives in   *)
(* one slot of the global array DBC_store[2][MAX_2][3], most significant   *)
(* term at index 0; the number of valid entries is DBC_len[slot].          *)
(***************************************************************************)
EXTENDS Terms

CONSTANT MAX_2      \* entries of a slot of DBC_store, and the bound of exponents of 2

ASSUME MaxAssumption == MAX_2 \in Nat \ {0}

(* A slot of the store.                                                    *)
Slot      == [0 .. MAX_2 - 1 -> Entry]
EmptySlot == [i \in 0 .. MAX_2 - 1 |-> ZeroEntry]

(* Sums(c)[k] is the value of the first k entries of slot c.               *)
Sums(c) == RunningSums(c, MAX_2)

Value(c, len) == Sums(c)[len]

(* The exponents of the first len entries never increase: each term        *)
(* divides the one before it (the "chain" of a double-base chain).         *)
IsChain(c, len) ==
  /\ \A k \in 0 .. len - 1 : c[k].sign \in {-1, 1}
  /\ \A k \in 1 .. len - 1 : /\ c[k].dbl <= c[k - 1].dbl
                             /\ c[k].tpl <= c[k - 1].tpl

ADD_COST == 150
DBL_COST == 70
TPL_COST == 126

(* The prices of the operations, as DBCTest and as gpuec define them.      *)
DBCTestCosts == [add |-> ADD_COST, dbl |-> DBL_COST, tpl |-> TPL_COST]
GpuecCosts   == [add |-> 15, dbl |-> 7, tpl |-> 22]

(* The cost by which the greedy generators compare two slots.              *)
CostAt(price, c, len) == len * price.add + c[0].dbl * price.dbl + c[0].tpl * price.tpl

Cost(c, len) == CostAt(DBCTestCosts, c, len)
=============================================================================
