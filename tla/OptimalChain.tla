---------------------------- MODULE OptimalChain ----------------------------
(***************************************************************************)
(* getOptimalDBC (DBCTest/optimal_DBC.cpp): the cheapest double-base chain *)
(* of n by dynamic programming.  w(b, t) is a shortest chain of the        *)
(* residue n mod 2^b 3^t, w_(b, t) one of that residue minus 2^b 3^t; both *)
(* are linked backwards through pointers into the tables, which are        *)
(* globals that one call leaves to the next.  The cells are filled block   *)
(* by block, so that the numbers divided fit a machine word.               *)
(***************************************************************************)
EXTENDS DoubleBase, FiniteSets

CONSTANTS
  MAX_3,        \* columns of the tables
  ALPHA, BETA,  \* rows and columns of a block (32 and 18)
  Scalars,      \* the n of a first call
  LaterScalars, \* the n of a call after another one (a bound for TLC, as in GreedyChain)
  MaxAdditions, \* the rivals of a chain that is returned: their additions and
  MaxLead       \* the largest term (bounds for TLC)

Infinite == 99999999    \* costlier than any chain

ASSUME OptimalAssumption ==
  /\ MAX_3 \in Nat \ {0} /\ MAX_3 + BETA <= MAX_2
  /\ ALPHA \in Nat \ {0} /\ BETA \in Nat \ {0}
  /\ (ADD_COST + DBL_COST + TPL_COST) * MAX_2 < Infinite
  /\ LaterScalars \subseteq Scalars
  /\ MaxAdditions \in Nat /\ MaxLead \in Nat
  /\ \A m \in Scalars : m \in Nat \ {0} /\ 4 * m < Pow2[MAX_2] /\ 2 * m < Pow3[MAX_3]

VARIABLES pc, n,
          w, w_, w_min, now_DBC,                 \* tables, best chain, unpacked chain
          bBound,
          i_outer, j_outer, i_inner, j_inner,    \* position in the blocks
          record_outer, temp_outer, n0,          \* 6n divided down to the block
          DBC_store0, DBC_len0                   \* slot 0 of the result

loopVars == <<i_outer, j_outer, i_inner, j_inner, record_outer, temp_outer, n0>>
resultVars == <<DBC_store0, DBC_len0>>
vars == <<pc, n, w, w_, w_min, now_DBC, bBound, loopVars, resultVars>>

-----------------------------------------------------------------------------
(* struct optimal_DBC: a term, the length of the chain it leads and a      *)
(* pointer to the rest.  "Basic" chains are unpacked in now_DBC instead.   *)
NoParent == <<"none", 0, 0>>

NullNode == [isNULL |-> TRUE, isBasic |-> FALSE, length |-> 0, dbl |-> 0, tpl |-> 0,
             minus |-> FALSE, basic_value |-> 0, parent |-> NoParent]
ZeroNode == [NullNode EXCEPT !.isNULL = FALSE, !.isBasic = TRUE]
FreshNode == [NullNode EXCEPT !.isNULL = FALSE]

getL(x) == IF x.isNULL THEN Infinite ELSE x.length
getV(x) ==
  IF x.isBasic THEN x.basic_value
  ELSE IF x.isNULL THEN Infinite
  ELSE DBL_COST * x.dbl + TPL_COST * x.tpl + ADD_COST * (x.length - 1)

minL2(x, y) == IF getL(x) < getL(y) THEN x ELSE y
minV2(x, y) == IF getV(x) < getV(y) THEN x ELSE y
minL3(x, y, q) == IF getL(x) < getL(y) THEN minL2(x, q) ELSE minL2(y, q)
minV3(x, y, q) == IF getV(x) < getV(y) THEN minV2(x, q) ELSE minV2(y, q)

(* x.add(dbl, tpl, coef) for the node x at address p: one term more.       *)
add(x, p, dbl, tpl, coef) ==
  IF x.isNULL THEN x
  ELSE [FreshNode EXCEPT !.length = x.length + 1, !.dbl = dbl, !.tpl = tpl,
                         !.minus = (coef # 1), !.parent = p]

(* The node a pointer points to.                                           *)
Deref(p) == IF p[1] = "w" THEN w[<<p[2], p[3]>>] ELSE w_[<<p[2], p[3]>>]

(* The binary chain of m, least significant bit first.                     *)
Bits(m) == {e \in 0 .. MAX_2 - 1 : (m \div Pow2[e]) % 2 = 1}

BinaryChain(m) ==
  [k \in 0 .. MAX_2 - 1 |->
     IF k < Cardinality(Bits(m))
     THEN [dbl   |-> CHOOSE e \in Bits(m) : Cardinality({f \in Bits(m) : f < e}) = k,
           tpl   |-> 0,
           minus |-> FALSE]
     ELSE now_DBC[k]]

BinaryNode(m) ==
  LET l == Cardinality(Bits(m)) IN
  [FreshNode EXCEPT !.isBasic = TRUE, !.length = l,
     !.basic_value = BinaryChain(m)[l - 1].dbl * DBL_COST + ADD_COST * (l - 1)]

-----------------------------------------------------------------------------
B == 2 * n
six_n == 6 * n

log2B == Cardinality({e \in 1 .. MAX_2 : Pow2[e] <= B})
log3B == Cardinality({e \in 1 .. MAX_3 : Pow3[e] <= B})

(* bBound[e]: the largest power of 2 that keeps 2^b 3^e within 2m; entries *)
(* beyond log3B keep what an earlier call left there.                      *)
BoundsLess(m, decrement) ==
  [e \in 0 .. MAX_2 - 1 |->
     IF Pow3[e] <= 2 * m
     THEN Cardinality({d \in 1 .. MAX_2 : Pow23(d, e) <= 2 * m}) - decrement
     ELSE bBound[e]]

BoundsDecremented(m) == BoundsLess(m, 1)                          \* mutated
BoundsOf(m)          == BoundsLess(m, 0)

Columns == -1 .. MAX_3 - 1
Rows    == -1 .. MAX_2 - 1

Init ==
  /\ pc = "idle"
  /\ n = 0
  /\ w  = [x \in Rows \X Columns |-> IF x = <<0, 0>> THEN ZeroNode
                                     ELSE IF -1 \in {x[1], x[2]} THEN NullNode
                                     ELSE FreshNode]
  /\ w_ = [x \in Rows \X Columns |-> IF x = <<0, 0>> \/ -1 \in {x[1], x[2]} THEN NullNode
                                     ELSE FreshNode]
  /\ w_min = FreshNode
  /\ now_DBC = [k \in 0 .. MAX_2 - 1 |-> [dbl |-> 0, tpl |-> 0, minus |-> FALSE]]
  /\ bBound = [e \in 0 .. MAX_2 - 1 |-> 0]
  /\ i_outer = 0 /\ j_outer = 0 /\ i_inner = 0 /\ j_inner = 0
  /\ record_outer = 0 /\ temp_outer = 0 /\ n0 = 0
  /\ DBC_store0 = EmptySlot
  /\ DBC_len0 = 0

CallWith(m, bounds) ==
  /\ \/ pc = "idle"
     \/ pc = "done" /\ m \in LaterScalars
  /\ pc' = "columns"
  /\ n' = m
  /\ w_min' = BinaryNode(m)
  /\ now_DBC' = BinaryChain(m)
  /\ bBound' = bounds
  /\ record_outer' = 6 * m
  /\ j_outer' = 0
  /\ UNCHANGED <<w, w_, i_outer, i_inner, j_inner, temp_outer, n0, resultVars>>

CallKeepingBounds(m) == CallWith(m, [BoundsOf(m) EXCEPT ![1] = bBound[1]])  \* mutated
Call(m) == CallWith(m, BoundsOf(m))

(* for (j_outer ...): the blocks of one band of columns, or the end.       *)
NextBandTo(stage) ==
  /\ pc = "columns"
  /\ j_outer <= log3B \div BETA + 1
  /\ pc' = stage
  /\ temp_outer' = record_outer
  /\ i_outer' = 0
  /\ UNCHANGED <<n, w, w_, w_min, now_DBC, bBound, j_outer, i_inner, j_inner,
                 record_outer, n0, resultVars>>

NextBandAgain == NextBandTo("columns")                            \* mutated
NextBand      == NextBandTo("rows")

(* for (i_outer ...): the residue of the block, or the band is finished.   *)
BlockRange == bBound[j_outer * BETA] \div ALPHA + 1

NextBlock ==
  /\ pc = "rows"
  /\ i_outer <= BlockRange
  /\ pc' = "cells"
  /\ n0' = temp_outer % (Pow2[ALPHA + 1] * Pow3[BETA + 1])
  /\ i_inner' = 0
  /\ j_inner' = 0
  /\ UNCHANGED <<n, w, w_, w_min, now_DBC, bBound, i_outer, j_outer,
                 record_outer, temp_outer, resultVars>>

EndBandWith(divisor) ==
  /\ pc = "rows"
  /\ i_outer > BlockRange
  /\ pc' = "columns"
  /\ record_outer' = record_outer \div divisor
  /\ j_outer' = j_outer + 1
  /\ UNCHANGED <<n, w, w_, w_min, now_DBC, bBound, i_outer, i_inner, j_inner,
                 temp_outer, n0, resultVars>>

EndBandOffByOne == EndBandWith(Pow3[BETA + 1])                    \* mutated
EndBand == EndBandWith(Pow3[BETA])

t == j_outer * BETA + j_inner
b == i_outer * ALPHA + i_inner

(* Leaving the block, and leaving a column of it.                          *)
EndBlock ==
  /\ pc = "cells"
  /\ j_inner >= BETA \/ t > log3B
  /\ pc' = "rows"
  /\ temp_outer' = temp_outer \div Pow2[ALPHA]
  /\ i_outer' = i_outer + 1
  /\ UNCHANGED <<n, w, w_, w_min, now_DBC, bBound, j_outer, i_inner, j_inner,
                 record_outer, n0, resultVars>>

EndColumn ==
  /\ pc = "cells"
  /\ j_inner < BETA /\ t <= log3B
  /\ i_inner >= ALPHA \/ b > log2B
  /\ j_inner' = j_inner + 1
  /\ i_inner' = 0
  /\ UNCHANGED <<pc, n, w, w_, w_min, now_DBC, bBound, i_outer, j_outer,
                 record_outer, temp_outer, n0, resultVars>>

(* The recurrences of a cell, by the sixth of 2^b 3^t in which the residue *)
(* of n lies: from the cell with half and the cell with a third of the     *)
(* modulus, the residue or its complement, with or without a term more.    *)
Table(q) == IF q = 1 THEN "w" ELSE "w_"

ByHalf(coef, q)  == LET p == <<Table(q), b - 1, t>> IN add(Deref(p), p, b - 1, t, coef)
ByThird(coef, q) == LET p == <<Table(q), b, t - 1>> IN add(Deref(p), p, b, t - 1, coef)

quot == (n0 \div Pow23(i_inner, j_inner)) % 6

Residue ==
  IF quot < 2      THEN minL3(w[<<b - 1, t>>], w[<<b, t - 1>>], ByThird(1, -1))
  ELSE IF quot = 2 THEN minL3(w[<<b - 1, t>>], ByHalf(1, -1), ByThird(1, 1))
  ELSE ByHalf(1, 1)

Complement ==
  IF quot < 3      THEN ByHalf(-1, -1)
  ELSE IF quot = 3 THEN minL3(ByHalf(-1, 1), w_[<<b - 1, t>>], ByThird(-1, -1))
  ELSE minL3(w_[<<b - 1, t>>], ByThird(-1, 1), w_[<<b, t - 1>>])

(* On the boundary bBound the residue is n, or n less one 2^b 3^t: the     *)
(* chain of n that follows competes for w_min.                             *)
CandidateOfResidue(x, y) ==
  minV2(IF n >= Pow23(b, t) THEN add(x, <<"w", b, t>>, b, t, 1) ELSE x, w_min)  \* mutated

Candidate(x, y) ==
  IF n >= Pow23(b, t) THEN minV2(add(x, <<"w", b, t>>, b, t, 1), w_min)
                      ELSE minV3(x, add(y, <<"w_", b, t>>, b, t, 1), w_min)

Cell ==
  /\ pc = "cells"
  /\ j_inner < BETA /\ t <= log3B
  /\ i_inner < ALPHA /\ b <= log2B
  /\ IF b + t > 0 /\ b <= bBound[t]
     THEN /\ w'  = [w EXCEPT ![<<b, t>>] = Residue]
          /\ w_' = [w_ EXCEPT ![<<b, t>>] = Complement]
     ELSE UNCHANGED <<w, w_>>
  /\ w_min' = IF b = bBound[t] THEN Candidate(w'[<<b, t>>], w_'[<<b, t>>]) ELSE w_min
  /\ i_inner' = i_inner + 1
  /\ UNCHANGED <<pc, n, now_DBC, bBound, i_outer, j_outer, j_inner,
                 record_outer, temp_outer, n0, resultVars>>

(* simDBC: follow the pointers from a node, whose own term is the last of  *)
(* the chain.                                                              *)
Trail(x) ==
  LET present[k \in Nat] == IF k = 0 THEN x ELSE Deref(present[k - 1].parent)
  IN  present

Unpacked(x) ==
  [k \in 0 .. x.length - 1 |->
     IF x.isBasic THEN now_DBC[k]
     ELSE LET present == Trail(x)[x.length - k - 1]
          IN  [dbl |-> present.dbl, tpl |-> present.tpl, minus |-> present.minus]]

(* The best chain goes to slot 0 of DBC_store, most significant term first. *)
StoreInOrder(position) ==
  LET chain == Unpacked(w_min)
      row(x) == [sign |-> IF x.minus THEN -1 ELSE 1, dbl |-> x.dbl, tpl |-> x.tpl]
  IN
  /\ pc = "columns"
  /\ j_outer > log3B \div BETA + 1
  /\ pc' = "done"
  /\ now_DBC' = [k \in 0 .. MAX_2 - 1 |-> IF k < w_min.length THEN chain[k] ELSE now_DBC[k]]
  /\ DBC_store0' = [k \in 0 .. MAX_2 - 1 |->
                      IF k < w_min.length THEN row(chain[position[k]]) ELSE DBC_store0[k]]
  /\ DBC_len0' = w_min.length
  /\ UNCHANGED <<n, w, w_, w_min, bBound, loopVars>>

StoreUnreversed == StoreInOrder([k \in 0 .. w_min.length - 1 |-> k])   \* mutated
Store == StoreInOrder([k \in 0 .. w_min.length - 1 |-> w_min.length - k - 1])

Next ==
  \/ \E m \in Scalars : Call(m)
  \/ NextBand
  \/ NextBlock
  \/ EndBand
  \/ EndBlock
  \/ EndColumn
  \/ Cell
  \/ Store

Spec == Init /\ [][Next]_vars

(* A running call is a thread that never blocks.                           *)
Running == NextBand \/ NextBlock \/ EndBand \/ EndBlock \/ EndColumn \/ Cell \/ Store

FairSpec == Spec /\ WF_vars(Running)

-----------------------------------------------------------------------------
Node == [isNULL : BOOLEAN, isBasic : BOOLEAN, length : 0 .. MAX_2, dbl : Nat, tpl : Nat,
         minus : BOOLEAN, basic_value : Nat,
         parent : {"w", "w_"} \X Rows \X Columns \cup {NoParent}]

(* Type invariant.                                                         *)
TypeOK ==
  /\ pc \in {"idle", "columns", "rows", "cells", "done"}
  /\ n \in Scalars \cup {0}
  /\ w \in [Rows \X Columns -> Node] /\ w_ \in [Rows \X Columns -> Node]
  /\ w_min \in Node
  /\ bBound \in [0 .. MAX_2 - 1 -> 0 .. MAX_2]
  /\ {i_outer, j_outer, i_inner, j_inner, record_outer, temp_outer, n0} \subseteq Nat
  /\ DBC_store0 \in Slot
  /\ DBC_len0 \in 0 .. MAX_2

(* The value of the terms a node leads, and the sum of as many of them as  *)
(* its length says.                                                        *)
NodeTerm(x) == (IF x.minus THEN -1 ELSE 1) * Pow23(x.dbl, x.tpl)

NodeSums(x) ==
  LET v[k \in Nat] == IF k = 0 THEN 0 ELSE v[k - 1] + NodeTerm(Trail(x)[k - 1])
  IN  v

NodeValue(x) == NodeSums(x)[x.length]

(* When a call has filled its tables, every cell within the bounds that is *)
(* not NULL leads a chain of the residue of THIS n (its pointers reach no  *)
(* cell left over from an earlier call), or of the residue less the        *)
(* modulus.                                                                *)
CellsHoldResidues ==
  pc = "done" =>
    \A e \in 0 .. log3B : \A d \in 0 .. bBound[e] :
      LET m == Pow23(d, e) IN
      /\ ~ w[<<d, e>>].isNULL  => NodeValue(w[<<d, e>>]) = n % m
      /\ ~ w_[<<d, e>>].isNULL => NodeValue(w_[<<d, e>>]) = (n % m) - m

(* The call returns a chain of n that DBC_POINT_mul can evaluate: leading  *)
(* sign +1, exponents never increasing, no proper prefix 0 or negative.    *)
ReturnsChainOfN ==
  pc = "done" => /\ DBC_len0 \in 1 .. MAX_2
                 /\ IsChain(DBC_store0, DBC_len0)
                 /\ DBC_store0[0].sign = 1
                 /\ Value(DBC_store0, DBC_len0) = n
                 /\ \A k \in 1 .. DBC_len0 : Value(DBC_store0, k) > 0

(* The double-base chains themselves, built from their last term up by a   *)
(* larger one each time: pairs of a value and the exponents of the leading *)
(* term, for chains of k additions.  Nothing of the dynamic program is in  *)
(* them.                                                                   *)
LeadTerms == {x \in (0 .. MAX_2 - 1) \X (0 .. MAX_3) : Pow23(x[1], x[2]) <= MaxLead}

Above(x, y) == x # y /\ x[1] <= y[1] /\ x[2] <= y[2]

SingleTerms == {<<c * Pow23(x[1], x[2]), x>> : c \in {-1, 1}, x \in LeadTerms}

Longer(chains) ==
  UNION { {<<q[1] + c * Pow23(x[1], x[2]), x>> :
             c \in {-1, 1}, x \in {y \in LeadTerms : Above(q[2], y)}}
          : q \in chains }

ChainsOf[k \in Nat] == IF k = 0 THEN SingleTerms ELSE Longer(ChainsOf[k - 1])

Rivals == [k \in 0 .. MaxAdditions |-> {q \in ChainsOf[k] : q[1] \in Scalars}]

RivalCosts == [m \in Scalars |->
  UNION { {k * ADD_COST + q[2][1] * DBL_COST + q[2][2] * TPL_COST :
             q \in {p \in Rivals[k] : p[1] = m}} : k \in 0 .. MaxAdditions }]

(* No double-base chain of n is cheaper, by the costs of compute_TTV, than *)
(* the one getOptimalDBC returns, though the cells keep a shortest chain   *)
(* and not a cheapest one.                                                 *)
Optimal ==
  pc = "done" => \A cost \in RivalCosts[n] : Cost(DBC_store0, DBC_len0) - ADD_COST <= cost

(* The blocks tile the triangle of cells in an order in which a cell is    *)
(* filled after the two it is computed from: n0 always carries enough of   *)
(* 6n to give the sixth of the cell in work.                               *)
SixthExact ==
  (pc = "cells" /\ j_inner < BETA /\ i_inner < ALPHA /\ t <= log3B /\ b <= log2B) =>
    quot = (six_n \div Pow23(b, t)) % 6

(* Every call returns.                                                     *)
Returns == (pc = "columns") ~> (pc = "done")
=============================================================================
