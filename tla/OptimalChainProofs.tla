------------------------- MODULE OptimalChainProofs -------------------------
(***************************************************************************)
(* Proofs about OptimalChain for every scalar, table and block size: the   *)
(* block arithmetic is exact, every cell of the tables leads a chain of    *)
(* its residue, and the chain returned is one of n.  Then that each cell   *)
(* leads a shortest such chain, and that the one returned is a cheapest.   *)
(***************************************************************************)
EXTENDS OptimalChain, ArithmeticProofs

CellRows    == 0 .. MAX_2 - 1
CellColumns == 0 .. MAX_3 - 1
Tables      == {"w", "w_"}

Called == pc \in {"columns", "rows", "cells", "done"}

(* The cells a call fills, and those the loops have come to.               *)
Inside(d, e) == e <= log3B /\ d <= bBound[e]

Passed(d, e) ==
  \/ /\ pc = "columns"
     /\ e < j_outer * BETA
  \/ /\ pc = "rows"
     /\ \/ e < j_outer * BETA
        \/ e < j_outer * BETA + BETA /\ d < i_outer * ALPHA
  \/ /\ pc = "cells"
     /\ \/ e < j_outer * BETA
        \/ e < j_outer * BETA + BETA /\ d < i_outer * ALPHA
        \/ e < t /\ d < i_outer * ALPHA + ALPHA
        \/ e = t /\ j_inner < BETA /\ d < b
  \/ pc = "done"

Filled(d, e) == (d = 0 /\ e = 0) \/ (Inside(d, e) /\ Passed(d, e))

(* What the node of a filled cell is worth.                                *)
CellValue(table, d, e) ==
  (n % Pow23(d, e)) - (IF table = "w" THEN 0 ELSE Pow23(d, e))

(* Node x leads a chain of v: its parent is a filled cell with one term    *)
(* less, at the exponents of the term of x.  Its length is at most l, and  *)
(* the exponents are at most d and e.                                      *)
Linked(x) ==
  /\ ~x.isNULL /\ ~x.isBasic /\ x.length >= 1
  /\ x.dbl \in CellRows /\ x.tpl \in CellColumns
  /\ \E table \in Tables : x.parent = <<table, x.dbl, x.tpl>>
  /\ x.parent[1] = "w" => Pow23(x.dbl, x.tpl) <= n
  /\ Filled(x.dbl, x.tpl)
  /\ ~Deref(x.parent).isNULL /\ Deref(x.parent).length = x.length - 1

Leads(x, v, d, e) ==
  \/ x = ZeroNode /\ v = 0
  \/ /\ Linked(x)
     /\ x.dbl <= d /\ x.tpl <= e
     /\ v = CellValue(x.parent[1], x.dbl, x.tpl) + NodeTerm(x)

Null(x) == x.isNULL /\ ~x.isBasic

CellRight(x, table, d, e) ==
  Null(x) \/ (Leads(x, CellValue(table, d, e), d, e) /\ x.length <= d + e)

CellsRight ==
  \A d \in CellRows, e \in CellColumns :
    Filled(d, e) => /\ CellRight(w[<<d, e>>], "w", d, e)
                    /\ CellRight(w_[<<d, e>>], "w_", d, e)

(* The borders of the tables, and the corner from which all chains start.  *)
Borders ==
  /\ \A e \in Columns : Null(w[<<-1, e>>]) /\ Null(w_[<<-1, e>>])
  /\ \A d \in Rows : Null(w[<<d, -1>>]) /\ Null(w_[<<d, -1>>])
  /\ w[<<0, 0>>] = ZeroNode /\ Null(w_[<<0, 0>>])

(* The bounds of the call, by the condition they stand for.                *)
BoundsRight ==
  Called => \A e \in 0 .. log3B, d \in 0 .. MAX_2 :
              d <= bBound[e] <=> Pow23(d, e) <= B

(* The blocks, and what is left of 6n in each of them.                     *)
BlocksRight ==
  /\ pc \in {"columns", "rows", "cells"} =>
       record_outer = six_n \div Pow3[j_outer * BETA]
  /\ pc \in {"rows", "cells"} =>
       /\ j_outer <= log3B \div BETA + 1
       /\ temp_outer = six_n \div Pow23(i_outer * ALPHA, j_outer * BETA)
  /\ pc = "cells" =>
       /\ i_inner \in 0 .. ALPHA /\ j_inner \in 0 .. BETA
       /\ n0 = temp_outer % Pow23(ALPHA + 1, BETA + 1)

(* The unpacked chain that a basic w_min stands for: the powers of two     *)
(* n is made of, the smallest first.                                       *)
BinaryOf(c, l, m) ==
  /\ \A k \in 0 .. l - 1 :
       /\ c[k].dbl \in CellRows /\ c[k].tpl = 0 /\ ~c[k].minus
       /\ m % Pow2[c[k].dbl + 1] = (m % Pow2[c[k].dbl]) + Pow2[c[k].dbl]
       /\ IF k = 0 THEN m % Pow2[c[k].dbl] = 0
                   ELSE /\ c[k - 1].dbl < c[k].dbl
                        /\ m % Pow2[c[k].dbl] = m % Pow2[c[k - 1].dbl + 1]
  /\ m < Pow2[c[l - 1].dbl + 1]

BinaryRight == ~w_min.isNULL /\ BinaryOf(now_DBC, w_min.length, n)

BestRight ==
  pc \in {"columns", "rows", "cells"} =>
    /\ w_min.length >= 1
    /\ getV(w_min) <= Infinite
    /\ IF w_min.isBasic THEN BinaryRight ELSE Leads(w_min, n, MAX_2, MAX_3)

Unpackable == now_DBC \in [CellRows -> [dbl : Nat, tpl : Nat, minus : BOOLEAN]]

IndInv ==
  /\ TypeOK
  /\ Unpackable
  /\ Called => n \in Scalars
  /\ BoundsRight
  /\ BlocksRight
  /\ Borders
  /\ Called => CellsRight
  /\ BestRight
  /\ ReturnsChainOfN

-----------------------------------------------------------------------------
(* The bounds of a call.                                                   *)
LEMMA ScalarFacts ==
  ASSUME NEW m \in Scalars
  PROVE  /\ m \in Nat \ {0} /\ 2 * m \in Nat \ {0}
         /\ 2 * m < Pow3[MAX_3] /\ 2 * m < Pow2[MAX_2 - 1]
         /\ MAX_2 - 1 \in Nat /\ MAX_2 - 2 \in Nat /\ MAX_3 < MAX_2
         /\ MAX_2 \in Nat \ {0} /\ MAX_3 \in Nat \ {0}
<1>1. /\ MAX_2 \in Nat \ {0} /\ MAX_3 \in Nat \ {0} /\ BETA \in Nat \ {0} /\ MAX_3 + BETA <= MAX_2
      /\ m \in Nat \ {0} /\ 4 * m < Pow2[MAX_2] /\ 2 * m < Pow3[MAX_3]
  BY MaxAssumption, OptimalAssumption
<1> DEFINE l == MAX_2 - 1
<1>2. l \in Nat /\ l + 1 = MAX_2 /\ MAX_3 < MAX_2 /\ MAX_2 - 2 \in Nat
  BY <1>1
<1>3. Pow2[l + 1] = 2 * Pow2[l] /\ Pow2[l] \in Nat
  <2> HIDE DEF l
  <2>1. QED
    BY <1>2, Pow2Facts
<1>4. 2 * m < Pow2[l]
  BY <1>1, <1>2, <1>3
<1>5. QED
  BY <1>1, <1>2, <1>4

(* log3B counts the powers of three within B, so it is the largest such    *)
(* exponent.                                                               *)
LEMMA Log3Facts ==
  ASSUME NEW m \in Scalars
  PROVE  LET l == Cardinality({e \in 1 .. MAX_3 : Pow3[e] <= 2 * m})
         IN  /\ l \in 0 .. MAX_3 - 1
             /\ \A e \in 0 .. MAX_3 : e <= l <=> Pow3[e] <= 2 * m
<1> DEFINE S == {e \in 1 .. MAX_3 : Pow3[e] <= 2 * m}
           l == Cardinality(S)
<1>1. /\ 2 * m \in Nat \ {0} /\ 2 * m < Pow3[MAX_3] /\ MAX_3 \in Nat \ {0}
  BY ScalarFacts
<1>2. ASSUME NEW x \in S, NEW y \in 1 .. MAX_3, y <= x PROVE y \in S
  <2>1. x \in Nat /\ y \in 0 .. x /\ y \in Nat
    BY <1>2
  <2>2. Pow23(0, y) <= Pow23(0, x) /\ Pow23(0, y) = Pow3[y] /\ Pow23(0, x) = Pow3[x]
        /\ Pow23(0, y) \in Nat /\ Pow23(0, x) \in Nat
    <3>1. 0 \in 0 .. 0 /\ 0 \in Nat
      OBVIOUS
    <3> HIDE DEF S
    <3>2. QED
      BY <2>1, <3>1, PowerBounds, PowerSteps
  <2>3. QED
    BY <1>1, <2>2
<1>3. l \in 0 .. MAX_3 /\ S = 1 .. l
  <2>1. S \in SUBSET (1 .. MAX_3)
    OBVIOUS
  <2> HIDE DEF S
  <2>2. QED
    BY <1>1, <1>2, <2>1, CountDownClosed
<1>4. MAX_3 \notin S
  <2>1. Pow3[MAX_3] \in Nat
    BY <1>1, Pow3Facts
  <2>2. QED
    BY <1>1, <2>1
<1>5. l \in 0 .. MAX_3 - 1
  <2> HIDE DEF S, l
  <2>1. QED
    BY <1>1, <1>3, <1>4
<1>6. ASSUME NEW e \in 0 .. MAX_3 PROVE e <= l <=> Pow3[e] <= 2 * m
  <2>1. CASE e = 0
    <3>1. Pow3[0] = 1
      BY Pow3Facts
    <3>2. 1 <= 2 * m /\ 0 <= l
      BY <1>1, <1>5
    <3>3. QED
      BY <2>1, <3>1, <3>2
  <2>2. CASE e # 0
    <3>1. e \in 1 .. MAX_3
      BY <1>1, <2>2
    <3>2. e \in S <=> Pow3[e] <= 2 * m
      BY <3>1
    <3> HIDE DEF S, l
    <3>3. QED
      BY <1>3, <3>1, <3>2
  <2>3. QED
    BY <2>1, <2>2
<1>7. QED
  BY <1>5, <1>6

(* The entry of bBound for exponent e of three, and the logarithm to base  *)
(* 2, which is that for e = 0.                                             *)
LEMMA BoundFacts ==
  ASSUME NEW m \in Scalars, NEW e \in Nat, Pow3[e] <= 2 * m
  PROVE  LET l == Cardinality({d \in 1 .. MAX_2 : Pow23(d, e) <= 2 * m})
         IN  /\ l \in 0 .. MAX_2 - 2
             /\ \A d \in 0 .. MAX_2 : d <= l <=> Pow23(d, e) <= 2 * m
<1> DEFINE S == {d \in 1 .. MAX_2 : Pow23(d, e) <= 2 * m}
           l == Cardinality(S)
<1>1. /\ 2 * m \in Nat \ {0} /\ 2 * m < Pow2[MAX_2 - 1] /\ MAX_2 \in Nat \ {0}
      /\ MAX_2 - 1 \in Nat /\ MAX_2 - 2 \in Nat
  BY ScalarFacts
<1>2. ASSUME NEW x \in S, NEW y \in 1 .. MAX_2, y <= x PROVE y \in S
  <2>1. x \in Nat /\ y \in 0 .. x /\ y \in Nat
    BY <1>2
  <2>2. Pow23(y, e) <= Pow23(x, e) /\ Pow23(y, e) \in Nat /\ Pow23(x, e) \in Nat
    <3>1. e \in 0 .. e
      OBVIOUS
    <3> HIDE DEF S
    <3>2. QED
      BY <2>1, <3>1, PowerBounds, PowerSteps
  <2>3. QED
    BY <1>1, <2>2
<1>3. l \in 0 .. MAX_2 /\ S = 1 .. l
  <2>1. S \in SUBSET (1 .. MAX_2)
    OBVIOUS
  <2> HIDE DEF S
  <2>2. QED
    BY <1>1, <1>2, <2>1, CountDownClosed
<1>4. MAX_2 - 1 \notin S
  <2>1. Pow23(MAX_2 - 1, 0) <= Pow23(MAX_2 - 1, e) /\ Pow23(MAX_2 - 1, e) \in Nat
    <3> DEFINE k == MAX_2 - 1
    <3>1. k \in Nat /\ k \in 0 .. k /\ 0 \in 0 .. e
      BY <1>1
    <3> HIDE DEF k
    <3>2. Pow23(k, 0) <= Pow23(k, e) /\ Pow23(k, e) \in Nat
      BY <3>1, PowerBounds, PowerSteps
    <3>3. QED
      BY <3>2 DEF k
  <2>2. Pow23(MAX_2 - 1, 0) = Pow2[MAX_2 - 1] /\ Pow2[MAX_2 - 1] \in Nat
    BY <1>1, Pow2Facts, Pow3Facts DEF Pow23
  <2>3. QED
    BY <1>1, <2>1, <2>2
<1>5. l \in 0 .. MAX_2 - 2
  <2> HIDE DEF S, l
  <2>1. QED
    BY <1>1, <1>3, <1>4
<1>6. ASSUME NEW d \in 0 .. MAX_2 PROVE d <= l <=> Pow23(d, e) <= 2 * m
  <2>1. CASE d = 0
    <3>1. Pow23(0, e) = Pow3[e]
      BY PowerSteps
    <3>2. 0 <= l
      BY <1>5
    <3>3. QED
      BY <2>1, <3>1, <3>2
  <2>2. CASE d # 0
    <3>1. d \in 1 .. MAX_2
      BY <1>1, <2>2
    <3>2. d \in S <=> Pow23(d, e) <= 2 * m
      BY <3>1
    <3> HIDE DEF S, l
    <3>3. QED
      BY <1>3, <3>1, <3>2
  <2>3. QED
    BY <2>1, <2>2
<1>7. QED
  BY <1>5, <1>6

(* Likewise log2B.                                                         *)
LEMMA Log2Facts ==
  ASSUME NEW m \in Scalars
  PROVE  LET l == Cardinality({d \in 1 .. MAX_2 : Pow2[d] <= 2 * m})
         IN  /\ l \in 0 .. MAX_2 - 2
             /\ \A d \in 0 .. MAX_2 : d <= l <=> Pow2[d] <= 2 * m
<1>1. \A d \in Nat : Pow23(d, 0) = Pow2[d]
  BY Pow2Facts, Pow3Facts DEF Pow23
<1>2. Pow3[0] <= 2 * m /\ MAX_2 \in Nat
  BY ScalarFacts, Pow3Facts
<1>3. {d \in 1 .. MAX_2 : Pow23(d, 0) <= 2 * m} = {d \in 1 .. MAX_2 : Pow2[d] <= 2 * m}
  BY <1>1, <1>2
<1> DEFINE l == Cardinality({d \in 1 .. MAX_2 : Pow23(d, 0) <= 2 * m})
<1>4. l \in 0 .. MAX_2 - 2 /\ \A d \in 0 .. MAX_2 : d <= l <=> Pow23(d, 0) <= 2 * m
  BY <1>2, BoundFacts
<1>5. ASSUME NEW d \in 0 .. MAX_2 PROVE d <= l <=> Pow2[d] <= 2 * m
  <2>1. d \in Nat /\ Pow23(d, 0) = Pow2[d]
    BY <1>1, <1>2
  <2> HIDE DEF l
  <2>2. QED
    BY <1>4, <2>1
<1>6. l = Cardinality({d \in 1 .. MAX_2 : Pow2[d] <= 2 * m})
  BY <1>3
<1>7. l \in 0 .. MAX_2 - 2
  BY <1>4
<1> HIDE DEF l
<1>8. QED
  BY <1>5, <1>6, <1>7

(* Exponents whose power of two and three is within 2m add up to an        *)
(* exponent of two within it.                                              *)
LEMMA ExponentsShort ==
  ASSUME NEW m \in Scalars, NEW d \in Nat, NEW e \in Nat, Pow23(d, e) <= 2 * m
  PROVE  d + e <= MAX_2 - 2
<1> DEFINE T == {k \in Nat : Pow2[k] <= Pow3[k]}
<1>1. 0 \in T
  BY Pow2Facts, Pow3Facts
<1>2. ASSUME NEW k \in Nat, k \in T PROVE k + 1 \in T
  <2>1. /\ Pow2[k] \in Nat /\ Pow3[k] \in Nat
        /\ Pow2[k + 1] = 2 * Pow2[k] /\ Pow3[k + 1] = 3 * Pow3[k]
    BY Pow2Facts, Pow3Facts
  <2>2. QED
    BY <1>2, <2>1
<1>3. Nat \subseteq T
  <2> HIDE DEF T
  <2>1. QED
    BY <1>1, <1>2, SetInduction
<1>4. Pow2[e] <= Pow3[e]
  BY <1>3
<1>5. Pow2[d + e] <= Pow23(d, e)
  <2> DEFINE x == Pow2[d]
             y == Pow2[e]
             z == Pow3[e]
  <2>1. x \in Nat /\ y \in Nat /\ z \in Nat /\ y <= z /\ Pow2[d + e] = x * y
    BY <1>4, Pow2Facts, Pow3Facts, PowerSum
  <2> HIDE DEF x, y, z
  <2>2. x * y <= x * z
    <3>1. z - y \in Nat /\ z = y + (z - y)
      BY <2>1
    <3> DEFINE k == z - y
    <3> HIDE DEF k
    <3>2. k \in Nat /\ z = y + k
      BY <3>1 DEF k
    <3>3. x * (y + k) = x * y + x * k /\ x * k \in Nat /\ x * y \in Nat
      BY <2>1, <3>2
    <3>4. QED
      BY <3>2, <3>3
  <2>3. QED
    BY <2>1, <2>2 DEF Pow23, x, z
<1>6. 2 * m \in Nat /\ 2 * m < Pow2[MAX_2 - 1] /\ MAX_2 - 1 \in Nat /\ MAX_2 \in Nat
  BY ScalarFacts
<1>7. Pow2[d + e] \in Nat /\ Pow23(d, e) \in Nat /\ d + e \in Nat
  <2>1. d + e \in Nat
    OBVIOUS
  <2>2. QED
    BY <2>1, Pow2Facts, PowerSteps
<1>8. SUFFICES ASSUME MAX_2 - 1 <= d + e PROVE FALSE
  BY <1>6, <1>7
<1>9. Pow2[MAX_2 - 1] <= Pow2[d + e] /\ Pow2[MAX_2 - 1] \in Nat
  <2> DEFINE x == MAX_2 - 1
             y == d + e
  <2>1. x \in Nat /\ y \in Nat /\ x \in 0 .. y /\ 0 \in 0 .. 0 /\ 0 \in Nat
    BY <1>6, <1>7, <1>8
  <2> HIDE DEF x, y
  <2>2. Pow23(x, 0) <= Pow23(y, 0)
    BY <2>1, PowerBounds
  <2>3. Pow23(x, 0) = Pow2[x] * 1 /\ Pow23(y, 0) = Pow2[y] * 1 /\ Pow2[x] \in Nat /\ Pow2[y] \in Nat
    BY <2>1, Pow2Facts, Pow3Facts DEF Pow23
  <2>4. Pow2[x] <= Pow2[y] /\ Pow2[x] \in Nat
    BY <2>2, <2>3
  <2>5. QED
    BY <2>4 DEF x, y
<1>10. QED
  BY <1>5, <1>6, <1>7, <1>9

(* The block arithmetic: what a block keeps of 6n gives the sixth of each  *)
(* of its cells.                                                           *)
LEMMA SixthOfCell ==
  ASSUME n \in Nat, {i_outer, j_outer, i_inner, j_inner} \subseteq Nat, BlocksRight
  PROVE  SixthExact
<1> SUFFICES ASSUME pc = "cells", j_inner < BETA, i_inner < ALPHA
             PROVE  quot = (six_n \div Pow23(b, t)) % 6
  BY DEF SixthExact
<1>1. ALPHA \in Nat \ {0} /\ BETA \in Nat \ {0}
  BY OptimalAssumption
<1> DEFINE i == i_inner
           j == j_inner
           d == i_outer * ALPHA
           e == j_outer * BETA
           P == Pow23(i, j)
           Q == Pow23(d, e)
           K == Pow23(ALPHA - i, BETA - j)
<1>2. /\ i \in Nat /\ j \in Nat /\ d \in Nat /\ e \in Nat
      /\ ALPHA - i \in Nat /\ BETA - j \in Nat
      /\ (i + 1) + (ALPHA - i) = ALPHA + 1 /\ (j + 1) + (BETA - j) = BETA + 1
      /\ i + 1 \in Nat /\ j + 1 \in Nat
  BY <1>1
<1>3. n0 = (six_n \div Q) % Pow23(ALPHA + 1, BETA + 1)
  BY DEF BlocksRight
<1>4. b = d + i /\ t = e + j
  BY DEF b, t
<1> HIDE DEF i, j, d, e
<1>5. P \in Nat \ {0} /\ Q \in Nat \ {0} /\ K \in Nat \ {0} /\ Pow23(i + 1, j + 1) = P * 6
  <2>1. P \in Nat \ {0} /\ Pow23(i + 1, j) = 2 * P
    BY <1>2, PowerSteps
  <2>2. Pow23(i + 1, j + 1) = 3 * Pow23(i + 1, j)
    BY <1>2, PowerSteps
  <2>3. Q \in Nat \ {0}
    BY <1>2, PowerSteps
  <2>4. K \in Nat \ {0}
    <3> DEFINE x == ALPHA - i
               y == BETA - j
    <3>1. x \in Nat /\ y \in Nat
      BY <1>2
    <3> HIDE DEF x, y
    <3>2. Pow23(x, y) \in Nat \ {0}
      BY <3>1, PowerSteps
    <3>3. QED
      BY <3>2 DEF x, y
  <2> HIDE DEF P
  <2>5. QED
    BY <2>1, <2>2, <2>3, <2>4
<1>6. Pow23(ALPHA + 1, BETA + 1) = (P * 6) * K
  <2> DEFINE x == ALPHA - i
             y == BETA - j
             u == i + 1
             v == j + 1
  <2>1. x \in Nat /\ y \in Nat /\ u \in Nat /\ v \in Nat /\ u + x = ALPHA + 1 /\ v + y = BETA + 1
    BY <1>2
  <2>2. Pow23(u, v) = P * 6 /\ K = Pow23(x, y)
    BY <1>5
  <2> HIDE DEF x, y, u, v, P, K
  <2>3. Pow23(u + x, v + y) = Pow23(u, v) * Pow23(x, y)
    BY <2>1, PowerProduct
  <2>4. QED
    BY <2>1, <2>2, <2>3
<1>7. Pow23(b, t) = Q * P
  BY <1>2, <1>4, PowerProduct
<1>8. quot = (n0 \div P) % 6
  BY DEF quot, i, j
<1>9. six_n \in Nat
  BY DEF six_n
<1> HIDE DEF P, Q, K
<1> DEFINE X == six_n \div Q
<1>10. X \in Nat
  BY <1>5, <1>9
<1>11. X \div P = six_n \div (Q * P)
  BY <1>5, <1>9, DivideTwice
<1> HIDE DEF X
<1>12. ((X % ((P * 6) * K)) \div P) % 6 = (X \div P) % 6
  <2> DEFINE c == 6
  <2>1. c \in Nat \ {0}
    OBVIOUS
  <2> HIDE DEF c
  <2>2. P \in Nat \ {0} /\ K \in Nat \ {0}
    BY <1>5
  <2>3. ((X % ((P * c) * K)) \div P) % c = (X \div P) % c
    BY ONLY <1>10, <2>1, <2>2, QuotientOfRemainder, ZenonT(40)
  <2>4. QED
    BY <2>3 DEF c
<1>13. n0 = X % ((P * 6) * K)
  BY <1>3, <1>6 DEF X
<1>14. QED
  BY <1>7, <1>8, <1>11, <1>12, <1>13

-----------------------------------------------------------------------------
(* What the invariant says of the bounds while a call is running.          *)
LEMMA CallFacts ==
  ASSUME TypeOK, BoundsRight, Called, n \in Scalars
  PROVE  /\ n \in Nat \ {0} /\ B \in Nat /\ B = 2 * n
         /\ log3B \in 0 .. MAX_3 - 1 /\ log2B \in 0 .. MAX_2 - 2
         /\ \A e \in 0 .. MAX_3 : e <= log3B <=> Pow3[e] <= B
         /\ \A e \in 0 .. log3B :
              /\ e \in CellColumns /\ bBound[e] \in 0 .. log2B
              /\ bBound[e] + e <= MAX_2 - 2
              /\ Pow23(bBound[e], e) <= B
              /\ B < Pow23(bBound[e] + 1, e)
              /\ \A f \in 0 .. e : bBound[e] <= bBound[f]
<1>1. /\ n \in Nat \ {0} /\ MAX_2 \in Nat \ {0} /\ MAX_3 \in Nat \ {0} /\ MAX_3 < MAX_2
      /\ MAX_2 - 2 \in Nat
  BY ScalarFacts
<1>2. B \in Nat /\ B = 2 * n
  BY <1>1 DEF B
<1>3. log3B \in 0 .. MAX_3 - 1 /\ \A e \in 0 .. MAX_3 : e <= log3B <=> Pow3[e] <= B
  <2>1. /\ Cardinality({e \in 1 .. MAX_3 : Pow3[e] <= 2 * n}) \in 0 .. MAX_3 - 1
        /\ \A e \in 0 .. MAX_3 : e <= Cardinality({f \in 1 .. MAX_3 : Pow3[f] <= 2 * n})
                                 <=> Pow3[e] <= 2 * n
    BY Log3Facts
  <2>2. QED
    BY <2>1 DEF log3B, B
<1>4. log2B \in 0 .. MAX_2 - 2 /\ \A d \in 0 .. MAX_2 : d <= log2B <=> Pow2[d] <= B
  <2>1. /\ Cardinality({d \in 1 .. MAX_2 : Pow2[d] <= 2 * n}) \in 0 .. MAX_2 - 2
        /\ \A d \in 0 .. MAX_2 : d <= Cardinality({f \in 1 .. MAX_2 : Pow2[f] <= 2 * n})
                                 <=> Pow2[d] <= 2 * n
    BY Log2Facts
  <2>2. QED
    BY <2>1 DEF log2B, B
<1>5. ASSUME NEW e \in 0 .. log3B
      PROVE  /\ e \in CellColumns /\ bBound[e] \in 0 .. log2B
             /\ bBound[e] + e <= MAX_2 - 2
             /\ Pow23(bBound[e], e) <= B
             /\ B < Pow23(bBound[e] + 1, e)
             /\ \A f \in 0 .. e : bBound[e] <= bBound[f]
  <2>1. e \in Nat /\ e \in CellColumns /\ \A f \in 0 .. e : f \in 0 .. log3B /\ f \in 0 .. MAX_2 - 1
    BY <1>1, <1>3 DEF CellColumns
  <2>2. \A f \in 0 .. e : bBound[f] \in 0 .. MAX_2
    BY <2>1 DEF TypeOK
  <2>3. \A f \in 0 .. e, d \in 0 .. MAX_2 : d <= bBound[f] <=> Pow23(d, f) <= B
    BY <2>1 DEF BoundsRight
  <2> DEFINE l == bBound[e]
  <2>4. l \in 0 .. MAX_2 /\ l \in Nat /\ Pow23(l, e) <= B
    BY <1>1, <2>1, <2>2, <2>3
  <2>5. l + e <= MAX_2 - 2 /\ l \in 0 .. MAX_2 - 2
    <3> HIDE DEF l
    <3>1. l + e <= MAX_2 - 2
      BY <1>2, <2>1, <2>4, ExponentsShort
    <3>2. QED
      BY <1>1, <2>1, <2>4, <3>1
  <2>6. l <= log2B
    <3> HIDE DEF l
    <3>1. Pow23(l, 0) <= Pow23(l, e) /\ Pow23(l, 0) \in Nat /\ Pow23(l, e) \in Nat
      <4>1. l \in 0 .. l /\ 0 \in 0 .. e /\ 0 \in Nat
        BY <2>1, <2>4
      <4>2. QED
        BY <2>1, <2>4, <4>1, PowerBounds, PowerSteps
    <3>2. Pow23(l, 0) = Pow2[l] * 1 /\ Pow2[l] \in Nat
      BY <2>4, Pow2Facts, Pow3Facts DEF Pow23
    <3>3. Pow2[l] <= B
      BY <1>2, <2>4, <3>1, <3>2
    <3>4. QED
      BY <1>4, <2>4, <3>3
  <2>7. B < Pow23(l + 1, e)
    <3>1. l + 1 \in 0 .. MAX_2 /\ ~(l + 1 <= l) /\ l + 1 \in Nat
      BY <1>1, <2>5
    <3>2. ~(Pow23(l + 1, e) <= B)
      BY <2>1, <2>3, <3>1
    <3> DEFINE k == l + 1
    <3>3. k \in Nat
      BY <3>1
    <3> HIDE DEF k
    <3>4. Pow23(k, e) \in Nat
      BY <2>1, <3>3, PowerSteps
    <3>5. QED
      BY <1>2, <3>2, <3>4 DEF k
  <2>8. ASSUME NEW f \in 0 .. e PROVE l <= bBound[f]
    <3> HIDE DEF l
    <3>1. Pow23(l, f) <= Pow23(l, e) /\ Pow23(l, f) \in Nat /\ Pow23(l, e) \in Nat
      <4>1. l \in 0 .. l /\ f \in Nat
        BY <2>1, <2>4
      <4>2. QED
        BY <2>1, <2>4, <4>1, PowerBounds, PowerSteps
    <3>2. Pow23(l, f) <= B
      BY <1>2, <2>4, <3>1
    <3>3. QED
      BY <2>3, <2>4, <3>2
  <2>9. l \in 0 .. log2B
    BY <1>4, <2>5, <2>6
  <2>10. QED
    BY <2>1, <2>4, <2>5, <2>7, <2>8, <2>9
<1>6. QED
  BY <1>1, <1>2, <1>3, <1>4, <1>5

(* The nodes of the tables, and the one a pointer to a cell points to.     *)
LEMMA CellNodes ==
  ASSUME TypeOK
  PROVE  /\ \A d \in Rows, e \in Columns : w[<<d, e>>] \in Node /\ w_[<<d, e>>] \in Node
         /\ \A table \in Tables, d \in CellRows, e \in CellColumns :
              /\ d \in Rows /\ e \in Columns /\ d \in Nat /\ e \in Nat
              /\ <<table, d, e>> # NoParent
              /\ Deref(<<table, d, e>>) = (IF table = "w" THEN w[<<d, e>>] ELSE w_[<<d, e>>])
              /\ Deref(<<table, d, e>>) \in Node
<1>1. w \in [Rows \X Columns -> Node] /\ w_ \in [Rows \X Columns -> Node]
  BY DEF TypeOK
<1>2. \A d \in Rows, e \in Columns : w[<<d, e>>] \in Node /\ w_[<<d, e>>] \in Node
  BY <1>1
<1>3. ASSUME NEW table \in Tables, NEW d \in CellRows, NEW e \in CellColumns
      PROVE  /\ d \in Rows /\ e \in Columns /\ d \in Nat /\ e \in Nat
             /\ <<table, d, e>> # NoParent
             /\ Deref(<<table, d, e>>) = (IF table = "w" THEN w[<<d, e>>] ELSE w_[<<d, e>>])
  BY DEF CellRows, CellColumns, Rows, Columns, Deref, Tables, NoParent
<1>4. QED
  BY <1>2, <1>3

(* A term more.                                                            *)
LEMMA AddFacts ==
  ASSUME NEW x \in Node, ~x.isNULL, x.length < MAX_2, NEW coef \in {-1, 1},
         NEW table \in Tables, NEW d \in CellRows, NEW e \in CellColumns
  PROVE  LET y == add(x, <<table, d, e>>, d, e, coef) IN
         /\ y \in Node /\ ~y.isNULL /\ ~y.isBasic
         /\ y.length = x.length + 1 /\ y.length \in 1 .. MAX_2
         /\ y.dbl = d /\ y.tpl = e /\ y.parent = <<table, d, e>>
         /\ NodeTerm(y) = coef * Pow23(d, e)
         /\ getV(y) \in Nat /\ getV(y) <= Infinite
<1> DEFINE y == add(x, <<table, d, e>>, d, e, coef)
           p == <<table, d, e>>
<1>1. MAX_2 \in Nat \ {0} /\ MAX_3 \in Nat \ {0} /\ BETA \in Nat \ {0} /\ MAX_3 + BETA <= MAX_2
      /\ 346 * MAX_2 < Infinite
  BY MaxAssumption, OptimalAssumption DEF ADD_COST, DBL_COST, TPL_COST
<1>2. x.length \in Nat /\ x.length + 1 \in 1 .. MAX_2 /\ d \in Nat /\ e \in Nat
      /\ d < MAX_2 /\ e < MAX_2
  BY <1>1 DEF Node, CellRows, CellColumns
<1>3. p \in {"w", "w_"} \X Rows \X Columns
  BY <1>2 DEF Tables, Rows, Columns, CellRows, CellColumns
<1>4. y = [isNULL |-> FALSE, isBasic |-> FALSE, length |-> x.length + 1, dbl |-> d, tpl |-> e,
           minus |-> (coef # 1), basic_value |-> 0, parent |-> p]
  BY DEF add, FreshNode, NullNode
<1>5. y \in Node
  <2>1. (coef # 1) \in BOOLEAN /\ x.length + 1 \in 0 .. MAX_2
    BY <1>2
  <2> DEFINE minus == coef # 1
  <2>2. minus \in BOOLEAN /\ p \in {"w", "w_"} \X Rows \X Columns \cup {NoParent}
    BY <1>3, <2>1
  <2>3. y = [isNULL |-> FALSE, isBasic |-> FALSE, length |-> x.length + 1, dbl |-> d,
             tpl |-> e, minus |-> minus, basic_value |-> 0, parent |-> p]
    BY <1>4
  <2> HIDE DEF p, minus, y
  <2>4. QED
    BY <1>2, <2>1, <2>2, <2>3 DEF Node
<1>6. /\ ~y.isNULL /\ ~y.isBasic /\ y.length = x.length + 1
      /\ y.dbl = d /\ y.tpl = e /\ y.parent = p /\ y.minus = (coef # 1)
  BY <1>4
<1> HIDE DEF y, p
<1>7. NodeTerm(y) = coef * Pow23(d, e)
  <2>1. CASE coef = 1
    BY <1>6, <2>1 DEF NodeTerm
  <2>2. CASE coef = -1
    BY <1>6, <2>2 DEF NodeTerm
  <2>3. QED
    BY <2>1, <2>2
<1>8. getV(y) = DBL_COST * d + TPL_COST * e + ADD_COST * x.length
  <2>1. y.length - 1 = x.length
    BY <1>2, <1>6
  <2>2. QED
    BY <1>6, <2>1 DEF getV
<1>9. getV(y) \in Nat /\ getV(y) <= Infinite
  <2>1. getV(y) = 70 * d + 126 * e + 150 * x.length
    BY <1>8 DEF DBL_COST, TPL_COST, ADD_COST
  <2>2. Infinite \in Nat
    BY DEF Infinite
  <2>3. QED
    BY <1>1, <1>2, <2>1, <2>2
<1>10. QED
  BY <1>2, <1>5, <1>6, <1>7, <1>9 DEF y, p

-----------------------------------------------------------------------------
(* A node that leads a chain may be taken over by a cell of the same value *)
(* further on, and a term may be added to it.                              *)
LEMMA CopyRight ==
  ASSUME NEW x \in Node, NEW table, NEW d \in Int, NEW e \in Int, CellRight(x, table, d, e),
         NEW other, NEW D \in Nat, NEW E \in Nat, d <= D, e <= E,
         CellValue(table, d, e) = CellValue(other, D, E)
  PROVE  CellRight(x, other, D, E)
<1>1. CASE Null(x)
  BY <1>1 DEF CellRight
<1>2. CASE ~Null(x)
  <2>1. Leads(x, CellValue(other, D, E), d, e) /\ x.length <= d + e
    BY <1>2 DEF CellRight
  <2>2. x.dbl \in Nat /\ x.tpl \in Nat /\ x.length \in Int
    BY DEF Node
  <2>3. Leads(x, CellValue(other, D, E), D, E)
    BY <2>1, <2>2 DEF Leads
  <2>4. x.length <= D + E
    BY <2>1, <2>2
  <2>5. QED
    BY <2>3, <2>4 DEF CellRight
<1>3. QED
  BY <1>1, <1>2

(* add puts one more term on a filled cell: it gives a null node, or one   *)
(* that leads a chain of what the cell stands for plus the term.           *)
LEMMA AddRight ==
  ASSUME TypeOK, NEW table \in Tables, NEW d \in CellRows, NEW e \in CellColumns,
         NEW x \in Node, x = Deref(<<table, d, e>>),
         Filled(d, e), CellRight(x, table, d, e), d + e < MAX_2,
         NEW coef \in {-1, 1}, table = "w" => Pow23(d, e) <= n,
         NEW D \in Nat, NEW E \in Nat, d <= D, e <= E, NEW v,
         v = CellValue(table, d, e) + coef * Pow23(d, e)
  PROVE  LET y == add(x, <<table, d, e>>, d, e, coef) IN
         /\ y \in Node
         /\ Null(y) \/ /\ Leads(y, v, D, E) /\ ~y.isNULL /\ ~y.isBasic
                       /\ y.length <= d + e + 1 /\ getV(y) <= Infinite
<1> DEFINE p == <<table, d, e>>
           y == add(x, p, d, e, coef)
<1>1. MAX_2 \in Nat \ {0} /\ d \in Nat /\ e \in Nat
  BY MaxAssumption DEF CellRows, CellColumns
<1>2. CASE x.isNULL
  <2>1. y = x
    BY <1>2 DEF add
  <2>2. Null(x)
    BY <1>2 DEF CellRight, Leads, Linked, ZeroNode, NullNode
  <2>3. QED
    BY <2>1, <2>2
<1>3. CASE ~x.isNULL
  <2>1. Leads(x, CellValue(table, d, e), d, e) /\ x.length <= d + e
    BY <1>3 DEF CellRight, Null
  <2>2. x.length < MAX_2 /\ x.length \in Nat
    <3>1. x.length \in Nat
      BY DEF Node
    <3>2. QED
      BY <1>1, <2>1, <3>1
  <2>3. /\ y \in Node /\ ~y.isNULL /\ ~y.isBasic
        /\ y.length = x.length + 1 /\ y.dbl = d /\ y.tpl = e /\ y.parent = p
        /\ NodeTerm(y) = coef * Pow23(d, e) /\ getV(y) <= Infinite
    BY <1>3, <2>2, AddFacts
  <2> HIDE DEF y
  <2>4. Linked(y)
    <3>1. y.length >= 1 /\ y.length - 1 = x.length
      BY <2>2, <2>3
    <3>2. p[1] = table
      OBVIOUS
    <3>3. Deref(y.parent) = x
      BY <2>3
    <3>4. \E q \in Tables : y.parent = <<q, y.dbl, y.tpl>>
      BY <2>3
    <3>5. y.parent[1] = "w" => Pow23(y.dbl, y.tpl) <= n
      BY <2>3, <3>2
    <3>6. QED
      BY <1>3, <2>3, <3>1, <3>3, <3>4, <3>5 DEF Linked
  <2>5. Leads(y, v, D, E)
    <3>1. y.parent[1] = table
      BY <2>3
    <3>2. v = CellValue(y.parent[1], y.dbl, y.tpl) + NodeTerm(y)
      BY <2>3, <3>1
    <3>3. QED
      BY <2>3, <2>4, <3>2 DEF Leads
  <2>6. y.length <= d + e + 1
    BY <1>1, <2>1, <2>2, <2>3
  <2>7. QED
    BY <2>3, <2>5, <2>6 DEF y
<1>4. QED
  BY <1>2, <1>3

(* The least of three nodes is one of them; the cheaper of two is no dearer *)
(* than either.                                                            *)
LEMMA MinPicks ==
  ASSUME NEW x, NEW y, NEW q
  PROVE  /\ minL3(x, y, q) \in {x, y, q}
         /\ minV2(x, y) \in {x, y} /\ minV3(x, y, q) \in {x, y, q}
BY DEF minL3, minL2, minV3, minV2

-----------------------------------------------------------------------------
(* A step that leaves the filled cells alone, and goes on filling, keeps   *)
(* the chains that nodes lead.                                             *)
Kept ==
  /\ n' = n
  /\ \A d \in CellRows, e \in CellColumns :
       Filled(d, e) => /\ Filled(d, e)'
                       /\ w'[<<d, e>>] = w[<<d, e>>] /\ w_'[<<d, e>>] = w_[<<d, e>>]

(* A node keeps leading its chain while the filled cells stay as they are. *)
LEMMA KeptLeads ==
  ASSUME Kept, TypeOK
  PROVE  \A x, v, d, e : Leads(x, v, d, e) => Leads(x, v, d, e)'
<1> SUFFICES ASSUME NEW x, NEW v, NEW d, NEW e, Leads(x, v, d, e)
             PROVE  Leads(x, v, d, e)'
  OBVIOUS
<1>1. CASE x = ZeroNode /\ v = 0
  BY <1>1 DEF Leads
<1>2. CASE ~(x = ZeroNode /\ v = 0)
  <2>1. Linked(x) /\ x.dbl <= d /\ x.tpl <= e /\ v = CellValue(x.parent[1], x.dbl, x.tpl) + NodeTerm(x)
    BY <1>2 DEF Leads
  <2>2. PICK table \in Tables : x.parent = <<table, x.dbl, x.tpl>>
    BY <2>1 DEF Linked
  <2>3. x.dbl \in CellRows /\ x.tpl \in CellColumns /\ Filled(x.dbl, x.tpl)
    BY <2>1 DEF Linked
  <2>4. /\ Filled(x.dbl, x.tpl)'
        /\ w'[<<x.dbl, x.tpl>>] = w[<<x.dbl, x.tpl>>] /\ w_'[<<x.dbl, x.tpl>>] = w_[<<x.dbl, x.tpl>>]
        /\ n' = n
    BY <2>3 DEF Kept
  <2>5. Deref(x.parent)' = Deref(x.parent)
    BY <2>2, <2>4 DEF Deref
  <2>6. Linked(x)'
    BY <2>1, <2>4, <2>5 DEF Linked
  <2>7. CellValue(x.parent[1], x.dbl, x.tpl)' = CellValue(x.parent[1], x.dbl, x.tpl)
    BY <2>4 DEF CellValue
  <2>8. QED
    BY <2>1, <2>6, <2>7 DEF Leads
<1>3. QED
  BY <1>1, <1>2

(* So does the node of a cell.                                             *)
LEMMA KeptRight ==
  ASSUME Kept, TypeOK
  PROVE  \A x, table, d, e : CellRight(x, table, d, e) => CellRight(x, table, d, e)'
<1> SUFFICES ASSUME NEW x, NEW table, NEW d, NEW e, CellRight(x, table, d, e)
             PROVE  CellRight(x, table, d, e)'
  OBVIOUS
<1>1. CASE Null(x)
  BY <1>1 DEF CellRight, Null
<1>2. CASE Leads(x, CellValue(table, d, e), d, e) /\ x.length <= d + e
  <2>1. PICK v : v = CellValue(table, d, e)
    OBVIOUS
  <2>2. CellValue(table, d, e)' = v
    BY <2>1 DEF CellValue, Kept
  <2>3. Leads(x, v, d, e)'
    BY <1>2, <2>1, KeptLeads
  <2>4. QED
    BY <1>2, <2>2, <2>3 DEF CellRight
<1>3. QED
  BY <1>1, <1>2 DEF CellRight

(* Where no cell is filled, the tables stay right.                         *)
LEMMA KeptCells ==
  ASSUME TypeOK, CellsRight, Kept,
         \A d \in CellRows, e \in CellColumns : Filled(d, e)' => Filled(d, e)
  PROVE  CellsRight'
<1>1. ASSUME NEW d \in CellRows, NEW e \in CellColumns, Filled(d, e)'
      PROVE  /\ CellRight(w[<<d, e>>], "w", d, e)'
             /\ CellRight(w_[<<d, e>>], "w_", d, e)'
  <2>1. /\ CellRight(w[<<d, e>>], "w", d, e)
        /\ CellRight(w_[<<d, e>>], "w_", d, e)
        /\ w'[<<d, e>>] = w[<<d, e>>] /\ w_'[<<d, e>>] = w_[<<d, e>>]
    BY <1>1 DEF CellsRight, Kept
  <2>2. /\ CellRight(w'[<<d, e>>], "w", d, e)
        /\ CellRight(w_'[<<d, e>>], "w_", d, e)
    BY <2>1
  <2>3. QED
    BY <2>2, KeptRight
<1>2. QED
  BY <1>1 DEF CellsRight

-----------------------------------------------------------------------------
(* The cell in work, and the cells with half and a third of its modulus.   *)
InCell ==
  /\ pc = "cells"
  /\ j_inner < BETA /\ t <= log3B
  /\ i_inner < ALPHA /\ b <= log2B

(* Where a step inside a block works.                                      *)
LEMMA PositionFacts ==
  ASSUME IndInv, InCell
  PROVE  /\ n \in Nat \ {0} /\ n \in Scalars /\ Called
         /\ b \in CellRows /\ t \in CellColumns /\ b \in Nat /\ t \in Nat
         /\ t \in 0 .. log3B
         /\ b = i_outer * ALPHA + i_inner /\ t = j_outer * BETA + j_inner
         /\ i_outer * ALPHA \in Nat /\ j_outer * BETA \in Nat
         /\ i_inner \in Nat /\ j_inner \in Nat
         /\ ALPHA \in Nat \ {0} /\ BETA \in Nat \ {0} /\ MAX_2 \in Nat \ {0} /\ MAX_3 \in Nat \ {0}
<1>1. Called /\ TypeOK /\ BoundsRight /\ n \in Scalars
  BY DEF InCell, Called, IndInv
<1>2. /\ n \in Nat \ {0} /\ log3B \in 0 .. MAX_3 - 1 /\ log2B \in 0 .. MAX_2 - 2
  BY <1>1, CallFacts
<1>3. ALPHA \in Nat \ {0} /\ BETA \in Nat \ {0} /\ MAX_2 \in Nat \ {0} /\ MAX_3 \in Nat \ {0}
  BY OptimalAssumption, MaxAssumption
<1>4. i_outer \in Nat /\ j_outer \in Nat /\ i_inner \in Nat /\ j_inner \in Nat
  BY <1>1 DEF TypeOK
<1>5. /\ b = i_outer * ALPHA + i_inner /\ t = j_outer * BETA + j_inner
      /\ i_outer * ALPHA \in Nat /\ j_outer * BETA \in Nat
  BY <1>3, <1>4 DEF b, t
<1>6. b \in Nat /\ t \in Nat
  BY <1>4, <1>5
<1>7. b <= log2B /\ t <= log3B
  BY DEF InCell
<1>8. b \in CellRows /\ t \in CellColumns /\ t \in 0 .. log3B
  BY <1>2, <1>3, <1>6, <1>7 DEF CellRows, CellColumns
<1>9. QED
  BY <1>1, <1>2, <1>3, <1>4, <1>5, <1>6, <1>8

(* The cells at half and at a third of a cell within the bounds are filled *)
(* before it, also when they lie in another block.                         *)
LEMMA NeighbourFilled ==
  ASSUME IndInv, InCell, b <= bBound[t]
  PROVE  /\ b > 0 => b - 1 \in CellRows /\ Filled(b - 1, t)
         /\ t > 0 => t - 1 \in CellColumns /\ Filled(b, t - 1)
         /\ b + t <= MAX_2 - 2
<1>1. /\ b \in CellRows /\ t \in CellColumns /\ b \in Nat /\ t \in Nat /\ t \in 0 .. log3B
      /\ b = i_outer * ALPHA + i_inner /\ t = j_outer * BETA + j_inner
      /\ i_outer * ALPHA \in Nat /\ i_inner \in Nat /\ ALPHA \in Nat
      /\ MAX_2 \in Nat \ {0} /\ MAX_3 \in Nat \ {0}
  BY PositionFacts
<1>2. /\ log2B \in 0 .. MAX_2 - 2 /\ log3B \in 0 .. MAX_3 - 1
      /\ bBound[t] \in 0 .. log2B
      /\ bBound[t] + t <= MAX_2 - 2
      /\ \A f \in 0 .. t : bBound[t] <= bBound[f]
  <2>1. TypeOK /\ BoundsRight /\ Called /\ n \in Scalars
    BY PositionFacts DEF IndInv
  <2>2. QED
    BY <1>1, <2>1, CallFacts
<1>3. pc = "cells" /\ j_inner < BETA /\ i_inner < ALPHA
  BY DEF InCell
<1>4. b + t <= MAX_2 - 2
  BY <1>1, <1>2
<1>5. ASSUME b > 0 PROVE b - 1 \in CellRows /\ Filled(b - 1, t)
  <2>1. b - 1 \in CellRows /\ b - 1 < b /\ b - 1 <= bBound[t]
    BY <1>1, <1>2, <1>5 DEF CellRows
  <2>2. Inside(b - 1, t)
    BY <1>1, <2>1 DEF Inside
  <2>3. Passed(b - 1, t)
    BY <1>3, <2>1 DEF Passed
  <2>4. QED
    BY <2>1, <2>2, <2>3 DEF Filled
<1>6. ASSUME t > 0 PROVE t - 1 \in CellColumns /\ Filled(b, t - 1)
  <2>1. t - 1 \in CellColumns /\ t - 1 < t /\ t - 1 \in 0 .. t /\ t - 1 <= log3B
    BY <1>1, <1>2, <1>6 DEF CellColumns
  <2>2. b <= bBound[t - 1]
    <3>1. bBound[t] <= bBound[t - 1] /\ bBound[t - 1] \in 0 .. MAX_2
      <4>1. t - 1 \in 0 .. MAX_2 - 1
        <5>1. MAX_3 < MAX_2
          BY PositionFacts, ScalarFacts
        <5>2. QED
          BY <1>1, <1>2, <2>1, <5>1
      <4>2. QED
        BY <1>2, <2>1, <4>1 DEF IndInv, TypeOK
    <3>2. QED
      BY <1>1, <1>2, <3>1
  <2>3. Inside(b, t - 1)
    BY <2>1, <2>2 DEF Inside
  <2>4. b < i_outer * ALPHA + ALPHA
    BY <1>1, <1>3
  <2>5. Passed(b, t - 1)
    BY <1>3, <2>1, <2>4 DEF Passed
  <2>6. QED
    BY <2>1, <2>3, <2>5 DEF Filled
<1>7. QED
  BY <1>4, <1>5, <1>6

(* What the recurrences may take from a neighbouring cell: its chain, or   *)
(* its chain with a term more, where the values fit.                       *)
LEMMA FromNeighbour ==
  ASSUME IndInv, InCell, b <= bBound[t],
         NEW d, NEW e, (d = b - 1 /\ e = t) \/ (d = b /\ e = t - 1),
         NEW source \in Tables, NEW table \in Tables, NEW coef \in {-1, 1}
  PROVE  LET p == <<source, d, e>>
             x == Deref(p)
             y == add(x, p, d, e, coef)
         IN  /\ x \in Node /\ y \in Node
             /\ (d >= 0 /\ e >= 0 => CellValue(source, d, e) = CellValue(table, b, t))
                => CellRight(x, table, b, t)
             /\ (d >= 0 /\ e >= 0 =>
                   /\ CellValue(source, d, e) + coef * Pow23(d, e) = CellValue(table, b, t)
                   /\ source = "w" => Pow23(d, e) <= n)
                => CellRight(y, table, b, t)
<1> DEFINE p == <<source, d, e>>
           x == Deref(p)
           y == add(x, p, d, e, coef)
<1>1. /\ b \in CellRows /\ t \in CellColumns /\ b \in Nat /\ t \in Nat
      /\ MAX_2 \in Nat \ {0} /\ MAX_3 \in Nat \ {0} /\ Called
  BY PositionFacts
<1>2. d \in Int /\ e \in Int /\ d <= b /\ e <= t /\ d + e + 1 = b + t
  BY <1>1
<1>3. b + t <= MAX_2 - 2
  BY NeighbourFilled
<1>4. TypeOK /\ CellsRight /\ Borders
  BY <1>1 DEF IndInv
<1>5. CASE d >= 0 /\ e >= 0
  <2>1. d \in CellRows /\ e \in CellColumns /\ Filled(d, e)
    <3>1. CASE d = b - 1 /\ e = t
      <4>1. b > 0
        BY <1>1, <1>5, <3>1
      <4>2. QED
        BY <1>1, <3>1, <4>1, NeighbourFilled
    <3>2. CASE d = b /\ e = t - 1
      <4>1. t > 0
        BY <1>1, <1>5, <3>2
      <4>2. QED
        BY <1>1, <3>2, <4>1, NeighbourFilled
    <3>3. QED
      BY <3>1, <3>2
  <2>2. x \in Node /\ x = (IF source = "w" THEN w[<<d, e>>] ELSE w_[<<d, e>>])
    BY <1>4, <2>1, CellNodes
  <2>3. CellRight(x, source, d, e)
    BY <1>4, <2>1, <2>2 DEF CellsRight, Tables
  <2>4. d + e < MAX_2
    BY <1>1, <1>2, <1>3
  <2>5. ASSUME CellValue(source, d, e) = CellValue(table, b, t)
        PROVE  CellRight(x, table, b, t)
    <3> HIDE DEF x
    <3>1. QED
      BY <1>1, <1>2, <2>2, <2>3, <2>5, CopyRight
  <2>6. y \in Node
    <3>1. CASE x.isNULL
      BY <2>2, <3>1 DEF add
    <3>2. CASE ~x.isNULL
      <4>1. x.length <= d + e
        BY <2>3, <3>2 DEF CellRight, Null
      <4>2. x.length < MAX_2
        <5>1. x.length \in Nat
          BY <2>2 DEF Node
        <5>2. QED
          BY <1>1, <1>2, <2>4, <4>1, <5>1
      <4> HIDE DEF x
      <4>3. QED
        BY <2>1, <2>2, <3>2, <4>2, AddFacts
    <3>3. QED
      BY <3>1, <3>2
  <2>7. ASSUME CellValue(source, d, e) + coef * Pow23(d, e) = CellValue(table, b, t),
               source = "w" => Pow23(d, e) <= n
        PROVE  CellRight(y, table, b, t)
    <3> DEFINE v == CellValue(table, b, t)
    <3>1. v = CellValue(source, d, e) + coef * Pow23(d, e)
      BY <2>7
    <3>2. x = Deref(<<source, d, e>>)
      OBVIOUS
    <3> HIDE DEF v, x
    <3>3. Null(y) \/ (Leads(y, v, b, t) /\ y.length <= d + e + 1)
      BY <1>1, <1>2, <1>4, <2>1, <2>2, <2>3, <2>4, <2>7, <3>1, <3>2, AddRight
    <3>4. Null(y) \/ (Leads(y, v, b, t) /\ y.length <= b + t)
      BY <1>2, <3>3
    <3>5. QED
      BY <3>4 DEF CellRight, v
  <2>8. QED
    BY <1>5, <2>2, <2>5, <2>6, <2>7
<1>6. CASE ~(d >= 0 /\ e >= 0)
  <2>1. d \in Rows /\ e \in Columns /\ (d = -1 \/ e = -1)
    BY <1>1, <1>2, <1>6 DEF Rows, Columns, CellRows, CellColumns
  <2>2. Null(w[<<d, e>>]) /\ Null(w_[<<d, e>>])
    BY <1>4, <2>1 DEF Borders
  <2>3. x = w[<<d, e>>] \/ x = w_[<<d, e>>]
    BY DEF Deref
  <2>4. Null(x) /\ x \in Node
    BY <1>4, <2>1, <2>2, <2>3, CellNodes
  <2>5. y = x
    BY <2>4 DEF add, Null
  <2>6. QED
    BY <2>4, <2>5 DEF CellRight
<1>7. QED
  BY <1>5, <1>6

-----------------------------------------------------------------------------
(* The residue of the cell in work by its sixth, and those of the cells    *)
(* with half and a third of its modulus.                                   *)
LEMMA ResidueFacts ==
  ASSUME IndInv, InCell
  PROVE  LET m == Pow23(b, t)
             r == n % m
             h == Pow23(b - 1, t)
             g == Pow23(b, t - 1)
         IN  /\ m \in Nat \ {0} /\ r \in Nat /\ r < m /\ r <= n
             /\ quot \in 0 .. 5 /\ quot * m <= 6 * r /\ 6 * r < quot * m + m
             /\ CellValue("w", b, t) = r /\ CellValue("w_", b, t) = r - m
             /\ b > 0 => /\ h \in Nat \ {0} /\ m = 2 * h
                         /\ CellValue("w", b - 1, t) = (IF r < h THEN r ELSE r - h)
                         /\ CellValue("w_", b - 1, t) = (IF r < h THEN r - h ELSE r - 2 * h)
             /\ t > 0 => /\ g \in Nat \ {0} /\ m = 3 * g
                         /\ CellValue("w", b, t - 1) =
                              (IF r < g THEN r ELSE IF r < 2 * g THEN r - g ELSE r - 2 * g)
                         /\ CellValue("w_", b, t - 1) =
                              (IF r < g THEN r - g ELSE IF r < 2 * g THEN r - 2 * g ELSE r - 3 * g)
<1> DEFINE m == Pow23(b, t)
           r == n % m
           h == Pow23(b - 1, t)
           g == Pow23(b, t - 1)
<1>1. b \in Nat /\ t \in Nat /\ n \in Nat
  BY PositionFacts
<1>2. quot = (six_n \div m) % 6
  <2>1. BlocksRight /\ {i_outer, j_outer, i_inner, j_inner} \subseteq Nat
    BY DEF IndInv, TypeOK
  <2>2. SixthExact
    BY <1>1, <2>1, SixthOfCell
  <2>3. QED
    BY <2>2 DEF SixthExact, InCell
<1>3. m \in Nat \ {0}
  BY <1>1, PowerSteps
<1>4. quot \in 0 .. 5 /\ quot * m <= 6 * r /\ 6 * r < quot * m + m
  <2> HIDE DEF m
  <2>1. QED
    BY <1>1, <1>2, <1>3, Sixths DEF six_n
<1>5. r \in Nat /\ r < m /\ r <= n
  <2> HIDE DEF m
  <2>1. n = m * (n \div m) + r /\ n \div m \in Nat /\ r \in 0 .. m - 1
    BY <1>1, <1>3
  <2> DEFINE k == n \div m
  <2>2. m * k \in Nat
    BY <1>3, <2>1
  <2> HIDE DEF r, k
  <2>3. n = m * k + r
    BY <2>1 DEF k
  <2>4. QED
    BY <1>3, <2>1, <2>2, <2>3
<1>6. CellValue("w", b, t) = r /\ CellValue("w_", b, t) = r - m
  <2>1. CellValue("w", b, t) = r - 0 /\ CellValue("w_", b, t) = r - m
    BY DEF CellValue
  <2>2. QED
    BY <1>5, <2>1
<1>7. ASSUME b > 0
      PROVE  /\ h \in Nat \ {0} /\ m = 2 * h
             /\ CellValue("w", b - 1, t) = (IF r < h THEN r ELSE r - h)
             /\ CellValue("w_", b - 1, t) = (IF r < h THEN r - h ELSE r - 2 * h)
  <2> DEFINE k == b - 1
  <2>1. k \in Nat /\ k + 1 = b
    BY <1>1, <1>7
  <2>2. h \in Nat \ {0} /\ m = 2 * h
    <3> HIDE DEF k
    <3>1. Pow23(k, t) \in Nat \ {0} /\ Pow23(k + 1, t) = 2 * Pow23(k, t)
      BY <1>1, <2>1, PowerSteps
    <3>2. QED
      BY <2>1, <3>1 DEF k
  <2>3. n % h = IF r < h THEN r ELSE r - h
    <3> HIDE DEF h, m
    <3>1. LET s == n % (2 * h) IN n % h = IF s < h THEN s ELSE s - h
      BY <1>1, <2>2, HalfRemainder
    <3>2. QED
      BY <2>2, <3>1
  <2>4. CellValue("w", b - 1, t) = (n % h) - 0 /\ CellValue("w_", b - 1, t) = (n % h) - h
    BY DEF CellValue
  <2> HIDE DEF h, m, r
  <2>5. QED
    BY <1>5, <2>2, <2>3, <2>4
<1>8. ASSUME t > 0
      PROVE  /\ g \in Nat \ {0} /\ m = 3 * g
             /\ CellValue("w", b, t - 1) =
                  (IF r < g THEN r ELSE IF r < 2 * g THEN r - g ELSE r - 2 * g)
             /\ CellValue("w_", b, t - 1) =
                  (IF r < g THEN r - g ELSE IF r < 2 * g THEN r - 2 * g ELSE r - 3 * g)
  <2> DEFINE k == t - 1
  <2>1. k \in Nat /\ k + 1 = t
    BY <1>1, <1>8
  <2>2. g \in Nat \ {0} /\ m = 3 * g
    <3> HIDE DEF k
    <3>1. Pow23(b, k) \in Nat \ {0} /\ Pow23(b, k + 1) = 3 * Pow23(b, k)
      BY <1>1, <2>1, PowerSteps
    <3>2. QED
      BY <2>1, <3>1 DEF k
  <2>3. n % g = IF r < g THEN r ELSE IF r < 2 * g THEN r - g ELSE r - 2 * g
    <3> HIDE DEF g, m
    <3>1. LET s == n % (3 * g)
          IN  n % g = IF s < g THEN s ELSE IF s < 2 * g THEN s - g ELSE s - 2 * g
      BY <1>1, <2>2, ThirdRemainder
    <3>2. QED
      BY <2>2, <3>1
  <2>4. CellValue("w", b, t - 1) = (n % g) - 0 /\ CellValue("w_", b, t - 1) = (n % g) - g
    BY DEF CellValue
  <2> HIDE DEF g, m, r
  <2>5. QED
    BY <1>5, <2>2, <2>3, <2>4
<1>9. QED
  BY <1>3, <1>4, <1>5, <1>6, <1>7, <1>8

(* The recurrences: whatever the sixth, each cell that is copied or taken  *)
(* with a term more gives the residue, or the residue less the modulus.    *)
LEMMA ResidueRight ==
  ASSUME IndInv, InCell, b <= bBound[t]
  PROVE  Residue \in Node /\ CellRight(Residue, "w", b, t)
<1> DEFINE m == Pow23(b, t)
           r == n % m
           h == Pow23(b - 1, t)
           g == Pow23(b, t - 1)
           Half(coef, q)  == LET p == <<q, b - 1, t>> IN add(Deref(p), p, b - 1, t, coef)
           Third(coef, q) == LET p == <<q, b, t - 1>> IN add(Deref(p), p, b, t - 1, coef)
           Right(x) == x \in Node /\ CellRight(x, "w", b, t)
<1>1. b \in Nat /\ t \in Nat /\ n \in Nat
  BY PositionFacts
<1>2. /\ m \in Nat \ {0} /\ r \in Nat /\ r < m /\ r <= n
      /\ quot \in 0 .. 5 /\ quot * m <= 6 * r /\ 6 * r < quot * m + m
      /\ CellValue("w", b, t) = r
      /\ b > 0 => /\ h \in Nat \ {0} /\ m = 2 * h
                  /\ CellValue("w", b - 1, t) = (IF r < h THEN r ELSE r - h)
                  /\ CellValue("w_", b - 1, t) = (IF r < h THEN r - h ELSE r - 2 * h)
      /\ t > 0 => /\ g \in Nat \ {0} /\ m = 3 * g
                  /\ CellValue("w", b, t - 1) =
                       (IF r < g THEN r ELSE IF r < 2 * g THEN r - g ELSE r - 2 * g)
                  /\ CellValue("w_", b, t - 1) =
                       (IF r < g THEN r - g ELSE IF r < 2 * g THEN r - 2 * g ELSE r - 3 * g)
  BY ResidueFacts
<1>3. /\ (b - 1 >= 0 => b > 0) /\ (t - 1 >= 0 => t > 0)
      /\ "w" \in Tables /\ "w_" \in Tables /\ 1 \in {-1, 1} /\ -1 \in {-1, 1}
  BY <1>1 DEF Tables
<1>4. /\ ByHalf(1, 1) = Half(1, "w") /\ ByHalf(1, -1) = Half(1, "w_")
      /\ ByThird(1, 1) = Third(1, "w") /\ ByThird(1, -1) = Third(1, "w_")
  BY DEF ByHalf, ByThird, Table
<1>5. w[<<b - 1, t>>] = Deref(<<"w", b - 1, t>>) /\ w[<<b, t - 1>>] = Deref(<<"w", b, t - 1>>)
  BY DEF Deref
<1>6. ASSUME NEW q \in Tables
      PROVE  /\ (b > 0 => CellValue(q, b - 1, t) = r) => Right(Deref(<<q, b - 1, t>>))
             /\ (t > 0 => CellValue(q, b, t - 1) = r) => Right(Deref(<<q, b, t - 1>>))
             /\ (b > 0 => CellValue(q, b - 1, t) + h = r /\ (q = "w" => h <= n)) => Right(Half(1, q))
             /\ (t > 0 => CellValue(q, b, t - 1) + g = r /\ (q = "w" => g <= n)) => Right(Third(1, q))
  <2> DEFINE d == b - 1
             e == t - 1
             x == Deref(<<q, d, t>>)
             y == Deref(<<q, b, e>>)
  <2>1. /\ d >= 0 => b > 0
        /\ e >= 0 => t > 0
        /\ d = b - 1 /\ e = t - 1
    BY <1>3
  <2>2. /\ x \in Node /\ add(x, <<q, d, t>>, d, t, 1) \in Node
        /\ (d >= 0 /\ t >= 0 => CellValue(q, d, t) = CellValue("w", b, t)) => CellRight(x, "w", b, t)
        /\ (d >= 0 /\ t >= 0 => /\ CellValue(q, d, t) + 1 * Pow23(d, t) = CellValue("w", b, t)
                                /\ q = "w" => Pow23(d, t) <= n)
             => CellRight(add(x, <<q, d, t>>, d, t, 1), "w", b, t)
    BY <1>3, <2>1, FromNeighbour
  <2>3. /\ y \in Node /\ add(y, <<q, b, e>>, b, e, 1) \in Node
        /\ (b >= 0 /\ e >= 0 => CellValue(q, b, e) = CellValue("w", b, t)) => CellRight(y, "w", b, t)
        /\ (b >= 0 /\ e >= 0 => /\ CellValue(q, b, e) + 1 * Pow23(b, e) = CellValue("w", b, t)
                                /\ q = "w" => Pow23(b, e) <= n)
             => CellRight(add(y, <<q, b, e>>, b, e, 1), "w", b, t)
    BY <1>3, <2>1, FromNeighbour
  <2>4. (b > 0 => 1 * h = h /\ h = Pow23(d, t)) /\ (t > 0 => 1 * g = g /\ g = Pow23(b, e))
    BY <1>2, <2>1
  <2>5. r = CellValue("w", b, t)
    BY <1>2
  <2> HIDE DEF m, r, h, g, x, y
  <2>6. /\ (b > 0 => CellValue(q, b - 1, t) = r) => Right(x)
        /\ (t > 0 => CellValue(q, b, t - 1) = r) => Right(y)
        /\ (b > 0 => CellValue(q, b - 1, t) + h = r /\ (q = "w" => h <= n))
             => Right(add(x, <<q, d, t>>, d, t, 1))
        /\ (t > 0 => CellValue(q, b, t - 1) + g = r /\ (q = "w" => g <= n))
             => Right(add(y, <<q, b, e>>, b, e, 1))
    BY <2>1, <2>2, <2>3, <2>4, <2>5
  <2>7. QED
    BY <2>6 DEF x, y
<1> HIDE DEF Half, Third, Right, m, r, h, g
<1>7. CASE quot < 2
  <2>1. 3 * r < m
    BY <1>2, <1>7
  <2>2. Right(w[<<b - 1, t>>])
    BY <1>2, <1>3, <1>5, <1>6, <2>1
  <2>3. Right(w[<<b, t - 1>>])
    BY <1>2, <1>3, <1>5, <1>6, <2>1
  <2>4. Right(Third(1, "w_"))
    <3>1. t > 0 => CellValue("w_", b, t - 1) + g = r
      BY <1>1, <1>2, <2>1
    <3>2. QED
      BY <1>1, <1>2, <1>3, <1>6, <3>1
  <2>5. Residue \in {w[<<b - 1, t>>], w[<<b, t - 1>>], Third(1, "w_")}
    BY <1>4, <1>7, MinPicks DEF Residue
  <2>6. QED
    BY <2>2, <2>3, <2>4, <2>5 DEF Right
<1>8. CASE quot = 2
  <2>1. m <= 3 * r /\ 2 * r < m
    BY <1>2, <1>8
  <2>2. Right(w[<<b - 1, t>>])
    BY <1>2, <1>3, <1>5, <1>6, <2>1
  <2>3. Right(Half(1, "w_"))
    <3>1. b > 0 => CellValue("w_", b - 1, t) + h = r
      BY <1>1, <1>2, <2>1
    <3>2. QED
      BY <1>1, <1>2, <1>3, <1>6, <3>1
  <2>4. Right(Third(1, "w"))
    <3>1. t > 0 => CellValue("w", b, t - 1) + g = r /\ g <= r /\ g <= n
      BY <1>1, <1>2, <2>1
    <3>2. QED
      BY <1>1, <1>2, <1>3, <1>6, <3>1
  <2>5. Residue \in {w[<<b - 1, t>>], Half(1, "w_"), Third(1, "w")}
    BY <1>4, <1>8, MinPicks DEF Residue
  <2>6. QED
    BY <2>2, <2>3, <2>4, <2>5 DEF Right
<1>9. CASE quot > 2
  <2>1. m <= 2 * r
    <3>1. 3 * m <= quot * m
      <4>1. quot = 3 \/ quot = 4 \/ quot = 5
        BY <1>2, <1>9
      <4>2. QED
        BY <1>2, <4>1
    <3>2. quot * m \in Nat
      BY <1>2
    <3>3. QED
      BY <1>2, <3>1, <3>2
  <2>2. Right(Half(1, "w"))
    <3>1. b > 0 => CellValue("w", b - 1, t) + h = r /\ h <= r /\ h <= n
      BY <1>1, <1>2, <2>1
    <3>2. QED
      BY <1>1, <1>2, <1>3, <1>6, <3>1
  <2>3. Residue = Half(1, "w")
    BY <1>2, <1>4, <1>9 DEF Residue
  <2>4. QED
    BY <2>2, <2>3 DEF Right
<1>10. QED
  BY <1>2, <1>7, <1>8, <1>9

(* What lines 58-73 put into w_ leads a chain of the residue less the      *)
(* cell's power.                                                           *)
LEMMA ComplementRight ==
  ASSUME IndInv, InCell, b <= bBound[t]
  PROVE  Complement \in Node /\ CellRight(Complement, "w_", b, t)
<1> DEFINE m == Pow23(b, t)
           r == n % m
           h == Pow23(b - 1, t)
           g == Pow23(b, t - 1)
           Half(coef, q)  == LET p == <<q, b - 1, t>> IN add(Deref(p), p, b - 1, t, coef)
           Third(coef, q) == LET p == <<q, b, t - 1>> IN add(Deref(p), p, b, t - 1, coef)
           Right(x) == x \in Node /\ CellRight(x, "w_", b, t)
<1>1. b \in Nat /\ t \in Nat /\ n \in Nat
  BY PositionFacts
<1>2. /\ m \in Nat \ {0} /\ r \in Nat /\ r < m /\ r <= n
      /\ quot \in 0 .. 5 /\ quot * m <= 6 * r /\ 6 * r < quot * m + m
      /\ CellValue("w_", b, t) = r - m
      /\ b > 0 => /\ h \in Nat \ {0} /\ m = 2 * h
                  /\ CellValue("w", b - 1, t) = (IF r < h THEN r ELSE r - h)
                  /\ CellValue("w_", b - 1, t) = (IF r < h THEN r - h ELSE r - 2 * h)
      /\ t > 0 => /\ g \in Nat \ {0} /\ m = 3 * g
                  /\ CellValue("w", b, t - 1) =
                       (IF r < g THEN r ELSE IF r < 2 * g THEN r - g ELSE r - 2 * g)
                  /\ CellValue("w_", b, t - 1) =
                       (IF r < g THEN r - g ELSE IF r < 2 * g THEN r - 2 * g ELSE r - 3 * g)
  BY ResidueFacts
<1>3. /\ (b - 1 >= 0 => b > 0) /\ (t - 1 >= 0 => t > 0)
      /\ "w" \in Tables /\ "w_" \in Tables /\ 1 \in {-1, 1} /\ -1 \in {-1, 1}
  BY <1>1 DEF Tables
<1>4. /\ ByHalf(-1, 1) = Half(-1, "w") /\ ByHalf(-1, -1) = Half(-1, "w_")
      /\ ByThird(-1, 1) = Third(-1, "w") /\ ByThird(-1, -1) = Third(-1, "w_")
  BY DEF ByHalf, ByThird, Table
<1>5. w_[<<b - 1, t>>] = Deref(<<"w_", b - 1, t>>) /\ w_[<<b, t - 1>>] = Deref(<<"w_", b, t - 1>>)
  BY DEF Deref
<1>6. ASSUME NEW q \in Tables
      PROVE  /\ (b > 0 => CellValue(q, b - 1, t) = r - m) => Right(Deref(<<q, b - 1, t>>))
             /\ (t > 0 => CellValue(q, b, t - 1) = r - m) => Right(Deref(<<q, b, t - 1>>))
             /\ (b > 0 => CellValue(q, b - 1, t) - h = r - m /\ (q = "w" => h <= n)) => Right(Half(-1, q))
             /\ (t > 0 => CellValue(q, b, t - 1) - g = r - m /\ (q = "w" => g <= n)) => Right(Third(-1, q))
  <2> DEFINE d == b - 1
             e == t - 1
             x == Deref(<<q, d, t>>)
             y == Deref(<<q, b, e>>)
  <2>1. /\ d >= 0 => b > 0
        /\ e >= 0 => t > 0
        /\ d = b - 1 /\ e = t - 1
    BY <1>3
  <2>2. /\ x \in Node /\ add(x, <<q, d, t>>, d, t, -1) \in Node
        /\ (d >= 0 /\ t >= 0 => CellValue(q, d, t) = CellValue("w_", b, t)) => CellRight(x, "w_", b, t)
        /\ (d >= 0 /\ t >= 0 => /\ CellValue(q, d, t) + (-1) * Pow23(d, t) = CellValue("w_", b, t)
                                /\ q = "w" => Pow23(d, t) <= n)
             => CellRight(add(x, <<q, d, t>>, d, t, -1), "w_", b, t)
    BY <1>3, <2>1, FromNeighbour
  <2>3. /\ y \in Node /\ add(y, <<q, b, e>>, b, e, -1) \in Node
        /\ (b >= 0 /\ e >= 0 => CellValue(q, b, e) = CellValue("w_", b, t)) => CellRight(y, "w_", b, t)
        /\ (b >= 0 /\ e >= 0 => /\ CellValue(q, b, e) + (-1) * Pow23(b, e) = CellValue("w_", b, t)
                                /\ q = "w" => Pow23(b, e) <= n)
             => CellRight(add(y, <<q, b, e>>, b, e, -1), "w_", b, t)
    BY <1>3, <2>1, FromNeighbour
  <2>4. (b > 0 => (-1) * h = -h /\ h = Pow23(d, t)) /\ (t > 0 => (-1) * g = -g /\ g = Pow23(b, e))
    BY <1>2, <2>1
  <2>5. r - m = CellValue("w_", b, t)
    BY <1>2
  <2> HIDE DEF m, r, h, g, x, y
  <2>6. /\ (b > 0 => CellValue(q, b - 1, t) = r - m) => Right(x)
        /\ (t > 0 => CellValue(q, b, t - 1) = r - m) => Right(y)
        /\ (b > 0 => CellValue(q, b - 1, t) - h = r - m /\ (q = "w" => h <= n))
             => Right(add(x, <<q, d, t>>, d, t, -1))
        /\ (t > 0 => CellValue(q, b, t - 1) - g = r - m /\ (q = "w" => g <= n))
             => Right(add(y, <<q, b, e>>, b, e, -1))
    BY <2>1, <2>2, <2>3, <2>4, <2>5
  <2>7. QED
    BY <2>6 DEF x, y
<1> HIDE DEF Half, Third, Right, m, r, h, g
<1>7. CASE quot < 3
  <2>1. 2 * r < m
    BY <1>2, <1>7
  <2>2. Right(Half(-1, "w_"))
    <3>1. b > 0 => CellValue("w_", b - 1, t) - h = r - m
      BY <1>1, <1>2, <2>1
    <3>2. QED
      BY <1>1, <1>2, <1>3, <1>6, <3>1
  <2>3. Complement = Half(-1, "w_")
    BY <1>4, <1>7 DEF Complement
  <2>4. QED
    BY <2>2, <2>3 DEF Right
<1>8. CASE quot = 3
  <2>1. m <= 2 * r /\ 3 * r < 2 * m
    BY <1>2, <1>8
  <2>2. Right(w_[<<b - 1, t>>])
    BY <1>2, <1>3, <1>5, <1>6, <2>1
  <2>3. Right(Half(-1, "w"))
    <3>1. b > 0 => CellValue("w", b - 1, t) - h = r - m /\ h <= r /\ h <= n
      BY <1>1, <1>2, <2>1
    <3>2. QED
      BY <1>1, <1>2, <1>3, <1>6, <3>1
  <2>4. Right(Third(-1, "w_"))
    <3>1. t > 0 => CellValue("w_", b, t - 1) - g = r - m
      BY <1>1, <1>2, <2>1
    <3>2. QED
      BY <1>1, <1>2, <1>3, <1>6, <3>1
  <2>5. Complement \in {w_[<<b - 1, t>>], Half(-1, "w"), Third(-1, "w_")}
    BY <1>4, <1>8, MinPicks DEF Complement
  <2>6. QED
    BY <2>2, <2>3, <2>4, <2>5 DEF Right
<1>9. CASE quot > 3
  <2>1. 2 * m <= 3 * r
    <3>1. 4 * m <= quot * m
      <4>1. quot = 4 \/ quot = 5
        BY <1>2, <1>9
      <4>2. QED
        BY <1>2, <4>1
    <3>2. quot * m \in Nat
      BY <1>2
    <3>3. QED
      BY <1>2, <3>1, <3>2
  <2>2. Right(w_[<<b - 1, t>>])
    BY <1>2, <1>3, <1>5, <1>6, <2>1
  <2>3. Right(w_[<<b, t - 1>>])
    BY <1>2, <1>3, <1>5, <1>6, <2>1
  <2>4. Right(Third(-1, "w"))
    <3>1. t > 0 => CellValue("w", b, t - 1) - g = r - m /\ g <= r /\ g <= n
      BY <1>1, <1>2, <2>1
    <3>2. QED
      BY <1>1, <1>2, <1>3, <1>6, <3>1
  <2>5. Complement \in {w_[<<b - 1, t>>], w_[<<b, t - 1>>], Third(-1, "w")}
    BY <1>2, <1>4, <1>9, MinPicks DEF Complement
  <2>6. QED
    BY <2>2, <2>3, <2>4, <2>5 DEF Right
<1>10. QED
  BY <1>2, <1>7, <1>8, <1>9

-----------------------------------------------------------------------------
(* Cell fills the cell in work, which was not filled before, and leaves    *)
(* the other ones alone.                                                   *)
LEMMA CellFilled ==
  ASSUME IndInv, Cell
  PROVE  /\ InCell /\ Kept
         /\ \A d \in CellRows, e \in CellColumns :
              Filled(d, e)' <=> (Filled(d, e) \/ (d = b /\ e = t /\ b <= bBound[t]))
         /\ \A d \in Rows, e \in Columns :
              d # b \/ e # t => w'[<<d, e>>] = w[<<d, e>>] /\ w_'[<<d, e>>] = w_[<<d, e>>]
<1>1. /\ InCell /\ n' = n /\ bBound' = bBound /\ pc' = "cells"
      /\ i_inner' = i_inner + 1
      /\ i_outer' = i_outer /\ j_outer' = j_outer /\ j_inner' = j_inner
  BY DEF Cell, InCell
<1>2. /\ b \in CellRows /\ t \in CellColumns /\ b \in Nat /\ t \in Nat /\ t \in 0 .. log3B
      /\ b = i_outer * ALPHA + i_inner /\ t = j_outer * BETA + j_inner
      /\ i_outer * ALPHA \in Nat /\ j_outer * BETA \in Nat
      /\ i_inner \in Nat /\ j_inner \in Nat /\ ALPHA \in Nat /\ BETA \in Nat
      /\ MAX_2 \in Nat \ {0} /\ MAX_3 \in Nat \ {0}
  BY <1>1, PositionFacts
<1>3. pc = "cells" /\ j_inner < BETA /\ i_inner < ALPHA
  BY <1>1 DEF InCell
<1>4. \A d, e : Inside(d, e)' <=> Inside(d, e)
  BY <1>1 DEF Inside, log3B, B
<1>5. t' = t /\ b' = b + 1
  <2>1. t' = t
    BY <1>1 DEF t
  <2>2. b' = i_outer * ALPHA + (i_inner + 1)
    BY <1>1 DEF b
  <2>3. QED
    BY <1>2, <2>1, <2>2
<1>6. ASSUME NEW d \in CellRows, NEW e \in CellColumns
      PROVE  Passed(d, e)' <=> (Passed(d, e) \/ (d = b /\ e = t))
  <2>1. d \in Nat /\ e \in Nat
    BY DEF CellRows, CellColumns
  <2>2. d < b + 1 <=> (d < b \/ d = b)
    BY <1>2, <2>1
  <2>3. Passed(d, e)' <=> (\/ e < j_outer * BETA
                           \/ e < j_outer * BETA + BETA /\ d < i_outer * ALPHA
                           \/ e < t /\ d < i_outer * ALPHA + ALPHA
                           \/ e = t /\ j_inner < BETA /\ d < b + 1)
    BY <1>1, <1>5 DEF Passed
  <2>4. Passed(d, e) <=> (\/ e < j_outer * BETA
                          \/ e < j_outer * BETA + BETA /\ d < i_outer * ALPHA
                          \/ e < t /\ d < i_outer * ALPHA + ALPHA
                          \/ e = t /\ j_inner < BETA /\ d < b)
    BY <1>3 DEF Passed
  <2>5. QED
    BY <1>3, <2>2, <2>3, <2>4
<1>7. ASSUME NEW d \in CellRows, NEW e \in CellColumns
      PROVE  Filled(d, e)' <=> (Filled(d, e) \/ (d = b /\ e = t /\ b <= bBound[t]))
  <2>1. d = b /\ e = t => (Inside(d, e) <=> b <= bBound[t])
    BY <1>1 DEF Inside, InCell
  <2>2. QED
    BY <1>4, <1>6, <2>1 DEF Filled
<1>8. ASSUME NEW d \in Rows, NEW e \in Columns, d # b \/ e # t
      PROVE  w'[<<d, e>>] = w[<<d, e>>] /\ w_'[<<d, e>>] = w_[<<d, e>>]
  <2>1. w \in [Rows \X Columns -> Node] /\ w_ \in [Rows \X Columns -> Node]
    BY DEF IndInv, TypeOK
  <2>2. \/ w' = [w EXCEPT ![<<b, t>>] = Residue] /\ w_' = [w_ EXCEPT ![<<b, t>>] = Complement]
        \/ w' = w /\ w_' = w_
    BY DEF Cell
  <2>3. <<d, e>> # <<b, t>> /\ <<d, e>> \in Rows \X Columns
    BY <1>8
  <2>4. QED
    BY <2>1, <2>2, <2>3
<1>9. b + t > 0 => ~Filled(b, t)
  <2>1. ~Passed(b, t)
    BY <1>2, <1>3 DEF Passed
  <2>2. QED
    BY <1>2, <2>1 DEF Filled
<1>10. ASSUME NEW d \in CellRows, NEW e \in CellColumns, Filled(d, e)
       PROVE  w'[<<d, e>>] = w[<<d, e>>] /\ w_'[<<d, e>>] = w_[<<d, e>>]
  <2>1. d \in Rows /\ e \in Columns
    BY DEF CellRows, CellColumns, Rows, Columns
  <2>2. CASE b + t > 0
    BY <1>8, <1>9, <1>10, <2>1, <2>2
  <2>3. CASE ~(b + t > 0)
    BY <2>3 DEF Cell
  <2>4. QED
    BY <2>2, <2>3
<1>11. Kept
  BY <1>1, <1>7, <1>10 DEF Kept
<1>12. QED
  BY <1>1, <1>7, <1>8, <1>11

(* Lines 52-75 fill one cell rightly and disturb no other.                 *)
LEMMA CellTables ==
  ASSUME IndInv, Cell
  PROVE  /\ w' \in [Rows \X Columns -> Node] /\ w_' \in [Rows \X Columns -> Node]
         /\ CellsRight' /\ Borders'
<1>1. /\ InCell /\ Kept
      /\ \A d \in CellRows, e \in CellColumns :
           Filled(d, e)' <=> (Filled(d, e) \/ (d = b /\ e = t /\ b <= bBound[t]))
      /\ \A d \in Rows, e \in Columns :
           d # b \/ e # t => w'[<<d, e>>] = w[<<d, e>>] /\ w_'[<<d, e>>] = w_[<<d, e>>]
  BY CellFilled
<1>2. /\ b \in CellRows /\ t \in CellColumns /\ b \in Nat /\ t \in Nat /\ Called
      /\ MAX_2 \in Nat \ {0} /\ MAX_3 \in Nat \ {0}
  BY <1>1, PositionFacts
<1>3. b \in Rows /\ t \in Columns
  BY <1>2 DEF CellRows, CellColumns, Rows, Columns
<1>4. /\ TypeOK /\ CellsRight /\ Borders
      /\ w \in [Rows \X Columns -> Node] /\ w_ \in [Rows \X Columns -> Node]
  BY <1>2 DEF IndInv, TypeOK
<1>5. CASE b + t > 0 /\ b <= bBound[t]
  <2>1. /\ w' = [w EXCEPT ![<<b, t>>] = Residue]
        /\ w_' = [w_ EXCEPT ![<<b, t>>] = Complement]
    BY <1>5 DEF Cell
  <2>2. /\ Residue \in Node /\ CellRight(Residue, "w", b, t)
        /\ Complement \in Node /\ CellRight(Complement, "w_", b, t)
    BY <1>1, <1>5, ResidueRight, ComplementRight
  <2>3. w' \in [Rows \X Columns -> Node] /\ w_' \in [Rows \X Columns -> Node]
    BY <1>4, <2>1, <2>2
  <2>4. w'[<<b, t>>] = Residue /\ w_'[<<b, t>>] = Complement
    <3>1. <<b, t>> \in Rows \X Columns
      BY <1>3
    <3>2. QED
      BY <1>4, <2>1, <3>1
  <2>5. ASSUME NEW d \in CellRows, NEW e \in CellColumns, Filled(d, e)'
        PROVE  /\ CellRight(w[<<d, e>>], "w", d, e)'
               /\ CellRight(w_[<<d, e>>], "w_", d, e)'
    <3>1. CASE d = b /\ e = t
      <4>1. /\ CellRight(w'[<<d, e>>], "w", d, e)
            /\ CellRight(w_'[<<d, e>>], "w_", d, e)
        BY <2>2, <2>4, <3>1
      <4>2. QED
        BY <1>1, <1>4, <4>1, KeptRight
    <3>2. CASE ~(d = b /\ e = t)
      <4>1. Filled(d, e)
        BY <1>1, <2>5, <3>2
      <4>2. /\ CellRight(w'[<<d, e>>], "w", d, e)
            /\ CellRight(w_'[<<d, e>>], "w_", d, e)
        BY <1>1, <1>4, <4>1 DEF CellsRight, Kept
      <4>3. QED
        BY <1>1, <1>4, <4>2, KeptRight
    <3>3. QED
      BY <3>1, <3>2
  <2>6. CellsRight'
    BY <2>5 DEF CellsRight
  <2>7. Borders'
    <3>1. \A d \in Rows, e \in Columns : d = -1 \/ e = -1 \/ (d = 0 /\ e = 0) => d # b \/ e # t
      BY <1>2, <1>5
    <3>2. -1 \in Rows /\ -1 \in Columns /\ 0 \in Rows /\ 0 \in Columns
      BY <1>2 DEF Rows, Columns
    <3>3. QED
      BY <1>1, <1>4, <3>1, <3>2 DEF Borders, Null
  <2>8. QED
    BY <2>3, <2>6, <2>7
<1>6. CASE ~(b + t > 0 /\ b <= bBound[t])
  <2>1. w' = w /\ w_' = w_
    BY <1>6 DEF Cell
  <2>2. \A d \in CellRows, e \in CellColumns : Filled(d, e)' => Filled(d, e)
    <3>1. Filled(0, 0)
      BY DEF Filled
    <3>2. b <= bBound[t] => b = 0 /\ t = 0
      BY <1>2, <1>6
    <3>3. QED
      BY <1>1, <3>1, <3>2
  <2>3. CellsRight'
    BY <1>1, <1>4, <2>2, KeptCells
  <2>4. QED
    BY <1>4, <2>1, <2>3 DEF Borders, Null
<1>7. QED
  BY <1>5, <1>6

-----------------------------------------------------------------------------
(* On the boundary the chain of n that the cell gives competes with the    *)
(* best one so far, and both lead chains of n.                             *)
LEMMA BestKept ==
  ASSUME IndInv, pc \in {"columns", "rows", "cells"}, Kept, w_min' = w_min,
         now_DBC' = now_DBC
  PROVE  BestRight'
<1>1. TypeOK /\ BestRight /\ n' = n
  BY DEF IndInv, Kept
<1>2. /\ w_min.length >= 1 /\ getV(w_min) <= Infinite
      /\ IF w_min.isBasic THEN BinaryRight ELSE Leads(w_min, n, MAX_2, MAX_3)
  BY <1>1 DEF BestRight
<1>3. CASE w_min.isBasic
  <2>1. BinaryRight'
    BY <1>1, <1>2, <1>3 DEF BinaryRight
  <2>2. QED
    BY <1>2, <1>3, <2>1 DEF BestRight, getV
<1>4. CASE ~w_min.isBasic
  <2>1. PICK x, m : x = w_min /\ m = n
    OBVIOUS
  <2>2. Leads(x, m, MAX_2, MAX_3)'
    BY <1>1, <1>2, <1>4, <2>1, KeptLeads
  <2>3. Leads(w_min, n, MAX_2, MAX_3)'
    BY <1>1, <2>1, <2>2
  <2>4. QED
    BY <1>2, <1>4, <2>3 DEF BestRight, getV
<1>5. QED
  BY <1>3, <1>4

(* A chain that is not basic costs less than Infinite.                     *)
LEMMA TermsCheap ==
  ASSUME NEW x \in Node, ~x.isNULL, ~x.isBasic, x.length >= 1,
         x.dbl \in CellRows, x.tpl \in CellColumns
  PROVE  x.length \in 1 .. MAX_2 /\ getV(x) \in Nat /\ getV(x) <= Infinite
<1>1. MAX_2 \in Nat \ {0} /\ MAX_3 \in Nat \ {0} /\ BETA \in Nat \ {0} /\ MAX_3 + BETA <= MAX_2
      /\ 346 * MAX_2 < Infinite /\ Infinite \in Nat
  BY MaxAssumption, OptimalAssumption DEF ADD_COST, DBL_COST, TPL_COST, Infinite
<1>3. /\ x.length \in 1 .. MAX_2
      /\ x.dbl \in 0 .. MAX_2 - 1 /\ x.tpl \in 0 .. MAX_3 - 1
  BY <1>1 DEF Node, CellRows, CellColumns
<1>4. getV(x) = 70 * x.dbl + 126 * x.tpl + 150 * (x.length - 1)
  BY <1>3 DEF getV, DBL_COST, TPL_COST, ADD_COST
<1> DEFINE y == x.dbl
           z == x.tpl
           l == x.length
<1>5. y \in Nat /\ z \in Nat /\ l - 1 \in Nat /\ y < MAX_2 /\ z < MAX_2 /\ l - 1 < MAX_2
  BY <1>1, <1>3
<1>6. 70 * y + 126 * z + 150 * (l - 1) \in Nat /\ 70 * y + 126 * z + 150 * (l - 1) <= Infinite
  <2> HIDE DEF y, z, l
  <2>1. QED
    BY <1>1, <1>5
<1>7. QED
  BY <1>3, <1>4, <1>6

(* A candidate that is chosen costs less than the chain it replaces, so it *)
(* is not NULL.                                                            *)
LEMMA CheaperWins ==
  ASSUME NEW x \in Node, NEW y \in Node, NEW q \in Node, getV(q) <= Infinite
  PROVE  /\ minV2(x, q) = q \/ (minV2(x, q) = x /\ ~Null(x))
         /\ \/ minV3(x, y, q) = q
            \/ minV3(x, y, q) = x /\ ~Null(x)
            \/ minV3(x, y, q) = y /\ ~Null(y)
<1>1. \A z : Null(z) => getV(z) = Infinite
  BY DEF getV, Null
<1>2. getV(q) \in Int /\ Infinite \in Int
  BY DEF getV, Node, Infinite, DBL_COST, TPL_COST, ADD_COST
<1>3. \A z : Null(z) => minV2(z, q) = q
  BY <1>1, <1>2 DEF minV2
<1>4. \A z : minV2(z, q) = q \/ (minV2(z, q) = z /\ ~Null(z))
  BY <1>3 DEF minV2
<1>5. QED
  BY <1>4 DEF minV3

(* A term added to the cell just filled.                                   *)
LEMMA AddToFilled ==
  ASSUME n' \in Nat, NEW table \in Tables, NEW d \in CellRows, NEW e \in CellColumns,
         NEW x \in Node, x = Deref(<<table, d, e>>)',
         Filled(d, e)', CellRight(x, table, d, e)', d + e < MAX_2,
         table = "w" => Pow23(d, e) <= n',
         CellValue(table, d, e)' + Pow23(d, e) = n'
  PROVE  LET y == add(x, <<table, d, e>>, d, e, 1) IN
         /\ y \in Node
         /\ Null(y) \/ (Leads(y, n, MAX_2, MAX_3)' /\ ~y.isBasic)
<1> DEFINE p == <<table, d, e>>
           y == add(x, p, d, e, 1)
<1>1. /\ MAX_2 \in Nat \ {0} /\ d \in Nat /\ e \in Nat /\ d <= MAX_2 /\ e <= MAX_3
      /\ Pow23(d, e) \in Nat
  <2>1. MAX_2 \in Nat \ {0} /\ MAX_3 \in Nat \ {0} /\ d \in Nat /\ e \in Nat /\ d <= MAX_2 /\ e <= MAX_3
    BY MaxAssumption, OptimalAssumption DEF CellRows, CellColumns
  <2>2. QED
    BY <2>1, PowerSteps
<1>2. CASE x.isNULL
  <2>1. y = x
    BY <1>2 DEF add
  <2>2. Null(x)
    BY <1>2 DEF CellRight, Leads, Linked, ZeroNode, NullNode, Null
  <2>3. QED
    BY <2>1, <2>2
<1>3. CASE ~x.isNULL
  <2>1. x.length <= d + e
    BY <1>3 DEF CellRight, Null
  <2>2. x.length < MAX_2 /\ x.length \in Nat
    <3>1. x.length \in Nat
      BY DEF Node
    <3>2. QED
      BY <1>1, <2>1, <3>1
  <2>3. /\ y \in Node /\ ~y.isNULL /\ ~y.isBasic
        /\ y.length = x.length + 1 /\ y.dbl = d /\ y.tpl = e /\ y.parent = p
        /\ NodeTerm(y) = 1 * Pow23(d, e)
    <3>1. 1 \in {-1, 1}
      OBVIOUS
    <3>2. QED
      BY <1>3, <2>2, <3>1, AddFacts
  <2>4. NodeTerm(y) = Pow23(d, e)
    BY <1>1, <2>3
  <2> HIDE DEF y
  <2>5. Linked(y)'
    <3>1. y.length >= 1 /\ y.length - 1 = x.length
      BY <2>2, <2>3
    <3>2. p[1] = table
      OBVIOUS
    <3>3. Deref(y.parent)' = x
      BY <2>3
    <3>4. \E q \in Tables : y.parent = <<q, y.dbl, y.tpl>>
      BY <2>3
    <3>5. y.parent[1] = "w" => Pow23(y.dbl, y.tpl) <= n'
      BY <2>3, <3>2
    <3>6. QED
      BY <1>3, <2>3, <3>1, <3>3, <3>4, <3>5 DEF Linked
  <2>6. Leads(y, n, MAX_2, MAX_3)'
    <3>1. y.parent[1] = table
      BY <2>3
    <3>2. n' = CellValue(y.parent[1], y.dbl, y.tpl)' + NodeTerm(y)
      BY <2>3, <2>4, <3>1
    <3>3. QED
      BY <1>1, <2>3, <2>5, <3>2 DEF Leads
  <2>7. QED
    BY <2>3, <2>6 DEF y
<1>4. QED
  BY <1>2, <1>3

(* Lines 76-86 keep in w_min the head of a chain of n.                     *)
LEMMA BestStep ==
  ASSUME IndInv, Cell
  PROVE  w_min' \in Node /\ BestRight'
<1>1. /\ InCell /\ Kept /\ n' = n /\ bBound' = bBound /\ now_DBC' = now_DBC /\ pc' = "cells"
      /\ pc = "cells"
  BY CellFilled DEF Cell, Kept
<1>2. TypeOK /\ BestRight /\ w_min \in Node /\ getV(w_min) <= Infinite
  BY <1>1 DEF IndInv, BestRight, TypeOK
<1>3. CASE b # bBound[t]
  <2>1. w_min' = w_min
    BY <1>3 DEF Cell
  <2>2. QED
    BY <1>1, <1>2, <2>1, BestKept
<1>4. CASE b = bBound[t]
  <2>1. PICK d, e : d = b /\ e = t
    OBVIOUS
  <2>2. PICK x, y : x = w'[<<d, e>>] /\ y = w_'[<<d, e>>]
    OBVIOUS
  <2> DEFINE m == Pow23(d, e)
             X == add(x, <<"w", d, e>>, d, e, 1)
             Y == add(y, <<"w_", d, e>>, d, e, 1)
  <2>3. /\ n \in Nat \ {0} /\ d \in CellRows /\ e \in CellColumns /\ e \in 0 .. log3B
        /\ d \in Nat /\ e \in Nat /\ n \in Scalars /\ Called
        /\ MAX_2 \in Nat \ {0} /\ MAX_3 \in Nat \ {0}
    BY <1>1, <2>1, PositionFacts
  <2>4. d \in Rows /\ e \in Columns /\ d <= MAX_2 /\ e <= MAX_3
    BY <2>3 DEF CellRows, CellColumns, Rows, Columns
  <2>5. m \in Nat \ {0} /\ n < m + m /\ d + e < MAX_2
    <3>1. /\ B < Pow23(bBound[e] + 1, e) /\ B = 2 * n /\ bBound[e] + e <= MAX_2 - 2
      BY <1>1, <2>3, CallFacts DEF IndInv
    <3>2. m \in Nat \ {0} /\ Pow23(d + 1, e) = 2 * m
      BY <2>3, PowerSteps
    <3>3. d = bBound[e]
      BY <1>4, <2>1
    <3> HIDE DEF m
    <3>4. QED
      BY <2>3, <3>1, <3>2, <3>3
  <2>6. Filled(d, e)'
    <3>1. b <= bBound[t]
      BY <1>4, <2>1, <2>3
    <3>2. QED
      BY <2>1, <2>3, <3>1, CellFilled
  <2>7. x \in Node /\ y \in Node /\ CellRight(x, "w", d, e)' /\ CellRight(y, "w_", d, e)'
    <3>1. w' \in [Rows \X Columns -> Node] /\ w_' \in [Rows \X Columns -> Node] /\ CellsRight'
      BY CellTables
    <3>2. x \in Node /\ y \in Node
      BY <2>4, <2>2, <3>1
    <3>3. CellRight(w[<<d, e>>], "w", d, e)' /\ CellRight(w_[<<d, e>>], "w_", d, e)'
      BY <2>3, <2>6, <3>1 DEF CellsRight
    <3>4. QED
      BY <2>2, <3>2, <3>3
  <2>8. x = Deref(<<"w", d, e>>)' /\ y = Deref(<<"w_", d, e>>)'
    BY <2>2 DEF Deref
  <2>9. w_min' = IF n >= m THEN minV2(X, w_min) ELSE minV3(x, Y, w_min)
    BY <1>4, <2>1, <2>2 DEF Cell, Candidate
  <2>10. ASSUME NEW z \in Node, w_min' = z, ~Null(z),
               Null(z) \/ (Leads(z, n, MAX_2, MAX_3)' /\ ~z.isBasic)
        PROVE  w_min' \in Node /\ BestRight'
    <3>1. Leads(z, n, MAX_2, MAX_3)' /\ ~z.isBasic
      BY <2>10
    <3>2. Linked(z)'
      BY <3>1 DEF Leads, ZeroNode, NullNode
    <3>3. ~z.isNULL /\ z.length >= 1 /\ z.dbl \in CellRows /\ z.tpl \in CellColumns
      BY <3>2 DEF Linked
    <3>4. getV(z) <= Infinite
      BY <3>1, <3>3, TermsCheap
    <3>5. w_min'.length >= 1 /\ getV(w_min)' <= Infinite /\ ~w_min'.isBasic
      BY <2>10, <3>1, <3>3, <3>4 DEF getV
    <3>6. Leads(w_min, n, MAX_2, MAX_3)'
      BY <2>10, <3>1
    <3>7. QED
      BY <2>10, <3>5, <3>6 DEF BestRight
  <2> HIDE DEF m, X, Y
  <2>11. CASE n >= m
    <3>1. n % m = n - m
      <4>1. n - m \in 0 .. m - 1 /\ n = m * 1 + (n - m) /\ 1 \in Nat
        BY <2>3, <2>5, <2>11
      <4> DEFINE r == n - m
      <4>2. r \in 0 .. m - 1 /\ n = m * 1 + r
        BY <4>1
      <4> HIDE DEF r
      <4>3. (m * 1 + r) % m = r
        BY <2>5, <4>1, <4>2, RemainderUnique
      <4>4. QED
        BY <4>2, <4>3 DEF r
    <3>2. CellValue("w", d, e)' + m = n'
      <4>1. CellValue("w", d, e)' = (n % m) - 0
        BY <1>1 DEF CellValue, m
      <4>2. QED
        BY <1>1, <2>3, <2>5, <3>1, <4>1
    <3>3. X \in Node /\ (Null(X) \/ (Leads(X, n, MAX_2, MAX_3)' /\ ~X.isBasic))
      <4>1. "w" \in Tables /\ m = Pow23(d, e)
        BY DEF Tables, m
      <4>2. m <= n' /\ n' \in Nat
        BY <1>1, <2>3, <2>5, <2>11
      <4>3. QED
        BY <2>3, <2>5, <2>6, <2>7, <2>8, <3>2, <4>1, <4>2, AddToFilled DEF X
    <3>4. w_min' = w_min \/ (w_min' = X /\ ~Null(X))
      BY <1>2, <2>9, <2>11, <3>3, CheaperWins
    <3>5. CASE w_min' = w_min
      BY <1>1, <1>2, <3>5, BestKept
    <3>6. QED
      BY <2>10, <3>3, <3>4, <3>5
  <2>12. CASE ~(n >= m)
    <3>1. n % m = n
      <4>1. n \in 0 .. m - 1 /\ n = m * 0 + n /\ 0 \in Nat
        BY <2>3, <2>5, <2>12
      <4>2. (m * 0 + n) % m = n
        BY <2>5, <4>1, RemainderUnique
      <4>3. QED
        BY <4>1, <4>2
    <3>2. CellValue("w_", d, e)' + m = n' /\ CellValue("w", d, e)' = n'
      <4>1. CellValue("w", d, e)' = (n % m) - 0 /\ CellValue("w_", d, e)' = (n % m) - m
        BY <1>1 DEF CellValue, m
      <4>2. QED
        BY <1>1, <2>3, <2>5, <3>1, <4>1
    <3>3. Y \in Node /\ (Null(Y) \/ (Leads(Y, n, MAX_2, MAX_3)' /\ ~Y.isBasic))
      <4>1. "w_" \in Tables /\ m = Pow23(d, e) /\ "w_" # "w"
        BY DEF Tables, m
      <4>2. n' \in Nat
        BY <1>1, <2>3
      <4>3. QED
        BY <2>3, <2>5, <2>6, <2>7, <2>8, <3>2, <4>1, <4>2, AddToFilled DEF Y
    <3>4. Null(x) \/ (Leads(x, n, MAX_2, MAX_3)' /\ ~x.isBasic)
      <4>1. CASE ~Null(x)
        <5>1. Leads(x, CellValue("w", d, e), d, e)'
          BY <2>7, <4>1 DEF CellRight
        <5>2. CellValue("w", d, e)' # 0 /\ CellValue("w", d, e)' = n'
          BY <1>1, <2>3, <3>2
        <5>3. Linked(x)' /\ x.dbl <= d /\ x.tpl <= e
              /\ n' = CellValue(x.parent[1], x.dbl, x.tpl)' + NodeTerm(x)
          BY <5>1, <5>2 DEF Leads
        <5>4. x.dbl <= MAX_2 /\ x.tpl <= MAX_3
          <6>1. x.dbl \in Nat /\ x.tpl \in Nat
            BY <2>7 DEF Node
          <6>2. QED
            BY <2>3, <2>4, <5>3, <6>1
        <5>5. ~x.isBasic
          BY <5>3 DEF Linked
        <5>6. QED
          BY <5>3, <5>4, <5>5 DEF Leads
      <4>2. QED
        BY <4>1
    <3>5. \/ w_min' = w_min
          \/ w_min' = x /\ ~Null(x)
          \/ w_min' = Y /\ ~Null(Y)
      BY <1>2, <2>7, <2>9, <2>12, <3>3, CheaperWins
    <3>6. CASE w_min' = w_min
      BY <1>1, <1>2, <3>6, BestKept
    <3>7. QED
      BY <2>7, <2>10, <3>3, <3>4, <3>5, <3>6
  <2>13. QED
    BY <2>11, <2>12
<1>5. QED
  BY <1>3, <1>4

-----------------------------------------------------------------------------
(* The other steps of a call move through the blocks and fill nothing: a   *)
(* block or a band is left only when its cells within the bounds are       *)
(* filled.                                                                 *)
LoopStep == NextBand \/ NextBlock \/ EndBand \/ EndBlock \/ EndColumn \/ Store

(* The steps from block to block and from column to column change no       *)
(* table.                                                                  *)
LEMMA LoopFacts ==
  ASSUME IndInv, LoopStep
  PROVE  /\ Called /\ Called' /\ pc \in {"columns", "rows", "cells"} /\ n \in Scalars
         /\ n' = n /\ w' = w /\ w_' = w_ /\ w_min' = w_min /\ bBound' = bBound
         /\ n \in Nat \ {0} /\ MAX_2 \in Nat \ {0} /\ MAX_3 \in Nat \ {0}
         /\ ALPHA \in Nat \ {0} /\ BETA \in Nat \ {0}
         /\ i_outer \in Nat /\ j_outer \in Nat /\ i_inner \in Nat /\ j_inner \in Nat
         /\ i_outer * ALPHA \in Nat /\ j_outer * BETA \in Nat
         /\ t = j_outer * BETA + j_inner /\ b = i_outer * ALPHA + i_inner
<1>1. /\ pc \in {"columns", "rows", "cells"}
      /\ n' = n /\ w' = w /\ w_' = w_ /\ w_min' = w_min /\ bBound' = bBound
      /\ pc' \in {"columns", "rows", "cells", "done"}
  BY DEF LoopStep, NextBand, NextBandTo, NextBlock, EndBand, EndBandWith, EndBlock, EndColumn,
         Store, StoreInOrder
<1>2. Called /\ Called'
  BY <1>1 DEF Called
<1>3. n \in Scalars /\ n \in Nat \ {0}
  BY <1>2, ScalarFacts DEF IndInv
<1>4. MAX_2 \in Nat \ {0} /\ MAX_3 \in Nat \ {0} /\ ALPHA \in Nat \ {0} /\ BETA \in Nat \ {0}
  BY OptimalAssumption, MaxAssumption
<1>5. i_outer \in Nat /\ j_outer \in Nat /\ i_inner \in Nat /\ j_inner \in Nat
  BY DEF IndInv, TypeOK
<1>6. i_outer * ALPHA \in Nat /\ j_outer * BETA \in Nat
  BY <1>4, <1>5
<1>7. QED
  BY <1>1, <1>2, <1>3, <1>4, <1>5, <1>6 DEF t, b

(* Nor do they change which cells are filled.                              *)
LEMMA LoopFilled ==
  ASSUME IndInv, LoopStep, NEW d \in CellRows, NEW e \in CellColumns
  PROVE  Filled(d, e)' <=> Filled(d, e)
<1> DEFINE I == i_outer * ALPHA
           J == j_outer * BETA
<1>1. /\ Called /\ n \in Scalars /\ n' = n /\ bBound' = bBound
      /\ MAX_2 \in Nat \ {0} /\ MAX_3 \in Nat \ {0}
      /\ ALPHA \in Nat \ {0} /\ BETA \in Nat \ {0}
      /\ i_outer \in Nat /\ j_outer \in Nat /\ i_inner \in Nat /\ j_inner \in Nat
      /\ I \in Nat /\ J \in Nat
      /\ t = J + j_inner /\ b = I + i_inner
  BY LoopFacts
<1>2. d \in Nat /\ e \in Nat
  BY DEF CellRows, CellColumns
<1>3. Inside(d, e)' <=> Inside(d, e)
  BY <1>1 DEF Inside, log3B, B
<1>4. /\ log3B \in 0 .. MAX_3 - 1 /\ log2B \in 0 .. MAX_2 - 2
      /\ \A f \in 0 .. log3B : bBound[f] \in 0 .. log2B /\ \A g \in 0 .. f : bBound[f] <= bBound[g]
  BY <1>1, CallFacts DEF IndInv
<1>5. Inside(d, e) => /\ e \in 0 .. log3B /\ e <= log3B /\ d <= bBound[e] /\ bBound[e] \in Nat
                      /\ d <= log2B
                      /\ \A g \in 0 .. e : d <= bBound[g] /\ bBound[g] \in Nat
  <2> SUFFICES ASSUME Inside(d, e)
               PROVE  /\ e \in 0 .. log3B /\ e <= log3B /\ d <= bBound[e] /\ bBound[e] \in Nat
                      /\ d <= log2B
                      /\ \A g \in 0 .. e : d <= bBound[g] /\ bBound[g] \in Nat
    OBVIOUS
  <2>1. e \in 0 .. log3B /\ e <= log3B /\ d <= bBound[e]
    BY <1>2, <1>4 DEF Inside
  <2>2. bBound[e] \in 0 .. log2B
    BY <1>4, <2>1
  <2>3. \A g \in 0 .. e : g \in 0 .. log3B
    BY <1>2, <1>4, <2>1
  <2>4. \A g \in 0 .. e : bBound[e] <= bBound[g] /\ bBound[g] \in 0 .. log2B
    BY <1>4, <2>1, <2>3
  <2>5. QED
    BY <1>2, <1>4, <2>1, <2>2, <2>4
<1>6. SUFFICES ASSUME Inside(d, e) PROVE Passed(d, e)' <=> Passed(d, e)
  BY <1>3 DEF Filled
<1> HIDE DEF I, J
<1>7. CASE NextBand
  <2>1. /\ pc = "columns" /\ pc' = "rows" /\ i_outer' = 0 /\ j_outer' = j_outer
    BY <1>7 DEF NextBand, NextBandTo
  <2>2. Passed(d, e) <=> e < J
    BY <2>1 DEF Passed, J
  <2>3. i_outer' * ALPHA = 0
    BY <1>1, <2>1
  <2>4. Passed(d, e)' <=> (e < J \/ (e < J + BETA /\ d < 0))
    BY <2>1, <2>3 DEF Passed, J
  <2>5. QED
    BY <1>2, <2>2, <2>4
<1>8. CASE NextBlock
  <2>1. /\ pc = "rows" /\ pc' = "cells" /\ i_outer' = i_outer /\ j_outer' = j_outer
        /\ i_inner' = 0 /\ j_inner' = 0
    BY <1>8 DEF NextBlock
  <2>2. Passed(d, e) <=> (e < J \/ (e < J + BETA /\ d < I))
    BY <2>1 DEF Passed, I, J
  <2>3. t' = J + 0 /\ b' = I + 0
    BY <2>1 DEF t, b, I, J
  <2>4. t' = J /\ b' = I
    BY <1>1, <2>3
  <2>5. Passed(d, e)' <=> \/ e < J
                          \/ e < J + BETA /\ d < I
                          \/ e < J /\ d < I + ALPHA
                          \/ e = J /\ 0 < BETA /\ d < I
    BY <2>1, <2>4 DEF Passed, I, J
  <2>6. e = J => e < J + BETA
    BY <1>1
  <2>7. QED
    BY <2>2, <2>5, <2>6
<1>9. CASE EndBand
  <2>1. /\ pc = "rows" /\ pc' = "columns" /\ j_outer' = j_outer + 1 /\ i_outer > BlockRange
    BY <1>9 DEF EndBand, EndBandWith
  <2>2. Passed(d, e) <=> (e < J \/ (e < J + BETA /\ d < I))
    BY <2>1 DEF Passed, I, J
  <2>3. j_outer' * BETA = J + BETA
    BY <1>1, <2>1 DEF J
  <2>4. Passed(d, e)' <=> e < J + BETA
    BY <2>1, <2>3 DEF Passed
  <2>5. J <= e => d < I
    <3> SUFFICES ASSUME J <= e PROVE d < I
      OBVIOUS
    <3> DEFINE l == bBound[J]
    <3>1. d <= l /\ l \in Nat
      <4>1. J \in 0 .. e
        BY <1>1, <1>2
      <4>2. QED
        BY <1>5, <1>6, <4>1
    <3>2. BlockRange = (l \div ALPHA) + 1
      BY DEF BlockRange, J
    <3> HIDE DEF l
    <3>3. l = ALPHA * (l \div ALPHA) + (l % ALPHA) /\ l % ALPHA < ALPHA /\ l \div ALPHA \in Nat
          /\ l % ALPHA \in Nat
      BY <1>1, <3>1
    <3> DEFINE q == l \div ALPHA
    <3>4. q + 1 <= i_outer /\ q \in Nat /\ l < ALPHA * q + ALPHA
      BY <1>1, <2>1, <3>1, <3>2, <3>3
    <3> HIDE DEF q
    <3>5. ALPHA * q + ALPHA <= I
      <4>1. i_outer - (q + 1) \in Nat /\ i_outer = (q + 1) + (i_outer - (q + 1))
        BY <1>1, <3>4
      <4> DEFINE k == i_outer - (q + 1)
      <4>2. k \in Nat /\ i_outer = (q + 1) + k
        BY <4>1
      <4> HIDE DEF k
      <4>3. ((q + 1) + k) * ALPHA = (ALPHA * q + ALPHA) + k * ALPHA /\ k * ALPHA \in Nat
            /\ ALPHA * q \in Nat
        BY <1>1, <3>4, <4>2
      <4>4. QED
        BY <1>1, <4>2, <4>3 DEF I
    <3>6. QED
      BY <1>1, <1>2, <3>1, <3>4, <3>5
  <2>6. QED
    BY <1>1, <1>2, <2>2, <2>4, <2>5
<1>10. CASE EndBlock
  <2>1. /\ pc = "cells" /\ pc' = "rows" /\ i_outer' = i_outer + 1 /\ j_outer' = j_outer
        /\ j_inner >= BETA \/ t > log3B
    BY <1>10 DEF EndBlock
  <2>2. j_inner <= BETA
    BY <1>1, <2>1 DEF IndInv, BlocksRight
  <2>3. Passed(d, e) <=> \/ e < J
                         \/ e < J + BETA /\ d < I
                         \/ e < t /\ d < I + ALPHA
                         \/ e = t /\ j_inner < BETA /\ d < b
    BY <2>1 DEF Passed, I, J
  <2>4. i_outer' * ALPHA = I + ALPHA
    BY <1>1, <2>1 DEF I
  <2>5. Passed(d, e)' <=> (e < J \/ (e < J + BETA /\ d < I + ALPHA))
    BY <2>1, <2>4 DEF Passed, J
  <2>6. e <= log3B /\ log3B \in Nat
    BY <1>4, <1>5, <1>6
  <2>7. QED
    BY <1>1, <1>2, <2>1, <2>2, <2>3, <2>5, <2>6
<1>11. CASE EndColumn
  <2>1. /\ pc = "cells" /\ pc' = "cells" /\ i_outer' = i_outer /\ j_outer' = j_outer
        /\ j_inner < BETA /\ t <= log3B
        /\ i_inner >= ALPHA \/ b > log2B
        /\ j_inner' = j_inner + 1 /\ i_inner' = 0
    BY <1>11 DEF EndColumn
  <2>2. i_inner <= ALPHA
    BY <1>1, <2>1 DEF IndInv, BlocksRight
  <2>3. Passed(d, e) <=> \/ e < J
                         \/ e < J + BETA /\ d < I
                         \/ e < t /\ d < I + ALPHA
                         \/ e = t /\ j_inner < BETA /\ d < b
    BY <2>1 DEF Passed, I, J
  <2>4. t' = J + (j_inner + 1) /\ b' = I + 0
    BY <2>1 DEF t, b, I, J
  <2>5. t' = t + 1 /\ b' = I
    BY <1>1, <2>4
  <2>6. Passed(d, e)' <=> \/ e < J
                          \/ e < J + BETA /\ d < I
                          \/ e < t + 1 /\ d < I + ALPHA
                          \/ e = t + 1 /\ j_inner + 1 < BETA /\ d < I
    BY <2>1, <2>5 DEF Passed, I, J
  <2>7. d <= log2B /\ log2B \in Nat
    BY <1>4, <1>5, <1>6
  <2>8. d < I + ALPHA <=> d < b
    <3>1. CASE i_inner >= ALPHA
      <4>1. b = I + ALPHA
        BY <1>1, <2>2, <3>1
      <4>2. QED
        BY <4>1
    <3>2. CASE b > log2B
      <4>1. d < b /\ b <= I + ALPHA
        BY <1>1, <1>2, <2>2, <2>7, <3>2
      <4>2. QED
        BY <1>1, <1>2, <4>1
    <3>3. QED
      BY <2>1, <3>1, <3>2
  <2>9. /\ e < t + 1 <=> (e < t \/ e = t)
        /\ e = t + 1 /\ j_inner + 1 < BETA => e < J + BETA
    BY <1>1, <1>2
  <2>10. QED
    BY <2>1, <2>3, <2>6, <2>8, <2>9
<1>12. CASE Store
  <2>1. /\ pc = "columns" /\ pc' = "done" /\ j_outer > log3B \div BETA + 1
    BY <1>12 DEF Store, StoreInOrder
  <2>2. Passed(d, e)' <=> TRUE
    BY <2>1 DEF Passed
  <2>3. Passed(d, e) <=> e < J
    BY <2>1 DEF Passed, J
  <2>4. log3B < J
    <3> DEFINE l == log3B
               q == l \div BETA
    <3>1. l \in Nat
      BY <1>4
    <3> HIDE DEF l
    <3>2. l = BETA * (l \div BETA) + (l % BETA) /\ l % BETA < BETA /\ l \div BETA \in Nat
          /\ l % BETA \in Nat
      BY <1>1, <3>1
    <3>3. q + 1 <= j_outer /\ q \in Nat /\ l < BETA * q + BETA
      BY <1>1, <2>1, <3>1, <3>2 DEF l
    <3> HIDE DEF q
    <3>4. BETA * q + BETA <= J
      <4>1. j_outer - (q + 1) \in Nat /\ j_outer = (q + 1) + (j_outer - (q + 1))
        BY <1>1, <3>3
      <4> DEFINE k == j_outer - (q + 1)
      <4>2. k \in Nat /\ j_outer = (q + 1) + k
        BY <4>1
      <4> HIDE DEF k
      <4>3. ((q + 1) + k) * BETA = (BETA * q + BETA) + k * BETA /\ k * BETA \in Nat
            /\ BETA * q \in Nat
        BY <1>1, <3>3, <4>2
      <4>4. QED
        BY <1>1, <4>2, <4>3 DEF J
    <3>5. l < J
      BY <1>1, <3>1, <3>3, <3>4
    <3>6. QED
      BY <3>5 DEF l
  <2>5. e <= log3B /\ log3B \in Nat
    BY <1>4, <1>5, <1>6
  <2>6. QED
    BY <1>1, <1>2, <2>2, <2>3, <2>4, <2>5
<1>13. QED
  BY <1>7, <1>8, <1>9, <1>10, <1>11, <1>12 DEF LoopStep

-----------------------------------------------------------------------------
(* The elements of a set of naturals by their rank.                        *)
Rank(S, e) == Cardinality({f \in S : f < e})

(* The members of a set below m + 1 are numbered by Rank without gaps.     *)
LEMMA Ranked ==
  ASSUME NEW m \in Nat, NEW S \in SUBSET (0 .. m)
  PROVE  /\ Cardinality(S) \in Nat /\ Cardinality(S) <= m + 1
         /\ \A e \in S : Rank(S, e) \in 0 .. Cardinality(S) - 1
         /\ \A e, f \in S : e < f => Rank(S, e) < Rank(S, f)
         /\ \A k \in 0 .. Cardinality(S) - 1 : \E e \in S : Rank(S, e) = k
<1> DEFINE l == Cardinality(S)
           R == 0 .. l - 1
           rank == [e \in S |-> Rank(S, e)]
<1>1. IsFiniteSet(S) /\ l \in Nat /\ l <= m + 1
  <2>1. IsFiniteSet(0 .. m) /\ Cardinality(0 .. m) = m + 1
    BY FS_Interval
  <2>2. IsFiniteSet(S) /\ l <= m + 1
    BY <2>1, FS_Subset
  <2>3. QED
    BY <2>2, FS_CardinalityType
<1>2. ASSUME NEW e PROVE /\ IsFiniteSet({f \in S : f < e}) /\ Rank(S, e) \in Nat
  <2>1. IsFiniteSet({f \in S : f < e})
    BY <1>1, FS_Subset
  <2>2. QED
    BY <2>1, FS_CardinalityType DEF Rank
<1>3. ASSUME NEW e \in S PROVE Rank(S, e) \in R
  <2>1. e \in S \ {f \in S : f < e}
    OBVIOUS
  <2>2. {f \in S : f < e} \in SUBSET S /\ {f \in S : f < e} # S
    BY <2>1
  <2>3. Rank(S, e) <= l /\ Rank(S, e) # l
    <3> DEFINE T == {f \in S : f < e}
    <3>1. T \in SUBSET S /\ T # S
      BY <2>2
    <3>2. Rank(S, e) = Cardinality(T)
      BY DEF Rank
    <3> HIDE DEF T
    <3>3. Cardinality(T) <= Cardinality(S) /\ (Cardinality(S) = Cardinality(T) => S = T)
      BY <1>1, <3>1, FS_Subset
    <3>4. QED
      BY <3>1, <3>2, <3>3
  <2>4. Rank(S, e) \in Nat
    BY <1>2
  <2>5. QED
    BY <1>1, <2>3, <2>4
<1>4. ASSUME NEW e \in S, NEW f \in S, e < f PROVE Rank(S, e) < Rank(S, f)
  <2> DEFINE T == {x \in S : x < e}
             U == {x \in S : x < f}
  <2>1. \A x \in S : x < e => x < f
    BY <1>4
  <2>2. T \in SUBSET U /\ e \in U /\ e \notin T
    <3>1. e \in Int /\ ~(e < e)
      OBVIOUS
    <3>2. QED
      BY <1>4, <2>1, <3>1
  <2>3. IsFiniteSet(U) /\ Rank(S, e) = Cardinality(T) /\ Rank(S, f) = Cardinality(U)
    BY <1>2 DEF Rank
  <2> HIDE DEF T, U
  <2>4. Cardinality(T) <= Cardinality(U) /\ Cardinality(T) # Cardinality(U)
    BY <2>2, <2>3, FS_Subset
  <2>5. Rank(S, e) \in Nat /\ Rank(S, f) \in Nat
    BY <1>2
  <2>6. QED
    BY <2>3, <2>4, <2>5
<1>5. rank \in Injection(S, R)
  <2>1. rank \in [S -> R]
    BY <1>3
  <2>2. ASSUME NEW e \in S, NEW f \in S, rank[e] = rank[f] PROVE e = f
    <3>1. Rank(S, e) = Rank(S, f) /\ Rank(S, e) \in Nat
      BY <1>2, <2>2
    <3>2. ~(e < f) /\ ~(f < e)
      BY <1>4, <3>1
    <3>3. QED
      BY <3>2
  <2> HIDE DEF rank, R
  <2>3. QED
    BY <2>1, <2>2 DEF Injection, IsInjective
<1>6. IsFiniteSet(R) /\ Cardinality(R) = l
  <2> HIDE DEF l
  <2>1. IsFiniteSet(R) /\ Cardinality(R) = IF 0 > l - 1 THEN 0 ELSE (l - 1) - 0 + 1
    BY <1>1, FS_Interval
  <2>2. QED
    BY <1>1, <2>1
<1>7. rank \in Surjection(S, R)
  <2> HIDE DEF rank, R
  <2>1. QED
    BY <1>5, <1>6, FS_Injection
<1>8. ASSUME NEW k \in R PROVE \E e \in S : Rank(S, e) = k
  <2>1. \E e \in S : rank[e] = k
    <3> HIDE DEF rank, R
    <3>1. QED
      BY <1>7 DEF Surjection
  <2>2. QED
    BY <2>1
<1>9. QED
  BY <1>1, <1>3, <1>4, <1>8

(* The binary chain of a scalar lists its bits, the lowest first.          *)
LEMMA BinaryFacts ==
  ASSUME Unpackable, NEW m \in Scalars
  PROVE  LET l == Cardinality(Bits(m)) IN
         /\ l \in 1 .. MAX_2
         /\ BinaryChain(m) \in [CellRows -> [dbl : Nat, tpl : Nat, minus : BOOLEAN]]
         /\ BinaryOf(BinaryChain(m), l, m)
<1> DEFINE S == Bits(m)
           l == Cardinality(S)
           c == BinaryChain(m)
           M == MAX_2 - 1
           pick(k) == CHOOSE e \in S : Rank(S, e) = k
<1>1. m \in Nat \ {0} /\ MAX_2 \in Nat \ {0} /\ M \in Nat /\ M + 1 = MAX_2
  BY ScalarFacts
<1>2. S \in SUBSET (0 .. M) /\ S \in SUBSET CellRows
  BY DEF Bits, CellRows
<1>3. \A e \in 0 .. M : e \in S <=> (m \div Pow2[e]) % 2 = 1
  BY DEF Bits
<1>4. /\ l \in Nat /\ l <= MAX_2
      /\ \A e \in S : Rank(S, e) \in 0 .. l - 1
      /\ \A e, f \in S : e < f => Rank(S, e) < Rank(S, f)
      /\ \A k \in 0 .. l - 1 : \E e \in S : Rank(S, e) = k
  <2> HIDE DEF S, M
  <2>1. QED
    BY <1>1, <1>2, Ranked
<1>5. \A k \in CellRows : c[k] = IF k < l THEN [dbl |-> pick(k), tpl |-> 0, minus |-> FALSE]
                                          ELSE now_DBC[k]
  BY DEF BinaryChain, CellRows, Rank
<1>6. \A k \in 0 .. l - 1 : /\ pick(k) \in S /\ Rank(S, pick(k)) = k
                            /\ k \in CellRows /\ k < l
  <2> SUFFICES ASSUME NEW k \in 0 .. l - 1
               PROVE  pick(k) \in S /\ Rank(S, pick(k)) = k /\ k \in CellRows /\ k < l
    OBVIOUS
  <2> HIDE DEF S
  <2>1. pick(k) \in S /\ Rank(S, pick(k)) = k
    BY <1>4
  <2>2. k \in CellRows /\ k < l
    BY <1>1, <1>4 DEF CellRows
  <2>3. QED
    BY <2>1, <2>2
<1>7. m < Pow2[MAX_2] /\ m % Pow2[MAX_2] = m /\ m % Pow2[0] = 0
  <2>1. Pow2[MAX_2] \in Nat \ {0} /\ Pow2[0] = 1 /\ 4 * m < Pow2[MAX_2]
    BY <1>1, Pow2Facts, OptimalAssumption
  <2> DEFINE P == Pow2[MAX_2]
  <2>2. m \in 0 .. P - 1 /\ P * 0 + m = m /\ P \in Nat \ {0} /\ 0 \in Nat
    BY <1>1, <2>1
  <2> HIDE DEF P
  <2>3. (P * 0 + m) % P = m
    BY <2>2, RemainderUnique
  <2>4. m % P = m
    BY <2>2, <2>3
  <2>5. m % 1 = 0
    BY <1>1
  <2>6. QED
    BY <1>1, <2>1, <2>2, <2>4, <2>5 DEF P
<1> HIDE DEF S, l, c, pick, M
<1>8. \A e, f \in S : Rank(S, e) < Rank(S, f) => e < f
  <2> SUFFICES ASSUME NEW e \in S, NEW f \in S, Rank(S, e) < Rank(S, f) PROVE e < f
    OBVIOUS
  <2>1. e \in Nat /\ f \in Nat
    BY <1>1, <1>2
  <2>2. Rank(S, e) \in Nat /\ Rank(S, f) \in Nat
    BY <1>4
  <2>3. ~(f < e) /\ e # f
    BY <1>4, <2>2
  <2>4. QED
    BY <2>1, <2>3
(* No bit lies below the first, between two in turn, or above the last.    *)
<1>9. \A x \in S : x \in Nat /\ x \in 0 .. M /\ x + 1 \in Nat /\ x < MAX_2
  BY <1>1, <1>2
<1>10. ASSUME NEW lo \in 0 .. MAX_2, NEW hi \in 0 .. MAX_2, lo <= hi,
              \A x \in S : ~(lo <= x /\ x < hi)
       PROVE  m % Pow2[hi] = m % Pow2[lo]
  <2>1. lo \in Nat /\ hi \in Nat /\ m \in Nat
    BY <1>1
  <2>2. ASSUME NEW e \in lo .. hi - 1 PROVE (m \div Pow2[e]) % 2 # 1
    <3>1. e \in 0 .. M /\ lo <= e /\ e < hi
      BY <1>1, <2>1
    <3>2. e \notin S
      BY <1>10, <3>1
    <3>3. QED
      BY <1>3, <3>1, <3>2
  <2>3. QED
    BY <1>10, <2>1, <2>2, NoBits
<1>11. l # 0
  <2> SUFFICES ASSUME l = 0 PROVE FALSE
    OBVIOUS
  <2>1. \A x \in S : FALSE
    BY <1>4
  <2>2. 0 \in 0 .. MAX_2 /\ MAX_2 \in 0 .. MAX_2 /\ 0 <= MAX_2
    BY <1>1
  <2>3. m % Pow2[MAX_2] = m % Pow2[0]
    BY <1>10, <2>1, <2>2
  <2>4. QED
    BY <1>1, <1>7, <2>3
<1>12. l \in 1 .. MAX_2
  BY <1>1, <1>4, <1>11
<1>13. ASSUME NEW k \in 0 .. l - 1
       PROVE  /\ c[k].dbl = pick(k) /\ c[k].dbl \in S /\ Rank(S, c[k].dbl) = k
              /\ c[k].dbl \in CellRows /\ c[k].tpl = 0 /\ c[k].minus = FALSE
  <2>1. pick(k) \in S /\ Rank(S, pick(k)) = k /\ k \in CellRows /\ k < l
    BY <1>6
  <2>2. PICK e : e = pick(k)
    OBVIOUS
  <2>3. c[k] = [dbl |-> e, tpl |-> 0, minus |-> FALSE]
    BY <1>5, <2>1, <2>2
  <2>4. c[k].dbl = e /\ c[k].tpl = 0 /\ c[k].minus = FALSE
    BY <2>3
  <2>5. QED
    BY <1>2, <2>1, <2>2, <2>4
<1>14. ASSUME NEW k \in 0 .. l - 1
       PROVE  /\ m % Pow2[c[k].dbl + 1] = (m % Pow2[c[k].dbl]) + Pow2[c[k].dbl]
              /\ IF k = 0 THEN m % Pow2[c[k].dbl] = 0
                          ELSE /\ c[k - 1].dbl < c[k].dbl
                               /\ m % Pow2[c[k].dbl] = m % Pow2[c[k - 1].dbl + 1]
  <2> DEFINE e == c[k].dbl
  <2>0. e \in S /\ Rank(S, e) = k
    BY <1>13
  <2> HIDE DEF e
  <2>1. e \in S /\ Rank(S, e) = k /\ e \in Nat /\ e \in 0 .. M /\ e \in 0 .. MAX_2
    BY <1>1, <1>9, <2>0
  <2>2. m % Pow2[e + 1] = (m % Pow2[e]) + Pow2[e]
    BY <1>1, <1>3, <2>1, BitStep
  <2>3. CASE k = 0
    <3>1. \A x \in S : ~(0 <= x /\ x < e)
      BY <1>4, <2>1, <2>3
    <3>2. 0 <= e /\ 0 \in 0 .. MAX_2
      BY <1>1, <2>1
    <3>3. m % Pow2[e] = m % Pow2[0]
      BY <1>10, <2>1, <3>1, <3>2
    <3>4. QED
      BY <1>7, <2>2, <2>3, <3>3 DEF e
  <2>4. CASE k # 0
    <3> DEFINE f == c[k - 1].dbl
    <3>1. k - 1 \in 0 .. l - 1 /\ k - 1 < k
      BY <1>12, <2>4
    <3>2. f \in S /\ Rank(S, f) = k - 1
      BY <1>13, <3>1
    <3> HIDE DEF f
    <3>3. f < e /\ f \in Nat /\ f + 1 \in 0 .. MAX_2 /\ f + 1 <= e
      <4>1. f < e
        BY <1>8, <2>1, <3>1, <3>2
      <4>2. f \in Nat /\ f < MAX_2
        BY <1>9, <3>2
      <4>3. QED
        BY <1>1, <2>1, <4>1, <4>2
    <3>4. ASSUME NEW x \in S PROVE ~(f + 1 <= x /\ x < e)
      <4> SUFFICES ASSUME f + 1 <= x, x < e PROVE FALSE
        OBVIOUS
      <4>1. f < x
        BY <1>9, <3>3
      <4>2. k - 1 < Rank(S, x) /\ Rank(S, x) < k /\ Rank(S, x) \in Nat
        BY <1>4, <2>1, <3>2, <4>1
      <4>3. QED
        BY <1>12, <4>2
    <3>5. m % Pow2[e] = m % Pow2[f + 1]
      BY <1>10, <2>1, <3>3, <3>4
    <3>6. QED
      BY <2>2, <2>4, <3>3, <3>5 DEF e, f
  <2>5. QED
    BY <2>3, <2>4
<1>15. m < Pow2[c[l - 1].dbl + 1]
  <2> DEFINE k == l - 1
             e == c[k].dbl
  <2>1. k \in 0 .. l - 1 /\ k + 1 = l
    BY <1>12
  <2>2. e \in S /\ Rank(S, e) = k
    BY <1>13, <2>1
  <2> HIDE DEF e, k
  <2>3. e \in Nat /\ e + 1 \in 0 .. MAX_2 /\ e + 1 \in Nat
    <3>1. e \in Nat /\ e < MAX_2
      BY <1>9, <2>2
    <3>2. QED
      BY <1>1, <3>1
  <2>4. ASSUME NEW x \in S PROVE ~(e + 1 <= x /\ x < MAX_2)
    <3> SUFFICES ASSUME e + 1 <= x PROVE FALSE
      OBVIOUS
    <3>1. e < x
      BY <1>9, <2>3
    <3>2. k < Rank(S, x) /\ Rank(S, x) \in 0 .. l - 1
      BY <1>4, <2>2, <3>1
    <3>3. QED
      BY <1>12, <2>1, <3>2
  <2>5. m % Pow2[MAX_2] = m % Pow2[e + 1]
    <3>1. MAX_2 \in 0 .. MAX_2 /\ e + 1 <= MAX_2
      BY <1>1, <2>3
    <3>2. QED
      BY <1>10, <2>3, <2>4, <3>1
  <2>6. m % Pow2[e + 1] \in 0 .. Pow2[e + 1] - 1 /\ Pow2[e + 1] \in Nat
    <3> DEFINE u == e + 1
    <3>1. u \in Nat
      BY <2>3
    <3> HIDE DEF u
    <3>2. m % Pow2[u] \in 0 .. Pow2[u] - 1 /\ Pow2[u] \in Nat
      BY <1>1, <3>1, BitStep, Pow2Facts
    <3>3. QED
      BY <3>2 DEF u
  <2>7. QED
    BY <1>1, <1>7, <2>5, <2>6 DEF e, k
<1>16. c \in [CellRows -> [dbl : Nat, tpl : Nat, minus : BOOLEAN]]
  <2>1. ASSUME NEW k \in CellRows PROVE c[k] \in [dbl : Nat, tpl : Nat, minus : BOOLEAN]
    <3>1. CASE k < l
      <4>1. k \in 0 .. l - 1
        BY <1>12, <3>1 DEF CellRows
      <4>2. PICK e : e = pick(k)
        OBVIOUS
      <4>3. e \in Nat
        BY <1>6, <1>9, <4>1, <4>2
      <4>4. c[k] = [dbl |-> e, tpl |-> 0, minus |-> FALSE]
        BY <1>5, <3>1, <4>2
      <4>5. QED
        BY <4>3, <4>4
    <3>2. CASE ~(k < l)
      BY <1>5, <3>2 DEF Unpackable
    <3>3. QED
      BY <3>1, <3>2
  <2>2. c = [k \in CellRows |-> c[k]]
    BY DEF c, BinaryChain, CellRows
  <2>3. QED
    BY <2>1, <2>2
<1>17. BinaryOf(c, l, m)
  BY <1>13, <1>14, <1>15 DEF BinaryOf
<1>18. QED
  BY <1>12, <1>16, <1>17 DEF c, l, S

-----------------------------------------------------------------------------
(* The nodes the tables start with are nodes.                              *)
LEMMA NodesTyped ==
  NullNode \in Node /\ ZeroNode \in Node /\ FreshNode \in Node
<1>1. MAX_2 \in Nat \ {0}
  BY MaxAssumption
<1>2. NoParent \in {"w", "w_"} \X Rows \X Columns \cup {NoParent} /\ 0 \in 0 .. MAX_2
  BY <1>1
<1>3. NullNode \in Node
  <2> HIDE DEF NoParent
  <2>1. QED
    BY <1>2 DEF NullNode, Node
<1>4. ZeroNode \in Node /\ FreshNode \in Node
  <2> HIDE DEF NoParent
  <2>1. QED
    BY <1>2 DEF ZeroNode, FreshNode, NullNode, Node
<1>5. QED
  BY <1>3, <1>4

(* The first state.                                                        *)
LEMMA InitInductive == Init => IndInv
<1> SUFFICES ASSUME Init PROVE IndInv
  OBVIOUS
<1>1. MAX_2 \in Nat \ {0} /\ MAX_3 \in Nat \ {0}
  BY MaxAssumption, OptimalAssumption
<1>2. pc = "idle" /\ n = 0 /\ w_min = FreshNode /\ DBC_store0 = EmptySlot /\ DBC_len0 = 0
  BY DEF Init
<1>3. TypeOK
  <2>1. w \in [Rows \X Columns -> Node] /\ w_ \in [Rows \X Columns -> Node]
    BY NodesTyped DEF Init
  <2>2. bBound \in [0 .. MAX_2 - 1 -> 0 .. MAX_2]
    BY <1>1 DEF Init
  <2>3. {i_outer, j_outer, i_inner, j_inner, record_outer, temp_outer, n0} \subseteq Nat
    BY DEF Init
  <2>4. DBC_store0 \in Slot
    BY <1>2 DEF EmptySlot, Slot, ZeroEntry, Entry
  <2>5. DBC_len0 \in 0 .. MAX_2
    BY <1>1, <1>2
  <2>6. QED
    BY <1>2, <2>1, <2>2, <2>3, <2>4, <2>5, NodesTyped DEF TypeOK
<1>4. Unpackable
  BY DEF Init, Unpackable, CellRows
<1>5. ~Called /\ BoundsRight /\ BlocksRight /\ BestRight /\ ReturnsChainOfN
  BY <1>2 DEF Called, BoundsRight, BlocksRight, BestRight, ReturnsChainOfN
<1>6. Borders
  <2>1. /\ w  = [x \in Rows \X Columns |-> IF x = <<0, 0>> THEN ZeroNode
                                           ELSE IF -1 \in {x[1], x[2]} THEN NullNode
                                           ELSE FreshNode]
        /\ w_ = [x \in Rows \X Columns |-> IF x = <<0, 0>> \/ -1 \in {x[1], x[2]} THEN NullNode
                                           ELSE FreshNode]
    BY DEF Init
  <2>2. /\ -1 \in Rows /\ -1 \in Columns /\ 0 \in Rows /\ 0 \in Columns
    BY <1>1 DEF Rows, Columns
  <2>3. Null(NullNode)
    BY DEF Null, NullNode
  <2>4. \A d \in Rows, e \in Columns :
          d = -1 \/ e = -1 => w[<<d, e>>] = NullNode /\ w_[<<d, e>>] = NullNode
    BY <2>1
  <2>5. w[<<0, 0>>] = ZeroNode /\ w_[<<0, 0>>] = NullNode
    BY <2>1, <2>2
  <2>6. QED
    BY <2>2, <2>3, <2>4, <2>5 DEF Borders
<1>7. QED
  BY <1>3, <1>4, <1>5, <1>6 DEF IndInv

-----------------------------------------------------------------------------
(* A call empties the tables but for the corner, takes the bounds of its   *)
(* scalar and starts from the binary chain.                                *)
LEMMA CallFilled ==
  ASSUME IndInv, NEW m \in Scalars, Call(m)
  PROVE  CellsRight'
<1>1. pc' = "columns" /\ j_outer' = 0 /\ w' = w /\ w_' = w_ /\ n' = m
  BY DEF Call, CallWith
<1>2. Borders /\ BETA \in Nat /\ m \in Nat
  BY ScalarFacts, OptimalAssumption DEF IndInv
<1>3. ASSUME NEW d \in CellRows, NEW e \in CellColumns, Filled(d, e)'
      PROVE  d = 0 /\ e = 0
  <2>1. j_outer' * BETA = 0 /\ ~(e < 0)
    BY <1>1, <1>2 DEF CellColumns
  <2>2. ~Passed(d, e)'
    BY <1>1, <2>1 DEF Passed
  <2>3. QED
    BY <1>3, <2>2 DEF Filled
<1>4. CellRight(w[<<0, 0>>], "w", 0, 0)' /\ CellRight(w_[<<0, 0>>], "w_", 0, 0)'
  <2>1. w'[<<0, 0>>] = ZeroNode /\ Null(w_'[<<0, 0>>])
    BY <1>1, <1>2 DEF Borders
  <2>2. CellValue("w", 0, 0)' = 0
    <3>1. Pow23(0, 0) = 1
      BY Pow2Facts, Pow3Facts DEF Pow23
    <3>2. m % 1 = 0
      BY <1>2
    <3>3. QED
      BY <1>1, <3>1, <3>2 DEF CellValue
  <2>3. PICK x : x = ZeroNode
    OBVIOUS
  <2>4. x.length = 0
    BY <2>3 DEF ZeroNode, NullNode
  <2>5. Leads(x, CellValue("w", 0, 0), 0, 0)'
    BY <2>2, <2>3 DEF Leads
  <2>6. CellRight(x, "w", 0, 0)'
    BY <2>4, <2>5 DEF CellRight
  <2>7. CellRight(w[<<0, 0>>], "w", 0, 0)'
    BY <2>1, <2>3, <2>6
  <2>8. CellRight(w_[<<0, 0>>], "w_", 0, 0)'
    BY <2>1 DEF CellRight, Null
  <2>9. QED
    BY <2>7, <2>8
<1>5. QED
  BY <1>3, <1>4 DEF CellsRight

(* A call, on any left-over tables.                                        *)
LEMMA CallInductive ==
  ASSUME IndInv, NEW m \in Scalars, Call(m)
  PROVE  IndInv'
<1> DEFINE l == Cardinality(Bits(m))
<1>1. /\ pc' = "columns" /\ j_outer' = 0 /\ w' = w /\ w_' = w_ /\ n' = m
      /\ w_min' = BinaryNode(m) /\ now_DBC' = BinaryChain(m) /\ bBound' = BoundsOf(m)
      /\ record_outer' = 6 * m
      /\ i_outer' = i_outer /\ i_inner' = i_inner /\ j_inner' = j_inner
      /\ temp_outer' = temp_outer /\ n0' = n0
      /\ DBC_store0' = DBC_store0 /\ DBC_len0' = DBC_len0
  BY DEF Call, CallWith, resultVars
<1>2. /\ m \in Nat \ {0} /\ 2 * m \in Nat \ {0} /\ MAX_2 \in Nat \ {0} /\ MAX_3 \in Nat \ {0}
      /\ MAX_3 < MAX_2 /\ BETA \in Nat
  BY ScalarFacts, OptimalAssumption
<1>3. TypeOK /\ Unpackable /\ Borders
  BY DEF IndInv
<1>4. /\ l \in 1 .. MAX_2
      /\ BinaryChain(m) \in [CellRows -> [dbl : Nat, tpl : Nat, minus : BOOLEAN]]
      /\ BinaryOf(BinaryChain(m), l, m)
  BY <1>3, BinaryFacts
<1>5. /\ w_min' \in Node /\ w_min'.isBasic /\ ~w_min'.isNULL /\ w_min'.length = l
      /\ getV(w_min)' <= Infinite
  <2> DEFINE f == BinaryChain(m)[l - 1].dbl
             v == f * DBL_COST + ADD_COST * (l - 1)
  <2>1. f \in 0 .. MAX_2 - 1
    <3>1. l - 1 \in 0 .. l - 1
      BY <1>4
    <3>2. QED
      BY <1>4, <3>1 DEF BinaryOf, CellRows
  <2>2. v \in Nat /\ v <= Infinite
    <3>1. 346 * MAX_2 < Infinite /\ Infinite \in Nat
      BY OptimalAssumption DEF Infinite, ADD_COST, DBL_COST, TPL_COST
    <3> HIDE DEF f, l
    <3>2. v = f * 70 + 150 * (l - 1)
      BY DEF ADD_COST, DBL_COST
    <3>3. QED
      BY <1>2, <1>4, <2>1, <3>1, <3>2
  <2>3. w_min' = [FreshNode EXCEPT !.isBasic = TRUE, !.length = l, !.basic_value = v]
    BY <1>1 DEF BinaryNode
  <2>4. l \in 0 .. MAX_2 /\ FreshNode \in Node
    BY <1>2, <1>4, NodesTyped
  <2> HIDE DEF l, v
  <2>5. w_min' = [isNULL |-> FALSE, isBasic |-> TRUE, length |-> l, dbl |-> 0, tpl |-> 0,
                  minus |-> FALSE, basic_value |-> v, parent |-> NoParent]
    BY <2>3 DEF FreshNode, NullNode
  <2>6. w_min' \in Node
    <3> HIDE DEF NoParent
    <3>1. NoParent \in {"w", "w_"} \X Rows \X Columns \cup {NoParent}
      OBVIOUS
    <3>2. QED
      BY <2>2, <2>4, <2>5, <3>1 DEF Node
  <2>7. w_min'.isBasic /\ ~w_min'.isNULL /\ w_min'.length = l /\ w_min'.basic_value = v
    BY <2>5
  <2>8. getV(w_min)' = v
    BY <2>7 DEF getV
  <2>9. QED
    BY <2>2, <2>6, <2>7, <2>8
<1> HIDE DEF l
<1>6. \A e \in 0 .. MAX_2 - 1 :
        bBound'[e] = IF Pow3[e] <= 2 * m
                     THEN Cardinality({d \in 1 .. MAX_2 : Pow23(d, e) <= 2 * m}) - 0
                     ELSE bBound[e]
  BY <1>1 DEF BoundsOf, BoundsLess
<1>8. \A e \in 0 .. MAX_2 - 1 :
        /\ bBound'[e] \in 0 .. MAX_2
        /\ Pow3[e] <= 2 * m => \A d \in 0 .. MAX_2 : d <= bBound'[e] <=> Pow23(d, e) <= 2 * m
  <2> SUFFICES ASSUME NEW e \in 0 .. MAX_2 - 1
               PROVE  /\ bBound'[e] \in 0 .. MAX_2
                      /\ Pow3[e] <= 2 * m =>
                           \A d \in 0 .. MAX_2 : d <= bBound'[e] <=> Pow23(d, e) <= 2 * m
    OBVIOUS
  <2>1. CASE Pow3[e] <= 2 * m
    <3> DEFINE k == Cardinality({d \in 1 .. MAX_2 : Pow23(d, e) <= 2 * m})
    <3>1. k \in 0 .. MAX_2 - 2 /\ \A d \in 0 .. MAX_2 : d <= k <=> Pow23(d, e) <= 2 * m
      <4>1. e \in Nat
        OBVIOUS
      <4>2. QED
        BY <2>1, <4>1, BoundFacts
    <3>2. bBound'[e] = k - 0
      BY <1>6, <2>1
    <3> HIDE DEF k
    <3>3. bBound'[e] = k /\ k \in 0 .. MAX_2
      BY <1>2, <3>1, <3>2
    <3>4. QED
      BY <3>1, <3>3
  <2>2. CASE ~(Pow3[e] <= 2 * m)
    <3>1. bBound'[e] = bBound[e]
      BY <1>6, <2>2
    <3>2. QED
      BY <1>3, <2>2, <3>1 DEF TypeOK
  <2>3. QED
    BY <2>1, <2>2
<1>9. bBound' \in [0 .. MAX_2 - 1 -> 0 .. MAX_2]
  <2>1. bBound' = [e \in 0 .. MAX_2 - 1 |-> bBound'[e]]
    BY <1>1 DEF BoundsOf, BoundsLess
  <2>2. QED
    BY <1>8, <2>1
<1>10. TypeOK'
  <2>1. {i_outer', j_outer', i_inner', j_inner', record_outer', temp_outer', n0'} \subseteq Nat
    <3>1. 6 * m \in Nat
      BY <1>2
    <3>2. QED
      BY <1>1, <1>3, <3>1 DEF TypeOK
  <2>2. QED
    BY <1>1, <1>3, <1>5, <1>9, <2>1 DEF TypeOK
<1>11. BoundsRight'
  <2>1. B' = 2 * m
    BY <1>1 DEF B
  <2>2. log3B' \in 0 .. MAX_3 - 1 /\ \A e \in 0 .. MAX_3 : e <= log3B' <=> Pow3[e] <= 2 * m
    <3>1. /\ Cardinality({e \in 1 .. MAX_3 : Pow3[e] <= 2 * m}) \in 0 .. MAX_3 - 1
          /\ \A e \in 0 .. MAX_3 : e <= Cardinality({f \in 1 .. MAX_3 : Pow3[f] <= 2 * m})
                                   <=> Pow3[e] <= 2 * m
      BY Log3Facts
    <3>2. QED
      BY <2>1, <3>1 DEF log3B
  <2>3. ASSUME NEW e \in 0 .. log3B', NEW d \in 0 .. MAX_2
        PROVE  d <= bBound'[e] <=> Pow23(d, e) <= B'
    <3>1. e \in 0 .. MAX_3 /\ e <= log3B' /\ e \in 0 .. MAX_2 - 1
      BY <1>2, <2>2
    <3>2. Pow3[e] <= 2 * m
      BY <2>2, <3>1
    <3>3. QED
      BY <1>8, <2>1, <3>1, <3>2
  <2>4. QED
    BY <2>3 DEF BoundsRight
<1>12. BlocksRight'
  <2>1. j_outer' * BETA = 0 /\ Pow3[0] = 1 /\ (6 * m) \div 1 = 6 * m
    BY <1>1, <1>2, Pow3Facts
  <2>2. QED
    BY <1>1, <2>1 DEF BlocksRight, six_n
<1>13. BestRight'
  <2>1. BinaryRight'
    BY <1>1, <1>4, <1>5 DEF BinaryRight
  <2>2. w_min'.length >= 1
    BY <1>4, <1>5
  <2>3. QED
    BY <1>5, <2>1, <2>2 DEF BestRight
<1>14. Unpackable' /\ Borders' /\ ReturnsChainOfN'
  <2>1. Unpackable'
    BY <1>1, <1>4 DEF Unpackable
  <2>2. Borders'
    BY <1>1, <1>3 DEF Borders, Null
  <2>3. ReturnsChainOfN'
    BY <1>1 DEF ReturnsChainOfN
  <2>4. QED
    BY <2>1, <2>2, <2>3
<1>15. CellsRight'
  BY CallFilled
<1>16. n' \in Scalars
  BY <1>1
<1>17. QED
  BY <1>10, <1>11, <1>12, <1>13, <1>14, <1>15, <1>16 DEF IndInv

-----------------------------------------------------------------------------
(* What all the other steps leave as it was.                               *)
LEMMA LoopKeeps ==
  ASSUME IndInv, LoopStep
  PROVE  CellsRight' /\ Borders' /\ BoundsRight' /\ n' \in Scalars /\ Kept
<1>1. /\ Called /\ n' = n /\ w' = w /\ w_' = w_ /\ bBound' = bBound /\ n \in Scalars
  BY LoopFacts
<1>2. TypeOK /\ CellsRight /\ Borders /\ BoundsRight
  BY <1>1 DEF IndInv
<1>3. Kept /\ \A d \in CellRows, e \in CellColumns : Filled(d, e)' => Filled(d, e)
  BY <1>1, LoopFilled DEF Kept
<1>4. CellsRight'
  BY <1>2, <1>3, KeptCells
<1>5. Borders'
  BY <1>1, <1>2 DEF Borders, Null
<1>6. BoundsRight'
  <2>1. log3B' = log3B /\ B' = B
    BY <1>1 DEF log3B, B
  <2>2. QED
    BY <1>1, <1>2, <2>1 DEF BoundsRight
<1>7. QED
  BY <1>1, <1>3, <1>4, <1>5, <1>6

(* Dividing what is left of 6n goes with the step to the next block.       *)
LEMMA BlocksStep ==
  ASSUME IndInv, NextBand \/ NextBlock \/ EndBand \/ EndBlock \/ EndColumn
  PROVE  /\ BlocksRight'
         /\ {i_outer', j_outer', i_inner', j_inner', record_outer', temp_outer', n0'} \subseteq Nat
<1>1. /\ n' = n /\ n \in Nat \ {0}
      /\ ALPHA \in Nat \ {0} /\ BETA \in Nat \ {0}
      /\ i_outer \in Nat /\ j_outer \in Nat /\ i_inner \in Nat /\ j_inner \in Nat
      /\ i_outer * ALPHA \in Nat /\ j_outer * BETA \in Nat
      /\ bBound' = bBound
  BY LoopFacts DEF LoopStep
<1>2. /\ TypeOK /\ BlocksRight
      /\ record_outer \in Nat /\ temp_outer \in Nat /\ n0 \in Nat
  BY DEF IndInv, TypeOK
<1>3. six_n \in Nat /\ six_n' = six_n /\ log3B' = log3B
  BY <1>1 DEF six_n, log3B, B
<1> DEFINE I == i_outer * ALPHA
           J == j_outer * BETA
<1>4. Pow23(0, J) = Pow3[J] /\ Pow3[J] \in Nat \ {0} /\ Pow23(I, J) \in Nat \ {0}
  <2> HIDE DEF I, J
  <2>1. I \in Nat /\ J \in Nat
    BY <1>1 DEF I, J
  <2>2. QED
    BY <2>1, PowerSteps, Pow3Facts
<1>5. Pow2[ALPHA] \in Nat \ {0} /\ Pow3[BETA] \in Nat \ {0}
  BY <1>1, Pow2Facts, Pow3Facts
<1>6. CASE NextBand
  <2>1. /\ pc = "columns" /\ pc' = "rows" /\ temp_outer' = record_outer /\ i_outer' = 0
        /\ j_outer <= log3B \div BETA + 1
        /\ j_outer' = j_outer /\ record_outer' = record_outer
        /\ i_inner' = i_inner /\ j_inner' = j_inner /\ n0' = n0
    BY <1>6 DEF NextBand, NextBandTo
  <2>2. record_outer = six_n \div Pow3[J]
    BY <1>2, <2>1 DEF BlocksRight
  <2>3. i_outer' * ALPHA = 0
    BY <1>1, <2>1
  <2>4. BlocksRight'
    BY <1>3, <1>4, <2>1, <2>2, <2>3 DEF BlocksRight
  <2>5. QED
    BY <1>1, <1>2, <2>1, <2>4
<1>7. CASE NextBlock
  <2>1. /\ pc = "rows" /\ pc' = "cells"
        /\ n0' = temp_outer % (Pow2[ALPHA + 1] * Pow3[BETA + 1])
        /\ i_inner' = 0 /\ j_inner' = 0
        /\ i_outer' = i_outer /\ j_outer' = j_outer
        /\ record_outer' = record_outer /\ temp_outer' = temp_outer
    BY <1>7 DEF NextBlock
  <2>2. /\ record_outer = six_n \div Pow3[J] /\ temp_outer = six_n \div Pow23(I, J)
        /\ j_outer <= log3B \div BETA + 1
    BY <1>2, <2>1 DEF BlocksRight
  <2>3. n0' = temp_outer % Pow23(ALPHA + 1, BETA + 1)
    BY <2>1 DEF Pow23
  <2>4. 0 \in 0 .. ALPHA /\ 0 \in 0 .. BETA
    BY <1>1
  <2>5. BlocksRight'
    BY <1>3, <2>1, <2>2, <2>3, <2>4 DEF BlocksRight
  <2>6. n0' \in Nat
    <3> DEFINE a == ALPHA + 1
               c == BETA + 1
               P == Pow23(a, c)
    <3>1. a \in Nat /\ c \in Nat
      BY <1>1
    <3> HIDE DEF a, c
    <3>2. P \in Nat \ {0}
      BY <3>1, PowerSteps
    <3> HIDE DEF P
    <3>3. temp_outer % P \in Nat
      BY <1>2, <3>2
    <3>4. QED
      BY <2>3, <3>3 DEF P, a, c
  <2>7. QED
    BY <1>1, <1>2, <2>1, <2>5, <2>6
<1>8. CASE EndBand
  <2>1. /\ pc = "rows" /\ pc' = "columns"
        /\ record_outer' = record_outer \div Pow3[BETA] /\ j_outer' = j_outer + 1
        /\ i_outer' = i_outer /\ i_inner' = i_inner /\ j_inner' = j_inner
        /\ temp_outer' = temp_outer /\ n0' = n0
    BY <1>8 DEF EndBand, EndBandWith
  <2>2. record_outer = six_n \div Pow3[J]
    BY <1>2, <2>1 DEF BlocksRight
  <2>3. j_outer' * BETA = J + BETA
    BY <1>1, <2>1
  <2>4. Pow3[J + BETA] = Pow3[J] * Pow3[BETA]
    <3> HIDE DEF J
    <3>1. J \in Nat
      BY <1>1 DEF J
    <3>2. QED
      BY <1>1, <3>1, PowerSum
  <2>5. record_outer' = six_n \div (Pow3[J] * Pow3[BETA])
    <3> DEFINE p == Pow3[J]
               q == Pow3[BETA]
    <3>1. p \in Nat \ {0} /\ q \in Nat \ {0} /\ record_outer' = (six_n \div p) \div q
      BY <1>4, <1>5, <2>1, <2>2
    <3> HIDE DEF p, q
    <3>2. (six_n \div p) \div q = six_n \div (p * q)
      BY <1>3, <3>1, DivideTwice
    <3>3. QED
      BY <3>1, <3>2 DEF p, q
  <2>6. BlocksRight'
    BY <1>3, <2>1, <2>3, <2>4, <2>5 DEF BlocksRight
  <2>7. record_outer' \in Nat /\ j_outer' \in Nat
    BY <1>1, <1>2, <1>5, <2>1
  <2>8. QED
    BY <1>1, <1>2, <2>1, <2>6, <2>7
<1>9. CASE EndBlock
  <2>1. /\ pc = "cells" /\ pc' = "rows"
        /\ temp_outer' = temp_outer \div Pow2[ALPHA] /\ i_outer' = i_outer + 1
        /\ j_outer' = j_outer /\ i_inner' = i_inner /\ j_inner' = j_inner
        /\ record_outer' = record_outer /\ n0' = n0
    BY <1>9 DEF EndBlock
  <2>2. /\ record_outer = six_n \div Pow3[J] /\ temp_outer = six_n \div Pow23(I, J)
        /\ j_outer <= log3B \div BETA + 1
    BY <1>2, <2>1 DEF BlocksRight
  <2>3. i_outer' * ALPHA = I + ALPHA
    BY <1>1, <2>1
  <2>4. Pow23(I + ALPHA, J) = Pow23(I, J) * Pow2[ALPHA]
    <3> HIDE DEF I, J
    <3>1. I \in Nat /\ J \in Nat /\ 0 \in Nat /\ J + 0 = J
      BY <1>1 DEF I, J
    <3>2. Pow23(I + ALPHA, J + 0) = Pow23(I, J) * Pow23(ALPHA, 0)
      BY <1>1, <3>1, PowerProduct
    <3>3. Pow23(ALPHA, 0) = Pow2[ALPHA]
      BY <1>5, Pow3Facts DEF Pow23
    <3>4. QED
      BY <3>1, <3>2, <3>3
  <2>5. temp_outer' = six_n \div (Pow23(I, J) * Pow2[ALPHA])
    <3> DEFINE p == Pow23(I, J)
               q == Pow2[ALPHA]
    <3>1. p \in Nat \ {0} /\ q \in Nat \ {0} /\ temp_outer' = (six_n \div p) \div q
      BY <1>4, <1>5, <2>1, <2>2
    <3> HIDE DEF p, q
    <3>2. (six_n \div p) \div q = six_n \div (p * q)
      BY <1>3, <3>1, DivideTwice
    <3>3. QED
      BY <3>1, <3>2 DEF p, q
  <2>6. BlocksRight'
    BY <1>3, <2>1, <2>2, <2>3, <2>4, <2>5 DEF BlocksRight
  <2>7. temp_outer' \in Nat /\ i_outer' \in Nat
    BY <1>1, <1>2, <1>5, <2>1
  <2>8. QED
    BY <1>1, <1>2, <2>1, <2>6, <2>7
<1>10. CASE EndColumn
  <2>1. /\ pc = "cells" /\ pc' = "cells" /\ j_inner < BETA
        /\ j_inner' = j_inner + 1 /\ i_inner' = 0
        /\ i_outer' = i_outer /\ j_outer' = j_outer
        /\ record_outer' = record_outer /\ temp_outer' = temp_outer /\ n0' = n0
    BY <1>10 DEF EndColumn
  <2>2. j_inner' \in 0 .. BETA /\ i_inner' \in 0 .. ALPHA
    BY <1>1, <2>1
  <2>3. BlocksRight'
    BY <1>2, <1>3, <2>1, <2>2 DEF BlocksRight
  <2>4. QED
    BY <1>1, <1>2, <2>1, <2>2, <2>3
<1>11. QED
  BY <1>6, <1>7, <1>8, <1>9, <1>10

(* The steps of the three outer loops.                                     *)
LEMMA BlocksInductive ==
  ASSUME IndInv, NextBand \/ NextBlock \/ EndBand \/ EndBlock \/ EndColumn
  PROVE  IndInv'
<1>1. LoopStep
  BY DEF LoopStep
<1>2. /\ w' = w /\ w_' = w_ /\ w_min' = w_min /\ bBound' = bBound /\ now_DBC' = now_DBC
      /\ DBC_store0' = DBC_store0 /\ DBC_len0' = DBC_len0 /\ n' = n
      /\ pc \in {"columns", "rows", "cells"} /\ pc' \in {"columns", "rows", "cells"}
  BY DEF NextBand, NextBandTo, NextBlock, EndBand, EndBandWith, EndBlock, EndColumn, resultVars
<1>3. CellsRight' /\ Borders' /\ BoundsRight' /\ n' \in Scalars /\ Kept
  BY <1>1, LoopKeeps
<1>4. BlocksRight'
      /\ {i_outer', j_outer', i_inner', j_inner', record_outer', temp_outer', n0'} \subseteq Nat
  BY BlocksStep
<1>5. TypeOK'
  BY <1>2, <1>4 DEF IndInv, TypeOK
<1>6. BestRight'
  BY <1>2, <1>3, BestKept
<1>7. Unpackable' /\ ReturnsChainOfN'
  BY <1>2 DEF IndInv, Unpackable, ReturnsChainOfN
<1>8. QED
  BY <1>3, <1>4, <1>5, <1>6, <1>7 DEF IndInv

(* The step that fills a cell.                                             *)
LEMMA CellInductive ==
  ASSUME IndInv, Cell
  PROVE  IndInv'
<1>1. /\ bBound' = bBound /\ now_DBC' = now_DBC /\ n' = n /\ pc = "cells" /\ pc' = "cells"
      /\ DBC_store0' = DBC_store0 /\ DBC_len0' = DBC_len0
      /\ i_outer' = i_outer /\ j_outer' = j_outer /\ j_inner' = j_inner
      /\ i_inner' = i_inner + 1 /\ i_inner < ALPHA
      /\ record_outer' = record_outer /\ temp_outer' = temp_outer /\ n0' = n0
  BY DEF Cell, resultVars
<1>2. /\ w' \in [Rows \X Columns -> Node] /\ w_' \in [Rows \X Columns -> Node]
      /\ CellsRight' /\ Borders'
  BY CellTables
<1>3. w_min' \in Node /\ BestRight'
  BY BestStep
<1>4. i_inner \in Nat /\ ALPHA \in Nat
  BY OptimalAssumption DEF IndInv, TypeOK
<1>5. i_inner' \in 0 .. ALPHA
  BY <1>1, <1>4
<1>6. TypeOK'
  BY <1>1, <1>2, <1>3, <1>5 DEF IndInv, TypeOK
<1>7. BlocksRight'
  BY <1>1, <1>5 DEF IndInv, BlocksRight, six_n, log3B, B
<1>8. BoundsRight'
  <2>1. log3B' = log3B /\ B' = B
    BY <1>1 DEF log3B, B
  <2>2. QED
    BY <1>1, <2>1 DEF IndInv, BoundsRight, Called
<1>9. Unpackable' /\ ReturnsChainOfN' /\ n' \in Scalars
  BY <1>1 DEF IndInv, Unpackable, ReturnsChainOfN, Called
<1>10. QED
  BY <1>2, <1>3, <1>6, <1>7, <1>8, <1>9 DEF IndInv

-----------------------------------------------------------------------------
(* The nodes on the way from x to the end of the chain it leads.           *)
LEMMA TrailFacts ==
  ASSUME TypeOK, NEW x \in Node
  PROVE  /\ Trail(x)[0] = x
         /\ \A k \in Nat : /\ Trail(x)[k] \in Node
                           /\ Trail(x)[k + 1] = Deref(Trail(x)[k].parent)
<1> DEFINE h == [p \in Nat \X Node |-> Deref(p[2].parent)]
           F(u) == [k \in Nat |-> IF k = 0 THEN x ELSE Deref(u[k - 1].parent)]
<1>1. MAX_2 \in Nat \ {0} /\ MAX_3 \in Nat \ {0}
  BY MaxAssumption, OptimalAssumption
<1>2. ASSUME NEW y \in Node PROVE Deref(y.parent) \in Node
  <2>1. \A d \in Rows, e \in Columns : w[<<d, e>>] \in Node /\ w_[<<d, e>>] \in Node
    BY CellNodes
  <2>2. y.parent \in {"w", "w_"} \X Rows \X Columns \/ y.parent = NoParent
    BY DEF Node
  <2>3. CASE y.parent = NoParent
    <3>1. Deref(NoParent) = w_[<<0, 0>>]
      BY DEF Deref, NoParent
    <3>2. 0 \in Rows /\ 0 \in Columns
      BY <1>1 DEF Rows, Columns
    <3>3. QED
      BY <2>1, <2>3, <3>1, <3>2
  <2>4. CASE y.parent \in {"w", "w_"} \X Rows \X Columns
    BY <2>1, <2>4 DEF Deref
  <2>5. QED
    BY <2>2, <2>3, <2>4
<1>3. \A k \in Nat, y \in Node : h[<<k, y>>] = Deref(y.parent) /\ h[<<k, y>>] \in Node
  BY <1>2
<1>4. Iterable(Node, x, h)
  <2> HIDE DEF h
  <2>1. Closed(Node, h)
    BY <1>3 DEF Closed
  <2>2. QED
    BY <2>1, IterationExists
<1>5. PICK v \in [Nat -> Node] : Iterates(v, x, h)
  BY <1>4 DEF Iterable
<1> HIDE DEF h
<1>6. v[0] = x /\ \A k \in Nat : v[k + 1] = Deref(v[k].parent)
  BY <1>3, <1>5 DEF Iterates
<1>7. ASSUME NEW k \in Nat PROVE v[k] = IF k = 0 THEN x ELSE Deref(v[k - 1].parent)
  <2>1. CASE k = 0
    BY <1>6, <2>1
  <2>2. CASE k # 0
    <3>1. k - 1 \in Nat /\ (k - 1) + 1 = k
      BY <2>2
    <3>2. v[k] = Deref(v[k - 1].parent)
      BY <1>6, <3>1
    <3>3. QED
      BY <2>2, <3>2
  <2>3. QED
    BY <2>1, <2>2
<1>8. v = F(v)
  BY <1>7
<1>9. Trail(x) = F(Trail(x))
  <2> DEFINE good == CHOOSE u : u = F(u)
  <2>1. good = F(good)
    BY <1>8
  <2>2. Trail(x) = good
    BY DEF Trail
  <2> HIDE DEF good
  <2>3. QED
    BY <2>1, <2>2
<1> DEFINE s == Trail(x)
<1>10. s = F(s)
  BY <1>9
<1> HIDE DEF s
<1>11. s[0] = x
  BY <1>10
<1>12. \A k \in Nat : s[k + 1] = Deref(s[k].parent)
  <2> SUFFICES ASSUME NEW k \in Nat PROVE s[k + 1] = Deref(s[k].parent)
    OBVIOUS
  <2>1. k + 1 \in Nat /\ (k + 1) - 1 = k /\ k + 1 # 0
    OBVIOUS
  <2>2. QED
    BY <1>10, <2>1
<1> DEFINE T == {k \in Nat : s[k] \in Node}
<1>13. 0 \in T /\ \A k \in Nat : k \in T => k + 1 \in T
  BY <1>2, <1>11, <1>12
<1>14. Nat \subseteq T
  <2> HIDE DEF T
  <2>1. QED
    BY <1>13, SetInduction
<1>15. QED
  BY <1>11, <1>12, <1>14 DEF s

(* The recursive equation of the sums along a trail.                       *)
LEMMA NodeSumsFacts ==
  ASSUME TypeOK, NEW x \in Node
  PROVE  /\ NodeSums(x)[0] = 0
         /\ \A k \in Nat : /\ NodeSums(x)[k] \in Int
                           /\ NodeTerm(Trail(x)[k]) \in Int
                           /\ NodeSums(x)[k + 1] = NodeSums(x)[k] + NodeTerm(Trail(x)[k])
<1> DEFINE s == Trail(x)
           h == [p \in Nat \X Int |-> p[2] + NodeTerm(s[p[1]])]
           F(u) == [k \in Nat |-> IF k = 0 THEN 0 ELSE u[k - 1] + NodeTerm(s[k - 1])]
<1>1. \A k \in Nat : NodeTerm(s[k]) \in Int
  <2> SUFFICES ASSUME NEW k \in Nat PROVE NodeTerm(s[k]) \in Int
    OBVIOUS
  <2> DEFINE y == s[k]
  <2>1. y \in Node
    BY TrailFacts
  <2> HIDE DEF y
  <2>2. y.dbl \in Nat /\ y.tpl \in Nat /\ y.minus \in BOOLEAN
    BY <2>1 DEF Node
  <2>3. Pow23(y.dbl, y.tpl) \in Nat
    BY <2>2, PowerSteps
  <2>4. NodeTerm(y) \in Int
    BY <2>3 DEF NodeTerm
  <2>5. QED
    BY <2>4 DEF y
<1> HIDE DEF s
<1>2. \A k \in Nat, y \in Int : h[<<k, y>>] = y + NodeTerm(s[k]) /\ h[<<k, y>>] \in Int
  BY <1>1
<1>3. Iterable(Int, 0, h)
  <2> HIDE DEF h
  <2>1. Closed(Int, h) /\ 0 \in Int
    BY <1>2 DEF Closed
  <2>2. QED
    BY <2>1, IterationExists
<1>4. PICK v \in [Nat -> Int] : Iterates(v, 0, h)
  BY <1>3 DEF Iterable
<1> HIDE DEF h
<1>5. v[0] = 0 /\ \A k \in Nat : v[k + 1] = v[k] + NodeTerm(s[k])
  BY <1>2, <1>4 DEF Iterates
<1>6. ASSUME NEW k \in Nat PROVE v[k] = IF k = 0 THEN 0 ELSE v[k - 1] + NodeTerm(s[k - 1])
  <2>1. CASE k = 0
    BY <1>5, <2>1
  <2>2. CASE k # 0
    <3>1. k - 1 \in Nat /\ (k - 1) + 1 = k
      BY <2>2
    <3>2. v[k] = v[k - 1] + NodeTerm(s[k - 1])
      BY <1>5, <3>1
    <3>3. QED
      BY <2>2, <3>2
  <2>3. QED
    BY <2>1, <2>2
<1>7. v = F(v)
  BY <1>6
<1> DEFINE z == NodeSums(x)
<1>8. z = F(z)
  <2> DEFINE good == CHOOSE u : u = F(u)
  <2>1. good = F(good)
    BY <1>7
  <2>2. z = good
    BY DEF NodeSums, s
  <2> HIDE DEF good, z
  <2>3. QED
    BY <2>1, <2>2
<1> HIDE DEF z
<1>9. z[0] = 0
  BY <1>8
<1>10. \A k \in Nat : z[k + 1] = z[k] + NodeTerm(s[k])
  <2> SUFFICES ASSUME NEW k \in Nat PROVE z[k + 1] = z[k] + NodeTerm(s[k])
    OBVIOUS
  <2>1. k + 1 \in Nat /\ (k + 1) - 1 = k /\ k + 1 # 0
    OBVIOUS
  <2>2. QED
    BY <1>8, <2>1
<1> DEFINE T == {k \in Nat : z[k] \in Int}
<1>11. 0 \in T /\ \A k \in Nat : k \in T => k + 1 \in T
  BY <1>1, <1>9, <1>10
<1>12. Nat \subseteq T
  <2> HIDE DEF T
  <2>1. QED
    BY <1>11, SetInduction
<1>13. QED
  BY <1>1, <1>9, <1>10, <1>12 DEF z, s

(* Along the trail the lengths go down to 0, the exponents do not go up,   *)
(* and what is summed and what is still led make the value.                *)
Remains(x, v, k) ==
  LET y == Trail(x)[k]
      p == Trail(x)[k - 1]
  IN  /\ y.length = x.length - k /\ ~y.isNULL
      /\ \E d, e : Leads(y, v - NodeSums(x)[k], d, e)
      /\ k < x.length => Linked(y)
      /\ k > 0 => /\ \E table \in Tables :
                       /\ v - NodeSums(x)[k] = CellValue(table, p.dbl, p.tpl)
                       /\ table = "w" => Pow23(p.dbl, p.tpl) <= n
                  /\ k < x.length => y.dbl <= p.dbl /\ y.tpl <= p.tpl

(* A node that leads a chain of v has a trail whose terms add up to v.     *)
LEMMA TrailLeads ==
  ASSUME TypeOK, CellsRight, n \in Nat, NEW x \in Node, ~x.isNULL, NEW v \in Int,
         NEW D, NEW E, Leads(x, v, D, E)
  PROVE  (\A k \in 0 .. x.length : Remains(x, v, k)) /\ NodeValue(x) = v
<1> DEFINE s == Trail(x)
           z == NodeSums(x)
           T == {k \in Nat : k <= x.length => Remains(x, v, k)}
<1>1. x.length \in Nat /\ s[0] = x /\ z[0] = 0
      /\ \A k \in Nat : /\ s[k] \in Node /\ z[k] \in Int /\ NodeTerm(s[k]) \in Int
                        /\ s[k + 1] = Deref(s[k].parent) /\ z[k + 1] = z[k] + NodeTerm(s[k])
  BY TrailFacts, NodeSumsFacts DEF Node
<1>2. \A y, u, d, e : Leads(y, u, d, e) /\ y.length > 0 => Linked(y)
  <2> SUFFICES ASSUME NEW y, NEW u, NEW d, NEW e, Leads(y, u, d, e), y.length > 0
               PROVE  Linked(y)
    OBVIOUS
  <2>1. ZeroNode.length = 0
    BY DEF ZeroNode, NullNode
  <2>2. ~(0 > 0)
    OBVIOUS
  <2>3. y # ZeroNode
    BY <2>1, <2>2
  <2>4. QED
    BY <2>3 DEF Leads
<1>3. 0 \in T
  <2>1. x.length = x.length - 0 /\ v - z[0] = v
    BY <1>1
  <2>2. 0 < x.length => Linked(x)
    BY <1>2
  <2>3. Leads(s[0], v - z[0], D, E)
    BY <1>1, <2>1
  <2>4. ~(0 > 0)
    OBVIOUS
  <2>5. Remains(x, v, 0)
    BY <1>1, <2>1, <2>2, <2>3, <2>4 DEF Remains
  <2>6. QED
    BY <2>5
<1>4. ASSUME NEW k \in Nat, k \in T PROVE k + 1 \in T
  <2> SUFFICES ASSUME k + 1 <= x.length PROVE Remains(x, v, k + 1)
    OBVIOUS
  <2> DEFINE y == s[k]
             q == s[k + 1]
             u == v - z[k]
  <2>1. k <= x.length /\ k < x.length /\ k + 1 > 0 /\ (k + 1) - 1 = k /\ k + 1 \in Nat
    BY <1>1
  <2>2. y.length = x.length - k /\ Linked(y) /\ \E d, e : Leads(y, u, d, e)
    BY <1>4, <2>1 DEF Remains
  <2>3. PICK d, e : Leads(y, u, d, e)
    BY <2>2
  <2>4. u = CellValue(y.parent[1], y.dbl, y.tpl) + NodeTerm(y)
    <3>1. y.length # 0
      BY <1>1, <2>1, <2>2
    <3>2. y # ZeroNode
      BY <3>1 DEF ZeroNode, NullNode
    <3>3. QED
      BY <2>3, <3>2 DEF Leads
  <2>5. PICK table \in Tables : y.parent = <<table, y.dbl, y.tpl>>
    BY <2>2 DEF Linked
  <2>6. y.parent[1] = table
    BY <2>5
  <2>7. /\ y.dbl \in CellRows /\ y.tpl \in CellColumns /\ Filled(y.dbl, y.tpl)
        /\ q = Deref(y.parent) /\ ~q.isNULL /\ q.length = y.length - 1
        /\ table = "w" => Pow23(y.dbl, y.tpl) <= n
    BY <1>1, <2>2, <2>6 DEF Linked
  <2>8. CellRight(q, table, y.dbl, y.tpl)
    <3>1. q = IF table = "w" THEN w[<<y.dbl, y.tpl>>] ELSE w_[<<y.dbl, y.tpl>>]
      BY <2>5, <2>7 DEF Deref
    <3>2. QED
      BY <2>7, <3>1 DEF CellsRight, Tables
  <2>9. Leads(q, CellValue(table, y.dbl, y.tpl), y.dbl, y.tpl)
    BY <2>7, <2>8 DEF CellRight, Null
  <2>10. CellValue(table, y.dbl, y.tpl) = v - z[k + 1]
    <3> DEFINE m == Pow23(y.dbl, y.tpl)
               c == CellValue(table, y.dbl, y.tpl)
    <3>1. m \in Nat \ {0}
      <4>1. y.dbl \in Nat /\ y.tpl \in Nat
        BY <2>7 DEF CellRows, CellColumns
      <4>2. QED
        BY <4>1, PowerSteps
    <3>2. c = (n % m) - (IF table = "w" THEN 0 ELSE m)
      BY DEF CellValue
    <3> HIDE DEF m
    <3>3. n % m \in Int
      BY <3>1
    <3>4. c \in Int
      <4> HIDE DEF c
      <4>1. QED
        BY <3>1, <3>2, <3>3
    <3> HIDE DEF c
    <3>5. u = c + NodeTerm(y) /\ z[k] \in Int /\ NodeTerm(y) \in Int /\ z[k + 1] = z[k] + NodeTerm(y)
      BY <1>1, <2>4, <2>6 DEF c
    <3>6. c = v - z[k + 1]
      <4> DEFINE f == NodeTerm(y)
                 g == z[k]
                 i == z[k + 1]
      <4>1. v - g = c + f /\ g \in Int /\ f \in Int /\ i = g + f
        BY <3>5
      <4> HIDE DEF f, g, i
      <4>2. c = v - i
        BY <3>4, <4>1
      <4>3. QED
        BY <4>2 DEF i
    <3>7. QED
      BY <3>6 DEF c
  <2>11. q.length = x.length - (k + 1)
    <3>1. y.length = x.length - k /\ q.length = y.length - 1
      BY <2>2, <2>7
    <3>2. QED
      BY <1>1, <3>1
  <2>12. k + 1 < x.length => Linked(q) /\ q.dbl <= y.dbl /\ q.tpl <= y.tpl
    <3> SUFFICES ASSUME k + 1 < x.length PROVE Linked(q) /\ q.dbl <= y.dbl /\ q.tpl <= y.tpl
      OBVIOUS
    <3>1. q.length # 0 /\ q.length > 0
      BY <1>1, <2>11
    <3>2. q # ZeroNode
      BY <3>1 DEF ZeroNode, NullNode
    <3>3. QED
      BY <2>9, <3>2 DEF Leads
  <2>13. Leads(q, v - z[k + 1], y.dbl, y.tpl)
    BY <2>9, <2>10
  <2> HIDE DEF q, y, u
  <2>14. QED
    <3>1. Trail(x)[k + 1] = q /\ Trail(x)[(k + 1) - 1] = y
      BY <2>1 DEF q, y
    <3>2. QED
      BY <2>1, <2>7, <2>10, <2>11, <2>12, <2>13, <3>1 DEF Remains
<1>5. Nat \subseteq T
  <2> HIDE DEF T
  <2>1. QED
    BY <1>3, <1>4, SetInduction
<1>6. \A k \in 0 .. x.length : Remains(x, v, k)
  BY <1>1, <1>5
<1>7. NodeValue(x) = v
  <2> DEFINE l == x.length
             y == s[l]
  <2>1. l \in Nat /\ l \in 0 .. x.length
    BY <1>1
  <2>2. y.length = 0 /\ \E d, e : Leads(y, v - z[l], d, e)
    BY <1>1, <1>6, <2>1 DEF Remains
  <2>3. v - z[l] = 0
    <3>1. PICK d, e : Leads(y, v - z[l], d, e)
      BY <2>2
    <3>2. ~Linked(y)
      BY <2>2 DEF Linked
    <3>3. QED
      BY <3>1, <3>2 DEF Leads
  <2>4. z[l] \in Int
    BY <1>1, <2>1
  <2> HIDE DEF l, z
  <2>5. z[l] = v
    BY <2>3, <2>4
  <2>6. QED
    BY <2>5 DEF NodeValue, l, z
<1>8. QED
  BY <1>6, <1>7

(* The rows Store writes, most significant first: those of the unpacked    *)
(* chain backwards, or those of the nodes on the trail from w_min.         *)
RowOf(x) == [sign |-> IF x.minus THEN -1 ELSE 1, dbl |-> x.dbl, tpl |-> x.tpl]

StoredRow(k) ==
  RowOf(IF w_min.isBasic THEN now_DBC[w_min.length - 1 - k] ELSE Trail(w_min)[k])

(* An unpacked term and its row of the store have one value.               *)
LEMMA RowFacts ==
  ASSUME NEW x, x.dbl \in Nat, x.tpl \in Nat, x.minus \in BOOLEAN
  PROVE  RowOf(x) \in Entry /\ TermValue(RowOf(x)) = NodeTerm(x)
BY DEF RowOf, Entry, TermValue, NodeTerm

(* What lines 93-103 write into the store.                                 *)
LEMMA StoreFacts ==
  ASSUME IndInv, Store
  PROVE  /\ w_min \in Node /\ w_min.length \in 1 .. MAX_2
         /\ \A k \in 0 .. w_min.length - 1 : StoredRow(k) \in Entry
         /\ DBC_store0' = [k \in 0 .. MAX_2 - 1 |-> IF k < w_min.length THEN StoredRow(k)
                                                    ELSE DBC_store0[k]]
         /\ DBC_len0' = w_min.length
         /\ Unpackable'
<1> DEFINE l == w_min.length
           chain == Unpacked(w_min)
           row(x) == [sign |-> IF x.minus THEN -1 ELSE 1, dbl |-> x.dbl, tpl |-> x.tpl]
           position == [k \in 0 .. w_min.length - 1 |-> w_min.length - k - 1]
           U == [dbl : Nat, tpl : Nat, minus : BOOLEAN]
<1>1. /\ pc = "columns" /\ TypeOK /\ BestRight /\ now_DBC \in [CellRows -> U]
      /\ w_min \in Node /\ MAX_2 \in Nat \ {0}
  BY MaxAssumption DEF IndInv, TypeOK, Store, StoreInOrder, Unpackable
<1>2. l \in 1 .. MAX_2
  BY <1>1 DEF BestRight, Node
<1>3. /\ now_DBC' = [k \in 0 .. MAX_2 - 1 |-> IF k < w_min.length THEN chain[k] ELSE now_DBC[k]]
      /\ DBC_store0' = [k \in 0 .. MAX_2 - 1 |->
                          IF k < w_min.length THEN row(chain[position[k]]) ELSE DBC_store0[k]]
      /\ DBC_len0' = w_min.length
  BY DEF Store, StoreInOrder
<1>4. ASSUME NEW k \in 0 .. l - 1
      PROVE  /\ chain[k] = IF w_min.isBasic THEN now_DBC[k]
                           ELSE LET y == Trail(w_min)[l - k - 1]
                                IN  [dbl |-> y.dbl, tpl |-> y.tpl, minus |-> y.minus]
             /\ chain[k] \in U
  <2>1. chain[k] = IF w_min.isBasic THEN now_DBC[k]
                   ELSE LET y == Trail(w_min)[l - k - 1]
                        IN  [dbl |-> y.dbl, tpl |-> y.tpl, minus |-> y.minus]
    BY DEF Unpacked
  <2>2. l - k - 1 \in Nat /\ k \in CellRows
    BY <1>1, <1>2, SMTT(60) DEF CellRows
  <2>3. Trail(w_min)[l - k - 1] \in Node
    BY <1>1, <2>2, TrailFacts
  <2>4. now_DBC[k] \in U
    BY <1>1, <2>2
  <2> HIDE DEF chain
  <2>5. CASE w_min.isBasic
    BY <2>1, <2>4, <2>5
  <2>6. CASE ~w_min.isBasic
    <3> DEFINE y == Trail(w_min)[l - k - 1]
    <3>1. y.dbl \in Nat /\ y.tpl \in Nat /\ y.minus \in BOOLEAN
      BY <2>3 DEF Node
    <3>2. chain[k] = [dbl |-> y.dbl, tpl |-> y.tpl, minus |-> y.minus]
      BY <2>1, <2>6
    <3> HIDE DEF y
    <3>3. QED
      BY <2>1, <3>1, <3>2
  <2>7. QED
    BY <2>1, <2>5, <2>6
<1>5. ASSUME NEW k \in 0 .. l - 1
      PROVE  row(chain[position[k]]) = StoredRow(k) /\ StoredRow(k) \in Entry
  <2> DEFINE j == l - 1 - k
  <2>1. j \in 0 .. l - 1 /\ position[k] = j /\ l - j - 1 = k /\ k \in Nat
    BY <1>1, <1>2
  <2>2. CASE w_min.isBasic
    <3>1. chain[j] = now_DBC[j] /\ now_DBC[j] \in U
      BY <1>4, <2>1, <2>2
    <3>2. row(chain[position[k]]) = RowOf(now_DBC[j]) /\ RowOf(now_DBC[j]) \in Entry
      BY <2>1, <3>1, RowFacts DEF RowOf
    <3>3. StoredRow(k) = RowOf(now_DBC[j])
      BY <2>2 DEF StoredRow
    <3>4. QED
      BY <3>2, <3>3
  <2>3. CASE ~w_min.isBasic
    <3> DEFINE y == Trail(w_min)[k]
    <3>1. y.dbl \in Nat /\ y.tpl \in Nat /\ y.minus \in BOOLEAN
      BY <1>1, <2>1, TrailFacts DEF Node
    <3>2. chain[j] = [dbl |-> y.dbl, tpl |-> y.tpl, minus |-> y.minus]
      BY <1>4, <2>1, <2>3
    <3>3. StoredRow(k) = RowOf(y)
      BY <2>3 DEF StoredRow
    <3> HIDE DEF y
    <3>4. row(chain[position[k]]) = RowOf(y) /\ RowOf(y) \in Entry
      BY <2>1, <3>1, <3>2, RowFacts DEF RowOf
    <3>5. QED
      BY <3>3, <3>4
  <2>4. QED
    BY <2>2, <2>3
<1> HIDE DEF chain, row, position
<1>6. DBC_store0' = [k \in 0 .. MAX_2 - 1 |-> IF k < w_min.length THEN StoredRow(k)
                                              ELSE DBC_store0[k]]
  <2>1. \A k \in 0 .. MAX_2 - 1 : k < l => row(chain[position[k]]) = StoredRow(k)
    BY <1>1, <1>2, <1>5
  <2>2. QED
    BY <1>3, <2>1
<1>7. Unpackable'
  <2> HIDE DEF U
  <2>1. \A k \in 0 .. MAX_2 - 1 : IF k < l THEN chain[k] \in U ELSE now_DBC[k] \in U
    <3>1. \A k \in 0 .. MAX_2 - 1 : now_DBC[k] \in U
      BY <1>1 DEF CellRows
    <3>2. \A k \in 0 .. MAX_2 - 1 : k < l => k \in 0 .. l - 1
      BY <1>1, <1>2
    <3>3. QED
      BY <1>4, <3>1, <3>2
  <2>2. now_DBC' \in [0 .. MAX_2 - 1 -> U]
    BY <1>3, <2>1
  <2>3. QED
    BY <2>2 DEF Unpackable, CellRows, U
<1>8. QED
  BY <1>1, <1>2, <1>3, <1>5, <1>6, <1>7

(* A slot of such rows is a chain of n, for a chain on pointers ...        *)
LEMMA TrailStored ==
  ASSUME IndInv, pc = "columns", ~w_min.isBasic, NEW c \in Slot,
         \A k \in 0 .. w_min.length - 1 : c[k] = StoredRow(k)
  PROVE  LET l == w_min.length
         IN  /\ IsChain(c, l) /\ c[0].sign = 1 /\ Value(c, l) = n
             /\ \A k \in 1 .. l : Value(c, k) > 0
<1> DEFINE x == w_min
           l == x.length
           s == Trail(x)
           z == NodeSums(x)
           S == Sums(c)
<1>1. /\ TypeOK /\ CellsRight /\ n \in Nat \ {0} /\ x \in Node /\ l \in 1 .. MAX_2
      /\ Leads(x, n, MAX_2, MAX_3) /\ MAX_2 \in Nat \ {0}
  <2>1. n \in Scalars /\ TypeOK /\ CellsRight
    BY DEF IndInv, Called
  <2>2. x \in Node /\ l >= 1 /\ Leads(x, n, MAX_2, MAX_3)
    BY DEF IndInv, TypeOK, BestRight
  <2>3. l \in 1 .. MAX_2 /\ MAX_2 \in Nat \ {0}
    BY <2>2, MaxAssumption DEF Node
  <2>4. QED
    BY <2>1, <2>2, <2>3, ScalarFacts
<1>2. ~x.isNULL
  BY <1>1 DEF Leads, Linked
<1>3. (\A k \in 0 .. l : Remains(x, n, k)) /\ z[l] = n
  BY <1>1, <1>2, TrailLeads DEF NodeValue
<1>4. z[0] = 0 /\ \A k \in Nat : /\ s[k] \in Node /\ z[k] \in Int /\ NodeTerm(s[k]) \in Int
                                 /\ z[k + 1] = z[k] + NodeTerm(s[k])
  BY <1>1, TrailFacts, NodeSumsFacts
<1>5. ASSUME NEW k \in 0 .. l - 1
      PROVE  /\ c[k] = RowOf(s[k]) /\ TermValue(c[k]) = NodeTerm(s[k])
             /\ Linked(s[k]) /\ k \in Nat /\ k \in 0 .. l
  <2>1. k \in Nat /\ k \in 0 .. l /\ k < l
    BY <1>1
  <2>2. c[k] = RowOf(s[k])
    BY DEF StoredRow
  <2>3. s[k].dbl \in Nat /\ s[k].tpl \in Nat /\ s[k].minus \in BOOLEAN
    BY <1>4, <2>1 DEF Node
  <2>4. Linked(s[k])
    BY <1>3, <2>1 DEF Remains
  <2> HIDE DEF s
  <2>5. QED
    BY <2>1, <2>2, <2>3, <2>4, RowFacts
<1> HIDE DEF s
<1>6. \A k \in 0 .. l : S[k] = z[k]
  <2> DEFINE T == {k \in Nat : k <= l => S[k] = z[k]}
  <2>1. 0 \in T
    BY <1>4, RunningSumsFacts, MaxAssumption DEF Sums, Slot
  <2>2. ASSUME NEW k \in Nat, k \in T PROVE k + 1 \in T
    <3> SUFFICES ASSUME k + 1 <= l PROVE S[k + 1] = z[k + 1]
      OBVIOUS
    <3>1. k \in 0 .. l - 1 /\ k \in 0 .. MAX_2 - 1 /\ k <= l
      BY <1>1
    <3>2. S[k + 1] = S[k] + TermValue(c[k])
      BY <3>1, RunningSumsFacts, MaxAssumption DEF Sums, Slot
    <3>3. S[k] = z[k]
      BY <2>2, <3>1
    <3>4. QED
      BY <1>4, <1>5, <3>1, <3>2, <3>3
  <2>3. Nat \subseteq T
    <3> HIDE DEF T
    <3>1. QED
      BY <2>1, <2>2, SetInduction
  <2>4. QED
    BY <1>1, <2>3
<1>7. ASSUME NEW k \in 1 .. l PROVE z[k] > 0
  <2> DEFINE p == s[k - 1]
             m == Pow23(p.dbl, p.tpl)
  <2>1. k \in 0 .. l /\ k > 0 /\ k - 1 \in 0 .. l - 1 /\ k \in Nat
    BY <1>1
  <2>2. PICK table \in Tables : /\ n - z[k] = CellValue(table, p.dbl, p.tpl)
                                /\ table = "w" => m <= n
    BY <1>3, <2>1 DEF Remains, s
  <2>3. m \in Nat \ {0}
    <3>1. p.dbl \in Nat /\ p.tpl \in Nat
      BY <1>5, <2>1 DEF Linked, CellRows, CellColumns
    <3>2. QED
      BY <3>1, PowerSteps
  <2>4. n - z[k] = (n % m) - (IF table = "w" THEN 0 ELSE m)
    BY <2>2 DEF CellValue
  <2>5. z[k] \in Int
    BY <1>4, <2>1
  <2> HIDE DEF m
  <2>6. n % m \in 0 .. m - 1
    BY <1>1, <2>3
  <2>7. QED
    BY <1>1, <2>2, <2>3, <2>4, <2>5, <2>6
<1>8. c[0].sign = 1
  <2>1. 0 \in 0 .. l - 1 /\ 1 \in 1 .. l
    BY <1>1
  <2>2. z[1] > 0 /\ z[1] = z[0] + NodeTerm(s[0])
    BY <1>4, <1>7, <2>1
  <2>3. NodeTerm(s[0]) > 0 /\ NodeTerm(s[0]) \in Int
    BY <1>4, <2>2
  <2>4. ~s[0].minus
    <3>1. Pow23(s[0].dbl, s[0].tpl) \in Nat \ {0}
      <4>1. Linked(s[0])
        BY <1>5, <2>1
      <4>2. s[0].dbl \in Nat /\ s[0].tpl \in Nat
        BY <4>1 DEF Linked, CellRows, CellColumns
      <4>3. QED
        BY <4>2, PowerSteps
    <3>2. s[0].minus => NodeTerm(s[0]) = (-1) * Pow23(s[0].dbl, s[0].tpl)
      BY DEF NodeTerm
    <3> HIDE DEF s
    <3>3. QED
      BY <2>3, <3>1, <3>2
  <2>5. c[0] = RowOf(s[0])
    BY <1>5, <2>1
  <2>6. QED
    BY <2>4, <2>5 DEF RowOf
<1>9. IsChain(c, l)
  <2>1. \A k \in 0 .. l - 1 : c[k].sign \in {-1, 1}
    <3>1. \A y : RowOf(y).sign \in {-1, 1}
      BY DEF RowOf
    <3>2. QED
      BY <1>5, <3>1
  <2>2. ASSUME NEW k \in 1 .. l - 1
        PROVE  c[k].dbl <= c[k - 1].dbl /\ c[k].tpl <= c[k - 1].tpl
    <3>1. k \in 0 .. l - 1 /\ k - 1 \in 0 .. l - 1 /\ k > 0 /\ k < l /\ k \in 0 .. l
      BY <1>1
    <3>2. c[k] = RowOf(s[k]) /\ c[k - 1] = RowOf(s[k - 1])
      BY <1>5, <3>1
    <3>3. s[k].dbl <= s[k - 1].dbl /\ s[k].tpl <= s[k - 1].tpl
      BY <1>3, <3>1 DEF Remains, s
    <3>4. QED
      BY <3>2, <3>3 DEF RowOf
  <2>3. QED
    BY <2>1, <2>2 DEF IsChain
<1>10. \A k \in 1 .. l : Value(c, k) > 0
  <2>1. \A k \in 1 .. l : k \in 0 .. l
    BY <1>1
  <2>2. QED
    BY <1>6, <1>7, <2>1 DEF Value
<1>11. Value(c, l) = n
  BY <1>1, <1>3, <1>6 DEF Value
<1>12. QED
  BY <1>8, <1>9, <1>10, <1>11

(* ... and for the binary chain, unpacked from the start.                  *)
LEMMA BinaryStored ==
  ASSUME IndInv, pc = "columns", w_min.isBasic, NEW c \in Slot,
         \A k \in 0 .. w_min.length - 1 : c[k] = StoredRow(k)
  PROVE  LET l == w_min.length
         IN  /\ IsChain(c, l) /\ c[0].sign = 1 /\ Value(c, l) = n
             /\ \A k \in 1 .. l : Value(c, k) > 0
<1> DEFINE l == w_min.length
           a == now_DBC
           S == Sums(c)
           R(j) == n % Pow2[a[j].dbl]
           P(j) == Pow2[a[j].dbl]
<1>1. n \in Nat \ {0} /\ l \in 1 .. MAX_2 /\ BinaryOf(a, l, n) /\ MAX_2 \in Nat \ {0}
  <2>1. n \in Scalars
    BY DEF IndInv, Called
  <2>2. w_min \in Node /\ l >= 1 /\ BinaryOf(a, l, n)
    BY DEF IndInv, TypeOK, BestRight, BinaryRight
  <2>3. l \in 1 .. MAX_2 /\ MAX_2 \in Nat \ {0}
    BY <2>2, MaxAssumption DEF Node
  <2>4. QED
    BY <2>1, <2>2, <2>3, ScalarFacts
<1>2. ASSUME NEW j \in 0 .. l - 1
      PROVE  /\ a[j].dbl \in Nat /\ a[j].tpl = 0 /\ ~a[j].minus
             /\ P(j) \in Nat \ {0} /\ R(j) \in Nat
             /\ n % Pow2[a[j].dbl + 1] = R(j) + P(j)
             /\ j = 0 => R(j) = 0
             /\ j > 0 => a[j - 1].dbl < a[j].dbl /\ R(j) = R(j - 1) + P(j - 1)
  <2>1. a[j].dbl \in Nat /\ a[j].tpl = 0 /\ ~a[j].minus /\ n % Pow2[a[j].dbl + 1] = R(j) + P(j)
    BY <1>1 DEF BinaryOf, CellRows
  <2>2. P(j) \in Nat \ {0}
    BY <2>1, Pow2Facts
  <2>3. R(j) \in Nat
    BY <1>1, <2>2
  <2>4. j = 0 => R(j) = 0
    BY <1>1 DEF BinaryOf
  <2>5. j > 0 => a[j - 1].dbl < a[j].dbl /\ R(j) = R(j - 1) + P(j - 1)
    <3> SUFFICES ASSUME j > 0 PROVE a[j - 1].dbl < a[j].dbl /\ R(j) = R(j - 1) + P(j - 1)
      OBVIOUS
    <3>1. j # 0 /\ j - 1 \in 0 .. l - 1
      BY <1>1
    <3>2. a[j - 1].dbl < a[j].dbl /\ R(j) = n % Pow2[a[j - 1].dbl + 1]
      BY <1>1, <3>1 DEF BinaryOf
    <3>3. n % Pow2[a[j - 1].dbl + 1] = R(j - 1) + P(j - 1)
      BY <1>1, <3>1 DEF BinaryOf
    <3>4. QED
      BY <3>2, <3>3
  <2>6. QED
    BY <2>1, <2>2, <2>3, <2>4, <2>5
<1>3. ASSUME NEW k \in 0 .. l - 1
      PROVE  LET j == l - 1 - k
             IN  /\ j \in 0 .. l - 1
                 /\ c[k] = [sign |-> 1, dbl |-> a[j].dbl, tpl |-> 0]
                 /\ c[k].sign = 1 /\ TermValue(c[k]) = P(j)
  <2> DEFINE j == l - 1 - k
  <2>1. j \in 0 .. l - 1
    BY <1>1
  <2>2. a[j].dbl \in Nat /\ a[j].tpl = 0 /\ ~a[j].minus /\ P(j) \in Nat
    BY <1>2, <2>1
  <2>3. c[k] = RowOf(a[j])
    BY DEF StoredRow
  <2>4. c[k] = [sign |-> 1, dbl |-> a[j].dbl, tpl |-> 0]
    BY <2>2, <2>3 DEF RowOf
  <2>5. TermValue(c[k]) = 1 * (P(j) * Pow3[0])
    BY <2>4 DEF TermValue, Pow23
  <2>6. QED
    BY <2>1, <2>2, <2>4, <2>5, Pow3Facts
<1>4. \A k \in 1 .. l : S[k] = n - R(l - k) /\ S[k] > 0
  <2> DEFINE T == {k \in Nat : k + 1 <= l => S[k + 1] = n - R(l - (k + 1)) /\ S[k + 1] > 0}
  <2> HIDE DEF R, P
  <2>1. 0 \in T
    <3>1. 0 \in 0 .. l - 1 /\ 0 \in 0 .. MAX_2 - 1 /\ l - 1 \in 0 .. l - 1 /\ l - 1 - 0 = l - 1
      BY <1>1
    <3>2. TermValue(c[0]) = P(l - 1)
      BY <1>3, <3>1
    <3>3. S[1] = P(l - 1)
      <4>1. S[0 + 1] = S[0] + TermValue(c[0]) /\ S[0] = 0
        BY <3>1, RunningSumsFacts, MaxAssumption, SMTT(60) DEF Sums, Slot
      <4>2. P(l - 1) \in Nat
        BY <1>2, <3>1
      <4>3. QED
        BY <3>2, <4>1, <4>2
    <3>4. n = R(l - 1) + P(l - 1)
      <4>1. n < Pow2[a[l - 1].dbl + 1]
        BY <1>1 DEF BinaryOf
      <4>2. Pow2[a[l - 1].dbl + 1] \in Nat
        <5>1. a[l - 1].dbl + 1 \in Nat
          BY <1>2, <3>1
        <5>2. QED
          BY <5>1, Pow2Facts
      <4>3. n % Pow2[a[l - 1].dbl + 1] = n
        BY <1>1, <4>1, <4>2
      <4>4. n % Pow2[a[l - 1].dbl + 1] = R(l - 1) + P(l - 1)
        BY <1>2, <3>1
      <4>5. QED
        BY <4>3, <4>4
    <3>5. P(l - 1) \in Nat \ {0} /\ R(l - 1) \in Nat
      BY <1>2, <3>1
    <3>6. S[1] = n - R(l - 1) /\ S[1] > 0
      BY <3>3, <3>4, <3>5
    <3>7. 0 + 1 = 1 /\ l - (0 + 1) = l - 1
      BY <1>1
    <3>8. QED
      BY <3>6, <3>7
  <2>2. ASSUME NEW k \in Nat, k \in T PROVE k + 1 \in T
    <3> DEFINE i == k + 1
    <3> SUFFICES ASSUME i + 1 <= l PROVE S[i + 1] = n - R(l - (i + 1)) /\ S[i + 1] > 0
      OBVIOUS
    <3>1. /\ i \in 0 .. l - 1 /\ i \in 0 .. MAX_2 - 1 /\ k + 1 <= l
          /\ l - i \in 0 .. l - 1 /\ l - i > 0 /\ l - i - 1 = l - 1 - i /\ l - (i + 1) = l - 1 - i
          /\ l - 1 - i \in 0 .. l - 1
      BY <1>1
    <3>2. S[i] = n - R(l - i) /\ S[i] > 0
      BY <2>2, <3>1
    <3>3. S[i + 1] = S[i] + TermValue(c[i])
      <4>1. \A x \in 0 .. MAX_2 - 1 : S[x + 1] = S[x] + TermValue(c[x])
        BY <1>1, RunningSumsFacts, MaxAssumption DEF Sums, Slot
      <4>2. QED
        BY <3>1, <4>1
    <3>4. TermValue(c[i]) = P(l - 1 - i)
      BY <1>3, <3>1
    <3> HIDE DEF i
    <3>5. R(l - i) = R(l - 1 - i) + P(l - 1 - i) /\ R(l - i) \in Nat
      <4>1. R(l - i) = R((l - i) - 1) + P((l - i) - 1) /\ R(l - i) \in Nat
        BY <1>2, <3>1
      <4>2. QED
        BY <3>1, <4>1
    <3>6. R(l - 1 - i) \in Nat /\ P(l - 1 - i) \in Nat
      BY <1>2, <3>1
    <3>7. S[i + 1] = n - R(l - 1 - i) /\ S[i + 1] > 0
      BY <1>1, <3>2, <3>3, <3>4, <3>5, <3>6
    <3>8. QED
      BY <3>1, <3>7
  <2>3. Nat \subseteq T
    <3> HIDE DEF T
    <3>1. QED
      BY <2>1, <2>2, SetInduction
  <2>4. ASSUME NEW k \in 1 .. l PROVE S[k] = n - R(l - k) /\ S[k] > 0
    <3> DEFINE i == k - 1
    <3>1. i \in Nat /\ i + 1 = k /\ i + 1 <= l
      BY <1>1
    <3>2. i \in T
      BY <2>3, <3>1
    <3> HIDE DEF i
    <3>3. QED
      BY <3>1, <3>2
  <2>5. QED
    BY <2>4
<1>5. Value(c, l) = n
  <2>1. l \in 1 .. l /\ l - l = 0 /\ 0 \in 0 .. l - 1
    BY <1>1
  <2>2. S[l] = n - R(0) /\ R(0) = 0
    BY <1>2, <1>4, <2>1
  <2>3. QED
    BY <1>1, <2>2 DEF Value
<1>6. \A k \in 1 .. l : Value(c, k) > 0
  BY <1>4 DEF Value
<1>7. c[0].sign = 1
  <2>1. 0 \in 0 .. l - 1
    BY <1>1
  <2>2. QED
    BY <1>3, <2>1
<1>8. IsChain(c, l)
  <2>1. \A k \in 0 .. l - 1 : c[k].sign \in {-1, 1}
    BY <1>3
  <2>2. ASSUME NEW k \in 1 .. l - 1
        PROVE  c[k].dbl <= c[k - 1].dbl /\ c[k].tpl <= c[k - 1].tpl
    <3> DEFINE j == l - k
    <3>1. /\ k \in 0 .. l - 1 /\ k - 1 \in 0 .. l - 1 /\ j \in 0 .. l - 1 /\ j > 0
          /\ l - 1 - k = j - 1 /\ l - 1 - (k - 1) = j /\ j - 1 \in 0 .. l - 1
      BY <1>1
    <3>2. a[j - 1].dbl < a[j].dbl /\ a[j].dbl \in Nat /\ a[j - 1].dbl \in Nat
      BY <1>2, <3>1
    <3>3. /\ c[k] = [sign |-> 1, dbl |-> a[l - 1 - k].dbl, tpl |-> 0]
          /\ c[k - 1] = [sign |-> 1, dbl |-> a[l - 1 - (k - 1)].dbl, tpl |-> 0]
      BY <1>3, <3>1
    <3> HIDE DEF j
    <3>4. c[k].dbl = a[j - 1].dbl /\ c[k - 1].dbl = a[j].dbl /\ c[k].tpl = 0 /\ c[k - 1].tpl = 0
      BY <3>1, <3>3
    <3>5. QED
      BY <3>2, <3>4
  <2>3. QED
    BY <2>1, <2>2 DEF IsChain
<1>9. QED
  BY <1>5, <1>6, <1>7, <1>8

(* Store leaves a chain of n in the slot.                                  *)
LEMMA StoreInductive ==
  ASSUME IndInv, Store
  PROVE  IndInv'
<1> DEFINE l == w_min.length
<1>1. /\ pc = "columns" /\ pc' = "done" /\ n' = n /\ w' = w /\ w_' = w_ /\ w_min' = w_min
      /\ bBound' = bBound /\ loopVars' = loopVars
  BY DEF Store, StoreInOrder
<1>2. TypeOK /\ MAX_2 \in Nat \ {0}
  BY MaxAssumption DEF IndInv
<1>3. /\ l \in 1 .. MAX_2 /\ Unpackable' /\ DBC_len0' = l
      /\ \A k \in 0 .. l - 1 : StoredRow(k) \in Entry
      /\ DBC_store0' = [k \in 0 .. MAX_2 - 1 |-> IF k < l THEN StoredRow(k) ELSE DBC_store0[k]]
  BY StoreFacts
<1>4. PICK c : c = DBC_store0'
  OBVIOUS
<1>5. c \in Slot /\ \A k \in 0 .. l - 1 : c[k] = StoredRow(k)
  <2>1. \A k \in 0 .. MAX_2 - 1 : IF k < l THEN StoredRow(k) \in Entry
                                          ELSE DBC_store0[k] \in Entry
    <3>1. \A k \in 0 .. MAX_2 - 1 : DBC_store0[k] \in Entry
      BY <1>2 DEF TypeOK, Slot
    <3>2. \A k \in 0 .. MAX_2 - 1 : k < l => k \in 0 .. l - 1
      BY <1>2, <1>3
    <3>3. QED
      BY <1>3, <3>1, <3>2
  <2>2. c \in Slot
    BY <1>3, <1>4, <2>1 DEF Slot
  <2>3. \A k \in 0 .. l - 1 : k < l /\ k \in 0 .. MAX_2 - 1
    BY <1>2, <1>3
  <2>4. QED
    BY <1>3, <1>4, <2>2, <2>3
<1>6. IsChain(c, l) /\ c[0].sign = 1 /\ Value(c, l) = n /\ \A k \in 1 .. l : Value(c, k) > 0
  BY <1>1, <1>5, TrailStored, BinaryStored
<1>7. TypeOK'
  <2>1. DBC_store0' \in Slot /\ DBC_len0' \in 0 .. MAX_2
    BY <1>2, <1>3, <1>4, <1>5
  <2>2. QED
    BY <1>1, <1>2, <2>1 DEF TypeOK, loopVars
<1>8. ReturnsChainOfN'
  <2>1. /\ l \in 1 .. MAX_2 /\ IsChain(DBC_store0', l) /\ (DBC_store0')[0].sign = 1
        /\ Value(DBC_store0', l) = n /\ \A k \in 1 .. l : Value(DBC_store0', k) > 0
    BY <1>3, <1>4, <1>6
  <2>2. /\ DBC_len0' \in 1 .. MAX_2 /\ IsChain(DBC_store0', DBC_len0')
        /\ (DBC_store0')[0].sign = 1 /\ Value(DBC_store0', DBC_len0') = n'
        /\ \A k \in 1 .. DBC_len0' : Value(DBC_store0', k) > 0
    BY <1>1, <1>3, <2>1
  <2>3. QED
    BY <2>2 DEF ReturnsChainOfN
<1>9. BlocksRight' /\ BestRight'
  BY <1>1 DEF BlocksRight, BestRight
<1>10. CellsRight' /\ Borders' /\ BoundsRight' /\ n' \in Scalars
  BY LoopKeeps DEF LoopStep
<1>11. QED
  BY <1>3, <1>7, <1>8, <1>9, <1>10 DEF IndInv

(* A step of other components.                                             *)
LEMMA StutterInductive ==
  ASSUME IndInv, UNCHANGED vars
  PROVE  IndInv'
<1>1. UNCHANGED <<pc, n, w, w_, w_min, now_DBC, bBound>> /\ UNCHANGED <<loopVars, resultVars>>
  BY DEF vars
<1>2. UNCHANGED <<i_outer, j_outer, i_inner, j_inner, record_outer, temp_outer, n0,
                  DBC_store0, DBC_len0>>
  BY <1>1 DEF loopVars, resultVars
<1>3. Kept /\ \A d \in CellRows, e \in CellColumns : Filled(d, e)' => Filled(d, e)
  BY <1>1, <1>2 DEF Kept, Filled, Inside, Passed, t, b, log3B, B
<1>4. Called => CellsRight'
  BY <1>3, KeptCells DEF IndInv
<1>5. TypeOK' /\ Unpackable' /\ (Called => n \in Scalars)' /\ Borders'
  BY <1>1, <1>2 DEF IndInv, TypeOK, Unpackable, Called, Borders, Null
<1>6. BoundsRight' /\ BlocksRight'
  BY <1>1, <1>2 DEF IndInv, BoundsRight, BlocksRight, Called, log3B, six_n, B
<1>7. BestRight'
  <2>1. \A x, v, d, e : Leads(x, v, d, e) => Leads(x, v, d, e)'
    BY <1>3, KeptLeads DEF IndInv
  <2>2. BinaryRight => BinaryRight'
    BY <1>1 DEF BinaryRight, BinaryOf
  <2>3. Leads(w_min, n, MAX_2, MAX_3) => Leads(w_min, n, MAX_2, MAX_3)'
    <3>1. PICK x : x = w_min
      OBVIOUS
    <3>2. PICK v : v = n
      OBVIOUS
    <3>3. Leads(x, v, MAX_2, MAX_3) => Leads(x, v, MAX_2, MAX_3)'
      BY <2>1
    <3>4. x = w_min' /\ v = n'
      BY <1>1, <3>1, <3>2
    <3>5. QED
      BY <3>1, <3>2, <3>3, <3>4
  <2>4. QED
    BY <1>1, <2>2, <2>3 DEF IndInv, BestRight
<1>8. ReturnsChainOfN'
  BY <1>1, <1>2 DEF IndInv, ReturnsChainOfN
<1>9. (Called => CellsRight)'
  BY <1>1, <1>4 DEF Called
<1>10. QED
  BY <1>5, <1>6, <1>7, <1>8, <1>9 DEF IndInv

-----------------------------------------------------------------------------
(* Every step keeps the inductive invariant.                               *)
LEMMA NextInductive == IndInv /\ [Next]_vars => IndInv'
<1> SUFFICES ASSUME IndInv, [Next]_vars PROVE IndInv'
  OBVIOUS
<1>1. CASE \E m \in Scalars : Call(m)
  BY <1>1, CallInductive
<1>2. CASE NextBand \/ NextBlock \/ EndBand \/ EndBlock \/ EndColumn
  BY <1>2, BlocksInductive
<1>3. CASE Cell
  BY <1>3, CellInductive
<1>4. CASE Store
  BY <1>4, StoreInductive
<1>5. CASE UNCHANGED vars
  BY <1>5, StutterInductive
<1>6. QED
  BY <1>1, <1>2, <1>3, <1>4, <1>5 DEF Next

(* The inductive invariant holds in every behaviour of getOptimalDBC: in   *)
(* particular, while the cells are being filled, each cell passed in this  *)
(* call leads a chain of its residue, through cells passed in this call.   *)
THEOREM Inductive == Spec => []IndInv
  BY InitInductive, NextInductive, PTL DEF Spec

(* Type correctness: no index of w, w_, bBound or now_DBC leaves its       *)
(* array, and no chain is longer than a slot of DBC_store.                 *)
THEOREM TypeCorrect == Spec => []TypeOK
<1>1. IndInv => TypeOK
  BY DEF IndInv
<1>2. QED
  BY <1>1, Inductive, PTL

(* Whatever the block sizes, the part n0 of 6n that a block keeps gives    *)
(* the same sixth for each of its cells as 6n itself would.                *)
THEOREM SixthsAreExact == Spec => []SixthExact
<1>1. IndInv => SixthExact
  <2> SUFFICES ASSUME IndInv, pc = "cells" PROVE SixthExact
    BY DEF SixthExact
  <2>1. n \in Nat
    BY ScalarFacts DEF IndInv, Called
  <2>2. {i_outer, j_outer, i_inner, j_inner} \subseteq Nat /\ BlocksRight
    BY DEF IndInv, TypeOK
  <2>3. QED
    BY <2>1, <2>2, SixthOfCell
<1>2. QED
  BY <1>1, Inductive, PTL

(* After a call every cell within the bounds that is not NULL leads a      *)
(* chain of the residue of this n, or of that residue less the modulus:    *)
(* the pointers of simDBC reach no cell that an earlier call left behind.  *)
THEOREM TablesHoldResidues == Spec => []CellsHoldResidues
<1>1. IndInv => CellsHoldResidues
  <2> SUFFICES ASSUME IndInv, pc = "done", NEW e \in 0 .. log3B, NEW d \in 0 .. bBound[e]
               PROVE  LET m == Pow23(d, e)
                      IN  /\ ~ w[<<d, e>>].isNULL  => NodeValue(w[<<d, e>>]) = n % m
                          /\ ~ w_[<<d, e>>].isNULL => NodeValue(w_[<<d, e>>]) = (n % m) - m
    BY DEF CellsHoldResidues
  <2>1. /\ n \in Scalars /\ TypeOK /\ CellsRight /\ n \in Nat \ {0}
        /\ MAX_2 \in Nat \ {0} /\ MAX_3 \in Nat \ {0} /\ MAX_3 < MAX_2
    BY ScalarFacts DEF IndInv, Called
  <2>2. log3B \in 0 .. MAX_3 - 1
    BY <2>1, Log3Facts DEF log3B, B
  <2>3. /\ e \in CellColumns /\ e \in 0 .. MAX_2 - 1 /\ e <= log3B /\ e \in 0 .. log3B
    BY <2>1, <2>2 DEF CellColumns
  <2>4. bBound[e] \in 0 .. MAX_2
    BY <2>1, <2>3 DEF TypeOK
  <2>5. d \in 0 .. MAX_2 /\ d <= bBound[e]
    BY <2>1, <2>4
  <2>6. d \in CellRows
    <3>1. Pow23(d, e) <= 2 * n
      BY <2>1, <2>3, <2>5 DEF IndInv, BoundsRight, Called, B
    <3>2. d \in Nat /\ e \in Nat
      BY <2>1, <2>3, <2>5
    <3>3. d + e <= MAX_2 - 2
      BY <2>1, <3>1, <3>2, ExponentsShort
    <3>4. QED
      BY <2>1, <3>2, <3>3 DEF CellRows
  <2>7. Filled(d, e)
    BY <2>3, <2>5 DEF Filled, Inside, Passed
  <2>8. w[<<d, e>>] \in Node /\ w_[<<d, e>>] \in Node
    BY <2>1, <2>3, <2>6, CellNodes DEF CellRows, CellColumns, Rows, Columns
  <2>9. ASSUME NEW table \in Tables, NEW x \in Node, ~x.isNULL, CellRight(x, table, d, e)
        PROVE  NodeValue(x) = CellValue(table, d, e)
    <3>1. Leads(x, CellValue(table, d, e), d, e)
      BY <2>9 DEF CellRight, Null
    <3> DEFINE v == CellValue(table, d, e)
    <3>2. v \in Int
      <4> DEFINE m == Pow23(d, e)
      <4>1. m \in Nat \ {0}
        BY <2>3, <2>5, PowerSteps
      <4>2. v = (n % m) - (IF table = "w" THEN 0 ELSE m)
        BY DEF CellValue
      <4> HIDE DEF m
      <4>3. n % m \in Int
        BY <2>1, <4>1
      <4> HIDE DEF v
      <4>4. QED
        BY <4>1, <4>2, <4>3
    <3> HIDE DEF v
    <3>3. n \in Nat /\ Leads(x, v, d, e)
      BY <2>1, <3>1 DEF v
    <3>4. NodeValue(x) = v
      BY <2>1, <2>9, <3>2, <3>3, TrailLeads
    <3>5. QED
      BY <3>4 DEF v
  <2>10. CellRight(w[<<d, e>>], "w", d, e) /\ CellRight(w_[<<d, e>>], "w_", d, e)
    BY <2>1, <2>3, <2>6, <2>7 DEF CellsRight
  <2>11. /\ ~ w[<<d, e>>].isNULL  => NodeValue(w[<<d, e>>]) = CellValue("w", d, e)
         /\ ~ w_[<<d, e>>].isNULL => NodeValue(w_[<<d, e>>]) = CellValue("w_", d, e)
    BY <2>8, <2>9, <2>10 DEF Tables
  <2>12. /\ CellValue("w_", d, e) = (n % Pow23(d, e)) - Pow23(d, e)
         /\ CellValue("w", d, e) = (n % Pow23(d, e)) - 0
    BY DEF CellValue
  <2>13. (n % Pow23(d, e)) - 0 = n % Pow23(d, e)
    <3> DEFINE m == Pow23(d, e)
    <3>1. m \in Nat \ {0}
      BY <2>3, <2>5, PowerSteps
    <3> HIDE DEF m
    <3>2. (n % m) - 0 = n % m
      BY <2>1, <3>1
    <3>3. QED
      BY <3>2 DEF m
  <2>14. QED
    BY <2>11, <2>12, <2>13
<1>2. QED
  BY <1>1, Inductive, PTL

(* Every call returns a chain of exactly its n, with a positive leading    *)
(* term and no prefix of 0 or less: what DBC_POINT_mul relies on.          *)
THEOREM ReturnsChain == Spec => []ReturnsChainOfN
<1>1. IndInv => ReturnsChainOfN
  BY DEF IndInv
<1>2. QED
  BY <1>1, Inductive, PTL

-----------------------------------------------------------------------------
(* The node of a cell leads a shortest chain of its residue: no chain      *)
(* below the modulus has fewer terms.  Its own term is not the modulus.    *)
CellShort(x, table, d, e) ==
  /\ \A l \in Nat : Under(l, CellValue(table, d, e), d, e) => getL(x) <= l
  /\ x.isNULL \/ x.isBasic \/ x.dbl # d \/ x.tpl # e

CellsShort ==
  \A d \in CellRows, e \in CellColumns :
    Filled(d, e) => /\ CellShort(w[<<d, e>>], "w", d, e)
                    /\ CellShort(w_[<<d, e>>], "w_", d, e)

(* A term more, by its length.                                             *)
LEMMA LengthFacts ==
  ASSUME NEW x \in Node, NEW p, NEW d, NEW e, NEW coef
  PROVE  LET y == add(x, p, d, e, coef) IN
         /\ getL(x) \in Nat /\ getL(y) \in Nat /\ getL(y) <= getL(x) + 1
         /\ x.isNULL => y.isNULL
         /\ ~x.isNULL => y.dbl = d /\ y.tpl = e
<1>1. x.length \in Nat /\ Infinite \in Nat
  BY DEF Node, Infinite
<1>2. CASE x.isNULL
  BY <1>1, <1>2 DEF getL, add
<1>3. CASE ~x.isNULL
  <2>1. /\ add(x, p, d, e, coef).length = x.length + 1 /\ ~add(x, p, d, e, coef).isNULL
        /\ add(x, p, d, e, coef).dbl = d /\ add(x, p, d, e, coef).tpl = e
    BY <1>3 DEF add, FreshNode, NullNode
  <2>2. QED
    BY <1>1, <1>3, <2>1 DEF getL
<1>4. QED
  BY <1>2, <1>3

(* minL3 picks a shortest chain of three.                                  *)
LEMMA ShortestOfThree ==
  ASSUME NEW x, NEW y, NEW q, getL(x) \in Nat, getL(y) \in Nat, getL(q) \in Nat
  PROVE  /\ getL(minL3(x, y, q)) <= getL(x)
         /\ getL(minL3(x, y, q)) <= getL(y)
         /\ getL(minL3(x, y, q)) <= getL(q)
<1>1. \A u, v : getL(minL2(u, v)) = IF getL(u) < getL(v) THEN getL(u) ELSE getL(v)
  BY DEF minL2
<1>2. getL(minL3(x, y, q)) = IF getL(x) < getL(y) THEN getL(minL2(x, q)) ELSE getL(minL2(y, q))
  BY DEF minL3
<1>3. QED
  BY <1>1, <1>2

(* What a cell takes from a cell with half or a third of its modulus: the  *)
(* node there, which leads a shortest chain, or that node with a term on   *)
(* top, which is below the modulus.                                        *)
LEMMA ShortNeighbour ==
  ASSUME IndInv, CellsShort, InCell, b <= bBound[t],
         NEW d, NEW e, (d = b - 1 /\ e = t) \/ (d = b /\ e = t - 1),
         NEW source \in Tables, NEW coef \in {-1, 1}
  PROVE  LET p == <<source, d, e>>
             x == Deref(p)
             y == add(x, p, d, e, coef)
             low(z) == z.isNULL \/ z.isBasic \/ z.dbl # b \/ z.tpl # t
         IN  /\ getL(x) \in Nat /\ getL(y) \in Nat /\ low(x) /\ low(y)
             /\ d >= 0 /\ e >= 0 =>
                  \A l \in Nat :
                    LET v == CellValue(source, d, e) IN
                    /\ Under(l, v, d, e) \/ Shorter(l, v, d, e) => getL(x) <= l
                    /\ Shorter(l, v, d, e) => getL(y) <= l
<1> DEFINE p == <<source, d, e>>
           x == Deref(p)
           y == add(x, p, d, e, coef)
           v == CellValue(source, d, e)
<1>1. /\ b \in CellRows /\ t \in CellColumns /\ b \in Nat /\ t \in Nat /\ Called
      /\ MAX_2 \in Nat \ {0} /\ MAX_3 \in Nat \ {0} /\ TypeOK /\ Borders /\ CellsRight
  BY PositionFacts DEF IndInv
<1>2. x \in Node /\ (x.isNULL \/ x = ZeroNode \/ (x.dbl \in Nat /\ x.tpl \in Nat /\ x.dbl <= d /\ x.tpl <= e))
      /\ (d >= 0 /\ e >= 0 => CellShort(x, source, d, e))
  <2>1. CASE d >= 0 /\ e >= 0
    <3>1. d \in CellRows /\ e \in CellColumns /\ Filled(d, e)
      BY <1>1, <2>1, NeighbourFilled
    <3>2. x \in Node /\ x = IF source = "w" THEN w[<<d, e>>] ELSE w_[<<d, e>>]
      BY <1>1, <3>1, CellNodes
    <3>3. CellShort(x, source, d, e) /\ CellRight(x, source, d, e)
      BY <1>1, <3>1, <3>2 DEF CellsShort, CellsRight, Tables
    <3>4. x.dbl \in Nat /\ x.tpl \in Nat
      BY <3>2 DEF Node
    <3> HIDE DEF x
    <3>5. QED
      BY <3>2, <3>3, <3>4 DEF CellRight, Null, Leads
  <2>2. CASE ~(d >= 0 /\ e >= 0)
    <3>1. (d = -1 /\ e \in Columns) \/ (d \in Rows /\ e = -1)
      BY <1>1, <2>2 DEF CellRows, CellColumns, Rows, Columns
    <3>2. d \in Rows /\ e \in Columns /\ Null(w[<<d, e>>]) /\ Null(w_[<<d, e>>])
      BY <1>1, <3>1 DEF Borders, Rows, Columns
    <3>3. w[<<d, e>>] \in Node /\ w_[<<d, e>>] \in Node
      BY <1>1, <3>2, CellNodes
    <3>4. x = w[<<d, e>>] \/ x = w_[<<d, e>>]
      BY DEF Deref
    <3> HIDE DEF x
    <3>5. QED
      BY <2>2, <3>2, <3>3, <3>4 DEF Null
  <2>3. QED
    BY <2>1, <2>2
<1>3. /\ getL(x) \in Nat /\ getL(y) \in Nat /\ getL(y) <= getL(x) + 1
      /\ x.isNULL => y.isNULL
      /\ ~x.isNULL => y.dbl = d /\ y.tpl = e
  BY <1>2, LengthFacts
<1>4. ZeroNode.isBasic
  BY DEF ZeroNode
<1>5. d # b \/ e # t
  BY <1>1
<1>6. ASSUME d >= 0, e >= 0, NEW l \in Nat
      PROVE  /\ Under(l, v, d, e) \/ Shorter(l, v, d, e) => getL(x) <= l
             /\ Shorter(l, v, d, e) => getL(y) <= l
  <2>1. \A k \in Nat : Under(k, v, d, e) => getL(x) <= k
    BY <1>2, <1>6 DEF CellShort
  <2> HIDE DEF v, x, y
  <2>2. ASSUME Shorter(l, v, d, e) PROVE getL(x) + 1 <= l
    <3>1. PICK k \in Nat : k < l /\ Under(k, v, d, e)
      BY <2>2 DEF Shorter
    <3>2. QED
      BY <1>3, <2>1, <3>1
  <2>3. QED
    BY <1>3, <2>1, <2>2
<1> HIDE DEF x, y, v
<1>7. /\ x.isNULL \/ x.isBasic \/ x.dbl # b \/ x.tpl # t
      /\ y.isNULL \/ y.isBasic \/ y.dbl # b \/ y.tpl # t
  BY <1>1, <1>2, <1>3, <1>4, <1>5
<1>8. QED
  BY <1>3, <1>6, <1>7 DEF x, y, v

-----------------------------------------------------------------------------
(* What lines 55-72 put into w leads a shortest chain of the residue.      *)
LEMMA ResidueShort ==
  ASSUME IndInv, CellsShort, InCell, b <= bBound[t], b + t > 0
  PROVE  CellShort(Residue, "w", b, t)
<1> DEFINE m == Pow23(b, t)
           r == n % m
           h == Pow23(b - 1, t)
           g == Pow23(b, t - 1)
           Half(coef, q)  == LET p == <<q, b - 1, t>> IN add(Deref(p), p, b - 1, t, coef)
           Third(coef, q) == LET p == <<q, b, t - 1>> IN add(Deref(p), p, b, t - 1, coef)
           Low(z) == getL(z) \in Nat /\ (z.isNULL \/ z.isBasic \/ z.dbl # b \/ z.tpl # t)
<1>1. b \in Nat /\ t \in Nat /\ n \in Nat
  BY PositionFacts
<1>2. /\ m \in Nat \ {0} /\ r \in Nat /\ r < m
      /\ quot \in 0 .. 5 /\ quot * m <= 6 * r /\ 6 * r < quot * m + m
      /\ CellValue("w", b, t) = r
      /\ b > 0 => /\ h \in Nat \ {0} /\ m = 2 * h
                  /\ CellValue("w", b - 1, t) = (IF r < h THEN r ELSE r - h)
                  /\ CellValue("w_", b - 1, t) = (IF r < h THEN r - h ELSE r - 2 * h)
      /\ t > 0 => /\ g \in Nat \ {0} /\ m = 3 * g
                  /\ CellValue("w", b, t - 1) =
                       (IF r < g THEN r ELSE IF r < 2 * g THEN r - g ELSE r - 2 * g)
                  /\ CellValue("w_", b, t - 1) =
                       (IF r < g THEN r - g ELSE IF r < 2 * g THEN r - 2 * g ELSE r - 3 * g)
  BY ResidueFacts
<1>3. /\ (b > 0 => b - 1 >= 0) /\ (t > 0 => t - 1 >= 0) /\ b >= 0 /\ t >= 0
      /\ "w" \in Tables /\ "w_" \in Tables /\ 1 \in {-1, 1} /\ -1 \in {-1, 1}
  BY <1>1 DEF Tables
<1>4. /\ ByHalf(1, 1) = Half(1, "w") /\ ByHalf(1, -1) = Half(1, "w_")
      /\ ByThird(1, 1) = Third(1, "w") /\ ByThird(1, -1) = Third(1, "w_")
  BY DEF ByHalf, ByThird, Table
<1>5. /\ w[<<b - 1, t>>] = Deref(<<"w", b - 1, t>>) /\ w[<<b, t - 1>>] = Deref(<<"w", b, t - 1>>)
      /\ w_[<<b - 1, t>>] = Deref(<<"w_", b - 1, t>>) /\ w_[<<b, t - 1>>] = Deref(<<"w_", b, t - 1>>)
  BY DEF Deref
<1>6. ASSUME NEW q \in Tables
      PROVE  /\ Low(Deref(<<q, b - 1, t>>)) /\ Low(Half(1, q))
             /\ b > 0 => \A l \in Nat :
                  LET v == CellValue(q, b - 1, t) IN
                  /\ Under(l, v, b - 1, t) \/ Shorter(l, v, b - 1, t) => getL(Deref(<<q, b - 1, t>>)) <= l
                  /\ Shorter(l, v, b - 1, t) => getL(Half(1, q)) <= l
  <2>1. PICK d : d = b - 1
    OBVIOUS
  <2>2. /\ Low(Deref(<<q, d, t>>)) /\ Low(add(Deref(<<q, d, t>>), <<q, d, t>>, d, t, 1))
        /\ d >= 0 /\ t >= 0 => \A l \in Nat :
             LET v == CellValue(q, d, t) IN
             /\ Under(l, v, d, t) \/ Shorter(l, v, d, t) => getL(Deref(<<q, d, t>>)) <= l
             /\ Shorter(l, v, d, t) => getL(add(Deref(<<q, d, t>>), <<q, d, t>>, d, t, 1)) <= l
    BY <1>3, <2>1, ShortNeighbour
  <2>3. QED
    BY <1>3, <2>1, <2>2
<1>7. ASSUME NEW q \in Tables
      PROVE  /\ Low(Deref(<<q, b, t - 1>>)) /\ Low(Third(1, q))
             /\ t > 0 => \A l \in Nat :
                  LET v == CellValue(q, b, t - 1) IN
                  /\ Under(l, v, b, t - 1) \/ Shorter(l, v, b, t - 1) => getL(Deref(<<q, b, t - 1>>)) <= l
                  /\ Shorter(l, v, b, t - 1) => getL(Third(1, q)) <= l
  <2>1. PICK e : e = t - 1
    OBVIOUS
  <2>2. /\ Low(Deref(<<q, b, e>>)) /\ Low(add(Deref(<<q, b, e>>), <<q, b, e>>, b, e, 1))
        /\ b >= 0 /\ e >= 0 => \A l \in Nat :
             LET v == CellValue(q, b, e) IN
             /\ Under(l, v, b, e) \/ Shorter(l, v, b, e) => getL(Deref(<<q, b, e>>)) <= l
             /\ Shorter(l, v, b, e) => getL(add(Deref(<<q, b, e>>), <<q, b, e>>, b, e, 1)) <= l
    BY <1>3, <2>1, ShortNeighbour
  <2>3. QED
    BY <1>3, <2>1, <2>2
<1>8. ASSUME NEW l \in Nat, Under(l, r, b, t)
      PROVE  /\ 3 * r <= m =>
                  \/ b > 0 /\ (Under(l, r, b - 1, t) \/ Shorter(l, r, b - 1, t))
                  \/ t > 0 /\ (Under(l, r, b, t - 1) \/ Shorter(l, r - g, b, t - 1))
             /\ m <= 3 * r /\ 2 * r <= m =>
                  \/ b > 0 /\ (Under(l, r, b - 1, t) \/ Shorter(l, r - h, b - 1, t))
                  \/ t > 0 /\ Shorter(l, r - g, b, t - 1)
             /\ 2 * r >= m => b > 0 /\ Shorter(l, r - h, b - 1, t)
  <2>1. r >= 0
    BY <1>2
  <2> HIDE DEF r
  <2>2. QED
    BY <1>8, <2>1, Options DEF Lowered
<1> HIDE DEF Half, Third, Low, m, r, h, g
<1>9. CASE quot < 2
  <2>1. 3 * r < m
    BY <1>2, <1>9
  <2>2. Residue = minL3(w[<<b - 1, t>>], w[<<b, t - 1>>], Third(1, "w_"))
    BY <1>4, <1>9 DEF Residue
  <2>3. Low(w[<<b - 1, t>>]) /\ Low(w[<<b, t - 1>>]) /\ Low(Third(1, "w_"))
    BY <1>3, <1>5, <1>6, <1>7
  <2>4. ASSUME NEW l \in Nat, Under(l, r, b, t)
        PROVE  getL(w[<<b - 1, t>>]) <= l \/ getL(w[<<b, t - 1>>]) <= l \/ getL(Third(1, "w_")) <= l
    <3>1. CASE b > 0 /\ (Under(l, r, b - 1, t) \/ Shorter(l, r, b - 1, t))
      <4>1. CellValue("w", b - 1, t) = r
        BY <1>2, <2>1, <3>1
      <4>2. QED
        BY <1>3, <1>5, <1>6, <3>1, <4>1
    <3>2. CASE t > 0 /\ (Under(l, r, b, t - 1) \/ Shorter(l, r - g, b, t - 1))
      <4>1. CellValue("w", b, t - 1) = r /\ CellValue("w_", b, t - 1) = r - g
        BY <1>2, <2>1, <3>2
      <4>2. QED
        BY <1>3, <1>5, <1>7, <3>2, <4>1
    <3>3. QED
      BY <1>2, <1>8, <2>1, <2>4, <3>1, <3>2
  <2>5. QED
    BY <1>2, <2>2, <2>3, <2>4, ShortestOfThree, MinPicks DEF CellShort, Low
<1>10. CASE quot = 2
  <2>1. m <= 3 * r /\ 2 * r < m
    BY <1>2, <1>10
  <2>2. Residue = minL3(w[<<b - 1, t>>], Half(1, "w_"), Third(1, "w"))
    BY <1>4, <1>10 DEF Residue
  <2>3. Low(w[<<b - 1, t>>]) /\ Low(Half(1, "w_")) /\ Low(Third(1, "w"))
    BY <1>3, <1>5, <1>6, <1>7
  <2>4. ASSUME NEW l \in Nat, Under(l, r, b, t)
        PROVE  getL(w[<<b - 1, t>>]) <= l \/ getL(Half(1, "w_")) <= l \/ getL(Third(1, "w")) <= l
    <3>1. CASE b > 0 /\ (Under(l, r, b - 1, t) \/ Shorter(l, r - h, b - 1, t))
      <4>1. CellValue("w", b - 1, t) = r /\ CellValue("w_", b - 1, t) = r - h
        BY <1>2, <2>1, <3>1
      <4>2. QED
        BY <1>3, <1>5, <1>6, <3>1, <4>1
    <3>2. CASE t > 0 /\ Shorter(l, r - g, b, t - 1)
      <4>1. CellValue("w", b, t - 1) = r - g
        BY <1>2, <2>1, <3>2
      <4>2. QED
        BY <1>3, <1>7, <3>2, <4>1
    <3>3. QED
      BY <1>2, <1>8, <2>1, <2>4, <3>1, <3>2
  <2>5. QED
    BY <1>2, <2>2, <2>3, <2>4, ShortestOfThree, MinPicks DEF CellShort, Low
<1>11. CASE quot > 2
  <2>1. m <= 2 * r
    <3>1. 3 * m <= quot * m
      <4>1. quot = 3 \/ quot = 4 \/ quot = 5
        BY <1>2, <1>11
      <4>2. QED
        BY <1>2, <4>1
    <3>2. quot * m \in Nat
      BY <1>2
    <3>3. QED
      BY <1>2, <3>1, <3>2
  <2>2. Residue = Half(1, "w")
    BY <1>2, <1>4, <1>11 DEF Residue
  <2>3. Low(Half(1, "w"))
    BY <1>3, <1>6
  <2>4. ASSUME NEW l \in Nat, Under(l, r, b, t) PROVE getL(Half(1, "w")) <= l
    <3>1. b > 0 /\ Shorter(l, r - h, b - 1, t)
      BY <1>2, <1>8, <2>1, <2>4
    <3>2. CellValue("w", b - 1, t) = r - h
      BY <1>2, <2>1, <3>1
    <3>3. QED
      BY <1>3, <1>6, <3>1, <3>2
  <2>5. QED
    BY <1>2, <2>2, <2>3, <2>4 DEF CellShort, Low
<1>12. QED
  BY <1>2, <1>9, <1>10, <1>11


-----------------------------------------------------------------------------
(* What lines 58-73 put into w_ leads a shortest chain of the complement.  *)
LEMMA ComplementShort ==
  ASSUME IndInv, CellsShort, InCell, b <= bBound[t], b + t > 0
  PROVE  CellShort(Complement, "w_", b, t)
<1> DEFINE m == Pow23(b, t)
           r == n % m
           h == Pow23(b - 1, t)
           g == Pow23(b, t - 1)
           Half(coef, q)  == LET p == <<q, b - 1, t>> IN add(Deref(p), p, b - 1, t, coef)
           Third(coef, q) == LET p == <<q, b, t - 1>> IN add(Deref(p), p, b, t - 1, coef)
           Low(z) == getL(z) \in Nat /\ (z.isNULL \/ z.isBasic \/ z.dbl # b \/ z.tpl # t)
<1>1. b \in Nat /\ t \in Nat /\ n \in Nat
  BY PositionFacts
<1>2. /\ m \in Nat \ {0} /\ r \in Nat /\ r < m
      /\ quot \in 0 .. 5 /\ quot * m <= 6 * r /\ 6 * r < quot * m + m
      /\ CellValue("w_", b, t) = r - m
      /\ b > 0 => /\ h \in Nat \ {0} /\ m = 2 * h
                  /\ CellValue("w", b - 1, t) = (IF r < h THEN r ELSE r - h)
                  /\ CellValue("w_", b - 1, t) = (IF r < h THEN r - h ELSE r - 2 * h)
      /\ t > 0 => /\ g \in Nat \ {0} /\ m = 3 * g
                  /\ CellValue("w", b, t - 1) =
                       (IF r < g THEN r ELSE IF r < 2 * g THEN r - g ELSE r - 2 * g)
                  /\ CellValue("w_", b, t - 1) =
                       (IF r < g THEN r - g ELSE IF r < 2 * g THEN r - 2 * g ELSE r - 3 * g)
  BY ResidueFacts
<1>3. /\ (b > 0 => b - 1 >= 0) /\ (t > 0 => t - 1 >= 0) /\ b >= 0 /\ t >= 0
      /\ "w" \in Tables /\ "w_" \in Tables /\ 1 \in {-1, 1} /\ -1 \in {-1, 1}
  BY <1>1 DEF Tables
<1>4. /\ ByHalf(-1, 1) = Half(-1, "w") /\ ByHalf(-1, -1) = Half(-1, "w_")
      /\ ByThird(-1, 1) = Third(-1, "w") /\ ByThird(-1, -1) = Third(-1, "w_")
  BY DEF ByHalf, ByThird, Table
<1>5. /\ w[<<b - 1, t>>] = Deref(<<"w", b - 1, t>>) /\ w[<<b, t - 1>>] = Deref(<<"w", b, t - 1>>)
      /\ w_[<<b - 1, t>>] = Deref(<<"w_", b - 1, t>>) /\ w_[<<b, t - 1>>] = Deref(<<"w_", b, t - 1>>)
  BY DEF Deref
<1>6. ASSUME NEW q \in Tables
      PROVE  /\ Low(Deref(<<q, b - 1, t>>)) /\ Low(Half(-1, q))
             /\ b > 0 => \A l \in Nat :
                  LET v == CellValue(q, b - 1, t) IN
                  /\ Under(l, v, b - 1, t) \/ Shorter(l, v, b - 1, t) => getL(Deref(<<q, b - 1, t>>)) <= l
                  /\ Shorter(l, v, b - 1, t) => getL(Half(-1, q)) <= l
  <2>1. PICK d : d = b - 1
    OBVIOUS
  <2>2. /\ Low(Deref(<<q, d, t>>)) /\ Low(add(Deref(<<q, d, t>>), <<q, d, t>>, d, t, -1))
        /\ d >= 0 /\ t >= 0 => \A l \in Nat :
             LET v == CellValue(q, d, t) IN
             /\ Under(l, v, d, t) \/ Shorter(l, v, d, t) => getL(Deref(<<q, d, t>>)) <= l
             /\ Shorter(l, v, d, t) => getL(add(Deref(<<q, d, t>>), <<q, d, t>>, d, t, -1)) <= l
    BY <1>3, <2>1, ShortNeighbour
  <2>3. QED
    BY <1>3, <2>1, <2>2
<1>7. ASSUME NEW q \in Tables
      PROVE  /\ Low(Deref(<<q, b, t - 1>>)) /\ Low(Third(-1, q))
             /\ t > 0 => \A l \in Nat :
                  LET v == CellValue(q, b, t - 1) IN
                  /\ Under(l, v, b, t - 1) \/ Shorter(l, v, b, t - 1) => getL(Deref(<<q, b, t - 1>>)) <= l
                  /\ Shorter(l, v, b, t - 1) => getL(Third(-1, q)) <= l
  <2>1. PICK e : e = t - 1
    OBVIOUS
  <2>2. /\ Low(Deref(<<q, b, e>>)) /\ Low(add(Deref(<<q, b, e>>), <<q, b, e>>, b, e, -1))
        /\ b >= 0 /\ e >= 0 => \A l \in Nat :
             LET v == CellValue(q, b, e) IN
             /\ Under(l, v, b, e) \/ Shorter(l, v, b, e) => getL(Deref(<<q, b, e>>)) <= l
             /\ Shorter(l, v, b, e) => getL(add(Deref(<<q, b, e>>), <<q, b, e>>, b, e, -1)) <= l
    BY <1>3, <2>1, ShortNeighbour
  <2>3. QED
    BY <1>3, <2>1, <2>2
<1>8. ASSUME NEW l \in Nat, Under(l, r - m, b, t)
      PROVE  /\ 2 * m <= 3 * r =>
                  \/ b > 0 /\ (Under(l, r - m, b - 1, t) \/ Shorter(l, r - m, b - 1, t))
                  \/ t > 0 /\ (Under(l, r - m, b, t - 1) \/ Shorter(l, (r - m) + g, b, t - 1))
             /\ m <= 2 * r /\ 3 * r <= 2 * m =>
                  \/ b > 0 /\ (Under(l, r - m, b - 1, t) \/ Shorter(l, (r - m) + h, b - 1, t))
                  \/ t > 0 /\ Shorter(l, (r - m) + g, b, t - 1)
             /\ 2 * r <= m => b > 0 /\ Shorter(l, (r - m) + h, b - 1, t)
  <2>1. PICK v : v = r - m
    OBVIOUS
  <2> HIDE DEF r, m
  <2>2. v <= 0 /\ (2 * m <= 3 * r => -3 * v <= m) /\ (3 * r <= 2 * m => m <= -3 * v)
        /\ (m <= 2 * r => -2 * v <= m) /\ (2 * r <= m => -2 * v >= m)
    BY <1>2, <2>1
  <2>3. /\ -3 * v <= m =>
              \/ b > 0 /\ (Under(l, v, b - 1, t) \/ Shorter(l, v, b - 1, t))
              \/ t > 0 /\ (Under(l, v, b, t - 1) \/ Shorter(l, v + g, b, t - 1))
        /\ m <= -3 * v /\ -2 * v <= m =>
              \/ b > 0 /\ (Under(l, v, b - 1, t) \/ Shorter(l, v + h, b - 1, t))
              \/ t > 0 /\ Shorter(l, v + g, b, t - 1)
        /\ -2 * v >= m => b > 0 /\ Shorter(l, v + h, b - 1, t)
    BY <1>8, <2>1, <2>2, NegativeOptions DEF m
  <2>4. QED
    BY <2>1, <2>2, <2>3
<1> HIDE DEF Half, Third, Low, m, r, h, g
<1>9. CASE quot < 3
  <2>1. 2 * r < m
    BY <1>2, <1>9
  <2>2. Complement = Half(-1, "w_")
    BY <1>4, <1>9 DEF Complement
  <2>3. Low(Half(-1, "w_"))
    BY <1>3, <1>6
  <2>4. ASSUME NEW l \in Nat, Under(l, r - m, b, t) PROVE getL(Half(-1, "w_")) <= l
    <3>1. b > 0 /\ Shorter(l, (r - m) + h, b - 1, t)
      BY <1>2, <1>8, <2>1, <2>4
    <3>2. CellValue("w_", b - 1, t) = (r - m) + h
      BY <1>2, <2>1, <3>1
    <3>3. QED
      BY <1>3, <1>6, <3>1, <3>2
  <2>5. QED
    BY <1>2, <2>2, <2>3, <2>4 DEF CellShort, Low
<1>10. CASE quot = 3
  <2>1. m <= 2 * r /\ 3 * r < 2 * m
    BY <1>2, <1>10
  <2>2. Complement = minL3(Half(-1, "w"), w_[<<b - 1, t>>], Third(-1, "w_"))
    BY <1>4, <1>10 DEF Complement
  <2>3. Low(w_[<<b - 1, t>>]) /\ Low(Half(-1, "w")) /\ Low(Third(-1, "w_"))
    BY <1>3, <1>5, <1>6, <1>7
  <2>4. ASSUME NEW l \in Nat, Under(l, r - m, b, t)
        PROVE  getL(w_[<<b - 1, t>>]) <= l \/ getL(Half(-1, "w")) <= l \/ getL(Third(-1, "w_")) <= l
    <3>1. CASE b > 0 /\ (Under(l, r - m, b - 1, t) \/ Shorter(l, (r - m) + h, b - 1, t))
      <4>1. CellValue("w_", b - 1, t) = r - m /\ CellValue("w", b - 1, t) = (r - m) + h
        BY <1>2, <2>1, <3>1
      <4>2. QED
        BY <1>3, <1>5, <1>6, <3>1, <4>1
    <3>2. CASE t > 0 /\ Shorter(l, (r - m) + g, b, t - 1)
      <4>1. CellValue("w_", b, t - 1) = (r - m) + g
        BY <1>2, <2>1, <3>2
      <4>2. QED
        BY <1>3, <1>7, <3>2, <4>1
    <3>3. QED
      BY <1>2, <1>8, <2>1, <2>4, <3>1, <3>2
  <2>5. QED
    BY <1>2, <2>2, <2>3, <2>4, ShortestOfThree, MinPicks DEF CellShort, Low
<1>11. CASE quot > 3
  <2>1. 2 * m <= 3 * r
    <3>1. 4 * m <= quot * m
      <4>1. quot = 4 \/ quot = 5
        BY <1>2, <1>11
      <4>2. QED
        BY <1>2, <4>1
    <3>2. quot * m \in Nat
      BY <1>2
    <3>3. QED
      BY <1>2, <3>1, <3>2
  <2>2. Complement = minL3(w_[<<b - 1, t>>], Third(-1, "w"), w_[<<b, t - 1>>])
    BY <1>2, <1>4, <1>11 DEF Complement
  <2>3. Low(w_[<<b - 1, t>>]) /\ Low(Third(-1, "w")) /\ Low(w_[<<b, t - 1>>])
    BY <1>3, <1>5, <1>6, <1>7
  <2>4. ASSUME NEW l \in Nat, Under(l, r - m, b, t)
        PROVE  getL(w_[<<b - 1, t>>]) <= l \/ getL(Third(-1, "w")) <= l \/ getL(w_[<<b, t - 1>>]) <= l
    <3>1. CASE b > 0 /\ (Under(l, r - m, b - 1, t) \/ Shorter(l, r - m, b - 1, t))
      <4>1. CellValue("w_", b - 1, t) = r - m
        BY <1>2, <2>1, <3>1
      <4>2. QED
        BY <1>3, <1>5, <1>6, <3>1, <4>1
    <3>2. CASE t > 0 /\ (Under(l, r - m, b, t - 1) \/ Shorter(l, (r - m) + g, b, t - 1))
      <4>1. CellValue("w_", b, t - 1) = r - m /\ CellValue("w", b, t - 1) = (r - m) + g
        BY <1>2, <2>1, <3>2
      <4>2. QED
        BY <1>3, <1>5, <1>7, <3>2, <4>1
    <3>3. QED
      BY <1>2, <1>8, <2>1, <2>4, <3>1, <3>2
  <2>5. QED
    BY <1>2, <2>2, <2>3, <2>4, ShortestOfThree, MinPicks DEF CellShort, Low
<1>12. QED
  BY <1>2, <1>9, <1>10, <1>11

-----------------------------------------------------------------------------
(* Filling a cell keeps the lengths of the chains it computes with.        *)
LEMMA ValueKept ==
  ASSUME n' = n
  PROVE  \A x, table, d, e : CellShort(x, table, d, e) => CellShort(x, table, d, e)'
<1>1. \A table, d, e : CellValue(table, d, e)' = CellValue(table, d, e)
  BY DEF CellValue
<1>2. QED
  BY <1>1 DEF CellShort, getL

(* Lines 52-75 fill one cell with a shortest chain and disturb no other.   *)
LEMMA CellStaysShort ==
  ASSUME IndInv, CellsShort, Cell
  PROVE  CellsShort'
<1>1. /\ InCell /\ Kept
      /\ \A d \in CellRows, e \in CellColumns :
           Filled(d, e)' <=> (Filled(d, e) \/ (d = b /\ e = t /\ b <= bBound[t]))
  BY CellFilled
<1>2. b \in CellRows /\ t \in CellColumns /\ b \in Nat /\ t \in Nat /\ n' = n
  BY <1>1, PositionFacts DEF Kept
<1>3. ASSUME NEW d \in CellRows, NEW e \in CellColumns, Filled(d, e)'
      PROVE  /\ CellShort(w'[<<d, e>>], "w", d, e)
             /\ CellShort(w_'[<<d, e>>], "w_", d, e)
  <2>1. CASE Filled(d, e)
    <3>1. w'[<<d, e>>] = w[<<d, e>>] /\ w_'[<<d, e>>] = w_[<<d, e>>]
      BY <1>1, <2>1 DEF Kept
    <3>2. QED
      BY <2>1, <3>1 DEF CellsShort
  <2>2. CASE ~Filled(d, e)
    <3>1. d = b /\ e = t /\ b <= bBound[t]
      BY <1>1, <1>3, <2>2
    <3>2. b + t > 0
      BY <1>2, <2>2, <3>1 DEF Filled
    <3>3. /\ w' = [w EXCEPT ![<<b, t>>] = Residue]
          /\ w_' = [w_ EXCEPT ![<<b, t>>] = Complement]
      BY <3>1, <3>2 DEF Cell
    <3>4. w \in [Rows \X Columns -> Node] /\ w_ \in [Rows \X Columns -> Node]
      BY DEF IndInv, TypeOK
    <3>5. <<b, t>> \in Rows \X Columns
      BY <1>2 DEF CellRows, CellColumns, Rows, Columns
    <3>6. w'[<<b, t>>] = Residue /\ w_'[<<b, t>>] = Complement
      BY <3>3, <3>4, <3>5
    <3>7. CellShort(Residue, "w", b, t) /\ CellShort(Complement, "w_", b, t)
      BY <1>1, <3>1, <3>2, ResidueShort, ComplementShort
    <3>8. QED
      BY <3>1, <3>6, <3>7
  <2>3. QED
    BY <2>1, <2>2
<1>4. ASSUME NEW d \in CellRows, NEW e \in CellColumns, Filled(d, e)'
      PROVE  CellShort(w[<<d, e>>], "w", d, e)' /\ CellShort(w_[<<d, e>>], "w_", d, e)'
  BY <1>2, <1>3, <1>4, ValueKept
<1>5. QED
  BY <1>4 DEF CellsShort

(* The other steps of a call fill no cell.                                 *)
LEMMA KeptShort ==
  ASSUME CellsShort, Kept,
         \A d \in CellRows, e \in CellColumns : Filled(d, e)' => Filled(d, e)
  PROVE  CellsShort'
<1>1. ASSUME NEW d \in CellRows, NEW e \in CellColumns, Filled(d, e)'
      PROVE  CellShort(w[<<d, e>>], "w", d, e)' /\ CellShort(w_[<<d, e>>], "w_", d, e)'
  <2>1. /\ CellShort(w[<<d, e>>], "w", d, e)
        /\ CellShort(w_[<<d, e>>], "w_", d, e)
        /\ w'[<<d, e>>] = w[<<d, e>>] /\ w_'[<<d, e>>] = w_[<<d, e>>]
    BY <1>1 DEF CellsShort, Kept
  <2>2. /\ CellShort(w'[<<d, e>>], "w", d, e)
        /\ CellShort(w_'[<<d, e>>], "w_", d, e) /\ n' = n
    BY <2>1 DEF Kept
  <2>3. QED
    BY <2>2, ValueKept
<1>2. QED
  BY <1>1 DEF CellsShort

(* A call starts with the corner alone, whose chain has no term.           *)
LEMMA CallFills ==
  ASSUME IndInv, NEW m \in Scalars, Call(m), NEW d \in CellRows, NEW e \in CellColumns, Filled(d, e)'
  PROVE  d = 0 /\ e = 0
<1>1. pc' = "columns" /\ j_outer' = 0 /\ BETA \in Nat
  BY OptimalAssumption DEF Call, CallWith
<1>2. j_outer' * BETA = 0 /\ ~(e < 0)
  BY <1>1 DEF CellColumns
<1>3. ~Passed(d, e)'
  BY <1>1, <1>2 DEF Passed
<1>4. QED
  BY <1>3 DEF Filled

LEMMA CallShort ==
  ASSUME IndInv, NEW m \in Scalars, Call(m)
  PROVE  CellsShort'
<1>1. w' = w /\ w_' = w_ /\ n' = m /\ m \in Nat
  BY ScalarFacts DEF Call, CallWith
<1>2. w'[<<0, 0>>] = ZeroNode /\ Null(w_'[<<0, 0>>])
  BY <1>1 DEF IndInv, Borders
<1>3. CellValue("w", 0, 0)' = 0 /\ CellValue("w_", 0, 0)' = -1
  <2>1. Pow23(0, 0) = 1
    BY Pow2Facts, Pow3Facts DEF Pow23
  <2>2. m % 1 = 0
    BY <1>1
  <2>3. QED
    BY <1>1, <2>1, <2>2 DEF CellValue
<1>4. \A l \in Nat : ~Under(l, -1, 0, 0)
  <2>1. Pow23(0, 0) = 1
    BY Pow2Facts, Pow3Facts DEF Pow23
  <2>2. QED
    BY <2>1, UnderSmall
<1>5. CellShort(w[<<0, 0>>], "w", 0, 0)'
  <2>1. w'[<<0, 0>>].isBasic /\ getL(w'[<<0, 0>>]) = 0
    BY <1>2 DEF ZeroNode, NullNode, getL
  <2>2. \A l \in Nat : getL(w'[<<0, 0>>]) <= l
    BY <2>1
  <2>3. QED
    BY <2>1, <2>2 DEF CellShort, getL
<1>6. CellShort(w_[<<0, 0>>], "w_", 0, 0)'
  BY <1>2, <1>3, <1>4 DEF CellShort, Null
<1>7. QED
  BY <1>5, <1>6, CallFills DEF CellsShort

-----------------------------------------------------------------------------
(* While a call runs, w_min costs at most what each cell of the boundary   *)
(* gives that has been passed, and a basic w_min what compute_TTV says.    *)
BestCheap ==
  pc \in {"columns", "rows", "cells"} =>
    \A d \in CellRows, e \in CellColumns :
      Filled(d, e) /\ e <= log3B /\ d = bBound[e] =>
        IF n >= Pow23(d, e)
        THEN getV(w_min) <= getV(add(w[<<d, e>>], <<"w", d, e>>, d, e, 1))
        ELSE /\ getV(w_min) <= getV(w[<<d, e>>])
             /\ getV(w_min) <= getV(add(w_[<<d, e>>], <<"w_", d, e>>, d, e, 1))

BasicCost ==
  pc \in {"columns", "rows", "cells"} /\ w_min.isBasic =>
    w_min.basic_value = now_DBC[w_min.length - 1].dbl * DBL_COST + ADD_COST * (w_min.length - 1)

(* The cost of a node, and what minV2 and minV3 pick.                      *)
LEMMA CheapestPicked ==
  ASSUME NEW x, NEW y, NEW q, getV(x) \in Int, getV(y) \in Int, getV(q) \in Int
  PROVE  /\ getV(minV2(x, y)) \in Int /\ getV(minV2(x, y)) <= getV(x) /\ getV(minV2(x, y)) <= getV(y)
         /\ getV(minV3(x, y, q)) \in Int /\ getV(minV3(x, y, q)) <= getV(x)
         /\ getV(minV3(x, y, q)) <= getV(y) /\ getV(minV3(x, y, q)) <= getV(q)
<1>1. \A u, v : getV(minV2(u, v)) = IF getV(u) < getV(v) THEN getV(u) ELSE getV(v)
  BY DEF minV2
<1>2. getV(minV3(x, y, q)) = IF getV(x) < getV(y) THEN getV(minV2(x, q)) ELSE getV(minV2(y, q))
  BY DEF minV3
<1>3. QED
  BY <1>1, <1>2

LEMMA NodeCosts ==
  ASSUME NEW x \in Node, NEW p, NEW d \in Nat, NEW e \in Nat
  PROVE  getV(x) \in Int /\ getV(add(x, p, d, e, 1)) \in Int
<1>1. x.length \in Nat /\ x.dbl \in Nat /\ x.tpl \in Nat /\ x.basic_value \in Nat
  BY DEF Node
<1>2. getV(x) \in Int
  BY <1>1 DEF getV, Infinite, DBL_COST, TPL_COST, ADD_COST
<1>3. CASE x.isNULL
  BY <1>2, <1>3 DEF add
<1>4. CASE ~x.isNULL
  <2>1. PICK y : y = add(x, p, d, e, 1)
    OBVIOUS
  <2>2. ~y.isBasic /\ ~y.isNULL /\ y.dbl = d /\ y.tpl = e /\ y.length = x.length + 1
    BY <1>4, <2>1 DEF add, FreshNode, NullNode
  <2>3. getV(y) = DBL_COST * d + TPL_COST * e + ADD_COST * ((x.length + 1) - 1)
    BY <2>2 DEF getV
  <2>4. getV(y) \in Int
    BY <1>1, <2>3 DEF DBL_COST, TPL_COST, ADD_COST
  <2>5. QED
    BY <1>2, <2>1, <2>4
<1>5. QED
  BY <1>3, <1>4

(* Lines 76-86 keep in w_min the cheapest of the chains compared so far.   *)
LEMMA CellStaysCheap ==
  ASSUME IndInv, IndInv', Cell, BestCheap, BasicCost
  PROVE  BestCheap' /\ BasicCost'
<1>1. /\ InCell /\ Kept /\ n' = n /\ bBound' = bBound /\ now_DBC' = now_DBC /\ pc' = "cells"
      /\ pc = "cells"
      /\ \A d \in CellRows, e \in CellColumns :
           Filled(d, e)' <=> (Filled(d, e) \/ (d = b /\ e = t /\ b <= bBound[t]))
  BY CellFilled DEF Cell, Kept
<1>2. /\ w_min \in Node /\ w_min' \in Node
      /\ \A d \in Rows, e \in Columns : w'[<<d, e>>] \in Node /\ w_'[<<d, e>>] \in Node
      /\ CellsRight' /\ w_min'.length >= 1
  <2>1. /\ w' \in [Rows \X Columns -> Node] /\ w_' \in [Rows \X Columns -> Node]
        /\ w_min' \in Node
    BY DEF IndInv, TypeOK
  <2>2. w_min \in Node
    BY DEF IndInv, TypeOK
  <2>3. CellsRight' /\ w_min'.length >= 1
    BY <1>1 DEF IndInv, BestRight, Called
  <2>4. QED
    BY <2>1, <2>2, <2>3
<1>3. PICK d, e, x, y : d = b /\ e = t /\ x = w'[<<d, e>>] /\ y = w_'[<<d, e>>]
  OBVIOUS
<1> DEFINE m == Pow23(d, e)
           X == add(x, <<"w", d, e>>, d, e, 1)
           Y == add(y, <<"w_", d, e>>, d, e, 1)
<1>4. /\ d \in CellRows /\ e \in CellColumns /\ d \in Nat /\ e \in Nat /\ n \in Nat
      /\ d \in Rows /\ e \in Columns
  <2>1. d \in CellRows /\ e \in CellColumns /\ d \in Nat /\ e \in Nat /\ n \in Nat
    BY <1>1, <1>3, PositionFacts
  <2>2. QED
    BY <2>1 DEF CellRows, CellColumns, Rows, Columns
<1>5. x \in Node /\ y \in Node
  BY <1>2, <1>3, <1>4
<1>6. getV(x) \in Int /\ getV(X) \in Int /\ getV(Y) \in Int /\ getV(w_min) \in Int
  BY <1>2, <1>4, <1>5, NodeCosts
<1>7. w_min' = IF b = bBound[t] THEN IF n >= m THEN minV2(X, w_min) ELSE minV3(x, Y, w_min)
               ELSE w_min
  BY <1>3 DEF Cell, Candidate
<1>8. /\ getV(w_min') <= getV(w_min)
      /\ b = bBound[t] => IF n >= m THEN getV(w_min') <= getV(X)
                          ELSE getV(w_min') <= getV(x) /\ getV(w_min') <= getV(Y)
      /\ getV(w_min') \in Int
  <2> HIDE DEF X, Y, m
  <2>1. /\ getV(minV2(X, w_min)) \in Int
        /\ getV(minV2(X, w_min)) <= getV(X) /\ getV(minV2(X, w_min)) <= getV(w_min)
    BY <1>6, CheapestPicked
  <2>2. /\ getV(minV3(x, Y, w_min)) \in Int /\ getV(minV3(x, Y, w_min)) <= getV(x)
        /\ getV(minV3(x, Y, w_min)) <= getV(Y) /\ getV(minV3(x, Y, w_min)) <= getV(w_min)
    BY <1>6, CheapestPicked
  <2>3. CASE b # bBound[t]
    BY <1>6, <1>7, <2>3
  <2>4. CASE b = bBound[t] /\ n >= m
    BY <1>7, <2>1, <2>4
  <2>5. CASE b = bBound[t] /\ ~(n >= m)
    BY <1>7, <2>2, <2>5
  <2>6. QED
    BY <2>3, <2>4, <2>5
<1>9. getV(w_min)' = getV(w_min')
  BY DEF getV
<1>10. BestCheap'
  <2> SUFFICES ASSUME NEW c \in CellRows, NEW f \in CellColumns,
                      Filled(c, f)', f <= log3B', c = bBound'[f]
               PROVE  IF n' >= Pow23(c, f)
                      THEN getV(w_min') <= getV(add(w'[<<c, f>>], <<"w", c, f>>, c, f, 1))
                      ELSE /\ getV(w_min') <= getV(w'[<<c, f>>])
                           /\ getV(w_min') <= getV(add(w_'[<<c, f>>], <<"w_", c, f>>, c, f, 1))
    BY DEF BestCheap, getV, add
  <2>1. CASE c = b /\ f = t
    <3>1. b = bBound[t] /\ c = d /\ f = e
      BY <1>1, <1>3, <2>1
    <3>2. QED
      BY <1>1, <1>3, <1>8, <3>1
  <2>2. CASE ~(c = b /\ f = t)
    <3>1. Filled(c, f) /\ f <= log3B /\ c = bBound[f]
      BY <1>1, <2>2 DEF log3B, B
    <3>2. w'[<<c, f>>] = w[<<c, f>>] /\ w_'[<<c, f>>] = w_[<<c, f>>]
      BY <1>1, <3>1 DEF Kept
    <3>3. IF n >= Pow23(c, f)
          THEN getV(w_min) <= getV(add(w'[<<c, f>>], <<"w", c, f>>, c, f, 1))
          ELSE /\ getV(w_min) <= getV(w'[<<c, f>>])
               /\ getV(w_min) <= getV(add(w_'[<<c, f>>], <<"w_", c, f>>, c, f, 1))
      BY <1>1, <3>1, <3>2 DEF BestCheap
    <3>4. PICK u, v, z : /\ u = getV(add(w'[<<c, f>>], <<"w", c, f>>, c, f, 1))
                         /\ v = getV(w'[<<c, f>>])
                         /\ z = getV(add(w_'[<<c, f>>], <<"w_", c, f>>, c, f, 1))
      OBVIOUS
    <3>5. u \in Int /\ v \in Int /\ z \in Int
      <4>1. c \in Rows /\ f \in Columns /\ c \in Nat /\ f \in Nat
        BY DEF CellRows, CellColumns, Rows, Columns
      <4>2. w'[<<c, f>>] \in Node /\ w_'[<<c, f>>] \in Node
        BY <1>2, <4>1
      <4>3. QED
        BY <3>4, <4>1, <4>2, NodeCosts
    <3>6. QED
      BY <1>1, <1>6, <1>8, <3>3, <3>4, <3>5
  <2>3. QED
    BY <2>1, <2>2
<1>11. BasicCost'
  <2> SUFFICES ASSUME w_min'.isBasic
               PROVE  w_min'.basic_value = now_DBC'[w_min'.length - 1].dbl * DBL_COST
                                           + ADD_COST * (w_min'.length - 1)
    BY DEF BasicCost
  <2>1. CASE w_min' = w_min
    BY <1>1, <2>1 DEF BasicCost
  <2>2. CASE w_min' # w_min
    <3>1. b = bBound[t] /\ (w_min' = X \/ w_min' = Y \/ w_min' = x)
      <4> HIDE DEF X, Y, m
      <4>1. QED
        BY <1>7, <2>2, MinPicks
    <3>2. Filled(d, e)'
      <4>1. b <= bBound[t]
        BY <1>3, <1>4, <3>1
      <4>2. QED
        BY <1>1, <1>3, <1>4, <4>1
    <3>3. CellRight(w[<<d, e>>], "w", d, e)' /\ CellRight(w_[<<d, e>>], "w_", d, e)'
      BY <1>2, <1>4, <3>2 DEF CellsRight
    <3>4. CellRight(x, "w", d, e)' /\ CellRight(y, "w_", d, e)'
      BY <1>3, <3>3
    <3>5. (x.isBasic => x = ZeroNode) /\ (y.isBasic => y = ZeroNode)
      BY <3>4 DEF CellRight, Null, Leads, Linked
    <3>6. \A z, p : /\ z.isNULL => add(z, p, d, e, 1) = z
                    /\ ~z.isNULL => ~add(z, p, d, e, 1).isBasic
      BY DEF add, FreshNode, NullNode
    <3>7. ZeroNode.length = 0
      BY DEF ZeroNode, NullNode
    <3>8. w_min' = x \/ w_min' = y
      BY <3>1, <3>6
    <3>9. QED
      BY <1>2, <3>5, <3>7, <3>8
  <2>3. QED
    BY <2>1, <2>2
<1>12. QED
  BY <1>10, <1>11

(* Nor does a step that fills no cell change what w_min is compared with.  *)
LEMMA KeptCheap ==
  ASSUME BestCheap, BasicCost, Kept, pc \in {"columns", "rows", "cells"},
         w_min' = w_min, bBound' = bBound, now_DBC' = now_DBC,
         \A d \in CellRows, e \in CellColumns : Filled(d, e)' => Filled(d, e)
  PROVE  BestCheap' /\ BasicCost'
<1>1. BestCheap'
  <2> SUFFICES ASSUME NEW c \in CellRows, NEW f \in CellColumns,
                      Filled(c, f)', f <= log3B', c = bBound'[f]
               PROVE  IF n' >= Pow23(c, f)
                      THEN getV(w_min') <= getV(add(w'[<<c, f>>], <<"w", c, f>>, c, f, 1))
                      ELSE /\ getV(w_min') <= getV(w'[<<c, f>>])
                           /\ getV(w_min') <= getV(add(w_'[<<c, f>>], <<"w_", c, f>>, c, f, 1))
    BY DEF BestCheap, getV, add
  <2>1. n' = n /\ Filled(c, f) /\ f <= log3B /\ c = bBound[f]
    BY DEF log3B, B, Kept
  <2>2. w'[<<c, f>>] = w[<<c, f>>] /\ w_'[<<c, f>>] = w_[<<c, f>>]
    BY <2>1 DEF Kept
  <2>3. QED
    BY <2>1, <2>2 DEF BestCheap
<1>2. BasicCost'
  BY DEF BasicCost
<1>3. QED
  BY <1>1, <1>2

(* A call passes no boundary before its first cell.                        *)
LEMMA CallCheap ==
  ASSUME IndInv, IndInv', NEW m \in Scalars, Call(m)
  PROVE  BestCheap' /\ BasicCost'
<1>1. /\ n' = m /\ m \in Nat \ {0} /\ w_min' = BinaryNode(m) /\ now_DBC' = BinaryChain(m)
      /\ Called' /\ MAX_2 \in Nat \ {0}
  BY ScalarFacts DEF Call, CallWith, Called
<1>2. BestCheap'
  <2> SUFFICES ASSUME NEW c \in CellRows, NEW f \in CellColumns,
                      Filled(c, f)', f <= log3B', c = bBound'[f]
               PROVE  FALSE
    BY DEF BestCheap
  <2>1. c = 0 /\ f = 0
    BY CallFills
  <2>2. 0 \in 0 .. log3B' /\ 1 \in 0 .. MAX_2
    <3>1. log3B' \in 0 .. MAX_3 - 1
      BY <1>1, Log3Facts DEF log3B, B
    <3>2. QED
      BY <1>1, <3>1
  <2>3. Pow23(1, 0) <= B'
    <3>1. Pow23(0 + 1, 0) = 2 * 1
      BY PowerSteps
    <3>2. 0 + 1 = 1 /\ B' = 2 * m
      BY <1>1 DEF B
    <3>3. QED
      BY <1>1, <3>1, <3>2
  <2>4. 1 <= bBound'[0]
    BY <1>1, <2>2, <2>3 DEF IndInv, BoundsRight
  <2>5. PICK v : v = bBound'[0]
    OBVIOUS
  <2>6. c = v
    BY <2>1, <2>5
  <2>7. QED
    BY <2>1, <2>4, <2>5, <2>6
<1>3. BasicCost'
  <2>1. BinaryNode(m).length = Cardinality(Bits(m))
    BY DEF BinaryNode, FreshNode, NullNode
  <2>2. BinaryNode(m).basic_value
          = BinaryChain(m)[Cardinality(Bits(m)) - 1].dbl * DBL_COST
            + ADD_COST * (Cardinality(Bits(m)) - 1)
    <3> DEFINE l == Cardinality(Bits(m))
               v == BinaryChain(m)[l - 1].dbl * DBL_COST + ADD_COST * (l - 1)
    <3>1. BinaryNode(m) = [FreshNode EXCEPT !.isBasic = TRUE, !.length = l, !.basic_value = v]
      BY DEF BinaryNode
    <3> HIDE DEF l, v
    <3>2. BinaryNode(m).basic_value = v
      BY <3>1 DEF FreshNode, NullNode
    <3>3. QED
      BY <3>2 DEF v, l
  <2>3. QED
    BY <1>1, <2>1, <2>2 DEF BasicCost
<1>4. QED
  BY <1>2, <1>3

-----------------------------------------------------------------------------
(* The cost of a chain with k additions whose leading term is 2^d 3^e.     *)
Price(k, d, e) == k * ADD_COST + d * DBL_COST + e * TPL_COST

(* A node with a term on top costs no more than any chain that has as many *)
(* terms and that leading term.                                            *)
LEMMA PriceOfAdd ==
  ASSUME NEW x \in Node, ~x.isNULL \/ ~x.isBasic, NEW k \in Nat, getL(x) <= k,
         NEW d \in Nat, NEW e \in Nat, NEW p
  PROVE  getV(add(x, p, d, e, 1)) <= Price(k, d, e)
<1>1. x.length \in Nat
  BY DEF Node
<1>2. CASE x.isNULL
  <2>1. add(x, p, d, e, 1) = x /\ getV(x) = Infinite /\ getL(x) = Infinite
    BY <1>2 DEF add, getV, getL
  <2>2. Infinite <= Price(k, d, e)
    BY <2>1 DEF Infinite, Price, DBL_COST, TPL_COST, ADD_COST
  <2>3. QED
    BY <2>1, <2>2
<1>3. CASE ~x.isNULL
  <2>1. PICK y : y = add(x, p, d, e, 1)
    OBVIOUS
  <2>2. ~y.isBasic /\ ~y.isNULL /\ y.dbl = d /\ y.tpl = e /\ y.length = x.length + 1
    BY <1>3, <2>1 DEF add, FreshNode, NullNode
  <2>3. getV(y) = DBL_COST * d + TPL_COST * e + ADD_COST * ((x.length + 1) - 1)
    BY <2>2 DEF getV
  <2>4. x.length <= k
    BY <1>3 DEF getL
  <2>5. getV(y) <= Price(k, d, e)
    BY <1>1, <2>3, <2>4 DEF Price, DBL_COST, TPL_COST, ADD_COST
  <2>6. QED
    BY <2>1, <2>5
<1>4. QED
  BY <1>2, <1>3

(* Nor does the chain that a node of the column leads by itself, when its  *)
(* leading term is not the modulus of its cell: three costs less than two  *)
(* twos.                                                                   *)
LEMMA PriceOfNode ==
  ASSUME NEW x \in Node, ~x.isBasic, NEW k \in Nat, getL(x) <= k + 1,
         NEW d \in Nat, NEW e \in Nat,
         ~x.isNULL => /\ x.dbl <= d + 1 /\ x.tpl <= e
                      /\ x.dbl # d + 1 \/ x.tpl # e
  PROVE  getV(x) <= Price(k, d, e)
<1>1. x.length \in Nat /\ x.dbl \in Nat /\ x.tpl \in Nat
  BY DEF Node
<1>2. CASE x.isNULL
  <2>1. getV(x) = Infinite /\ getL(x) = Infinite
    BY <1>2 DEF getV, getL
  <2>2. Infinite <= Price(k, d, e)
    BY <2>1 DEF Infinite, Price, DBL_COST, TPL_COST, ADD_COST
  <2>3. QED
    BY <2>1, <2>2
<1>3. CASE ~x.isNULL
  <2>1. getV(x) = 70 * x.dbl + 126 * x.tpl + 150 * (x.length - 1)
    BY <1>3 DEF getV, DBL_COST, TPL_COST, ADD_COST
  <2>2. x.length <= k + 1
    BY <1>3 DEF getL
  <2>3. PICK f, g, l : f = x.dbl /\ g = x.tpl /\ l = x.length
    OBVIOUS
  <2>4. f \in Nat /\ g \in Nat /\ l \in Nat /\ g <= e /\ l <= k + 1
        /\ (f <= d \/ (f = d + 1 /\ g <= e - 1))
    BY <1>1, <1>3, <2>2, <2>3
  <2>5. 70 * f + 126 * g + 150 * (l - 1) <= k * 150 + d * 70 + e * 126
    BY <2>4
  <2>6. QED
    BY <2>1, <2>3, <2>5 DEF Price, DBL_COST, TPL_COST, ADD_COST
<1>4. QED
  BY <1>2, <1>3

(* At the end of a call all cells within the bounds are filled.            *)
LEMMA AllFilled ==
  ASSUME IndInv, Store, NEW e \in 0 .. log3B, NEW d \in 0 .. bBound[e]
  PROVE  d \in CellRows /\ e \in CellColumns /\ Filled(d, e)
<1>1. /\ pc = "columns" /\ j_outer > log3B \div BETA + 1 /\ Called /\ TypeOK /\ BoundsRight
      /\ n \in Scalars /\ j_outer \in Nat /\ BETA \in Nat \ {0} /\ MAX_2 \in Nat \ {0}
  BY MaxAssumption, OptimalAssumption DEF Store, StoreInOrder, IndInv, Called, TypeOK
<1>2. /\ log3B \in 0 .. MAX_3 - 1 /\ log2B \in 0 .. MAX_2 - 2
      /\ e \in CellColumns /\ bBound[e] \in 0 .. log2B
  BY <1>1, CallFacts
<1>3. log3B < j_outer * BETA
  <2>0. PICK l \in Nat : l = log3B
    BY <1>2
  <2>1. PICK q : q = l \div BETA
    OBVIOUS
  <2>2. q \in Nat /\ l = BETA * q + (l % BETA) /\ l % BETA \in 0 .. BETA - 1
    <3>1. BETA \in Nat \ {0}
      BY <1>1
    <3>2. l \div BETA \in Nat /\ l = BETA * (l \div BETA) + (l % BETA) /\ l % BETA \in 0 .. BETA - 1
      BY <3>1
    <3>3. q = l \div BETA
      BY <2>1
    <3>4. QED
      BY <3>2, <3>3
  <2>3. q + 1 <= j_outer
    <3>1. j_outer > q + 1
      <4>1. log3B \div BETA = q
        BY <2>0, <2>1
      <4>2. j_outer > log3B \div BETA + 1
        BY <1>1
      <4>3. QED
        BY <4>1, <4>2
    <3>2. QED
      BY <1>1, <2>2, <3>1
  <2>4. PICK k \in Nat : j_outer = (q + 1) + k
    <3>1. j_outer - (q + 1) \in Nat /\ j_outer = (q + 1) + (j_outer - (q + 1))
      BY <1>1, <2>2, <2>3
    <3>2. QED
      BY <3>1
  <2>5. j_outer * BETA = (BETA * q + BETA) + k * BETA /\ k * BETA \in Nat /\ BETA * q \in Nat
    BY <1>1, <2>2, <2>4
  <2>6. QED
    BY <1>1, <2>0, <2>2, <2>5
<1>4. d \in CellRows /\ e <= log3B /\ d <= bBound[e]
  BY <1>1, <1>2 DEF CellRows
<1>5. e < j_outer * BETA
  BY <1>1, <1>2, <1>3
<1>6. QED
  BY <1>1, <1>2, <1>4, <1>5 DEF Filled, Inside, Passed

-----------------------------------------------------------------------------
(* What a call has when it comes to its end.                               *)
LEMMA AtTheEnd ==
  ASSUME IndInv, Store
  PROVE  /\ pc = "columns" /\ Called /\ TypeOK /\ BoundsRight /\ CellsRight
         /\ n \in Scalars /\ n \in Nat \ {0} /\ B = 2 * n
         /\ w_min \in Node /\ getV(w_min) \in Int
<1>1. pc = "columns"
  BY DEF Store, StoreInOrder
<1>2. Called /\ TypeOK /\ BoundsRight /\ CellsRight /\ n \in Scalars
  BY <1>1 DEF IndInv, Called
<1>3. w_min \in Node
  BY <1>2 DEF TypeOK
<1>4. getV(w_min) \in Int
  BY <1>3, NodeCosts
<1>5. QED
  BY <1>1, <1>2, <1>3, <1>4, CallFacts

(* The column of a leading term of at most 2n is in the tables, and the    *)
(* bound of the column is the exponent of 2 of the term or the next.       *)
LEMMA BoundOfLead ==
  ASSUME IndInv, Store, NEW d \in Nat, NEW e \in Nat, Pow23(d, e) <= 2 * n, n < 2 * Pow23(d, e)
  PROVE  /\ e \in 0 .. log3B /\ bBound[e] \in Nat
         /\ bBound[e] = d \/ bBound[e] = d + 1
<1>1. /\ Called /\ TypeOK /\ BoundsRight /\ n \in Scalars /\ n \in Nat \ {0} /\ B = 2 * n
  BY AtTheEnd
<1>2. /\ MAX_2 \in Nat \ {0} /\ MAX_3 \in Nat \ {0} /\ 2 * n < Pow3[MAX_3] /\ MAX_2 - 2 \in Nat
  BY <1>1, ScalarFacts
<1>3. e <= MAX_3
  <2>1. SUFFICES ASSUME e > MAX_3 PROVE FALSE
    BY <1>2
  <2>2. MAX_3 \in 0 .. e /\ 0 \in 0 .. d
    BY <1>2, <2>1
  <2>3. Pow23(0, MAX_3) <= Pow23(d, e)
    BY <2>2, PowerBounds
  <2>4. Pow23(0, MAX_3) = Pow3[MAX_3] /\ Pow23(0, MAX_3) \in Nat /\ Pow23(d, e) \in Nat
    BY <1>2, PowerSteps
  <2>5. QED
    BY <1>1, <1>2, <2>3, <2>4
<1>4. e \in 0 .. log3B
  <2>1. Pow23(0, e) <= Pow23(d, e)
    <3>1. 0 \in 0 .. d /\ e \in 0 .. e
      OBVIOUS
    <3>2. QED
      BY <3>1, PowerBounds
  <2>2. Pow23(0, e) = Pow3[e] /\ Pow23(0, e) \in Nat /\ Pow23(d, e) \in Nat
    BY PowerSteps
  <2>3. Pow3[e] <= B
    BY <1>1, <2>1, <2>2
  <2>4. e \in 0 .. MAX_3
    BY <1>2, <1>3
  <2>5. e <= log3B /\ log3B \in Nat
    BY <1>1, <1>2, <2>3, <2>4, CallFacts
  <2>6. QED
    BY <2>5
<1>5. PICK D : D = bBound[e]
  OBVIOUS
<1>6. D \in Nat /\ Pow23(D, e) <= B
  BY <1>1, <1>4, <1>5, CallFacts
<1>7. d <= D
  <2>1. d + e <= MAX_2 - 2
    BY <1>1, ExponentsShort
  <2>2. d \in 0 .. MAX_2
    BY <1>2, <2>1
  <2>3. d <= bBound[e] <=> Pow23(d, e) <= B
    BY <1>1, <1>4, <2>2 DEF BoundsRight
  <2>4. QED
    BY <1>1, <1>5, <2>3
<1>8. D <= d + 1
  <2>1. SUFFICES ASSUME D > d + 1 PROVE FALSE
    BY <1>6
  <2>2. d + 2 \in 0 .. D /\ e \in 0 .. e /\ d + 1 \in Nat /\ (d + 1) + 1 = d + 2
    BY <1>6, <2>1
  <2>3. Pow23(d + 2, e) <= Pow23(D, e)
    BY <1>6, <2>2, PowerBounds
  <2>4. Pow23((d + 1) + 1, e) = 2 * Pow23(d + 1, e) /\ Pow23(d + 1, e) = 2 * Pow23(d, e)
        /\ Pow23(d, e) \in Nat \ {0} /\ Pow23(D, e) \in Nat
    BY <1>6, <2>2, PowerSteps
  <2>5. Pow23(d + 2, e) = 2 * (2 * Pow23(d, e))
    BY <2>2, <2>4
  <2>6. QED
    BY <1>1, <1>6, <2>3, <2>4, <2>5
<1>9. QED
  BY <1>4, <1>5, <1>6, <1>7, <1>8

(* A number below m, and one below 2m, by its remainder.                   *)
LEMMA SmallRemainder ==
  ASSUME NEW m \in Nat \ {0}, NEW r \in Nat
  PROVE  /\ r < m => r % m = r
         /\ m <= r /\ r < 2 * m => r % m = r - m
<1>1. ASSUME r < m PROVE r % m = r
  <2>1. r \in 0 .. m - 1 /\ m * 0 + r = r
    BY <1>1
  <2>2. (m * 0 + r) % m = r
    BY <2>1, RemainderUnique
  <2>3. QED
    BY <2>1, <2>2
<1>2. ASSUME m <= r, r < 2 * m PROVE r % m = r - m
  <2>1. r - m \in 0 .. m - 1 /\ m * 1 + (r - m) = r
    BY <1>2
  <2>2. (m * 1 + (r - m)) % m = r - m
    BY <2>1, RemainderUnique
  <2>3. QED
    BY <2>1, <2>2
<1>3. QED
  BY <1>1, <1>2

(* The chains whose leading term is at most 2n: the cell on the bound of   *)
(* their column holds n, or n less that term, and w_min has been compared  *)
(* with the chain of n that follows.                                       *)
LEMMA BoundaryCheap ==
  ASSUME IndInv, Store, CellsShort, BestCheap,
         NEW k \in Nat, NEW d \in Nat, NEW e \in Nat,
         Under(k, n - Pow23(d, e), d, e), Pow23(d, e) <= 2 * n
  PROVE  getV(w_min) <= Price(k, d, e)
<1>1. /\ pc = "columns" /\ CellsRight /\ TypeOK /\ n \in Nat \ {0} /\ getV(w_min) \in Int
  BY AtTheEnd
<1>2. PICK m : m = Pow23(d, e)
  OBVIOUS
<1>3. m \in Nat \ {0} /\ n < 2 * m /\ m <= 2 * n
  <2>1. Pow23(d, e) \in Nat \ {0}
    BY PowerSteps
  <2>2. n - Pow23(d, e) < Pow23(d, e)
    BY UnderSmall
  <2>3. QED
    BY <1>1, <1>2, <2>1, <2>2
<1>4. PICK D : D = bBound[e]
  OBVIOUS
<1>5. e \in 0 .. log3B /\ D \in Nat /\ (D = d \/ D = d + 1)
  BY <1>2, <1>3, <1>4, BoundOfLead
<1>6. D \in CellRows /\ e \in CellColumns /\ Filled(D, e) /\ e <= log3B
  <2>1. D \in 0 .. bBound[e]
    BY <1>4, <1>5
  <2>2. D \in CellRows /\ e \in CellColumns /\ Filled(D, e)
    BY <1>5, <2>1, AllFilled
  <2>3. QED
    BY <1>5, <2>2
<1>7. PICK x, y : x = w[<<D, e>>] /\ y = w_[<<D, e>>]
  OBVIOUS
<1>8. x \in Node /\ y \in Node
  BY <1>1, <1>6, <1>7, CellNodes DEF CellRows, CellColumns, Rows, Columns
<1>9. /\ CellShort(x, "w", D, e) /\ CellShort(y, "w_", D, e)
      /\ CellRight(x, "w", D, e) /\ CellRight(y, "w_", D, e)
  BY <1>1, <1>6, <1>7 DEF CellsShort, CellsRight
<1>10. IF n >= Pow23(D, e)
       THEN getV(w_min) <= getV(add(x, <<"w", D, e>>, D, e, 1))
       ELSE /\ getV(w_min) <= getV(x)
            /\ getV(w_min) <= getV(add(y, <<"w_", D, e>>, D, e, 1))
  BY <1>1, <1>4, <1>6, <1>7 DEF BestCheap
<1>11. Price(k, d, e) \in Int
  BY DEF Price, DBL_COST, TPL_COST, ADD_COST
<1>12. (~x.isNULL \/ ~x.isBasic) /\ (~y.isNULL \/ ~y.isBasic)
  BY <1>9 DEF CellRight, Null, Leads, Linked, ZeroNode, NullNode
<1>13. CASE D = d
  <2>1. CASE n >= m
    <3>1. n % m = n - m
      BY <1>1, <1>3, <2>1, SmallRemainder
    <3>2. CellValue("w", D, e) = n - Pow23(d, e)
      BY <1>1, <1>2, <1>3, <1>13, <3>1 DEF CellValue
    <3>3. getL(x) <= k
      BY <1>9, <1>13, <3>2 DEF CellShort
    <3>4. PICK u : u = getV(add(x, <<"w", D, e>>, D, e, 1))
      OBVIOUS
    <3>5. u <= Price(k, d, e)
      BY <1>8, <1>12, <1>13, <3>3, <3>4, PriceOfAdd
    <3>6. u \in Int
      BY <1>5, <1>8, <3>4, NodeCosts
    <3>7. getV(w_min) <= u
      BY <1>2, <1>10, <1>13, <2>1, <3>4
    <3>8. QED
      BY <1>1, <1>11, <3>5, <3>6, <3>7
  <2>2. CASE n < m
    <3>1. n % m = n
      BY <1>1, <1>3, <2>2, SmallRemainder
    <3>2. CellValue("w_", D, e) = n - Pow23(d, e)
      BY <1>1, <1>2, <1>3, <1>13, <3>1 DEF CellValue
    <3>3. getL(y) <= k
      BY <1>9, <1>13, <3>2 DEF CellShort
    <3>4. PICK u : u = getV(add(y, <<"w_", D, e>>, D, e, 1))
      OBVIOUS
    <3>5. u <= Price(k, d, e)
      BY <1>8, <1>12, <1>13, <3>3, <3>4, PriceOfAdd
    <3>6. u \in Int
      BY <1>5, <1>8, <3>4, NodeCosts
    <3>7. getV(w_min) <= u
      <4>1. ~(n >= Pow23(D, e))
        BY <1>1, <1>2, <1>3, <1>13, <2>2
      <4>2. QED
        BY <1>10, <3>4, <4>1
    <3>8. QED
      BY <1>1, <1>11, <3>5, <3>6, <3>7
  <2>3. QED
    BY <1>1, <1>3, <2>1, <2>2
<1>14. CASE D = d + 1
  <2>1. Pow23(D, e) = 2 * m
    BY <1>2, <1>14, PowerSteps
  <2>2. PICK q : q = 2 * m
    OBVIOUS
  <2>3. q \in Nat \ {0} /\ n < q
    BY <1>3, <2>2
  <2>4. n % q = n
    BY <1>1, <2>3, SmallRemainder
  <2>5. CellValue("w", D, e) = n
    BY <1>1, <2>1, <2>2, <2>4 DEF CellValue
  <2>6. Under(k + 1, n, D, e)
    <3>1. PICK v : v = n - Pow23(d, e)
      OBVIOUS
    <3>2. n = v + 1 * Pow23(d, e) /\ 1 \in {-1, 1}
      BY <1>1, <1>2, <1>3, <3>1
    <3>3. d <= D /\ e <= e /\ d # D
      BY <1>5, <1>14
    <3>4. Under(k, v, d, e)
      BY <3>1
    <3>5. QED
      BY <1>1, <1>5, <3>2, <3>3, <3>4, PutOnTop
  <2>7. PICK l \in Nat : l = k + 1
    OBVIOUS
  <2>8. getL(x) <= k + 1
    <3>1. Under(l, CellValue("w", D, e), D, e)
      BY <2>5, <2>6, <2>7
    <3>2. getL(x) <= l
      BY <1>9, <3>1 DEF CellShort
    <3>3. QED
      BY <2>7, <3>2
  <2>9. x # ZeroNode /\ (Null(x) \/ (Linked(x) /\ x.dbl <= D /\ x.tpl <= e))
    <3>1. Null(x) \/ Leads(x, n, D, e)
      BY <1>9, <2>5 DEF CellRight
    <3>2. ~ Null(ZeroNode)
      BY DEF Null, ZeroNode, NullNode
    <3>3. Null(x) => x # ZeroNode
      BY <3>2
    <3>4. ~ Linked(ZeroNode)
      BY DEF Linked, ZeroNode, NullNode
    <3>5. Leads(x, n, D, e) =>
            (x = ZeroNode /\ n = 0) \/ (Linked(x) /\ x.dbl <= D /\ x.tpl <= e)
      BY DEF Leads
    <3>6. n # 0
      BY <1>1
    <3>7. QED
      BY <3>1, <3>3, <3>4, <3>5, <3>6
  <2>10. ~x.isBasic
    BY <2>9 DEF Null, Linked
  <2>11. ~x.isNULL => x.dbl <= d + 1 /\ x.tpl <= e /\ (x.dbl # d + 1 \/ x.tpl # e)
    <3>1. x.isNULL \/ x.isBasic \/ x.dbl # D \/ x.tpl # e
      BY <1>9 DEF CellShort
    <3>2. QED
      BY <1>14, <2>9, <2>10, <3>1 DEF Null
  <2>12. getV(x) <= Price(k, d, e)
    BY <1>8, <2>8, <2>10, <2>11, PriceOfNode
  <2>13. ~(n >= Pow23(D, e))
    BY <1>1, <2>1, <2>2, <2>3
  <2>14. getV(x) \in Int
    BY <1>5, <1>8, NodeCosts
  <2>15. PICK u : u = getV(x)
    OBVIOUS
  <2>16. getV(w_min) <= u /\ u <= Price(k, d, e) /\ u \in Int
    BY <1>10, <2>12, <2>13, <2>14, <2>15
  <2>17. QED
    BY <1>1, <1>11, <2>16
<1>15. QED
  BY <1>5, <1>13, <1>14

(* A chain led by a term above 2n is not cheaper either: a chain of n that *)
(* has no more terms and a smaller leading term can be made of it.         *)
LEMMA NoCheaper ==
  ASSUME IndInv, Store, CellsShort, BestCheap,
         NEW k \in Nat, NEW d \in Nat, NEW e \in Nat, Under(k, n - Pow23(d, e), d, e)
  PROVE  getV(w_min) <= Price(k, d, e)
<1>1. n \in Nat \ {0} /\ getV(w_min) \in Int
  BY AtTheEnd
<1>2. PICK best \in Int : best = getV(w_min)
  BY <1>1
<1> DEFINE Beaten(j) == \A x \in Nat, y \in Nat :
             Under(j, n - Pow23(x, y), x, y) => best <= Price(j, x, y)
           T == {l \in Nat : \A j \in 0 .. l : Beaten(j)}
<1>3. ASSUME NEW l \in Nat, \A j \in Nat : j < l => Beaten(j)
      PROVE  Beaten(l)
  <2> SUFFICES ASSUME NEW x \in Nat, NEW y \in Nat, Under(l, n - Pow23(x, y), x, y)
               PROVE  best <= Price(l, x, y)
    OBVIOUS
  <2>1. PICK m : m = Pow23(x, y)
    OBVIOUS
  <2>2. m \in Nat \ {0}
    BY <2>1, PowerSteps
  <2>3. CASE m <= 2 * n
    BY <1>2, <2>1, <2>3, BoundaryCheap
  <2>4. CASE m > 2 * n
    <3>1. PICK s : s = n - m
      OBVIOUS
    <3>2. Under(l, s, x, y) /\ 3 * s <= -Pow23(x, y) /\ s + Pow23(x, y) = n
      <4>1. 3 * s <= -m /\ s + m = n
        BY <1>1, <2>2, <2>4, <3>1
      <4>2. QED
        BY <2>1, <3>1, <4>1
    <3>3. Raised(l, s, x, y)
      BY <3>2, Raising
    <3>4. CASE Under(l, n, x, y)
      <4>1. l # 0
        <5>1. SUFFICES ASSUME l = 0 PROVE FALSE
          OBVIOUS
        <5>2. Under(0, n, x, y)
          BY <3>4, <5>1
        <5>3. QED
          BY <1>1, <5>2, UnderFacts
      <4>2. PICK c \in {-1, 1}, p \in 0 .. x, q \in 0 .. y :
              (p # x \/ q # y) /\ Under(l - 1, n - c * Pow23(p, q), p, q)
        BY <3>4, <4>1, TopTerm
      <4>3. PICK j \in Nat : j = l - 1 /\ j < l
        BY <4>1
      <4>4. p \in Nat /\ q \in Nat /\ p <= x /\ q <= y
        BY <4>2
      <4>5. Under(j, n - Pow23(p, q), p, q)
        <5>1. PICK r : r = Pow23(p, q)
          OBVIOUS
        <5>2. r \in Nat \ {0}
          BY <4>4, <5>1, PowerSteps
        <5>3. PICK v : v = n - c * r
          OBVIOUS
        <5>4. Under(j, v, p, q)
          BY <4>2, <4>3, <5>1, <5>3
        <5>5. v < r
          BY <4>3, <5>1, <5>4, UnderSmall
        <5>6. c = 1
          <6>1. SUFFICES ASSUME c = -1 PROVE FALSE
            BY <4>2
          <6>2. v = n + r
            BY <1>1, <5>2, <5>3, <6>1
          <6>3. QED
            BY <1>1, <5>2, <5>5, <6>2
        <5>7. v = n - r
          BY <1>1, <5>2, <5>3, <5>6
        <5>8. QED
          BY <5>1, <5>4, <5>7
      <4>6. best <= Price(j, p, q)
        BY <1>3, <4>3, <4>4, <4>5
      <4>7. best <= j * 150 + p * 70 + q * 126
        BY <4>6 DEF Price, ADD_COST, DBL_COST, TPL_COST
      <4>8. best <= l * 150 + x * 70 + y * 126
        BY <4>3, <4>4, <4>7
      <4>9. QED
        BY <4>8 DEF Price, ADD_COST, DBL_COST, TPL_COST
    <3>5. CASE y > 0 /\ Shorter(l, s + Pow23(x, y - 1), x, y - 1)
      <4>1. PICK f \in Nat : f = y - 1 /\ y = f + 1
        BY <3>5
      <4>2. PICK j \in Nat : j < l /\ Under(j, s + Pow23(x, f), x, f)
        BY <3>5, <4>1 DEF Shorter
      <4>3. PICK g : g = Pow23(x, f)
        OBVIOUS
      <4>4. g \in Nat \ {0} /\ m = 3 * g /\ Pow23(x + 1, f) = 2 * g
        BY <2>1, <4>1, <4>3, PowerSteps
      <4>5. s + g = n - 2 * g
        BY <1>1, <2>2, <3>1, <4>4
      <4>6. Under(j, n - Pow23(x + 1, f), x, f)
        BY <4>2, <4>3, <4>4, <4>5
      <4>7. PICK D \in Nat : D = x + 1
        OBVIOUS
      <4>8. Under(j, n - Pow23(D, f), x, f) /\ x <= D /\ f <= f
        BY <4>6, <4>7
      <4>9. Under(j, n - Pow23(D, f), D, f)
        BY <4>8, UnderGrows
      <4>10. best <= Price(j, D, f)
        BY <1>3, <4>2, <4>9
      <4>11. best <= j * 150 + D * 70 + f * 126
        BY <4>10 DEF Price, ADD_COST, DBL_COST, TPL_COST
      <4>12. best <= l * 150 + x * 70 + y * 126
        BY <4>1, <4>2, <4>7, <4>11
      <4>13. QED
        BY <4>12 DEF Price, ADD_COST, DBL_COST, TPL_COST
    <3>6. QED
      BY <3>2, <3>3, <3>4, <3>5 DEF Raised
  <2>5. QED
    BY <1>1, <2>2, <2>3, <2>4
<1> HIDE DEF Beaten
<1>4. 0 \in T
  <2>1. Beaten(0)
    BY <1>3
  <2>2. 0 .. 0 = {0}
    OBVIOUS
  <2>3. QED
    BY <2>1, <2>2
<1>5. ASSUME NEW l \in Nat, l \in T PROVE l + 1 \in T
  <2>1. \A j \in 0 .. l : Beaten(j)
    BY <1>5
  <2>2. PICK i \in Nat : i = l + 1
    OBVIOUS
  <2>3. \A j \in Nat : j < i => Beaten(j)
    <3>1. \A j \in Nat : j < i => j \in 0 .. l
      BY <2>2
    <3>2. QED
      BY <2>1, <3>1
  <2>4. Beaten(i)
    BY <1>3, <2>3
  <2>5. \A j \in 0 .. i : j < i \/ j = i
    BY <2>2
  <2>6. \A j \in 0 .. i : Beaten(j)
    <3>1. \A j \in 0 .. i : j \in Nat
      OBVIOUS
    <3>2. QED
      BY <2>3, <2>4, <2>5, <3>1
  <2>7. QED
    BY <2>2, <2>6
<1>6. Nat \subseteq T
  <2> HIDE DEF T
  <2>1. QED
    BY <1>4, <1>5, SetInduction
<1>7. Beaten(k)
  <2>1. k \in T /\ k \in 0 .. k
    BY <1>6
  <2>2. QED
    BY <2>1
<1>8. QED
  BY <1>2, <1>7 DEF Beaten

-----------------------------------------------------------------------------
Pairs == Int \X (Nat \X Nat)

LEMMA LeadTermsFacts ==
  ASSUME NEW x \in LeadTerms, NEW c \in {-1, 1}
  PROVE  /\ x \in Nat \X Nat /\ x[1] \in Nat /\ x[2] \in Nat
         /\ Pow23(x[1], x[2]) \in Nat \ {0} /\ c * Pow23(x[1], x[2]) \in Int
<1>1. MAX_2 \in Nat /\ MAX_3 \in Nat
  BY MaxAssumption, OptimalAssumption
<1>2. x \in (0 .. MAX_2 - 1) \X (0 .. MAX_3)
  BY DEF LeadTerms
<1>3. x \in Nat \X Nat /\ x[1] \in Nat /\ x[2] \in Nat
  BY <1>1, <1>2
<1>4. PICK m : m = Pow23(x[1], x[2])
  OBVIOUS
<1>5. m \in Nat \ {0}
  BY <1>3, <1>4, PowerSteps
<1>6. c * m \in Int
  BY <1>5
<1>7. QED
  BY <1>3, <1>4, <1>5, <1>6

(* ChainsOf is the function its recursion describes.                       *)
LEMMA ChainsOfFacts ==
  /\ ChainsOf[0] = SingleTerms
  /\ \A l \in Nat : ChainsOf[l + 1] = Longer(ChainsOf[l])
  /\ \A l \in Nat : ChainsOf[l] \subseteq Pairs
<1> DEFINE S == SUBSET Pairs
           h == [p \in Nat \X S |-> Longer(p[2])]
<1>1. ASSUME NEW R \in S PROVE Longer(R) \in S
  <2>1. ASSUME NEW q \in R, NEW c \in {-1, 1}, NEW x \in LeadTerms
        PROVE  <<q[1] + c * Pow23(x[1], x[2]), x>> \in Pairs
    <3>1. q[1] \in Int
      <4>1. q \in Pairs
        OBVIOUS
      <4>2. QED
        BY <4>1 DEF Pairs
    <3>2. x \in Nat \X Nat /\ c * Pow23(x[1], x[2]) \in Int
      BY LeadTermsFacts
    <3>3. PICK v : v = c * Pow23(x[1], x[2])
      OBVIOUS
    <3>4. q[1] + v \in Int
      BY <3>1, <3>2, <3>3
    <3>5. QED
      BY <3>2, <3>3, <3>4 DEF Pairs
  <2>2. ASSUME NEW p \in Longer(R) PROVE p \in Pairs
    <3>1. PICK q \in R : p \in {<<q[1] + c * Pow23(x[1], x[2]), x>> :
                                  c \in {-1, 1}, x \in {y \in LeadTerms : Above(q[2], y)}}
      BY <2>2 DEF Longer
    <3>2. PICK c \in {-1, 1}, x \in LeadTerms : p = <<q[1] + c * Pow23(x[1], x[2]), x>>
      BY <3>1
    <3>3. QED
      BY <2>1, <3>2
  <2>3. QED
    BY <2>2
<1>2. SingleTerms \in S
  <2>1. ASSUME NEW c \in {-1, 1}, NEW x \in LeadTerms
        PROVE  <<c * Pow23(x[1], x[2]), x>> \in Pairs
    BY LeadTermsFacts DEF Pairs
  <2>2. QED
    BY <2>1 DEF SingleTerms
<1>3. \A k \in Nat, R \in S : h[<<k, R>>] = Longer(R)
  <2>1. ASSUME NEW k \in Nat, NEW R \in S PROVE h[<<k, R>>] = Longer(R)
    <3>1. <<k, R>> \in Nat \X S /\ <<k, R>>[2] = R
      OBVIOUS
    <3> HIDE DEF S
    <3>2. QED
      BY <3>1
  <2>2. QED
    BY <2>1
<1> HIDE DEF h, S
<1>4. Iterable(S, SingleTerms, h)
  <2>1. Closed(S, h)
    BY <1>1, <1>3 DEF Closed
  <2>2. QED
    BY <1>2, <2>1, IterationExists
<1>5. PICK v \in [Nat -> S] : Iterates(v, SingleTerms, h)
  BY <1>4 DEF Iterable
<1>6. v[0] = SingleTerms /\ \A k \in Nat : v[k + 1] = Longer(v[k])
  BY <1>3, <1>5 DEF Iterates
<1>7. ASSUME NEW l \in Nat PROVE v[l] = IF l = 0 THEN SingleTerms ELSE Longer(v[l - 1])
  <2>1. CASE l = 0
    BY <1>6, <2>1
  <2>2. CASE l # 0
    <3>1. l - 1 \in Nat /\ (l - 1) + 1 = l
      BY <2>2
    <3>2. v[l] = Longer(v[l - 1])
      BY <1>6, <3>1
    <3>3. QED
      BY <2>2, <3>2
  <2>3. QED
    BY <2>1, <2>2
<1>8. v = [l \in Nat |-> IF l = 0 THEN SingleTerms ELSE Longer(v[l - 1])]
  BY <1>5, <1>7
<1>9. ChainsOf = [l \in Nat |-> IF l = 0 THEN SingleTerms ELSE Longer(ChainsOf[l - 1])]
  BY <1>8 DEF ChainsOf
<1>10. ChainsOf[0] = SingleTerms
  BY <1>9
<1>11. ASSUME NEW l \in Nat PROVE ChainsOf[l + 1] = Longer(ChainsOf[l])
  <2>1. l + 1 \in Nat /\ l + 1 # 0 /\ (l + 1) - 1 = l
    OBVIOUS
  <2>2. QED
    BY <1>9, <2>1
<1>12. ASSUME NEW l \in Nat PROVE ChainsOf[l] \subseteq Pairs
  <2> DEFINE T == {k \in Nat : ChainsOf[k] \in S}
  <2>1. 0 \in T
    BY <1>2, <1>10
  <2>2. \A k \in Nat : k \in T => k + 1 \in T
    BY <1>1, <1>11
  <2>3. Nat \subseteq T
    <3> HIDE DEF T
    <3>1. QED
      BY <2>1, <2>2, SetInduction
  <2>4. QED
    BY <2>3 DEF S
<1>13. QED
  BY <1>10, <1>11, <1>12

(* Each of them has its leading term on top of a chain below that term.    *)
LeadOver(k, q) ==
  \E c \in {-1, 1} : Under(k, q[1] - c * Pow23(q[2][1], q[2][2]), q[2][1], q[2][2])

LEMMA RivalsAreChains ==
  ASSUME NEW k \in Nat, NEW q \in ChainsOf[k]
  PROVE  q \in Pairs /\ LeadOver(k, q)
<1> DEFINE T == {l \in Nat : \A p \in ChainsOf[l] : LeadOver(l, p)}
<1>1. 0 \in T
  <2> SUFFICES ASSUME NEW p \in ChainsOf[0] PROVE LeadOver(0, p)
    OBVIOUS
  <2>1. PICK c \in {-1, 1}, x \in LeadTerms : p = <<c * Pow23(x[1], x[2]), x>>
    BY ChainsOfFacts DEF SingleTerms
  <2>2. PICK v, d, e : v = c * Pow23(x[1], x[2]) /\ d = x[1] /\ e = x[2]
    OBVIOUS
  <2>3. v \in Int /\ d \in Nat /\ e \in Nat
    BY <2>2, LeadTermsFacts
  <2>4. p[1] = v /\ p[2][1] = d /\ p[2][2] = e
    BY <2>1, <2>2
  <2>5. v - v = 0
    BY <2>3
  <2>6. Under(0, v - v, d, e)
    BY <2>3, <2>5, UnderFacts
  <2>7. Under(0, v - c * Pow23(d, e), d, e)
    BY <2>2, <2>6
  <2>8. QED
    BY <2>4, <2>7 DEF LeadOver
<1>2. ASSUME NEW l \in Nat, l \in T PROVE l + 1 \in T
  <2> SUFFICES ASSUME NEW p \in ChainsOf[l + 1] PROVE LeadOver(l + 1, p)
    OBVIOUS
  <2>1. PICK r \in ChainsOf[l] :
          p \in {<<r[1] + c * Pow23(x[1], x[2]), x>> :
                  c \in {-1, 1}, x \in {y \in LeadTerms : Above(r[2], y)}}
    BY ChainsOfFacts DEF Longer
  <2>2. PICK c \in {-1, 1}, x \in LeadTerms :
          Above(r[2], x) /\ p = <<r[1] + c * Pow23(x[1], x[2]), x>>
    BY <2>1
  <2>3. r[1] \in Int /\ r[2] \in Nat \X Nat
    BY ChainsOfFacts DEF Pairs
  <2>4. x \in Nat \X Nat /\ c * Pow23(x[1], x[2]) \in Int
    BY LeadTermsFacts
  <2>5. PICK v, z, d, e, f, g : /\ v = r[1] /\ z = c * Pow23(x[1], x[2])
                                /\ d = x[1] /\ e = x[2] /\ f = r[2][1] /\ g = r[2][2]
    OBVIOUS
  <2>6. /\ v \in Int /\ z \in Int /\ d \in Nat /\ e \in Nat /\ f \in Nat /\ g \in Nat
        /\ p[1] = v + z /\ p[2][1] = d /\ p[2][2] = e
    BY <2>2, <2>3, <2>4, <2>5
  <2>7. f <= d /\ g <= e /\ (f # d \/ g # e)
    BY <2>2, <2>3, <2>4, <2>5 DEF Above
  <2>8. PICK a \in {-1, 1} : Under(l, v - a * Pow23(f, g), f, g)
    <3>1. LeadOver(l, r)
      BY <1>2
    <3>2. QED
      BY <2>5, <3>1 DEF LeadOver
  <2>9. PICK s, m : s = v - a * m /\ m = Pow23(f, g)
    OBVIOUS
  <2>10. v = s + a * Pow23(f, g)
    <3>1. m \in Nat \ {0}
      BY <2>6, <2>9, PowerSteps
    <3>2. a * m \in Int
      BY <3>1
    <3>3. v = s + a * m
      BY <2>6, <2>9, <3>2
    <3>4. QED
      BY <2>9, <3>3
  <2>11. Under(l, s, f, g)
    BY <2>8, <2>9
  <2>12. Under(l + 1, v, d, e)
    BY <2>6, <2>7, <2>10, <2>11, PutOnTop
  <2>13. (v + z) - z = v
    BY <2>6
  <2>14. Under(l + 1, (v + z) - c * Pow23(d, e), d, e)
    BY <2>5, <2>12, <2>13
  <2>15. QED
    BY <2>6, <2>14 DEF LeadOver
<1>3. Nat \subseteq T
  <2> HIDE DEF T
  <2>1. QED
    BY <1>1, <1>2, SetInduction
<1>4. QED
  BY <1>3, ChainsOfFacts

-----------------------------------------------------------------------------
(* The cost of the slot Store writes is that of w_min and one addition.    *)
LEMMA StoredCost ==
  ASSUME IndInv, Store, BasicCost
  PROVE  Cost(DBC_store0', DBC_len0') - ADD_COST = getV(w_min)
<1>1. PICK l : l = w_min.length
  OBVIOUS
<1>2. l \in 1 .. MAX_2 /\ MAX_2 \in Nat \ {0} /\ DBC_len0' = l /\ StoredRow(0) \in Entry
      /\ DBC_store0' = [k \in 0 .. MAX_2 - 1 |-> IF k < l THEN StoredRow(k) ELSE DBC_store0[k]]
  <2>1. /\ w_min.length \in 1 .. MAX_2 /\ DBC_len0' = w_min.length
        /\ \A k \in 0 .. w_min.length - 1 : StoredRow(k) \in Entry
        /\ DBC_store0' = [k \in 0 .. MAX_2 - 1 |-> IF k < w_min.length THEN StoredRow(k)
                                                   ELSE DBC_store0[k]]
    BY StoreFacts
  <2>2. MAX_2 \in Nat \ {0}
    BY MaxAssumption
  <2>3. 0 \in 0 .. w_min.length - 1
    BY <2>1, <2>2
  <2>4. QED
    BY <1>1, <2>1, <2>2, <2>3
<1>3. PICK c : c = DBC_store0'
  OBVIOUS
<1>4. c[0] = StoredRow(0)
  <2>1. 0 \in 0 .. MAX_2 - 1 /\ 0 < l
    BY <1>2
  <2>2. QED
    BY <1>2, <1>3, <2>1
<1>5. pc = "columns" /\ BestRight /\ w_min \in Node /\ TypeOK
  BY AtTheEnd DEF IndInv
<1>6. \E d \in Nat, e \in Nat : /\ c[0].dbl = d /\ c[0].tpl = e
                               /\ getV(w_min) = 70 * d + 126 * e + 150 * (l - 1)
  <2>1. CASE w_min.isBasic
    <3>1. PICK x : x = now_DBC[l - 1 - 0]
      OBVIOUS
    <3>2. c[0].dbl = x.dbl /\ c[0].tpl = x.tpl
      BY <1>1, <1>4, <2>1, <3>1 DEF StoredRow, RowOf
    <3>3. x.dbl \in Nat /\ x.tpl = 0
      <4>1. BinaryOf(now_DBC, w_min.length, n)
        BY <1>5, <2>1 DEF BestRight, BinaryRight
      <4>2. l - 1 - 0 \in 0 .. w_min.length - 1
        BY <1>1, <1>2
      <4>3. x.dbl \in CellRows /\ x.tpl = 0
        BY <3>1, <4>1, <4>2 DEF BinaryOf
      <4>4. QED
        BY <1>2, <4>3 DEF CellRows
    <3>4. getV(w_min) = x.dbl * 70 + 150 * (l - 1)
      <4>1. l - 1 - 0 = l - 1
        BY <1>2
      <4>2. getV(w_min) = w_min.basic_value
        BY <2>1 DEF getV
      <4>3. w_min.basic_value = now_DBC[l - 1].dbl * DBL_COST + ADD_COST * (l - 1)
        BY <1>1, <1>5, <2>1 DEF BasicCost
      <4>4. QED
        BY <3>1, <4>1, <4>2, <4>3 DEF DBL_COST, ADD_COST
    <3>5. PICK d : d = x.dbl
      OBVIOUS
    <3>6. getV(w_min) = 70 * d + 126 * 0 + 150 * (l - 1)
      BY <1>2, <3>3, <3>4, <3>5
    <3>7. QED
      BY <3>2, <3>3, <3>5, <3>6
  <2>2. CASE ~w_min.isBasic
    <3>1. Trail(w_min)[0] = w_min
      BY <1>5, TrailFacts
    <3>2. c[0].dbl = w_min.dbl /\ c[0].tpl = w_min.tpl
      BY <1>4, <2>2, <3>1 DEF StoredRow, RowOf
    <3>3. Leads(w_min, n, MAX_2, MAX_3)
      BY <1>5, <2>2 DEF BestRight
    <3>4. ~w_min.isNULL
      BY <3>3 DEF Leads, Linked, ZeroNode, NullNode
    <3>5. getV(w_min) = 70 * w_min.dbl + 126 * w_min.tpl + 150 * (l - 1)
      BY <1>1, <2>2, <3>4 DEF getV, DBL_COST, TPL_COST, ADD_COST
    <3>6. w_min.dbl \in Nat /\ w_min.tpl \in Nat
      BY <1>5 DEF Node
    <3>7. QED
      BY <3>2, <3>5, <3>6
  <2>3. QED
    BY <2>1, <2>2
<1>7. PICK d \in Nat, e \in Nat : /\ c[0].dbl = d /\ c[0].tpl = e
                                 /\ getV(w_min) = 70 * d + 126 * e + 150 * (l - 1)
  BY <1>6
<1>8. Cost(c, l) = l * 150 + d * 70 + e * 126
  BY <1>7 DEF Cost, CostAt, DBCTestCosts, DBL_COST, TPL_COST, ADD_COST
<1>9. Cost(c, l) - 150 = getV(w_min)
  <2>1. l \in Nat
    BY <1>2
  <2>2. (l * 150 + d * 70 + e * 126) - 150 = 70 * d + 126 * e + 150 * (l - 1)
    BY <2>1
  <2>3. QED
    BY <1>7, <1>8, <2>2
<1>10. QED
  BY <1>2, <1>3, <1>9 DEF ADD_COST

(* A node leads a double-base chain in the sense of Under: the terms on    *)
(* its trail grow strictly, since no node has the modulus of its own cell  *)
(* for its term.                                                           *)
LEMMA CellChains ==
  ASSUME IndInv, Called, CellsShort, NEW l \in Nat, NEW table \in Tables,
         NEW d \in CellRows, NEW e \in CellColumns, Filled(d, e),
         ~Deref(<<table, d, e>>).isNULL, Deref(<<table, d, e>>).length = l
  PROVE  Under(l, CellValue(table, d, e), d, e)
<1> DEFINE Leading(k) == \A s \in Tables, f \in CellRows, g \in CellColumns :
             Filled(f, g) /\ ~Deref(<<s, f, g>>).isNULL /\ Deref(<<s, f, g>>).length = k =>
               Under(k, CellValue(s, f, g), f, g)
           T == {k \in Nat : Leading(k)}
<1>1. /\ MAX_2 \in Nat \ {0} /\ MAX_3 \in Nat \ {0} /\ TypeOK /\ CellsRight /\ n \in Nat
  BY MaxAssumption, OptimalAssumption, ScalarFacts DEF IndInv
<1>2. ASSUME NEW s \in Tables, NEW f \in CellRows, NEW g \in CellColumns, Filled(f, g),
             NEW x, x = Deref(<<s, f, g>>), ~x.isNULL
      PROVE  /\ x \in Node /\ f \in Nat /\ g \in Nat
             /\ CellValue(s, f, g) \in Int
             /\ \/ x = ZeroNode /\ CellValue(s, f, g) = 0
                \/ /\ Linked(x) /\ x.dbl <= f /\ x.tpl <= g /\ (x.dbl # f \/ x.tpl # g)
                   /\ CellValue(s, f, g) = CellValue(x.parent[1], x.dbl, x.tpl) + NodeTerm(x)
  <2>1. f \in Nat /\ g \in Nat /\ f \in Rows /\ g \in Columns
    BY <1>1 DEF CellRows, CellColumns, Rows, Columns
  <2>2. x \in Node /\ x = IF s = "w" THEN w[<<f, g>>] ELSE w_[<<f, g>>]
    BY <1>1, <1>2, <2>1, CellNodes
  <2>3. CellShort(x, s, f, g) /\ CellRight(x, s, f, g)
    BY <1>1, <1>2, <2>2 DEF CellsShort, CellsRight, Tables
  <2>4. x.dbl # f \/ x.tpl # g \/ x.isBasic
    BY <1>2, <2>3 DEF CellShort
  <2>5. Leads(x, CellValue(s, f, g), f, g)
    BY <1>2, <2>3 DEF CellRight, Null
  <2>6. CellValue(s, f, g) \in Int
    <3>1. PICK m : m = Pow23(f, g)
      OBVIOUS
    <3>2. m \in Nat \ {0}
      BY <2>1, <3>1, PowerSteps
    <3>3. n % m \in Nat
      BY <1>1, <3>2
    <3>4. (n % m) - 0 \in Int /\ (n % m) - m \in Int
      BY <3>2, <3>3
    <3>5. QED
      BY <3>1, <3>4 DEF CellValue
  <2>7. Linked(x) => ~x.isBasic
    BY DEF Linked
  <2> HIDE DEF Leading, T
  <2>8. \/ x = ZeroNode /\ CellValue(s, f, g) = 0
        \/ /\ Linked(x) /\ x.dbl <= f /\ x.tpl <= g
           /\ CellValue(s, f, g) = CellValue(x.parent[1], x.dbl, x.tpl) + NodeTerm(x)
    BY <2>5 DEF Leads
  <2>9. QED
    BY <2>1, <2>2, <2>4, <2>6, <2>7, <2>8
<1>3. 0 \in T
  <2> SUFFICES ASSUME NEW s \in Tables, NEW f \in CellRows, NEW g \in CellColumns, Filled(f, g),
                      ~Deref(<<s, f, g>>).isNULL, Deref(<<s, f, g>>).length = 0
               PROVE  Under(0, CellValue(s, f, g), f, g)
    OBVIOUS
  <2>1. PICK x : x = Deref(<<s, f, g>>)
    OBVIOUS
  <2>2. ~Linked(x)
    BY <2>1 DEF Linked
  <2>3. CellValue(s, f, g) = 0 /\ f \in Nat /\ g \in Nat /\ CellValue(s, f, g) \in Int
    BY <1>2, <2>1, <2>2
  <2>4. QED
    BY <2>3, UnderFacts
<1>4. ASSUME NEW k \in Nat, k \in T PROVE k + 1 \in T
  <2> SUFFICES ASSUME NEW s \in Tables, NEW f \in CellRows, NEW g \in CellColumns, Filled(f, g),
                      ~Deref(<<s, f, g>>).isNULL, Deref(<<s, f, g>>).length = k + 1
               PROVE  Under(k + 1, CellValue(s, f, g), f, g)
    OBVIOUS
  <2>1. PICK x, z : x = Deref(<<s, f, g>>) /\ z = CellValue(s, f, g)
    OBVIOUS
  <2>2. x # ZeroNode
    <3>1. ZeroNode.length = 0 /\ k + 1 # 0
      BY DEF ZeroNode, NullNode
    <3>2. QED
      BY <2>1, <3>1
  <2>3. /\ f \in Nat /\ g \in Nat /\ z \in Int /\ Linked(x)
        /\ x.dbl <= f /\ x.tpl <= g /\ (x.dbl # f \/ x.tpl # g)
        /\ z = CellValue(x.parent[1], x.dbl, x.tpl) + NodeTerm(x)
    BY <1>2, <2>1, <2>2
  <2>4. PICK q \in Tables : x.parent = <<q, x.dbl, x.tpl>>
    BY <2>3 DEF Linked
  <2>5. PICK u, v : u = x.dbl /\ v = x.tpl
    OBVIOUS
  <2>6. /\ u \in CellRows /\ v \in CellColumns /\ Filled(u, v)
        /\ ~Deref(<<q, u, v>>).isNULL /\ Deref(<<q, u, v>>).length = x.length - 1
    BY <2>3, <2>4, <2>5 DEF Linked
  <2>7. x.length - 1 = k
    BY <2>1
  <2>8. Under(k, CellValue(q, u, v), u, v)
    BY <1>4, <2>6, <2>7
  <2>9. PICK c \in {-1, 1} : NodeTerm(x) = c * Pow23(u, v)
    BY <2>5 DEF NodeTerm
  <2>10. z = CellValue(q, u, v) + c * Pow23(u, v)
    BY <2>3, <2>4, <2>5, <2>9
  <2>11. Under(k + 1, z, f, g)
    BY <2>3, <2>5, <2>8, <2>10, PutOnTop
  <2>12. QED
    BY <2>1, <2>11
<1>5. Nat \subseteq T
  <2> HIDE DEF T
  <2>1. QED
    BY <1>3, <1>4, SetInduction
<1>6. Leading(l)
  BY <1>5
<1>7. QED
  BY <1>6

(* The powers of two of the binary chain do so too.                        *)
LEMMA BinaryChains ==
  ASSUME NEW c, NEW l \in Nat \ {0}, NEW m \in Nat, BinaryOf(c, l, m), CellRows \subseteq Nat
  PROVE  Under(l - 1, m - Pow23(c[l - 1].dbl, 0), c[l - 1].dbl, 0)
<1> DEFINE T == {k \in Nat : k < l => Under(k, m % Pow2[c[k].dbl], c[k].dbl, 0)}
<1>1. \A k \in 0 .. l - 1 :
        /\ c[k].dbl \in Nat
        /\ m % Pow2[c[k].dbl + 1] = (m % Pow2[c[k].dbl]) + Pow2[c[k].dbl]
        /\ k = 0 => m % Pow2[c[k].dbl] = 0
        /\ k # 0 => c[k - 1].dbl < c[k].dbl /\ m % Pow2[c[k].dbl] = m % Pow2[c[k - 1].dbl + 1]
  BY DEF BinaryOf
<1>2. \A x \in Nat : Pow23(x, 0) = Pow2[x] /\ Pow2[x] \in Nat \ {0}
  BY Pow2Facts, Pow3Facts DEF Pow23
<1>3. 0 \in T
  <2>1. 0 \in 0 .. l - 1
    OBVIOUS
  <2>2. c[0].dbl \in Nat /\ m % Pow2[c[0].dbl] = 0
    BY <1>1, <2>1
  <2>3. QED
    BY <2>2, UnderFacts
<1>4. ASSUME NEW k \in Nat, k \in T PROVE k + 1 \in T
  <2> SUFFICES ASSUME k + 1 < l PROVE Under(k + 1, m % Pow2[c[k + 1].dbl], c[k + 1].dbl, 0)
    OBVIOUS
  <2>1. PICK j, x, y : j = k + 1 /\ x = c[k].dbl /\ y = c[j].dbl
    OBVIOUS
  <2>2. j \in 0 .. l - 1 /\ k \in 0 .. l - 1 /\ j # 0 /\ j - 1 = k
    BY <2>1
  <2>3. x \in Nat /\ y \in Nat
    BY <1>1, <2>1, <2>2
  <2>4. c[j - 1].dbl = x
    BY <2>1, <2>2
  <2>5. x < y /\ m % Pow2[y] = m % Pow2[x + 1]
    BY <1>1, <2>1, <2>2, <2>4
  <2>6. m % Pow2[x + 1] = (m % Pow2[x]) + Pow2[x]
    BY <1>1, <2>1, <2>2
  <2>7. PICK r, p : r = m % Pow2[x] /\ p = Pow2[x]
    OBVIOUS
  <2>8. p \in Nat \ {0} /\ Pow23(x, 0) = p
    BY <1>2, <2>3, <2>7
  <2>9. Under(k, r, x, 0)
    BY <1>4, <2>1, <2>2, <2>7
  <2>10. m % Pow2[y] = r + 1 * Pow23(x, 0)
    <3>1. r \in Nat
      BY <2>7, <2>8
    <3>2. r + 1 * p = r + p
      BY <2>8, <3>1
    <3>3. QED
      BY <2>5, <2>6, <2>7, <2>8, <3>2
  <2>11. Under(k + 1, m % Pow2[y], y, 0)
    <3>1. 1 \in {-1, 1} /\ 0 \in Nat /\ 0 <= 0 /\ x <= y /\ x # y
      BY <2>3, <2>5
    <3>2. QED
      BY <2>3, <2>9, <2>10, <3>1, PutOnTop
  <2>12. QED
    BY <2>1, <2>11
<1>5. Nat \subseteq T
  <2> HIDE DEF T
  <2>1. QED
    BY <1>3, <1>4, SetInduction
<1>6. PICK k, x : k = l - 1 /\ x = c[k].dbl
  OBVIOUS
<1>7. k \in Nat /\ k < l /\ k \in 0 .. l - 1
  BY <1>6
<1>8. Under(k, m % Pow2[x], x, 0)
  BY <1>5, <1>6, <1>7
<1>9. x \in Nat /\ m % Pow2[x + 1] = (m % Pow2[x]) + Pow2[x]
  BY <1>1, <1>6, <1>7
<1>10. m < Pow2[x + 1]
  BY <1>6 DEF BinaryOf
<1>11. PICK r, p, q : r = m % Pow2[x] /\ p = Pow2[x] /\ q = Pow2[x + 1]
  OBVIOUS
<1>12. p \in Nat \ {0} /\ q \in Nat \ {0} /\ Pow23(x, 0) = p
  <2>1. x + 1 \in Nat
    BY <1>9
  <2>2. QED
    BY <1>2, <1>9, <1>11, <2>1
<1>13. m % q = m
  BY <1>10, <1>11, <1>12, SmallRemainder
<1>14. m - p = r
  <2>1. m = r + p
    BY <1>9, <1>11, <1>13
  <2>2. r \in Nat
    BY <1>11, <1>12
  <2>3. QED
    BY <1>12, <2>1, <2>2
<1>15. QED
  BY <1>6, <1>8, <1>11, <1>12, <1>14

(* So w_min leads a chain of n too, at what getV says.                     *)
LEMMA BestIsChain ==
  ASSUME IndInv, Store, CellsShort, BasicCost
  PROVE  \E k \in Nat, d \in Nat, e \in Nat :
           Under(k, n - Pow23(d, e), d, e) /\ getV(w_min) = Price(k, d, e)
<1>1. /\ pc = "columns" /\ Called /\ BestRight /\ n \in Nat \ {0} /\ w_min \in Node
      /\ MAX_2 \in Nat \ {0} /\ MAX_3 \in Nat \ {0}
  BY AtTheEnd, MaxAssumption, OptimalAssumption DEF IndInv
<1>2. PICK l : l = w_min.length
  OBVIOUS
<1>3. PICK k : k = l - 1
  OBVIOUS
<1>4. l \in Nat \ {0} /\ k \in Nat
  <2>1. l \in 0 .. MAX_2 /\ l >= 1
    BY <1>1, <1>2 DEF BestRight, Node
  <2>2. QED
    BY <1>1, <1>3, <2>1
<1>5. CellRows \subseteq Nat /\ CellColumns \subseteq Nat
  BY <1>1 DEF CellRows, CellColumns
<1>6. CASE w_min.isBasic
  <2>1. BinaryOf(now_DBC, l, n)
    BY <1>1, <1>2, <1>6 DEF BestRight, BinaryRight
  <2>2. PICK d : d = now_DBC[k].dbl
    OBVIOUS
  <2>3. Under(k, n - Pow23(d, 0), d, 0)
    <3>1. n \in Nat
      BY <1>1
    <3>2. Under(l - 1, n - Pow23(now_DBC[l - 1].dbl, 0), now_DBC[l - 1].dbl, 0)
      BY <1>4, <1>5, <2>1, <3>1, BinaryChains
    <3>3. QED
      BY <1>3, <2>2, <3>2
  <2>4. d \in Nat
    BY <2>3, <1>4, UnderFacts
  <2>5. getV(w_min) = d * 70 + 150 * k
    <3>1. getV(w_min) = w_min.basic_value
      BY <1>6 DEF getV
    <3>2. w_min.basic_value = now_DBC[k].dbl * DBL_COST + ADD_COST * k
      BY <1>1, <1>2, <1>3, <1>6 DEF BasicCost
    <3>3. QED
      BY <2>2, <3>1, <3>2 DEF DBL_COST, ADD_COST
  <2>6. Price(k, d, 0) = d * 70 + 150 * k
    <3>1. Price(k, d, 0) = k * 150 + d * 70 + 0 * 126
      BY DEF Price, DBL_COST, ADD_COST, TPL_COST
    <3>2. QED
      BY <1>4, <2>4, <3>1
  <2>7. QED
    BY <1>4, <2>3, <2>4, <2>5, <2>6
<1>7. CASE ~w_min.isBasic
  <2>1. Leads(w_min, n, MAX_2, MAX_3)
    BY <1>1, <1>7 DEF BestRight
  <2>2. Linked(w_min) /\ n = CellValue(w_min.parent[1], w_min.dbl, w_min.tpl) + NodeTerm(w_min)
    <3>1. w_min # ZeroNode
      BY <1>7 DEF ZeroNode, NullNode
    <3>2. QED
      BY <2>1, <3>1 DEF Leads
  <2>3. PICK s \in Tables : w_min.parent = <<s, w_min.dbl, w_min.tpl>>
    BY <2>2 DEF Linked
  <2>4. PICK d, e : d = w_min.dbl /\ e = w_min.tpl
    OBVIOUS
  <2>5. /\ d \in CellRows /\ e \in CellColumns /\ Filled(d, e) /\ ~w_min.isNULL
        /\ ~Deref(<<s, d, e>>).isNULL /\ Deref(<<s, d, e>>).length = w_min.length - 1
    BY <2>2, <2>3, <2>4 DEF Linked
  <2>6. d \in Nat /\ e \in Nat
    BY <1>5, <2>5
  <2>7. PICK v, m : v = CellValue(s, d, e) /\ m = Pow23(d, e)
    OBVIOUS
  <2>8. Under(k, v, d, e)
    <3>1. Deref(<<s, d, e>>).length = k
      BY <1>2, <1>3, <2>5
    <3>2. QED
      BY <1>1, <1>4, <2>5, <2>7, <3>1, CellChains
  <2>9. m \in Nat \ {0} /\ v \in Int /\ v < m /\ -m < v
    BY <1>4, <2>6, <2>7, <2>8, UnderSmall, PowerSteps
  <2>10. PICK c \in {-1, 1} : n = v + c * m
    <3>1. PICK c \in {-1, 1} : NodeTerm(w_min) = c * m
      BY <2>4, <2>7 DEF NodeTerm
    <3>2. QED
      BY <2>2, <2>3, <2>4, <2>7, <3>1
  <2>11. n - m = v
    <3>1. c = 1
      <4>1. SUFFICES ASSUME c = -1 PROVE FALSE
        BY <2>10
      <4>2. n = v - m
        BY <2>9, <2>10, <4>1
      <4>3. QED
        BY <1>1, <2>9, <4>2
    <3>2. QED
      BY <2>9, <2>10, <3>1
  <2>12. Under(k, n - Pow23(d, e), d, e)
    BY <2>7, <2>8, <2>11
  <2>13. getV(w_min) = 70 * d + 126 * e + 150 * k
    BY <1>2, <1>3, <1>7, <2>4, <2>5 DEF getV, DBL_COST, TPL_COST, ADD_COST
  <2>14. Price(k, d, e) = 70 * d + 126 * e + 150 * k
    <3>1. Price(k, d, e) = k * 150 + d * 70 + e * 126
      BY DEF Price, DBL_COST, ADD_COST, TPL_COST
    <3>2. QED
      BY <1>4, <2>6, <3>1
  <2>15. QED
    BY <1>4, <2>6, <2>12, <2>13, <2>14
<1>8. QED
  BY <1>6, <1>7

(* The least cost a double-base chain of m can have: some chain has it,    *)
(* and none, with any number of terms below a leading term of any size, is *)
(* cheaper.                                                                *)
LeastPrice(m, cost) ==
  /\ \E k \in Nat, d \in Nat, e \in Nat :
       Under(k, m - Pow23(d, e), d, e) /\ cost = Price(k, d, e)
  /\ \A k \in Nat, d \in Nat, e \in Nat :
       Under(k, m - Pow23(d, e), d, e) => cost <= Price(k, d, e)

(* There is only one, so it depends on the scalar alone.                   *)
LEMMA OneLeastPrice ==
  ASSUME NEW m, NEW x, NEW y, LeastPrice(m, x), LeastPrice(m, y)
  PROVE  x = y
<1>1. \A k \in Nat, d \in Nat, e \in Nat : Price(k, d, e) \in Nat
  BY DEF Price, DBL_COST, TPL_COST, ADD_COST
<1>2. PICK k \in Nat, d \in Nat, e \in Nat : Under(k, m - Pow23(d, e), d, e) /\ x = Price(k, d, e)
  BY DEF LeastPrice
<1>3. PICK l \in Nat, p \in Nat, q \in Nat : Under(l, m - Pow23(p, q), p, q) /\ y = Price(l, p, q)
  BY DEF LeastPrice
<1>4. x <= y /\ y <= x
  <2>1. x <= Price(l, p, q)
    BY <1>3 DEF LeastPrice
  <2>2. y <= Price(k, d, e)
    BY <1>2 DEF LeastPrice
  <2>3. QED
    BY <1>2, <1>3, <2>1, <2>2
<1>5. x \in Nat /\ y \in Nat
  BY <1>1, <1>2, <1>3
<1>6. QED
  BY <1>4, <1>5

(* What a call returns costs that, but for the first term (compute_TTV     *)
(* charges an addition for it too).                                        *)
CostIsLeast == pc = "done" => LeastPrice(n, Cost(DBC_store0, DBC_len0) - ADD_COST)

LEMMA StoreCheapest ==
  ASSUME IndInv, Store, CellsShort, BestCheap, BasicCost
  PROVE  CostIsLeast'
<1>1. n' = n
  BY DEF Store, StoreInOrder
<1>2. PICK cost : cost = getV(w_min)
  OBVIOUS
<1>3. Cost(DBC_store0', DBC_len0') - ADD_COST = cost
  BY <1>2, StoredCost
<1>4. LeastPrice(n, cost)
  <2>1. \A k \in Nat, d \in Nat, e \in Nat :
          Under(k, n - Pow23(d, e), d, e) => cost <= Price(k, d, e)
    BY <1>2, NoCheaper
  <2>2. \E k \in Nat, d \in Nat, e \in Nat :
          Under(k, n - Pow23(d, e), d, e) /\ cost = Price(k, d, e)
    BY <1>2, BestIsChain
  <2>3. QED
    BY <2>1, <2>2 DEF LeastPrice
<1>5. QED
  BY <1>1, <1>3, <1>4 DEF CostIsLeast

(* Optimal follows.                                                        *)
LEMMA BeatsRivals ==
  ASSUME IndInv, CostIsLeast
  PROVE  Optimal
<1>1. SUFFICES ASSUME pc = "done", NEW cost \in RivalCosts[n]
               PROVE  Cost(DBC_store0, DBC_len0) - ADD_COST <= cost
  BY DEF Optimal
<1>2. n \in Scalars /\ n \in Nat \ {0}
  BY <1>1, ScalarFacts DEF IndInv, Called
<1>3. PICK k \in 0 .. MaxAdditions :
        cost \in {k * ADD_COST + q[2][1] * DBL_COST + q[2][2] * TPL_COST :
                    q \in {p \in Rivals[k] : p[1] = n}}
  BY <1>1, <1>2 DEF RivalCosts
<1>4. PICK q \in Rivals[k] :
        q[1] = n /\ cost = k * ADD_COST + q[2][1] * DBL_COST + q[2][2] * TPL_COST
  BY <1>3
<1>5. k \in Nat /\ q \in ChainsOf[k]
  <2>1. k \in Nat
    BY OptimalAssumption
  <2>2. Rivals[k] \subseteq ChainsOf[k]
    BY DEF Rivals
  <2>3. QED
    BY <2>1, <2>2
<1>6. PICK d, e : d = q[2][1] /\ e = q[2][2]
  OBVIOUS
<1>7. q \in Pairs /\ LeadOver(k, q)
  BY <1>5, RivalsAreChains
<1>8. d \in Nat /\ e \in Nat
  BY <1>6, <1>7 DEF Pairs
<1>9. PICK c \in {-1, 1} : Under(k, n - c * Pow23(d, e), d, e)
  BY <1>4, <1>6, <1>7 DEF LeadOver
<1>10. Under(k, n - Pow23(d, e), d, e)
  <2>1. PICK m : m = Pow23(d, e)
    OBVIOUS
  <2>2. m \in Nat \ {0}
    BY <1>8, <2>1, PowerSteps
  <2>3. PICK v : v = n - c * m
    OBVIOUS
  <2>4. Under(k, v, d, e)
    BY <1>9, <2>1, <2>3
  <2>5. v < m
    BY <1>5, <2>1, <2>4, UnderSmall
  <2>6. c = 1
    <3>1. SUFFICES ASSUME c = -1 PROVE FALSE
      BY <1>9
    <3>2. v = n + m
      BY <1>2, <2>2, <2>3, <3>1
    <3>3. QED
      BY <1>2, <2>2, <2>5, <3>2
  <2>7. v = n - m
    BY <1>2, <2>2, <2>3, <2>6
  <2>8. QED
    BY <2>1, <2>4, <2>7
<1>11. Cost(DBC_store0, DBC_len0) - ADD_COST <= Price(k, d, e)
  BY <1>1, <1>5, <1>8, <1>10 DEF CostIsLeast, LeastPrice
<1>12. Price(k, d, e) = cost
  BY <1>4, <1>6 DEF Price
<1>13. QED
  BY <1>11, <1>12

(* What makes the chain returned a cheapest one, beside IndInv.            *)
CheapInv ==
  /\ Called => CellsShort
  /\ BestCheap
  /\ BasicCost
  /\ CostIsLeast

LEMMA InitCheap == Init => CheapInv
  BY DEF Init, CheapInv, Called, BestCheap, BasicCost, CostIsLeast

(* Every step keeps it.                                                    *)
LEMMA NextCheap == IndInv /\ IndInv' /\ CheapInv /\ [Next]_vars => CheapInv'
<1> SUFFICES ASSUME IndInv, IndInv', CheapInv, [Next]_vars PROVE CheapInv'
  OBVIOUS
<1>1. CASE \E m \in Scalars : Call(m)
  <2>1. PICK m \in Scalars : Call(m)
    BY <1>1
  <2>2. CellsShort' /\ BestCheap' /\ BasicCost'
    BY <2>1, CallShort, CallCheap
  <2>3. pc' = "columns"
    BY <2>1 DEF Call, CallWith
  <2>4. CostIsLeast'
    BY <2>3 DEF CostIsLeast
  <2>5. QED
    BY <2>2, <2>4 DEF CheapInv
<1>2. CASE Cell
  <2>1. pc = "cells" /\ pc' = "cells"
    BY <1>2 DEF Cell
  <2>2. CellsShort /\ BestCheap /\ BasicCost
    BY <2>1 DEF CheapInv, Called
  <2>3. CellsShort' /\ BestCheap' /\ BasicCost'
    BY <1>2, <2>2, CellStaysShort, CellStaysCheap
  <2>4. CostIsLeast'
    BY <2>1 DEF CostIsLeast
  <2>5. QED
    BY <2>3, <2>4 DEF CheapInv
<1>3. CASE LoopStep
  <2>1. /\ Called /\ pc \in {"columns", "rows", "cells"} /\ w_min' = w_min /\ bBound' = bBound
        /\ Kept
        /\ \A d \in CellRows, e \in CellColumns : Filled(d, e)' => Filled(d, e)
    BY <1>3, LoopFacts, LoopKeeps, LoopFilled
  <2>2. CellsShort /\ BestCheap /\ BasicCost
    BY <2>1 DEF CheapInv
  <2>3. CellsShort'
    BY <2>1, <2>2, KeptShort
  <2>4. CASE Store
    <3>1. pc' = "done"
      BY <2>4 DEF Store, StoreInOrder
    <3>2. BestCheap' /\ BasicCost'
      BY <3>1 DEF BestCheap, BasicCost
    <3>3. CostIsLeast'
      BY <2>2, <2>4, StoreCheapest
    <3>4. QED
      BY <2>3, <3>2, <3>3 DEF CheapInv
  <2>5. CASE NextBand \/ NextBlock \/ EndBand \/ EndBlock \/ EndColumn
    <3>1. now_DBC' = now_DBC /\ pc' \in {"columns", "rows", "cells"}
      BY <2>5 DEF NextBand, NextBandTo, NextBlock, EndBand, EndBandWith, EndBlock, EndColumn
    <3>2. BestCheap' /\ BasicCost'
      BY <2>1, <2>2, <3>1, KeptCheap
    <3>3. CostIsLeast'
      BY <3>1 DEF CostIsLeast
    <3>4. QED
      BY <2>3, <3>2, <3>3 DEF CheapInv
  <2>6. QED
    BY <1>3, <2>4, <2>5 DEF LoopStep
<1>4. CASE UNCHANGED vars
  <2>1. UNCHANGED <<pc, n, w, w_, w_min, now_DBC, bBound>> /\ UNCHANGED <<loopVars, resultVars>>
    BY <1>4 DEF vars
  <2>2. UNCHANGED <<i_outer, j_outer, i_inner, j_inner, record_outer, temp_outer, n0,
                    DBC_store0, DBC_len0>>
    BY <2>1 DEF loopVars, resultVars
  <2>3. Kept /\ \A d \in CellRows, e \in CellColumns : Filled(d, e)' => Filled(d, e)
    BY <2>1, <2>2 DEF Kept, Filled, Inside, Passed, t, b, log3B, B
  <2>4. Called => CellsShort'
    BY <2>3, KeptShort DEF CheapInv
  <2>5. BestCheap' /\ BasicCost'
    <3>1. CASE pc \in {"columns", "rows", "cells"}
      BY <2>1, <2>3, <3>1, KeptCheap DEF CheapInv
    <3>2. CASE pc \notin {"columns", "rows", "cells"}
      BY <2>1, <3>2 DEF BestCheap, BasicCost
    <3>3. QED
      BY <3>1, <3>2
  <2>6. CostIsLeast'
    BY <2>1, <2>2 DEF CheapInv, CostIsLeast
  <2>7. (Called => CellsShort)'
    BY <2>1, <2>4 DEF Called
  <2>8. QED
    BY <2>5, <2>6, <2>7 DEF CheapInv
<1>5. QED
  BY <1>1, <1>2, <1>3, <1>4 DEF Next, LoopStep

(* Every cell that has been passed leads a shortest chain of its residue,  *)
(* or of its complement: no chain strictly below the modulus, with however *)
(* large a number of terms, has fewer.                                     *)
THEOREM TablesShortest == Spec => [](Called => CellsShort)
<1>1. IndInv /\ CheapInv /\ [Next]_vars /\ IndInv' => CheapInv'
  BY NextCheap
<1>2. CheapInv => (Called => CellsShort)
  BY DEF CheapInv
<1>3. QED
  BY <1>1, <1>2, InitCheap, Inductive, PTL DEF Spec

(* getOptimalDBC returns a cheapest chain: whatever the scalar and the     *)
(* block sizes, and whatever earlier calls left, the cost of what it       *)
(* returns is the least by compute_TTV that a double-base chain of n has,  *)
(* with however many additions and however large a leading term.           *)
THEOREM NoneIsCheaper == Spec => []CostIsLeast
<1>1. IndInv /\ CheapInv /\ [Next]_vars /\ IndInv' => CheapInv'
  BY NextCheap
<1>2. CheapInv => CostIsLeast
  BY DEF CheapInv
<1>3. QED
  BY <1>1, <1>2, InitCheap, Inductive, PTL DEF Spec

(* In particular none of the rivals the model enumerates, whatever their   *)
(* bounds.                                                                 *)
THEOREM ReturnsOptimal == Spec => []Optimal
<1>1. IndInv /\ CostIsLeast => Optimal
  BY BeatsRivals
<1>2. QED
  BY <1>1, Inductive, NoneIsCheaper, PTL
=============================================================================
