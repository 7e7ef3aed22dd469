------------------------- MODULE ReferenceMulProofs -------------------------
(***************************************************************************)
(* Proofs about ReferenceMul for every scalar, every chain and every       *)
(* order: the loops of the six multiplications keep their invariants, the  *)
(* non-adjacent form costs no more than the bits, and all of them          *)
(* implement ScalarMul.                                                    *)
(***************************************************************************)
EXTENDS ReferenceMul, ArithmeticProofs

(* The sums of a chain, and the numbers its first digits stand for.        *)
LEMMA RowValueType ==
  ASSUME NEW row \in Row
  PROVE  RowValue(row) \in Int
<1>1. row.dbl \in Nat /\ row.tpl \in Nat
  BY DEF Row
<1>2. Pow23(row.dbl, row.tpl) \in Nat
  BY <1>1, PowerSteps
<1>3. QED
  BY <1>2 DEF RowValue

(* The recursive equation of RowSums.                                      *)
LEMMA RowSumsFacts ==
  ASSUME NEW rows \in Seq(Row)
  PROVE  /\ RowSums(rows)[0] = 0
         /\ \A x \in 0 .. Len(rows) : RowSums(rows)[x] \in Int
         /\ \A x \in 1 .. Len(rows) : /\ rows[x] \in Row /\ RowValue(rows[x]) \in Int
                                      /\ RowSums(rows)[x] = RowSums(rows)[x - 1] + RowValue(rows[x])
<1> DEFINE m == Len(rows)
           h == [p \in (1 .. m) \X Int |-> p[2] + RowValue(rows[p[1]])]
           F(u) == [x \in 0 .. m |-> IF x = 0 THEN 0 ELSE u[x - 1] + RowValue(rows[x])]
           good == CHOOSE u : u = F(u)
           T == {x \in Nat : x <= m => good[x] \in Int}
<1>1. m \in Nat /\ 0 \in Int /\ \A x \in 1 .. m : rows[x] \in Row /\ RowValue(rows[x]) \in Int
  BY RowValueType
<1>2. \A x \in 1 .. m, y \in Int : h[<<x, y>>] = y + RowValue(rows[x]) /\ h[<<x, y>>] \in Int
  BY <1>1
<1> HIDE DEF h
<1>3. PICK v \in [0 .. m -> Int] : v[0] = 0 /\ \A x \in 1 .. m : v[x] = h[<<x, v[x - 1]>>]
  <2>1. m \in Nat /\ 0 \in Int /\ ClosedTo(m, Int, h)
    BY <1>1, <1>2 DEF ClosedTo
  <2> HIDE DEF m
  <2>2. IterableTo(m, Int, 0, h)
    BY <2>1, BoundedIteration
  <2>3. QED
    BY <2>2 DEF IterableTo
<1>4. v = F(v)
  <2>1. \A x \in 1 .. m : x - 1 \in 0 .. m /\ v[x - 1] \in Int
    BY <1>1, SMTT(60)
  <2>2. \A x \in 0 .. m : x # 0 => x \in 1 .. m
    BY <1>1
  <2>3. \A x \in 0 .. m : v[x] = F(v)[x]
    BY <1>2, <1>3, <2>1, <2>2
  <2>4. QED
    BY <2>3
<1>5. good = F(good)
  BY <1>4
<1>6. RowSums(rows) = good
  BY DEF RowSums
<1> HIDE DEF good
<1>7. good[0] = 0 /\ \A x \in 1 .. m : good[x] = good[x - 1] + RowValue(rows[x])
  <2>1. 0 \in 0 .. m /\ \A x \in 1 .. m : x # 0 /\ x \in 0 .. m
    BY <1>1
  <2> HIDE DEF m
  <2>2. QED
    BY <1>5, <2>1
<1>8. Nat \subseteq T
  <2>1. 0 \in T
    BY <1>7
  <2>2. ASSUME NEW x \in Nat, x \in T PROVE x + 1 \in T
    <3> SUFFICES ASSUME x + 1 <= m PROVE good[x + 1] \in Int
      OBVIOUS
    <3>1. x <= m /\ x + 1 \in 1 .. m /\ (x + 1) - 1 = x
      BY <1>1
    <3>2. QED
      BY <1>1, <1>7, <2>2, <3>1
  <2> HIDE DEF T
  <2>3. QED
    BY <2>1, <2>2, SetInduction
<1>9. \A x \in 0 .. m : good[x] \in Int
  BY <1>1, <1>8
<1>10. QED
  BY <1>1, <1>6, <1>7, <1>9

(* The recursive equation of Horners.                                      *)
LEMMA HornersFacts ==
  ASSUME NEW ds \in Seq(Int)
  PROVE  /\ Horners(ds)[0] = 0
         /\ \A x \in 0 .. Len(ds) : Horners(ds)[x] \in Int
         /\ \A x \in 1 .. Len(ds) : Horners(ds)[x] = 2 * Horners(ds)[x - 1] + ds[x]
<1> DEFINE m == Len(ds)
           h == [p \in (1 .. m) \X Int |-> 2 * p[2] + ds[p[1]]]
           F(u) == [x \in 0 .. m |-> IF x = 0 THEN 0 ELSE 2 * u[x - 1] + ds[x]]
           good == CHOOSE u : u = F(u)
           T == {x \in Nat : x <= m => good[x] \in Int}
<1>1. m \in Nat /\ 0 \in Int /\ \A x \in 1 .. m : ds[x] \in Int
  OBVIOUS
<1>2. \A x \in 1 .. m, y \in Int : h[<<x, y>>] = 2 * y + ds[x] /\ h[<<x, y>>] \in Int
  BY <1>1
<1> HIDE DEF h
<1>3. PICK v \in [0 .. m -> Int] : v[0] = 0 /\ \A x \in 1 .. m : v[x] = h[<<x, v[x - 1]>>]
  <2>1. m \in Nat /\ 0 \in Int /\ ClosedTo(m, Int, h)
    BY <1>1, <1>2 DEF ClosedTo
  <2> HIDE DEF m
  <2>2. IterableTo(m, Int, 0, h)
    BY <2>1, BoundedIteration
  <2>3. QED
    BY <2>2 DEF IterableTo
<1>4. v = F(v)
  <2>1. \A x \in 1 .. m : x - 1 \in 0 .. m /\ v[x - 1] \in Int
    BY <1>1, SMTT(60)
  <2>2. \A x \in 0 .. m : x # 0 => x \in 1 .. m
    BY <1>1
  <2>3. \A x \in 0 .. m : v[x] = F(v)[x]
    BY <1>2, <1>3, <2>1, <2>2
  <2>4. QED
    BY <2>3
<1>5. good = F(good)
  BY <1>4
<1>6. Horners(ds) = good
  BY DEF Horners
<1> HIDE DEF good
<1>7. good[0] = 0 /\ \A x \in 1 .. m : good[x] = 2 * good[x - 1] + ds[x]
  <2>1. 0 \in 0 .. m /\ \A x \in 1 .. m : x # 0 /\ x \in 0 .. m
    BY <1>1
  <2> HIDE DEF m
  <2>2. QED
    BY <1>5, <2>1
<1>8. Nat \subseteq T
  <2>1. 0 \in T
    BY <1>7
  <2>2. ASSUME NEW x \in Nat, x \in T PROVE x + 1 \in T
    <3> SUFFICES ASSUME x + 1 <= m PROVE good[x + 1] \in Int
      OBVIOUS
    <3>1. x <= m /\ x + 1 \in 1 .. m /\ (x + 1) - 1 = x
      BY <1>1
    <3>2. QED
      BY <1>1, <1>7, <2>2, <3>1, SMTT(60)
  <2> HIDE DEF T
  <2>3. QED
    BY <2>1, <2>2, SetInduction
<1>9. \A x \in 0 .. m : good[x] \in Int
  BY <1>1, <1>8
<1>10. QED
  BY <1>6, <1>7, <1>9

(* Reversed, the digit pushed last comes first.                            *)
LEMMA ReversePush ==
  ASSUME NEW ds \in Seq(Int), NEW d \in Int
  PROVE  LET l == Len(ds)
             r == Reverse(ds)
             q == Reverse(Append(ds, d))
         IN  /\ l \in Nat /\ r \in Seq(Int) /\ Len(r) = l /\ \A x \in 1 .. l : r[x] = ds[l - x + 1]
             /\ q \in Seq(Int) /\ Len(q) = l + 1 /\ q[1] = d /\ \A x \in 1 .. l : q[x + 1] = r[x]
<1> DEFINE l == Len(ds)
           r == Reverse(ds)
           q == Reverse(Append(ds, d))
<1>1. /\ l \in Nat /\ Append(ds, d) \in Seq(Int) /\ Len(Append(ds, d)) = l + 1
      /\ Append(ds, d)[l + 1] = d /\ \A x \in 1 .. l : ds[x] \in Int /\ Append(ds, d)[x] = ds[x]
  OBVIOUS
<1>2. r \in Seq(Int) /\ Len(r) = l /\ \A x \in 1 .. l : r[x] = ds[l - x + 1]
  <2>1. r = [x \in 1 .. l |-> ds[(l - x) + 1]]
    BY DEF Reverse
  <2>2. \A x \in 1 .. l : (l - x) + 1 \in 1 .. l
    BY <1>1
  <2>3. r \in [1 .. l -> Int]
    BY <1>1, <2>1, <2>2
  <2> HIDE DEF r
  <2>4. QED
    BY <1>1, <2>1, <2>3
<1>3. q \in Seq(Int) /\ Len(q) = l + 1 /\ q[1] = d /\ \A x \in 1 .. l : q[x + 1] = r[x]
  <2> DEFINE a == Append(ds, d)
  <2> HIDE DEF a
  <2>1. q = [x \in 1 .. l + 1 |-> a[(l + 1 - x) + 1]]
    BY <1>1 DEF Reverse, a
  <2>2. \A x \in 1 .. l + 1 : (l + 1 - x) + 1 \in 1 .. l + 1
    BY <1>1
  <2>3. \A x \in 1 .. l + 1 : a[x] \in Int
    BY <1>1 DEF a
  <2>4. q \in [1 .. l + 1 -> Int]
    BY <1>1, <2>1, <2>2, <2>3
  <2> HIDE DEF q
  <2>5. q \in Seq(Int) /\ Len(q) = l + 1
    BY <1>1, <2>4
  <2>6. q[1] = d
    <3>1. 1 \in 1 .. l + 1 /\ (l + 1 - 1) + 1 = l + 1
      BY <1>1
    <3>2. QED
      BY <1>1, <2>1, <3>1 DEF a
  <2>7. ASSUME NEW x \in 1 .. l PROVE q[x + 1] = r[x]
    <3>1. x + 1 \in 1 .. l + 1 /\ (l + 1 - (x + 1)) + 1 = l - x + 1 /\ l - x + 1 \in 1 .. l
      BY <1>1
    <3>2. q[x + 1] = a[l - x + 1] /\ a[l - x + 1] = ds[l - x + 1]
      BY <1>1, <2>1, <3>1 DEF a
    <3>3. QED
      BY <1>2, <3>2
  <2>8. QED
    BY <2>5, <2>6, <2>7
<1>4. QED
  BY <1>1, <1>2, <1>3

(* A digit pushed on the reversed digits has the weight of a new leading   *)
(* one.                                                                    *)
LEMMA PushDigit ==
  ASSUME NEW ds \in Seq(Int), NEW d \in Int
  PROVE  /\ Horner(Reverse(Append(ds, d))) = d * Pow2[Len(ds)] + Horner(Reverse(ds))
         /\ Horner(Reverse(ds)) \in Int
<1> DEFINE l == Len(ds)
           r == Reverse(ds)
           q == Reverse(Append(ds, d))
           T == {x \in Nat : x <= l => Horners(q)[x + 1] = d * Pow2[x] + Horners(r)[x]}
<1>1. l \in Nat
  OBVIOUS
<1>2. r \in Seq(Int) /\ Len(r) = l
  BY ReversePush
<1>3. q \in Seq(Int) /\ Len(q) = l + 1 /\ q[1] = d /\ \A x \in 1 .. l : q[x + 1] = r[x]
  BY ReversePush
<1> HIDE DEF q, r
<1>4. 0 \in T
  <2>1. Horners(q)[1] = 2 * Horners(q)[0] + q[1] /\ Horners(q)[0] = 0
    <3>1. 1 \in 1 .. Len(q) /\ 1 - 1 = 0
      BY <1>1, <1>3
    <3>2. QED
      BY <1>3, <3>1, HornersFacts
  <2>2. Horners(r)[0] = 0 /\ Pow2[0] = 1
    BY <1>2, HornersFacts, Pow2Facts
  <2>3. QED
    BY <1>3, <2>1, <2>2
<1>5. ASSUME NEW x \in Nat, x \in T PROVE x + 1 \in T
  <2> SUFFICES ASSUME x + 1 <= l
               PROVE  Horners(q)[(x + 1) + 1] = d * Pow2[x + 1] + Horners(r)[x + 1]
    OBVIOUS
  <2> DEFINE y == x + 1
  <2>1. /\ y \in 1 .. l /\ y - 1 = x /\ x \in 0 .. l /\ y + 1 \in 1 .. l + 1 /\ (y + 1) - 1 = y
        /\ x <= l
    BY <1>1
  <2> HIDE DEF y
  <2>2. Horners(q)[y + 1] = 2 * Horners(q)[(y + 1) - 1] + q[y + 1]
    BY <1>3, <2>1, HornersFacts
  <2>3. Horners(r)[y] = 2 * Horners(r)[y - 1] + r[y] /\ Horners(r)[x] \in Int
    BY <1>2, <2>1, HornersFacts
  <2>4. Horners(q)[y] = d * Pow2[x] + Horners(r)[x]
    BY <1>5, <2>1 DEF y
  <2>5. Pow2[y] = 2 * Pow2[x] /\ Pow2[x] \in Nat
    BY Pow2Facts DEF y
  <2>6. r[y] \in Int /\ q[y + 1] = r[y]
    <3>1. r \in Seq(Int) /\ y \in 1 .. Len(r) /\ q[y + 1] = r[y]
      BY <1>2, <1>3, <2>1
    <3>2. r[y] \in Int
      BY <3>1
    <3>3. QED
      BY <3>1, <3>2
  <2>7. Horners(q)[y + 1] = d * Pow2[y] + Horners(r)[y]
    <3> DEFINE p == Pow2[x]
               u == Horners(r)[x]
    <3>1. d * (2 * p) = 2 * (d * p) /\ d * p \in Int
      BY <2>5
    <3>2. p \in Nat /\ u \in Int
      BY <2>3, <2>5
    <3>3. Horners(q)[y + 1] = 2 * (d * p + u) + r[y] /\ Horners(r)[y] = 2 * u + r[y] /\ Pow2[y] = 2 * p
      BY <2>1, <2>2, <2>3, <2>4, <2>5, <2>6
    <3> DEFINE z == d * p
    <3> HIDE DEF p, u, z
    <3>4. 2 * (z + u) + r[y] = 2 * z + (2 * u + r[y])
      BY <2>6, <3>1, <3>2 DEF z
    <3>5. QED
      BY <3>1, <3>3, <3>4 DEF z
  <2>8. QED
    BY <2>7 DEF y
<1>6. Nat \subseteq T
  <2> HIDE DEF T
  <2>1. QED
    BY <1>4, <1>5, SetInduction
<1>7. l \in T
  BY <1>1, <1>6
<1>8. Horner(r) \in Int
  BY <1>1, <1>2, HornersFacts DEF Horner
<1>9. QED
  BY <1>1, <1>2, <1>3, <1>7, <1>8 DEF Horner, q, r

-----------------------------------------------------------------------------
(* What binary_POINT_mul counts, from half the number.                     *)
TTVs == [add : Nat, dbl : Nat]

(* The recursive equation of BinaryTTV: a doubling per bit, an addition    *)
(* per bit that is set.                                                    *)
LEMMA BinaryTTVFacts ==
  /\ BinaryTTV[0] = NoTTV
  /\ \A m \in Nat : BinaryTTV[m] \in TTVs
  /\ \A m \in Nat \ {0} : /\ BinaryTTV[m].add = BinaryTTV[m \div 2].add + (m % 2)
                          /\ BinaryTTV[m].dbl = BinaryTTV[m \div 2].dbl + 1
                          /\ m \div 2 \in Nat /\ m \div 2 < m /\ m % 2 \in 0 .. 1
<1> DEFINE h == [p \in (Nat \ {0}) \X TTVs |-> [add |-> p[2].add + (p[1] % 2), dbl |-> p[2].dbl + 1]]
           F(u) == [m \in Nat |-> IF m = 0 THEN NoTTV
                                  ELSE [add |-> u[m \div 2].add + (m % 2), dbl |-> u[m \div 2].dbl + 1]]
           good == CHOOSE u : u = F(u)
<1>1. \A m \in Nat \ {0} : m \div 2 \in Nat /\ m \div 2 < m /\ m % 2 \in 0 .. 1
  OBVIOUS
<1>2. ASSUME NEW m \in Nat \ {0}, NEW x \in TTVs
      PROVE  /\ h[<<m, x>>] = [add |-> x.add + (m % 2), dbl |-> x.dbl + 1]
             /\ h[<<m, x>>] \in TTVs
  <2>1. h[<<m, x>>] = [add |-> x.add + (m % 2), dbl |-> x.dbl + 1]
    OBVIOUS
  <2>2. x.add + (m % 2) \in Nat /\ x.dbl + 1 \in Nat
    BY <1>1 DEF TTVs
  <2>3. QED
    BY <2>1, <2>2 DEF TTVs
<1>3. NoTTV \in TTVs
  BY DEF NoTTV, TTVs
<1> HIDE DEF h
<1>4. HalvingRecursion(TTVs, NoTTV, h)
  BY <1>2, <1>3, HalvingExists DEF ClosedHalving
<1>5. PICK v \in [Nat -> TTVs] :
        v[0] = NoTTV /\ \A m \in Nat \ {0} : v[m] = h[<<m, v[m \div 2]>>]
  BY <1>4 DEF HalvingRecursion
<1>6. v = F(v)
  <2>1. ASSUME NEW m \in Nat PROVE v[m] = F(v)[m]
    <3>1. CASE m = 0
      BY <1>5, <3>1
    <3>2. CASE m # 0
      <4>1. v[m \div 2] \in TTVs
        BY <1>1, <1>5, <3>2
      <4>2. v[m] = [add |-> v[m \div 2].add + (m % 2), dbl |-> v[m \div 2].dbl + 1]
        BY <1>2, <1>5, <3>2, <4>1
      <4>3. QED
        BY <3>2, <4>2
    <3>3. QED
      BY <3>1, <3>2
  <2>2. QED
    BY <1>5, <2>1
<1>7. good = F(good)
  BY <1>6
<1>8. BinaryTTV = good
  BY DEF BinaryTTV
<1> HIDE DEF good
<1>9. /\ good[0] = NoTTV
      /\ \A m \in Nat \ {0} : good[m] = [add |-> good[m \div 2].add + (m % 2), dbl |-> good[m \div 2].dbl + 1]
  BY <1>7
<1> DEFINE T == {m \in Nat : \A x \in 0 .. m : good[x] \in TTVs}
<1>10. Nat \subseteq T
  <2>1. 0 \in T
    BY <1>3, <1>9
  <2>2. ASSUME NEW m \in Nat, m \in T PROVE m + 1 \in T
    <3> SUFFICES ASSUME NEW x \in 0 .. m + 1 PROVE good[x] \in TTVs
      OBVIOUS
    <3>1. CASE x \in 0 .. m
      BY <2>2, <3>1
    <3>2. CASE x \notin 0 .. m
      <4>1. x \in Nat \ {0} /\ x \div 2 \in 0 .. m
        BY <3>2
      <4>2. good[x \div 2] \in TTVs
        BY <2>2, <4>1
      <4>3. good[x] = [add |-> good[x \div 2].add + (x % 2), dbl |-> good[x \div 2].dbl + 1]
        BY <1>9, <4>1
      <4>4. good[x \div 2].add + (x % 2) \in Nat /\ good[x \div 2].dbl + 1 \in Nat
        BY <1>1, <4>1, <4>2, SMTT(60) DEF TTVs
      <4>5. QED
        BY <4>3, <4>4 DEF TTVs
    <3>3. QED
      BY <3>1, <3>2
  <2> HIDE DEF T
  <2>3. QED
    BY <2>1, <2>2, SetInduction
<1>11. \A m \in Nat : good[m] \in TTVs
  BY <1>10
<1>12. \A m \in Nat \ {0} : /\ good[m].add = good[m \div 2].add + (m % 2)
                            /\ good[m].dbl = good[m \div 2].dbl + 1
  <2> SUFFICES ASSUME NEW m \in Nat \ {0}
               PROVE  /\ good[m].add = good[m \div 2].add + (m % 2)
                      /\ good[m].dbl = good[m \div 2].dbl + 1
    OBVIOUS
  <2> DEFINE a == good[m \div 2].add + (m % 2)
             d == good[m \div 2].dbl + 1
  <2>1. good[m] = [add |-> a, dbl |-> d]
    BY <1>9
  <2> HIDE DEF a, d
  <2>2. good[m].add = a /\ good[m].dbl = d
    BY <2>1
  <2>3. QED
    BY <2>2 DEF a, d
<1>13. BinaryTTV[0] = NoTTV /\ \A m \in Nat : BinaryTTV[m] \in TTVs
  BY <1>8, <1>9, <1>11
<1>14. QED
  BY <1>1, <1>8, <1>12, <1>13

(* One more than a number has at most one bit more.                        *)
LEMMA BitsOfNext ==
  \A q \in Nat : BinaryTTV[q + 1].add <= BinaryTTV[q].add + 1
<1> DEFINE A(m) == BinaryTTV[m].add
           T == {m \in Nat : \A x \in 0 .. m : A(x + 1) <= A(x) + 1}
<1>1. \A m \in Nat : A(m) \in Nat
  BY BinaryTTVFacts DEF TTVs
<1>2. A(0) = 0 /\ \A m \in Nat \ {0} : A(m) = A(m \div 2) + (m % 2)
  BY BinaryTTVFacts DEF NoTTV
<1> HIDE DEF A
<1>3. A(1) = 1
  <2>1. 1 \in Nat \ {0} /\ 1 \div 2 = 0 /\ 1 % 2 = 1
    OBVIOUS
  <2>2. QED
    BY <1>2, <2>1
<1>4. ASSUME NEW x \in Nat \ {0}, x % 2 = 0 PROVE A(x + 1) = A(x) + 1
  <2>1. (x + 1) \div 2 = x \div 2 /\ (x + 1) % 2 = 1 /\ x + 1 \in Nat \ {0} /\ x \div 2 \in Nat
    BY <1>4
  <2>2. A(x + 1) = A(x \div 2) + 1 /\ A(x) = A(x \div 2) + 0
    BY <1>2, <1>4, <2>1
  <2>3. QED
    BY <1>1, <2>1, <2>2
<1>5. ASSUME NEW x \in Nat, x % 2 = 1, A((x \div 2) + 1) <= A(x \div 2) + 1
      PROVE  A(x + 1) <= A(x) + 1
  <2>1. /\ (x + 1) \div 2 = (x \div 2) + 1 /\ (x + 1) % 2 = 0 /\ x + 1 \in Nat \ {0}
        /\ x \in Nat \ {0} /\ x \div 2 \in Nat /\ (x \div 2) + 1 \in Nat
    BY <1>5
  <2>2. A(x + 1) = A((x \div 2) + 1) + 0 /\ A(x) = A(x \div 2) + 1
    BY <1>2, <1>5, <2>1
  <2>3. QED
    BY <1>1, <1>5, <2>1, <2>2
<1>6. 0 \in T
  <2>1. \A x \in 0 .. 0 : x = 0 /\ x + 1 = 1
    OBVIOUS
  <2>2. QED
    BY <1>2, <1>3, <2>1
<1>7. ASSUME NEW m \in Nat, m \in T PROVE m + 1 \in T
  <2> SUFFICES ASSUME NEW x \in 0 .. m + 1 PROVE A(x + 1) <= A(x) + 1
    OBVIOUS
  <2>1. CASE x \in 0 .. m
    BY <1>7, <2>1
  <2>2. CASE x \notin 0 .. m
    <3>1. x \in Nat \ {0} /\ x \div 2 \in 0 .. m /\ x % 2 \in {0, 1}
      BY <2>2
    <3>2. A((x \div 2) + 1) <= A(x \div 2) + 1
      BY <1>7, <3>1
    <3>3. CASE x % 2 = 0
      <4>1. A(x + 1) = A(x) + 1 /\ A(x) \in Nat
        BY <1>1, <1>4, <3>1, <3>3
      <4>2. QED
        BY <4>1
    <3>4. CASE x % 2 = 1
      BY <1>5, <3>1, <3>2, <3>4
    <3>5. QED
      BY <3>1, <3>3, <3>4
  <2>3. QED
    BY <2>1, <2>2
<1>8. Nat \subseteq T
  <2> HIDE DEF T
  <2>1. QED
    BY <1>6, <1>7, SetInduction
<1>9. \A q \in Nat : A(q + 1) <= A(q) + 1
  BY <1>8
<1>10. QED
  BY <1>9 DEF A

(* The digit int_to_naf takes off a number, and what it leaves.            *)
NafDigit(m) == IF m % 2 = 0 THEN 0 ELSE 2 - (m % 4)

(* A digit of int_to_naf leaves an even number when it is not 0, ends with *)
(* the leading 1, and costs no addition more than the bits it replaces.    *)
LEMMA DigitFacts ==
  ASSUME NEW m \in Nat \ {0}
  PROVE  LET d == NafDigit(m)
             q == (m - d) \div 2
         IN  /\ d \in {-1, 0, 1} /\ q \in Nat /\ m = 2 * q + d
             /\ d # 0 => q % 2 = 0
             /\ q = 0 => d = 1
             /\ d = -1 => m >= 3
             /\ BinaryTTV[q].add + (IF d = 0 THEN 0 ELSE 1) <= BinaryTTV[m].add
<1> DEFINE A(x) == BinaryTTV[x].add
           d == NafDigit(m)
           q == (m - d) \div 2
<1>1. \A x \in Nat : A(x) \in Nat
  BY BinaryTTVFacts DEF TTVs
<1>2. \A x \in Nat \ {0} : A(x) = A(x \div 2) + (x % 2)
  BY BinaryTTVFacts
<1>3. \A x \in Nat : A(x + 1) <= A(x) + 1
  BY BitsOfNext
<1> HIDE DEF A
<1>4. m % 4 \in 0 .. 3 /\ m % 2 \in 0 .. 1 /\ m \div 2 \in Nat /\ A(m) = A(m \div 2) + (m % 2)
  BY <1>2
<1>5. CASE m % 2 = 0
  <2>1. d = 0
    BY <1>5 DEF NafDigit
  <2> HIDE DEF d
  <2>2. q = m \div 2 /\ m = 2 * q + d /\ q # 0 /\ q \in Nat
    BY <1>5, <2>1
  <2> HIDE DEF q
  <2>3. A(q) <= A(m)
    BY <1>1, <1>4, <1>5, <2>2
  <2>4. A(q) \in Nat
    BY <1>1, <2>2
  <2>5. QED
    BY <2>1, <2>2, <2>3, <2>4 DEF A, q, d
<1>6. CASE m % 4 = 1
  <2>1. m % 2 = 1 /\ d = 1
    BY <1>6 DEF NafDigit
  <2> HIDE DEF d
  <2>2. q = m \div 2 /\ m = 2 * q + 1 /\ q % 2 = 0
    BY <1>6, <2>1
  <2>3. QED
    BY <1>1, <1>4, <2>1, <2>2 DEF A, d
<1>7. CASE m % 4 = 3
  <2> DEFINE x == m \div 4
  <2>1. m % 2 = 1 /\ d = -1
    BY <1>7 DEF NafDigit
  <2> HIDE DEF d
  <2>2. /\ x \in Nat /\ m = 4 * x + 3 /\ q = 2 * (x + 1) /\ m \div 2 = 2 * x + 1
    BY <1>7, <2>1
  <2> HIDE DEF q, x
  <2>3. /\ m = 2 * q - 1 /\ q # 0 /\ m >= 3 /\ q % 2 = 0 /\ q \div 2 = x + 1 /\ q \in Nat \ {0}
        /\ 2 * x + 1 \in Nat \ {0} /\ (2 * x + 1) \div 2 = x /\ (2 * x + 1) % 2 = 1
    BY <2>2
  <2>4. A(m) = A(2 * x + 1) + 1 /\ A(2 * x + 1) = A(x) + 1 /\ A(q) = A(x + 1) + 0
    BY <1>2, <1>4, <2>1, <2>2, <2>3
  <2>5. A(x + 1) <= A(x) + 1 /\ A(x) \in Nat /\ A(x + 1) \in Nat
    BY <1>1, <1>3, <2>2
  <2>6. A(q) + 1 <= A(m)
    BY <2>4, <2>5
  <2>7. QED
    BY <2>1, <2>3, <2>6 DEF A, q, d
<1>8. m % 2 = 0 \/ m % 4 = 1 \/ m % 4 = 3
  OBVIOUS
<1>9. QED
  BY <1>5, <1>6, <1>7, <1>8

(* A number is below two to the number of its bits.                        *)
LEMMA BitLength ==
  \A m \in Nat : m <= Pow2[BinaryTTV[m].dbl]
<1> DEFINE L(m) == BinaryTTV[m].dbl
           T == {m \in Nat : \A x \in 0 .. m : x < Pow2[L(x)]}
<1>1. \A m \in Nat : L(m) \in Nat /\ Pow2[L(m)] \in Nat
  BY BinaryTTVFacts, Pow2Facts DEF TTVs
<1>2. L(0) = 0 /\ \A m \in Nat \ {0} : L(m) = L(m \div 2) + 1
  BY BinaryTTVFacts DEF NoTTV
<1> HIDE DEF L
<1>3. 0 \in T
  <2>1. 0 < Pow2[L(0)]
    BY <1>2, Pow2Facts
  <2>2. QED
    BY <2>1
<1>4. ASSUME NEW m \in Nat, m \in T PROVE m + 1 \in T
  <2> SUFFICES ASSUME NEW x \in 0 .. m + 1 PROVE x < Pow2[L(x)]
    OBVIOUS
  <2>1. CASE x \in 0 .. m
    BY <1>4, <2>1
  <2>2. CASE x \notin 0 .. m
    <3>1. x \in Nat \ {0} /\ x \div 2 \in 0 .. m /\ x \div 2 \in Nat /\ x <= 2 * (x \div 2) + 1
      BY <2>2
    <3>2. x \div 2 < Pow2[L(x \div 2)]
      BY <1>4, <3>1
    <3>3. Pow2[L(x \div 2) + 1] = 2 * Pow2[L(x \div 2)]
      BY <1>1, <3>1, Pow2Facts
    <3>4. L(x) = L(x \div 2) + 1 /\ Pow2[L(x \div 2)] \in Nat
      BY <1>1, <1>2, <3>1
    <3>5. QED
      BY <3>1, <3>2, <3>3, <3>4
  <2>3. QED
    BY <2>1, <2>2
<1>5. Nat \subseteq T
  <2> HIDE DEF T
  <2>1. QED
    BY <1>3, <1>4, SetInduction
<1>6. ASSUME NEW m \in Nat PROVE m <= Pow2[L(m)]
  <2>1. m < Pow2[L(m)]
    BY <1>5
  <2>2. QED
    BY <1>1, <2>1
<1>7. QED
  BY <1>6 DEF L

(* The digits of a number are at most one more than its bits.              *)
LEMMA DigitWidth ==
  ASSUME NEW m \in Nat \ {0}, NEW q \in Nat \ {0}, NEW d \in {-1, 0, 1}, m = 2 * q + d, d = -1 => m >= 3,
         NEW l \in Nat, NEW L \in Nat, l <= L, m <= Pow2[L - l]
  PROVE  l + 1 <= L /\ q <= Pow2[L - (l + 1)]
<1>1. l # L
  <2>1. ASSUME l = L PROVE FALSE
    <3>1. L - l = 0
      BY <2>1
    <3>2. m <= 1
      BY <3>1, Pow2Facts
    <3>3. QED
      BY <3>2
  <2>2. QED
    BY <2>1
<1> DEFINE x == L - (l + 1)
<1>2. x \in Nat /\ x + 1 = L - l /\ l + 1 <= L
  BY <1>1
<1> HIDE DEF x
<1>3. Pow2[L - l] = 2 * Pow2[x] /\ Pow2[x] \in Nat
  BY <1>2, Pow2Facts
<1>4. q <= Pow2[x]
  BY <1>3
<1>5. QED
  BY <1>2, <1>4 DEF x

-----------------------------------------------------------------------------
(* Usable operands give usable points of the right multiple.               *)
LEMMA PointSteps ==
  ASSUME NEW a \in Point, NEW b \in Point, Usable(a), Usable(b)
  PROVE  /\ Dbl(a) \in Point /\ Usable(Dbl(a)) /\ Dbl(a).k = 2 * a.k /\ ~Dbl(a).Z_is_one
         /\ Add(a, b) \in Point /\ Usable(Add(a, b)) /\ Add(a, b).k = a.k + b.k
         /\ Invert(a) \in Point /\ Usable(Invert(a)) /\ Invert(a).k = -(a.k)
         /\ Invert(a).Z_is_one = a.Z_is_one
<1>1. a.k \in Int /\ b.k \in Int /\ a.Z \in ZKinds /\ b.Z \in ZKinds
      /\ a.Z_is_one \in BOOLEAN /\ b.Z_is_one \in BOOLEAN
  BY DEF Point
<1>2. ASSUME NEW m \in Int
      PROVE  Jacobian(m) \in Point /\ Usable(Jacobian(m)) /\ Jacobian(m).k = m /\ ~Jacobian(m).Z_is_one
  BY DEF Jacobian, Point, ZKinds, Usable, Stale
<1>3. Dbl(a) \in Point /\ Usable(Dbl(a)) /\ Dbl(a).k = 2 * a.k /\ ~Dbl(a).Z_is_one
  <2> DEFINE m == 2 * a.k
  <2>1. m \in Int
    BY <1>1
  <2>2. Dbl(a) = [k |-> m, Z |-> "zero", Z_is_one |-> FALSE] \/ Dbl(a) = Jacobian(m)
    BY DEF Dbl
  <2> HIDE DEF m
  <2> DEFINE p == [k |-> m, Z |-> "zero", Z_is_one |-> FALSE]
  <2>3. p \in Point /\ Usable(p) /\ p.k = m /\ ~p.Z_is_one
    BY <2>1 DEF Point, ZKinds, Usable, Stale
  <2>4. Dbl(a) = p \/ Dbl(a) = Jacobian(m)
    BY <2>2
  <2> HIDE DEF p
  <2>5. Dbl(a) \in Point /\ Usable(Dbl(a)) /\ Dbl(a).k = m /\ ~Dbl(a).Z_is_one
    BY <1>2, <2>1, <2>3, <2>4
  <2>6. QED
    BY <2>5 DEF m
<1>4. Add(a, b) \in Point /\ Usable(Add(a, b)) /\ Add(a, b).k = a.k + b.k
  <2> DEFINE m == a.k + b.k
  <2>1. m \in Int
    BY <1>1
  <2>2. Add(a, b) = [b EXCEPT !.k = m] \/ Add(a, b) = [a EXCEPT !.k = m] \/ Add(a, b) = Jacobian(m)
    BY DEF Add
  <2> HIDE DEF m
  <2>3. Add(a, b) \in Point /\ Usable(Add(a, b)) /\ Add(a, b).k = m
    BY <1>1, <1>2, <2>1, <2>2 DEF Point, Usable, Stale
  <2>4. QED
    BY <2>3 DEF m
<1>5. /\ Invert(a) \in Point /\ Usable(Invert(a)) /\ Invert(a).k = -(a.k)
      /\ Invert(a).Z_is_one = a.Z_is_one
  <2> DEFINE m == -(a.k)
  <2>1. m \in Int
    BY <1>1
  <2>2. Invert(a) = [a EXCEPT !.k = m]
    BY DEF Invert
  <2> HIDE DEF m
  <2>3. /\ Invert(a) \in Point /\ Usable(Invert(a)) /\ Invert(a).k = m
        /\ Invert(a).Z_is_one = a.Z_is_one
    BY <1>1, <2>1, <2>2 DEF Point, Usable, Stale
  <2>4. QED
    BY <2>3 DEF m
<1>6. QED
  BY <1>3, <1>4, <1>5

(* EC_POINT_tpl is exact on a point whose flag is not set.                 *)
LEMMA TripleStep ==
  ASSUME NEW a \in Point, Usable(a), ~a.Z_is_one
  PROVE  Tpl(a, a) \in Point /\ Usable(Tpl(a, a)) /\ Tpl(a, a).k = 3 * a.k /\ ~Tpl(a, a).Z_is_one
<1> DEFINE m == 3 * a.k
<1>1. m \in Int /\ a.Z \in ZKinds /\ a.Z # "wrong" /\ a.Z_is_one = FALSE
  BY DEF Point, Usable
<1>2. \/ Tpl(a, a) = [k |-> m, Z |-> "zero", Z_is_one |-> FALSE]
      \/ Tpl(a, a) = [Jacobian(m) EXCEPT !.Z_is_one = FALSE]
  BY <1>1 DEF Tpl, AtInfinity, ZKinds
<1> HIDE DEF m
<1>3. Tpl(a, a) \in Point /\ Usable(Tpl(a, a)) /\ Tpl(a, a).k = m /\ ~Tpl(a, a).Z_is_one
  <2> DEFINE p == [k |-> m, Z |-> "zero", Z_is_one |-> FALSE]
             q == [Jacobian(m) EXCEPT !.Z_is_one = FALSE]
  <2>1. p \in Point /\ Usable(p) /\ p.k = m /\ ~p.Z_is_one
    BY <1>1 DEF Point, ZKinds, Usable, Stale
  <2>2. q \in Point /\ Usable(q) /\ q.k = m /\ ~q.Z_is_one
    BY <1>1 DEF Jacobian, Point, ZKinds, Usable, Stale
  <2>3. Tpl(a, a) = p \/ Tpl(a, a) = q
    BY <1>2
  <2> HIDE DEF p, q
  <2>4. QED
    BY <2>1, <2>2, <2>3
<1>4. QED
  BY <1>3 DEF m

(* The points the functions start from.                                    *)
LEMMA StartPoints ==
  /\ G \in Point /\ Usable(G) /\ G.k = 1
  /\ invert_G \in Point /\ Usable(invert_G) /\ invert_G.k = -1
  /\ NewPoint \in Point /\ Usable(NewPoint) /\ NewPoint.k = 0
  /\ \A m \in Int : /\ Jacobian(m) \in Point /\ Usable(Jacobian(m))
                    /\ Jacobian(m).k = m /\ ~Jacobian(m).Z_is_one
<1>1. G \in Point /\ Usable(G) /\ G.k = 1
  BY DEF G, Affine, Point, ZKinds, Usable, Stale
<1>2. invert_G \in Point /\ Usable(invert_G) /\ invert_G.k = -1
  <2> HIDE DEF G
  <2>1. Invert(G) \in Point /\ Usable(Invert(G)) /\ Invert(G).k = -(G.k)
    BY <1>1, PointSteps
  <2>2. QED
    BY <1>1, <2>1 DEF invert_G
<1>3. NewPoint \in Point /\ Usable(NewPoint) /\ NewPoint.k = 0
  BY DEF NewPoint, Point, ZKinds, Usable, Stale
<1>4. \A m \in Int : /\ Jacobian(m) \in Point /\ Usable(Jacobian(m))
                     /\ Jacobian(m).k = m /\ ~Jacobian(m).Z_is_one
  BY DEF Jacobian, Point, ZKinds, Usable, Stale
<1>5. QED
  BY <1>1, <1>2, <1>3, <1>4

(* mult_points of optimal_DBC2.cpp starts as G without its flag.           *)
LEMMA StartOfTerms ==
  LET p == Invert(Add(Invert(Dbl(G)), G))
  IN  p \in Point /\ Usable(p) /\ p.k = 1 /\ ~p.Z_is_one
<1> DEFINE t == Invert(Dbl(G))
           s == Add(t, G)
<1>1. G = [k |-> 1, Z |-> "one", Z_is_one |-> TRUE]
  BY DEF G, Affine
<1>2. 2 % Order = 2
  BY OrderAssumption
<1>3. Dbl(G) = [k |-> 2, Z |-> "other", Z_is_one |-> FALSE]
  <2>1. 2 * G.k = 2 /\ ~AtInfinity(G) /\ Usable(G)
    BY <1>1 DEF AtInfinity, Usable, Stale
  <2>2. Dbl(G) = Jacobian(2)
    BY <2>1 DEF Dbl
  <2>3. \A y : y % Order # 0 => Jacobian(y) = [k |-> y, Z |-> "other", Z_is_one |-> FALSE]
    BY DEF Jacobian
  <2>4. 2 % Order # 0
    BY <1>2
  <2>5. QED
    BY <2>2, <2>3, <2>4
<1> DEFINE e == -(2)
<1>4. t = [k |-> e, Z |-> "other", Z_is_one |-> FALSE]
  <2> DEFINE u == Dbl(G)
  <2>1. u = [k |-> 2, Z |-> "other", Z_is_one |-> FALSE]
    BY <1>3
  <2>2. t = [u EXCEPT !.k = -(u.k)]
    BY DEF Invert
  <2> HIDE DEF u
  <2>3. u.k = 2
    BY <2>1
  <2>4. t = [u EXCEPT !.k = e]
    BY <2>2, <2>3
  <2> HIDE DEF t, e
  <2>5. QED
    BY <2>1, <2>4
<1>5. e + 1 \in Int /\ e + 1 = -1
  OBVIOUS
<1> HIDE DEF t, e
<1>6. s = Jacobian(e + 1)
  BY <1>1, <1>4 DEF Add, AtInfinity, Usable, Stale
<1> HIDE DEF s
<1>7. s \in Point /\ Usable(s) /\ s.k = -1 /\ ~s.Z_is_one
  <2> DEFINE m == e + 1
  <2>1. m \in Int /\ s = Jacobian(m) /\ m = -1
    BY <1>5, <1>6
  <2> HIDE DEF m
  <2>2. QED
    BY <2>1, StartPoints
<1>8. Invert(s) \in Point /\ Usable(Invert(s)) /\ Invert(s).k = -(s.k) /\ Invert(s).Z_is_one = s.Z_is_one
  BY <1>7, PointSteps
<1> DEFINE p == Invert(s)
<1>9. -(s.k) = 1
  <2>1. \A i \in Int : i + 1 = 0 => -(i) = 1
    OBVIOUS
  <2>2. s.k \in Int /\ s.k + 1 = 0
    BY <1>7 DEF Point
  <2>3. QED
    BY <2>1, <2>2
<1>10. p \in Point /\ Usable(p) /\ p.k = 1 /\ ~p.Z_is_one
  BY <1>7, <1>8, <1>9
<1>11. p = Invert(Add(Invert(Dbl(G)), G))
  BY DEF s, t
<1> HIDE DEF p
<1>12. QED
  BY <1>10, <1>11

(* On the GPU: a multiple below the order is not at infinity, and the      *)
(* doubled point is not the one added.                                     *)
LEMMA GpuDoubleAdd ==
  ASSUME NEW m \in Nat \ {0}, 2 * m + 1 <= Order - 1
  PROVE  /\ Dbl(Jacobian(m)) = Jacobian(2 * m)
         /\ dh_ellipticAdd_JJ(Jacobian(2 * m), GpuPoint(1)) = Jacobian(2 * m + 1)
<1> USE OrderAssumption
<1> DEFINE x == 2 * m
<1>1. m % Order # 0 /\ x % Order # 0 /\ (x - 1) % Order # 0 /\ 1 % Order # 0
  <2>1. \A y \in 1 .. Order - 1 : y % Order = y
    OBVIOUS
  <2>2. m \in 1 .. Order - 1 /\ x \in 1 .. Order - 1 /\ x - 1 \in 1 .. Order - 1 /\ 1 \in 1 .. Order - 1
    OBVIOUS
  <2> HIDE DEF x
  <2>3. QED
    BY <2>1, <2>2
<1> HIDE DEF x
<1>2. \A y : y % Order # 0 => Jacobian(y) = [k |-> y, Z |-> "other", Z_is_one |-> FALSE]
  BY DEF Jacobian
<1>3. /\ Jacobian(m) = [k |-> m, Z |-> "other", Z_is_one |-> FALSE]
      /\ Jacobian(x) = [k |-> x, Z |-> "other", Z_is_one |-> FALSE]
      /\ GpuPoint(1) = [k |-> 1, Z |-> "other", Z_is_one |-> FALSE]
  BY <1>1, <1>2 DEF GpuPoint
<1>4. Dbl(Jacobian(m)) = Jacobian(x)
  BY <1>3 DEF Dbl, AtInfinity, Usable, Stale, x
<1>5. dh_ellipticAdd_JJ(Jacobian(x), GpuPoint(1)) = Jacobian(x + 1)
  BY <1>1, <1>3 DEF dh_ellipticAdd_JJ, AtInfinity, Usable, Stale
<1>6. QED
  BY <1>4, <1>5 DEF x

-----------------------------------------------------------------------------
(* The bits of a scalar from the top: a bit more of its leading part.      *)
LEMMA HalfStep ==
  ASSUME NEW m \in Nat, NEW e \in Nat
  PROVE  /\ m \div Pow2[e + 1] \in Nat
         /\ BitOf(m, e) \in {0, 1}
         /\ m \div Pow2[e] = 2 * (m \div Pow2[e + 1]) + BitOf(m, e)
         /\ m \div Pow2[e] <= m
<1> DEFINE p == Pow2[e]
           y == m \div p
<1>1. p \in Nat \ {0} /\ Pow2[e + 1] = 2 * p /\ p * 2 = 2 * p
  BY Pow2Facts
<1> HIDE DEF p
<1>2. y \in Nat /\ y <= m
  <2>1. y \in Nat /\ m = p * y + (m % p) /\ m % p \in Nat
    BY <1>1
  <2> HIDE DEF y
  <2>2. p * y >= y
    <3>1. PICK x \in Nat : p = x + 1
      <4>1. p - 1 \in Nat /\ p = (p - 1) + 1
        BY <1>1
      <4>2. QED
        BY <4>1
    <3>2. (x + 1) * y = x * y + y /\ x * y \in Nat
      BY <2>1
    <3>3. QED
      BY <2>1, <3>1, <3>2
  <2>3. p * y \in Nat
    BY <1>1, <2>1
  <2>4. QED
    BY <2>1, <2>2, <2>3
<1>3. y \div 2 = m \div Pow2[e + 1]
  <2>1. y \div 2 = m \div (p * 2)
    <3>1. 2 \in Nat \ {0}
      OBVIOUS
    <3>2. QED
      BY <1>1, <3>1, DivideTwice
  <2>2. QED
    BY <1>1, <2>1
<1>4. BitOf(m, e) = y % 2
  BY DEF BitOf, p
<1> HIDE DEF y
<1>5. y = 2 * (y \div 2) + (y % 2) /\ y \div 2 \in Nat /\ y % 2 \in {0, 1}
  BY <1>2
<1>6. QED
  BY <1>2, <1>3, <1>4, <1>5 DEF y, p

(* The leading and the lowest bit of a scalar the GPU functions accept.    *)
LEMMA SomeBit ==
  ASSUME NEW n \in GpuScalars
  PROVE  /\ n \in Nat \ {0} /\ n < Pow2[BITS] /\ n % Pow2[BITS] = n /\ BITS \in Nat
         /\ SetBits(n) # {} /\ SetBits(n) \subseteq Nat
<1>1. n \in Nat \ {0} /\ n < Pow2[BITS] /\ BITS \in Nat
  BY ReferenceAssumption DEF GpuScalars
<1>2. Pow2[BITS] \in Nat \ {0} /\ Pow2[0] = 1
  BY <1>1, Pow2Facts
<1>3. n % Pow2[BITS] = n
  BY <1>1, <1>2
<1>4. ASSUME SetBits(n) = {} PROVE FALSE
  <2>1. \A e \in 0 .. BITS - 1 : (n \div Pow2[e]) % 2 # 1
    BY <1>4 DEF SetBits, BitOf
  <2> DEFINE z == 0
  <2>2. z \in Nat /\ z <= BITS /\ \A e \in z .. BITS - 1 : (n \div Pow2[e]) % 2 # 1
    BY <1>1, <2>1
  <2> HIDE DEF z
  <2>3. n % Pow2[BITS] = n % Pow2[z]
    BY <1>1, <2>2, NoBits
  <2>4. n % 1 = 0
    BY <1>1
  <2>5. QED
    BY <1>1, <1>2, <1>3, <2>3, <2>4 DEF z
<1>5. SetBits(n) \subseteq Nat
  BY DEF SetBits
<1>6. QED
  BY <1>1, <1>3, <1>4, <1>5

(* Above its highest set bit a number of the GPU has nothing.              *)
LEMMA LeadingBit ==
  ASSUME NEW n \in GpuScalars
  PROVE  Max(SetBits(n)) \in 0 .. BITS - 1 /\ n \div Pow2[Max(SetBits(n))] = 1
<1> DEFINE B == SetBits(n)
           t == Max(B)
           U == {x \in Nat : BITS - 1 - x \in B}
<1>1. n \in Nat \ {0} /\ n % Pow2[BITS] = n /\ BITS \in Nat /\ B # {} /\ B \subseteq 0 .. BITS - 1
  BY SomeBit DEF SetBits
<1>2. \A e \in 0 .. BITS - 1 : e \in B <=> (n \div Pow2[e]) % 2 = 1
  BY DEF SetBits, BitOf
<1> HIDE DEF B
<1>3. \E x \in B : \A y \in B : x >= y
  <2>1. \A x \in B : BITS - 1 - x \in Nat /\ BITS - 1 - (BITS - 1 - x) = x
    BY <1>1
  <2>2. U # {} /\ U \subseteq Nat
    BY <1>1, <2>1
  <2> HIDE DEF U
  <2>3. PICK x \in U : \A y \in U : x <= y
    BY <2>2, LeastNumber
  <2>4. x \in Nat /\ BITS - 1 - x \in B
    BY <2>3 DEF U
  <2>5. ASSUME NEW y \in B PROVE BITS - 1 - x >= y
    <3>1. BITS - 1 - y \in U
      BY <2>1 DEF U
    <3>2. x <= BITS - 1 - y /\ y \in Nat
      BY <1>1, <2>3, <3>1
    <3>3. QED
      BY <1>1, <2>4, <3>2
  <2>6. QED
    BY <2>4, <2>5
<1>4. t \in B /\ \A y \in B : t >= y
  BY <1>3 DEF Max
<1> HIDE DEF t
<1>5. t \in 0 .. BITS - 1 /\ t \in Nat /\ (n \div Pow2[t]) % 2 = 1
  BY <1>1, <1>2, <1>4
<1>6. n % Pow2[t + 1] = n
  <2> DEFINE l == t + 1
  <2>1. l \in Nat /\ l <= BITS
    BY <1>1, <1>5
  <2>2. \A e \in l .. BITS - 1 : e \in 0 .. BITS - 1 /\ ~ (t >= e)
    BY <1>1, <1>5
  <2>3. \A e \in l .. BITS - 1 : (n \div Pow2[e]) % 2 # 1
    BY <1>2, <1>4, <2>2
  <2> HIDE DEF l
  <2>4. n % Pow2[BITS] = n % Pow2[l]
    BY <1>1, <2>1, <2>3, NoBits
  <2>5. QED
    BY <1>1, <2>4 DEF l
<1>7. n \div Pow2[t + 1] = 0
  <2> DEFINE q == Pow2[t + 1]
  <2>1. q \in Nat \ {0} /\ n % q = n
    BY <1>5, <1>6, Pow2Facts
  <2> HIDE DEF q
  <2>2. n < q
    BY <1>1, <2>1
  <2>3. q * 0 + n = n /\ 0 \in Nat /\ n \in 0 .. q - 1
    BY <1>1, <2>1, <2>2
  <2>4. n \div q = 0
    BY <2>1, <2>2, <2>3, <1>1
  <2>5. QED
    BY <2>4 DEF q
<1>8. BitOf(n, t) = 1
  BY <1>5 DEF BitOf
<1>9. n \div Pow2[t] = 2 * 0 + 1
  BY <1>1, <1>5, <1>7, <1>8, HalfStep
<1>10. QED
  BY <1>5, <1>9 DEF t, B

(* Below its lowest set bit it has nothing either.                         *)
LEMMA LowestBit ==
  ASSUME NEW n \in GpuScalars
  PROVE  /\ Min(SetBits(n)) \in 0 .. BITS - 1
         /\ n % Pow2[Min(SetBits(n)) + 1] = Pow2[Min(SetBits(n))]
<1> DEFINE B == SetBits(n)
           t == Min(B)
<1>1. n \in Nat \ {0} /\ BITS \in Nat /\ B # {} /\ B \subseteq 0 .. BITS - 1 /\ B \subseteq Nat
  BY SomeBit DEF SetBits
<1>2. \A e \in 0 .. BITS - 1 : e \in B <=> (n \div Pow2[e]) % 2 = 1
  BY DEF SetBits, BitOf
<1> HIDE DEF B
<1>3. \E x \in B : \A y \in B : x <= y
  BY <1>1, LeastNumber
<1>4. t \in B /\ \A y \in B : t <= y
  BY <1>3 DEF Min
<1> HIDE DEF t
<1>5. t \in 0 .. BITS - 1 /\ t \in Nat /\ (n \div Pow2[t]) % 2 = 1
  BY <1>1, <1>2, <1>4
<1>6. n % Pow2[t] = 0
  <2> DEFINE z == 0
  <2>1. \A e \in z .. t - 1 : e \in 0 .. BITS - 1 /\ ~ (t <= e)
    BY <1>1, <1>5
  <2>2. z \in Nat /\ z <= t /\ \A e \in z .. t - 1 : (n \div Pow2[e]) % 2 # 1
    BY <1>2, <1>4, <1>5, <2>1
  <2> HIDE DEF z
  <2>3. n % Pow2[t] = n % Pow2[z]
    BY <1>1, <1>5, <2>2, NoBits
  <2>4. Pow2[z] = 1
    BY Pow2Facts DEF z
  <2>5. QED
    BY <1>1, <2>3, <2>4
<1>7. n % Pow2[t + 1] = 0 + Pow2[t]
  BY <1>1, <1>5, <1>6, BitStep
<1>8. Pow2[t] \in Nat
  BY <1>5, Pow2Facts
<1>9. QED
  BY <1>5, <1>7, <1>8 DEF t, B

-----------------------------------------------------------------------------
(* The inductive invariant of the loops.  NAF_POINT_mul takes the leading  *)
(* digit for 1, which Leading says it is; the functions of the GPU need    *)
(* the scalar below the order, for the operands their addition has no case *)
(* for never to meet.                                                      *)
Digits == {-1, 0, 1}

Loops == {"bits", "digits", "eval", "down", "up", "terms"}

TypeOK ==
  /\ pc \in Loops \cup {"idle", "done"}
  /\ hexwords \in Nat /\ k \in Nat
  /\ R \in Point /\ doubled \in Point
  /\ NAF \in Seq(Digits) /\ j \in Int
  /\ now_DBC \in Seq(Row) /\ now \in [dbl : Nat, tpl : Nat]
  /\ TTV \in TTVs

Leading == k = 0 => Len(NAF) >= 1 /\ NAF[Len(NAF)] = 1

(* The exponents of mult_points never pass those of the term in work.      *)
Below == j <= Len(now_DBC) => now.dbl <= now_DBC[j].dbl /\ now.tpl <= now_DBC[j].tpl

AtBits   == /\ Usable(R) /\ Usable(doubled) /\ BitsLeft /\ NAF = <<>>
AtDigits == /\ Converted /\ Leading /\ R = G /\ j = 2 /\ hexwords # 0
AtEval   == /\ Usable(R) /\ NAF # <<>> /\ Horner(NAF) = hexwords /\ Evaluated
            /\ j \in 2 .. Len(NAF) + 1
            /\ hexwords = 0 => R = G /\ j = Len(NAF) + 1
AtDown   == /\ R = Jacobian(R.k) /\ R.k >= 1 /\ R.k = hexwords \div Pow2[j + 1]
            /\ j \in -1 .. BITS - 1 /\ hexwords \in GpuScalars /\ NAF = <<>>
AtUp     == /\ TakenUp /\ j \in 0 .. BITS /\ hexwords \in GpuScalars /\ NAF = <<>>
AtTerms  == /\ TermsTaken /\ Below /\ ~doubled.Z_is_one /\ j \in 1 .. Len(now_DBC) + 1
            /\ now_DBC \in Chains /\ hexwords = RowsValue(now_DBC) /\ NAF = <<>>

LoopInv ==
  /\ TypeOK
  /\ pc = "idle" => hexwords = 0
  /\ pc # "idle" => hexwords \in Scalars
  /\ pc = "bits" => AtBits
  /\ pc = "digits" => AtDigits
  /\ pc = "eval" => AtEval
  /\ pc = "down" => AtDown
  /\ pc = "up" => AtUp
  /\ pc = "terms" => AtTerms
  /\ pc = "done" => Usable(R) /\ R.k = Promised

(* The first state.                                                        *)
LEMMA InitLoops == Init => LoopInv
<1> SUFFICES ASSUME Init PROVE LoopInv
  OBVIOUS
<1>1. NAF \in Seq(Digits) /\ now_DBC \in Seq(Row)
  BY DEF Init
<1>2. TypeOK
  BY <1>1, StartPoints DEF Init, TypeOK, NoTTV, TTVs, NoExponents
<1>3. QED
  BY <1>2 DEF Init, LoopInv

(* Calls.                                                                  *)
LEMMA CallBinaryLoops ==
  ASSUME LoopInv, NEW n \in Scalars, CallBinary(n)
  PROVE  LoopInv'
<1>1. /\ pc' = "bits" /\ hexwords' = n /\ k' = n /\ R' = NewPoint /\ doubled' = G /\ NAF' = <<>> /\ j' = 0
      /\ now_DBC' = <<>> /\ now' = NoExponents /\ TTV' = NoTTV
  BY DEF CallBinary, Begin, BeginOn
<1>2. n \in Nat
  BY ReferenceAssumption
<1>3. NAF' \in Seq(Digits) /\ now_DBC' \in Seq(Row)
  BY <1>1
<1>4. TypeOK'
  BY <1>1, <1>2, <1>3, StartPoints DEF TypeOK, NoTTV, TTVs, NoExponents, Loops
<1>5. R'.k + k' * doubled'.k = hexwords'
  BY <1>1, <1>2, StartPoints
<1>6. AtBits'
  BY <1>1, <1>5, StartPoints DEF AtBits, BitsLeft, Usable, Stale
<1>7. QED
  BY <1>1, <1>4, <1>6 DEF LoopInv

(* A call of NAF_POINT_mul.                                                *)
LEMMA CallNAFLoops ==
  ASSUME LoopInv, NEW n \in Scalars, CallNAF(n)
  PROVE  LoopInv'
<1>1. /\ pc' = (IF n = 0 THEN "eval" ELSE "digits") /\ hexwords' = n /\ k' = n /\ R' = G
      /\ NAF' = (IF n = 0 THEN <<0>> ELSE <<>>) /\ j' = 2 /\ doubled' = NewPoint
      /\ now_DBC' = <<>> /\ now' = NoExponents /\ TTV' = NoTTV
  BY DEF CallNAF, Begin, BeginOn
<1>2. n \in Nat
  BY ReferenceAssumption
<1>3. NAF' \in Seq(Digits) /\ now_DBC' \in Seq(Row)
  <2>1. <<0>> \in Seq(Digits) /\ <<>> \in Seq(Digits) /\ <<>> \in Seq(Row)
    BY DEF Digits
  <2>2. QED
    BY <1>1, <2>1
<1>4. TypeOK'
  BY <1>1, <1>2, <1>3, StartPoints DEF TypeOK, NoTTV, TTVs, NoExponents, Loops
<1>5. CASE n = 0
  <2> DEFINE ds == <<0>>
  <2>1. ds \in Seq(Int) /\ Len(ds) = 1 /\ ds[1] = 0 /\ ds # <<>>
    OBVIOUS
  <2>2. NAF' = ds
    BY <1>1, <1>5
  <2> HIDE DEF ds
  <2>3. 1 \in 1 .. Len(ds) /\ 1 - 1 = 0
    BY <2>1
  <2>4. Horners(ds)[0] = 0 /\ Horners(ds)[1] = 2 * Horners(ds)[1 - 1] + ds[1]
    BY <2>1, <2>3, HornersFacts
  <2>5. Horner(NAF') = hexwords'
    BY <1>1, <1>5, <2>1, <2>2, <2>3, <2>4 DEF Horner
  <2>6. Horner(NAF)' = hexwords' /\ Evaluated' /\ Usable(R)'
    BY <1>1, <1>5, <2>5, StartPoints DEF Horner, Horners, Evaluated, Usable, Stale
  <2>7. j' \in 2 .. Len(NAF') + 1 /\ j' = Len(NAF') + 1 /\ NAF' # <<>>
    BY <1>1, <2>1, <2>2
  <2>8. AtEval'
    BY <1>1, <2>6, <2>7 DEF AtEval, G, Affine
  <2>9. QED
    BY <1>1, <1>4, <1>5, <2>8 DEF LoopInv
<1>6. CASE n # 0
  <2> DEFINE ds == <<>>
  <2>1. ds \in Seq(Int) /\ Len(ds) = 0
    OBVIOUS
  <2>2. NAF' = ds
    BY <1>1, <1>6
  <2>3. Reverse(ds) \in Seq(Int) /\ Len(Reverse(ds)) = 0
    BY DEF Reverse
  <2> HIDE DEF ds
  <2>4. Horner(Reverse(ds)) = 0 /\ Pow2[0] = 1
    BY <2>3, HornersFacts, Pow2Facts DEF Horner
  <2>5. Horner(Reverse(NAF')) + k' * Pow2[Len(NAF')] = hexwords'
    BY <1>1, <1>2, <2>1, <2>2, <2>4
  <2>6. Converted'
    BY <2>5 DEF Converted, Horner, Horners, Reverse
  <2>7. Leading' /\ hexwords' # 0
    BY <1>1, <1>6 DEF Leading
  <2>8. AtDigits'
    BY <1>1, <2>6, <2>7 DEF AtDigits, G, Affine
  <2>9. QED
    BY <1>1, <1>4, <1>6, <2>8 DEF LoopInv
<1>7. QED
  BY <1>5, <1>6

(* A call of dh_point_mult_finalversion, at the highest set bit.           *)
LEMMA CallDownLoops ==
  ASSUME LoopInv, NEW n \in GpuScalars, CallDown(n)
  PROVE  LoopInv'
<1>1. /\ pc' = "down" /\ hexwords' = n /\ k' = n /\ R' = GpuPoint(1) /\ doubled' = NewPoint /\ NAF' = <<>>
      /\ j' = Max(SetBits(n)) - 1 /\ now_DBC' = <<>> /\ now' = NoExponents /\ TTV' = NoTTV
  BY DEF CallDown, Begin, BeginOn
<1>2. n \in Nat /\ n \in Scalars /\ BITS \in Nat
  BY ReferenceAssumption DEF GpuScalars
<1>3. NAF' \in Seq(Digits) /\ now_DBC' \in Seq(Row)
  BY <1>1
<1>4. R' = Jacobian(1) /\ R' \in Point /\ R'.k = 1
  BY <1>1, StartPoints DEF GpuPoint
<1> DEFINE t == Max(SetBits(n))
<1>5. t \in 0 .. BITS - 1 /\ n \div Pow2[t] = 1 /\ j' = t - 1
  BY <1>1, LeadingBit
<1> HIDE DEF t
<1>6. j' \in -1 .. BITS - 1 /\ j' + 1 = t /\ j' \in Int
  BY <1>2, <1>5
<1>7. TypeOK'
  BY <1>1, <1>2, <1>3, <1>4, <1>6, StartPoints DEF TypeOK, NoTTV, TTVs, NoExponents, Loops
<1>8. AtDown'
  BY <1>1, <1>4, <1>5, <1>6 DEF AtDown, Jacobian
<1>9. QED
  BY <1>1, <1>2, <1>7, <1>8 DEF LoopInv

(* A call of d_base_point_mul, at the lowest set bit.                      *)
LEMMA CallUpLoops ==
  ASSUME LoopInv, NEW n \in GpuScalars, CallUp(n)
  PROVE  LoopInv'
<1> DEFINE t == Min(SetBits(n))
<1>1. /\ pc' = "up" /\ hexwords' = n /\ k' = n /\ R' = Jacobian(Pow2[t]) /\ doubled' = NewPoint /\ NAF' = <<>>
      /\ j' = t + 1 /\ now_DBC' = <<>> /\ now' = NoExponents /\ TTV' = NoTTV
  BY DEF CallUp, Begin, BeginOn, GpuPoint
<1>2. n \in Nat /\ n \in Scalars /\ BITS \in Nat
  BY ReferenceAssumption DEF GpuScalars
<1>3. NAF' \in Seq(Digits) /\ now_DBC' \in Seq(Row)
  BY <1>1
<1>4. t \in 0 .. BITS - 1 /\ n % Pow2[t + 1] = Pow2[t]
  BY LowestBit
<1> HIDE DEF t
<1>5. Pow2[t] \in Int
  BY <1>4, Pow2Facts
<1>6. R' \in Point /\ R'.k = Pow2[t] /\ Usable(R')
  BY <1>1, <1>5, StartPoints
<1>7. j' \in 0 .. BITS /\ j' \in Int
  BY <1>1, <1>2, <1>4
<1>8. TypeOK'
  BY <1>1, <1>2, <1>3, <1>6, <1>7, StartPoints DEF TypeOK, NoTTV, TTVs, NoExponents, Loops
<1>9. AtUp'
  BY <1>1, <1>4, <1>6, <1>7 DEF AtUp, TakenUp, Usable, Stale
<1>10. QED
  BY <1>1, <1>2, <1>8, <1>9 DEF LoopInv

(* A call of the evaluation of optimal_DBC2.cpp.                           *)
LEMMA CallChainLoops ==
  ASSUME LoopInv, NEW rows \in Chains, CallChain(rows)
  PROVE  LoopInv'
<1> DEFINE p == Invert(Add(Invert(Dbl(G)), G))
<1>1. /\ pc' = "terms" /\ hexwords' = RowsValue(rows) /\ k' = RowsValue(rows) /\ R' = NewPoint /\ doubled' = p
      /\ NAF' = <<>> /\ j' = 1 /\ now_DBC' = rows /\ now' = NoExponents /\ TTV' = NoTTV
  BY DEF CallChain, BeginOn
<1>2. /\ rows \in Seq(Row) /\ rows # <<>> /\ RowsValue(rows) \in Scalars /\ RowsValue(rows) \in Nat
  BY ReferenceAssumption
<1>3. p \in Point /\ Usable(p) /\ p.k = 1 /\ ~p.Z_is_one
  BY StartOfTerms
<1> HIDE DEF p
<1>4. NAF' \in Seq(Digits)
  BY <1>1
<1>5. TypeOK'
  BY <1>1, <1>2, <1>3, <1>4, StartPoints DEF TypeOK, NoTTV, TTVs, NoExponents, Loops
<1>6. RowSums(rows)[0] = 0 /\ Len(rows) \in Nat /\ Len(rows) >= 1 /\ rows[1] \in Row
  <2>1. 1 \in 1 .. Len(rows)
    BY <1>2
  <2>2. QED
    BY <1>2, <2>1, RowSumsFacts
<1>7. j' - 1 = 0 /\ j' \in 1 .. Len(now_DBC') + 1
  BY <1>1, <1>6
<1>8. TermsTaken'
  <2>1. Pow23(0, 0) = 1
    BY Pow2Facts, Pow3Facts DEF Pow23
  <2>2. now'.dbl = 0 /\ now'.tpl = 0
    BY <1>1 DEF NoExponents
  <2>3. R'.k = RowSums(now_DBC')[j' - 1] /\ doubled'.k = Pow23(now'.dbl, now'.tpl)
    BY <1>1, <1>3, <1>6, <1>7, <2>1, <2>2, StartPoints
  <2>4. Usable(R') /\ Usable(doubled')
    BY <1>1, <1>3, StartPoints
  <2>5. QED
    BY <2>3, <2>4 DEF TermsTaken, RowSums, Pow23, Usable, Stale
<1>9. Below'
  BY <1>1, <1>6 DEF Below, NoExponents, Row
<1>10. AtTerms'
  BY <1>1, <1>3, <1>7, <1>8, <1>9 DEF AtTerms, RowsValue, RowSums
<1>11. QED
  BY <1>1, <1>2, <1>5, <1>10 DEF LoopInv

(* Rounds of the loops.                                                    *)
LEMMA BitLoops ==
  ASSUME LoopInv, Bit
  PROVE  LoopInv'
<1>1. /\ pc = "bits" /\ k # 0 /\ pc' = pc /\ hexwords' = hexwords /\ NAF' = NAF /\ j' = j
      /\ now_DBC' = now_DBC /\ now' = now
      /\ R' = (IF k % 2 = 1 THEN Add(R, doubled) ELSE R) /\ doubled' = Dbl(doubled) /\ k' = k \div 2
      /\ TTV' = [add |-> TTV.add + (k % 2), dbl |-> TTV.dbl + 1]
  BY DEF Bit, BitThen, chainVars
<1>2. TypeOK /\ AtBits /\ hexwords \in Scalars
  BY <1>1 DEF LoopInv
<1>3. k \in Nat /\ R \in Point /\ doubled \in Point /\ R.k \in Int /\ doubled.k \in Int
  BY <1>2 DEF TypeOK, Point
<1>4. k \div 2 \in Nat /\ k % 2 \in {0, 1} /\ k = 2 * (k \div 2) + (k % 2)
  BY <1>3
<1>5. Usable(R) /\ Usable(doubled) /\ R.k + k * doubled.k = hexwords /\ NAF = <<>>
  BY <1>2 DEF AtBits, BitsLeft
<1>6. doubled' \in Point /\ Usable(doubled') /\ doubled'.k = 2 * doubled.k
  BY <1>1, <1>3, <1>5, PointSteps
<1>7. R' \in Point /\ Usable(R') /\ R'.k = R.k + (k % 2) * doubled.k
  <2>1. CASE k % 2 = 1
    BY <1>1, <1>3, <1>5, <2>1, PointSteps
  <2>2. CASE k % 2 = 0
    BY <1>1, <1>3, <1>5, <2>2
  <2>3. QED
    BY <1>4, <2>1, <2>2
<1>8. R'.k + k' * doubled'.k = hexwords
  <2> DEFINE h == k \div 2
             b == k % 2
             x == doubled.k
  <2>1. h \in Nat /\ b \in {0, 1} /\ k = 2 * h + b /\ x \in Int
    BY <1>3, <1>4
  <2>2. R'.k = R.k + b * x /\ k' = h /\ doubled'.k = 2 * x /\ R.k + k * x = hexwords
    BY <1>1, <1>5, <1>6, <1>7
  <2> HIDE DEF h, b, x
  <2>3. (2 * h + b) * x = h * (2 * x) + b * x /\ h * (2 * x) \in Int /\ b * x \in Int
    BY <2>1
  <2>4. QED
    BY <1>3, <2>1, <2>2, <2>3
<1>9. TTV' \in TTVs
  BY <1>1, <1>2, <1>4 DEF TypeOK, TTVs
<1>10. TypeOK'
  BY <1>1, <1>2, <1>4, <1>6, <1>7, <1>9 DEF TypeOK
<1>11. AtBits'
  BY <1>1, <1>5, <1>6, <1>7, <1>8 DEF AtBits, BitsLeft, Usable, Stale
<1>12. QED
  BY <1>1, <1>2, <1>10, <1>11 DEF LoopInv

(* A round of int_to_naf.                                                  *)
LEMMA DigitLoops ==
  ASSUME LoopInv, Digit
  PROVE  LoopInv'
<1> DEFINE d == NafDigit(k)
           q == (k - d) \div 2
           l == Len(NAF)
           w == Horner(Reverse(NAF))
<1>1. /\ pc = "digits" /\ k # 0 /\ pc' = pc /\ hexwords' = hexwords /\ R' = R /\ j' = j /\ doubled' = doubled
      /\ now_DBC' = now_DBC /\ now' = now /\ TTV' = TTV /\ k' = q /\ NAF' = Append(NAF, d)
  BY DEF Digit, DigitOf, chainVars, NafDigit
<1>2. TypeOK /\ AtDigits /\ hexwords \in Scalars
  BY <1>1 DEF LoopInv
<1>3. k \in Nat \ {0} /\ NAF \in Seq(Digits) /\ NAF \in Seq(Int) /\ l \in Nat /\ hexwords \in Nat
  BY <1>1, <1>2 DEF TypeOK, Digits
<1>4. d \in {-1, 0, 1} /\ q \in Nat /\ k = 2 * q + d /\ (q = 0 => d = 1)
  BY <1>3, DigitFacts
<1> HIDE DEF d, q
<1>5. /\ Len(Append(NAF, d)) = l + 1 /\ Append(NAF, d)[l + 1] = d /\ Append(NAF, d) \in Seq(Digits)
  BY <1>3, <1>4 DEF Digits
<1>6. Horner(Reverse(Append(NAF, d))) = d * Pow2[l] + w /\ w \in Int
  <2> HIDE DEF l
  <2>1. d \in Int
    BY <1>4
  <2>2. QED
    BY <1>3, <2>1, PushDigit DEF l
<1>7. w + k * Pow2[l] = hexwords
  BY <1>2 DEF AtDigits, Converted
<1>8. Horner(Reverse(NAF')) + k' * Pow2[Len(NAF')] = hexwords'
  <2> DEFINE p == Pow2[l]
  <2>1. p \in Nat /\ Pow2[l + 1] = 2 * p
    BY <1>3, Pow2Facts
  <2>2. /\ Horner(Reverse(NAF')) = d * p + w /\ k' = q /\ Pow2[Len(NAF')] = 2 * p /\ w + k * p = hexwords
    BY <1>1, <1>5, <1>6, <1>7, <2>1
  <2> HIDE DEF p, w, l
  <2>3. (2 * q + d) * p = q * (2 * p) + d * p /\ q * (2 * p) \in Int /\ d * p \in Int
    BY <1>4, <2>1
  <2>4. QED
    BY <1>1, <1>4, <1>6, <2>1, <2>2, <2>3
<1>9. Converted'
  BY <1>8 DEF Converted, Horner, Horners, Reverse
<1>10. Leading'
  BY <1>1, <1>3, <1>4, <1>5 DEF Leading
<1>11. TypeOK'
  BY <1>1, <1>2, <1>4, <1>5 DEF TypeOK
<1>12. AtDigits'
  BY <1>1, <1>2, <1>9, <1>10 DEF AtDigits, G, Affine
<1>13. QED
  BY <1>1, <1>2, <1>11, <1>12 DEF LoopInv

(* The reversal of the digits.                                             *)
LEMMA ReverseLoops ==
  ASSUME LoopInv, ReverseDigits
  PROVE  LoopInv'
<1> DEFINE l == Len(NAF)
           r == Reverse(NAF)
<1>1. /\ pc = "digits" /\ k = 0 /\ pc' = "eval" /\ NAF' = r /\ hexwords' = hexwords /\ k' = k /\ R' = R /\ j' = j
      /\ doubled' = doubled /\ now_DBC' = now_DBC /\ now' = now /\ TTV' = TTV
  BY DEF ReverseDigits, chainVars
<1>2. TypeOK /\ AtDigits /\ hexwords \in Scalars
  BY <1>1 DEF LoopInv
<1>3. NAF \in Seq(Digits) /\ l \in Nat /\ hexwords \in Nat /\ hexwords # 0 /\ j = 2 /\ R = G
      /\ l >= 1 /\ NAF[l] = 1 /\ Horner(r) + k * Pow2[l] = hexwords
  BY <1>1, <1>2 DEF TypeOK, AtDigits, Leading, Converted
<1>4. r \in Seq(Digits) /\ r \in Seq(Int) /\ Len(r) = l /\ r[1] = 1
  <2>1. r = [x \in 1 .. l |-> NAF[(l - x) + 1]]
    BY DEF Reverse
  <2>2. \A x \in 1 .. l : (l - x) + 1 \in 1 .. l
    BY <1>3
  <2>3. \A x \in 1 .. l : NAF[x] \in Digits
    BY <1>3
  <2>4. r \in [1 .. l -> Digits]
    BY <2>1, <2>2, <2>3
  <2>5. r[1] = NAF[l]
    <3>1. 1 \in 1 .. l /\ (l - 1) + 1 = l
      BY <1>3
    <3>2. QED
      BY <2>1, <3>1
  <2> HIDE DEF r, l
  <2>6. r \in Seq(Digits) /\ Len(r) = l
    BY <1>3, <2>4
  <2>7. r \in Seq(Int)
    BY <2>6 DEF Digits
  <2>8. QED
    BY <1>3, <2>5, <2>6, <2>7
<1> HIDE DEF r
<1>5. Horner(r) = hexwords
  <2>1. k * Pow2[l] = 0
    BY <1>1, <1>3, Pow2Facts, SMTT(60)
  <2>2. Horner(r) \in Int
    BY <1>3, <1>4, HornersFacts DEF Horner
  <2>3. QED
    BY <1>3, <2>1, <2>2
<1>6. Horners(r)[1] = 1
  <2>1. 1 \in 1 .. Len(r) /\ 1 - 1 = 0
    BY <1>3, <1>4
  <2>2. Horners(r)[1] = 2 * Horners(r)[1 - 1] + r[1] /\ Horners(r)[0] = 0
    BY <1>4, <2>1, HornersFacts
  <2>3. QED
    BY <1>4, <2>1, <2>2
<1>7. /\ Horner(NAF') = hexwords' /\ R'.k = Horners(NAF')[j' - 1] /\ Usable(R') /\ hexwords' # 0
      /\ j' \in 2 .. Len(NAF') + 1 /\ NAF' # <<>>
  <2>1. j' - 1 = 1 /\ j' \in 2 .. l + 1 /\ r # <<>>
    BY <1>1, <1>3, <1>4
  <2>2. QED
    BY <1>1, <1>3, <1>4, <1>5, <1>6, <2>1, StartPoints
<1>8. AtEval'
  BY <1>7 DEF AtEval, Evaluated, Horner, Horners, Usable, Stale
<1>9. TypeOK'
  BY <1>1, <1>2, <1>4 DEF TypeOK, Loops
<1>10. QED
  BY <1>1, <1>2, <1>8, <1>9 DEF LoopInv

(* A round of NAF_POINT_mul.                                               *)
LEMMA EvalLoops ==
  ASSUME LoopInv, EvalDigit
  PROVE  LoopInv'
<1> DEFINE b == NAF[j]
<1>1. /\ pc = "eval" /\ j <= Len(NAF) /\ pc' = pc /\ NAF' = NAF /\ hexwords' = hexwords /\ k' = k /\ j' = j + 1
      /\ doubled' = doubled /\ now_DBC' = now_DBC /\ now' = now
      /\ TTV' = [add |-> TTV.add + (IF b = 0 THEN 0 ELSE 1), dbl |-> TTV.dbl + 1]
      /\ R' = (CASE b = 1  -> Add(Dbl(R), G)
                 [] b = -1 -> Add(Dbl(R), invert_G)
                 [] b = 0  -> Dbl(R))
  BY DEF EvalDigit, EvalWith, chainVars
<1>2. TypeOK /\ AtEval /\ hexwords \in Scalars
  BY <1>1 DEF LoopInv
<1>3. R \in Point /\ R.k \in Int /\ NAF \in Seq(Digits) /\ NAF \in Seq(Int) /\ Len(NAF) \in Nat /\ j \in Int
  BY <1>2 DEF TypeOK, Point, Digits
<1>4. /\ Usable(R) /\ NAF # <<>> /\ Horner(NAF) = hexwords /\ j \in 2 .. Len(NAF)
      /\ hexwords # 0 /\ R.k = Horners(NAF)[j - 1]
  BY <1>1, <1>2, <1>3 DEF AtEval, Evaluated
<1>5. j \in 1 .. Len(NAF) /\ j' \in 2 .. Len(NAF) + 1 /\ j' - 1 = j /\ j' \in Int
  BY <1>1, <1>3, <1>4, SMTT(60)
<1>6. b \in {-1, 0, 1}
  BY <1>3, <1>5 DEF Digits
<1>7. Dbl(R) \in Point /\ Usable(Dbl(R)) /\ Dbl(R).k = 2 * R.k
  BY <1>3, <1>4, PointSteps
<1>8. R' \in Point /\ Usable(R') /\ R'.k = 2 * R.k + b
  <2> DEFINE p == Dbl(R)
  <2>1. p \in Point /\ Usable(p) /\ p.k = 2 * R.k
    BY <1>7
  <2> HIDE DEF p
  <2>2. /\ Add(p, G) \in Point /\ Usable(Add(p, G)) /\ Add(p, G).k = p.k + G.k
        /\ Add(p, invert_G) \in Point /\ Usable(Add(p, invert_G))
        /\ Add(p, invert_G).k = p.k + invert_G.k
    BY <2>1, StartPoints, PointSteps
  <2>3. CASE b = 1
    <3>1. R' = Add(p, G)
      BY <1>1, <2>3 DEF p
    <3>2. QED
      BY <2>1, <2>2, <2>3, <3>1, StartPoints
  <2>4. CASE b = -1
    <3>1. R' = Add(p, invert_G)
      BY <1>1, <2>4 DEF p
    <3>2. QED
      BY <2>1, <2>2, <2>4, <3>1, StartPoints
  <2>5. CASE b = 0
    <3>1. R' = p
      BY <1>1, <2>5 DEF p
    <3>2. QED
      BY <1>3, <2>1, <2>5, <3>1
  <2>6. QED
    BY <1>6, <2>3, <2>4, <2>5
<1>9. R'.k = Horners(NAF)[j]
  <2>1. Horners(NAF)[j] = 2 * Horners(NAF)[j - 1] + b
    BY <1>3, <1>5, HornersFacts
  <2>2. QED
    BY <1>4, <1>8, <2>1
<1>10. Evaluated' /\ (Horner(NAF) = hexwords)'
  BY <1>1, <1>4, <1>5, <1>9 DEF Evaluated, Horner, Horners
<1>11. AtEval'
  BY <1>1, <1>4, <1>5, <1>8, <1>10 DEF AtEval, Usable, Stale
<1>12. TTV' \in TTVs
  BY <1>1, <1>2, SMTT(60) DEF TypeOK, TTVs
<1>13. TypeOK'
  BY <1>1, <1>2, <1>5, <1>8, <1>12 DEF TypeOK
<1>14. QED
  BY <1>1, <1>2, <1>11, <1>13 DEF LoopInv

(* A round of dh_point_mult_finalversion: the operands of the addition     *)
(* differ, since the prefix is below the order.                            *)
LEMMA DownLoops ==
  ASSUME LoopInv, BitDown
  PROVE  LoopInv'
<1> DEFINE m == R.k
<1>1. /\ pc = "down" /\ j >= 0 /\ pc' = pc /\ hexwords' = hexwords /\ k' = k /\ j' = j - 1 /\ NAF' = NAF
      /\ doubled' = doubled /\ now_DBC' = now_DBC /\ now' = now /\ TTV' = TTV
      /\ R' = (IF BitOf(hexwords, j) = 1 THEN dh_ellipticAdd_JJ(Dbl(R), GpuPoint(1)) ELSE Dbl(R))
  BY DEF BitDown, chainVars
<1>2. TypeOK /\ AtDown /\ hexwords \in Scalars
  BY <1>1 DEF LoopInv
<1>3. /\ R = Jacobian(m) /\ m >= 1 /\ m \in Nat \ {0} /\ m = hexwords \div Pow2[j + 1]
      /\ j \in 0 .. BITS - 1 /\ hexwords \in Nat /\ hexwords < Order /\ BITS \in Nat /\ NAF = <<>>
      /\ hexwords \in GpuScalars
  BY <1>1, <1>2, ReferenceAssumption DEF AtDown, TypeOK, Point, GpuScalars
<1> DEFINE b == BitOf(hexwords, j)
           y == hexwords \div Pow2[j]
<1>4. b \in {0, 1} /\ y = 2 * m + b /\ y <= hexwords
  <2>1. j \in Nat
    BY <1>3
  <2>2. b \in {0, 1} /\ y = 2 * (hexwords \div Pow2[j + 1]) + b /\ y <= hexwords
    BY <1>3, <2>1, HalfStep
  <2>3. QED
    BY <1>3, <2>2
<1>5. Order \in Nat
  BY OrderAssumption
<1> HIDE DEF b, y, m
<1>6. R' = Jacobian(y)
  <2>1. CASE b = 1
    <3>1. 2 * m + 1 <= Order - 1
      BY <1>3, <1>4, <1>5, <2>1
    <3>2. /\ Dbl(Jacobian(m)) = Jacobian(2 * m)
          /\ dh_ellipticAdd_JJ(Jacobian(2 * m), GpuPoint(1)) = Jacobian(2 * m + 1)
      BY <1>3, <3>1, GpuDoubleAdd
    <3>3. R' = dh_ellipticAdd_JJ(Dbl(R), GpuPoint(1))
      BY <1>1, <2>1 DEF b
    <3>4. Dbl(R) = Jacobian(2 * m)
      BY <1>3, <3>2
    <3>5. y = 2 * m + 1
      BY <1>4, <2>1
    <3>6. R' = dh_ellipticAdd_JJ(Jacobian(2 * m), GpuPoint(1))
      BY <3>3, <3>4
    <3>7. QED
      BY <3>2, <3>5, <3>6
  <2>2. CASE b = 0
    <3>1. y = 2 * m
      BY <1>3, <1>4, <2>2
    <3>2. m % Order # 0
      <4>1. m \in 1 .. Order - 1
        BY <1>3, <1>4, <1>5, <3>1
      <4>2. \A x \in 1 .. Order - 1 : x % Order = x
        BY <1>5
      <4>3. QED
        BY <4>1, <4>2
    <3>3. R = [k |-> m, Z |-> "other", Z_is_one |-> FALSE]
      BY <1>3, <3>2 DEF Jacobian
    <3>4. Dbl(R) = Jacobian(2 * m)
      BY <3>3 DEF Dbl, AtInfinity, Usable, Stale
    <3>5. R' = Dbl(R)
      BY <1>1, <2>2 DEF b
    <3>6. QED
      BY <3>1, <3>4, <3>5
  <2>3. QED
    BY <1>4, <2>1, <2>2
<1>7. y \in Int /\ y >= 1
  BY <1>3, <1>4
<1>8. R' \in Point /\ R'.k = y
  BY <1>6, <1>7, StartPoints
<1>9. j' + 1 = j /\ j' \in -1 .. BITS - 1 /\ j' \in Int
  BY <1>1, <1>3
<1>10. R' = Jacobian(R'.k) /\ R'.k >= 1 /\ R'.k = hexwords' \div Pow2[j' + 1]
  BY <1>1, <1>6, <1>7, <1>8, <1>9 DEF y
<1>11. AtDown'
  BY <1>1, <1>3, <1>9, <1>10 DEF AtDown, Jacobian
<1>12. TypeOK'
  BY <1>1, <1>2, <1>8, <1>9 DEF TypeOK
<1>13. QED
  BY <1>1, <1>2, <1>11, <1>12 DEF LoopInv

(* A round of d_base_point_mul: what is added is above what has been       *)
(* summed, and the sum of both is below the order.                         *)
LEMMA UpLoops ==
  ASSUME LoopInv, BitUp
  PROVE  LoopInv'
<1>1. /\ pc = "up" /\ j < BITS /\ pc' = pc /\ hexwords' = hexwords /\ k' = k /\ j' = j + 1 /\ NAF' = NAF
      /\ doubled' = doubled /\ now_DBC' = now_DBC /\ now' = now /\ TTV' = TTV
      /\ R' = (IF BitOf(hexwords, j) = 1 THEN Add(R, Jacobian(Pow2[j])) ELSE R)
  BY DEF BitUp, chainVars, GpuPoint
<1>2. TypeOK /\ AtUp /\ hexwords \in Scalars
  BY <1>1 DEF LoopInv
<1>3. /\ R \in Point /\ Usable(R) /\ R.k = hexwords % Pow2[j] /\ R.k \in Int /\ NAF = <<>>
      /\ j \in 0 .. BITS - 1 /\ j \in Nat /\ hexwords \in Nat /\ BITS \in Nat /\ hexwords \in GpuScalars
  BY <1>1, <1>2, ReferenceAssumption DEF AtUp, TakenUp, TypeOK, Point
<1> DEFINE p == Pow2[j]
           a == Jacobian(p)
<1>4. p \in Nat
  BY <1>3, Pow2Facts
<1>5. hexwords % Pow2[j + 1] = (hexwords % Pow2[j]) + (IF BitOf(hexwords, j) = 1 THEN p ELSE 0)
  BY <1>3, BitStep DEF BitOf
<1> HIDE DEF p
<1>6. a \in Point /\ Usable(a) /\ a.k = p
  BY <1>4, StartPoints
<1> HIDE DEF a
<1>7. R' \in Point /\ Usable(R') /\ R'.k = hexwords % Pow2[j + 1]
  <2>1. CASE BitOf(hexwords, j) = 1
    <3>1. R' = Add(R, a)
      BY <1>1, <2>1 DEF a, p
    <3>2. QED
      BY <1>3, <1>5, <1>6, <2>1, <3>1, PointSteps
  <2>2. CASE BitOf(hexwords, j) # 1
    <3>1. hexwords % Pow2[j + 1] = R.k + 0
      BY <1>3, <1>5, <2>2
    <3>2. QED
      BY <1>1, <1>3, <2>2, <3>1
  <2>3. QED
    BY <2>1, <2>2
<1>8. j' \in 0 .. BITS /\ j' \in Int
  BY <1>1, <1>3
<1>9. AtUp'
  BY <1>1, <1>3, <1>7, <1>8 DEF AtUp, TakenUp, Usable, Stale
<1>10. TypeOK'
  BY <1>1, <1>2, <1>7, <1>8 DEF TypeOK
<1>11. QED
  BY <1>1, <1>2, <1>9, <1>10 DEF LoopInv

(* What the steps of the earlier evaluation read.                          *)
LEMMA TermFacts ==
  ASSUME LoopInv, pc = "terms"
  PROVE  /\ TypeOK /\ AtTerms /\ hexwords \in Scalars
         /\ R \in Point /\ Usable(R) /\ R.k \in Int
         /\ doubled \in Point /\ Usable(doubled) /\ ~doubled.Z_is_one
         /\ now.dbl \in Nat /\ now.tpl \in Nat /\ now = [dbl |-> now.dbl, tpl |-> now.tpl]
         /\ doubled.k = Pow23(now.dbl, now.tpl)
         /\ R.k = RowSums(now_DBC)[j - 1]
         /\ now_DBC \in Seq(Row) /\ Len(now_DBC) \in Nat /\ j \in 1 .. Len(now_DBC) + 1
         /\ j <= Len(now_DBC) => /\ j \in 1 .. Len(now_DBC) /\ now_DBC[j] \in Row
                                 /\ now_DBC[j].dbl \in Nat /\ now_DBC[j].tpl \in Nat
                                 /\ now.dbl <= now_DBC[j].dbl /\ now.tpl <= now_DBC[j].tpl
         /\ now_DBC \in Chains /\ hexwords = RowsValue(now_DBC) /\ NAF = <<>>
<1>1. TypeOK /\ AtTerms /\ hexwords \in Scalars
  BY DEF LoopInv
<1>2. /\ R \in Point /\ R.k \in Int /\ doubled \in Point
      /\ now.dbl \in Nat /\ now.tpl \in Nat /\ now = [dbl |-> now.dbl, tpl |-> now.tpl]
      /\ now_DBC \in Seq(Row) /\ Len(now_DBC) \in Nat
  BY <1>1 DEF TypeOK, Point
<1>3. /\ Usable(R) /\ Usable(doubled) /\ ~doubled.Z_is_one /\ doubled.k = Pow23(now.dbl, now.tpl)
      /\ R.k = RowSums(now_DBC)[j - 1] /\ j \in 1 .. Len(now_DBC) + 1
      /\ now_DBC \in Chains /\ hexwords = RowsValue(now_DBC) /\ NAF = <<>>
  BY <1>1 DEF AtTerms, TermsTaken
<1>4. ASSUME j <= Len(now_DBC)
      PROVE  /\ j \in 1 .. Len(now_DBC) /\ now_DBC[j] \in Row
             /\ now_DBC[j].dbl \in Nat /\ now_DBC[j].tpl \in Nat
             /\ now.dbl <= now_DBC[j].dbl /\ now.tpl <= now_DBC[j].tpl
  <2>1. j \in 1 .. Len(now_DBC)
    BY <1>2, <1>3, <1>4
  <2>2. now_DBC[j] \in Row
    BY <1>2, <2>1
  <2>3. QED
    BY <1>1, <1>4, <2>1, <2>2 DEF Row, AtTerms, Below
<1>5. QED
  BY <1>1, <1>2, <1>3, <1>4

(* A doubling of the earlier evaluation.                                   *)
LEMMA DoubleUpLoops ==
  ASSUME LoopInv, DoubleUp
  PROVE  LoopInv'
<1> DEFINE d == now.dbl
           e == now.tpl
<1>1. /\ pc = "terms" /\ j <= Len(now_DBC) /\ d < now_DBC[j].dbl /\ doubled' = Dbl(doubled)
      /\ now' = [now EXCEPT !.dbl = d + 1]
      /\ pc' = pc /\ hexwords' = hexwords /\ k' = k /\ R' = R /\ NAF' = NAF /\ j' = j
      /\ now_DBC' = now_DBC /\ TTV' = TTV
  BY DEF DoubleUp
<1>2. /\ TypeOK /\ AtTerms /\ hexwords \in Scalars /\ doubled \in Point /\ Usable(doubled)
      /\ d \in Nat /\ e \in Nat /\ now = [dbl |-> d, tpl |-> e] /\ doubled.k = Pow23(d, e)
      /\ now_DBC[j].dbl \in Nat /\ now_DBC[j].tpl \in Nat /\ e <= now_DBC[j].tpl
  BY <1>1, TermFacts
<1> HIDE DEF d, e
<1>3. now'.dbl = d + 1 /\ now'.tpl = e /\ now' \in [dbl : Nat, tpl : Nat]
  BY <1>1, <1>2
<1>4. /\ doubled' \in Point /\ Usable(doubled') /\ ~doubled'.Z_is_one
      /\ doubled'.k = 2 * Pow23(d, e)
  BY <1>1, <1>2, PointSteps
<1>5. doubled'.k = Pow23(now'.dbl, now'.tpl)
  BY <1>2, <1>3, <1>4, PowerSteps
<1>6. d + 1 <= now_DBC[j].dbl
  BY <1>1, <1>2
<1>7. Below'
  BY <1>1, <1>2, <1>3, <1>6 DEF Below
<1>8. TermsTaken'
  BY <1>1, <1>2, <1>4, <1>5 DEF AtTerms, TermsTaken, Usable, Stale, RowSums, Pow23
<1>9. AtTerms'
  BY <1>1, <1>2, <1>4, <1>7, <1>8 DEF AtTerms, RowsValue, RowSums
<1>10. TypeOK'
  BY <1>1, <1>2, <1>3, <1>4 DEF TypeOK
<1>11. QED
  BY <1>1, <1>2, <1>9, <1>10 DEF LoopInv

(* A tripling of it.                                                       *)
LEMMA TripleUpLoops ==
  ASSUME LoopInv, TripleUp
  PROVE  LoopInv'
<1> DEFINE d == now.dbl
           e == now.tpl
<1>1. /\ pc = "terms" /\ j <= Len(now_DBC) /\ e < now_DBC[j].tpl /\ doubled' = Tpl(doubled, doubled)
      /\ now' = [now EXCEPT !.tpl = e + 1]
      /\ pc' = pc /\ hexwords' = hexwords /\ k' = k /\ R' = R /\ NAF' = NAF /\ j' = j
      /\ now_DBC' = now_DBC /\ TTV' = TTV
  BY DEF TripleUp
<1>2. /\ TypeOK /\ AtTerms /\ hexwords \in Scalars /\ doubled \in Point /\ Usable(doubled) /\ ~doubled.Z_is_one
      /\ d \in Nat /\ e \in Nat /\ now = [dbl |-> d, tpl |-> e] /\ doubled.k = Pow23(d, e)
      /\ now_DBC[j].dbl \in Nat /\ now_DBC[j].tpl \in Nat /\ d <= now_DBC[j].dbl
  BY <1>1, TermFacts
<1> HIDE DEF d, e
<1>3. now'.dbl = d /\ now'.tpl = e + 1 /\ now' \in [dbl : Nat, tpl : Nat]
  BY <1>1, <1>2
<1>4. /\ doubled' \in Point /\ Usable(doubled') /\ ~doubled'.Z_is_one
      /\ doubled'.k = 3 * Pow23(d, e)
  BY <1>1, <1>2, TripleStep
<1>5. doubled'.k = Pow23(now'.dbl, now'.tpl)
  BY <1>2, <1>3, <1>4, PowerSteps
<1>6. e + 1 <= now_DBC[j].tpl
  BY <1>1, <1>2
<1>7. Below'
  BY <1>1, <1>2, <1>3, <1>6 DEF Below
<1>8. TermsTaken'
  BY <1>1, <1>2, <1>4, <1>5 DEF AtTerms, TermsTaken, Usable, Stale, RowSums, Pow23
<1>9. AtTerms'
  BY <1>1, <1>2, <1>4, <1>7, <1>8 DEF AtTerms, RowsValue, RowSums
<1>10. TypeOK'
  BY <1>1, <1>2, <1>3, <1>4 DEF TypeOK
<1>11. QED
  BY <1>1, <1>2, <1>9, <1>10 DEF LoopInv

(* An addition of it.                                                      *)
LEMMA AddTermUpLoops ==
  ASSUME LoopInv, AddTermUp
  PROVE  LoopInv'
<1> DEFINE row == now_DBC[j]
           term == IF row.minus THEN Invert(doubled) ELSE doubled
<1>1. /\ pc = "terms" /\ j <= Len(now_DBC) /\ now.dbl >= row.dbl /\ now.tpl >= row.tpl
      /\ R' = (IF j = 1 THEN term ELSE Add(R, term)) /\ j' = j + 1
      /\ pc' = pc /\ hexwords' = hexwords /\ k' = k /\ doubled' = doubled /\ NAF' = NAF
      /\ now_DBC' = now_DBC /\ now' = now /\ TTV' = TTV
  BY DEF AddTermUp, chainVars
<1>2. /\ TypeOK /\ AtTerms /\ hexwords \in Scalars
      /\ R \in Point /\ Usable(R) /\ R.k \in Int /\ R.k = RowSums(now_DBC)[j - 1]
      /\ doubled \in Point /\ Usable(doubled) /\ doubled.k = Pow23(now.dbl, now.tpl)
      /\ now_DBC \in Seq(Row) /\ Len(now_DBC) \in Nat /\ j \in 1 .. Len(now_DBC) /\ now_DBC \in Chains
      /\ row \in Row /\ row.dbl \in Nat /\ row.tpl \in Nat
      /\ now.dbl \in Nat /\ now.tpl \in Nat /\ now.dbl <= row.dbl /\ now.tpl <= row.tpl
  BY <1>1, TermFacts
<1>3. now.dbl = row.dbl /\ now.tpl = row.tpl
  BY <1>1, <1>2
<1>4. /\ RowSums(now_DBC)[0] = 0 /\ RowValue(row) \in Int
      /\ RowSums(now_DBC)[j] = RowSums(now_DBC)[j - 1] + RowValue(row)
  BY <1>2, RowSumsFacts
<1>5. term \in Point /\ Usable(term) /\ term.k = RowValue(row)
  <2> DEFINE x == Pow23(row.dbl, row.tpl)
  <2>1. x \in Nat /\ doubled.k = x /\ row.minus \in BOOLEAN
    BY <1>2, <1>3, PowerSteps DEF Row
  <2> DEFINE s == IF row.minus THEN -1 ELSE 1
  <2>2. RowValue(row) = s * x
    BY DEF RowValue
  <2> HIDE DEF x
  <2>3. CASE row.minus
    <3>1. term = Invert(doubled) /\ s = -1
      BY <2>3
    <3> HIDE DEF s
    <3>2. RowValue(row) = -x
      BY <2>1, <2>2, <3>1
    <3>3. Invert(doubled) \in Point /\ Usable(Invert(doubled)) /\ Invert(doubled).k = -(doubled.k)
      BY <1>2, PointSteps
    <3>4. QED
      BY <2>1, <3>1, <3>2, <3>3
  <2>4. CASE ~row.minus
    <3>1. term = doubled /\ s = 1
      BY <2>4
    <3> HIDE DEF s
    <3>2. RowValue(row) = x
      BY <2>1, <2>2, <3>1
    <3>3. QED
      BY <1>2, <2>1, <3>1, <3>2
  <2>5. QED
    BY <2>3, <2>4
<1> HIDE DEF term
<1>6. R' \in Point /\ Usable(R') /\ R'.k = RowSums(now_DBC)[j]
  <2>1. CASE j = 1
    <3>1. j - 1 = 0 /\ R' = term
      BY <1>1, <2>1
    <3>2. RowSums(now_DBC)[j] = 0 + RowValue(row)
      BY <1>4, <3>1
    <3>3. QED
      BY <1>4, <1>5, <3>1, <3>2
  <2>2. CASE j # 1
    <3>1. R' = Add(R, term)
      BY <1>1, <2>2
    <3>2. Add(R, term) \in Point /\ Usable(Add(R, term)) /\ Add(R, term).k = R.k + term.k
      BY <1>2, <1>5, PointSteps
    <3>3. QED
      BY <1>2, <1>4, <1>5, <3>1, <3>2
  <2>3. QED
    BY <2>1, <2>2
<1>7. j' \in 1 .. Len(now_DBC) + 1 /\ j' - 1 = j /\ j' \in Int
  BY <1>1, <1>2
<1>8. Below'
  <2> SUFFICES ASSUME j' <= Len(now_DBC)
               PROVE  now.dbl <= now_DBC[j'].dbl /\ now.tpl <= now_DBC[j'].tpl
    BY <1>1 DEF Below
  <2>1. j \in 1 .. Len(now_DBC) - 1 /\ j' = j + 1
    BY <1>1, <1>2
  <2>2. Ascending(now_DBC)
    BY <1>2, ReferenceAssumption
  <2>3. row.dbl <= now_DBC[j + 1].dbl /\ row.tpl <= now_DBC[j + 1].tpl
    BY <2>1, <2>2 DEF Ascending
  <2>4. QED
    BY <1>3, <2>1, <2>3
<1>9. TermsTaken'
  BY <1>1, <1>2, <1>6, <1>7 DEF AtTerms, TermsTaken, Usable, Stale, RowSums, Pow23
<1>10. AtTerms'
  BY <1>1, <1>2, <1>7, <1>8, <1>9 DEF AtTerms, RowsValue, RowSums
<1>11. TypeOK'
  BY <1>1, <1>2, <1>6, <1>7 DEF TypeOK
<1>12. QED
  BY <1>1, <1>2, <1>10, <1>11 DEF LoopInv

(* The ends of the loops: the result is what the caller was promised.      *)
LEMMA ResultExact ==
  ASSUME LoopInv, \/ ReturnBinary
                  \/ ReturnNAF
                  \/ ReturnGpu
                  \/ ReturnChain
  PROVE  Usable(R) /\ R.k = Promised
<1>1. CASE ReturnBinary
  <2>1. pc = "bits" /\ k = 0
    BY <1>1 DEF ReturnBinary
  <2>2. AtBits /\ R.k \in Int /\ doubled.k \in Int
    BY <2>1 DEF LoopInv, TypeOK, Point
  <2>3. k * doubled.k = 0
    BY <2>1, <2>2
  <2>4. QED
    BY <2>2, <2>3 DEF AtBits, BitsLeft, Promised
<1>2. CASE ReturnNAF
  <2>1. pc = "eval" /\ j > Len(NAF)
    BY <1>2 DEF ReturnNAF
  <2>2. AtEval /\ NAF \in Seq(Digits) /\ Len(NAF) \in Nat
    BY <2>1 DEF LoopInv, TypeOK
  <2>3. j - 1 = Len(NAF) /\ Usable(R) /\ NAF # <<>>
    BY <2>1, <2>2 DEF AtEval
  <2>4. CASE hexwords = 0
    BY <2>2, <2>3, <2>4, StartPoints DEF AtEval, Promised
  <2>5. CASE hexwords # 0
    BY <2>2, <2>3, <2>5 DEF AtEval, Evaluated, Promised, Horner
  <2>6. QED
    BY <2>4, <2>5
<1>3. CASE ReturnGpu
  <2>1. \/ pc = "down" /\ j < 0
        \/ pc = "up" /\ j >= BITS
    BY <1>3 DEF ReturnGpu
  <2>2. CASE pc = "down" /\ j < 0
    <3>1. AtDown /\ hexwords \in Nat /\ BITS \in Nat /\ R \in Point /\ R.k \in Int
      BY <2>2, ReferenceAssumption DEF LoopInv, TypeOK, Point
    <3>2. j + 1 = 0 /\ NAF = <<>>
      BY <2>2, <3>1 DEF AtDown
    <3>3. R.k = hexwords \div Pow2[0] /\ Pow2[0] = 1
      BY <3>1, <3>2, Pow2Facts DEF AtDown
    <3>4. hexwords \div 1 = hexwords
      BY <3>1
    <3>5. R = Jacobian(R.k)
      BY <3>1 DEF AtDown
    <3>6. Usable(R)
      <4> DEFINE m == R.k
      <4>1. m \in Int /\ R = Jacobian(m)
        BY <3>1, <3>5
      <4> HIDE DEF m
      <4>2. QED
        BY <4>1, StartPoints
    <3>7. QED
      BY <3>2, <3>3, <3>4, <3>6 DEF Promised
  <2>3. CASE pc = "up" /\ j >= BITS
    <3>1. AtUp /\ hexwords \in Nat /\ BITS \in Nat
      BY <2>3, ReferenceAssumption DEF LoopInv, TypeOK
    <3>2. j = BITS /\ hexwords \in GpuScalars /\ NAF = <<>> /\ TakenUp
      BY <2>3, <3>1 DEF AtUp
    <3>3. hexwords % Pow2[BITS] = hexwords
      BY <3>2, SomeBit
    <3>4. QED
      BY <3>2, <3>3 DEF Promised, TakenUp
  <2>4. QED
    BY <2>1, <2>2, <2>3
<1>4. CASE ReturnChain
  <2>1. pc = "terms" /\ j > Len(now_DBC)
    BY <1>4 DEF ReturnChain
  <2>2. /\ j \in 1 .. Len(now_DBC) + 1 /\ Len(now_DBC) \in Nat /\ Usable(R)
        /\ R.k = RowSums(now_DBC)[j - 1] /\ hexwords = RowsValue(now_DBC) /\ NAF = <<>>
    BY <2>1, TermFacts
  <2>3. j - 1 = Len(now_DBC)
    BY <2>1, <2>2
  <2>4. QED
    BY <2>2, <2>3 DEF RowsValue, Promised
<1>5. QED
  BY <1>1, <1>2, <1>3, <1>4

(* The end of a call.                                                      *)
LEMMA ReturnLoops ==
  ASSUME LoopInv, \/ ReturnBinary
                  \/ ReturnNAF
                  \/ ReturnGpu
                  \/ ReturnChain
  PROVE  LoopInv'
<1>1. /\ pc \in Loops /\ pc' = "done" /\ hexwords' = hexwords /\ k' = k /\ R' = R /\ doubled' = doubled
      /\ NAF' = NAF /\ j' = j /\ now_DBC' = now_DBC /\ now' = now /\ TTV' = TTV
  BY DEF ReturnBinary, ReturnNAF, ReturnGpu, ReturnChain, chainVars, Loops
<1>2. Usable(R) /\ R.k = Promised
  BY ResultExact
<1>3. TypeOK /\ hexwords \in Scalars
  BY <1>1 DEF LoopInv, Loops
<1>4. TypeOK'
  BY <1>1, <1>3 DEF TypeOK
<1>5. (Usable(R) /\ R.k = Promised)'
  BY <1>1, <1>2 DEF Usable, Stale, Promised
<1>6. QED
  BY <1>1, <1>3, <1>4, <1>5 DEF LoopInv

(* A step of other components.                                             *)
LEMMA StutterLoops ==
  ASSUME LoopInv, UNCHANGED vars
  PROVE  LoopInv'
<1>1. /\ pc' = pc /\ hexwords' = hexwords /\ k' = k /\ R' = R /\ doubled' = doubled /\ NAF' = NAF /\ j' = j
      /\ now_DBC' = now_DBC /\ now' = now /\ TTV' = TTV
  BY DEF vars, chainVars
<1>2. (AtBits => AtBits') /\ (AtDigits => AtDigits')
  <2>1. AtBits => AtBits'
    BY <1>1 DEF AtBits, BitsLeft, Usable, Stale
  <2>2. Converted => Converted'
    <3>1. Converted => Horner(Reverse(NAF')) + k' * Pow2[Len(NAF')] = hexwords'
      BY <1>1 DEF Converted
    <3>2. QED
      BY <3>1 DEF Converted, Horner, Horners, Reverse
  <2>3. Leading => Leading'
    BY <1>1 DEF Leading
  <2>4. AtDigits => AtDigits'
    BY <1>1, <2>2, <2>3 DEF AtDigits, G, Affine
  <2>5. QED
    BY <2>1, <2>4
<1>3. AtEval => AtEval'
  BY <1>1 DEF AtEval, Evaluated, Usable, Stale, Horner, Horners, G, Affine
<1>4. (AtDown => AtDown') /\ (AtUp => AtUp')
  BY <1>1 DEF AtDown, AtUp, TakenUp, Usable, Stale, Jacobian
<1>5. AtTerms => AtTerms'
  BY <1>1 DEF AtTerms, TermsTaken, Below, Usable, Stale, RowSums, RowsValue, Pow23
<1>6. Usable(R) /\ R.k = Promised => (Usable(R) /\ R.k = Promised)'
  BY <1>1 DEF Usable, Stale, Promised
<1>7. TypeOK => TypeOK'
  BY <1>1 DEF TypeOK
<1>8. QED
  BY <1>1, <1>2, <1>3, <1>4, <1>5, <1>6, <1>7 DEF LoopInv

(* Every step keeps the invariant of the loops.                            *)
LEMMA NextLoops == LoopInv /\ [Next]_vars => LoopInv'
<1> SUFFICES ASSUME LoopInv, [Next]_vars PROVE LoopInv'
  OBVIOUS
<1>1. CASE \E n \in Scalars : CallBinary(n) \/ CallNAF(n)
  BY <1>1, CallBinaryLoops, CallNAFLoops
<1>2. CASE \E n \in GpuScalars : CallDown(n) \/ CallUp(n)
  BY <1>2, CallDownLoops, CallUpLoops
<1>3. CASE \E rows \in Chains : CallChain(rows)
  BY <1>3, CallChainLoops
<1>4. CASE Bit \/ Digit \/ ReverseDigits \/ EvalDigit
  BY <1>4, BitLoops, DigitLoops, ReverseLoops, EvalLoops
<1>5. CASE BitDown \/ BitUp
  BY <1>5, DownLoops, UpLoops
<1>6. CASE DoubleUp \/ TripleUp \/ AddTermUp
  BY <1>6, DoubleUpLoops, TripleUpLoops, AddTermUpLoops
<1>7. CASE \/ ReturnBinary
           \/ ReturnNAF
           \/ ReturnGpu
           \/ ReturnChain
  BY <1>7, ReturnLoops
<1>8. CASE UNCHANGED vars
  BY <1>8, StutterLoops
<1>9. QED
  BY <1>1, <1>2, <1>3, <1>4, <1>5, <1>6, <1>7, <1>8 DEF Next, Running

(* In every state of every run the loops keep their invariants.            *)
THEOREM Inductive == Spec => []LoopInv
  BY InitLoops, NextLoops, PTL DEF Spec

(* What each of the six loops has done and what is left make up the        *)
(* scalar; no addition of the GPU meets operands it has no case for.       *)
THEOREM LoopsCorrect == Spec => []LoopsExact
<1>1. LoopInv => LoopsExact
  <2> SUFFICES ASSUME LoopInv PROVE LoopsExact
    OBVIOUS
  <2>1. pc = "bits" => BitsLeft
    BY DEF LoopInv, AtBits
  <2>2. pc = "digits" => Converted
    BY DEF LoopInv, AtDigits
  <2>3. pc = "eval" => Horner(NAF) = hexwords /\ Evaluated
    BY DEF LoopInv, AtEval
  <2>4. ASSUME pc = "down" PROVE TakenDown
    <3> DEFINE m == R.k
    <3>1. m \in Int /\ R = Jacobian(m) /\ m = hexwords \div Pow2[j + 1]
      BY <2>4 DEF LoopInv, AtDown, TypeOK, Point
    <3>2. Usable(R)
      <4> HIDE DEF m
      <4>1. QED
        BY <3>1, StartPoints
    <3>3. QED
      BY <3>1, <3>2 DEF TakenDown
  <2>5. pc = "up" => TakenUp
    BY DEF LoopInv, AtUp
  <2>6. pc = "terms" => TermsTaken
    BY DEF LoopInv, AtTerms
  <2>7. QED
    BY <2>1, <2>2, <2>3, <2>4, <2>5, <2>6 DEF LoopsExact
<1>2. QED
  BY <1>1, Inductive, PTL

-----------------------------------------------------------------------------
(* Refinement of ScalarMul: a call is the abstract Call, a return the      *)
(* abstract Return, and the rounds of the loops stutter.                   *)
LEMMA InitRefines == Init => Abstract!Init
  BY DEF Init, Abstract!Init, Promised

(* Every call is a call of the abstract multiplication.                    *)
LEMMA CallRefines ==
  ASSUME pc \in {"idle", "done"}, pc' \in Loops, Promised' \in Scalars \cup {1}
  PROVE  Abstract!Next
<1>1. pc' # "done" /\ pc' # "idle"
  BY DEF Loops
<1>2. Abstract!Call
  BY <1>1 DEF Abstract!Call
<1>3. QED
  BY <1>2 DEF Abstract!Next

(* Every step is a step of it or a stutter.                                *)
LEMMA StepRefines == LoopInv /\ LoopInv' /\ [Next]_vars => [Abstract!Next]_Abstract!vars
<1> SUFFICES ASSUME LoopInv, LoopInv', [Next]_vars PROVE [Abstract!Next]_Abstract!vars
  OBVIOUS
<1> DEFINE Calls == \/ \E n \in Scalars : CallBinary(n) \/ CallNAF(n)
                    \/ \E n \in GpuScalars : CallDown(n) \/ CallUp(n)
                    \/ \E rows \in Chains : CallChain(rows)
           Rounds == \/ Bit \/ Digit \/ ReverseDigits \/ EvalDigit
                     \/ BitDown \/ BitUp
                     \/ DoubleUp \/ TripleUp \/ AddTermUp
           Returns == ReturnBinary \/ ReturnNAF \/ ReturnGpu \/ ReturnChain
<1>1. CASE Calls
  <2>1. pc \in {"idle", "done"} /\ pc' \in Loops
    BY <1>1 DEF CallBinary, CallNAF, CallDown, CallUp, CallChain, Begin, BeginOn, Loops
  <2>2. hexwords' \in Scalars
    BY <2>1 DEF LoopInv, Loops
  <2>3. Promised' \in Scalars \cup {1}
    BY <2>2 DEF Promised
  <2>4. QED
    BY <2>1, <2>3, CallRefines
<1>2. CASE Rounds
  <2>1. pc \in Loops /\ pc' \in Loops /\ hexwords' = hexwords
    BY <1>2 DEF Bit, BitThen, Digit, DigitOf, ReverseDigits, EvalDigit, EvalWith, BitDown, BitUp,
                DoubleUp, TripleUp, AddTermUp, Loops
  <2>2. Promised' = Promised
    <3>1. CASE hexwords # 0
      BY <2>1, <3>1 DEF Promised
    <3>2. CASE hexwords = 0
      <4>1. CASE Bit \/ BitDown \/ BitUp \/ DoubleUp \/ TripleUp \/ AddTermUp \/ EvalDigit
        <5>1. NAF' = NAF
          BY <4>1 DEF Bit, BitThen, BitDown, BitUp, DoubleUp, TripleUp, AddTermUp, EvalDigit, EvalWith
        <5>2. QED
          BY <2>1, <5>1 DEF Promised
      <4>2. CASE Digit \/ ReverseDigits
        <5>1. pc = "digits"
          BY <4>2 DEF Digit, DigitOf, ReverseDigits
        <5>2. QED
          BY <3>2, <5>1 DEF LoopInv, AtDigits
      <4>3. QED
        BY <1>2, <4>1, <4>2
    <3>3. QED
      BY <3>1, <3>2
  <2>3. QED
    BY <2>1, <2>2 DEF Abstract!vars, Loops
<1>3. CASE Returns
  <2>1. /\ pc \in Loops /\ pc' = "done" /\ hexwords' = hexwords /\ NAF' = NAF /\ R' = R
    BY <1>3 DEF ReturnBinary, ReturnNAF, ReturnGpu, ReturnChain, Loops
  <2>2. Usable(R) /\ R.k = Promised
    BY <1>3, ResultExact
  <2>3. Promised' = Promised /\ Usable(R')
    BY <2>1, <2>2 DEF Promised
  <2>4. Abstract!Return
    BY <2>1, <2>2, <2>3 DEF Abstract!Return, Loops
  <2>5. QED
    BY <2>4 DEF Abstract!Next
<1>4. CASE UNCHANGED vars
  BY <1>4 DEF vars, Abstract!vars, Promised, Usable, Stale
<1>5. QED
  BY <1>1, <1>2, <1>3, <1>4 DEF Next, Running

(* All multiplications but NAF_POINT_mul of 0 return the scalar times the  *)
(* base point; that one returns the base point.                            *)
THEOREM Refinement == Spec => ImplementsScalarMul
  BY InitRefines, StepRefines, Inductive, PTL DEF Spec, ImplementsScalarMul, Abstract!Spec

-----------------------------------------------------------------------------
(* The digits that cost an addition.                                       *)
Heavy(d) == IF d = 0 THEN 0 ELSE 1

Weights(ds) ==
  LET v[x \in 0 .. Len(ds)] == IF x = 0 THEN 0 ELSE v[x - 1] + Heavy(ds[x])
  IN  v

Weight(ds) == Weights(ds)[Len(ds)]

(* The recursive equation of Weights, the number of digits that cost an    *)
(* addition.                                                               *)
LEMMA WeightsFacts ==
  ASSUME NEW ds \in Seq(Int)
  PROVE  /\ Weights(ds)[0] = 0
         /\ \A x \in 0 .. Len(ds) : Weights(ds)[x] \in Nat
         /\ \A x \in 1 .. Len(ds) : Weights(ds)[x] = Weights(ds)[x - 1] + Heavy(ds[x])
<1> DEFINE m == Len(ds)
           h == [p \in (1 .. m) \X Nat |-> p[2] + Heavy(ds[p[1]])]
           F(u) == [x \in 0 .. m |-> IF x = 0 THEN 0 ELSE u[x - 1] + Heavy(ds[x])]
           good == CHOOSE u : u = F(u)
           T == {x \in Nat : x <= m => good[x] \in Nat}
<1>1. m \in Nat /\ 0 \in Nat /\ \A x \in 1 .. m : Heavy(ds[x]) \in Nat
  BY DEF Heavy
<1>2. \A x \in 1 .. m, y \in Nat : h[<<x, y>>] = y + Heavy(ds[x]) /\ h[<<x, y>>] \in Nat
  BY <1>1
<1> HIDE DEF h
<1>3. PICK v \in [0 .. m -> Nat] : v[0] = 0 /\ \A x \in 1 .. m : v[x] = h[<<x, v[x - 1]>>]
  <2>1. m \in Nat /\ 0 \in Nat /\ ClosedTo(m, Nat, h)
    BY <1>1, <1>2 DEF ClosedTo
  <2> HIDE DEF m
  <2>2. IterableTo(m, Nat, 0, h)
    BY <2>1, BoundedIteration
  <2>3. QED
    BY <2>2 DEF IterableTo
<1>4. v = F(v)
  <2>1. \A x \in 1 .. m : x - 1 \in 0 .. m /\ v[x - 1] \in Nat
    <3>1. \A x \in 1 .. m : x - 1 \in 0 .. m
      BY <1>1
    <3> HIDE DEF m
    <3>2. QED
      BY <3>1
  <2>2. \A x \in 0 .. m : x # 0 => x \in 1 .. m
    BY <1>1
  <2>3. \A x \in 0 .. m : v[x] = F(v)[x]
    BY <1>2, <1>3, <2>1, <2>2
  <2>4. QED
    BY <2>3
<1>5. good = F(good)
  BY <1>4
<1>6. Weights(ds) = good
  BY DEF Weights
<1> HIDE DEF good
<1>7. good[0] = 0 /\ \A x \in 1 .. m : good[x] = good[x - 1] + Heavy(ds[x])
  <2>1. 0 \in 0 .. m /\ \A x \in 1 .. m : x # 0 /\ x \in 0 .. m
    BY <1>1
  <2> HIDE DEF m
  <2>2. QED
    BY <1>5, <2>1
<1>8. Nat \subseteq T
  <2>1. 0 \in T
    BY <1>7
  <2>2. ASSUME NEW x \in Nat, x \in T PROVE x + 1 \in T
    <3> SUFFICES ASSUME x + 1 <= m PROVE good[x + 1] \in Nat
      OBVIOUS
    <3>1. x <= m /\ x + 1 \in 1 .. m /\ (x + 1) - 1 = x
      BY <1>1
    <3>2. QED
      BY <1>1, <1>7, <2>2, <3>1
  <2> HIDE DEF T
  <2>3. QED
    BY <2>1, <2>2, SetInduction
<1>9. \A x \in 0 .. m : good[x] \in Nat
  BY <1>1, <1>8
<1>10. QED
  BY <1>6, <1>7, <1>9

(* Each digit counts once, reversed or not.                                *)
LEMMA PushWeight ==
  ASSUME NEW ds \in Seq(Int), NEW d \in Int
  PROVE  /\ Weight(Reverse(Append(ds, d))) = Heavy(d) + Weight(Reverse(ds))
         /\ Weight(Reverse(ds)) \in Nat
<1> DEFINE l == Len(ds)
           r == Reverse(ds)
           q == Reverse(Append(ds, d))
           c == Heavy(d)
           T == {x \in Nat : x <= l => Weights(q)[x + 1] = c + Weights(r)[x]}
<1>1. l \in Nat /\ c \in {0, 1}
  BY DEF Heavy
<1>2. r \in Seq(Int) /\ Len(r) = l
  BY ReversePush
<1>3. q \in Seq(Int) /\ Len(q) = l + 1 /\ q[1] = d /\ \A x \in 1 .. l : q[x + 1] = r[x]
  BY ReversePush
<1> HIDE DEF q, r
<1>4. 0 \in T
  <2>1. Weights(q)[1] = Weights(q)[0] + Heavy(q[1]) /\ Weights(q)[0] = 0
    <3>1. 1 \in 1 .. Len(q) /\ 1 - 1 = 0
      BY <1>1, <1>3
    <3>2. QED
      BY <1>3, <3>1, WeightsFacts
  <2>2. Weights(r)[0] = 0
    BY <1>2, WeightsFacts
  <2>3. QED
    BY <1>1, <1>3, <2>1, <2>2
<1>5. ASSUME NEW x \in Nat, x \in T PROVE x + 1 \in T
  <2> SUFFICES ASSUME x + 1 <= l
               PROVE  Weights(q)[(x + 1) + 1] = c + Weights(r)[x + 1]
    OBVIOUS
  <2> DEFINE y == x + 1
             e == Heavy(r[y])
  <2>1. /\ y \in 1 .. l /\ y - 1 = x /\ x \in 0 .. l /\ y + 1 \in 1 .. l + 1 /\ (y + 1) - 1 = y
        /\ x <= l
    BY <1>1
  <2>2. e \in {0, 1}
    BY DEF Heavy
  <2> HIDE DEF y, c
  <2>3. Weights(q)[y + 1] = Weights(q)[(y + 1) - 1] + Heavy(q[y + 1])
    BY <1>3, <2>1, WeightsFacts
  <2>4. Weights(r)[y] = Weights(r)[y - 1] + e /\ Weights(r)[x] \in Nat
    BY <1>2, <2>1, WeightsFacts
  <2>5. Weights(q)[y] = c + Weights(r)[x]
    BY <1>5, <2>1 DEF y
  <2>6. Heavy(q[y + 1]) = e
    BY <1>3, <2>1
  <2> HIDE DEF e
  <2>7. Weights(q)[y + 1] = c + Weights(r)[y]
    BY <1>1, <2>1, <2>2, <2>3, <2>4, <2>5, <2>6
  <2>8. QED
    BY <2>7 DEF y
<1>6. Nat \subseteq T
  <2> HIDE DEF T
  <2>1. QED
    BY <1>4, <1>5, SetInduction
<1>7. l \in T
  BY <1>1, <1>6
<1>8. Weight(r) \in Nat
  BY <1>1, <1>2, WeightsFacts DEF Weight
<1>9. QED
  BY <1>1, <1>2, <1>3, <1>7, <1>8 DEF Weight, q, r

(* The inductive invariant of the costs: the digits so far and the bits of *)
(* what is left are no more than the bits of the scalar.                   *)
BitsOf(m)  == BinaryTTV[m].add
WidthOf(m) == BinaryTTV[m].dbl

(* Room for the digits: k is at most what the bits left of the scalar hold. *)
Room ==
  IF k = 0 THEN 1 <= Len(NAF) /\ Len(NAF) <= WidthOf(hexwords) + 1
  ELSE Len(NAF) <= WidthOf(hexwords) /\ k <= Pow2[WidthOf(hexwords) - Len(NAF)]

CostBits   == /\ TTV.add + BitsOf(k) = BitsOf(hexwords)
              /\ TTV.dbl + WidthOf(k) = WidthOf(hexwords)
CostDigits == /\ TTV = NoTTV /\ Room
              /\ Weight(Reverse(NAF)) + BitsOf(k) <= BitsOf(hexwords)
              /\ NAF # <<>> /\ NAF[Len(NAF)] # 0 => k % 2 = 0
CostEval   == /\ TTV.dbl = j - 2 /\ Len(NAF) <= WidthOf(hexwords) + 1
              /\ IF hexwords = 0 THEN TTV = NoTTV /\ Len(NAF) = 1
                 ELSE /\ TTV.add + 1 = Weights(NAF)[j - 1]
                      /\ Weight(NAF) <= BitsOf(hexwords)

CostInv ==
  /\ NonAdjacent
  /\ NoDearer
  /\ pc = "bits" => CostBits
  /\ pc = "digits" => CostDigits
  /\ pc = "eval" => CostEval
  /\ pc \in {"down", "up", "terms"} => TTV = NoTTV

(* What the invariant of the loops says of the digits.                     *)
LEMMA DigitTypes ==
  ASSUME LoopInv
  PROVE  /\ NAF \in Seq(Int) /\ Len(NAF) \in Nat /\ \A x \in 1 .. Len(NAF) : NAF[x] \in {-1, 0, 1}
         /\ hexwords \in Nat /\ k \in Nat /\ j \in Int
         /\ TTV \in TTVs /\ TTV = [add |-> TTV.add, dbl |-> TTV.dbl] /\ TTV.add \in Nat /\ TTV.dbl \in Nat
         /\ BitsOf(hexwords) \in Nat /\ WidthOf(hexwords) \in Nat
         /\ BitsOf(k) \in Nat /\ WidthOf(k) \in Nat
<1>1. NAF \in Seq(Digits) /\ hexwords \in Nat /\ k \in Nat /\ TTV \in TTVs /\ j \in Int
  BY DEF LoopInv, TypeOK
<1>2. /\ BitsOf(hexwords) \in Nat /\ WidthOf(hexwords) \in Nat /\ BitsOf(k) \in Nat /\ WidthOf(k) \in Nat
  BY <1>1, BinaryTTVFacts DEF TTVs, BitsOf, WidthOf
<1>3. NAF \in Seq(Int) /\ Len(NAF) \in Nat /\ \A x \in 1 .. Len(NAF) : NAF[x] \in {-1, 0, 1}
  BY <1>1 DEF Digits
<1>4. TTV = [add |-> TTV.add, dbl |-> TTV.dbl] /\ TTV.add \in Nat /\ TTV.dbl \in Nat
  BY <1>1 DEF TTVs
<1>5. QED
  BY <1>1, <1>2, <1>3, <1>4

(* The first state.                                                        *)
LEMMA InitCosts == Init => CostInv
  BY DEF Init, CostInv, NonAdjacent, NoDearer

(* A call spends nothing yet.                                              *)
LEMMA CallCosts ==
  ASSUME LoopInv', CostInv,
         \/ \E n \in Scalars : CallBinary(n) \/ CallNAF(n)
         \/ \E n \in GpuScalars : CallDown(n) \/ CallUp(n)
         \/ \E rows \in Chains : CallChain(rows)
  PROVE  CostInv'
<1>1. pc' \in Loops /\ pc' # "done" /\ TTV' = NoTTV
  BY DEF CallBinary, CallNAF, CallDown, CallUp, CallChain, Begin, BeginOn, Loops
<1>2. Len(NAF') \in {0, 1}
  <2>1. NAF' = <<>> \/ NAF' = <<0>>
    BY DEF CallBinary, CallNAF, CallDown, CallUp, CallChain
  <2>2. QED
    BY <2>1
<1>3. NonAdjacent'
  BY <1>2 DEF NonAdjacent
<1>4. NoDearer'
  BY <1>1 DEF NoDearer
<1>5. CASE \E n \in Scalars : CallBinary(n)
  <2>1. pc' = "bits" /\ k' = hexwords'
    BY <1>5 DEF CallBinary, Begin, BeginOn
  <2>2. k' \in Nat
    BY DEF LoopInv, TypeOK
  <2>3. BitsOf(k') \in Nat /\ WidthOf(k') \in Nat /\ 0 + BitsOf(k') = BitsOf(k') /\ 0 + WidthOf(k') = WidthOf(k')
    BY <2>2, BinaryTTVFacts DEF TTVs, BitsOf, WidthOf
  <2>4. TTV'.add + BitsOf(k') = BitsOf(hexwords') /\ TTV'.dbl + WidthOf(k') = WidthOf(hexwords')
    BY <1>1, <2>1, <2>3 DEF NoTTV
  <2>5. CostBits'
    BY <2>4 DEF CostBits, BitsOf, WidthOf, BinaryTTV
  <2>6. QED
    BY <1>3, <1>4, <2>1, <2>5 DEF CostInv
<1>6. CASE \E n \in Scalars : CallNAF(n)
  <2>1. PICK n \in Scalars : CallNAF(n)
    BY <1>6
  <2>2. /\ pc' = (IF n = 0 THEN "eval" ELSE "digits") /\ hexwords' = n /\ k' = n
        /\ NAF' = (IF n = 0 THEN <<0>> ELSE <<>>) /\ j' = 2
    BY <2>1 DEF CallNAF, Begin, BeginOn
  <2>3. n \in Nat
    BY ReferenceAssumption
  <2>4. WidthOf(n) \in Nat /\ BitsOf(n) \in Nat /\ n <= Pow2[WidthOf(n)]
    BY <2>3, BinaryTTVFacts, BitLength DEF TTVs, WidthOf, BitsOf
  <2>5. CASE n = 0
    <3>1. /\ TTV'.dbl = j' - 2 /\ Len(NAF') = 1 /\ Len(NAF') <= WidthOf(hexwords') + 1 /\ hexwords' = 0
      BY <1>1, <2>2, <2>4, <2>5 DEF NoTTV
    <3>2. CostEval'
      BY <1>1, <3>1 DEF CostEval, NoTTV, WidthOf, BinaryTTV
    <3>3. QED
      BY <1>3, <1>4, <2>2, <2>5, <3>2 DEF CostInv
  <2>6. CASE n # 0
    <3> DEFINE ds == <<>>
    <3>1. ds \in Seq(Int) /\ Len(ds) = 0 /\ Reverse(ds) \in Seq(Int) /\ Len(Reverse(ds)) = 0
      BY DEF Reverse
    <3>2. NAF' = ds /\ NAF' = <<>>
      BY <2>2, <2>6
    <3> HIDE DEF ds
    <3>3. Weight(Reverse(ds)) = 0
      BY <3>1, WeightsFacts DEF Weight
    <3>4. Weight(Reverse(NAF')) + BitsOf(k') <= BitsOf(hexwords')
      BY <2>2, <2>4, <3>2, <3>3
    <3>5. (Weight(Reverse(NAF)) + BitsOf(k) <= BitsOf(hexwords))'
      BY <3>4 DEF Weight, Weights, Reverse, BitsOf, BinaryTTV
    <3>6. /\ Len(NAF') = 0 /\ WidthOf(hexwords') - Len(NAF') = WidthOf(hexwords') /\ k' # 0
          /\ Len(NAF') <= WidthOf(hexwords') /\ k' <= Pow2[WidthOf(hexwords') - Len(NAF')]
      BY <2>2, <2>4, <2>6, <3>1, <3>2
    <3>7. Room'
      BY <3>6 DEF Room, WidthOf, BinaryTTV, Pow2
    <3>8. CostDigits'
      BY <1>1, <3>2, <3>5, <3>7 DEF CostDigits, NoTTV
    <3>9. QED
      BY <1>3, <1>4, <2>2, <2>6, <3>8 DEF CostInv
  <2>7. QED
    BY <2>5, <2>6
<1>7. CASE \/ \E n \in GpuScalars : CallDown(n) \/ CallUp(n)
           \/ \E rows \in Chains : CallChain(rows)
  <2>1. pc' \in {"down", "up", "terms"}
    BY <1>7 DEF CallDown, CallUp, CallChain, Begin, BeginOn
  <2>2. (TTV = NoTTV)'
    BY <1>1 DEF NoTTV
  <2>3. QED
    BY <1>3, <1>4, <2>1, <2>2 DEF CostInv
<1>8. QED
  BY <1>5, <1>6, <1>7

(* A round of binary_POINT_mul spends what BinaryTTV charges for a bit.    *)
LEMMA BitCosts ==
  ASSUME LoopInv, CostInv, Bit
  PROVE  CostInv'
<1>1. /\ pc = "bits" /\ k # 0 /\ pc' = pc /\ hexwords' = hexwords /\ NAF' = NAF /\ k' = k \div 2
      /\ TTV' = [add |-> TTV.add + (k % 2), dbl |-> TTV.dbl + 1]
  BY DEF Bit, BitThen
<1>2. k \in Nat \ {0} /\ BitsOf(k) \in Nat /\ TTV.add \in Nat /\ TTV.dbl \in Nat
  BY <1>1, DigitTypes
<1>3. /\ k \div 2 \in Nat /\ k % 2 \in 0 .. 1
      /\ BitsOf(k) = BitsOf(k \div 2) + (k % 2) /\ WidthOf(k) = WidthOf(k \div 2) + 1
  BY <1>2, BinaryTTVFacts DEF BitsOf, WidthOf
<1>4. BitsOf(k \div 2) \in Nat /\ WidthOf(k \div 2) \in Nat
  BY <1>3, BinaryTTVFacts DEF TTVs, BitsOf, WidthOf
<1>5. TTV.add + BitsOf(k) = BitsOf(hexwords) /\ TTV.dbl + WidthOf(k) = WidthOf(hexwords)
  BY <1>1 DEF CostInv, CostBits
<1>6. TTV'.add = TTV.add + (k % 2) /\ TTV'.dbl = TTV.dbl + 1
  BY <1>1
<1>7. TTV'.add + BitsOf(k') = BitsOf(hexwords') /\ TTV'.dbl + WidthOf(k') = WidthOf(hexwords')
  BY <1>1, <1>2, <1>3, <1>4, <1>5, <1>6
<1>8. CostBits'
  BY <1>7 DEF CostBits, BitsOf, WidthOf, BinaryTTV
<1>9. QED
  BY <1>1, <1>8 DEF CostInv, NonAdjacent, NoDearer

(* The digits made are non-adjacent, and no more of them cost an addition  *)
(* than of the bits read.                                                  *)
LEMMA DigitCosts ==
  ASSUME LoopInv, CostInv, Digit
  PROVE  CostInv'
<1> DEFINE d == NafDigit(k)
           q == (k - d) \div 2
           l == Len(NAF)
           L == WidthOf(hexwords)
           w == Weight(Reverse(NAF))
<1>1. /\ pc = "digits" /\ k # 0 /\ pc' = pc /\ hexwords' = hexwords /\ TTV' = TTV
      /\ k' = q /\ NAF' = Append(NAF, d)
  BY DEF Digit, DigitOf, NafDigit
<1>2. /\ k \in Nat \ {0} /\ NAF \in Seq(Int) /\ l \in Nat /\ L \in Nat /\ BitsOf(k) \in Nat
      /\ BitsOf(hexwords) \in Nat
  BY <1>1, DigitTypes
<1>3. /\ d \in {-1, 0, 1} /\ q \in Nat /\ k = 2 * q + d /\ (d = -1 => k >= 3)
      /\ d # 0 => q % 2 = 0
      /\ BitsOf(q) + Heavy(d) <= BitsOf(k)
  BY <1>2, DigitFacts DEF BitsOf, Heavy
<1>4. BitsOf(q) \in Nat /\ Heavy(d) \in Nat
  BY <1>3, BinaryTTVFacts DEF TTVs, BitsOf, Heavy
<1>5. k % 2 = 0 => d = 0
  BY DEF NafDigit
<1> HIDE DEF d, q
<1>6. /\ CostDigits /\ TTV = NoTTV /\ l <= L /\ k <= Pow2[L - l] /\ w + BitsOf(k) <= BitsOf(hexwords)
      /\ NAF # <<>> /\ NAF[l] # 0 => k % 2 = 0
  BY <1>1 DEF CostInv, CostDigits, Room
<1>7. /\ Len(Append(NAF, d)) = l + 1 /\ Append(NAF, d)[l + 1] = d
      /\ \A x \in 1 .. l : Append(NAF, d)[x] = NAF[x]
  BY <1>2
<1>8. Weight(Reverse(Append(NAF, d))) = Heavy(d) + w /\ w \in Nat
  <2>1. d \in Int
    BY <1>3
  <2> HIDE DEF w
  <2>2. QED
    BY <1>2, <2>1, PushWeight DEF w
<1>9. Weight(Reverse(NAF')) + BitsOf(k') <= BitsOf(hexwords')
  <2> HIDE DEF w
  <2>1. QED
    BY <1>1, <1>2, <1>3, <1>4, <1>6, <1>8, SMTT(60)
<1>10. (Weight(Reverse(NAF)) + BitsOf(k) <= BitsOf(hexwords))'
  BY <1>9 DEF Weight, Weights, Reverse, BitsOf, BinaryTTV
<1>11. /\ k' = 0 => 1 <= Len(NAF') /\ Len(NAF') <= WidthOf(hexwords') + 1
       /\ k' # 0 => Len(NAF') <= WidthOf(hexwords') /\ k' <= Pow2[WidthOf(hexwords') - Len(NAF')]
  <2> HIDE DEF l, L
  <2>1. CASE q = 0
    BY <1>1, <1>2, <1>6, <1>7, <2>1 DEF l, L
  <2>2. CASE q # 0
    <3>1. l + 1 <= L /\ q <= Pow2[L - (l + 1)]
      BY <1>2, <1>3, <1>6, <2>2, DigitWidth
    <3>2. QED
      BY <1>1, <1>7, <2>2, <3>1 DEF l, L
  <2>3. QED
    BY <2>1, <2>2
<1>12. Room'
  BY <1>11 DEF Room, WidthOf, BinaryTTV, Pow2
<1>13. NAF'[Len(NAF')] # 0 => k' % 2 = 0
  BY <1>1, <1>3, <1>7
<1>14. CostDigits'
  BY <1>1, <1>6, <1>10, <1>12, <1>13 DEF CostDigits, NoTTV
<1>15. NonAdjacent'
  <2> DEFINE a == Append(NAF, d)
  <2>1. \A x \in 1 .. l - 1 : NAF[x] = 0 \/ NAF[x + 1] = 0
    BY DEF CostInv, NonAdjacent
  <2>2. Len(a) = l + 1 /\ a[l + 1] = d /\ \A x \in 1 .. l : a[x] = NAF[x]
    BY <1>7
  <2>3. l >= 1 => NAF # <<>>
    BY <1>2
  <2> HIDE DEF a, l
  <2>4. ASSUME NEW x \in 1 .. Len(a) - 1 PROVE a[x] = 0 \/ a[x + 1] = 0
    <3>1. CASE x = l
      <4>1. l \in 1 .. l /\ l >= 1
        BY <1>2, <2>2, <3>1
      <4>2. NAF[l] = 0 \/ d = 0
        BY <1>5, <1>6, <2>3, <4>1
      <4>3. QED
        BY <2>2, <3>1, <4>1, <4>2
    <3>2. CASE x # l
      <4>1. x \in 1 .. l - 1 /\ x \in 1 .. l /\ x + 1 \in 1 .. l
        BY <1>2, <2>2, <3>2
      <4>2. QED
        BY <2>1, <2>2, <4>1
    <3>3. QED
      BY <3>1, <3>2
  <2>5. NAF' = a
    BY <1>1 DEF a
  <2>6. QED
    BY <2>4, <2>5 DEF NonAdjacent
<1>16. QED
  BY <1>1, <1>14, <1>15 DEF CostInv, NoDearer

(* Reversing the digits keeps them non-adjacent and their number the same. *)
LEMMA ReverseCosts ==
  ASSUME LoopInv, CostInv, ReverseDigits
  PROVE  CostInv'
<1> DEFINE l == Len(NAF)
           r == Reverse(NAF)
<1>1. /\ pc = "digits" /\ k = 0 /\ pc' = "eval" /\ NAF' = r /\ hexwords' = hexwords /\ j' = j /\ TTV' = TTV
  BY DEF ReverseDigits
<1>2. /\ NAF \in Seq(Int) /\ l \in Nat /\ WidthOf(hexwords) \in Nat /\ BitsOf(hexwords) \in Nat
  BY DigitTypes
<1>3. l >= 1 /\ NAF[l] = 1 /\ j = 2 /\ hexwords # 0
  BY <1>1 DEF LoopInv, AtDigits, Leading
<1>4. TTV = NoTTV /\ l <= WidthOf(hexwords) + 1 /\ Weight(r) + BitsOf(0) <= BitsOf(hexwords)
  BY <1>1 DEF CostInv, CostDigits, Room
<1>5. r \in Seq(Int) /\ Len(r) = l /\ \A x \in 1 .. l : r[x] = NAF[l - x + 1]
  <2>1. 0 \in Int
    OBVIOUS
  <2>2. QED
    BY <1>2, <2>1, ReversePush
<1> HIDE DEF r, l
<1>6. Weight(r) \in Nat /\ BitsOf(0) = 0
  BY <1>2, <1>5, WeightsFacts, BinaryTTVFacts DEF Weight, BitsOf, NoTTV
<1>7. Weights(r)[1] = 1
  <2>1. 1 \in 1 .. l /\ l - 1 + 1 = l /\ 1 - 1 = 0
    BY <1>2, <1>3
  <2>2. r[1] = 1
    BY <1>3, <1>5, <2>1
  <2>3. Weights(r)[1] = Weights(r)[1 - 1] + Heavy(r[1]) /\ Weights(r)[0] = 0
    BY <1>5, <2>1, WeightsFacts
  <2>4. QED
    BY <2>1, <2>2, <2>3 DEF Heavy
<1>8. /\ TTV'.dbl = j' - 2 /\ Len(NAF') <= WidthOf(hexwords') + 1 /\ hexwords' # 0
      /\ TTV'.add + 1 = Weights(NAF')[j' - 1] /\ Weight(NAF') <= BitsOf(hexwords')
  <2>1. j' - 1 = 1 /\ j' - 2 = 0
    BY <1>1, <1>3
  <2>2. TTV'.add = 0 /\ TTV'.dbl = 0
    BY <1>1, <1>4 DEF NoTTV
  <2>3. QED
    BY <1>1, <1>2, <1>3, <1>4, <1>5, <1>6, <1>7, <2>1, <2>2
<1>9. CostEval'
  BY <1>8 DEF CostEval, Weight, Weights, WidthOf, BitsOf, BinaryTTV
<1>10. NonAdjacent'
  <2>1. \A x \in 1 .. l - 1 : NAF[x] = 0 \/ NAF[x + 1] = 0
    BY DEF CostInv, NonAdjacent, l
  <2>2. ASSUME NEW x \in 1 .. l - 1 PROVE r[x] = 0 \/ r[x + 1] = 0
    <3> DEFINE y == l - x
    <3>1. y \in 1 .. l - 1 /\ x \in 1 .. l /\ x + 1 \in 1 .. l /\ l - x + 1 = y + 1 /\ l - (x + 1) + 1 = y
      BY <1>2
    <3>2. r[x] = NAF[y + 1] /\ r[x + 1] = NAF[y]
      BY <1>5, <3>1
    <3>3. QED
      BY <2>1, <3>1, <3>2
  <2>3. QED
    BY <1>1, <1>5, <2>2 DEF NonAdjacent
<1>11. QED
  BY <1>1, <1>9, <1>10 DEF CostInv, NoDearer

(* A round of NAF_POINT_mul spends an addition on a digit that is not 0.   *)
LEMMA EvalCosts ==
  ASSUME LoopInv, CostInv, EvalDigit
  PROVE  CostInv'
<1>1. /\ pc = "eval" /\ j <= Len(NAF) /\ pc' = pc /\ NAF' = NAF /\ hexwords' = hexwords /\ j' = j + 1
      /\ TTV' = [add |-> TTV.add + Heavy(NAF[j]), dbl |-> TTV.dbl + 1]
  BY DEF EvalDigit, EvalWith, Heavy
<1>2. /\ NAF \in Seq(Int) /\ Len(NAF) \in Nat /\ TTV.add \in Nat /\ TTV.dbl \in Nat /\ j \in Int
  BY DigitTypes
<1>3. j \in 1 .. Len(NAF) /\ hexwords # 0 /\ j' - 1 = j
  <2>1. j >= 2 /\ (hexwords = 0 => j = Len(NAF) + 1)
    BY <1>1, <1>2 DEF LoopInv, AtEval
  <2>2. QED
    BY <1>1, <1>2, <2>1
<1>4. /\ TTV.dbl = j - 2 /\ Len(NAF) <= WidthOf(hexwords) + 1
      /\ TTV.add + 1 = Weights(NAF)[j - 1] /\ Weight(NAF) <= BitsOf(hexwords)
  BY <1>1, <1>3 DEF CostInv, CostEval
<1>5. Weights(NAF)[j] = Weights(NAF)[j - 1] + Heavy(NAF[j]) /\ Heavy(NAF[j]) \in Nat
  BY <1>2, <1>3, WeightsFacts DEF Heavy
<1>6. TTV'.add = TTV.add + Heavy(NAF[j]) /\ TTV'.dbl = TTV.dbl + 1
  BY <1>1
<1>7. /\ TTV'.dbl = j' - 2 /\ Len(NAF') <= WidthOf(hexwords') + 1 /\ hexwords' # 0
      /\ TTV'.add + 1 = Weights(NAF')[j' - 1] /\ Weight(NAF') <= BitsOf(hexwords')
  BY <1>1, <1>2, <1>3, <1>4, <1>5, <1>6
<1>8. CostEval'
  BY <1>7 DEF CostEval, Weight, Weights, WidthOf, BitsOf, BinaryTTV
<1>9. QED
  BY <1>1, <1>8 DEF CostInv, NonAdjacent, NoDearer

(* At the end the digits have cost at most what the bits would have.       *)
LEMMA ReturnCosts ==
  ASSUME LoopInv, CostInv, \/ ReturnBinary
                           \/ ReturnNAF
                           \/ ReturnGpu
                           \/ ReturnChain
  PROVE  CostInv'
<1>1. /\ pc' = "done" /\ NAF' = NAF /\ hexwords' = hexwords /\ TTV' = TTV
  BY DEF ReturnBinary, ReturnNAF, ReturnGpu, ReturnChain
<1>2. /\ NAF \in Seq(Int) /\ Len(NAF) \in Nat /\ TTV.add \in Nat /\ TTV.dbl \in Nat /\ j \in Int
      /\ WidthOf(hexwords) \in Nat /\ BitsOf(hexwords) \in Nat
  BY DigitTypes
<1>3. TTV.add <= BitsOf(hexwords) /\ TTV.dbl <= WidthOf(hexwords)
  <2>1. CASE ReturnBinary
    <3>1. pc = "bits" /\ k = 0
      BY <2>1 DEF ReturnBinary
    <3>2. BitsOf(0) = 0 /\ WidthOf(0) = 0
      BY BinaryTTVFacts DEF BitsOf, WidthOf, NoTTV
    <3>3. TTV.add + 0 = BitsOf(hexwords) /\ TTV.dbl + 0 = WidthOf(hexwords)
      BY <3>1, <3>2 DEF CostInv, CostBits
    <3>4. QED
      BY <1>2, <3>3
  <2>2. CASE ReturnNAF
    <3>1. pc = "eval" /\ j > Len(NAF)
      BY <2>2 DEF ReturnNAF
    <3>2. j - 1 = Len(NAF)
      BY <1>2, <3>1 DEF LoopInv, AtEval
    <3>3. TTV.dbl = j - 2 /\ Len(NAF) <= WidthOf(hexwords) + 1
      BY <3>1 DEF CostInv, CostEval
    <3>4. CASE hexwords = 0
      <4>1. TTV = NoTTV
        BY <3>1, <3>4 DEF CostInv, CostEval
      <4>2. QED
        BY <1>2, <4>1 DEF NoTTV
    <3>5. CASE hexwords # 0
      <4>1. TTV.add + 1 = Weight(NAF) /\ Weight(NAF) <= BitsOf(hexwords)
        BY <3>1, <3>2, <3>5 DEF CostInv, CostEval, Weight
      <4> HIDE DEF Weight
      <4>2. TTV.add + 1 <= BitsOf(hexwords)
        BY <4>1
      <4>3. QED
        BY <1>2, <3>2, <3>3, <4>2
    <3>6. QED
      BY <3>4, <3>5
  <2>3. CASE ReturnGpu \/ ReturnChain
    <3>1. TTV = NoTTV
      BY <2>3 DEF ReturnGpu, ReturnChain, CostInv
    <3>2. QED
      BY <1>2, <3>1 DEF NoTTV
  <2>4. QED
    BY <2>1, <2>2, <2>3
<1>4. TTV'.add <= BinaryTTV[hexwords'].add /\ TTV'.dbl <= BinaryTTV[hexwords'].dbl
  BY <1>1, <1>3 DEF BitsOf, WidthOf
<1>5. NoDearer'
  BY <1>4 DEF NoDearer, BinaryTTV
<1>6. NonAdjacent'
  BY <1>1 DEF CostInv, NonAdjacent
<1>7. QED
  BY <1>1, <1>5, <1>6 DEF CostInv

(* The other loops count nothing.                                          *)
LEMMA UncountedCosts ==
  ASSUME CostInv, \/ BitDown
                  \/ BitUp
                  \/ DoubleUp
                  \/ TripleUp
                  \/ AddTermUp
  PROVE  CostInv'
<1>1. pc \in {"down", "up", "terms"} /\ pc' = pc /\ NAF' = NAF /\ TTV' = TTV
  BY DEF BitDown, BitUp, DoubleUp, TripleUp, AddTermUp
<1>2. NonAdjacent'
  BY <1>1 DEF CostInv, NonAdjacent
<1>3. (TTV = NoTTV)'
  BY <1>1 DEF CostInv, NoTTV
<1>4. QED
  BY <1>1, <1>2, <1>3 DEF CostInv, NoDearer

(* A step of other components.                                             *)
LEMMA StutterCosts ==
  ASSUME CostInv, UNCHANGED vars
  PROVE  CostInv'
<1>1. /\ pc' = pc /\ hexwords' = hexwords /\ k' = k /\ NAF' = NAF /\ j' = j /\ TTV' = TTV
  BY DEF vars
<1>2. NonAdjacent' /\ (TTV = NoTTV => (TTV = NoTTV)')
  BY <1>1 DEF CostInv, NonAdjacent, NoTTV
<1>3. NoDearer'
  BY <1>1 DEF CostInv, NoDearer, BinaryTTV
<1>4. CostBits => CostBits'
  BY <1>1 DEF CostBits, BitsOf, WidthOf, BinaryTTV
<1>5. CostDigits => CostDigits'
  <2>1. Room => Room'
    BY <1>1 DEF Room, WidthOf, BinaryTTV, Pow2
  <2>2. CostDigits => Weight(Reverse(NAF')) + BitsOf(k') <= BitsOf(hexwords')
    BY <1>1 DEF CostDigits
  <2>3. CostDigits => (Weight(Reverse(NAF)) + BitsOf(k) <= BitsOf(hexwords))'
    BY <2>2 DEF Weight, Weights, Reverse, BitsOf, BinaryTTV
  <2>4. QED
    BY <1>1, <2>1, <2>3 DEF CostDigits, NoTTV
<1>6. CostEval => CostEval'
  BY <1>1 DEF CostEval, Weight, Weights, WidthOf, BitsOf, BinaryTTV, NoTTV
<1>7. QED
  BY <1>1, <1>2, <1>3, <1>4, <1>5, <1>6 DEF CostInv

(* Every step keeps the invariant of the costs.                            *)
LEMMA NextCosts == LoopInv /\ LoopInv' /\ CostInv /\ [Next]_vars => CostInv'
<1> SUFFICES ASSUME LoopInv, LoopInv', CostInv, [Next]_vars PROVE CostInv'
  OBVIOUS
<1>1. CASE \/ \E n \in Scalars : CallBinary(n) \/ CallNAF(n)
           \/ \E n \in GpuScalars : CallDown(n) \/ CallUp(n)
           \/ \E rows \in Chains : CallChain(rows)
  BY <1>1, CallCosts
<1>2. CASE Bit \/ Digit \/ ReverseDigits \/ EvalDigit
  BY <1>2, BitCosts, DigitCosts, ReverseCosts, EvalCosts
<1>3. CASE \/ ReturnBinary
           \/ ReturnNAF
           \/ ReturnGpu
           \/ ReturnChain
  BY <1>3, ReturnCosts
<1>4. CASE \/ BitDown
           \/ BitUp
           \/ DoubleUp
           \/ TripleUp
           \/ AddTermUp
  BY <1>4, UncountedCosts
<1>5. CASE UNCHANGED vars
  BY <1>5, StutterCosts
<1>6. QED
  BY <1>1, <1>2, <1>3, <1>4, <1>5 DEF Next, Running

(* Of two neighbouring digits one is 0, and no call adds or doubles more   *)
(* often than binary_POINT_mul would for the same scalar.                  *)
THEOREM SparseForm == Spec => []SparseDigits
<1>1. Spec => []CostInv
  BY InitCosts, NextCosts, Inductive, PTL DEF Spec
<1>2. CostInv => SparseDigits
  BY DEF CostInv, SparseDigits
<1>3. QED
  BY <1>1, <1>2, PTL
=============================================================================
