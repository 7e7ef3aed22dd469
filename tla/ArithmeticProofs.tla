-------------------------- MODULE ArithmeticProofs --------------------------
(***************************************************************************)
(* What a function defined by recursion over the naturals is.  Induction   *)
(* is carried out on SETS of naturals (SetInduction, from the              *)
(* well-foundedness of <), which needs no operator parameter to be         *)
(* instantiated.  Then what division and remainders are, and lemmas about  *)
(* the powers and sums of Terms.  Last, the double-base chains themselves, *)
(* whichever program makes them: how a chain below 2^d 3^e gives chains    *)
(* below half and a third of it.                                           *)
(***************************************************************************)
EXTENDS Terms, WellFoundedInduction, FiniteSetTheorems, TLAPS

LessNat == {p \in Nat \X Nat : p[1] < p[2]}

(* The order of the naturals, as a set of pairs, is well founded.          *)
LEMMA LessNatWellFounded == IsWellFoundedOn(LessNat, Nat)
  BY NatLessThanWellFounded DEF OpToRel, LessNat

(* Least-number principle for a set of naturals.                           *)
LEMMA LeastNumber ==
  ASSUME NEW U, U \subseteq Nat, U # {}
  PROVE  \E x \in U : \A y \in U : x <= y
<1>1. PICK x \in U : \A y \in U : ~ (<<y, x>> \in LessNat)
  BY LessNatWellFounded, WFMin
<1>2. ASSUME NEW y \in U PROVE x <= y
  <2>1. x \in Nat /\ y \in Nat
    OBVIOUS
  <2>2. y < x => <<y, x>> \in LessNat
    BY <2>1 DEF LessNat
  <2>3. QED
    BY <1>1, <2>1, <2>2
<1>3. QED
  BY <1>2

(* Induction over the naturals, on a set.                                  *)
LEMMA SetInduction ==
  ASSUME NEW T, 0 \in T, \A m \in Nat : m \in T => m + 1 \in T
  PROVE  Nat \subseteq T
<1> DEFINE U == Nat \ T
<1>1. SUFFICES ASSUME U # {} PROVE FALSE
  OBVIOUS
<1>2. U \subseteq Nat
  OBVIOUS
<1> HIDE DEF U
<1>3. PICK x \in U : \A y \in U : x <= y
  BY <1>1, <1>2, LeastNumber
<1>4. x \in Nat /\ x # 0
  BY <1>3 DEF U
<1>5. x - 1 \in Nat /\ ~ (x <= x - 1)
  BY <1>4
<1>6. x - 1 \in T
  BY <1>3, <1>5 DEF U
<1>7. (x - 1) + 1 = x
  BY <1>4
<1>8. x \in T
  BY <1>5, <1>6, <1>7
<1>9. QED
  BY <1>8 DEF U

(* Some function on the naturals starts from v0 and goes on by step h.     *)
Closed(S, h)      == \A k \in Nat, x \in S : h[<<k, x>>] \in S
Iterates(v, v0, h) == v[0] = v0 /\ \A k \in Nat : v[k + 1] = h[<<k, v[k]>>]
Iterable(S, v0, h) == \E v \in [Nat -> S] : Iterates(v, v0, h)

(* Existence of the function an iteration defines.                         *)
LEMMA IterationExists ==
  ASSUME NEW S, NEW v0, NEW h, v0 \in S, Closed(S, h)
  PROVE  Iterable(S, v0, h)
<1> USE DEF Closed
<1> DEFINE Upto(m, v) == /\ v \in [0 .. m -> S]
                         /\ v[0] = v0
                         /\ \A k \in 0 .. m - 1 : v[k + 1] = h[<<k, v[k]>>]
           T == {m \in Nat : \E v : Upto(m, v)}
<1>1. 0 \in T
  <2> DEFINE v == [k \in 0 .. 0 |-> v0]
  <2>1. v \in [0 .. 0 -> S] /\ v[0] = v0
    OBVIOUS
  <2>2. 0 .. (0 - 1) = {}
    OBVIOUS
  <2> HIDE DEF v
  <2>3. Upto(0, v)
    BY <2>1, <2>2
  <2>4. QED
    BY <2>3
<1>2. ASSUME NEW m \in Nat, m \in T PROVE m + 1 \in T
  <2>1. PICK v : Upto(m, v)
    BY <1>2
  <2> DEFINE g == [k \in 0 .. m + 1 |-> IF k = m + 1 THEN h[<<m, v[m]>>] ELSE v[k]]
  <2>2. v[m] \in S /\ h[<<m, v[m]>>] \in S
    BY <2>1
  <2>3. g \in [0 .. m + 1 -> S]
    BY <2>1, <2>2
  <2>4. g[0] = v0
    BY <2>1
  <2>5. ASSUME NEW k \in 0 .. m PROVE g[k + 1] = h[<<k, g[k]>>]
    <3>1. k \in 0 .. m + 1 /\ k + 1 \in 0 .. m + 1 /\ g[k] = v[k]
      OBVIOUS
    <3>2. CASE k = m
      BY <3>1, <3>2
    <3>3. CASE k # m
      <4>1. k \in 0 .. m - 1 /\ k + 1 # m + 1
        BY <3>3
      <4>2. v[k + 1] = h[<<k, v[k]>>]
        BY <2>1, <4>1
      <4>3. QED
        BY <3>1, <4>1, <4>2
    <3>4. QED
      BY <3>2, <3>3
  <2>6. (m + 1) - 1 = m
    OBVIOUS
  <2> HIDE DEF g
  <2>7. Upto(m + 1, g)
    BY <2>3, <2>4, <2>5, <2>6
  <2>8. QED
    BY <2>7
<1>3. \A m \in Nat : \E v : Upto(m, v)
  <2> HIDE DEF Upto
  <2>1. Nat \subseteq T
    <3> HIDE DEF T
    <3>1. QED
      BY <1>1, <1>2, SetInduction
  <2>2. QED
    BY <2>1
<1>4. ASSUME NEW m \in Nat, NEW v, NEW g, Upto(m, v), Upto(m + 1, g)
      PROVE  \A k \in 0 .. m : g[k] = v[k]
  <2> DEFINE E == {k \in Nat : k <= m => g[k] = v[k]}
  <2>1. 0 \in E
    BY <1>4
  <2>2. ASSUME NEW k \in Nat, k \in E PROVE k + 1 \in E
    <3>1. SUFFICES ASSUME k + 1 <= m PROVE g[k + 1] = v[k + 1]
      OBVIOUS
    <3>2. g[k] = v[k]
      BY <2>2, <3>1
    <3>3. k \in 0 .. m - 1 /\ k \in 0 .. (m + 1) - 1
      BY <3>1
    <3>4. g[k + 1] = h[<<k, g[k]>>] /\ v[k + 1] = h[<<k, v[k]>>]
      BY <1>4, <3>3
    <3>5. QED
      BY <3>2, <3>4
  <2>3. Nat \subseteq E
    <3> HIDE DEF E
    <3>1. QED
      BY <2>1, <2>2, SetInduction
  <2>4. QED
    BY <2>3
<1> DEFINE F == [m \in Nat |-> CHOOSE v : Upto(m, v)]
           w == [m \in Nat |-> F[m][m]]
<1>5. ASSUME NEW m \in Nat PROVE Upto(m, F[m])
  <2> HIDE DEF Upto
  <2>1. QED
    BY <1>3
<1>6. w \in [Nat -> S]
  <2>1. ASSUME NEW m \in Nat PROVE F[m][m] \in S
    <3> HIDE DEF F
    <3>1. QED
      BY <1>5
  <2>2. QED
    BY <2>1
<1>7. w[0] = v0
  <2>1. F[0][0] = v0
    <3> HIDE DEF F
    <3>1. QED
      BY <1>5
  <2>2. QED
    BY <2>1
<1>8. ASSUME NEW k \in Nat PROVE w[k + 1] = h[<<k, w[k]>>]
  <2> HIDE DEF F
  <2>1. Upto(k, F[k]) /\ Upto(k + 1, F[k + 1])
    <3> HIDE DEF Upto
    <3>1. k + 1 \in Nat
      OBVIOUS
    <3>2. QED
      BY <1>5, <3>1
  <2>2. F[k + 1][k] = F[k][k]
    <3> HIDE DEF Upto
    <3>1. QED
      BY <2>1, <1>4
  <2>3. F[k + 1][k + 1] = h[<<k, F[k + 1][k]>>]
    BY <2>1
  <2>4. QED
    BY <2>2, <2>3
<1>9. QED
  <2> HIDE DEF w
  <2>1. QED
    BY <1>6, <1>7, <1>8 DEF Iterates, Iterable

(* The same for as many steps as h can be taken.                           *)
ClosedTo(m, S, h) == \A k \in 1 .. m, x \in S : h[<<k, x>>] \in S

IterableTo(m, S, v0, h) ==
  \E v \in [0 .. m -> S] : v[0] = v0 /\ \A k \in 1 .. m : v[k] = h[<<k, v[k - 1]>>]

(* The same for a recursion over 0 .. m.                                   *)
LEMMA BoundedIteration ==
  ASSUME NEW m \in Nat, NEW S, NEW v0, NEW h, v0 \in S, ClosedTo(m, S, h)
  PROVE  IterableTo(m, S, v0, h)
<1> DEFINE g == [p \in Nat \X S |-> IF p[1] < m THEN h[<<p[1] + 1, p[2]>>] ELSE p[2]]
<1> USE DEF ClosedTo
<1>1. ASSUME NEW k \in Nat, NEW x \in S
      PROVE  /\ g[<<k, x>>] \in S
             /\ k < m => g[<<k, x>>] = h[<<k + 1, x>>]
  <2>1. g[<<k, x>>] = IF k < m THEN h[<<k + 1, x>>] ELSE x
    OBVIOUS
  <2>2. k < m => k + 1 \in 1 .. m
    OBVIOUS
  <2> HIDE DEF g
  <2>3. QED
    BY <2>1, <2>2
<1> HIDE DEF g
<1>2. Iterable(S, v0, g)
  <2>1. Closed(S, g)
    BY <1>1 DEF Closed
  <2>2. QED
    BY <2>1, IterationExists
<1>3. PICK u \in [Nat -> S] : Iterates(u, v0, g)
  BY <1>2 DEF Iterable
<1> DEFINE v == [k \in 0 .. m |-> u[k]]
<1>4. v \in [0 .. m -> S] /\ v[0] = v0
  BY <1>3 DEF Iterates
<1>5. ASSUME NEW k \in 1 .. m PROVE v[k] = h[<<k, v[k - 1]>>]
  <2> DEFINE l == k - 1
  <2>1. l \in Nat /\ l < m /\ l + 1 = k /\ l \in 0 .. m /\ k \in 0 .. m
    OBVIOUS
  <2>2. u[l + 1] = g[<<l, u[l]>>] /\ u[l] \in S
    BY <1>3, <2>1 DEF Iterates
  <2>3. v[k] = u[k] /\ v[l] = u[l]
    BY <2>1
  <2> HIDE DEF l, v
  <2>4. v[k] = h[<<k, v[l]>>]
    BY <1>1, <2>1, <2>2, <2>3
  <2>5. QED
    BY <2>4 DEF l
<1>6. QED
  BY <1>4, <1>5 DEF IterableTo

(* A recursion that goes from a number to its half: the values known so    *)
(* far are the state of an iteration.                                      *)
ClosedHalving(S, h) == \A k \in Nat \ {0}, x \in S : h[<<k, x>>] \in S

HalvingRecursion(S, v0, h) ==
  \E v \in [Nat -> S] : v[0] = v0 /\ \A k \in Nat \ {0} : v[k] = h[<<k, v[k \div 2]>>]

(* The same for a recursion from x to x \div 2.                            *)
LEMMA HalvingExists ==
  ASSUME NEW S, NEW v0, NEW h, v0 \in S, ClosedHalving(S, h)
  PROVE  HalvingRecursion(S, v0, h)
<1> DEFINE FS == [Nat -> S]
           f0 == [x \in Nat |-> v0]
           g == [p \in Nat \X FS |->
                   [p[2] EXCEPT ![p[1] + 1] = h[<<p[1] + 1, p[2][(p[1] + 1) \div 2]>>]]]
<1>1. ASSUME NEW k \in Nat, NEW f \in FS
      PROVE  /\ g[<<k, f>>] \in FS
             /\ \A x \in Nat : g[<<k, f>>][x] = IF x = k + 1 THEN h[<<k + 1, f[(k + 1) \div 2]>>]
                                                ELSE f[x]
  <2> DEFINE y == h[<<k + 1, f[(k + 1) \div 2]>>]
  <2>1. k + 1 \in Nat \ {0} /\ (k + 1) \div 2 \in Nat
    OBVIOUS
  <2>2. y \in S
    BY <2>1 DEF ClosedHalving
  <2>3. g[<<k, f>>] = [f EXCEPT ![k + 1] = y]
    OBVIOUS
  <2> HIDE DEF y, g
  <2>4. g[<<k, f>>] \in FS /\ \A x \in Nat : g[<<k, f>>][x] = IF x = k + 1 THEN y ELSE f[x]
    BY <2>1, <2>2, <2>3
  <2>5. QED
    BY <2>4 DEF y
<1>2. f0 \in FS
  OBVIOUS
<1> HIDE DEF g, f0
<1>3. Iterable(FS, f0, g)
  <2>1. Closed(FS, g)
    BY <1>1 DEF Closed
  <2> HIDE DEF FS
  <2>2. QED
    BY <1>2, <2>1, IterationExists
<1>4. PICK u \in [Nat -> FS] : Iterates(u, f0, g)
  BY <1>3 DEF Iterable
<1>5. /\ u[0] = f0
      /\ \A k \in Nat : /\ u[k] \in FS /\ u[k + 1] = g[<<k, u[k]>>]
  BY <1>4 DEF Iterates
<1> DEFINE v == [k \in Nat |-> u[k][k]]
           T == {k \in Nat : \A x \in 0 .. k : u[k][x] = v[x]}
<1>6. v \in [Nat -> S]
  BY <1>5
<1>7. \A k \in Nat, x \in Nat :
        u[k + 1][x] = IF x = k + 1 THEN h[<<k + 1, u[k][(k + 1) \div 2]>>] ELSE u[k][x]
  <2> SUFFICES ASSUME NEW k \in Nat, NEW x \in Nat
               PROVE  u[k + 1][x] = IF x = k + 1 THEN h[<<k + 1, u[k][(k + 1) \div 2]>>]
                                    ELSE u[k][x]
    OBVIOUS
  <2>1. PICK f \in FS : f = u[k]
    BY <1>5
  <2>2. u[k + 1] = g[<<k, f>>]
    BY <1>5, <2>1
  <2>3. g[<<k, f>>][x] = IF x = k + 1 THEN h[<<k + 1, f[(k + 1) \div 2]>>] ELSE f[x]
    BY <1>1
  <2>4. QED
    BY <2>1, <2>2, <2>3
<1>8. 0 \in T
  OBVIOUS
<1>9. ASSUME NEW k \in Nat, k \in T PROVE k + 1 \in T
  <2> SUFFICES ASSUME NEW x \in 0 .. k + 1 PROVE u[k + 1][x] = v[x]
    OBVIOUS
  <2>1. CASE x = k + 1
    BY <2>1
  <2>2. CASE x # k + 1
    <3>1. x \in 0 .. k /\ x \in Nat
      BY <2>2
    <3>2. u[k][x] = v[x]
      BY <1>9, <3>1
    <3>3. QED
      BY <1>7, <2>2, <3>1, <3>2
  <2>3. QED
    BY <2>1, <2>2
<1>10. Nat \subseteq T
  <2> HIDE DEF T
  <2>1. QED
    BY <1>8, <1>9, SetInduction
<1>11. v[0] = v0
  BY <1>5 DEF f0
<1>12. ASSUME NEW k \in Nat \ {0} PROVE v[k] = h[<<k, v[k \div 2]>>]
  <2> DEFINE l == k - 1
             i == k \div 2
  <2>1. l \in Nat /\ l + 1 = k /\ i \in 0 .. l /\ i \in Nat
    OBVIOUS
  <2>2. u[l][i] = v[i]
    BY <1>10, <2>1
  <2>3. u[l + 1][l + 1] = h[<<l + 1, u[l][(l + 1) \div 2]>>]
    BY <1>7, <2>1
  <2>4. v[k] = u[k][k]
    OBVIOUS
  <2> HIDE DEF l, v, T
  <2>5. v[k] = h[<<k, u[l][i]>>]
    BY <2>1, <2>3, <2>4
  <2>6. QED
    BY <2>2, <2>5
<1> HIDE DEF v
<1>13. QED
  BY <1>6, <1>11, <1>12 DEF HalvingRecursion

(* There is only one remainder.                                            *)
LEMMA RemainderUnique ==
  ASSUME NEW m \in Nat \ {0}, NEW q \in Nat, NEW r \in 0 .. m - 1
  PROVE  (m * q + r) % m = r
<1> DEFINE u == m * q + r
           p == u \div m
           v == u % m
<1>1. m * q \in Nat /\ u \in Nat
  OBVIOUS
<1>2. u = m * q + r
  OBVIOUS
<1> HIDE DEF u
<1>3. p \in Nat /\ v \in 0 .. m - 1 /\ u = m * p + v
  BY <1>1
<1> HIDE DEF p, v
<1>4. m * p \in Nat
  BY <1>3
<1>5. CASE p = q
  <2>1. m * p = m * q
    BY <1>5
  <2> DEFINE k == m * q
  <2>2. k \in Nat /\ u = k + r /\ u = k + v
    BY <1>1, <1>2, <1>3, <2>1
  <2> HIDE DEF k
  <2>3. v = r
    BY <1>3, <2>2
  <2>4. QED
    BY <2>3 DEF v, u
<1>6. CASE p > q
  <2>1. m * p >= m * q + m
    <3> DEFINE e == p - q - 1
    <3>1. e \in Nat /\ p = q + 1 + e
      BY <1>3, <1>6
    <3> HIDE DEF e
    <3>2. m * (q + 1 + e) = m * q + m + m * e /\ m * e \in Nat
      BY <3>1
    <3>3. QED
      BY <1>1, <3>1, <3>2
  <2>2. QED
    BY <1>1, <1>2, <1>3, <1>4, <2>1
<1>7. CASE p < q
  <2>1. m * q >= m * p + m
    <3> DEFINE e == q - p - 1
    <3>1. e \in Nat /\ q = p + 1 + e
      BY <1>3, <1>7
    <3> HIDE DEF e
    <3>2. m * (p + 1 + e) = m * p + m + m * e /\ m * e \in Nat
      BY <1>3, <3>1
    <3>3. QED
      BY <1>4, <3>1, <3>2
  <2>2. QED
    BY <1>1, <1>2, <1>3, <1>4, <2>1
<1>8. QED
  BY <1>3, <1>5, <1>6, <1>7

(* Nor is there more than one quotient.                                    *)
LEMMA QuotientUnique ==
  ASSUME NEW m \in Nat \ {0}, NEW q \in Nat, NEW r \in 0 .. m - 1
  PROVE  (m * q + r) \div m = q
<1> DEFINE u == m * q + r
           p == u \div m
<1>1. u \in Nat /\ u % m = r
  BY RemainderUnique
<1>2. p \in Nat /\ u = m * p + r
  BY <1>1
<1>3. m * p = m * q
  <2>1. m * p \in Nat /\ m * q \in Nat
    BY <1>2
  <2> DEFINE k == m * p
             l == m * q
  <2>2. k \in Nat /\ l \in Nat /\ l + r = k + r
    BY <1>2, <2>1
  <2> HIDE DEF k, l
  <2>3. k = l
    BY <2>2
  <2>4. QED
    BY <2>3 DEF k, l
<1> HIDE DEF p
<1>4. p = q
  <2>1. CASE p < q
    <3>1. PICK e \in Nat : q = p + 1 + e
      <4>1. q - p - 1 \in Nat /\ q = p + 1 + (q - p - 1)
        BY <1>2, <2>1
      <4>2. QED
        BY <4>1
    <3>2. m * (p + 1 + e) = m * p + m + m * e /\ m * e \in Nat /\ m * p \in Nat
      BY <1>2
    <3>3. QED
      BY <1>3, <3>1, <3>2
  <2>2. CASE q < p
    <3>1. PICK e \in Nat : p = q + 1 + e
      <4>1. p - q - 1 \in Nat /\ p = q + 1 + (p - q - 1)
        BY <1>2, <2>2
      <4>2. QED
        BY <4>1
    <3>2. m * (q + 1 + e) = m * q + m + m * e /\ m * e \in Nat /\ m * q \in Nat
      OBVIOUS
    <3>3. QED
      BY <1>3, <3>1, <3>2
  <2>3. QED
    BY <1>2, <2>1, <2>2
<1>5. QED
  BY <1>4 DEF p

(* Dividing by p and then by q is dividing by p * q.                       *)
LEMMA DivideTwice ==
  ASSUME NEW x \in Nat, NEW p \in Nat \ {0}, NEW q \in Nat \ {0}
  PROVE  (x \div p) \div q = x \div (p * q)
<1> DEFINE y == x \div p
           r == x % p
           z == y \div q
           s == y % q
<1>1. y \in Nat /\ r \in 0 .. p - 1 /\ x = p * y + r
  OBVIOUS
<1> HIDE DEF y, r
<1>2. z \in Nat /\ s \in 0 .. q - 1 /\ y = q * z + s
  BY <1>1
<1> HIDE DEF z, s
<1>3. p * q \in Nat \ {0}
  OBVIOUS
<1>4. p * s + r \in 0 .. p * q - 1
  <2>1. PICK e \in Nat : q = s + 1 + e
    <3>1. q - s - 1 \in Nat /\ q = s + 1 + (q - s - 1)
      BY <1>2
    <3>2. QED
      BY <3>1
  <2>2. p * (s + 1 + e) = p * s + p + p * e /\ p * e \in Nat /\ p * s \in Nat
    BY <1>2
  <2>3. QED
    BY <1>1, <2>1, <2>2
<1>5. x = (p * q) * z + (p * s + r)
  <2>1. p * (q * z + s) = (p * q) * z + p * s
    BY <1>2
  <2>2. QED
    BY <1>1, <1>2, <2>1
<1>6. x \div (p * q) = z
  <2> DEFINE m == p * q
             u == p * s + r
  <2>1. m \in Nat \ {0} /\ u \in 0 .. m - 1 /\ x = m * z + u
    BY <1>3, <1>4, <1>5
  <2> HIDE DEF m, u
  <2>2. (m * z + u) \div m = z
    BY <1>2, <2>1, QuotientUnique
  <2>3. QED
    BY <2>1, <2>2 DEF m
<1>7. QED
  BY <1>6 DEF z, y

(* A remainder of a multiple of p * c determines the quotient by p mod c.  *)
LEMMA QuotientOfRemainder ==
  ASSUME NEW x \in Nat, NEW p \in Nat \ {0}, NEW c \in Nat \ {0}, NEW k \in Nat \ {0}
  PROVE  ((x % ((p * c) * k)) \div p) % c = (x \div p) % c
<1> DEFINE m == (p * c) * k
<1>1. p * c \in Nat \ {0} /\ c * k \in Nat \ {0} /\ m \in Nat \ {0} /\ m = p * (c * k)
  OBVIOUS
<1> DEFINE q == x \div m
           r == x % m
           y == r \div p
           s == r % p
<1>2. q \in Nat /\ r \in Nat /\ x = m * q + r
  BY <1>1
<1> HIDE DEF q, r
<1>3. y \in Nat /\ s \in 0 .. p - 1 /\ r = p * y + s
  BY <1>2
<1> HIDE DEF y, s
<1> DEFINE a == (c * k) * q
<1>4. a \in Nat /\ m * q = p * a
  BY <1>1, <1>2
<1>5. x = p * (a + y) + s /\ a + y \in Nat
  <2> HIDE DEF a, m
  <2>1. p * (a + y) = p * a + p * y
    BY <1>3, <1>4
  <2>2. QED
    BY <1>2, <1>3, <1>4, <2>1
<1>6. x \div p = a + y
  <2> DEFINE u == a + y
  <2> HIDE DEF a, m
  <2>1. u \in Nat /\ x = p * u + s
    BY <1>5
  <2> HIDE DEF u
  <2>2. (p * u + s) \div p = u
    BY <1>3, <2>1, QuotientUnique
  <2>3. QED
    BY <2>1, <2>2 DEF u
<1>7. (a + y) % c = y % c
  <2> DEFINE f == k * q
             g == y \div c
             h == y % c
  <2>1. f \in Nat /\ a = c * f
    BY <1>2
  <2>2. g \in Nat /\ h \in 0 .. c - 1 /\ y = c * g + h
    BY <1>3
  <2> HIDE DEF f, g, h, a
  <2>3. a + y = c * (f + g) + h /\ f + g \in Nat
    <3>1. c * (f + g) = c * f + c * g
      BY <2>1, <2>2
    <3>2. QED
      BY <2>1, <2>2, <3>1
  <2> DEFINE e == f + g
  <2>4. e \in Nat /\ a + y = c * e + h
    BY <2>3
  <2> HIDE DEF e
  <2>5. (c * e + h) % c = h
    BY <2>2, <2>4, RemainderUnique
  <2>6. QED
    BY <2>4, <2>5 DEF h
<1>8. QED
  BY <1>6, <1>7 DEF y, r

(* Reducing modulo a multiple first changes no remainder.                  *)
LEMMA RemainderOfRemainder ==
  ASSUME NEW x \in Nat, NEW p \in Nat \ {0}, NEW c \in Nat \ {0}
  PROVE  (x % (p * c)) % p = x % p
<1> DEFINE m == p * c
<1>1. m \in Nat \ {0}
  OBVIOUS
<1> DEFINE q == x \div m
           r == x % m
           y == r \div p
           s == r % p
<1>2. q \in Nat /\ r \in Nat /\ x = m * q + r
  BY <1>1
<1> HIDE DEF q, r
<1>3. y \in Nat /\ s \in 0 .. p - 1 /\ r = p * y + s
  BY <1>2
<1> HIDE DEF y, s
<1>4. x = p * (c * q + y) + s /\ c * q + y \in Nat
  <2>1. c * q \in Nat /\ m * q = p * (c * q)
    BY <1>2
  <2> DEFINE a == c * q
  <2>2. a \in Nat /\ m * q = p * a
    BY <2>1
  <2> HIDE DEF a, m
  <2>3. p * (a + y) = p * a + p * y
    BY <1>3, <2>2
  <2>4. x = p * (a + y) + s /\ a + y \in Nat
    BY <1>2, <1>3, <2>2, <2>3
  <2>5. QED
    BY <2>4 DEF a
<1> DEFINE u == c * q + y
<1>5. u \in Nat /\ x = p * u + s
  BY <1>4
<1> HIDE DEF u
<1>6. (p * u + s) % p = s
  BY <1>3, <1>5, RemainderUnique
<1>7. QED
  BY <1>5, <1>6 DEF s, r

(* The part of a modulus m in which a number lies, in sixths.              *)
LEMMA Sixths ==
  ASSUME NEW x \in Nat, NEW m \in Nat \ {0}
  PROVE  LET q == ((6 * x) \div m) % 6
             r == x % m
         IN  q \in 0 .. 5 /\ q * m <= 6 * r /\ 6 * r < q * m + m
<1> DEFINE u == x \div m
           r == x % m
           k == (6 * x) \div m
           s == (6 * x) % m
<1>1. u \in Nat /\ r \in 0 .. m - 1 /\ x = m * u + r
  OBVIOUS
<1>2. k \in Nat /\ s \in 0 .. m - 1 /\ 6 * x = m * k + s
  OBVIOUS
<1> HIDE DEF u, r, k, s
<1> DEFINE a == m * u
           c == m * k
<1>3. a \in Nat /\ c \in Nat /\ x = a + r /\ 6 * x = c + s
  BY <1>1, <1>2
<1>4. m * (k - 6 * u) = c - 6 * a
  BY <1>1, <1>2
<1> HIDE DEF a, c
<1> DEFINE q == k - 6 * u
<1>5. q \in Int /\ m * q = c - 6 * a /\ 6 * r = (c - 6 * a) + s
  BY <1>1, <1>2, <1>3, <1>4
<1>6. k = 6 * u + q
  BY <1>1, <1>2
<1> HIDE DEF q
<1>7. 6 * r = m * q + s
  BY <1>5
<1>8. q >= 0
  <2>1. SUFFICES ASSUME q <= -1 PROVE FALSE
    BY <1>5
  <2>2. PICK e \in Nat : q = -1 - e
    <3>1. -1 - q \in Nat /\ q = -1 - (-1 - q)
      BY <1>5, <2>1
    <3>2. QED
      BY <3>1
  <2>3. m * (-1 - e) = - m - m * e /\ m * e \in Nat
    OBVIOUS
  <2>4. QED
    BY <1>1, <1>2, <1>7, <2>2, <2>3
<1>9. q <= 5
  <2>1. SUFFICES ASSUME q >= 6 PROVE FALSE
    BY <1>5
  <2>2. PICK e \in Nat : q = 6 + e
    <3>1. q - 6 \in Nat /\ q = 6 + (q - 6)
      BY <1>5, <2>1
    <3>2. QED
      BY <3>1
  <2>3. m * (6 + e) = 6 * m + m * e /\ m * e \in Nat
    OBVIOUS
  <2>4. QED
    BY <1>1, <1>2, <1>7, <2>2, <2>3
<1>10. q \in 0 .. 5
  BY <1>5, <1>8, <1>9
<1>11. k % 6 = q
  BY <1>1, <1>6, <1>10
<1>12. q * m = m * q
  BY <1>10
<1>13. q \in 0 .. 5 /\ q * m <= 6 * r /\ 6 * r < q * m + m
  BY <1>2, <1>7, <1>10, <1>12
<1>14. QED
  BY <1>11, <1>13 DEF k, r

(* Remainders by a half and by a third of a modulus.                       *)
LEMMA HalfRemainder ==
  ASSUME NEW x \in Nat, NEW h \in Nat \ {0}
  PROVE  LET r == x % (2 * h) IN /\ r \in 0 .. 2 * h - 1
                                 /\ x % h = IF r < h THEN r ELSE r - h
<1> DEFINE r == x % (2 * h)
<1>1. 2 * h \in Nat \ {0} /\ h * 2 = 2 * h
  OBVIOUS
<1>2. r \in 0 .. 2 * h - 1
  BY <1>1
<1>3. r % h = x % h
  <2>1. (x % (h * 2)) % h = x % h
    <3>1. 2 \in Nat \ {0}
      OBVIOUS
    <3>2. QED
      BY <3>1, RemainderOfRemainder
  <2>2. QED
    BY <1>1, <2>1
<1> HIDE DEF r
<1>4. CASE r < h
  <2>1. r \in 0 .. h - 1 /\ h * 0 + r = r
    BY <1>2, <1>4
  <2>2. (h * 0 + r) % h = r
    BY <2>1, RemainderUnique
  <2>3. QED
    BY <1>2, <1>3, <1>4, <2>1, <2>2 DEF r
<1>5. CASE r >= h
  <2>1. r - h \in 0 .. h - 1 /\ h * 1 + (r - h) = r
    BY <1>2, <1>5
  <2> DEFINE y == r - h
  <2>2. (h * 1 + y) % h = y
    <3>1. y \in 0 .. h - 1
      BY <2>1
    <3> HIDE DEF y
    <3>2. QED
      BY <3>1, RemainderUnique
  <2>3. x % h = r - h /\ ~ (r < h)
    BY <1>2, <1>3, <1>5, <2>1, <2>2
  <2>4. QED
    BY <1>2, <2>3 DEF r
<1>6. QED
  BY <1>2, <1>4, <1>5

(* A remainder by 3h gives the remainder by h.                             *)
LEMMA ThirdRemainder ==
  ASSUME NEW x \in Nat, NEW h \in Nat \ {0}
  PROVE  LET r == x % (3 * h) IN /\ r \in 0 .. 3 * h - 1
                                 /\ x % h = IF r < h THEN r
                                            ELSE IF r < 2 * h THEN r - h ELSE r - 2 * h
<1> DEFINE r == x % (3 * h)
<1>1. 3 * h \in Nat \ {0} /\ h * 3 = 3 * h
  OBVIOUS
<1>2. r \in 0 .. 3 * h - 1
  BY <1>1
<1>3. r % h = x % h
  <2>1. (x % (h * 3)) % h = x % h
    <3>1. 3 \in Nat \ {0}
      OBVIOUS
    <3>2. QED
      BY <3>1, RemainderOfRemainder
  <2>2. QED
    BY <1>1, <2>1
<1> HIDE DEF r
<1>4. ASSUME NEW k \in 0 .. 2, NEW y \in 0 .. h - 1, r = h * k + y
      PROVE  x % h = y
  <2>1. (h * k + y) % h = y
    BY RemainderUnique
  <2>2. QED
    BY <1>3, <1>4, <2>1
<1>5. CASE r < h
  <2>1. r \in 0 .. h - 1 /\ r = h * 0 + r
    BY <1>2, <1>5
  <2>2. x % h = r
    BY <1>4, <2>1
  <2>3. QED
    BY <1>2, <1>5, <2>2 DEF r
<1>6. CASE r >= h /\ r < 2 * h
  <2>1. r - h \in 0 .. h - 1 /\ r = h * 1 + (r - h)
    BY <1>2, <1>6
  <2>2. x % h = r - h
    BY <1>4, <2>1
  <2>3. ~ (r < h)
    BY <1>2, <1>6
  <2>4. QED
    BY <1>2, <1>6, <2>2, <2>3 DEF r
<1>7. CASE r >= 2 * h
  <2>1. r - 2 * h \in 0 .. h - 1 /\ r = h * 2 + (r - 2 * h)
    BY <1>2, <1>7
  <2>2. x % h = r - 2 * h
    BY <1>4, <2>1
  <2>3. ~ (r < h) /\ ~ (r < 2 * h)
    BY <1>2, <1>7
  <2>4. QED
    BY <1>2, <2>2, <2>3 DEF r
<1>8. QED
  BY <1>2, <1>5, <1>6, <1>7

-----------------------------------------------------------------------------
(* The recursive equation of Pow2, and its values: positive naturals that  *)
(* double with each exponent.                                              *)
LEMMA Pow2Facts ==
  /\ Pow2[0] = 1
  /\ \A e \in Nat : Pow2[e] \in Nat \ {0} /\ Pow2[e + 1] = 2 * Pow2[e]
<1> DEFINE S == Nat \ {0}
           h == [p \in Nat \X S |-> 2 * p[2]]
<1>1. \A k \in Nat, x \in S : h[<<k, x>>] = 2 * x /\ h[<<k, x>>] \in S
  OBVIOUS
<1>2. Iterable(S, 1, h)
  <2>1. 1 \in S
    OBVIOUS
  <2> HIDE DEF h, S
  <2>2. Closed(S, h)
    BY <1>1 DEF Closed
  <2>3. QED
    BY <2>1, <2>2, IterationExists
<1>3. PICK v \in [Nat -> S] : Iterates(v, 1, h)
  BY <1>2 DEF Iterable
<1> HIDE DEF h
<1>4. v[0] = 1 /\ \A k \in Nat : v[k + 1] = 2 * v[k]
  BY <1>1, <1>3 DEF Iterates
<1>5. ASSUME NEW e \in Nat PROVE v[e] = IF e = 0 THEN 1 ELSE 2 * v[e - 1]
  <2>1. CASE e = 0
    BY <1>4, <2>1
  <2>2. CASE e # 0
    <3>1. e - 1 \in Nat /\ (e - 1) + 1 = e
      BY <2>2
    <3>2. v[e] = 2 * v[e - 1]
      BY <1>4, <3>1
    <3>3. QED
      BY <2>2, <3>2
  <2>3. QED
    BY <2>1, <2>2
<1>6. v = [e \in Nat |-> IF e = 0 THEN 1 ELSE 2 * v[e - 1]]
  BY <1>5
<1>7. Pow2 = [e \in Nat |-> IF e = 0 THEN 1 ELSE 2 * Pow2[e - 1]]
  BY <1>6 DEF Pow2
<1> DEFINE T == {e \in Nat : Pow2[e] \in S}
<1>8. Pow2[0] = 1
  BY <1>7
<1>9. \A e \in Nat : Pow2[e + 1] = 2 * Pow2[e]
  BY <1>7
<1>10. 0 \in T /\ \A e \in Nat : e \in T => e + 1 \in T
  BY <1>8, <1>9
<1>11. Nat \subseteq T
  <2> HIDE DEF T
  <2>1. QED
    BY <1>10, SetInduction
<1>12. QED
  BY <1>8, <1>9, <1>11

(* The same of Pow3.                                                       *)
LEMMA Pow3Facts ==
  /\ Pow3[0] = 1
  /\ \A e \in Nat : Pow3[e] \in Nat \ {0} /\ Pow3[e + 1] = 3 * Pow3[e]
<1> DEFINE S == Nat \ {0}
           h == [p \in Nat \X S |-> 3 * p[2]]
<1>1. \A k \in Nat, x \in S : h[<<k, x>>] = 3 * x /\ h[<<k, x>>] \in S
  OBVIOUS
<1>2. Iterable(S, 1, h)
  <2>1. 1 \in S
    OBVIOUS
  <2> HIDE DEF h, S
  <2>2. Closed(S, h)
    BY <1>1 DEF Closed
  <2>3. QED
    BY <2>1, <2>2, IterationExists
<1>3. PICK v \in [Nat -> S] : Iterates(v, 1, h)
  BY <1>2 DEF Iterable
<1> HIDE DEF h
<1>4. v[0] = 1 /\ \A k \in Nat : v[k + 1] = 3 * v[k]
  BY <1>1, <1>3 DEF Iterates
<1>5. ASSUME NEW e \in Nat PROVE v[e] = IF e = 0 THEN 1 ELSE 3 * v[e - 1]
  <2>1. CASE e = 0
    BY <1>4, <2>1
  <2>2. CASE e # 0
    <3>1. e - 1 \in Nat /\ (e - 1) + 1 = e
      BY <2>2
    <3>2. v[e] = 3 * v[e - 1]
      BY <1>4, <3>1
    <3>3. QED
      BY <2>2, <3>2
  <2>3. QED
    BY <2>1, <2>2
<1>6. v = [e \in Nat |-> IF e = 0 THEN 1 ELSE 3 * v[e - 1]]
  BY <1>5
<1>7. Pow3 = [e \in Nat |-> IF e = 0 THEN 1 ELSE 3 * Pow3[e - 1]]
  BY <1>6 DEF Pow3
<1> DEFINE T == {e \in Nat : Pow3[e] \in S}
<1>8. Pow3[0] = 1
  BY <1>7
<1>9. \A e \in Nat : Pow3[e + 1] = 3 * Pow3[e]
  BY <1>7
<1>10. 0 \in T /\ \A e \in Nat : e \in T => e + 1 \in T
  BY <1>8, <1>9
<1>11. Nat \subseteq T
  <2> HIDE DEF T
  <2>1. QED
    BY <1>10, SetInduction
<1>12. QED
  BY <1>8, <1>9, <1>11

(* One exponent more doubles or triples a power.                           *)
LEMMA PowerSteps ==
  ASSUME NEW d \in Nat, NEW e \in Nat
  PROVE  /\ Pow23(d, e) \in Nat \ {0}
         /\ Pow23(d + 1, e) = 2 * Pow23(d, e)
         /\ Pow23(d, e + 1) = 3 * Pow23(d, e)
         /\ Pow23(0, e) = Pow3[e]
         /\ Pow23(0, 0) = 1
<1> DEFINE p == Pow2[d]
           q == Pow3[e]
<1>1. /\ p \in Nat \ {0} /\ Pow2[d + 1] = 2 * p
      /\ q \in Nat \ {0} /\ Pow3[e + 1] = 3 * q
      /\ Pow2[0] = 1 /\ Pow3[0] = 1
  BY Pow2Facts, Pow3Facts
<1> HIDE DEF p, q
<1>2. p * q \in Nat \ {0} /\ (2 * p) * q = 2 * (p * q) /\ p * (3 * q) = 3 * (p * q)
      /\ 1 * q = q
  BY <1>1
<1>3. Pow23(d, e) = p * q /\ Pow23(d + 1, e) = (2 * p) * q /\ Pow23(d, e + 1) = p * (3 * q)
      /\ Pow23(0, e) = 1 * q /\ Pow23(0, 0) = 1 * 1
  BY <1>1 DEF Pow23, p, q
<1>4. QED
  BY <1>2, <1>3 DEF q

(* Powers grow with either exponent: with k more the power is at least     *)
(* the same, and at least twice that if k > 0.                             *)
LEMMA PowerGrows ==
  ASSUME NEW d \in Nat, NEW e \in Nat, NEW k \in Nat
  PROVE  /\ Pow23(d + k, e) >= Pow23(d, e)
         /\ Pow23(d, e + k) >= Pow23(d, e)
         /\ k > 0 => /\ Pow23(d + k, e) >= 2 * Pow23(d, e)
                     /\ Pow23(d, e + k) >= 3 * Pow23(d, e)
<1> DEFINE T == {m \in Nat : /\ Pow23(d + m, e) >= Pow23(d, e)
                             /\ Pow23(d, e + m) >= Pow23(d, e)
                             /\ m > 0 => /\ Pow23(d + m, e) >= 2 * Pow23(d, e)
                                         /\ Pow23(d, e + m) >= 3 * Pow23(d, e)}
<1>1. Pow23(d, e) \in Nat
  BY PowerSteps
<1>2. 0 \in T
  BY <1>1
<1>3. ASSUME NEW m \in Nat, m \in T PROVE m + 1 \in T
  <2>1. /\ Pow23((d + m) + 1, e) = 2 * Pow23(d + m, e) /\ Pow23(d + m, e) \in Nat
        /\ Pow23(d, (e + m) + 1) = 3 * Pow23(d, e + m) /\ Pow23(d, e + m) \in Nat
    <3>1. d + m \in Nat /\ e + m \in Nat
      OBVIOUS
    <3> DEFINE u == d + m
               v == e + m
    <3> HIDE DEF u, v, T
    <3>2. u \in Nat /\ v \in Nat
      BY <3>1 DEF u, v
    <3>3. /\ Pow23(u + 1, e) = 2 * Pow23(u, e) /\ Pow23(u, e) \in Nat
          /\ Pow23(d, v + 1) = 3 * Pow23(d, v) /\ Pow23(d, v) \in Nat
      BY <3>2, PowerSteps
    <3>4. QED
      BY <3>3 DEF u, v
  <2>2. (d + m) + 1 = d + (m + 1) /\ (e + m) + 1 = e + (m + 1)
    OBVIOUS
  <2>3. QED
    BY <1>1, <1>3, <2>1, <2>2
<1>4. Nat \subseteq T
  <2> HIDE DEF T
  <2>1. QED
    BY <1>2, <1>3, SetInduction
<1>5. QED
  BY <1>4

(* A power within smaller exponents is at most as large, and at most half  *)
(* as large if an exponent is really smaller.                              *)
LEMMA PowerBounds ==
  ASSUME NEW d \in Nat, NEW e \in Nat, NEW c \in 0 .. d, NEW f \in 0 .. e
  PROVE  /\ Pow23(c, f) <= Pow23(d, e)
         /\ (c # d \/ f # e) => 2 * Pow23(c, f) <= Pow23(d, e)
<1>1. c \in Nat /\ f \in Nat /\ d - c \in Nat /\ e - f \in Nat
      /\ c + (d - c) = d /\ f + (e - f) = e
      /\ (c # d => d - c > 0) /\ (f # e => e - f > 0)
  OBVIOUS
<1>2. Pow23(c, f) \in Nat /\ Pow23(d, f) \in Nat /\ Pow23(d, e) \in Nat
  BY <1>1, PowerSteps
<1>3. Pow23(d, f) >= Pow23(c, f) /\ (c # d => Pow23(d, f) >= 2 * Pow23(c, f))
  <2> DEFINE k == d - c
  <2>1. k \in Nat /\ c + k = d /\ (c # d => k > 0)
    BY <1>1
  <2> HIDE DEF k
  <2>2. QED
    BY <1>1, <2>1, PowerGrows
<1>4. Pow23(d, e) >= Pow23(d, f) /\ (f # e => Pow23(d, e) >= 3 * Pow23(d, f))
  <2> DEFINE k == e - f
  <2>1. k \in Nat /\ f + k = e /\ (f # e => k > 0)
    BY <1>1
  <2> HIDE DEF k
  <2>2. QED
    BY <1>1, <2>1, PowerGrows
<1>5. QED
  BY <1>2, <1>3, <1>4

(* A power of a sum of exponents is a product of powers.                   *)
LEMMA PowerSum ==
  ASSUME NEW d \in Nat, NEW e \in Nat
  PROVE  Pow2[d + e] = Pow2[d] * Pow2[e] /\ Pow3[d + e] = Pow3[d] * Pow3[e]
<1> DEFINE T == {k \in Nat : Pow2[d + k] = Pow2[d] * Pow2[k] /\ Pow3[d + k] = Pow3[d] * Pow3[k]}
<1>1. Pow2[d] \in Nat /\ Pow3[d] \in Nat
  BY Pow2Facts, Pow3Facts
<1>2. 0 \in T
  BY <1>1, Pow2Facts, Pow3Facts
<1>3. ASSUME NEW k \in Nat, k \in T PROVE k + 1 \in T
  <2> DEFINE p == Pow2[d]
             q == Pow2[k]
             u == Pow3[d]
             v == Pow3[k]
  <2>1. /\ p \in Nat /\ q \in Nat /\ u \in Nat /\ v \in Nat
        /\ Pow2[k + 1] = 2 * q /\ Pow3[k + 1] = 3 * v
    BY Pow2Facts, Pow3Facts
  <2>2. d + k \in Nat /\ (d + k) + 1 = d + (k + 1)
    OBVIOUS
  <2>3. Pow2[d + (k + 1)] = 2 * Pow2[d + k] /\ Pow3[d + (k + 1)] = 3 * Pow3[d + k]
    <3> DEFINE s == d + k
    <3>1. s \in Nat /\ s + 1 = d + (k + 1)
      BY <2>2
    <3> HIDE DEF s
    <3>2. Pow2[s + 1] = 2 * Pow2[s] /\ Pow3[s + 1] = 3 * Pow3[s]
      BY <3>1, Pow2Facts, Pow3Facts
    <3>3. QED
      BY <3>1, <3>2 DEF s
  <2>4. Pow2[d + k] = p * q /\ Pow3[d + k] = u * v
    BY <1>3
  <2> HIDE DEF p, q, u, v
  <2>5. 2 * (p * q) = p * (2 * q) /\ 3 * (u * v) = u * (3 * v)
    BY <2>1
  <2>6. Pow2[d + (k + 1)] = p * Pow2[k + 1] /\ Pow3[d + (k + 1)] = u * Pow3[k + 1]
    BY <2>1, <2>3, <2>4, <2>5
  <2>7. QED
    BY <2>6 DEF p, u
<1>4. Nat \subseteq T
  <2> HIDE DEF T
  <2>1. QED
    BY <1>2, <1>3, SetInduction
<1>5. QED
  BY <1>4

(* So are the numbers of two and three.                                    *)
LEMMA PowerProduct ==
  ASSUME NEW d \in Nat, NEW e \in Nat, NEW c \in Nat, NEW f \in Nat
  PROVE  Pow23(d + c, e + f) = Pow23(d, e) * Pow23(c, f)
<1> DEFINE p == Pow2[d]
           q == Pow2[c]
           u == Pow3[e]
           v == Pow3[f]
<1>1. /\ p \in Nat /\ q \in Nat /\ u \in Nat /\ v \in Nat
      /\ Pow2[d + c] = p * q /\ Pow3[e + f] = u * v
  BY Pow2Facts, Pow3Facts, PowerSum
<1> HIDE DEF p, q, u, v
<1>2. (p * q) * (u * v) = (p * u) * (q * v)
  BY <1>1
<1>3. QED
  BY <1>1, <1>2 DEF Pow23, p, q, u, v

(* One bit more of a number.                                               *)
LEMMA BitStep ==
  ASSUME NEW m \in Nat, NEW e \in Nat
  PROVE  /\ m % Pow2[e] \in 0 .. Pow2[e] - 1
         /\ m % Pow2[e + 1] = (m % Pow2[e]) + (IF (m \div Pow2[e]) % 2 = 1 THEN Pow2[e] ELSE 0)
<1> DEFINE h == Pow2[e]
           r == m % (2 * h)
           q == m \div (2 * h)
<1>1. h \in Nat \ {0} /\ Pow2[e + 1] = 2 * h
  BY Pow2Facts
<1> HIDE DEF h
<1>2. r \in 0 .. 2 * h - 1 /\ m % h = IF r < h THEN r ELSE r - h
  BY <1>1, HalfRemainder
<1>3. q \in Nat /\ m = (2 * h) * q + r
  <2> DEFINE k == 2 * h
  <2>1. k \in Nat \ {0}
    BY <1>1
  <2> HIDE DEF k
  <2>2. m \div k \in Nat /\ m = k * (m \div k) + (m % k)
    BY <2>1
  <2>3. QED
    BY <2>2 DEF k
<1> HIDE DEF r, q
<1>4. (2 * q) % 2 = 0 /\ (2 * q + 1) % 2 = 1 /\ 2 * q \in Nat /\ 2 * q + 1 \in Nat
  BY <1>3
<1> DEFINE u == 2 * q
<1>5. CASE r < h
  <2>1. m = h * u + r /\ r \in 0 .. h - 1
    BY <1>1, <1>2, <1>3, <1>5
  <2> HIDE DEF u
  <2>2. m \div h = u
    BY <1>1, <1>4, <2>1, QuotientUnique DEF u
  <2>3. QED
    BY <1>1, <1>2, <1>4, <1>5, <2>2 DEF h, r, u
<1>6. CASE ~(r < h)
  <2> DEFINE s == r - h
             v == u + 1
  <2>1. m = h * v + s /\ s \in 0 .. h - 1
    <3>1. h * (2 * q + 1) = (2 * h) * q + h
      BY <1>1, <1>3
    <3>2. QED
      BY <1>1, <1>2, <1>3, <1>6, <3>1
  <2>2. v \in Nat
    BY <1>3
  <2> HIDE DEF s, v
  <2>3. m \div h = v
    BY <1>1, <2>1, <2>2, QuotientUnique
  <2>4. (m \div h) % 2 = 1
    BY <1>4, <2>3 DEF v
  <2>5. QED
    BY <1>1, <1>2, <1>6, <2>4 DEF h, r
<1>7. QED
  BY <1>5, <1>6

(* Where a number has no bits its remainders do not change.                *)
LEMMA NoBits ==
  ASSUME NEW m \in Nat, NEW lo \in Nat, NEW hi \in Nat, lo <= hi,
         \A e \in lo .. hi - 1 : (m \div Pow2[e]) % 2 # 1
  PROVE  m % Pow2[hi] = m % Pow2[lo]
<1> DEFINE T == {k \in Nat : lo + k <= hi => m % Pow2[lo + k] = m % Pow2[lo]}
<1>1. 0 \in T
  BY SMT
<1>2. ASSUME NEW k \in Nat, k \in T PROVE k + 1 \in T
  <2> SUFFICES ASSUME lo + (k + 1) <= hi PROVE m % Pow2[lo + (k + 1)] = m % Pow2[lo]
    OBVIOUS
  <2> DEFINE e == lo + k
  <2>1. e \in Nat /\ e \in lo .. hi - 1 /\ lo + (k + 1) = e + 1 /\ lo + k <= hi
    OBVIOUS
  <2>2. m % Pow2[e] = m % Pow2[lo]
    BY <1>2, <2>1
  <2> HIDE DEF e
  <2>3. m % Pow2[e + 1] = (m % Pow2[e]) + 0 /\ m % Pow2[e] \in 0 .. Pow2[e] - 1
    BY <2>1, BitStep
  <2>4. Pow2[e] \in Nat
    BY <2>1, Pow2Facts
  <2>5. QED
    BY <2>1, <2>2, <2>3, <2>4
<1>3. Nat \subseteq T
  <2> HIDE DEF T
  <2>1. QED
    BY <1>1, <1>2, SetInduction
<1>4. hi - lo \in Nat /\ lo + (hi - lo) = hi
  OBVIOUS
<1>5. QED
  BY <1>3, <1>4

(* The value of a term is a number; it is positive or negative with its    *)
(* sign.                                                                   *)
LEMMA TermValueType ==
  ASSUME NEW e \in Entry
  PROVE  TermValue(e) \in Int
<1>1. Pow2[e.dbl] \in Nat /\ Pow3[e.tpl] \in Nat
  BY Pow2Facts, Pow3Facts DEF Entry
<1>2. Pow23(e.dbl, e.tpl) \in Nat
  BY <1>1 DEF Pow23
<1>3. e.sign \in Int
  BY DEF Entry
<1>4. QED
  BY <1>2, <1>3 DEF TermValue

(* The partial sums of m rows: from 0, one term more at each index.        *)
LEMMA RunningSumsFacts ==
  ASSUME NEW m \in Nat, NEW c \in [0 .. m - 1 -> Entry]
  PROVE  /\ RunningSums(c, m) \in [0 .. m -> Int]
         /\ RunningSums(c, m)[0] = 0
         /\ \A k \in 0 .. m - 1 : RunningSums(c, m)[k + 1] = RunningSums(c, m)[k] + TermValue(c[k])
<1> DEFINE h == [p \in Nat \X Int |-> IF p[1] < m THEN p[2] + TermValue(c[p[1]])
                                                     ELSE p[2]]
<1>1. ASSUME NEW k \in Nat, k < m PROVE k \in 0 .. m - 1 /\ TermValue(c[k]) \in Int
  BY <1>1, TermValueType
<1>2. ASSUME NEW k \in Nat, NEW x \in Int
      PROVE  /\ h[<<k, x>>] \in Int
             /\ k < m => h[<<k, x>>] = x + TermValue(c[k])
  BY <1>1
<1>3. Iterable(Int, 0, h)
  <2> HIDE DEF h
  <2>1. 0 \in Int
    OBVIOUS
  <2>2. Closed(Int, h)
    BY <1>2 DEF Closed
  <2>3. QED
    BY <2>1, <2>2, IterationExists
<1>4. PICK v \in [Nat -> Int] : Iterates(v, 0, h)
  BY <1>3 DEF Iterable
<1> DEFINE w == [k \in 0 .. m |-> v[k]]
           F(u) == [k \in 0 .. m |-> IF k = 0 THEN 0 ELSE u[k - 1] + TermValue(c[k - 1])]
<1> HIDE DEF h
<1>5. ASSUME NEW k \in 0 .. m PROVE w[k] = F(w)[k]
  <2>1. CASE k = 0
    BY <1>4, <2>1 DEF Iterates
  <2>2. CASE k # 0
    <3>1. k - 1 \in Nat /\ k - 1 < m /\ k - 1 \in 0 .. m /\ (k - 1) + 1 = k
      BY <2>2
    <3>2. v[k] = v[k - 1] + TermValue(c[k - 1])
      BY <1>2, <1>4, <3>1 DEF Iterates
    <3>3. QED
      BY <2>2, <3>1, <3>2
  <2>3. QED
    BY <2>1, <2>2
<1>6. w = F(w)
  BY <1>5
<1> HIDE DEF w
<1>7. RunningSums(c, m) = F(RunningSums(c, m))
  <2> DEFINE good == CHOOSE u : u = F(u)
  <2>1. good = F(good)
    BY <1>6
  <2>2. RunningSums(c, m) = good
    BY DEF RunningSums
  <2> HIDE DEF good
  <2>3. QED
    BY <2>1, <2>2
<1>8. RunningSums(c, m)[0] = 0
  BY <1>7
<1>9. ASSUME NEW k \in 0 .. m - 1
      PROVE  RunningSums(c, m)[k + 1] = RunningSums(c, m)[k] + TermValue(c[k])
  <2>1. k + 1 \in 0 .. m /\ (k + 1) - 1 = k /\ k + 1 # 0
    OBVIOUS
  <2>2. QED
    BY <1>7, <2>1
<1> DEFINE T == {k \in Nat : k <= m => RunningSums(c, m)[k] \in Int}
<1>10. Nat \subseteq T
  <2>1. 0 \in T
    BY <1>8
  <2>2. ASSUME NEW k \in Nat, k \in T PROVE k + 1 \in T
    <3>1. SUFFICES ASSUME k + 1 <= m PROVE RunningSums(c, m)[k + 1] \in Int
      OBVIOUS
    <3>2. k < m /\ k \in 0 .. m - 1 /\ RunningSums(c, m)[k] \in Int
      BY <2>2, <3>1
    <3>3. TermValue(c[k]) \in Int
      BY <1>1, <3>2
    <3>4. QED
      BY <1>9, <3>2, <3>3
  <2> HIDE DEF T
  <2>3. QED
    BY <2>1, <2>2, SetInduction
<1>11. \A k \in 0 .. m : RunningSums(c, m)[k] \in Int
  BY <1>10
<1>12. RunningSums(c, m) \in [0 .. m -> Int]
  <2>1. RunningSums(c, m) = [k \in 0 .. m |-> RunningSums(c, m)[k]]
    BY <1>7
  <2>2. QED
    BY <1>11, <2>1
<1>13. QED
  BY <1>8, <1>9, <1>12

(* Two lists of rows that agree on their first l entries agree on the      *)
(* value of those entries.                                                 *)
LEMMA SameSums ==
  ASSUME NEW m \in Nat, NEW c \in [0 .. m - 1 -> Entry], NEW d \in [0 .. m - 1 -> Entry],
         NEW l \in 0 .. m, \A k \in 0 .. l - 1 : c[k] = d[k]
  PROVE  RunningSums(c, m)[l] = RunningSums(d, m)[l]
<1> DEFINE T == {k \in Nat : k <= l => RunningSums(c, m)[k] = RunningSums(d, m)[k]}
<1>1. 0 \in T
  BY RunningSumsFacts
<1>2. ASSUME NEW k \in Nat, k \in T PROVE k + 1 \in T
  <2>1. SUFFICES ASSUME k + 1 <= l PROVE RunningSums(c, m)[k + 1] = RunningSums(d, m)[k + 1]
    OBVIOUS
  <2>2. k \in 0 .. l - 1 /\ k \in 0 .. m - 1 /\ RunningSums(c, m)[k] = RunningSums(d, m)[k]
    BY <1>2, <2>1
  <2>3. c[k] = d[k]
    BY <2>2
  <2>4. QED
    BY <2>2, <2>3, RunningSumsFacts, ZenonT(60)
<1>3. Nat \subseteq T
  <2> HIDE DEF T
  <2>1. QED
    BY <1>1, <1>2, SetInduction
<1>4. QED
  BY <1>3

(* Counting the elements of an interval that satisfy a condition gives a   *)
(* number of the interval.                                                 *)
LEMMA CountUpTo ==
  ASSUME NEW m \in Nat, NEW S \in SUBSET (1 .. m)
  PROVE  Cardinality(S) \in 0 .. m
<1>1. IsFiniteSet(1 .. m) /\ Cardinality(1 .. m) = m
  BY FS_Interval
<1>2. IsFiniteSet(S) /\ Cardinality(S) <= m
  BY <1>1, FS_Subset
<1>3. Cardinality(S) \in Nat
  BY <1>2, FS_CardinalityType
<1>4. QED
  BY <1>2, <1>3

(* A set of an interval that holds with a number all smaller ones is the   *)
(* interval of its size.                                                   *)
LEMMA CountDownClosed ==
  ASSUME NEW m \in Nat, NEW S \in SUBSET (1 .. m),
         \A x \in S, y \in 1 .. m : y <= x => y \in S
  PROVE  Cardinality(S) \in 0 .. m /\ S = 1 .. Cardinality(S)
<1> DEFINE k == Cardinality(S)
<1>1. k \in 0 .. m
  BY CountUpTo
<1>2. IsFiniteSet(S)
  <2>1. IsFiniteSet(1 .. m)
    BY FS_Interval
  <2>2. QED
    BY <2>1, FS_Subset
<1>3. ASSUME NEW x \in S PROVE x <= k
  <2>1. 1 .. x \subseteq S
    OBVIOUS
  <2>2. Cardinality(1 .. x) = x
    BY FS_Interval
  <2>3. Cardinality(1 .. x) <= Cardinality(S)
    BY <1>2, <2>1, FS_Subset
  <2>4. QED
    BY <2>2, <2>3
<1>4. ASSUME NEW x \in 1 .. k PROVE x \in S
  <2>1. SUFFICES ASSUME x \notin S PROVE FALSE
    OBVIOUS
  <2>2. ASSUME NEW y \in S PROVE y \in 1 .. x - 1
    <3>1. y < x
      BY <1>1, <2>1
    <3>2. QED
      BY <3>1
  <2>3. S \subseteq 1 .. x - 1
    BY <2>2
  <2>4. Cardinality(S) <= x - 1
    <3>1. x - 1 \in Nat
      OBVIOUS
    <3>2. S \in SUBSET (1 .. x - 1)
      BY <2>3
    <3> DEFINE l == x - 1
    <3> HIDE DEF l
    <3>3. l \in Nat /\ S \in SUBSET (1 .. l)
      BY <3>1, <3>2 DEF l
    <3>4. Cardinality(S) \in 0 .. l
      BY <3>3, CountUpTo
    <3>5. QED
      BY <3>3, <3>4 DEF l
  <2>5. QED
    BY <1>1, <2>4
<1> HIDE DEF k
<1>5. ASSUME NEW x \in S PROVE x \in 1 .. k
  BY <1>1, <1>3
<1>6. S = 1 .. k
  BY <1>4, <1>5
<1>7. QED
  BY <1>1, <1>6 DEF k

-----------------------------------------------------------------------------
(* The chains of l terms that lie strictly below 2^d 3^e, as triples       *)
(* <<v, d, e>> of their value and that bound.                              *)
Triples == Int \X Nat \X Nat

NoTerm == {p \in Triples : p[1] = 0}

OneMore(R) ==
  {p \in Triples : \E c \in {-1, 1}, x \in 0 .. p[2], y \in 0 .. p[3] :
                      /\ x # p[2] \/ y # p[3]
                      /\ <<p[1] - c * Pow23(x, y), x, y>> \in R}

ChainsUnder[l \in Nat] == IF l = 0 THEN NoTerm ELSE OneMore(ChainsUnder[l - 1])

Under(l, v, d, e) == <<v, d, e>> \in ChainsUnder[l]

(* ChainsUnder is the function its recursion describes.                    *)
LEMMA ChainsUnderFacts ==
  /\ ChainsUnder[0] = NoTerm
  /\ \A l \in Nat : ChainsUnder[l + 1] = OneMore(ChainsUnder[l])
  /\ \A l \in Nat : ChainsUnder[l] \subseteq Triples
<1> DEFINE S == SUBSET Triples
           h == [p \in Nat \X S |-> OneMore(p[2])]
<1>1. \A k \in Nat, x \in S : h[<<k, x>>] = OneMore(x) /\ OneMore(x) \in S
  <2>1. ASSUME NEW x \in S PROVE OneMore(x) \in S
    BY DEF OneMore
  <2>2. ASSUME NEW k \in Nat, NEW x \in S PROVE h[<<k, x>>] = OneMore(x)
    <3>1. <<k, x>> \in Nat \X S /\ <<k, x>>[2] = x
      OBVIOUS
    <3> HIDE DEF S
    <3>2. QED
      BY <3>1
  <2>3. QED
    BY <2>1, <2>2
<1>2. Iterable(S, NoTerm, h)
  <2>1. NoTerm \in S
    BY DEF NoTerm
  <2> HIDE DEF h, S
  <2>2. Closed(S, h)
    BY <1>1 DEF Closed
  <2>3. QED
    BY <2>1, <2>2, IterationExists
<1>3. PICK v \in [Nat -> S] : Iterates(v, NoTerm, h)
  BY <1>2 DEF Iterable
<1> HIDE DEF h
<1>4. v[0] = NoTerm /\ \A k \in Nat : v[k + 1] = OneMore(v[k])
  <2> HIDE DEF S
  <2>1. QED
    BY <1>1, <1>3 DEF Iterates
<1>5. ASSUME NEW l \in Nat PROVE v[l] = IF l = 0 THEN NoTerm ELSE OneMore(v[l - 1])
  <2>1. CASE l = 0
    BY <1>4, <2>1
  <2>2. CASE l # 0
    <3>1. l - 1 \in Nat /\ (l - 1) + 1 = l
      BY <2>2
    <3>2. v[l] = OneMore(v[l - 1])
      BY <1>4, <3>1
    <3>3. QED
      BY <2>2, <3>2
  <2>3. QED
    BY <2>1, <2>2
<1>6. v = [l \in Nat |-> IF l = 0 THEN NoTerm ELSE OneMore(v[l - 1])]
  BY <1>5
<1>7. ChainsUnder = [l \in Nat |-> IF l = 0 THEN NoTerm ELSE OneMore(ChainsUnder[l - 1])]
  BY <1>6 DEF ChainsUnder
<1>8. ChainsUnder[0] = NoTerm
  BY <1>7
<1>9. ASSUME NEW l \in Nat PROVE ChainsUnder[l + 1] = OneMore(ChainsUnder[l])
  <2>1. l + 1 \in Nat /\ l + 1 # 0 /\ (l + 1) - 1 = l
    OBVIOUS
  <2>2. QED
    BY <1>7, <2>1
<1>10. ASSUME NEW l \in Nat PROVE ChainsUnder[l] \subseteq Triples
  BY <1>7 DEF NoTerm, OneMore
<1>11. QED
  BY <1>8, <1>9, <1>10

(* The same in terms of Under: no term sums up to 0, and one term more is  *)
(* larger than the others and strictly below the bound.                    *)
LEMMA UnderFacts ==
  /\ \A l \in Nat : \A v, d, e : Under(l, v, d, e) => v \in Int /\ d \in Nat /\ e \in Nat
  /\ \A v \in Int, d \in Nat, e \in Nat : Under(0, v, d, e) <=> v = 0
  /\ \A l \in Nat, v \in Int, d \in Nat, e \in Nat :
       Under(l + 1, v, d, e) <=>
         \E c \in {-1, 1}, x \in 0 .. d, y \in 0 .. e :
           (x # d \/ y # e) /\ Under(l, v - c * Pow23(x, y), x, y)
<1>1. ASSUME NEW l \in Nat, NEW v, NEW d, NEW e, Under(l, v, d, e)
      PROVE  v \in Int /\ d \in Nat /\ e \in Nat
  <2>1. <<v, d, e>> \in Triples
    BY <1>1, ChainsUnderFacts DEF Under
  <2>2. QED
    BY <2>1 DEF Triples
<1>2. ASSUME NEW v \in Int, NEW d \in Nat, NEW e \in Nat
      PROVE  Under(0, v, d, e) <=> v = 0
  BY ChainsUnderFacts DEF Under, NoTerm, Triples
<1>3. ASSUME NEW l \in Nat, NEW v \in Int, NEW d \in Nat, NEW e \in Nat
      PROVE  Under(l + 1, v, d, e) <=>
               \E c \in {-1, 1}, x \in 0 .. d, y \in 0 .. e :
                 (x # d \/ y # e) /\ Under(l, v - c * Pow23(x, y), x, y)
  <2> DEFINE p == <<v, d, e>>
  <2>1. p \in Triples /\ p[1] = v /\ p[2] = d /\ p[3] = e
    BY DEF Triples
  <2>2. Under(l + 1, v, d, e) <=> p \in OneMore(ChainsUnder[l])
    BY ChainsUnderFacts DEF Under
  <2> HIDE DEF p
  <2>3. QED
    BY <2>1, <2>2 DEF OneMore, Under
<1>4. QED
  BY <1>1, <1>2, <1>3

(* The top term of a chain of at least one term.                           *)
LEMMA TopTerm ==
  ASSUME NEW l \in Nat \ {0}, NEW v, NEW d, NEW e, Under(l, v, d, e)
  PROVE  /\ v \in Int /\ d \in Nat /\ e \in Nat /\ l - 1 \in Nat
         /\ \E c \in {-1, 1}, x \in 0 .. d, y \in 0 .. e :
              (x # d \/ y # e) /\ Under(l - 1, v - c * Pow23(x, y), x, y)
<1>1. l \in Nat /\ l - 1 \in Nat /\ (l - 1) + 1 = l
  OBVIOUS
<1>2. v \in Int /\ d \in Nat /\ e \in Nat
  BY <1>1, UnderFacts
<1> DEFINE k == l - 1
<1>3. k \in Nat /\ Under(k + 1, v, d, e)
  BY <1>1
<1> HIDE DEF k
<1>4. \E c \in {-1, 1}, x \in 0 .. d, y \in 0 .. e :
        (x # d \/ y # e) /\ Under(k, v - c * Pow23(x, y), x, y)
  BY <1>2, <1>3, UnderFacts
<1>5. QED
  BY <1>1, <1>2, <1>4 DEF k

(* A term put on top.                                                      *)
LEMMA PutOnTop ==
  ASSUME NEW l \in Nat, NEW v, NEW x, NEW y, Under(l, v, x, y), NEW c \in {-1, 1},
         NEW d \in Nat, NEW e \in Nat, x <= d, y <= e, x # d \/ y # e,
         NEW z, z = v + c * Pow23(x, y)
  PROVE  Under(l + 1, z, d, e)
<1>1. v \in Int /\ x \in Nat /\ y \in Nat
  BY UnderFacts
<1>2. Pow23(x, y) \in Nat /\ x \in 0 .. d /\ y \in 0 .. e
  BY <1>1, PowerSteps
<1>3. z \in Int /\ z - c * Pow23(x, y) = v
  BY <1>1, <1>2
<1>4. \E a \in {-1, 1}, p \in 0 .. d, q \in 0 .. e :
        (p # d \/ q # e) /\ Under(l, z - a * Pow23(p, q), p, q)
  <2>1. Under(l, z - c * Pow23(x, y), x, y)
    BY <1>3
  <2>2. QED
    BY <1>2, <2>1
<1>5. QED
  BY <1>3, <1>4, UnderFacts

(* The bound may grow.                                                     *)
LEMMA UnderGrows ==
  ASSUME NEW l \in Nat, NEW v, NEW d, NEW e, Under(l, v, d, e),
         NEW D \in Nat, NEW E \in Nat, d <= D, e <= E
  PROVE  Under(l, v, D, E)
<1>1. v \in Int /\ d \in Nat /\ e \in Nat
  BY UnderFacts
<1>2. CASE l = 0
  <2>1. v = 0
    BY <1>1, <1>2, UnderFacts
  <2>2. Under(0, v, D, E)
    BY <1>1, <2>1, UnderFacts
  <2>3. QED
    BY <1>2, <2>2
<1>3. CASE l # 0
  <2>1. PICK c \in {-1, 1}, x \in 0 .. d, y \in 0 .. e :
          (x # d \/ y # e) /\ Under(l - 1, v - c * Pow23(x, y), x, y)
    BY <1>3, TopTerm
  <2>2. x <= D /\ y <= E /\ (x # D \/ y # E) /\ x \in Nat /\ y \in Nat
    BY <1>1, <2>1
  <2> DEFINE m == Pow23(x, y)
  <2>3. m \in Nat /\ v = (v - c * m) + c * m
    <3>1. m \in Nat
      BY <2>2, PowerSteps
    <3> HIDE DEF m
    <3>2. QED
      BY <1>1, <3>1
  <2>4. l - 1 \in Nat /\ (l - 1) + 1 = l
    BY <1>3
  <2> DEFINE k == l - 1
  <2>5. k \in Nat /\ Under(k, v - c * m, x, y)
    BY <2>1, <2>4
  <2> HIDE DEF k, m
  <2>6. Under(k + 1, v, D, E)
    <3>1. PICK u : u = v - c * m
      OBVIOUS
    <3>2. Under(k, u, x, y)
      BY <2>5, <3>1
    <3>3. v = u + c * Pow23(x, y)
      BY <2>3, <3>1 DEF m
    <3>4. QED
      BY <2>2, <2>5, <3>2, <3>3, PutOnTop
  <2>7. QED
    BY <2>4, <2>6 DEF k
<1>4. QED
  BY <1>2, <1>3

(* A chain is worth less than its bound.                                   *)
LEMMA UnderSmall ==
  ASSUME NEW l \in Nat, NEW v, NEW d, NEW e, Under(l, v, d, e)
  PROVE  v \in Int /\ d \in Nat /\ e \in Nat /\ -Pow23(d, e) < v /\ v < Pow23(d, e)
<1> DEFINE Small(k) == \A u, x, y : Under(k, u, x, y) => -Pow23(x, y) < u /\ u < Pow23(x, y)
           T == {k \in Nat : Small(k)}
<1>1. 0 \in T
  <2> SUFFICES ASSUME NEW u, NEW x, NEW y, Under(0, u, x, y)
               PROVE  -Pow23(x, y) < u /\ u < Pow23(x, y)
    OBVIOUS
  <2>1. u = 0 /\ x \in Nat /\ y \in Nat
    BY UnderFacts
  <2>2. Pow23(x, y) \in Nat \ {0}
    BY <2>1, PowerSteps
  <2>3. QED
    BY <2>1, <2>2
<1>2. ASSUME NEW k \in Nat, k \in T PROVE k + 1 \in T
  <2> SUFFICES ASSUME NEW u, NEW x, NEW y, Under(k + 1, u, x, y)
               PROVE  -Pow23(x, y) < u /\ u < Pow23(x, y)
    OBVIOUS
  <2>1. k + 1 \in Nat \ {0} /\ (k + 1) - 1 = k
    OBVIOUS
  <2>2. u \in Int /\ x \in Nat /\ y \in Nat
    BY <2>1, UnderFacts
  <2>3. PICK c \in {-1, 1}, p \in 0 .. x, q \in 0 .. y :
          (p # x \/ q # y) /\ Under(k, u - c * Pow23(p, q), p, q)
    BY <2>2, UnderFacts
  <2>4. 2 * Pow23(p, q) <= Pow23(x, y) /\ Pow23(p, q) \in Nat /\ Pow23(x, y) \in Nat
    <3>1. p \in Nat /\ q \in Nat
      BY <2>2
    <3>2. QED
      BY <2>2, <2>3, <3>1, PowerBounds, PowerSteps
  <2>5. -Pow23(p, q) < u - c * Pow23(p, q) /\ u - c * Pow23(p, q) < Pow23(p, q)
    BY <1>2, <2>3
  <2> DEFINE m == Pow23(p, q)
             M == Pow23(x, y)
  <2>6. m \in Nat /\ M \in Nat /\ 2 * m <= M /\ -m < u - c * m /\ u - c * m < m
    BY <2>4, <2>5
  <2> HIDE DEF m, M, T
  <2>7. -M < u /\ u < M
    <3>1. CASE c = 1
      BY <2>2, <2>6, <3>1
    <3>2. CASE c = -1
      <4>1. u - c * m = u + m
        BY <2>2, <2>6, <3>2
      <4>2. QED
        BY <2>2, <2>6, <4>1
    <3>3. QED
      BY <3>1, <3>2
  <2>8. QED
    BY <2>7 DEF M
<1>3. Nat \subseteq T
  <2> HIDE DEF T
  <2>1. QED
    BY <1>1, <1>2, SetInduction
<1>4. Small(l)
  BY <1>3
<1>5. QED
  BY <1>4, UnderFacts

(* The signs of a chain may all be changed.                                *)
LEMMA UnderNegated ==
  ASSUME NEW l \in Nat, NEW v, NEW d, NEW e, Under(l, v, d, e)
  PROVE  Under(l, -v, d, e)
<1> DEFINE T == {k \in Nat : \A u, x, y : Under(k, u, x, y) => Under(k, -u, x, y)}
<1>1. 0 \in T
  <2> SUFFICES ASSUME NEW u, NEW x, NEW y, Under(0, u, x, y) PROVE Under(0, -u, x, y)
    OBVIOUS
  <2>1. u = 0 /\ -u = 0
    BY UnderFacts
  <2>2. QED
    BY <2>1
<1>2. ASSUME NEW k \in Nat, k \in T PROVE k + 1 \in T
  <2> SUFFICES ASSUME NEW u, NEW x, NEW y, Under(k + 1, u, x, y) PROVE Under(k + 1, -u, x, y)
    OBVIOUS
  <2>1. k + 1 \in Nat
    OBVIOUS
  <2>2. u \in Int /\ x \in Nat /\ y \in Nat
    BY <2>1, UnderFacts
  <2>3. PICK c \in {-1, 1}, p \in 0 .. x, q \in 0 .. y :
          (p # x \/ q # y) /\ Under(k, u - c * Pow23(p, q), p, q)
    BY <2>2, UnderFacts
  <2>4. Under(k, -(u - c * Pow23(p, q)), p, q)
    BY <1>2, <2>3
  <2>5. p \in Nat /\ q \in Nat /\ p <= x /\ q <= y
    BY <2>2
  <2>6. -c \in {-1, 1} /\ -u = -(u - c * Pow23(p, q)) + (-c) * Pow23(p, q)
    <3> DEFINE m == Pow23(p, q)
    <3>1. m \in Nat
      BY <2>5, PowerSteps
    <3> HIDE DEF m
    <3>2. -c \in {-1, 1} /\ -u = -(u - c * m) + (-c) * m
      BY <2>2, <3>1
    <3>3. QED
      BY <3>2 DEF m
  <2> HIDE DEF T
  <2>7. QED
    BY <2>2, <2>3, <2>4, <2>5, <2>6, PutOnTop
<1>3. Nat \subseteq T
  <2> HIDE DEF T
  <2>1. QED
    BY <1>1, <1>2, SetInduction
<1>4. QED
  BY <1>3

-----------------------------------------------------------------------------
(* One exponent less.                                                      *)
LEMMA PowerDown ==
  ASSUME NEW d \in Nat, NEW e \in Nat
  PROVE  /\ d > 0 => d - 1 \in Nat /\ Pow23(d, e) = 2 * Pow23(d - 1, e)
         /\ e > 0 => e - 1 \in Nat /\ Pow23(d, e) = 3 * Pow23(d, e - 1)
<1>1. ASSUME d > 0 PROVE d - 1 \in Nat /\ Pow23(d, e) = 2 * Pow23(d - 1, e)
  <2>1. PICK k \in Nat : k = d - 1 /\ k + 1 = d
    BY <1>1
  <2>2. QED
    BY <2>1, PowerSteps
<1>2. ASSUME e > 0 PROVE e - 1 \in Nat /\ Pow23(d, e) = 3 * Pow23(d, e - 1)
  <2>1. PICK k \in Nat : k = e - 1 /\ k + 1 = e
    BY <1>2
  <2>2. QED
    BY <2>1, PowerSteps
<1>3. QED
  BY <1>1, <1>2

(* A smaller power is a half, a third or a quarter, or at most a sixth.    *)
LEMMA TermRatio ==
  ASSUME NEW d \in Nat, NEW e \in Nat, NEW x \in 0 .. d, NEW y \in 0 .. e, x # d \/ y # e
  PROVE  /\ Pow23(x, y) \in Nat \ {0} /\ Pow23(d, e) \in Nat \ {0}
         /\ \/ d > 0 /\ x = d - 1 /\ y = e /\ Pow23(d, e) = 2 * Pow23(x, y)
            \/ e > 0 /\ x = d /\ y = e - 1 /\ Pow23(d, e) = 3 * Pow23(x, y)
            \/ d > 1 /\ x = d - 2 /\ y = e /\ Pow23(d, e) = 4 * Pow23(x, y)
            \/ Pow23(d, e) >= 6 * Pow23(x, y)
<1>1. x \in Nat /\ y \in Nat /\ x <= d /\ y <= e
  OBVIOUS
<1>2. Pow23(x, y) \in Nat \ {0} /\ Pow23(d, e) \in Nat \ {0}
  BY <1>1, PowerSteps
<1>3. CASE y = e /\ x = d - 1
  <2>1. d > 0
    BY <1>1, <1>3
  <2>2. QED
    BY <1>2, <1>3, <2>1, PowerDown
<1>4. CASE y = e /\ x = d - 2
  <2>1. d > 0 /\ d > 1 /\ d - 1 \in Nat /\ d - 1 > 0 /\ (d - 1) - 1 = x
    BY <1>1, <1>4
  <2>2. Pow23(d, e) = 2 * Pow23(d - 1, e)
    BY <2>1, PowerDown
  <2>3. PICK k \in Nat : k = d - 1 /\ k > 0 /\ k - 1 = x
    BY <2>1
  <2>4. Pow23(k, e) = 2 * Pow23(x, e)
    BY <2>3, PowerDown
  <2>5. QED
    BY <1>2, <1>4, <2>1, <2>2, <2>3, <2>4
<1>5. CASE y = e /\ x < d - 2
  <2>1. PICK p \in Nat, q \in Nat, r \in Nat :
          p = d - 1 /\ q = p - 1 /\ r = q - 1 /\ x \in 0 .. r /\ d > 0 /\ p > 0 /\ q > 0 /\ y \in 0 .. e
    <3>1. d - 1 \in Nat /\ (d - 1) - 1 \in Nat /\ ((d - 1) - 1) - 1 \in Nat
      BY <1>1, <1>5
    <3>2. x \in 0 .. ((d - 1) - 1) - 1 /\ d > 0 /\ d - 1 > 0 /\ (d - 1) - 1 > 0
      BY <1>1, <1>5
    <3>3. QED
      BY <3>1, <3>2
  <2>2. Pow23(d, e) = 2 * Pow23(p, e) /\ Pow23(p, e) = 2 * Pow23(q, e) /\ Pow23(q, e) = 2 * Pow23(r, e)
    BY <2>1, PowerDown
  <2>3. Pow23(x, y) <= Pow23(r, e) /\ Pow23(r, e) \in Nat
    BY <2>1, PowerBounds, PowerSteps
  <2>4. QED
    BY <1>2, <2>2, <2>3
<1>6. CASE y = e - 1 /\ x = d
  <2>1. e > 0
    BY <1>1, <1>6
  <2>2. QED
    BY <1>2, <1>6, <2>1, PowerDown
<1>7. CASE y = e - 1 /\ x < d
  <2>1. PICK p \in Nat : p = d - 1 /\ x \in 0 .. p /\ d > 0 /\ e > 0
    BY <1>1, <1>7
  <2>2. Pow23(d, e) = 2 * Pow23(p, e) /\ Pow23(p, e) = 3 * Pow23(p, y)
    BY <1>7, <2>1, PowerDown
  <2>3. Pow23(x, y) <= Pow23(p, y) /\ Pow23(p, y) \in Nat
    BY <1>1, <2>1, PowerBounds, PowerSteps
  <2>4. QED
    BY <1>2, <2>2, <2>3
<1>8. CASE y < e - 1
  <2>1. PICK p \in Nat, q \in Nat : p = e - 1 /\ q = p - 1 /\ y \in 0 .. q /\ e > 0 /\ p > 0
    <3>1. e - 1 \in Nat /\ (e - 1) - 1 \in Nat /\ y \in 0 .. (e - 1) - 1 /\ e > 0 /\ e - 1 > 0
      BY <1>1, <1>8
    <3>2. QED
      BY <3>1
  <2>2. Pow23(d, e) = 3 * Pow23(d, p) /\ Pow23(d, p) = 3 * Pow23(d, q)
    BY <2>1, PowerDown
  <2>3. Pow23(x, y) <= Pow23(d, q) /\ Pow23(d, q) \in Nat
    BY <2>1, PowerBounds, PowerSteps
  <2>4. QED
    BY <1>2, <2>2, <2>3
<1>9. y = e \/ y = e - 1 \/ y < e - 1
  BY <1>1
<1>10. y = e => x = d - 1 \/ x = d - 2 \/ x < d - 2
  BY <1>1
<1>11. QED
  BY <1>1, <1>3, <1>4, <1>5, <1>6, <1>7, <1>8, <1>9, <1>10

-----------------------------------------------------------------------------
(* A chain of v with fewer than l terms.                                   *)
Shorter(l, v, d, e) == \E k \in Nat : k < l /\ Under(k, v, d, e)

(* The chain of s + 2^d 3^e, or a shorter one below a third of the bound.  *)
Raised(l, s, d, e) ==
  \/ Under(l, s + Pow23(d, e), d, e)
  \/ e > 0 /\ Shorter(l, s + Pow23(d, e - 1), d, e - 1)

(* A shorter chain of s - 2^(d-1) 3^e below half of the bound.             *)
Lowered(l, s, d, e) == d > 0 /\ Shorter(l, s - Pow23(d - 1, e), d - 1, e)

(* A chain that is a third of its bound or more below 0 can be raised by   *)
(* the bound with as many terms, or by a third of it with fewer.           *)
LEMMA Raising ==
  ASSUME NEW l \in Nat, NEW s, NEW d, NEW e, Under(l, s, d, e), 3 * s <= -Pow23(d, e)
  PROVE  Raised(l, s, d, e)
<1> DEFINE T == {k \in Nat : \A u, x, y :
                   Under(k, u, x, y) /\ 3 * u <= -Pow23(x, y) => Raised(k, u, x, y)}
<1>1. 0 \in T
  <2> SUFFICES ASSUME NEW u, NEW x, NEW y, Under(0, u, x, y), 3 * u <= -Pow23(x, y)
               PROVE  FALSE
    OBVIOUS
  <2>1. u = 0 /\ x \in Nat /\ y \in Nat
    BY UnderFacts
  <2>2. Pow23(x, y) \in Nat \ {0}
    BY <2>1, PowerSteps
  <2>3. QED
    BY <2>1, <2>2
<1>2. ASSUME NEW k \in Nat, k \in T PROVE k + 1 \in T
  <2> SUFFICES ASSUME NEW u, NEW x, NEW y, Under(k + 1, u, x, y), 3 * u <= -Pow23(x, y)
               PROVE  Raised(k + 1, u, x, y)
    OBVIOUS
  <2>1. k + 1 \in Nat /\ k < k + 1
    OBVIOUS
  <2>2. u \in Int /\ x \in Nat /\ y \in Nat
    BY <2>1, UnderFacts
  <2>3. PICK c \in {-1, 1}, p \in 0 .. x, q \in 0 .. y :
          (p # x \/ q # y) /\ Under(k, u - c * Pow23(p, q), p, q)
    BY <2>2, UnderFacts
  <2>4. PICK r, Q, P : r = u - c * Pow23(p, q) /\ Q = Pow23(p, q) /\ P = Pow23(x, y)
    OBVIOUS
  <2>5. /\ P \in Nat \ {0} /\ Q \in Nat \ {0} /\ p \in Nat /\ q \in Nat /\ p <= x /\ q <= y
        /\ \/ x > 0 /\ p = x - 1 /\ q = y /\ P = 2 * Q
           \/ y > 0 /\ p = x /\ q = y - 1 /\ P = 3 * Q
           \/ x > 1 /\ p = x - 2 /\ q = y /\ P = 4 * Q
           \/ P >= 6 * Q
    <3>1. (p # x \/ q # y) /\ Q = Pow23(p, q) /\ P = Pow23(x, y)
      BY <2>3, <2>4
    <3>2. p \in Nat /\ q \in Nat /\ p <= x /\ q <= y
      BY <2>2
    <3>3. QED
      BY <2>2, <3>1, <3>2, TermRatio
  <2>6. Under(k, r, p, q) /\ r \in Int /\ -Q < r /\ r < Q
    BY <2>3, <2>4, UnderSmall
  <2>7. c = -1 /\ u = r - Q /\ 3 * u <= -P /\ P < 6 * Q
    <3>1. 3 * u <= -P
      BY <2>4
    <3>2. r = u - c * Q
      BY <2>4
    <3>3. CASE c = 1
      <4>1. r = u - Q
        BY <2>2, <2>5, <3>2, <3>3
      <4>2. QED
        BY <2>2, <2>5, <2>6, <3>1, <4>1
    <3>4. CASE c = -1
      <4>1. r = u + Q
        BY <2>2, <2>5, <3>2, <3>4
      <4>2. u = r - Q
        BY <2>2, <2>5, <2>6, <4>1
      <4>3. QED
        BY <2>2, <2>5, <2>6, <3>1, <3>4, <4>2
    <3>5. QED
      BY <3>3, <3>4
  <2>8. CASE x > 0 /\ p = x - 1 /\ q = y /\ P = 2 * Q
    <3>1. u + P = r + 1 * Q
      BY <2>2, <2>5, <2>6, <2>7, <2>8
    <3>2. Under(k + 1, u + P, x, y)
      <4>1. 1 \in {-1, 1} /\ p <= x /\ q <= y /\ p # x
        BY <2>2, <2>5, <2>8
      <4>2. PICK z : z = u + P
        OBVIOUS
      <4>3. z = r + 1 * Pow23(p, q)
        BY <2>4, <3>1, <4>2
      <4>4. Under(k + 1, z, x, y)
        BY <2>2, <2>6, <4>1, <4>3, PutOnTop
      <4>5. QED
        BY <4>2, <4>4
    <3>3. QED
      BY <2>4, <3>2 DEF Raised, Shorter
  <2>9. CASE y > 0 /\ p = x /\ q = y - 1 /\ P = 3 * Q
    <3>1. u + Q = r
      BY <2>2, <2>5, <2>6, <2>7
    <3>2. Under(k, u + Pow23(x, y - 1), x, y - 1)
      BY <2>4, <2>6, <2>9, <3>1
    <3>3. QED
      BY <2>1, <2>9, <3>2 DEF Raised, Shorter
  <2>10. CASE x > 1 /\ p = x - 2 /\ q = y /\ P = 4 * Q
    <3>1. 3 * r <= -Pow23(p, q)
      BY <2>2, <2>4, <2>5, <2>6, <2>7, <2>10
    <3>2. Raised(k, r, p, q)
      BY <1>2, <2>6, <3>1
    <3>3. CASE Under(k, r + Q, p, q)
      <4>1. PICK h \in Nat : h = x - 1 /\ h = p + 1
        BY <2>2, <2>10
      <4>2. Pow23(h, y) = 2 * Q
        BY <2>4, <2>5, <2>10, <4>1, PowerSteps
      <4>3. Under(k, r + Q, h, y)
        <5>1. p <= h /\ q <= y
          BY <2>5, <4>1
        <5>2. QED
          BY <2>2, <3>3, <4>1, <5>1, UnderGrows
      <4>4. PICK z, v : z = u + P /\ v = r + Q
        OBVIOUS
      <4>5. z = v + 1 * Pow23(h, y)
        BY <2>2, <2>5, <2>6, <2>7, <2>10, <4>2, <4>4
      <4>6. Under(k, v, h, y) /\ 1 \in {-1, 1} /\ h <= x /\ y <= y /\ h # x
        BY <2>2, <4>1, <4>3, <4>4
      <4>7. Under(k + 1, z, x, y)
        BY <2>2, <4>5, <4>6, PutOnTop
      <4>8. QED
        BY <2>4, <4>4, <4>7 DEF Raised, Shorter
    <3>4. CASE ~Under(k, r + Q, p, q)
      <4>1. q > 0 /\ \E j \in Nat : j < k /\ Under(j, r + Pow23(p, q - 1), p, q - 1)
        BY <2>4, <3>2, <3>4 DEF Raised, Shorter
      <4>2. PICK j \in Nat : j < k /\ Under(j, r + Pow23(p, q - 1), p, q - 1)
        BY <4>1
      <4>3. PICK g, R : g \in Nat /\ g = y - 1 /\ R = Pow23(p, g)
        BY <2>2, <2>10, <4>1
      <4>4. Q = 3 * R /\ R \in Nat
        BY <2>4, <2>5, <2>10, <4>1, <4>3, PowerDown, PowerSteps
      <4>5. Pow23(x, g) = 4 * R
        <5>1. PICK h \in Nat : h = p + 1 /\ x = h + 1
          BY <2>2, <2>10
        <5>2. Pow23(h, g) = 2 * R /\ Pow23(x, g) = 2 * Pow23(h, g)
          BY <2>5, <4>3, <5>1, PowerSteps
        <5>3. QED
          BY <4>4, <5>2
      <4>6. u + Pow23(x, g) = r + R
        BY <2>2, <2>6, <2>7, <4>4, <4>5
      <4>7. Under(j, r + R, p, g)
        BY <2>10, <4>2, <4>3
      <4>8. Under(j, u + Pow23(x, g), x, g)
        <5>1. p <= x /\ g <= g
          BY <2>5, <4>3
        <5>2. Under(j, r + R, x, g)
          BY <2>2, <4>2, <4>3, <4>7, <5>1, UnderGrows
        <5>3. QED
          BY <4>6, <5>2
      <4>9. y > 0 /\ j < k + 1
        BY <2>10, <4>1, <4>2
      <4>10. QED
        BY <4>2, <4>3, <4>8, <4>9 DEF Raised, Shorter
    <3>5. QED
      BY <3>3, <3>4
  <2>11. QED
    BY <2>5, <2>7, <2>8, <2>9, <2>10
<1>3. Nat \subseteq T
  <2> HIDE DEF T
  <2>1. QED
    BY <1>1, <1>2, SetInduction
<1>4. QED
  BY <1>3

(* A chain of half its bound or more can be lowered by that half, with     *)
(* fewer terms.                                                            *)
LEMMA Lowering ==
  ASSUME NEW l \in Nat, NEW s, NEW d, NEW e, Under(l, s, d, e), 2 * s >= Pow23(d, e)
  PROVE  Lowered(l, s, d, e)
<1> DEFINE T == {k \in Nat : \A u, x, y :
                   Under(k, u, x, y) /\ 2 * u >= Pow23(x, y) => Lowered(k, u, x, y)}
<1>1. 0 \in T
  <2> SUFFICES ASSUME NEW u, NEW x, NEW y, Under(0, u, x, y), 2 * u >= Pow23(x, y)
               PROVE  FALSE
    OBVIOUS
  <2>1. u = 0 /\ x \in Nat /\ y \in Nat
    BY UnderFacts
  <2>2. Pow23(x, y) \in Nat \ {0}
    BY <2>1, PowerSteps
  <2>3. QED
    BY <2>1, <2>2
<1>2. ASSUME NEW k \in Nat, k \in T PROVE k + 1 \in T
  <2> SUFFICES ASSUME NEW u, NEW x, NEW y, Under(k + 1, u, x, y), 2 * u >= Pow23(x, y)
               PROVE  Lowered(k + 1, u, x, y)
    OBVIOUS
  <2>1. k + 1 \in Nat /\ k < k + 1
    OBVIOUS
  <2>2. u \in Int /\ x \in Nat /\ y \in Nat
    BY <2>1, UnderFacts
  <2>3. PICK c \in {-1, 1}, p \in 0 .. x, q \in 0 .. y :
          (p # x \/ q # y) /\ Under(k, u - c * Pow23(p, q), p, q)
    BY <2>2, UnderFacts
  <2>4. PICK r, Q, P : r = u - c * Pow23(p, q) /\ Q = Pow23(p, q) /\ P = Pow23(x, y)
    OBVIOUS
  <2>5. /\ P \in Nat \ {0} /\ Q \in Nat \ {0} /\ p \in Nat /\ q \in Nat /\ p <= x /\ q <= y
        /\ \/ x > 0 /\ p = x - 1 /\ q = y /\ P = 2 * Q
           \/ y > 0 /\ p = x /\ q = y - 1 /\ P = 3 * Q
           \/ x > 1 /\ p = x - 2 /\ q = y /\ P = 4 * Q
           \/ P >= 6 * Q
    <3>1. (p # x \/ q # y) /\ Q = Pow23(p, q) /\ P = Pow23(x, y)
      BY <2>3, <2>4
    <3>2. p \in Nat /\ q \in Nat /\ p <= x /\ q <= y
      BY <2>2
    <3>3. QED
      BY <2>2, <3>1, <3>2, TermRatio
  <2>6. Under(k, r, p, q) /\ r \in Int /\ -Q < r /\ r < Q
    BY <2>3, <2>4, UnderSmall
  <2>7. c = 1 /\ u = r + Q /\ 2 * u >= P /\ P < 4 * Q
    <3>1. 2 * u >= P
      BY <2>4
    <3>2. r = u - c * Q
      BY <2>4
    <3>3. CASE c = 1
      BY <2>2, <2>5, <2>6, <3>1, <3>2, <3>3
    <3>4. CASE c = -1
      <4>1. r = u + Q
        BY <2>2, <2>5, <3>2, <3>4
      <4>2. QED
        BY <2>2, <2>5, <2>6, <3>1, <4>1
    <3>5. QED
      BY <3>3, <3>4
  <2>8. CASE x > 0 /\ p = x - 1 /\ q = y /\ P = 2 * Q
    <3>1. u - Q = r
      BY <2>2, <2>5, <2>6, <2>7
    <3>2. Under(k, u - Pow23(x - 1, y), x - 1, y)
      BY <2>4, <2>6, <2>8, <3>1
    <3>3. QED
      BY <2>1, <2>8, <3>2 DEF Lowered, Shorter
  <2>9. CASE y > 0 /\ p = x /\ q = y - 1 /\ P = 3 * Q
    <3>1. 2 * r >= Pow23(p, q)
      BY <2>2, <2>4, <2>5, <2>6, <2>7, <2>9
    <3>2. Lowered(k, r, p, q)
      BY <1>2, <2>6, <3>1
    <3>3. p > 0 /\ \E j \in Nat : j < k /\ Under(j, r - Pow23(p - 1, q), p - 1, q)
      BY <3>2 DEF Lowered, Shorter
    <3>4. PICK j \in Nat : j < k /\ Under(j, r - Pow23(p - 1, q), p - 1, q)
      BY <3>3
    <3>5. PICK g, R : g \in Nat /\ g = x - 1 /\ R = Pow23(g, q)
      BY <2>2, <2>9, <3>3
    <3>6. Q = 2 * R /\ R \in Nat
      BY <2>4, <2>5, <2>9, <3>3, <3>5, PowerDown, PowerSteps
    <3>7. Pow23(g, y) = 3 * R
      <4>1. y = q + 1
        BY <2>2, <2>5, <2>9
      <4>2. QED
        BY <2>5, <3>5, <4>1, PowerSteps
    <3>8. u - Pow23(g, y) = r - R
      BY <2>2, <2>6, <2>7, <3>6, <3>7
    <3>9. Under(j, r - R, g, q)
      BY <2>9, <3>4, <3>5
    <3>10. Under(j, u - Pow23(g, y), g, y)
      <4>1. g <= g /\ q <= y
        BY <2>5, <3>5
      <4>2. Under(j, r - R, g, y)
        BY <2>2, <3>4, <3>5, <3>9, <4>1, UnderGrows
      <4>3. QED
        BY <3>8, <4>2
    <3>11. x > 0 /\ j < k + 1
      BY <2>9, <3>3, <3>4
    <3>12. QED
      BY <3>4, <3>5, <3>10, <3>11 DEF Lowered, Shorter
  <2>10. QED
    BY <2>5, <2>7, <2>8, <2>9
<1>3. Nat \subseteq T
  <2> HIDE DEF T
  <2>1. QED
    BY <1>1, <1>2, SetInduction
<1>4. QED
  BY <1>3

(* The chains below 2^d 3^e by their top term, which may be half or a      *)
(* third of it, or below.                                                  *)
LEMMA SplitTop ==
  ASSUME NEW l \in Nat, NEW v, NEW d, NEW e, Under(l, v, d, e), d + e > 0
  PROVE  \/ d > 0 /\ Under(l, v, d - 1, e)
         \/ e > 0 /\ Under(l, v, d, e - 1)
         \/ /\ d > 0 /\ l - 1 \in Nat
            /\ \/ Under(l - 1, v - Pow23(d - 1, e), d - 1, e)
               \/ Under(l - 1, v + Pow23(d - 1, e), d - 1, e)
         \/ /\ e > 0 /\ l - 1 \in Nat
            /\ \/ Under(l - 1, v - Pow23(d, e - 1), d, e - 1)
               \/ Under(l - 1, v + Pow23(d, e - 1), d, e - 1)
<1>1. v \in Int /\ d \in Nat /\ e \in Nat
  BY UnderFacts
<1>2. CASE l = 0
  <2>1. Under(0, v, d, e)
    BY <1>2
  <2>2. v = 0
    BY <1>1, <2>1, UnderFacts
  <2>3. \A x \in Nat, y \in Nat : Under(0, v, x, y)
    BY <2>2, UnderFacts
  <2>4. CASE d > 0
    <3>1. d - 1 \in Nat
      BY <1>1, <2>4
    <3>2. QED
      BY <1>1, <1>2, <2>3, <2>4, <3>1
  <2>5. CASE ~(d > 0)
    <3>1. e > 0 /\ e - 1 \in Nat
      BY <1>1, <2>5
    <3>2. QED
      BY <1>1, <1>2, <2>3, <3>1
  <2>6. QED
    BY <2>4, <2>5
<1>3. CASE l # 0
  <2>1. PICK c \in {-1, 1}, x \in 0 .. d, y \in 0 .. e :
          (x # d \/ y # e) /\ Under(l - 1, v - c * Pow23(x, y), x, y)
    BY <1>3, TopTerm
  <2>2. PICK k, m, u : k \in Nat /\ k = l - 1 /\ k + 1 = l /\ m = Pow23(x, y) /\ u = v - c * m
    BY <1>3
  <2>3. Under(k, u, x, y) /\ x \in Nat /\ y \in Nat /\ x <= d /\ y <= e
    BY <1>1, <2>1, <2>2
  <2>4. m \in Nat
    BY <2>2, <2>3, PowerSteps
  <2>5. (u = v - m \/ u = v + m) /\ v = u + c * m
    <3>1. CASE c = 1
      BY <1>1, <2>2, <2>4, <3>1
    <3>2. CASE c = -1
      BY <1>1, <2>2, <2>4, <3>2
    <3>3. QED
      BY <3>1, <3>2
  <2>6. ASSUME NEW p \in Nat, NEW q \in Nat, x <= p, y <= q, x # p \/ y # q
        PROVE  Under(l, v, p, q)
    <3>1. Under(k + 1, v, p, q)
      BY <2>2, <2>3, <2>5, <2>6, PutOnTop
    <3>2. QED
      BY <2>2, <3>1
  <2>7. CASE x = d - 1 /\ y = e
    <3>1. d > 0
      BY <1>1, <2>3, <2>7
    <3>2. QED
      BY <2>2, <2>3, <2>5, <2>7, <3>1
  <2>8. CASE x = d /\ y = e - 1
    <3>1. e > 0
      BY <1>1, <2>3, <2>8
    <3>2. QED
      BY <2>2, <2>3, <2>5, <2>8, <3>1
  <2>9. CASE x < d /\ ~(x = d - 1 /\ y = e)
    <3>1. d > 0 /\ d - 1 \in Nat /\ x <= d - 1 /\ (x # d - 1 \/ y # e)
      BY <1>1, <2>3, <2>9
    <3>2. Under(l, v, d - 1, e)
      BY <1>1, <2>3, <2>6, <3>1
    <3>3. QED
      BY <3>1, <3>2
  <2>10. CASE x = d /\ y # e - 1
    <3>1. e > 0 /\ e - 1 \in Nat /\ y <= e - 1 /\ y # e - 1
      BY <1>1, <2>1, <2>3, <2>10
    <3>2. Under(l, v, d, e - 1)
      BY <1>1, <2>3, <2>6, <2>10, <3>1
    <3>3. QED
      BY <3>1, <3>2
  <2>11. QED
    BY <1>1, <2>3, <2>7, <2>8, <2>9, <2>10
<1>4. QED
  BY <1>2, <1>3

(* What is left of a chain of v >= 0 below 2^d 3^e when the exponent of    *)
(* two or of three is one less, by where v lies under the bound: up to a   *)
(* third, up to a half, or above.                                          *)
LEMMA Options ==
  ASSUME NEW l \in Nat, NEW v, NEW d, NEW e, Under(l, v, d, e), d + e > 0, v >= 0
  PROVE  /\ 3 * v <= Pow23(d, e) =>
              \/ d > 0 /\ (Under(l, v, d - 1, e) \/ Shorter(l, v, d - 1, e))
              \/ e > 0 /\ (Under(l, v, d, e - 1) \/ Shorter(l, v - Pow23(d, e - 1), d, e - 1))
         /\ Pow23(d, e) <= 3 * v /\ 2 * v <= Pow23(d, e) =>
              \/ d > 0 /\ (Under(l, v, d - 1, e) \/ Shorter(l, v - Pow23(d - 1, e), d - 1, e))
              \/ e > 0 /\ Shorter(l, v - Pow23(d, e - 1), d, e - 1)
         /\ 2 * v >= Pow23(d, e) => Lowered(l, v, d, e)
<1>1. v \in Int /\ d \in Nat /\ e \in Nat
  BY UnderFacts
<1>2. PICK h, g, p, q, m : /\ h = Pow23(d - 1, e) /\ g = Pow23(d, e - 1) /\ m = Pow23(d, e)
                           /\ p = d - 1 /\ q = e - 1
  OBVIOUS
<1>3. /\ m \in Nat \ {0}
      /\ d > 0 => p \in Nat /\ h = Pow23(p, e) /\ h \in Nat \ {0} /\ m = 2 * h
      /\ e > 0 => q \in Nat /\ g = Pow23(d, q) /\ g \in Nat \ {0} /\ m = 3 * g
  BY <1>1, <1>2, PowerDown, PowerSteps
<1>4. ASSUME NEW k \in Nat, k + 1 = l, NEW u, NEW x, NEW y, Under(k, u, x, y)
      PROVE  Shorter(l, u, x, y)
  <2>1. k < l
    BY <1>4
  <2>2. QED
    BY <1>4, <2>1 DEF Shorter
<1>5. CASE d > 0 /\ Under(l, v, p, e)
  <2>1. v < h
    BY <1>2, <1>5, UnderSmall
  <2>2. 2 * v < m
    BY <1>1, <1>3, <1>5, <2>1
  <2>3. QED
    BY <1>1, <1>2, <1>3, <1>5, <2>2
<1>6. CASE e > 0 /\ Under(l, v, d, q)
  <2>1. v < g
    BY <1>2, <1>6, UnderSmall
  <2>2. 3 * v < m /\ 2 * v < m
    BY <1>1, <1>3, <1>6, <2>1
  <2>3. QED
    BY <1>1, <1>2, <1>3, <1>6, <2>2
<1>7. ASSUME d > 0, NEW k \in Nat, k + 1 = l, Under(k, v + h, p, e) PROVE FALSE
  <2>1. v + h < h
    BY <1>2, <1>7, UnderSmall
  <2>2. QED
    BY <1>1, <1>3, <1>7, <2>1
<1>8. ASSUME e > 0, NEW k \in Nat, k + 1 = l, Under(k, v + g, d, q) PROVE FALSE
  <2>1. v + g < g
    BY <1>2, <1>8, UnderSmall
  <2>2. QED
    BY <1>1, <1>3, <1>8, <2>1
<1>9. ASSUME d > 0, NEW k \in Nat, k + 1 = l, Under(k, v - h, p, e), 3 * v <= m
      PROVE  \/ Shorter(l, v, p, e)
             \/ e > 0 /\ Shorter(l, v - g, d, q)
  <2>1. 3 * (v - h) <= -Pow23(p, e)
    BY <1>1, <1>3, <1>9
  <2>2. Raised(k, v - h, p, e)
    BY <1>9, <2>1, Raising
  <2>3. (v - h) + h = v
    BY <1>1, <1>3, <1>9
  <2>4. CASE Under(k, v, p, e)
    BY <1>4, <1>9, <2>4
  <2>5. CASE e > 0 /\ Shorter(k, (v - h) + Pow23(p, e - 1), p, e - 1)
    <3>1. PICK j, R : j \in Nat /\ j < k /\ R = Pow23(p, q) /\ Under(j, (v - h) + R, p, q)
      BY <1>2, <2>5 DEF Shorter
    <3>2. h = 3 * R /\ g = 2 * R /\ R \in Nat
      <4>1. p \in Nat /\ q \in Nat /\ p + 1 = d /\ q + 1 = e
        BY <1>1, <1>2, <1>3, <1>9, <2>5
      <4>2. Pow23(p, e) = 3 * R /\ Pow23(d, q) = 2 * R /\ R \in Nat
        BY <3>1, <4>1, PowerSteps
      <4>3. QED
        BY <1>3, <1>9, <2>5, <4>2
    <3>3. (v - h) + R = v - g
      BY <1>1, <3>2
    <3>4. Under(j, v - g, d, q)
      <4>1. p <= d /\ q <= q /\ q \in Nat
        BY <1>1, <1>2, <1>3, <2>5
      <4>2. Under(j, v - g, p, q)
        BY <3>1, <3>3
      <4>3. QED
        BY <1>1, <3>1, <4>1, <4>2, UnderGrows
    <3>5. j < l
      BY <1>9, <3>1
    <3>6. QED
      BY <2>5, <3>1, <3>4, <3>5 DEF Shorter
  <2>6. QED
    BY <1>2, <1>3, <1>9, <2>2, <2>3, <2>4, <2>5 DEF Raised
<1>10. ASSUME 2 * v >= m PROVE Lowered(l, v, d, e)
  <2>1. 2 * v >= Pow23(d, e)
    BY <1>2, <1>10
  <2>2. QED
    BY <2>1, Lowering
<1>11. CASE d > 0 /\ l - 1 \in Nat /\ (Under(l - 1, v - h, p, e) \/ Under(l - 1, v + h, p, e))
  <2>1. PICK k \in Nat : k = l - 1 /\ k + 1 = l
    BY <1>11
  <2>2. Under(k, v - h, p, e)
    BY <1>7, <1>11, <2>1
  <2>3. Shorter(l, v - h, p, e)
    BY <1>4, <2>1, <2>2
  <2>4. 3 * v <= m => Shorter(l, v, p, e) \/ (e > 0 /\ Shorter(l, v - g, d, q))
    BY <1>9, <1>11, <2>1, <2>2
  <2>5. QED
    BY <1>2, <1>10, <1>11, <2>3, <2>4
<1>12. CASE e > 0 /\ l - 1 \in Nat /\ (Under(l - 1, v - g, d, q) \/ Under(l - 1, v + g, d, q))
  <2>1. PICK k \in Nat : k = l - 1 /\ k + 1 = l
    BY <1>12
  <2>2. Under(k, v - g, d, q)
    BY <1>8, <1>12, <2>1
  <2>3. Shorter(l, v - g, d, q)
    BY <1>4, <2>1, <2>2
  <2>4. QED
    BY <1>2, <1>10, <1>12, <2>3
<1>13. QED
  <2>1. \/ d > 0 /\ Under(l, v, p, e)
        \/ e > 0 /\ Under(l, v, d, q)
        \/ d > 0 /\ l - 1 \in Nat /\ (Under(l - 1, v - h, p, e) \/ Under(l - 1, v + h, p, e))
        \/ e > 0 /\ l - 1 \in Nat /\ (Under(l - 1, v - g, d, q) \/ Under(l - 1, v + g, d, q))
    BY <1>2, SplitTop
  <2>2. QED
    BY <1>5, <1>6, <1>11, <1>12, <2>1

-----------------------------------------------------------------------------
(* The same of a chain of v <= 0, with all signs changed.                  *)
LEMMA NegativeOptions ==
  ASSUME NEW l \in Nat, NEW v, NEW d, NEW e, Under(l, v, d, e), d + e > 0, v <= 0
  PROVE  /\ -3 * v <= Pow23(d, e) =>
              \/ d > 0 /\ (Under(l, v, d - 1, e) \/ Shorter(l, v, d - 1, e))
              \/ e > 0 /\ (Under(l, v, d, e - 1) \/ Shorter(l, v + Pow23(d, e - 1), d, e - 1))
         /\ Pow23(d, e) <= -3 * v /\ -2 * v <= Pow23(d, e) =>
              \/ d > 0 /\ (Under(l, v, d - 1, e) \/ Shorter(l, v + Pow23(d - 1, e), d - 1, e))
              \/ e > 0 /\ Shorter(l, v + Pow23(d, e - 1), d, e - 1)
         /\ -2 * v >= Pow23(d, e) => d > 0 /\ Shorter(l, v + Pow23(d - 1, e), d - 1, e)
<1>1. v \in Int /\ d \in Nat /\ e \in Nat
  BY UnderFacts
<1>2. PICK h, g, m, s : /\ h = Pow23(d - 1, e) /\ g = Pow23(d, e - 1) /\ m = Pow23(d, e) /\ s = -v
  OBVIOUS
<1>3. /\ m \in Nat \ {0}
      /\ d > 0 => h \in Nat
      /\ e > 0 => g \in Nat
  BY <1>1, <1>2, PowerDown, PowerSteps
<1>4. Under(l, s, d, e) /\ s >= 0 /\ s \in Int
  BY <1>1, <1>2, UnderNegated
<1>5. /\ 3 * s <= m =>
           \/ d > 0 /\ (Under(l, s, d - 1, e) \/ Shorter(l, s, d - 1, e))
           \/ e > 0 /\ (Under(l, s, d, e - 1) \/ Shorter(l, s - g, d, e - 1))
      /\ m <= 3 * s /\ 2 * s <= m =>
           \/ d > 0 /\ (Under(l, s, d - 1, e) \/ Shorter(l, s - h, d - 1, e))
           \/ e > 0 /\ Shorter(l, s - g, d, e - 1)
      /\ 2 * s >= m => d > 0 /\ Shorter(l, s - h, d - 1, e)
  BY <1>2, <1>4, Options DEF Lowered
<1>6. ASSUME NEW u, NEW x, NEW y
      PROVE  /\ Under(l, u, x, y) => Under(l, -u, x, y)
             /\ Shorter(l, u, x, y) => Shorter(l, -u, x, y)
  BY UnderNegated DEF Shorter
<1>7. -s = v /\ (d > 0 => -(s - h) = v + h) /\ (e > 0 => -(s - g) = v + g)
      /\ 3 * s = -3 * v /\ 2 * s = -2 * v
  BY <1>1, <1>2, <1>3
<1>8. /\ Under(l, s, d - 1, e) => Under(l, v, d - 1, e)
      /\ Shorter(l, s, d - 1, e) => Shorter(l, v, d - 1, e)
      /\ Under(l, s, d, e - 1) => Under(l, v, d, e - 1)
      /\ d > 0 /\ Shorter(l, s - h, d - 1, e) => Shorter(l, v + h, d - 1, e)
      /\ e > 0 /\ Shorter(l, s - g, d, e - 1) => Shorter(l, v + g, d, e - 1)
  BY <1>6, <1>7
<1>9. QED
  BY <1>2, <1>5, <1>7, <1>8
=============================================================================
