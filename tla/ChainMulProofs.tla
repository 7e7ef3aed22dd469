--------------------------- MODULE ChainMulProofs ---------------------------
(***************************************************************************)
(* Proofs about ChainMul for every order, store size and set of chains     *)
(* that satisfy the assumptions of the modules: the inductive invariant,   *)
(* the properties the runs check, and the refinement of ScalarMul.         *)
(***************************************************************************)
EXTENDS ChainMul, ArithmeticProofs

(* Doubling or tripling the accumulator while its exponent comes down by   *)
(* one leaves their product unchanged.                                     *)
LEMMA ScaleDown ==
  ASSUME NEW k \in Int, NEW d \in Nat, NEW t \in Nat
  PROVE  /\ d > 0 => (2 * k) * Pow23(d - 1, t) = k * Pow23(d, t)
         /\ t > 0 => (3 * k) * Pow23(d, t - 1) = k * Pow23(d, t)
<1>1. Pow2[d] \in Nat /\ Pow3[t] \in Nat
  BY Pow2Facts, Pow3Facts
<1>2. ASSUME d > 0 PROVE (2 * k) * Pow23(d - 1, t) = k * Pow23(d, t)
  <2>1. d - 1 \in Nat /\ (d - 1) + 1 = d
    BY <1>2
  <2>2. Pow2[d - 1] \in Nat /\ Pow2[d] = 2 * Pow2[d - 1]
    BY <2>1, Pow2Facts
  <2>3. \A p, q \in Nat : (2 * k) * (p * q) = k * ((2 * p) * q)
    OBVIOUS
  <2>4. QED
    BY <1>1, <2>2, <2>3 DEF Pow23
<1>3. ASSUME t > 0 PROVE (3 * k) * Pow23(d, t - 1) = k * Pow23(d, t)
  <2>1. t - 1 \in Nat /\ (t - 1) + 1 = t
    BY <1>3
  <2>2. Pow3[t - 1] \in Nat /\ Pow3[t] = 3 * Pow3[t - 1]
    BY <2>1, Pow3Facts
  <2>3. \A p, q \in Nat : (3 * k) * (p * q) = k * (p * (3 * q))
    OBVIOUS
  <2>4. QED
    BY <1>1, <2>2, <2>3 DEF Pow23
<1>4. QED
  BY <1>2, <1>3

(* A multiple of a multiple of the order is a multiple of the order.       *)
LEMMA MultipleOfOrder ==
  ASSUME NEW k \in Int, NEW p \in Int, k % Order = 0
  PROVE  (k * p) % Order = 0
<1> USE OrderAssumption
<1> DEFINE q == k \div Order
           m == k * p
           x == q * p
           y == m \div Order
<1>1. q \in Int /\ k = Order * q
  <2>1. \A o \in Nat, u \in Int : o > 0 => u \div o \in Int /\ u = o * (u \div o) + (u % o)
    OBVIOUS
  <2>2. k = Order * q + 0
    BY <2>1
  <2>3. Order * q \in Int
    BY <2>1
  <2>4. QED
    BY <2>1, <2>2, <2>3
<1> HIDE DEF q
<1>2. x \in Int /\ m = Order * x
  <2>1. \A o, u, v \in Int : (o * u) * v = o * (u * v)
    OBVIOUS
  <2>2. QED
    BY <1>1, <2>1
<1>3. m \in Int
  OBVIOUS
<1> HIDE DEF m, x
<1>4. y \in Int /\ m = Order * y + (m % Order) /\ m % Order \in 0 .. Order - 1
  <2>1. \A o \in Nat, u \in Int : o > 0 => /\ u \div o \in Int
                                          /\ u = o * (u \div o) + (u % o)
                                          /\ u % o \in 0 .. o - 1
    OBVIOUS
  <2>2. QED
    BY <1>3, <2>1
<1> HIDE DEF y
<1>5. x - y \in Int /\ m % Order = Order * (x - y)
  BY <1>2, <1>3, <1>4
<1>6. \A o, z \in Int : o > 0 /\ z >= 1 => o * z >= o
  OBVIOUS
<1>7. \A o, z \in Int : o > 0 /\ z <= -1 => o * z < 0
  OBVIOUS
<1>8. x - y = 0
  <2>1. ~ (x - y >= 1)
    BY <1>4, <1>5, <1>6
  <2>2. ~ (x - y <= -1)
    BY <1>4, <1>5, <1>7
  <2>3. QED
    BY <1>5, <2>1, <2>2
<1>9. m % Order = 0
  BY <1>5, <1>8
<1>10. QED
  BY <1>9 DEF m

(* The outcome of the general formulas is a point in Jacobian form.        *)
LEMMA JacobianType ==
  ASSUME NEW k \in Int
  PROVE  /\ Jacobian(k) \in Point
         /\ Jacobian(k).k = k
         /\ Jacobian(k).Z \in {"zero", "other"}
         /\ ~ Jacobian(k).Z_is_one
         /\ Jacobian(k).Z = "zero" => k % Order = 0
  BY DEF Jacobian, Point, ZKinds

(* The state a call starts from: r is a, in Jacobian form.                 *)
LEMMA StartIsJacobian == Add(Dbl(a), invert_a) = Jacobian(1)
<1>1. Dbl(a) = Jacobian(2)
  BY DEF a, Affine, Dbl, AtInfinity, Usable, Stale
<1>2. 2 % Order = 2 /\ 2 # 0
  BY OrderAssumption
<1>3. Jacobian(2) = [k |-> 2, Z |-> "other", Z_is_one |-> FALSE]
  BY <1>2 DEF Jacobian
<1>4. invert_a = [k |-> -1, Z |-> "one", Z_is_one |-> TRUE]
  <2>1. a = [k |-> 1, Z |-> "one", Z_is_one |-> TRUE]
    BY DEF a, Affine
  <2>2. invert_a = [a EXCEPT !.k = -(a.k)]
    BY DEF invert_a, Invert
  <2>3. QED
    BY <2>1, <2>2
<1>5. 2 + (-1) = 1
  OBVIOUS
<1>6. QED
  BY <1>1, <1>3, <1>4, <1>5 DEF Add, AtInfinity, Usable, Stale

-----------------------------------------------------------------------------
(* What the parts of the invariant say together while a call is running.   *)
LEMMA RunningFacts ==
  ASSUME IndInv, pc # "idle"
  PROVE  /\ slot \in Slot /\ len \in 1 .. MAX_2 /\ i \in 1 .. len
         /\ now_dbl \in Nat /\ now_tpl \in Nat
         /\ TargetDbl \in Nat /\ TargetTpl \in Nat
         /\ now_dbl >= TargetDbl /\ now_tpl >= TargetTpl
         /\ r \in Point /\ r.k \in Int /\ ~ r.Z_is_one /\ r.Z \in {"zero", "other"}
         /\ r.Z = "zero" => r.k % Order = 0
         /\ r.k * Pow23(now_dbl, now_tpl) = Value(slot, i)
<1>1. /\ slot \in Slot /\ len \in 1 .. MAX_2 /\ i \in 1 .. len
      /\ now_dbl \in Nat /\ now_tpl \in Nat /\ r \in Point
      /\ now_dbl >= TargetDbl /\ now_tpl >= TargetTpl
      /\ r.k * Pow23(now_dbl, now_tpl) = Value(slot, i)
  BY MaxAssumption DEF IndInv, TypeOK, WorksOnSoundChain, SoundChain, HornerInv, Aligned
<1>2. i < len => slot[i] \in Entry
  BY <1>1, MaxAssumption DEF Slot
<1>3. TargetDbl \in Nat /\ TargetTpl \in Nat
  BY <1>2 DEF TargetDbl, TargetTpl, Entry
<1>4. r.k \in Int /\ ~ r.Z_is_one /\ r.Z \in {"zero", "other"}
  BY <1>1 DEF IndInv, JacobianForm, Point
<1>5. r.Z = "zero" => r.k % Order = 0
  BY DEF IndInv, JacobianForm
<1>6. QED
  BY <1>1, <1>3, <1>4, <1>5

(* The first state.                                                        *)
LEMMA InitInv == Init => IndInv
<1> SUFFICES ASSUME Init PROVE IndInv
  OBVIOUS
<1>1. EmptySlot \in Slot
  BY DEF EmptySlot, Slot, Entry, ZeroEntry
<1>2. NewPoint \in Point
  BY DEF NewPoint, Point, ZKinds
<1>3. TypeOK
  BY <1>1, <1>2, MaxAssumption DEF Init, TypeOK, NoOps
<1>4. 0 % Order = 0
  BY OrderAssumption
<1>5. JacobianForm
  BY <1>4 DEF Init, JacobianForm, NewPoint
<1>6. pc = "idle"
  BY DEF Init
<1>7. QED
  BY <1>3, <1>5, <1>6 DEF IndInv, WorksOnSoundChain, HornerInv, Aligned, Progress, ExponentsDone

(* A call starts from the first entry: its value is r scaled by its        *)
(* exponents, because the leading sign is +1.                              *)
LEMMA SetupInv ==
  ASSUME IndInv, NEW job \in Jobs, Setup(job)
  PROVE  IndInv'
<1> DEFINE c == job[1]
           l == job[2]
<1> USE MaxAssumption
<1>1. c \in Slot /\ SoundChain(c, l) /\ Value(c, l) \in Scalars
  BY JobsAssumption
<1>2. /\ pc' = "loop" /\ slot' = c /\ len' = l /\ i' = 1
      /\ now_dbl' = c[0].dbl /\ now_tpl' = c[0].tpl
      /\ r' = Jacobian(1) /\ ops' = NoOps
  BY StartIsJacobian DEF Setup, SetupWith
<1> HIDE DEF c, l
<1>3. l \in 1 .. MAX_2 /\ IsChain(c, l) /\ c[0].sign = 1
  BY <1>1 DEF SoundChain
<1>4. c[0] \in Entry /\ c[0].dbl \in Nat /\ c[0].tpl \in Nat
  BY <1>1 DEF Slot, Entry
<1>5. TypeOK'
  BY <1>1, <1>2, <1>3, <1>4, JacobianType DEF TypeOK, NoOps
<1>6. Value(c, 1) = Pow23(c[0].dbl, c[0].tpl)
  <2>1. Value(c, 0 + 1) = 0 + TermValue(c[0])
    <3>1. c \in [0 .. MAX_2 - 1 -> Entry] /\ MAX_2 \in Nat /\ 0 \in 0 .. MAX_2 - 1
      BY <1>1, MaxAssumption DEF Slot
    <3>2. /\ RunningSums(c, MAX_2)[0] = 0
          /\ RunningSums(c, MAX_2)[0 + 1] = RunningSums(c, MAX_2)[0] + TermValue(c[0])
      BY <3>1, RunningSumsFacts
    <3>3. TermValue(c[0]) \in Int
      BY <1>4, TermValueType
    <3>4. QED
      BY <3>2, <3>3 DEF Sums, Value
  <2>2. Pow23(c[0].dbl, c[0].tpl) \in Nat
    BY <1>4, Pow2Facts, Pow3Facts DEF Pow23
  <2>3. TermValue(c[0]) = 1 * Pow23(c[0].dbl, c[0].tpl)
    BY <1>3 DEF TermValue
  <2>4. QED
    BY <2>1, <2>2, <2>3
<1>7. HornerInv'
  <2>1. Pow23(c[0].dbl, c[0].tpl) \in Nat
    BY <1>4, Pow2Facts, Pow3Facts DEF Pow23
  <2>2. Jacobian(1).k = 1
    BY JacobianType
  <2>3. r'.k * Pow23(now_dbl', now_tpl') = Value(slot', i')
    BY <1>2, <1>6, <2>1, <2>2
  <2>4. i' \in 1 .. len'
    BY <1>2, <1>3
  <2>5. QED
    BY <2>3, <2>4 DEF HornerInv
<1>8. Aligned'
  <2>1. 1 < l => c[1] \in Entry /\ c[1].dbl <= c[0].dbl /\ c[1].tpl <= c[0].tpl
    <3>1. ASSUME 1 < l PROVE 1 \in 1 .. l - 1 /\ 1 \in 0 .. MAX_2 - 1 /\ 1 - 1 = 0
      BY <1>3, <3>1
    <3>2. QED
      BY <1>1, <1>3, <3>1 DEF IsChain, Slot
  <2>2. QED
    BY <1>2, <1>4, <2>1 DEF Aligned, TargetDbl, TargetTpl, Entry
<1>9. WorksOnSoundChain'
  BY <1>1, <1>2 DEF WorksOnSoundChain, SoundChain
<1>10. Progress'
  BY <1>2, <1>4 DEF Progress, NoOps
<1>11. JacobianForm'
  BY <1>2, JacobianType DEF JacobianForm
<1>12. ExponentsDone'
  BY <1>2 DEF ExponentsDone
<1>13. QED
  BY <1>5, <1>7, <1>8, <1>9, <1>10, <1>11, <1>12 DEF IndInv

(* The outcome of a doubling or a tripling of r, in Jacobian form again.   *)
LEMMA DblTplInPlace ==
  ASSUME r \in Point, ~ r.Z_is_one, r.Z \in {"zero", "other"},
         r.Z = "zero" => r.k % Order = 0
  PROVE  /\ Dbl(r) \in Point /\ Tpl(r, r) \in Point
         /\ Dbl(r).k = 2 * r.k /\ Tpl(r, r).k = 3 * r.k
         /\ \A q \in {Dbl(r), Tpl(r, r)} : /\ q.Z \in {"zero", "other"}
                                           /\ ~ q.Z_is_one
                                           /\ q.Z = "zero" => q.k % Order = 0
<1>1. r.k \in Int /\ 2 * r.k \in Int /\ 3 * r.k \in Int /\ r.Z_is_one = FALSE
  BY DEF Point
<1>2. CASE r.Z = "zero"
  <2>1. /\ Dbl(r) = [k |-> 2 * r.k, Z |-> "zero", Z_is_one |-> FALSE]
        /\ Tpl(r, r) = [k |-> 3 * r.k, Z |-> "zero", Z_is_one |-> FALSE]
    BY <1>2 DEF Dbl, Tpl, AtInfinity
  <2>2. (2 * r.k) % Order = 0 /\ (3 * r.k) % Order = 0
    <3>1. (r.k * 2) % Order = 0 /\ (r.k * 3) % Order = 0
      BY <1>1, <1>2, MultipleOfOrder
    <3>2. r.k * 2 = 2 * r.k /\ r.k * 3 = 3 * r.k
      BY <1>1
    <3>3. QED
      BY <3>1, <3>2
  <2>3. QED
    BY <1>1, <2>1, <2>2 DEF Point, ZKinds
<1>3. CASE r.Z = "other"
  <2>1. Dbl(r) = Jacobian(2 * r.k)
    BY <1>1, <1>3 DEF Dbl, AtInfinity, Usable, Stale
  <2>2. Tpl(r, r) = Jacobian(3 * r.k)
    <3>1. Tpl(r, r) = [Jacobian(3 * r.k) EXCEPT !.Z_is_one = r.Z_is_one]
      BY <1>3 DEF Tpl, AtInfinity
    <3>2. QED
      BY <1>1, <3>1 DEF Jacobian
  <2>3. QED
    BY <1>1, <2>1, <2>2, JacobianType
<1>4. QED
  BY <1>2, <1>3

(* A doubling takes one from both sides of the exponents' balance.         *)
LEMMA DoubleInv ==
  ASSUME IndInv, Double
  PROVE  IndInv'
<1>1. pc = "loop" /\ now_dbl > TargetDbl
  BY DEF Double
<1>2. /\ slot' = slot /\ len' = len /\ i' = i /\ now_tpl' = now_tpl /\ pc' = pc
      /\ now_dbl' = now_dbl - 1 /\ r' = Dbl(r) /\ ops' = [ops EXCEPT !.dbl = @ + 1]
  BY DEF Double
<1>3. now_dbl \in Nat /\ now_dbl > 0 /\ now_dbl - 1 >= TargetDbl
  BY <1>1, RunningFacts
<1>4. /\ r' \in Point /\ r'.k = 2 * r.k
      /\ r'.Z \in {"zero", "other"} /\ ~ r'.Z_is_one
      /\ r'.Z = "zero" => r'.k % Order = 0
  BY <1>1, <1>2, RunningFacts, DblTplInPlace
<1>5. TypeOK'
  BY <1>2, <1>3, <1>4 DEF IndInv, TypeOK
<1>6. HornerInv'
  <2>1. (2 * r.k) * Pow23(now_dbl - 1, now_tpl) = r.k * Pow23(now_dbl, now_tpl)
    BY <1>1, <1>3, RunningFacts, ScaleDown
  <2>2. r'.k * Pow23(now_dbl', now_tpl') = Value(slot', i')
    BY <1>1, <1>2, <1>4, <2>1, RunningFacts
  <2>3. QED
    BY <1>1, <1>2, <2>2, RunningFacts DEF HornerInv
<1>7. Aligned'
  BY <1>1, <1>2, <1>3, RunningFacts DEF Aligned, TargetDbl, TargetTpl
<1>8. Progress'
  BY <1>1, <1>2, <1>3 DEF IndInv, TypeOK, Progress
<1>9. WorksOnSoundChain' /\ ExponentsDone'
  BY <1>1, <1>2 DEF IndInv, WorksOnSoundChain, SoundChain, ExponentsDone
<1>10. JacobianForm'
  BY <1>4 DEF JacobianForm
<1>11. QED
  BY <1>5, <1>6, <1>7, <1>8, <1>9, <1>10 DEF IndInv

(* So does a tripling.                                                     *)
LEMMA TripleInv ==
  ASSUME IndInv, Triple
  PROVE  IndInv'
<1>1. pc = "loop" /\ now_tpl > TargetTpl
  BY DEF Triple, TripleBy
<1>2. /\ slot' = slot /\ len' = len /\ i' = i /\ now_dbl' = now_dbl /\ pc' = pc
      /\ now_tpl' = now_tpl - 1 /\ r' = Tpl(r, r) /\ ops' = [ops EXCEPT !.tpl = @ + 1]
  BY DEF Triple, TripleBy
<1>3. now_tpl \in Nat /\ now_tpl > 0 /\ now_tpl - 1 >= TargetTpl
  BY <1>1, RunningFacts
<1>4. /\ r' \in Point /\ r'.k = 3 * r.k
      /\ r'.Z \in {"zero", "other"} /\ ~ r'.Z_is_one
      /\ r'.Z = "zero" => r'.k % Order = 0
  BY <1>1, <1>2, RunningFacts, DblTplInPlace
<1>5. TypeOK'
  BY <1>2, <1>3, <1>4 DEF IndInv, TypeOK
<1>6. HornerInv'
  <2>1. (3 * r.k) * Pow23(now_dbl, now_tpl - 1) = r.k * Pow23(now_dbl, now_tpl)
    BY <1>1, <1>3, RunningFacts, ScaleDown
  <2>2. r'.k * Pow23(now_dbl', now_tpl') = Value(slot', i')
    BY <1>1, <1>2, <1>4, <2>1, RunningFacts
  <2>3. QED
    BY <1>1, <1>2, <2>2, RunningFacts DEF HornerInv
<1>7. Aligned'
  BY <1>1, <1>2, <1>3, RunningFacts DEF Aligned, TargetDbl, TargetTpl
<1>8. Progress'
  BY <1>1, <1>2, <1>3 DEF IndInv, TypeOK, Progress
<1>9. WorksOnSoundChain' /\ ExponentsDone'
  BY <1>1, <1>2 DEF IndInv, WorksOnSoundChain, SoundChain, ExponentsDone
<1>10. JacobianForm'
  BY <1>4 DEF JacobianForm
<1>11. QED
  BY <1>5, <1>6, <1>7, <1>8, <1>9, <1>10 DEF IndInv

(* An addition meets its term with equal exponents, at a point that is     *)
(* not infinity: the prefix consumed so far would be a multiple of Order.  *)
LEMMA AddTermInv ==
  ASSUME IndInv, AddTerm
  PROVE  IndInv'
<1> USE MaxAssumption
<1> DEFINE e == slot[i]
           point == IF e.sign = -1 THEN invert_a ELSE a
<1>1. pc = "loop" /\ i < len /\ now_dbl <= TargetDbl /\ now_tpl <= TargetTpl
  BY DEF AddTerm, AddTermWith
<1>2. /\ slot' = slot /\ len' = len /\ pc' = pc /\ i' = i + 1
      /\ now_dbl' = now_dbl /\ now_tpl' = now_tpl
      /\ r' = Add(r, point) /\ ops' = [ops EXCEPT !.add = @ + 1]
  BY DEF AddTerm, AddTermWith
<1>3. /\ slot \in Slot /\ len \in 1 .. MAX_2 /\ i \in 1 .. len - 1 /\ i \in 0 .. MAX_2 - 1
      /\ SoundChain(slot, len) /\ IsChain(slot, len)
  BY <1>1, RunningFacts DEF IndInv, WorksOnSoundChain, SoundChain
<1>4. e \in Entry /\ e.sign \in {-1, 1} /\ e.dbl = now_dbl /\ e.tpl = now_tpl
  <2>1. e \in Entry
    BY <1>3 DEF Slot
  <2>2. i \in 0 .. len - 1
    BY <1>3
  <2>3. e.sign \in {-1, 1}
    BY <1>3, <2>2 DEF IsChain
  <2>4. TargetDbl = e.dbl /\ TargetTpl = e.tpl
    BY <1>1 DEF TargetDbl, TargetTpl
  <2>5. QED
    BY <1>1, <2>1, <2>3, <2>4, RunningFacts
<1>5. r.Z = "other" /\ r.k \in Int /\ ~ r.Z_is_one
  <2>1. Value(slot, i) % Order # 0
    BY <1>3 DEF SoundChain
  <2>2. Pow23(now_dbl, now_tpl) \in Int
    BY <1>1, RunningFacts, Pow2Facts, Pow3Facts DEF Pow23
  <2>3. r.k % Order # 0
    BY <1>1, <2>1, <2>2, RunningFacts, MultipleOfOrder
  <2>4. QED
    BY <1>1, <2>3, RunningFacts
<1>6. point.k = e.sign /\ point.Z = "one" /\ e.sign \in Int
  <2>1. a.k = 1 /\ a.Z = "one" /\ invert_a.k = -1 /\ invert_a.Z = "one"
    BY DEF a, Affine, invert_a, Invert
  <2>2. QED
    BY <1>4, <2>1
<1> HIDE DEF point, e
<1>7. r' = Jacobian(r.k + e.sign)
  BY <1>2, <1>5, <1>6 DEF Add, AtInfinity, Usable, Stale
<1>8. /\ r' \in Point /\ r'.k = r.k + e.sign
      /\ r'.Z \in {"zero", "other"} /\ ~ r'.Z_is_one
      /\ r'.Z = "zero" => r'.k % Order = 0
  <2>1. r.k + e.sign \in Int
    BY <1>5, <1>6
  <2>2. QED
    BY <1>7, <2>1, JacobianType
<1>9. TypeOK'
  BY <1>2, <1>3, <1>8 DEF IndInv, TypeOK
<1>10. HornerInv'
  <2> DEFINE p == Pow23(now_dbl, now_tpl)
  <2>1. p \in Int
    BY <1>1, RunningFacts, Pow2Facts, Pow3Facts DEF Pow23
  <2>2. Value(slot, i + 1) = Value(slot, i) + e.sign * p
    BY <1>3, <1>4, RunningSumsFacts, MaxAssumption DEF Sums, Slot, Value, TermValue, e
  <2>3. r.k * p = Value(slot, i)
    BY <1>1, RunningFacts
  <2> HIDE DEF p
  <2>4. \A k, q, s \in Int : (k + s) * q = k * q + s * q
    OBVIOUS
  <2>5. r'.k * p = Value(slot, i + 1)
    BY <1>5, <1>6, <1>8, <2>1, <2>2, <2>3, <2>4
  <2>6. QED
    BY <1>2, <1>3, <2>5 DEF HornerInv, p
<1>11. Aligned'
  <2>1. i + 1 < len => /\ slot[i + 1] \in Entry
                       /\ slot[i + 1].dbl <= now_dbl
                       /\ slot[i + 1].tpl <= now_tpl
    <3>1. ASSUME i + 1 < len
          PROVE  i + 1 \in 1 .. len - 1 /\ i + 1 \in 0 .. MAX_2 - 1 /\ (i + 1) - 1 = i
      BY <1>3, <3>1
    <3>2. QED
      BY <1>3, <1>4, <3>1 DEF IsChain, Slot, e
  <2>2. QED
    BY <1>1, <1>2, <2>1, RunningFacts DEF Aligned, TargetDbl, TargetTpl
<1>12. Progress'
  BY <1>1, <1>2, <1>3 DEF IndInv, TypeOK, Progress
<1>13. WorksOnSoundChain' /\ ExponentsDone'
  BY <1>1, <1>2 DEF IndInv, WorksOnSoundChain, SoundChain, ExponentsDone
<1>14. JacobianForm'
  BY <1>8 DEF JacobianForm
<1>15. QED
  BY <1>9, <1>10, <1>11, <1>12, <1>13, <1>14 DEF IndInv

(* The end of a call: no exponent is left.                                 *)
LEMMA ReturnInv ==
  ASSUME IndInv, Return
  PROVE  IndInv'
<1>1. /\ pc = "loop" /\ i >= len /\ now_dbl <= TargetDbl /\ now_tpl <= TargetTpl
      /\ pc' = "done" /\ UNCHANGED <<slot, len, i, now_dbl, now_tpl, r, ops>>
  BY DEF Return, ReturnIf
<1>2. i = len /\ now_dbl = 0 /\ now_tpl = 0
  <2>1. i = len /\ ~ (i < len)
    BY <1>1, RunningFacts
  <2>2. TargetDbl = 0 /\ TargetTpl = 0
    BY <2>1, <1>1 DEF TargetDbl, TargetTpl
  <2>3. QED
    BY <1>1, <2>1, <2>2, RunningFacts
<1>3. ExponentsDone'
  BY <1>1, <1>2 DEF ExponentsDone
<1>4. TypeOK'
  BY <1>1 DEF IndInv, TypeOK
<1>5. WorksOnSoundChain' /\ HornerInv' /\ Aligned' /\ Progress' /\ JacobianForm'
  BY <1>1 DEF IndInv, WorksOnSoundChain, SoundChain, HornerInv, Aligned, TargetDbl,
              TargetTpl, Progress, JacobianForm
<1>6. QED
  BY <1>3, <1>4, <1>5 DEF IndInv

(* Every step keeps the inductive invariant.                               *)
LEMMA StepInv == IndInv /\ [Next]_vars => IndInv'
<1> SUFFICES ASSUME IndInv, [Next]_vars PROVE IndInv'
  OBVIOUS
<1>1. CASE \E job \in Jobs : Setup(job)
  BY <1>1, SetupInv
<1>2. CASE Double
  BY <1>2, DoubleInv
<1>3. CASE Triple
  BY <1>3, TripleInv
<1>4. CASE AddTerm
  BY <1>4, AddTermInv
<1>5. CASE Return
  BY <1>5, ReturnInv
<1>6. CASE UNCHANGED vars
  BY <1>6 DEF vars, IndInv, TypeOK, WorksOnSoundChain, SoundChain, HornerInv, Aligned,
              TargetDbl, TargetTpl, Progress, JacobianForm, ExponentsDone
<1>7. QED
  BY <1>1, <1>2, <1>3, <1>4, <1>5, <1>6 DEF Next

(* The inductive invariant holds in every behaviour of DBC_POINT_mul.      *)
THEOREM Inductive == Spec => []IndInv
  BY InitInv, StepInv, PTL DEF Spec

(* Type correctness of the evaluation.                                     *)
THEOREM TypeCorrect == Spec => []TypeOK
<1>1. IndInv => TypeOK
  BY DEF IndInv
<1>2. QED
  BY <1>1, Inductive, PTL

(* Horner evaluation: the accumulator always stands for the terms          *)
(* consumed, whatever the chain.                                           *)
THEOREM HornerCorrect == Spec => []HornerInv
<1>1. IndInv => HornerInv
  BY DEF IndInv
<1>2. QED
  BY <1>1, Inductive, PTL

(* The exponents left never undershoot those of the next term.             *)
THEOREM AlwaysAligned == Spec => []Aligned
<1>1. IndInv => Aligned
  BY DEF IndInv
<1>2. QED
  BY <1>1, Inductive, PTL

(* EC_POINT_tpl's untouched Z_is_one never bites on a sound chain.         *)
THEOREM NeverMisread == Spec => []NeverStale
<1>1. IndInv => NeverStale
  BY DEF IndInv, JacobianForm, NeverStale, Usable, Stale
<1>2. QED
  BY <1>1, Inductive, PTL

(* The cost the generators minimise is the number of point operations      *)
(* carried out.                                                            *)
THEOREM CostExact == Spec => []CostPredicted
<1>1. IndInv => CostPredicted
  BY DEF IndInv, TypeOK, WorksOnSoundChain, SoundChain, Slot, Entry, Progress,
         ExponentsDone, CostPredicted
<1>2. QED
  BY <1>1, Inductive, PTL

-----------------------------------------------------------------------------
(* Refinement of ScalarMul.                                                *)

(* At the end the accumulator is the value of the whole chain.             *)
LEMMA ResultIsValue ==
  ASSUME IndInv, pc = "loop" \/ pc = "done", i = len, now_dbl = 0, now_tpl = 0
  PROVE  r.k = Value(slot, len) /\ Usable(r)
<1>1. Pow23(0, 0) = 1
  BY Pow2Facts, Pow3Facts DEF Pow23
<1>2. r.k \in Int /\ r.k * Pow23(0, 0) = Value(slot, len)
  BY RunningFacts
<1>3. Usable(r)
  BY DEF IndInv, JacobianForm, Usable, Stale
<1>4. QED
  BY <1>1, <1>2, <1>3

(* The first state is one of the abstract multiplication.                  *)
LEMMA InitRefines == Init => Abstract!Init
<1> SUFFICES ASSUME Init PROVE Abstract!Init
  OBVIOUS
<1>1. EmptySlot \in Slot
  BY DEF EmptySlot, Slot, Entry, ZeroEntry
<1>2. Value(EmptySlot, 0) = 0
  BY <1>1, RunningSumsFacts, MaxAssumption DEF Sums, Slot, Value
<1>3. QED
  BY <1>2 DEF Init, Abstract!Init

(* Setup is the abstract Call, the last step the abstract Return, and      *)
(* every other step a stutter.                                             *)
LEMMA StepRefines == IndInv /\ [Next]_vars => [Abstract!Next]_Abstract!vars
<1> SUFFICES ASSUME IndInv, [Next]_vars PROVE [Abstract!Next]_Abstract!vars
  OBVIOUS
<1> USE DEF Abstract!vars
<1>1. CASE \E job \in Jobs : Setup(job)
  <2>1. PICK job \in Jobs : Setup(job)
    BY <1>1
  <2>2. pc # "loop" /\ pc' = "loop" /\ slot' = job[1] /\ len' = job[2]
    BY <2>1 DEF Setup, SetupWith
  <2>3. Value(slot', len') \in Scalars
    BY <2>2, JobsAssumption
  <2>4. pc \in {"idle", "done"}
    BY <2>2 DEF IndInv, TypeOK
  <2>5. Abstract!Call
    BY <2>2, <2>3, <2>4 DEF Abstract!Call
  <2>6. QED
    BY <2>5 DEF Abstract!Next
<1>2. CASE Double \/ Triple \/ AddTerm
  <2>1. pc = "loop" /\ pc' = pc /\ slot' = slot /\ len' = len
    BY <1>2 DEF Double, Triple, TripleBy, AddTerm, AddTermWith
  <2>2. QED
    BY <2>1
<1>3. CASE Return
  <2>1. /\ pc = "loop" /\ i >= len /\ now_dbl <= TargetDbl /\ now_tpl <= TargetTpl
        /\ pc' = "done" /\ UNCHANGED <<slot, len, i, now_dbl, now_tpl, r, ops>>
    BY <1>3 DEF Return, ReturnIf
  <2>2. i = len /\ ~ (i < len)
    BY <2>1, RunningFacts
  <2>3. TargetDbl = 0 /\ TargetTpl = 0
    BY <2>2 DEF TargetDbl, TargetTpl
  <2>4. now_dbl = 0 /\ now_tpl = 0
    BY <2>1, <2>3, RunningFacts
  <2>5. r.k = Value(slot, len) /\ Usable(r)
    BY <2>1, <2>2, <2>4, ResultIsValue
  <2>6. r' = r /\ Usable(r') /\ Value(slot', len') = Value(slot, len)
    BY <2>1, <2>5 DEF Usable, Stale
  <2>7. Abstract!Return
    BY <2>1, <2>5, <2>6 DEF Abstract!Return
  <2>8. QED
    BY <2>7 DEF Abstract!Next
<1>4. CASE UNCHANGED vars
  BY <1>4 DEF vars, Usable, Stale
<1>5. QED
  BY <1>1, <1>2, <1>3, <1>4 DEF Next

(* DBC_POINT_mul implements the abstract scalar multiplication: for every  *)
(* sound chain it returns exactly the value of the chain times the point.  *)
THEOREM Refinement == Spec => ImplementsScalarMul
  BY InitRefines, StepRefines, Inductive, PTL DEF Spec, ImplementsScalarMul, Abstract!Spec
=============================================================================
