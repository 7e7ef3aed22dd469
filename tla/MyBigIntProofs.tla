--------------------------- MODULE MyBigIntProofs ---------------------------
(***************************************************************************)
(* Theorems about the limb loops of MyBigInt, for every width, radix and   *)
(* divisor.  The long division of div_3_18 and the comparison operator>=   *)
(* start at the top limb, so what they have seen is a Prefix; the          *)
(* multiplications and the subtractions start at the bottom, and what they *)
(* have done is a Low part.                                                *)
(***************************************************************************)
EXTENDS MyBigInt, ArithmeticProofs

(* The recursive equation of Prefix, and its values.                       *)
LEMMA PrefixFacts ==
  ASSUME NEW c \in Number
  PROVE  /\ Prefix(c) \in [0 .. INTS -> Nat]
         /\ Prefix(c)[0] = 0
         /\ \A k \in 0 .. INTS - 1 : Prefix(c)[k + 1] = Prefix(c)[k] * Radix + c[k]
<1> USE LimbAssumption
<1> DEFINE h == [p \in Nat \X Nat |-> IF p[1] < INTS THEN p[2] * Radix + c[p[1]] ELSE p[2]]
<1>1. ASSUME NEW k \in Nat, k < INTS PROVE k \in 0 .. INTS - 1 /\ c[k] \in Nat
  BY <1>1 DEF Number, Limb
<1>2. ASSUME NEW k \in Nat, NEW u \in Nat
      PROVE  /\ h[<<k, u>>] \in Nat
             /\ k < INTS => h[<<k, u>>] = u * Radix + c[k]
  <2>1. u * Radix \in Nat
    OBVIOUS
  <2>2. QED
    BY <1>1, <2>1
<1>3. Iterable(Nat, 0, h)
  <2> HIDE DEF h
  <2>1. 0 \in Nat
    OBVIOUS
  <2>2. Closed(Nat, h)
    BY <1>2 DEF Closed
  <2>3. QED
    BY <2>1, <2>2, IterationExists
<1>4. PICK v \in [Nat -> Nat] : Iterates(v, 0, h)
  BY <1>3 DEF Iterable
<1> DEFINE w == [k \in 0 .. INTS |-> v[k]]
           F(u) == [k \in 0 .. INTS |-> IF k = 0 THEN 0 ELSE u[k - 1] * Radix + c[k - 1]]
<1> HIDE DEF h
<1>5. ASSUME NEW k \in 0 .. INTS PROVE w[k] = F(w)[k]
  <2>1. CASE k = 0
    BY <1>4, <2>1 DEF Iterates
  <2>2. CASE k # 0
    <3>1. k - 1 \in Nat /\ k - 1 < INTS /\ k - 1 \in 0 .. INTS /\ (k - 1) + 1 = k
      BY <2>2
    <3>2. v[k] = v[k - 1] * Radix + c[k - 1]
      BY <1>2, <1>4, <3>1 DEF Iterates
    <3>3. QED
      BY <2>2, <3>1, <3>2
  <2>3. QED
    BY <2>1, <2>2
<1>6. w = F(w)
  BY <1>5
<1> HIDE DEF w
<1>7. Prefix(c) = F(Prefix(c))
  <2> DEFINE good == CHOOSE u : u = F(u)
  <2>1. good = F(good)
    BY <1>6
  <2>2. Prefix(c) = good
    BY DEF Prefix
  <2> HIDE DEF good
  <2>3. QED
    BY <2>1, <2>2
<1>8. Prefix(c)[0] = 0
  BY <1>7
<1>9. ASSUME NEW k \in 0 .. INTS - 1
      PROVE  Prefix(c)[k + 1] = Prefix(c)[k] * Radix + c[k]
  <2>1. k + 1 \in 0 .. INTS /\ (k + 1) - 1 = k /\ k + 1 # 0
    OBVIOUS
  <2>2. QED
    BY <1>7, <2>1
<1> DEFINE T == {k \in Nat : k <= INTS => Prefix(c)[k] \in Nat}
<1>10. Nat \subseteq T
  <2>1. 0 \in T
    BY <1>8
  <2>2. ASSUME NEW k \in Nat, k \in T PROVE k + 1 \in T
    <3>1. SUFFICES ASSUME k + 1 <= INTS PROVE Prefix(c)[k + 1] \in Nat
      OBVIOUS
    <3>2. k < INTS /\ k \in 0 .. INTS - 1 /\ Prefix(c)[k] \in Nat
      BY <2>2, <3>1
    <3>3. c[k] \in Nat /\ Prefix(c)[k] * Radix \in Nat
      BY <1>1, <3>2
    <3>4. QED
      BY <1>9, <3>2, <3>3
  <2> HIDE DEF T
  <2>3. QED
    BY <2>1, <2>2, SetInduction
<1>11. \A k \in 0 .. INTS : Prefix(c)[k] \in Nat
  BY <1>10
<1>12. Prefix(c) \in [0 .. INTS -> Nat]
  <2>1. Prefix(c) = [k \in 0 .. INTS |-> Prefix(c)[k]]
    BY <1>7
  <2>2. QED
    BY <1>11, <2>1
<1>13. QED
  BY <1>8, <1>9, <1>12

(* The value of the first m limbs depends on those limbs only.             *)
LEMMA PrefixAgree ==
  ASSUME NEW c \in Number, NEW d \in Number, NEW m \in 0 .. INTS,
         \A k \in 0 .. m - 1 : c[k] = d[k]
  PROVE  Prefix(c)[m] = Prefix(d)[m]
<1> USE LimbAssumption
<1> DEFINE T == {k \in Nat : k <= m => Prefix(c)[k] = Prefix(d)[k]}
<1>1. 0 \in T
  BY PrefixFacts
<1>2. ASSUME NEW k \in Nat, k \in T PROVE k + 1 \in T
  <2>1. SUFFICES ASSUME k + 1 <= m PROVE Prefix(c)[k + 1] = Prefix(d)[k + 1]
    OBVIOUS
  <2>2. k \in 0 .. m - 1 /\ k \in 0 .. INTS - 1 /\ Prefix(c)[k] = Prefix(d)[k]
    BY <1>2, <2>1
  <2>3. QED
    BY <2>2, PrefixFacts, SMTT(60)
<1>3. Nat \subseteq T
  <2> HIDE DEF T
  <2>1. QED
    BY <1>1, <1>2, SetInduction
<1>4. QED
  BY <1>3

-----------------------------------------------------------------------------
(* The invariant of the long division with the types of what it works on.  *)
Dividing ==
  (op = "div_3_18" /\ pc # "idle") =>
    /\ pc \in {"limbs", "done"}
    /\ x \in Number /\ ret \in Number
    /\ i \in 0 .. INTS

DivisionIndInv == Dividing /\ DivisionInv

(* One round of long division on numbers: the quotient digit is a limb,    *)
(* what remains is below the divisor.                                      *)
LEMMA DivideLimb ==
  ASSUME NEW rem \in 0 .. Divisor - 1, NEW limb \in Limb
  PROVE  LET temp1 == rem * Radix + limb IN
         /\ temp1 \div Divisor \in Limb
         /\ temp1 % Divisor \in 0 .. Divisor - 1
         /\ temp1 = Divisor * (temp1 \div Divisor) + (temp1 % Divisor)
         /\ (temp1 \div Divisor) % Radix = temp1 \div Divisor
<1> USE LimbAssumption
<1> DEFINE temp1 == rem * Radix + limb
           q == temp1 \div Divisor
           m == temp1 % Divisor
<1>1. rem \in Nat /\ Divisor \in Nat /\ Divisor > 0 /\ Radix \in Nat /\ limb \in Nat
      /\ limb < Radix /\ rem + 1 <= Divisor
  BY DEF Limb
<1>2. (rem + 1) * Radix <= Divisor * Radix
  BY <1>1
<1>3. temp1 \in Nat /\ temp1 < Divisor * Radix
  <2>1. (rem + 1) * Radix = rem * Radix + Radix
    BY <1>1
  <2>2. rem * Radix \in Nat /\ Divisor * Radix \in Nat
    BY <1>1
  <2>3. QED
    BY <1>1, <1>2, <2>1, <2>2
<1> HIDE DEF temp1
<1>4. q \in Nat /\ m \in 0 .. Divisor - 1 /\ temp1 = Divisor * q + m
  BY <1>1, <1>3
<1> HIDE DEF q, m
<1>5. q < Radix
  <2>1. SUFFICES ASSUME q >= Radix PROVE FALSE
    BY <1>1, <1>4
  <2>2. Divisor * q >= Divisor * Radix
    BY <1>1, <1>4, <2>1
  <2>3. Divisor * q \in Nat /\ Divisor * Radix \in Nat
    BY <1>1, <1>4
  <2>4. QED
    BY <1>3, <1>4, <2>2, <2>3
<1>6. q \in Limb /\ q % Radix = q
  BY <1>1, <1>4, <1>5 DEF Limb
<1>7. QED
  BY <1>4, <1>6 DEF q, m, temp1

(* A call of div_3_18 establishes the invariant; the others are not about  *)
(* it.                                                                     *)
LEMMA CallDivides ==
  ASSUME Call
  PROVE  DivisionIndInv'
<1> USE LimbAssumption
<1>1. CASE \E p \in Pairs : \/ \E name \in {"-", "gpu -"} : BeginSub(name, p[1], p[2])
                            \/ BeginCompare(p[1], p[2])
  BY <1>1 DEF BeginSub, BeginCompare, Begin, DivisionIndInv, Dividing, DivisionInv
<1>2. CASE \E u \in Numbers : \E name \in {"mul_2", "mul_3"} : BeginMul(name, u)
  BY <1>2 DEF BeginMul, Begin, DivisionIndInv, Dividing, DivisionInv
<1>3. CASE \E u \in Numbers : BeginMod(u)
  BY <1>3 DEF BeginMod, Begin, DivisionIndInv, Dividing, DivisionInv
<1>4. CASE \E u \in Numbers : BeginDiv(u)
  <2>1. PICK u \in Numbers : BeginDiv(u)
    BY <1>4
  <2>2. /\ u \in Number /\ pc' = "limbs" /\ x' = u /\ ret' = u
        /\ i' = 0 /\ temp' = 0
    BY <2>1 DEF BeginDiv, Begin
  <2>3. Prefix(u)[0] = 0
    BY <2>2, PrefixFacts
  <2>4. Prefix(x')[i'] = Divisor * Prefix(ret')[i'] + temp'
    BY <2>2, <2>3
  <2>5. temp' \in 0 .. Divisor - 1
    BY <2>2
  <2>6. Dividing'
    BY <2>2 DEF Dividing
  <2>7. QED
    BY <2>2, <2>4, <2>5, <2>6 DEF DivisionIndInv, DivisionInv
<1>5. QED
  BY <1>1, <1>2, <1>3, <1>4 DEF Call

(* A round of the loop keeps it.                                           *)
LEMMA RoundDivides ==
  ASSUME DivisionIndInv, DivLimb
  PROVE  DivisionIndInv'
<1> USE LimbAssumption
<1>1. /\ pc = "limbs" /\ op = "div_3_18"
      /\ x \in Number /\ ret \in Number /\ i \in 0 .. INTS
      /\ Prefix(x)[i] = Divisor * Prefix(ret)[i] + temp
      /\ temp \in 0 .. Divisor - 1
      /\ \A k \in i .. INTS - 1 : ret[k] = x[k]
  BY DEF DivisionIndInv, Dividing, DivisionInv, DivLimb, DivLimbWith
<1>2. CASE i = INTS
  <2>1. pc' = "done" /\ UNCHANGED <<op, x, y, ret, i, temp>>
    BY <1>1, <1>2 DEF DivLimb, DivLimbWith, Finish
  <2>2. QED
    BY <1>1, <1>2, <2>1 DEF DivisionIndInv, Dividing, DivisionInv
<1>3. CASE i # INTS
  <2> DEFINE temp1 == temp * Radix + ret[i]
  <2>1. /\ i < INTS /\ i \in 0 .. INTS - 1 /\ i + 1 \in 0 .. INTS
        /\ ret[i] \in Limb /\ ret[i] = x[i]
    BY <1>1, <1>3 DEF Number
  <2>2. /\ ret' = [ret EXCEPT ![i] = (temp1 \div Divisor) % Radix]
        /\ temp' = temp1 % Divisor
        /\ i' = i + 1
        /\ UNCHANGED <<pc, op, x, y>>
    BY <2>1 DEF DivLimb, DivLimbWith
  <2>3. /\ temp1 \div Divisor \in Limb
        /\ temp1 % Divisor \in 0 .. Divisor - 1
        /\ temp1 = Divisor * (temp1 \div Divisor) + (temp1 % Divisor)
        /\ (temp1 \div Divisor) % Radix = temp1 \div Divisor
    BY <1>1, <2>1, DivideLimb
  <2> DEFINE q == temp1 \div Divisor
  <2>4. ret' \in Number /\ ret'[i] = q /\ \A k \in 0 .. INTS - 1 : k # i => ret'[k] = ret[k]
    <3> HIDE DEF temp1
    <3>1. QED
      BY <1>1, <2>1, <2>2, <2>3 DEF Number
  <2>5. Prefix(ret')[i] = Prefix(ret)[i]
    <3>1. \A k \in 0 .. i - 1 : k \in 0 .. INTS - 1 /\ k # i
      BY <2>1
    <3>2. \A k \in 0 .. i - 1 : ret'[k] = ret[k]
      BY <2>4, <3>1
    <3>3. QED
      BY <1>1, <2>4, <3>2, PrefixAgree
  <2>6. Prefix(ret')[i + 1] = Prefix(ret)[i] * Radix + q
    BY <2>1, <2>4, <2>5, PrefixFacts
  <2>7. Prefix(x)[i + 1] = Prefix(x)[i] * Radix + x[i]
    BY <1>1, <2>1, PrefixFacts
  <2>8. Prefix(x)[i + 1] = Divisor * Prefix(ret')[i + 1] + temp'
    <3>1. Prefix(ret)[i] \in Nat
      BY <1>1, PrefixFacts
    <3>2. (Divisor * Prefix(ret)[i] + temp) * Radix = Divisor * (Prefix(ret)[i] * Radix) + temp * Radix
      BY <1>1, <3>1
    <3>3. q \in Nat
      BY <2>3 DEF Limb
    <3>4. x[i] \in Nat
      BY <2>1 DEF Limb
    <3> DEFINE P == Prefix(ret)[i] * Radix
    <3>5. P \in Nat
      BY <3>1
    <3>6. Prefix(x)[i + 1] = Divisor * P + temp1
      <4>1. Prefix(x)[i + 1] = (Divisor * Prefix(ret)[i] + temp) * Radix + x[i]
        BY <1>1, <2>7
      <4>2. Prefix(x)[i + 1] = (Divisor * P + temp * Radix) + x[i]
        BY <3>2, <4>1
      <4>3. Divisor * P \in Nat /\ temp * Radix \in Nat
        BY <1>1, <3>5
      <4> HIDE DEF P
      <4>4. QED
        BY <2>1, <3>4, <4>2, <4>3
    <3>7. temp1 = Divisor * q + temp'
      BY <2>2, <2>3
    <3> HIDE DEF temp1, q, P
    <3>8. temp' \in Nat
      BY <2>2, <2>3
    <3>9. Divisor * P + (Divisor * q + temp') = Divisor * (P + q) + temp'
      BY <3>3, <3>5, <3>8
    <3>10. Prefix(ret')[i + 1] = P + q
      BY <2>6 DEF P
    <3>11. QED
      BY <3>6, <3>7, <3>9, <3>10
  <2>9. \A k \in i + 1 .. INTS - 1 : ret'[k] = x[k]
    BY <1>1, <2>1, <2>4
  <2> HIDE DEF temp1, q
  <2>10. QED
    BY <1>1, <2>1, <2>2, <2>3, <2>4, <2>8, <2>9 DEF DivisionIndInv, Dividing, DivisionInv
<1>4. QED
  BY <1>2, <1>3

(* div_3_18 divides: at the end the limbs are the quotient of x and temp   *)
(* its remainder, whatever the number of limbs.                            *)
THEOREM DivisionCorrect == Spec => []DivisionInv
<1>1. Init => DivisionIndInv
  BY DEF Init, DivisionIndInv, Dividing, DivisionInv
<1>2. DivisionIndInv /\ [Next]_vars => DivisionIndInv'
  <2> SUFFICES ASSUME DivisionIndInv, [Next]_vars
               PROVE  DivisionIndInv'
    OBVIOUS
  <2>1. CASE Call
    BY <2>1, CallDivides
  <2>2. CASE DivLimb
    BY <2>2, RoundDivides
  <2>3. CASE Borrow
    BY <2>3 DEF Borrow, BorrowIf, DivisionIndInv, Dividing, DivisionInv
  <2>4. CASE BorrowDone
    BY <2>4 DEF BorrowDone, DivisionIndInv, Dividing, DivisionInv
  <2>5. CASE SubLimb
    BY <2>5 DEF SubLimb, Finish, DivisionIndInv, Dividing, DivisionInv
  <2>6. CASE Compare
    BY <2>6 DEF Compare, CompareUpTo, DivisionIndInv, Dividing, DivisionInv
  <2>7. CASE MulLimb
    BY <2>7 DEF MulLimb, Finish, DivisionIndInv, Dividing, DivisionInv
  <2>8. CASE ModLimb
    BY <2>8 DEF ModLimb, ModLimbWeighed, DivisionIndInv, Dividing, DivisionInv
  <2>9. CASE UNCHANGED vars
    BY <2>9 DEF vars, DivisionIndInv, Dividing, DivisionInv
  <2>10. QED
    BY <2>1, <2>2, <2>3, <2>4, <2>5, <2>6, <2>7, <2>8, <2>9 DEF Next, Done
<1>3. DivisionIndInv => DivisionInv
  BY DEF DivisionIndInv
<1>4. QED
  BY <1>1, <1>2, <1>3, PTL DEF Spec

-----------------------------------------------------------------------------
(* Multiplication keeps the order.                                         *)
LEMMA TimesMonotone ==
  ASSUME NEW u \in Nat, NEW v \in Nat, NEW w \in Nat, u >= v
  PROVE  u * w >= v * w
<1> DEFINE e == u - v
<1>1. e \in Nat /\ u = v + e
  OBVIOUS
<1> HIDE DEF e
<1>2. (v + e) * w = v * w + e * w /\ v * w \in Nat /\ e * w \in Nat
  BY <1>1
<1>3. QED
  BY <1>1, <1>2

(* The first limb in which two numbers differ decides which is larger.     *)
LEMMA FirstDifferenceDecides ==
  ASSUME NEW c \in Number, NEW d \in Number, NEW m \in 0 .. INTS - 1,
         \A k \in 0 .. m - 1 : c[k] = d[k],
         c[m] > d[m]
  PROVE  Value(c) > Value(d)
<1> USE LimbAssumption
<1> DEFINE T == {k \in Nat : m < k /\ k <= INTS => Prefix(c)[k] >= Prefix(d)[k] + 1}
<1>1. ASSUME NEW k \in 0 .. INTS - 1
      PROVE  /\ Prefix(c)[k] \in Nat /\ Prefix(d)[k] \in Nat
             /\ c[k] \in Nat /\ d[k] \in Nat /\ d[k] < Radix
             /\ Prefix(c)[k + 1] = Prefix(c)[k] * Radix + c[k]
             /\ Prefix(d)[k + 1] = Prefix(d)[k] * Radix + d[k]
  <2>1. k \in 0 .. INTS
    OBVIOUS
  <2>2. Prefix(c)[k] \in Nat /\ Prefix(d)[k] \in Nat
    BY <2>1, PrefixFacts
  <2>3. c[k] \in Nat /\ d[k] \in Nat /\ d[k] < Radix
    BY DEF Number, Limb
  <2>4. QED
    BY <2>2, <2>3, PrefixFacts
<1>2. 0 \in T
  OBVIOUS
<1>3. ASSUME NEW k \in Nat, k \in T PROVE k + 1 \in T
  <2>1. SUFFICES ASSUME m < k + 1, k + 1 <= INTS
                 PROVE  Prefix(c)[k + 1] >= Prefix(d)[k + 1] + 1
    OBVIOUS
  <2>2. k \in 0 .. INTS - 1
    BY <2>1
  <2>3. CASE k = m
    <3>1. Prefix(c)[m] = Prefix(d)[m]
      <4>1. m \in 0 .. INTS
        OBVIOUS
      <4>2. QED
        BY <4>1, PrefixAgree
    <3> DEFINE P == Prefix(d)[m] * Radix
    <3>2. P \in Nat
      BY <1>1
    <3>3. Prefix(c)[k + 1] = P + c[m] /\ Prefix(d)[k + 1] = P + d[m]
      BY <1>1, <2>2, <2>3, <3>1
    <3>4. c[m] \in Nat /\ d[m] \in Nat
      BY <1>1
    <3> HIDE DEF P
    <3>5. QED
      BY <3>2, <3>3, <3>4
  <2>4. CASE k # m
    <3>1. m < k /\ k <= INTS
      BY <2>1, <2>4
    <3>2. Prefix(c)[k] >= Prefix(d)[k] + 1
      BY <1>3, <3>1
    <3>3. Prefix(c)[k] * Radix >= (Prefix(d)[k] + 1) * Radix
      BY <1>1, <2>2, <3>2, TimesMonotone, SMTT(60)
    <3>4. (Prefix(d)[k] + 1) * Radix = Prefix(d)[k] * Radix + Radix
      BY <1>1, <2>2
    <3>5. Prefix(c)[k] * Radix \in Nat /\ Prefix(d)[k] * Radix \in Nat
      BY <1>1, <2>2
    <3>6. QED
      BY <1>1, <2>2, <3>3, <3>4, <3>5
  <2>5. QED
    BY <2>3, <2>4
<1>4. INTS \in T
  <2>1. Nat \subseteq T
    <3> HIDE DEF T
    <3>1. QED
      BY <1>2, <1>3, SetInduction
  <2>2. QED
    BY <2>1
<1>5. INTS \in 0 .. INTS
  OBVIOUS
<1>6. Prefix(c)[INTS] \in Nat /\ Prefix(d)[INTS] \in Nat
  BY <1>5, PrefixFacts
<1>7. QED
  BY <1>4, <1>6 DEF Value

(* The limbs compared so far are equal, and the outcome is right.          *)
Comparing ==
  (op = ">=" /\ pc # "idle") =>
    /\ pc \in {"limbs", "done"}
    /\ x \in Number /\ y \in Number
    /\ i \in 0 .. INTS
    /\ pc = "limbs" => \A k \in 0 .. i - 1 : x[k] = y[k]
    /\ pc = "done" => (temp = 1 <=> Value(x) >= Value(y))

(* A round of the comparison: the limbs passed are equal.                  *)
LEMMA RoundCompares ==
  ASSUME Comparing, Compare
  PROVE  Comparing'
<1> USE LimbAssumption
<1>1. /\ pc = "limbs" /\ op = ">="
      /\ x \in Number /\ y \in Number /\ i \in 0 .. INTS
      /\ \A k \in 0 .. i - 1 : x[k] = y[k]
  BY DEF Comparing, Compare, CompareUpTo
<1>2. CASE i <= INTS - 1 /\ x[i] = y[i]
  <2>1. i' = i + 1 /\ UNCHANGED <<pc, op, x, y, ret, temp>>
    BY <1>2 DEF Compare, CompareUpTo
  <2>2. \A k \in 0 .. (i + 1) - 1 : x[k] = y[k]
    BY <1>1, <1>2
  <2>3. i + 1 \in 0 .. INTS
    BY <1>1, <1>2
  <2>4. QED
    BY <1>1, <2>1, <2>2, <2>3 DEF Comparing
<1>3. CASE ~ (i <= INTS - 1 /\ x[i] = y[i])
  <2>1. /\ temp' = IF i > INTS - 1 \/ x[i] > y[i] THEN 1 ELSE 0
        /\ pc' = "done"
        /\ UNCHANGED <<op, x, y, ret, i>>
    BY <1>3 DEF Compare, CompareUpTo
  <2>2. temp' = 1 <=> Value(x) >= Value(y)
    <3>1. Value(x) \in Nat /\ Value(y) \in Nat
      <4>1. INTS \in 0 .. INTS
        OBVIOUS
      <4>2. QED
        BY <1>1, <4>1, PrefixFacts DEF Value
    <3>2. CASE i = INTS
      <4>1. Value(x) = Value(y)
        BY <1>1, <3>2, PrefixAgree DEF Value
      <4>2. QED
        BY <2>1, <3>1, <3>2, <4>1
    <3>3. CASE i # INTS
      <4>1. i \in 0 .. INTS - 1 /\ x[i] # y[i] /\ ~ (i > INTS - 1)
        BY <1>1, <1>3, <3>3
      <4>2. x[i] \in Nat /\ y[i] \in Nat
        BY <1>1, <4>1 DEF Number, Limb
      <4>3. CASE x[i] > y[i]
        <5>1. Value(x) > Value(y)
          BY <1>1, <4>1, <4>3, FirstDifferenceDecides
        <5>2. QED
          BY <2>1, <3>1, <4>3, <5>1
      <4>4. CASE y[i] > x[i]
        <5>1. \A k \in 0 .. i - 1 : y[k] = x[k]
          BY <1>1
        <5>2. Value(y) > Value(x)
          BY <1>1, <4>1, <4>4, <5>1, FirstDifferenceDecides
        <5>3. QED
          BY <2>1, <3>1, <4>1, <4>2, <4>4, <5>2
      <4>5. QED
        BY <4>1, <4>2, <4>3, <4>4
    <3>4. QED
      BY <3>2, <3>3
  <2>3. QED
    BY <1>1, <2>1, <2>2 DEF Comparing, Value
<1>4. QED
  BY <1>2, <1>3

(* When an operation starts, none has been passed.                         *)
LEMMA CallCompares ==
  ASSUME Call
  PROVE  Comparing'
<1> USE LimbAssumption
<1>1. CASE \E p \in Pairs : \E name \in {"-", "gpu -"} : BeginSub(name, p[1], p[2])
  BY <1>1 DEF BeginSub, Begin, Comparing
<1>2. CASE \E p \in Pairs : BeginCompare(p[1], p[2])
  <2>1. PICK p \in Pairs : BeginCompare(p[1], p[2])
    BY <1>2
  <2>2. p[1] \in Number /\ p[2] \in Number
    OBVIOUS
  <2>3. pc' = "limbs" /\ x' = p[1] /\ y' = p[2] /\ i' = 0
    BY <2>1 DEF BeginCompare, Begin
  <2>4. QED
    BY <2>2, <2>3 DEF Comparing
<1>3. CASE \E u \in Numbers : \/ \E name \in {"mul_2", "mul_3"} : BeginMul(name, u)
                              \/ BeginDiv(u)
                              \/ BeginMod(u)
  BY <1>3 DEF BeginMul, BeginDiv, BeginMod, Begin, Comparing
<1>4. QED
  BY <1>1, <1>2, <1>3 DEF Call

(* operator>= is the order of the numbers, for every width and radix.      *)
THEOREM ComparisonCorrect == Spec => []ComparisonRight
<1>1. Init => Comparing
  BY DEF Init, Comparing
<1>2. Comparing /\ [Next]_vars => Comparing'
  <2> SUFFICES ASSUME Comparing, [Next]_vars
               PROVE  Comparing'
    OBVIOUS
  <2>1. CASE Call
    BY <2>1, CallCompares
  <2>2. CASE Compare
    BY <2>2, RoundCompares
  <2>3. CASE Borrow
    BY <2>3 DEF Borrow, BorrowIf, Comparing
  <2>4. CASE BorrowDone
    BY <2>4 DEF BorrowDone, Comparing
  <2>5. CASE SubLimb
    BY <2>5 DEF SubLimb, Finish, Comparing
  <2>6. CASE DivLimb
    BY <2>6 DEF DivLimb, DivLimbWith, Finish, Comparing
  <2>7. CASE MulLimb
    BY <2>7 DEF MulLimb, Finish, Comparing
  <2>8. CASE ModLimb
    BY <2>8 DEF ModLimb, ModLimbWeighed, Comparing
  <2>9. CASE UNCHANGED vars
    BY <2>9 DEF vars, Comparing, Value
  <2>10. QED
    BY <2>1, <2>2, <2>3, <2>4, <2>5, <2>6, <2>7, <2>8, <2>9 DEF Next, Done
<1>3. Comparing => ComparisonRight
  BY DEF Comparing, ComparisonRight, Finished
<1>4. QED
  BY <1>1, <1>2, <1>3, PTL DEF Spec

-----------------------------------------------------------------------------
(* The recursive equation of Weight, and its values.                       *)
LEMMA WeightFacts ==
  /\ \A k \in 0 .. INTS - 1 : Weight[k] \in Nat
  /\ Weight[0] = 1
  /\ \A k \in 0 .. INTS - 2 : Weight[k + 1] = Weight[k] * Radix
<1> USE LimbAssumption
<1> DEFINE h == [p \in Nat \X Nat |-> p[2] * Radix]
<1>1. ASSUME NEW k \in Nat, NEW u \in Nat
      PROVE  h[<<k, u>>] \in Nat /\ h[<<k, u>>] = u * Radix
  <2>1. u * Radix \in Nat
    OBVIOUS
  <2>2. QED
    BY <2>1
<1>2. Iterable(Nat, 1, h)
  <2> HIDE DEF h
  <2>1. 1 \in Nat
    OBVIOUS
  <2>2. Closed(Nat, h)
    BY <1>1 DEF Closed
  <2>3. QED
    BY <2>1, <2>2, IterationExists
<1>3. PICK v \in [Nat -> Nat] : Iterates(v, 1, h)
  BY <1>2 DEF Iterable
<1> DEFINE w == [k \in 0 .. INTS - 1 |-> v[k]]
           F(u) == [k \in 0 .. INTS - 1 |-> IF k = 0 THEN 1 ELSE u[k - 1] * Radix]
<1> HIDE DEF h
<1>4. ASSUME NEW k \in 0 .. INTS - 1 PROVE w[k] = F(w)[k]
  <2>1. CASE k = 0
    BY <1>3, <2>1 DEF Iterates
  <2>2. CASE k # 0
    <3>1. k - 1 \in Nat /\ k - 1 \in 0 .. INTS - 1 /\ (k - 1) + 1 = k
      BY <2>2
    <3>2. v[k] = v[k - 1] * Radix
      BY <1>1, <1>3, <3>1 DEF Iterates
    <3>3. QED
      BY <2>2, <3>1, <3>2
  <2>3. QED
    BY <2>1, <2>2
<1>5. w = F(w)
  BY <1>4
<1> HIDE DEF w
<1>6. Weight = F(Weight)
  <2> DEFINE good == CHOOSE u : u = F(u)
  <2>1. good = F(good)
    BY <1>5
  <2>2. Weight = good
    BY DEF Weight
  <2> HIDE DEF good
  <2>3. QED
    BY <2>1, <2>2
<1>7. Weight[0] = 1
  BY <1>6
<1>8. ASSUME NEW k \in 0 .. INTS - 2
      PROVE  Weight[k + 1] = Weight[k] * Radix
  <2>1. k + 1 \in 0 .. INTS - 1 /\ (k + 1) - 1 = k /\ k + 1 # 0
    OBVIOUS
  <2>2. QED
    BY <1>6, <2>1
<1> DEFINE T == {k \in Nat : k <= INTS - 1 => Weight[k] \in Nat}
<1>9. Nat \subseteq T
  <2>1. 0 \in T
    BY <1>7
  <2>2. ASSUME NEW k \in Nat, k \in T PROVE k + 1 \in T
    <3>1. SUFFICES ASSUME k + 1 <= INTS - 1 PROVE Weight[k + 1] \in Nat
      OBVIOUS
    <3>2. k \in 0 .. INTS - 2 /\ Weight[k] \in Nat
      BY <2>2, <3>1
    <3>3. Weight[k] * Radix \in Nat
      BY <3>2
    <3>4. QED
      BY <1>8, <3>2, <3>3
  <2> HIDE DEF T
  <2>3. QED
    BY <2>1, <2>2, SetInduction
<1>10. \A k \in 0 .. INTS - 1 : Weight[k] \in Nat
  BY <1>9
<1>11. QED
  BY <1>7, <1>8, <1>10

(* What a round adds: a limb times the residue of its weight, reduced,     *)
(* differs from the limb times its weight by a multiple of m.              *)
LEMMA WeighLimb ==
  ASSUME NEW m \in Nat \ {0}, NEW l \in Nat, NEW w \in Nat
  PROVE  LET r == (l * (w % m)) % m
         IN  r \in Nat /\ \E q \in Nat : l * w = r + q * m
<1> DEFINE wd == w \div m
           wm == w % m
<1>1. wd \in Nat /\ wm \in Nat /\ w = m * wd + wm
  OBVIOUS
<1> HIDE DEF wd
<1>2. l * wm \in Nat
  BY <1>1
<1> DEFINE u == l * wm
           ud == u \div m
           um == u % m
<1>3. ud \in Nat /\ um \in Nat /\ u = m * ud + um
  BY <1>2
<1> HIDE DEF ud, um, u, wm
<1>4. l * w = l * (m * wd) + u
  <2>1. l * (m * wd + wm) = l * (m * wd) + l * wm
    BY <1>1
  <2>2. QED
    BY <1>1, <2>1 DEF u
<1>5. l * (m * wd) = (l * wd) * m /\ l * wd \in Nat
  BY <1>1
<1> DEFINE k == l * wd
<1>6. l * w = k * m + (m * ud + um) /\ k \in Nat
  BY <1>3, <1>4, <1>5
<1> HIDE DEF k
<1>7. k * m + (m * ud + um) = um + (k + ud) * m
  BY <1>3, <1>6
<1>8. k + ud \in Nat
  BY <1>3, <1>6
<1>9. um \in Nat /\ \E q \in Nat : l * w = um + q * m
  BY <1>3, <1>6, <1>7, <1>8
<1>10. QED
  BY <1>9 DEF um, u, wm

(* The invariant of the residue: what the limbs seen so far weigh differs  *)
(* from temp by a multiple of the modulus.                                 *)
Weighing ==
  (op = "mod_2_33_3_19" /\ pc # "idle") =>
    /\ pc \in {"limbs", "done"}
    /\ x \in Number
    /\ pc = "limbs" =>
         /\ i \in 1 .. INTS /\ temp \in Nat
         /\ \E q \in Nat : Prefix(x)[i - 1] * Weight[INTS - i] = temp + q * Modulus
    /\ pc = "done" => temp = Value(x) % (Radix * Modulus)

(* When an operation starts, none has been weighed.                        *)
LEMMA CallWeighs ==
  ASSUME Call
  PROVE  Weighing'
<1> USE LimbAssumption
<1>1. CASE \E p \in Pairs : \/ \E name \in {"-", "gpu -"} : BeginSub(name, p[1], p[2])
                            \/ BeginCompare(p[1], p[2])
  BY <1>1 DEF BeginSub, BeginCompare, Begin, Weighing
<1>2. CASE \E u \in Numbers : \E name \in {"mul_2", "mul_3"} : BeginMul(name, u)
  BY <1>2 DEF BeginMul, Begin, Weighing
<1>3. CASE \E u \in Numbers : BeginDiv(u)
  BY <1>3 DEF BeginDiv, Begin, Weighing
<1>4. CASE \E u \in Numbers : BeginMod(u)
  <2>1. PICK u \in Numbers : BeginMod(u)
    BY <1>4
  <2>2. u \in Number /\ pc' = "limbs" /\ x' = u /\ i' = 1 /\ temp' = 0
    BY <2>1 DEF BeginMod, Begin
  <2>3. Prefix(u)[0] = 0 /\ Weight[INTS - 1] \in Nat
    BY <2>2, PrefixFacts, WeightFacts
  <2>4. Prefix(u)[0] * Weight[INTS - 1] = 0 + 0 * Modulus
    <3> DEFINE W == Weight[INTS - 1]
    <3>1. W \in Nat
      BY <2>3
    <3> HIDE DEF W
    <3>2. 0 * W = 0 + 0 * Modulus
      BY <3>1
    <3>3. QED
      BY <2>3, <3>2 DEF W
  <2>5. \E q \in Nat : Prefix(x')[i' - 1] * Weight[INTS - i'] = temp' + q * Modulus
    <3>1. i' - 1 = 0 /\ INTS - i' = INTS - 1 /\ 0 \in Nat
      BY <2>2
    <3>2. Prefix(x')[i' - 1] * Weight[INTS - i'] = temp' + 0 * Modulus
      BY <2>2, <2>4, <3>1
    <3>3. QED
      BY <3>1, <3>2
  <2>6. i' \in 1 .. INTS /\ temp' \in Nat
    BY <2>2
  <2>7. QED
    BY <2>2, <2>5, <2>6 DEF Weighing
<1>5. QED
  BY <1>1, <1>2, <1>3, <1>4 DEF Call

(* A round adds the weight of one limb; the last one appends the lowest.   *)
LEMMA RoundWeighs ==
  ASSUME Weighing, ModLimb
  PROVE  Weighing'
<1> USE LimbAssumption
<1>1. /\ pc = "limbs" /\ op = "mod_2_33_3_19" /\ x \in Number
      /\ i \in 1 .. INTS /\ temp \in Nat
  BY DEF Weighing, ModLimb, ModLimbWeighed
<1>2. PICK q \in Nat : Prefix(x)[i - 1] * Weight[INTS - i] = temp + q * Modulus
  BY <1>1 DEF Weighing
<1> DEFINE P == Prefix(x)[i - 1]
           l == x[i - 1]
<1>3. /\ P \in Nat /\ l \in Nat /\ l < Radix /\ Prefix(x)[i] = P * Radix + l
  <2>1. i - 1 \in 0 .. INTS - 1 /\ i - 1 \in 0 .. INTS /\ (i - 1) + 1 = i
    BY <1>1
  <2>2. x[i - 1] \in Limb
    BY <1>1, <2>1 DEF Number
  <2>3. QED
    BY <1>1, <2>1, <2>2, PrefixFacts, SMTT(60) DEF Limb
<1>4. CASE i < INTS
  <2> DEFINE k == INTS - 1 - i
             w == Weight[k]
             r == (l * (w % Modulus)) % Modulus
  <2>1. k \in 0 .. INTS - 2 /\ k \in 0 .. INTS - 1 /\ k + 1 = INTS - i /\ k = INTS - (i + 1)
    BY <1>1, <1>4
  <2>2. w \in Nat /\ Weight[INTS - i] = w * Radix
    BY <2>1, WeightFacts
  <2>3. mul_num[k] = w % Modulus
    BY <2>1 DEF mul_num
  <2>4. temp' = temp + r /\ i' = i + 1 /\ UNCHANGED <<pc, op, x>>
    BY <1>1, <1>4, <2>3 DEF ModLimb, ModLimbWeighed
  <2> HIDE DEF w, k
  <2>5. r \in Nat /\ \E p \in Nat : l * w = r + p * Modulus
    BY <1>3, <2>2, WeighLimb
  <2> HIDE DEF r
  <2>6. PICK p \in Nat : l * w = r + p * Modulus
    BY <2>5
  <2> HIDE DEF l, P
  <2>7. (P * Radix + l) * w = P * (w * Radix) + l * w
    BY <1>3, <2>2
  <2>8. P * (w * Radix) = temp + q * Modulus
    BY <1>2, <2>2 DEF P
  <2>9. (temp + q * Modulus) + (r + p * Modulus) = (temp + r) + (q + p) * Modulus
    BY <1>1, <2>5
  <2>10. Prefix(x)[i] * w = (temp + r) + (q + p) * Modulus
    BY <1>3, <2>6, <2>7, <2>8, <2>9
  <2>11. \E u \in Nat : Prefix(x')[i' - 1] * Weight[INTS - i'] = temp' + u * Modulus
    <3>1. i' - 1 = i /\ INTS - i' = k /\ x' = x
      BY <1>1, <2>1, <2>4
    <3>2. q + p \in Nat
      OBVIOUS
    <3>3. Prefix(x')[i' - 1] * Weight[INTS - i'] = temp' + (q + p) * Modulus
      BY <2>4, <2>10, <3>1 DEF w
    <3>4. QED
      BY <3>2, <3>3
  <2>12. i' \in 1 .. INTS /\ temp' \in Nat
    BY <1>1, <1>4, <2>4, <2>5
  <2>13. QED
    BY <1>1, <2>4, <2>11, <2>12 DEF Weighing
<1>5. CASE i = INTS
  <2>1. pc' = "done" /\ temp' = (temp % Modulus) * Radix + l /\ UNCHANGED <<op, x>>
    BY <1>1, <1>5 DEF ModLimb, ModLimbWeighed
  <2>2. P = temp + q * Modulus
    <3>1. Weight[INTS - i] = 1
      <4>1. INTS - i = 0
        BY <1>5
      <4>2. QED
        BY <4>1, WeightFacts
    <3>2. P * 1 = temp + q * Modulus
      BY <1>2, <3>1
    <3> HIDE DEF P
    <3>3. QED
      BY <1>3, <3>2
  <2>3. Value(x) = P * Radix + l
    BY <1>3, <1>5 DEF Value
  <2> DEFINE t == temp % Modulus
             d == temp \div Modulus
             N == Radix * Modulus
             s == t * Radix + l
  <2>4. t \in 0 .. Modulus - 1 /\ d \in Nat /\ temp = Modulus * d + t
    BY <1>1
  <2> HIDE DEF l, P, t, d
  <2>5. P = Modulus * (d + q) + t
    <3>1. Modulus * (d + q) = Modulus * d + q * Modulus /\ Modulus * d \in Nat /\ q * Modulus \in Nat
      BY <2>4
    <3>2. QED
      BY <2>2, <2>4, <3>1
  <2>6. Value(x) = N * (d + q) + s
    <3>1. (Modulus * (d + q) + t) * Radix = (Radix * Modulus) * (d + q) + t * Radix
      BY <2>4
    <3> DEFINE A == (Radix * Modulus) * (d + q)
    <3>2. A \in Nat /\ t * Radix \in Nat
      BY <2>4
    <3>3. Value(x) = (A + t * Radix) + l
      BY <2>3, <2>5, <3>1
    <3> HIDE DEF A
    <3>4. Value(x) = A + s
      BY <1>3, <3>2, <3>3
    <3>5. QED
      BY <3>4 DEF A
  <2>7. s \in 0 .. N - 1 /\ N \in Nat \ {0}
    <3>1. (t + 1) * Radix = t * Radix + Radix /\ t * Radix \in Nat
      BY <2>4
    <3>2. Modulus * Radix >= (t + 1) * Radix
      BY <2>4, TimesMonotone
    <3>3. Modulus * Radix = Radix * Modulus /\ Radix * Modulus \in Nat
      OBVIOUS
    <3>4. QED
      BY <1>3, <3>1, <3>2, <3>3
  <2> HIDE DEF N, s
  <2>8. d + q \in Nat
    BY <2>4
  <2> DEFINE e == d + q
  <2>9. e \in Nat /\ Value(x) = N * e + s
    BY <2>6, <2>8
  <2> HIDE DEF e
  <2>10. Value(x) % N = s
    BY <2>7, <2>9, RemainderUnique
  <2>11. temp' = Value(x') % (Radix * Modulus)
    BY <2>1, <2>10 DEF N, s, t
  <2>12. QED
    BY <1>1, <2>1, <2>11 DEF Weighing
<1>6. QED
  BY <1>1, <1>4, <1>5

(* mod_2_33_3_19 computes the residue modulo 2^33 3^19, whatever the       *)
(* number of limbs: the table of weights is read from the right end.       *)
THEOREM ResidueCorrect == Spec => []ResidueExact
<1>1. Init => Weighing
  BY DEF Init, Weighing
<1>2. Weighing /\ [Next]_vars => Weighing'
  <2> SUFFICES ASSUME Weighing, [Next]_vars
               PROVE  Weighing'
    OBVIOUS
  <2>1. CASE Call
    BY <2>1, CallWeighs
  <2>2. CASE ModLimb
    BY <2>2, RoundWeighs
  <2>3. CASE Borrow
    BY <2>3 DEF Borrow, BorrowIf, Weighing
  <2>4. CASE BorrowDone
    BY <2>4 DEF BorrowDone, Weighing
  <2>5. CASE SubLimb
    BY <2>5 DEF SubLimb, Finish, Weighing
  <2>6. CASE Compare
    BY <2>6 DEF Compare, CompareUpTo, Weighing
  <2>7. CASE MulLimb
    BY <2>7 DEF MulLimb, Finish, Weighing
  <2>8. CASE DivLimb
    BY <2>8 DEF DivLimb, DivLimbWith, Finish, Weighing
  <2>9. CASE UNCHANGED vars
    BY <2>9 DEF vars, Weighing
  <2>10. QED
    BY <2>1, <2>2, <2>3, <2>4, <2>5, <2>6, <2>7, <2>8, <2>9 DEF Next, Done
<1>3. Weighing => ResidueExact
  BY DEF Weighing, ResidueExact, Finished
<1>4. QED
  BY <1>1, <1>2, <1>3, PTL DEF Spec

-----------------------------------------------------------------------------
(* Subtraction of limbs modulo the radix: one wrap at most.                *)
LEMMA LimbDifference ==
  ASSUME NEW a \in Limb, NEW b \in Limb
  PROVE  /\ (a - b) % Radix = IF a >= b THEN a - b ELSE (a - b) + Radix
         /\ (a - b) % Radix \in Limb
<1> USE LimbAssumption
<1>1. a \in Nat /\ b \in Nat /\ a < Radix /\ b < Radix /\ Radix \in Nat \ {0}
  BY DEF Limb
<1> DEFINE d == a - b
           q == d \div Radix
           r == d % Radix
<1>2. d \in Int /\ -Radix < d /\ d < Radix
  BY <1>1
<1> HIDE DEF d
<1>3. q \in Int /\ r \in 0 .. Radix - 1 /\ d = Radix * q + r
  BY <1>1, <1>2
<1> HIDE DEF q, r
<1>4. q < 1
  <2>1. SUFFICES ASSUME q >= 1 PROVE FALSE
    BY <1>3
  <2>2. PICK k \in Nat : q = k + 1
    <3>1. q - 1 \in Nat /\ q = (q - 1) + 1
      BY <1>3, <2>1
    <3>2. QED
      BY <3>1
  <2>3. Radix * q = Radix * k + Radix /\ Radix * k \in Nat
    BY <1>1, <2>2
  <2>4. QED
    BY <1>2, <1>3, <2>3
<1>5. q > -2
  <2>1. SUFFICES ASSUME q <= -2 PROVE FALSE
    BY <1>3
  <2>2. PICK k \in Nat : q + k + 2 = 0
    <3>1. (-q) - 2 \in Nat /\ q + ((-q) - 2) + 2 = 0
      BY <1>3, <2>1
    <3>2. QED
      BY <3>1
  <2>3. Radix * q = -(Radix * k) - 2 * Radix /\ Radix * k \in Nat
    <3>1. q = -k - 2
      BY <1>3, <2>2
    <3>2. QED
      BY <1>1, <3>1
  <2>4. QED
    BY <1>1, <1>2, <1>3, <2>3
<1>6. q = 0 \/ q + 1 = 0
  BY <1>3, <1>4, <1>5
<1>7. CASE q = 0
  <2>1. Radix * q = 0
    BY <1>1, <1>7
  <2>2. d = r /\ r >= 0
    BY <1>2, <1>3, <2>1
  <2>3. QED
    BY <1>1, <1>3, <2>2 DEF d, r, Limb
<1>8. CASE q + 1 = 0
  <2>1. q = -1
    BY <1>3, <1>8
  <2>2. Radix * q = -Radix
    BY <1>1, <2>1
  <2>3. r = d + Radix /\ d < 0
    BY <1>1, <1>2, <1>3, <2>2
  <2>4. QED
    BY <1>1, <1>3, <2>3 DEF d, r, Limb
<1>9. QED
  BY <1>6, <1>7, <1>8

(* Numbers of the same value have the same limbs.                          *)
LEMMA LimbsUnique ==
  ASSUME NEW c \in Number, NEW d \in Number, Value(c) = Value(d)
  PROVE  \A k \in 0 .. INTS - 1 : c[k] = d[k]
<1> USE LimbAssumption
<1> DEFINE U == {k \in 0 .. INTS - 1 : c[k] # d[k]}
<1>1. SUFFICES ASSUME U # {} PROVE FALSE
  OBVIOUS
<1>2. U \subseteq Nat
  OBVIOUS
<1> HIDE DEF U
<1>3. PICK m \in U : \A n \in U : m <= n
  BY <1>1, <1>2, LeastNumber
<1>4. m \in 0 .. INTS - 1 /\ c[m] # d[m]
  BY <1>3 DEF U
<1>5. \A k \in 0 .. m - 1 : c[k] = d[k]
  <2>1. SUFFICES ASSUME NEW k \in 0 .. m - 1, c[k] # d[k] PROVE FALSE
    OBVIOUS
  <2>2. k \in U /\ ~ (m <= k)
    BY <1>4, <2>1 DEF U
  <2>3. QED
    BY <1>3, <2>2
<1>6. c[m] \in Nat /\ d[m] \in Nat
  BY <1>4 DEF Number, Limb
<1>7. Value(c) \in Nat /\ Value(d) \in Nat
  <2>1. INTS \in 0 .. INTS
    OBVIOUS
  <2>2. QED
    BY <2>1, PrefixFacts DEF Value
<1>8. CASE c[m] > d[m]
  BY <1>4, <1>5, <1>7, <1>8, FirstDifferenceDecides
<1>9. CASE d[m] > c[m]
  <2>1. Value(d) > Value(c)
    BY <1>4, <1>5, <1>9, FirstDifferenceDecides
  <2>2. QED
    BY <1>7, <2>1
<1>10. QED
  BY <1>4, <1>6, <1>8, <1>9

-----------------------------------------------------------------------------
(* Multiplication and subtraction start at the bottom limb, so what they   *)
(* have done is a Low part of the number.                                  *)
Tail(c, k) == [j \in 0 .. INTS - 1 |-> IF j < k THEN 0 ELSE c[j]]

(* The part of a number from limb k down is a number.                      *)
LEMMA TailFacts ==
  ASSUME NEW c \in Number, NEW k \in 0 .. INTS
  PROVE  Tail(c, k) \in Number /\ Low(c, k) = Value(Tail(c, k)) /\ Low(c, k) \in Nat
<1> USE LimbAssumption
<1>1. Tail(c, k) \in Number
  BY DEF Tail, Number, Limb
<1>2. Low(c, k) = Value(Tail(c, k))
  BY DEF Low, Tail
<1>3. INTS \in 0 .. INTS
  OBVIOUS
<1>4. Value(Tail(c, k)) \in Nat
  BY <1>1, <1>3, PrefixFacts DEF Value
<1>5. QED
  BY <1>1, <1>2, <1>4

(* Two numbers that differ in limb k only.                                 *)
LEMMA OneLimb ==
  ASSUME NEW u \in Number, NEW v \in Number, NEW k \in 0 .. INTS - 1,
         \A j \in 0 .. INTS - 1 : j # k => u[j] = v[j],
         v[k] = 0
  PROVE  Value(u) = u[k] * Weight[INTS - 1 - k] + Value(v)
<1> USE LimbAssumption
<1> DEFINE T == {n \in Nat : (k + 1) + n <= INTS =>
                   Prefix(u)[(k + 1) + n] = u[k] * Weight[n] + Prefix(v)[(k + 1) + n]}
<1>1. u[k] \in Nat /\ Radix \in Nat
  BY DEF Number, Limb
<1>2. 0 \in T
  <2>1. k \in 0 .. INTS /\ \A j \in 0 .. k - 1 : u[j] = v[j]
    OBVIOUS
  <2>2. Prefix(u)[k] = Prefix(v)[k] /\ Prefix(v)[k] \in Nat
    BY <2>1, PrefixAgree, PrefixFacts
  <2>3. /\ Prefix(u)[k + 1] = Prefix(u)[k] * Radix + u[k]
        /\ Prefix(v)[k + 1] = Prefix(v)[k] * Radix + v[k]
    BY PrefixFacts
  <2>4. u[k] * Weight[0] = u[k]
    BY <1>1, WeightFacts
  <2> DEFINE a == u[k]
             P == Prefix(v)[k] * Radix
  <2>5. a \in Nat /\ P \in Nat
    BY <1>1, <2>2
  <2> HIDE DEF a, P
  <2>6. P + a = a + (P + 0)
    BY <2>5
  <2>7. Prefix(u)[k + 1] = u[k] * Weight[0] + Prefix(v)[k + 1]
    BY <2>2, <2>3, <2>4, <2>6 DEF a, P
  <2>8. (k + 1) + 0 = k + 1
    OBVIOUS
  <2>9. QED
    BY <2>7, <2>8
<1>3. ASSUME NEW n \in Nat, n \in T PROVE n + 1 \in T
  <2>1. SUFFICES ASSUME (k + 1) + (n + 1) <= INTS
                 PROVE  Prefix(u)[(k + 1) + (n + 1)]
                          = u[k] * Weight[n + 1] + Prefix(v)[(k + 1) + (n + 1)]
    OBVIOUS
  <2> DEFINE m == (k + 1) + n
  <2>2. m \in 0 .. INTS - 1 /\ m \in 0 .. INTS /\ m # k /\ (k + 1) + (n + 1) = m + 1
        /\ n \in 0 .. INTS - 2 /\ n \in 0 .. INTS - 1
    BY <2>1
  <2>3. Prefix(u)[m] = u[k] * Weight[n] + Prefix(v)[m]
    BY <1>3, <2>2
  <2> HIDE DEF m
  <2>4. /\ Prefix(u)[m + 1] = Prefix(u)[m] * Radix + u[m]
        /\ Prefix(v)[m + 1] = Prefix(v)[m] * Radix + v[m]
        /\ u[m] = v[m] /\ v[m] \in Nat /\ Prefix(v)[m] \in Nat
    <3>1. u[m] = v[m]
      BY <2>2
    <3>2. v[m] \in Limb
      BY <2>2 DEF Number
    <3>3. v[m] \in Nat
      BY <3>2 DEF Limb
    <3>4. QED
      BY <2>2, <3>1, <3>3, PrefixFacts
  <2>5. Weight[n + 1] = Weight[n] * Radix /\ Weight[n] \in Nat
    BY <2>2, WeightFacts
  <2> DEFINE a == u[k]
             W == Weight[n]
             P == Prefix(v)[m]
             l == v[m]
  <2>6. a \in Nat /\ W \in Nat /\ P \in Nat /\ l \in Nat
    BY <1>1, <2>4, <2>5
  <2> HIDE DEF a, W, P, l
  <2>7. (a * W + P) * Radix + l = a * (W * Radix) + (P * Radix + l)
    <3>1. (a * W + P) * Radix = a * (W * Radix) + P * Radix
      BY <1>1, <2>6
    <3> DEFINE A == a * (W * Radix)
               B == P * Radix
    <3>2. A \in Nat /\ B \in Nat
      BY <1>1, <2>6
    <3> HIDE DEF A, B
    <3>3. (A + B) + l = A + (B + l)
      BY <2>6, <3>2
    <3>4. QED
      BY <3>1, <3>3 DEF A, B
  <2>8. Prefix(u)[m + 1] = u[k] * Weight[n + 1] + Prefix(v)[m + 1]
    BY <2>3, <2>4, <2>5, <2>7 DEF a, W, P, l
  <2>9. QED
    BY <2>2, <2>8
<1>4. Nat \subseteq T
  <2> HIDE DEF T
  <2>1. QED
    BY <1>2, <1>3, SetInduction
<1>5. INTS - 1 - k \in Nat /\ (k + 1) + (INTS - 1 - k) = INTS
  OBVIOUS
<1>6. INTS - 1 - k \in T
  BY <1>4, <1>5
<1>7. QED
  BY <1>5, <1>6 DEF Value

(* The low part from limb k on is limb k, weighed, and the part below.     *)
LEMMA LowFacts ==
  ASSUME NEW c \in Number
  PROVE  /\ Low(c, 0) = Value(c)
         /\ Low(c, INTS) = 0
         /\ \A k \in 0 .. INTS - 1 :
              Low(c, k) = c[k] * Weight[INTS - 1 - k] + Low(c, k + 1)
<1> USE LimbAssumption
<1>1. Low(c, 0) = Value(c)
  <2>1. Tail(c, 0) = c
    BY DEF Tail, Number
  <2>2. 0 \in 0 .. INTS
    OBVIOUS
  <2>3. QED
    BY <2>1, <2>2, TailFacts
<1>2. Low(c, INTS) = 0
  <2> DEFINE u == Tail(c, INTS)
             T == {n \in Nat : n <= INTS => Prefix(u)[n] = 0}
  <2>1. INTS \in 0 .. INTS
    OBVIOUS
  <2>2. u \in Number /\ Low(c, INTS) = Value(u)
    BY <2>1, TailFacts
  <2>3. \A j \in 0 .. INTS - 1 : u[j] = 0
    BY DEF Tail
  <2> HIDE DEF u
  <2>4. 0 \in T
    BY <2>2, PrefixFacts
  <2>5. ASSUME NEW n \in Nat, n \in T PROVE n + 1 \in T
    <3>1. SUFFICES ASSUME n + 1 <= INTS PROVE Prefix(u)[n + 1] = 0
      OBVIOUS
    <3>2. n \in 0 .. INTS - 1 /\ Prefix(u)[n] = 0
      BY <2>5, <3>1
    <3>3. 0 * Radix + 0 = 0
      OBVIOUS
    <3>4. QED
      BY <2>2, <2>3, <3>2, <3>3, PrefixFacts
  <2>6. Nat \subseteq T
    <3> HIDE DEF T
    <3>1. QED
      BY <2>4, <2>5, SetInduction
  <2>7. QED
    BY <2>2, <2>6 DEF Value
<1>3. ASSUME NEW k \in 0 .. INTS - 1
      PROVE  Low(c, k) = c[k] * Weight[INTS - 1 - k] + Low(c, k + 1)
  <2>1. k \in 0 .. INTS /\ k + 1 \in 0 .. INTS
    OBVIOUS
  <2>2. /\ Tail(c, k) \in Number /\ Low(c, k) = Value(Tail(c, k))
        /\ Tail(c, k + 1) \in Number /\ Low(c, k + 1) = Value(Tail(c, k + 1))
    BY <2>1, TailFacts
  <2>3. Tail(c, k)[k] = c[k] /\ Tail(c, k + 1)[k] = 0
    BY DEF Tail
  <2>4. \A j \in 0 .. INTS - 1 : j # k => Tail(c, k)[j] = Tail(c, k + 1)[j]
    BY DEF Tail
  <2>5. Value(Tail(c, k)) = Tail(c, k)[k] * Weight[INTS - 1 - k] + Value(Tail(c, k + 1))
    BY <2>2, <2>3, <2>4, OneLimb
  <2>6. QED
    BY <2>2, <2>3, <2>5
<1>4. QED
  BY <1>1, <1>2, <1>3

(* Induction from the lowest limb up.                                      *)
LEMMA UpwardInduction ==
  ASSUME NEW S, INTS \in S,
         \A k \in 0 .. INTS - 1 : k + 1 \in S => k \in S
  PROVE  0 .. INTS \subseteq S
<1> USE LimbAssumption
<1> DEFINE T == {n \in Nat : n <= INTS => INTS - n \in S}
<1>1. 0 \in T
  <2>1. INTS - 0 = INTS
    OBVIOUS
  <2>2. QED
    BY <2>1
<1>2. ASSUME NEW n \in Nat, n \in T PROVE n + 1 \in T
  <2>1. SUFFICES ASSUME n + 1 <= INTS PROVE INTS - (n + 1) \in S
    OBVIOUS
  <2>2. /\ INTS - (n + 1) \in 0 .. INTS - 1 /\ (INTS - (n + 1)) + 1 = INTS - n
        /\ INTS - n \in S
    BY <1>2, <2>1
  <2>3. QED
    BY <2>2
<1>3. Nat \subseteq T
  <2> HIDE DEF T
  <2>1. QED
    BY <1>1, <1>2, SetInduction
<1>4. SUFFICES ASSUME NEW k \in 0 .. INTS PROVE k \in S
  OBVIOUS
<1>5. INTS - k \in Nat /\ INTS - k <= INTS /\ INTS - (INTS - k) = k
  OBVIOUS
<1>6. INTS - k \in T
  BY <1>3, <1>5
<1>7. QED
  BY <1>5, <1>6

(* A low part is below the weight of the next limb, a number below Size.   *)
LEMMA LowBelow ==
  ASSUME NEW c \in Number
  PROVE  /\ \A k \in 1 .. INTS : Low(c, k) < Weight[INTS - k]
         /\ Value(c) < Size
<1> USE LimbAssumption
<1>1. ASSUME NEW k \in 0 .. INTS - 1, Low(c, k + 1) < Weight[INTS - (k + 1)]
      PROVE  Low(c, k) < Weight[INTS - 1 - k] * Radix
  <2> DEFINE a == c[k]
             W == Weight[INTS - 1 - k]
             L == Low(c, k + 1)
  <2>1. INTS - (k + 1) = INTS - 1 - k /\ INTS - 1 - k \in 0 .. INTS - 1 /\ k + 1 \in 0 .. INTS
    OBVIOUS
  <2>2. a \in Nat /\ a + 1 <= Radix /\ W \in Nat /\ L \in Nat /\ L < W
    <3>1. c[k] \in Limb
      BY DEF Number
    <3>2. a \in Nat /\ a + 1 <= Radix
      BY <3>1 DEF Limb
    <3>3. W \in Nat
      BY <2>1, WeightFacts
    <3>4. L \in Nat
      BY <2>1, TailFacts
    <3>5. L < W
      BY <1>1, <2>1
    <3>6. QED
      BY <3>2, <3>3, <3>4, <3>5
  <2>3. Low(c, k) = a * W + L
    BY LowFacts
  <2> HIDE DEF a, W, L
  <2>4. (a + 1) * W = a * W + W /\ a * W \in Nat
    BY <2>2
  <2>5. Radix * W >= (a + 1) * W
    BY <2>2, TimesMonotone
  <2>6. Radix * W = W * Radix /\ Radix * W \in Nat
    BY <2>2
  <2>7. Low(c, k) < W * Radix
    BY <2>2, <2>3, <2>4, <2>5, <2>6
  <2>8. QED
    BY <2>7 DEF W
<1> DEFINE S == {k \in 0 .. INTS : k >= 1 => Low(c, k) < Weight[INTS - k]}
<1>2. INTS \in S
  <2>1. INTS - INTS = 0
    OBVIOUS
  <2>2. Low(c, INTS) < Weight[INTS - INTS]
    BY <2>1, LowFacts, WeightFacts
  <2>3. QED
    BY <2>2
<1>3. ASSUME NEW k \in 0 .. INTS - 1, k + 1 \in S PROVE k \in S
  <2>1. SUFFICES ASSUME k >= 1 PROVE Low(c, k) < Weight[INTS - k]
    OBVIOUS
  <2>2. Low(c, k) < Weight[INTS - 1 - k] * Radix
    BY <1>1, <1>3
  <2>3. INTS - 1 - k \in 0 .. INTS - 2 /\ (INTS - 1 - k) + 1 = INTS - k
    BY <2>1
  <2>4. QED
    BY <2>2, <2>3, WeightFacts
<1>4. 0 .. INTS \subseteq S
  <2> HIDE DEF S
  <2>1. QED
    BY <1>2, <1>3, UpwardInduction
<1>5. 0 \in 0 .. INTS - 1 /\ 0 + 1 = 1 /\ INTS - 1 - 0 = INTS - 1 /\ 1 \in 1 .. INTS
      /\ INTS - (0 + 1) = INTS - 1
  OBVIOUS
<1>6. \A k \in 1 .. INTS : Low(c, k) < Weight[INTS - k]
  BY <1>4
<1>7. Low(c, 0) < Weight[INTS - 1] * Radix
  BY <1>1, <1>5, <1>6
<1>8. QED
  BY <1>6, <1>7, LowFacts DEF Size

(* A limb counts a positive power of the radix.                            *)
LEMMA WeightPositive == \A k \in 0 .. INTS - 1 : Weight[k] \in Nat \ {0}
<1> USE LimbAssumption
<1> DEFINE T == {k \in Nat : k <= INTS - 1 => Weight[k] >= 1}
<1>1. 0 \in T
  BY WeightFacts
<1>2. ASSUME NEW k \in Nat, k \in T PROVE k + 1 \in T
  <2>1. SUFFICES ASSUME k + 1 <= INTS - 1 PROVE Weight[k + 1] >= 1
    OBVIOUS
  <2> DEFINE W == Weight[k]
  <2>2. k \in 0 .. INTS - 2 /\ k \in 0 .. INTS - 1
    BY <2>1
  <2>3. W >= 1 /\ W \in Nat /\ Weight[k + 1] = W * Radix
    BY <1>2, <2>1, <2>2, WeightFacts
  <2> HIDE DEF W
  <2>4. W * Radix >= 1 * Radix
    BY <2>3, TimesMonotone
  <2>5. W * Radix \in Nat /\ 1 * Radix = Radix
    BY <2>3
  <2>6. QED
    BY <2>3, <2>4, <2>5
<1>3. Nat \subseteq T
  <2> HIDE DEF T
  <2>1. QED
    BY <1>1, <1>2, SetInduction
<1>4. QED
  BY <1>3, WeightFacts

-----------------------------------------------------------------------------
(* Multiplication by m, limb by limb: e[k] is the carry out of limb k, and *)
(* lost[k] a carry that the sum in limb k does not keep.                   *)
Carries(m, c, d, e, lost) ==
  /\ e \in [0 .. INTS -> Nat] /\ e[INTS] = 0
  /\ lost \in [0 .. INTS - 1 -> {0, 1}]
  /\ \A k \in 0 .. INTS - 1 : m * c[k] + e[k + 1] = Radix * (e[k] + lost[k]) + d[k]

(* What is missing from limb k on, and how much it can be.                 *)
Missing(m, c, d, e, lost, k, E) ==
  /\ E \in Nat
  /\ m * Low(c, k) = (Low(d, k) + e[k] * Weight[INTS - k]) + E
  /\ E < 2 * Weight[INTS - k]
  /\ E = 0 <=> \A j \in k .. INTS - 1 : lost[j] = 0

(* One limb of the product of a number and m, with a carry coming in from  *)
(* below and one going out.                                                *)
LEMMA CarryIntoLimb ==
  ASSUME NEW m \in Nat, NEW c \in Number, NEW d \in Number, NEW e, NEW lost,
         Carries(m, c, d, e, lost), NEW k \in 0 .. INTS - 1, NEW E,
         Missing(m, c, d, e, lost, k + 1, E)
  PROVE  LET W == Weight[INTS - 1 - k] * Radix
         IN  /\ m * Low(c, k) = (Low(d, k) + (e[k] + lost[k]) * W) + E
             /\ E < W
<1> USE LimbAssumption
<1> DEFINE V == Weight[INTS - 1 - k]
           a == c[k]
           b == d[k]
           o == e[k] + lost[k]
           f == e[k + 1]
           La == Low(c, k + 1)
           Lb == Low(d, k + 1)
<1>1. INTS - (k + 1) = INTS - 1 - k /\ INTS - 1 - k \in 0 .. INTS - 1 /\ k + 1 \in 0 .. INTS
      /\ k \in 0 .. INTS
  OBVIOUS
<1>2. V \in Nat /\ La \in Nat /\ Lb \in Nat
  BY <1>1, WeightFacts, TailFacts
<1>3. a \in Nat /\ b \in Nat
  <2>1. c[k] \in Limb /\ d[k] \in Limb
    BY DEF Number
  <2>2. QED
    BY <2>1 DEF Limb
<1>4. o \in Nat /\ f \in Nat
  <2>1. e[k] \in Nat /\ e[k + 1] \in Nat /\ lost[k] \in {0, 1}
    BY <1>1 DEF Carries
  <2>2. QED
    BY <2>1
<1>5. m * a + f = Radix * o + b
  BY DEF Carries
<1>6. E \in Nat /\ m * La = (Lb + f * V) + E /\ E < 2 * V
  BY <1>1 DEF Missing
<1>7. Low(c, k) = a * V + La /\ Low(d, k) = b * V + Lb
  BY LowFacts
<1> HIDE DEF V, a, b, o, f, La, Lb
<1>8. m * (a * V + La) = ((b * V + Lb) + o * (V * Radix)) + E
  <2>1. m * (a * V + La) = (m * a) * V + m * La
    BY <1>2, <1>3
  <2>2. (m * a) * V + f * V = (m * a + f) * V
    BY <1>2, <1>3, <1>4
  <2>3. (Radix * o + b) * V = o * (V * Radix) + b * V
    BY <1>2, <1>3, <1>4
  <2> DEFINE A == (m * a) * V
             F == f * V
             O == o * (V * Radix)
             B == b * V
  <2>4. A \in Nat /\ F \in Nat /\ O \in Nat /\ B \in Nat
    BY <1>2, <1>3, <1>4
  <2>5. A + F = O + B
    BY <1>5, <2>2, <2>3
  <2>6. m * (a * V + La) = A + ((Lb + F) + E)
    BY <1>6, <2>1
  <2> HIDE DEF A, F, O, B
  <2>7. A + ((Lb + F) + E) = ((B + Lb) + O) + E
    BY <1>2, <1>6, <2>4, <2>5
  <2>8. QED
    BY <2>6, <2>7 DEF B, O
<1>9. E < V * Radix
  <2>1. Radix * V >= 2 * V
    BY <1>2, TimesMonotone
  <2>2. Radix * V = V * Radix /\ Radix * V \in Nat
    BY <1>2
  <2>3. QED
    BY <1>2, <1>6, <2>1, <2>2
<1>10. QED
  BY <1>7, <1>8, <1>9 DEF V, o

(* The product is short of m times the number by the weight of the carries *)
(* lost, beside what goes out at the top.                                  *)
LEMMA CarryChain ==
  ASSUME NEW m \in Nat, NEW c \in Number, NEW d \in Number, NEW e, NEW lost,
         Carries(m, c, d, e, lost)
  PROVE  \E E \in Nat :
           /\ m * Value(c) = (Value(d) + (e[0] + lost[0]) * Size) + E
           /\ E < Size
           /\ E = 0 <=> \A j \in 1 .. INTS - 1 : lost[j] = 0
<1> USE LimbAssumption
<1> DEFINE S == {k \in 0 .. INTS : k >= 1 => \E E \in Nat : Missing(m, c, d, e, lost, k, E)}
<1>1. INTS \in S
  <2>1. Missing(m, c, d, e, lost, INTS, 0)
    <3>1. INTS - INTS = 0 /\ 0 \in Nat
      OBVIOUS
    <3>2. Weight[0] = 1 /\ Low(c, INTS) = 0 /\ Low(d, INTS) = 0 /\ e[INTS] = 0
      BY WeightFacts, LowFacts DEF Carries
    <3>3. m * 0 = (0 + 0 * 1) + 0 /\ 0 < 2 * 1
      OBVIOUS
    <3>4. \A j \in INTS .. INTS - 1 : lost[j] = 0
      OBVIOUS
    <3>5. QED
      BY <3>1, <3>2, <3>3, <3>4 DEF Missing
  <2>2. QED
    BY <2>1
<1>2. ASSUME NEW k \in 0 .. INTS - 1, k + 1 \in S PROVE k \in S
  <2>1. SUFFICES ASSUME k >= 1 PROVE \E E \in Nat : Missing(m, c, d, e, lost, k, E)
    OBVIOUS
  <2>2. PICK E \in Nat : Missing(m, c, d, e, lost, k + 1, E)
    BY <1>2
  <2> DEFINE W == Weight[INTS - k]
             L == Low(d, k)
  <2>3. W = Weight[INTS - 1 - k] * Radix /\ W \in Nat \ {0}
    <3>1. INTS - 1 - k \in 0 .. INTS - 2 /\ (INTS - 1 - k) + 1 = INTS - k
          /\ INTS - k \in 0 .. INTS - 1
      BY <2>1
    <3>2. QED
      BY <3>1, WeightFacts, WeightPositive
  <2>4. m * Low(c, k) = (L + (e[k] + lost[k]) * W) + E /\ E < W
    BY <2>2, <2>3, CarryIntoLimb
  <2>5. e[k] \in Nat /\ lost[k] \in {0, 1} /\ L \in Nat
    <3>1. k \in 0 .. INTS
      OBVIOUS
    <3>2. QED
      BY <3>1, TailFacts DEF Carries
  <2>6. E = 0 <=> \A j \in k + 1 .. INTS - 1 : lost[j] = 0
    BY <2>2 DEF Missing
  <2> HIDE DEF L, W
  <2> DEFINE D == E + lost[k] * W
  <2>7. D \in Nat /\ D < 2 * W
    BY <2>3, <2>4, <2>5
  <2>8. (L + (e[k] + lost[k]) * W) + E = (L + e[k] * W) + D
    <3>1. (e[k] + lost[k]) * W = e[k] * W + lost[k] * W
      BY <2>3, <2>5
    <3> DEFINE P == e[k] * W
               Q == lost[k] * W
    <3>2. P \in Nat /\ Q \in Nat
      BY <2>3, <2>5
    <3> HIDE DEF P, Q
    <3>3. (L + (P + Q)) + E = (L + P) + (E + Q)
      BY <2>5, <3>2
    <3>4. QED
      BY <3>1, <3>3 DEF P, Q
  <2>9. D = 0 <=> E = 0 /\ lost[k] = 0
    BY <2>3, <2>5
  <2>10. D = 0 <=> \A j \in k .. INTS - 1 : lost[j] = 0
    <3>1. ASSUME lost[k] = 0, \A j \in k + 1 .. INTS - 1 : lost[j] = 0,
                 NEW j \in k .. INTS - 1
          PROVE  lost[j] = 0
      <4>1. j = k \/ j \in k + 1 .. INTS - 1
        OBVIOUS
      <4>2. QED
        BY <3>1, <4>1
    <3>2. ASSUME \A j \in k .. INTS - 1 : lost[j] = 0
          PROVE  lost[k] = 0 /\ \A j \in k + 1 .. INTS - 1 : lost[j] = 0
      BY <3>2
    <3>3. QED
      BY <2>6, <2>9, <3>1, <3>2
  <2> HIDE DEF D
  <2>11. Missing(m, c, d, e, lost, k, D)
    BY <2>4, <2>7, <2>8, <2>10 DEF Missing, L, W
  <2>12. QED
    BY <2>7, <2>11
<1>3. 0 .. INTS \subseteq S
  <2> HIDE DEF S
  <2>1. QED
    BY <1>1, <1>2, UpwardInduction
<1>4. 1 \in 0 .. INTS /\ 1 >= 1 /\ 0 + 1 = 1 /\ 0 \in 0 .. INTS - 1 /\ INTS - 1 - 0 = INTS - 1
  OBVIOUS
<1>5. PICK E \in Nat : Missing(m, c, d, e, lost, 0 + 1, E)
  BY <1>3, <1>4
<1> DEFINE z == 0
<1>6. z \in 0 .. INTS - 1 /\ Missing(m, c, d, e, lost, z + 1, E)
  BY <1>5
<1> HIDE DEF z
<1>7. /\ m * Low(c, z) = (Low(d, z) + (e[z] + lost[z]) * (Weight[INTS - 1 - z] * Radix)) + E
      /\ E < Weight[INTS - 1 - z] * Radix
  BY <1>6, CarryIntoLimb
<1>8. /\ m * Value(c) = (Value(d) + (e[0] + lost[0]) * Size) + E
      /\ E < Size
  BY <1>4, <1>7, LowFacts DEF z, Size
<1>9. E = 0 <=> \A j \in 1 .. INTS - 1 : lost[j] = 0
  BY <1>4, <1>5 DEF Missing
<1>10. QED
  BY <1>8, <1>9

(* Every number is below the size of its type.                             *)
LEMMA NumberBelow ==
  ASSUME NEW c \in Number
  PROVE  Value(c) \in 0 .. Size - 1 /\ Size \in Nat \ {0}
<1> USE LimbAssumption
<1>1. INTS \in 0 .. INTS /\ INTS - 1 \in 0 .. INTS - 1
  OBVIOUS
<1>2. Value(c) \in Nat
  BY <1>1, PrefixFacts DEF Value
<1>3. Size \in Nat
  <2>1. Weight[INTS - 1] \in Nat
    BY <1>1, WeightFacts
  <2>2. QED
    BY <2>1 DEF Size
<1>4. Value(c) < Size
  BY LowBelow
<1>5. QED
  BY <1>2, <1>3, <1>4

(* What mul_2 and mul_3 write into limb k.                                 *)
Double(c, k) ==
  (2 * c[k] + (IF k = INTS - 1 THEN 0 ELSE (1 * c[k + 1]) \div (Radix \div 2))) % Radix

Triple(c, k) ==
  (((3 * c[k]) % Radix)
     + (IF k = INTS - 1 THEN 0 ELSE (3 * c[k + 1]) \div Radix)) % Radix

(* Twice a limb and the carry from below it fit: the top bit goes out.     *)
LEMMA DoubleLimb ==
  ASSUME NEW a \in Limb, NEW f \in {0, 1}
  PROVE  LET t == a \div (Radix \div 2)
         IN  t \in {0, 1} /\ 2 * a + f = Radix * t + ((2 * a + f) % Radix)
<1> USE LimbAssumption
<1> DEFINE h == Radix \div 2
           t == a \div h
           r == a % h
<1>1. Radix = 2 * h /\ h \in Nat \ {0}
  OBVIOUS
<1> HIDE DEF h
<1>2. a \in Nat /\ a < 2 * h
  BY <1>1 DEF Limb
<1>3. t \in Nat /\ r \in 0 .. h - 1 /\ a = h * t + r
  BY <1>1, <1>2
<1> HIDE DEF t, r
<1>4. t \in {0, 1}
  <2>1. SUFFICES ASSUME t >= 2 PROVE FALSE
    BY <1>3
  <2>2. t * h >= 2 * h
    BY <1>1, <1>3, <2>1, TimesMonotone
  <2>3. t * h = h * t /\ h * t \in Nat
    BY <1>1, <1>3
  <2>4. QED
    BY <1>1, <1>2, <1>3, <2>2, <2>3
<1> DEFINE s == 2 * r + f
<1>5. s \in 0 .. Radix - 1
  BY <1>1, <1>3
<1>6. 2 * a + f = Radix * t + s
  <2>1. 2 * (h * t) = Radix * t /\ h * t \in Nat
    BY <1>1, <1>3
  <2>2. QED
    BY <1>3, <2>1
<1> HIDE DEF s
<1>7. (Radix * t + s) % Radix = s
  BY <1>3, <1>5, RemainderUnique
<1>8. QED
  BY <1>4, <1>6, <1>7 DEF t, h

(* mul_2 multiplies by 2, modulo the size of the type.                     *)
LEMMA Doubling ==
  ASSUME NEW c \in Number, NEW d \in Number, \A k \in 0 .. INTS - 1 : d[k] = Double(c, k)
  PROVE  Value(d) = (2 * Value(c)) % Size
<1> USE LimbAssumption
<1> DEFINE e == [k \in 0 .. INTS |-> IF k = INTS THEN 0 ELSE c[k] \div (Radix \div 2)]
           lost == [k \in 0 .. INTS - 1 |-> 0]
<1>1. ASSUME NEW k \in 0 .. INTS - 1 PROVE c[k] \in Limb
  BY DEF Number
<1>2. ASSUME NEW k \in 0 .. INTS PROVE e[k] \in {0, 1}
  <2>1. CASE k = INTS
    BY <2>1
  <2>2. CASE k # INTS
    <3>1. k \in 0 .. INTS - 1 /\ 0 \in {0, 1}
      BY <2>2
    <3>2. c[k] \div (Radix \div 2) \in {0, 1}
      BY <1>1, <3>1, DoubleLimb
    <3>3. QED
      BY <2>2, <3>2
  <2>3. QED
    BY <2>1, <2>2
<1>3. ASSUME NEW k \in 0 .. INTS - 1
      PROVE  2 * c[k] + e[k + 1] = Radix * (e[k] + lost[k]) + d[k]
  <2>1. k \in 0 .. INTS /\ k + 1 \in 0 .. INTS /\ k # INTS
    OBVIOUS
  <2>2. e[k] = c[k] \div (Radix \div 2) /\ e[k] \in {0, 1} /\ e[k + 1] \in {0, 1}
    BY <1>2, <2>1
  <2>3. d[k] = (2 * c[k] + e[k + 1]) % Radix
    <3>1. CASE k = INTS - 1
      BY <3>1 DEF Double
    <3>2. CASE k # INTS - 1
      <4>1. k + 1 # INTS /\ k + 1 \in 0 .. INTS - 1 /\ 1 * c[k + 1] = c[k + 1]
        <5>1. k + 1 # INTS /\ k + 1 \in 0 .. INTS - 1
          BY <3>2
        <5>2. c[k + 1] \in Nat
          BY <1>1, <5>1 DEF Limb
        <5>3. QED
          BY <5>1, <5>2
      <4>2. e[k + 1] = (1 * c[k + 1]) \div (Radix \div 2)
        BY <2>1, <4>1
      <4>3. QED
        BY <3>2, <4>2 DEF Double
    <3>3. QED
      BY <3>1, <3>2
  <2> HIDE DEF e
  <2>4. 2 * c[k] + e[k + 1] = Radix * e[k] + ((2 * c[k] + e[k + 1]) % Radix)
    BY <1>1, <2>2, DoubleLimb
  <2>5. e[k] + lost[k] = e[k]
    BY <2>2
  <2>6. QED
    BY <2>3, <2>4, <2>5
<1>4. e \in [0 .. INTS -> Nat] /\ e[INTS] = 0 /\ lost \in [0 .. INTS - 1 -> {0, 1}]
  <2>1. \A k \in 0 .. INTS : e[k] \in Nat
    BY <1>2
  <2>2. QED
    BY <2>1
<1>5. lost[0] = 0 /\ \A j \in 1 .. INTS - 1 : lost[j] = 0
  OBVIOUS
<1>6. e[0] \in Nat
  BY <1>4
<1> HIDE DEF e, lost
<1> DEFINE two == 2
<1>7. two \in Nat /\ Carries(two, c, d, e, lost)
  BY <1>3, <1>4 DEF Carries
<1> HIDE DEF two
<1>8. PICK E \in Nat : /\ two * Value(c) = (Value(d) + (e[0] + lost[0]) * Size) + E
                       /\ E = 0 <=> \A j \in 1 .. INTS - 1 : lost[j] = 0
  BY <1>7, CarryChain
<1>9. Value(d) \in 0 .. Size - 1 /\ Size \in Nat \ {0} /\ Value(c) \in Nat
  BY NumberBelow
<1>10. two * Value(c) = Size * e[0] + Value(d)
  <2> DEFINE q == e[0] * Size
  <2>1. (e[0] + lost[0]) * Size = q /\ q = Size * e[0] /\ q \in Nat
    BY <1>5, <1>6, <1>9
  <2>2. E = 0
    BY <1>5, <1>8
  <2> HIDE DEF q
  <2>3. (Value(d) + q) + 0 = q + Value(d)
    BY <1>9, <2>1
  <2>4. QED
    BY <1>8, <2>1, <2>2, <2>3
<1>11. QED
  BY <1>6, <1>9, <1>10, RemainderUnique DEF two

(* Three times a limb and the carry from below it: one carry goes out, and *)
(* the sum in the limb may lose another.                                   *)
LEMMA TripleLimb ==
  ASSUME NEW a \in Limb, NEW f \in 0 .. 2
  PROVE  LET o == (3 * a) \div Radix
             s == ((3 * a) % Radix) + f
             l == IF s >= Radix THEN 1 ELSE 0
         IN  o \in 0 .. 2 /\ 3 * a + f = Radix * (o + l) + (s % Radix)
<1> USE LimbAssumption
<1> DEFINE u == 3 * a
           o == u \div Radix
           r == u % Radix
           s == r + f
           l == IF s >= Radix THEN 1 ELSE 0
<1>1. u \in Nat /\ u < 3 * Radix /\ Radix \in Nat \ {0}
  BY DEF Limb
<1> HIDE DEF u
<1>2. o \in Nat /\ r \in 0 .. Radix - 1 /\ u = Radix * o + r
  BY <1>1
<1> HIDE DEF o, r
<1>3. o \in 0 .. 2
  <2>1. SUFFICES ASSUME o >= 3 PROVE FALSE
    BY <1>2
  <2>2. o * Radix >= 3 * Radix
    BY <1>1, <1>2, <2>1, TimesMonotone
  <2>3. o * Radix = Radix * o /\ Radix * o \in Nat
    BY <1>1, <1>2
  <2>4. QED
    BY <1>1, <1>2, <2>2, <2>3
<1>4. s \in Nat /\ s < 2 * Radix
  BY <1>2
<1>5. Radix * (o + l) = Radix * o + Radix * l /\ Radix * o \in Nat
  BY <1>2
<1>6. CASE s >= Radix
  <2> DEFINE one == 1
             rest == s - Radix
  <2>1. one \in Nat /\ rest \in 0 .. Radix - 1 /\ s = Radix * one + rest
    BY <1>4, <1>6
  <2>2. u + f = Radix * o + s
    BY <1>2
  <2>3. l = 1 /\ rest + Radix = s
    BY <1>4, <1>6
  <2> HIDE DEF one, rest, s, l
  <2>4. s % Radix = rest
    <3>1. (Radix * one + rest) % Radix = rest
      BY <1>1, <2>1, RemainderUnique
    <3>2. QED
      BY <2>1, <3>1
  <2>5. u + f = Radix * (o + l) + (s % Radix)
    <3>1. Radix * l = Radix
      BY <1>1, <2>3
    <3>2. QED
      BY <1>1, <1>2, <1>4, <1>5, <2>1, <2>2, <2>3, <2>4, <3>1
  <2>6. QED
    BY <1>3, <2>5 DEF l, s, o, r, u
<1>7. CASE ~ (s >= Radix)
  <2> DEFINE none == 0
  <2>1. none \in Nat /\ s \in 0 .. Radix - 1 /\ s = Radix * none + s
    BY <1>4, <1>7
  <2>2. u + f = Radix * o + s
    BY <1>2
  <2>3. Radix * l = 0
    BY <1>7
  <2> HIDE DEF none, s, l
  <2>4. s % Radix = s
    BY <2>1, RemainderUnique
  <2>5. u + f = Radix * (o + l) + (s % Radix)
    BY <1>2, <1>4, <1>5, <2>1, <2>2, <2>3, <2>4
  <2>6. QED
    BY <1>3, <2>5 DEF l, s, o, r, u
<1>8. QED
  BY <1>6, <1>7

(* A product short of E, modulo the width, is right only if E is 0.        *)
LEMMA ShortProduct ==
  ASSUME NEW m \in Nat \ {0}, NEW q \in Nat, NEW v \in 0 .. m - 1, NEW E \in 0 .. m - 1
  PROVE  v = ((v + q * m) + E) % m <=> E = 0
<1> DEFINE p == (v + q * m) + E
<1>1. q * m = m * q /\ m * q \in Nat
  OBVIOUS
<1>2. CASE v + E < m
  <2> DEFINE r == v + E
  <2>1. r \in 0 .. m - 1 /\ p = m * q + r
    BY <1>1, <1>2
  <2>2. r = v <=> E = 0
    OBVIOUS
  <2> HIDE DEF r, p
  <2>3. p % m = r
    BY <2>1, RemainderUnique
  <2>4. QED
    BY <2>2, <2>3 DEF p
<1>3. CASE ~ (v + E < m)
  <2> DEFINE r == (v + E) - m
             n == q + 1
  <2>1. m * n = m * q + m
    OBVIOUS
  <2>2. n \in Nat /\ r \in 0 .. m - 1 /\ p = m * n + r
    BY <1>1, <1>3, <2>1
  <2>3. r # v /\ E # 0
    BY <1>3
  <2> HIDE DEF r, p, n
  <2>4. p % m = r
    BY <2>2, RemainderUnique
  <2>5. QED
    BY <2>3, <2>4 DEF p
<1>4. QED
  BY <1>2, <1>3

(* mul_3 multiplies by 3 unless the carry into a middle limb meets a limb  *)
(* it overflows.                                                           *)
LEMMA Tripling ==
  ASSUME NEW c \in Number, NEW d \in Number, \A k \in 0 .. INTS - 1 : d[k] = Triple(c, k)
  PROVE  Value(d) = (3 * Value(c)) % Size
           <=> ~ \E k \in 1 .. INTS - 2 :
                   ((3 * c[k]) % Radix) + ((3 * c[k + 1]) \div Radix) >= Radix
<1> USE LimbAssumption
<1> DEFINE e == [k \in 0 .. INTS |-> IF k = INTS THEN 0 ELSE (3 * c[k]) \div Radix]
           s(k) == ((3 * c[k]) % Radix) + e[k + 1]
           lost == [k \in 0 .. INTS - 1 |-> IF s(k) >= Radix THEN 1 ELSE 0]
<1>1. ASSUME NEW k \in 0 .. INTS - 1 PROVE c[k] \in Limb
  BY DEF Number
<1>2. ASSUME NEW k \in 0 .. INTS PROVE e[k] \in 0 .. 2
  <2>1. CASE k = INTS
    BY <2>1
  <2>2. CASE k # INTS
    <3>1. k \in 0 .. INTS - 1 /\ 0 \in 0 .. 2
      BY <2>2
    <3>2. (3 * c[k]) \div Radix \in 0 .. 2
      BY <1>1, <3>1, TripleLimb
    <3>3. QED
      BY <2>2, <3>2
  <2>3. QED
    BY <2>1, <2>2
<1>3. ASSUME NEW k \in 0 .. INTS - 2
      PROVE  e[k + 1] = (3 * c[k + 1]) \div Radix
  <2>1. k + 1 \in 0 .. INTS /\ k + 1 # INTS
    OBVIOUS
  <2>2. QED
    BY <2>1
<1>4. ASSUME NEW k \in 0 .. INTS - 1
      PROVE  3 * c[k] + e[k + 1] = Radix * (e[k] + lost[k]) + d[k]
  <2>1. k \in 0 .. INTS /\ k + 1 \in 0 .. INTS /\ k # INTS
    OBVIOUS
  <2>2. e[k] = (3 * c[k]) \div Radix /\ e[k + 1] \in 0 .. 2
    BY <1>2, <2>1
  <2>3. d[k] = s(k) % Radix
    <3>1. CASE k = INTS - 1
      <4>1. e[k + 1] = 0
        BY <3>1
      <4>2. QED
        BY <3>1, <4>1 DEF Triple
    <3>2. CASE k # INTS - 1
      <4>1. k \in 0 .. INTS - 2
        BY <3>2
      <4>2. e[k + 1] = (3 * c[k + 1]) \div Radix
        BY <1>3, <4>1
      <4> HIDE DEF e
      <4>3. QED
        BY <3>2, <4>2 DEF Triple
    <3>3. QED
      BY <3>1, <3>2
  <2>4. lost[k] = IF s(k) >= Radix THEN 1 ELSE 0
    OBVIOUS
  <2> HIDE DEF e, lost
  <2>5. QED
    BY <1>1, <2>2, <2>3, <2>4, TripleLimb
<1>5. e \in [0 .. INTS -> Nat] /\ e[INTS] = 0 /\ lost \in [0 .. INTS - 1 -> {0, 1}]
  <2>1. \A k \in 0 .. INTS : e[k] \in Nat
    BY <1>2
  <2>2. e \in [0 .. INTS -> Nat] /\ e[INTS] = 0
    BY <2>1
  <2>3. QED
    BY <2>2
<1>6. \A j \in 1 .. INTS - 1 : lost[j] = 0
        <=> ~ (j \in 1 .. INTS - 2 /\ ((3 * c[j]) % Radix) + ((3 * c[j + 1]) \div Radix) >= Radix)
  <2>1. TAKE j \in 1 .. INTS - 1
  <2>2. j \in 0 .. INTS - 1
    OBVIOUS
  <2>3. CASE j \in 1 .. INTS - 2
    <3>1. j \in 0 .. INTS - 2
      BY <2>3
    <3>2. e[j + 1] = (3 * c[j + 1]) \div Radix
      BY <1>3, <3>1
    <3> DEFINE t == ((3 * c[j]) % Radix) + ((3 * c[j + 1]) \div Radix)
    <3>3. s(j) = t
      BY <3>2
    <3>4. lost[j] = IF s(j) >= Radix THEN 1 ELSE 0
      BY <2>2
    <3> HIDE DEF e, lost, s, t
    <3>5. lost[j] = IF t >= Radix THEN 1 ELSE 0
      BY <3>3, <3>4
    <3>6. lost[j] = 0 <=> ~ (t >= Radix)
      BY <3>5
    <3>7. QED
      BY <2>3, <3>6 DEF t
  <2>4. CASE j = INTS - 1
    <3>1. e[j + 1] = 0
      BY <2>4
    <3>2. (3 * c[j]) % Radix \in 0 .. Radix - 1
      <4>1. 3 * c[j] \in Nat
        BY <1>1, <2>2 DEF Limb
      <4>2. QED
        BY <4>1
    <3>3. ~ (s(j) >= Radix)
      BY <3>1, <3>2
    <3> HIDE DEF e
    <3>4. lost[j] = 0
      BY <2>2, <3>3
    <3>5. QED
      BY <2>4, <3>4
  <2>5. j \in 1 .. INTS - 2 \/ j = INTS - 1
    OBVIOUS
  <2>6. QED
    BY <2>3, <2>4, <2>5
<1> DEFINE bad == \E k \in 1 .. INTS - 2 :
                    ((3 * c[k]) % Radix) + ((3 * c[k + 1]) \div Radix) >= Radix
<1>7. (\A j \in 1 .. INTS - 1 : lost[j] = 0) <=> ~ bad
  <2>1. \A j \in 1 .. INTS - 2 : j \in 1 .. INTS - 1
    OBVIOUS
  <2> HIDE DEF lost, e
  <2>2. QED
    BY <1>6, <2>1
<1>8. e[0] \in Nat /\ lost[0] \in {0, 1}
  <2>1. 0 \in 0 .. INTS /\ 0 \in 0 .. INTS - 1
    OBVIOUS
  <2> HIDE DEF e, lost
  <2>2. QED
    BY <1>5, <2>1
<1> HIDE DEF e, lost, bad
<1> DEFINE three == 3
           q == e[0] + lost[0]
<1>9. three \in Nat /\ q \in Nat /\ Carries(three, c, d, e, lost)
  BY <1>4, <1>5, <1>8 DEF Carries
<1> HIDE DEF three
<1>10. PICK E \in Nat : /\ three * Value(c) = (Value(d) + q * Size) + E
                        /\ E < Size
                        /\ E = 0 <=> \A j \in 1 .. INTS - 1 : lost[j] = 0
  BY <1>9, CarryChain
<1> HIDE DEF q
<1>11. Value(d) \in 0 .. Size - 1 /\ Size \in Nat \ {0}
  BY NumberBelow
<1>12. E \in 0 .. Size - 1
  BY <1>10, <1>11
<1>13. Value(d) = (three * Value(c)) % Size <=> E = 0
  <2>1. Value(d) = ((Value(d) + q * Size) + E) % Size <=> E = 0
    BY <1>9, <1>11, <1>12, ShortProduct
  <2>2. QED
    BY <1>10, <2>1
<1>14. QED
  BY <1>7, <1>10, <1>13 DEF three, bad

-----------------------------------------------------------------------------
(* The invariant of the multiplications: the limbs done hold their digits. *)
Multiplying ==
  (op \in {"mul_2", "mul_3"} /\ pc # "idle") =>
    /\ pc \in {"limbs", "done"}
    /\ x \in Number /\ ret \in Number
    /\ i \in -1 .. INTS - 1
    /\ pc = "done" => i = -1
    /\ \A k \in i + 1 .. INTS - 1 : ret[k] = IF op = "mul_2" THEN Double(x, k) ELSE Triple(x, k)

(* When a multiplication starts, no limb is done.                          *)
LEMMA CallMultiplies ==
  ASSUME Call
  PROVE  Multiplying'
<1> USE LimbAssumption
<1>1. CASE \E p \in Pairs : \/ \E name \in {"-", "gpu -"} : BeginSub(name, p[1], p[2])
                            \/ BeginCompare(p[1], p[2])
  BY <1>1 DEF BeginSub, BeginCompare, Begin, Multiplying
<1>2. CASE \E u \in Numbers : \E name \in {"mul_2", "mul_3"} : BeginMul(name, u)
  <2>1. PICK u \in Numbers, name \in {"mul_2", "mul_3"} : BeginMul(name, u)
    BY <1>2
  <2>2. pc' = "limbs" /\ x' = u /\ ret' = Zero /\ i' = INTS - 1
    BY <2>1 DEF BeginMul, Begin
  <2>3. u \in Number /\ Zero \in Number
    BY DEF Zero, Number, Limb
  <2>4. i' \in -1 .. INTS - 1 /\ i' + 1 .. INTS - 1 = {}
    BY <2>2
  <2>5. QED
    BY <2>2, <2>3, <2>4 DEF Multiplying
<1>3. CASE \E u \in Numbers : BeginDiv(u) \/ BeginMod(u)
  BY <1>3 DEF BeginDiv, BeginMod, Begin, Multiplying
<1>4. QED
  BY <1>1, <1>2, <1>3 DEF Call

(* A round of mul_2 or mul_3 finishes one limb and reads limbs of the      *)
(* operand only.                                                           *)
LEMMA RoundMultiplies ==
  ASSUME Multiplying, MulLimb
  PROVE  Multiplying'
<1> USE LimbAssumption
<1> DEFINE Digit(c, k) == IF op = "mul_2" THEN Double(c, k) ELSE Triple(c, k)
<1>1. /\ pc = "limbs" /\ op \in {"mul_2", "mul_3"} /\ x \in Number /\ ret \in Number
      /\ i \in -1 .. INTS - 1
      /\ \A k \in i + 1 .. INTS - 1 : ret[k] = Digit(x, k)
  BY DEF Multiplying, MulLimb
<1>2. CASE i >= 0
  <2>1. i \in 0 .. INTS - 1
    BY <1>1, <1>2
  <2>2. /\ ret' = [ret EXCEPT ![i] = Digit(x, i)]
        /\ i' = i - 1 /\ UNCHANGED <<pc, op, x>>
    BY <1>1, <1>2 DEF MulLimb, Below, Double, Triple
  <2>3. Digit(x, i) \in Limb
    <3>1. x[i] \in Nat /\ (i # INTS - 1 => x[i + 1] \in Nat)
      BY <1>1, <2>1 DEF Number, Limb
    <3>2. CASE op = "mul_2"
      <4> DEFINE b == IF i = INTS - 1 THEN 0 ELSE (1 * x[i + 1]) \div (Radix \div 2)
      <4>1. b \in Nat
        <5>1. Radix \div 2 \in Nat \ {0}
          OBVIOUS
        <5>2. QED
          BY <3>1, <5>1
      <4> HIDE DEF b
      <4>2. (2 * x[i] + b) % Radix \in 0 .. Radix - 1
        BY <3>1, <4>1
      <4>3. QED
        BY <3>2, <4>2 DEF b, Double, Limb
    <3>3. CASE op # "mul_2"
      <4> DEFINE b == IF i = INTS - 1 THEN 0 ELSE (3 * x[i + 1]) \div Radix
                 r == (3 * x[i]) % Radix
      <4>1. b \in Nat /\ r \in Nat
        BY <3>1
      <4> HIDE DEF b, r
      <4>2. (r + b) % Radix \in 0 .. Radix - 1
        BY <4>1
      <4>3. QED
        BY <3>3, <4>2 DEF b, r, Triple, Limb
    <3>4. QED
      BY <3>2, <3>3
  <2> HIDE DEF Digit
  <2>4. ret' \in Number
    BY <1>1, <2>2, <2>3 DEF Number
  <2>5. \A k \in i .. INTS - 1 : ret'[k] = Digit(x, k)
    <3>1. TAKE k \in i .. INTS - 1
    <3>2. k \in 0 .. INTS - 1 /\ (k = i \/ k \in i + 1 .. INTS - 1)
      BY <2>1
    <3>3. QED
      BY <1>1, <2>1, <2>2, <3>2 DEF Number
  <2>6. i' + 1 = i /\ i' \in -1 .. INTS - 1
    BY <2>1, <2>2
  <2>7. QED
    BY <1>1, <2>2, <2>4, <2>5, <2>6 DEF Multiplying, Digit
<1>3. CASE ~ (i >= 0)
  <2>1. pc' = "done" /\ UNCHANGED <<op, x, y, ret, i, temp>>
    BY <1>1, <1>3 DEF MulLimb, Finish
  <2>2. i = -1
    BY <1>1, <1>3
  <2>3. QED
    BY <1>1, <2>1, <2>2 DEF Multiplying
<1>4. QED
  BY <1>2, <1>3

(* When all limbs are done the product is what Doubling and Tripling say.  *)
LEMMA MultipliedRight == Multiplying => MultipleExact
<1> USE LimbAssumption
<1>1. -1 + 1 = 0
  OBVIOUS
<1>2. ASSUME Multiplying, Finished("mul_2")
      PROVE  Value(ret) = (2 * Value(x)) % Size
  <2>1. x \in Number /\ ret \in Number /\ i = -1
        /\ \A k \in i + 1 .. INTS - 1 : ret[k] = Double(x, k)
    BY <1>2 DEF Multiplying, Finished
  <2>2. \A k \in 0 .. INTS - 1 : ret[k] = Double(x, k)
    BY <1>1, <2>1
  <2>3. QED
    BY <2>1, <2>2, Doubling
<1>3. ASSUME Multiplying, Finished("mul_3")
      PROVE  Value(ret) = (3 * Value(x)) % Size <=> ~ \E k \in 1 .. INTS - 2 : CarryLost(k)
  <2>1. x \in Number /\ ret \in Number /\ i = -1
        /\ \A k \in i + 1 .. INTS - 1 : ret[k] = Triple(x, k)
    BY <1>3 DEF Multiplying, Finished
  <2>2. \A k \in 0 .. INTS - 1 : ret[k] = Triple(x, k)
    BY <1>1, <2>1
  <2>3. QED
    BY <2>1, <2>2, Tripling DEF CarryLost
<1>4. QED
  BY <1>2, <1>3 DEF MultipleExact

(* mul_2 is exact modulo the width; mul_3 exactly if no limb but the top   *)
(* one loses a carry in the sum of two halves.                             *)
THEOREM MultiplesCorrect == Spec => []MultipleExact
<1>1. Init => Multiplying
  BY DEF Init, Multiplying
<1>2. Multiplying /\ [Next]_vars => Multiplying'
  <2> SUFFICES ASSUME Multiplying, [Next]_vars
               PROVE  Multiplying'
    OBVIOUS
  <2>1. CASE Call
    BY <2>1, CallMultiplies
  <2>2. CASE MulLimb
    BY <2>2, RoundMultiplies
  <2>3. CASE Borrow
    BY <2>3 DEF Borrow, BorrowIf, Multiplying
  <2>4. CASE BorrowDone
    BY <2>4 DEF BorrowDone, Multiplying
  <2>5. CASE SubLimb
    BY <2>5 DEF SubLimb, Finish, Multiplying
  <2>6. CASE Compare
    BY <2>6 DEF Compare, CompareUpTo, Multiplying
  <2>7. CASE DivLimb
    BY <2>7 DEF DivLimb, DivLimbWith, Finish, Multiplying
  <2>8. CASE ModLimb
    BY <2>8 DEF ModLimb, ModLimbWeighed, Multiplying
  <2>9. CASE UNCHANGED vars
    BY <2>9 DEF vars, Multiplying
  <2>10. QED
    BY <2>1, <2>2, <2>3, <2>4, <2>5, <2>6, <2>7, <2>8, <2>9 DEF Next, Done
<1>3. QED
  BY <1>1, <1>2, MultipliedRight, PTL DEF Spec

-----------------------------------------------------------------------------
(* What limb k - 1 owes limb k in an exact subtraction, limb k after it    *)
(* has lent, and the limbs at which a version decides wrongly.             *)
Owes(u, v, k) == IF Low(u, k) < Low(v, k) THEN 1 ELSE 0

Lent(u, v, k) == (u[k] - Owes(u, v, k + 1)) % Radix

Misjudged(name, u, v, k) ==
  IF name = "-" THEN u[k] = Radix - 1 /\ Owes(u, v, k + 1) = 0
                ELSE u[k] = 0 /\ Owes(u, v, k + 1) = 1

(* The limbs from j down have lent what they should; of those above j, the *)
(* others are subtracted.                                                  *)
LentFrom(r, u, v, j) == \A k \in j .. INTS - 1 : r[k] = Lent(u, v, k)

SubtractedDownTo(r, u, v, j) ==
  \A k \in 0 .. INTS - 1 :
    r[k] = IF k > j THEN (Lent(u, v, k) - v[k]) % Radix ELSE Lent(u, v, k)

(* A number of two digits is ordered by the upper one first.               *)
LEMMA TwoDigits ==
  ASSUME NEW a \in Nat, NEW b \in Nat, NEW V \in Nat, NEW p \in 0 .. V - 1, NEW q \in 0 .. V - 1
  PROVE  a * V + p < b * V + q <=> a < b \/ (a = b /\ p < q)
<1>1. a * V \in Nat /\ b * V \in Nat
  OBVIOUS
<1>2. CASE a < b
  <2>1. b * V >= (a + 1) * V
    BY <1>2, TimesMonotone
  <2>2. (a + 1) * V = a * V + V
    OBVIOUS
  <2>3. QED
    BY <1>1, <1>2, <2>1, <2>2
<1>3. CASE a = b
  BY <1>1, <1>3
<1>4. CASE a > b
  <2>1. a * V >= (b + 1) * V
    BY <1>4, TimesMonotone
  <2>2. (b + 1) * V = b * V + V
    OBVIOUS
  <2>3. QED
    BY <1>1, <1>4, <2>1, <2>2
<1>5. QED
  BY <1>2, <1>3, <1>4

(* The recursive equation of the true borrow into limb k.                  *)
LEMMA OwesFacts ==
  ASSUME NEW u \in Number, NEW v \in Number
  PROVE  /\ \A k \in 0 .. INTS : Owes(u, v, k) \in {0, 1}
         /\ Owes(u, v, INTS) = 0
         /\ \A k \in 0 .. INTS - 1 : Owes(u, v, k) = 1 <=> u[k] - Owes(u, v, k + 1) < v[k]
<1> USE LimbAssumption
<1>1. \A k \in 0 .. INTS : Owes(u, v, k) \in {0, 1}
  BY DEF Owes
<1>2. Owes(u, v, INTS) = 0
  <2>1. Low(u, INTS) = 0 /\ Low(v, INTS) = 0
    BY LowFacts
  <2>2. QED
    BY <2>1 DEF Owes
<1>3. ASSUME NEW k \in 0 .. INTS - 1
      PROVE  Owes(u, v, k) = 1 <=> u[k] - Owes(u, v, k + 1) < v[k]
  <2> DEFINE V == Weight[INTS - 1 - k]
             a == u[k]
             b == v[k]
             p == Low(u, k + 1)
             q == Low(v, k + 1)
  <2>1. /\ INTS - 1 - k \in 0 .. INTS - 1 /\ k + 1 \in 0 .. INTS /\ k + 1 \in 1 .. INTS
        /\ INTS - (k + 1) = INTS - 1 - k
    OBVIOUS
  <2>2. V \in Nat /\ p \in Nat /\ q \in Nat
    BY <2>1, WeightFacts, TailFacts
  <2>3. p < V /\ q < V
    BY <2>1, LowBelow
  <2>4. a \in Nat /\ b \in Nat
    <3>1. u[k] \in Limb /\ v[k] \in Limb
      BY DEF Number
    <3>2. QED
      BY <3>1 DEF Limb
  <2>5. Low(u, k) = a * V + p /\ Low(v, k) = b * V + q
    BY LowFacts
  <2>6. Owes(u, v, k) = 1 <=> Low(u, k) < Low(v, k)
    BY DEF Owes
  <2>7. Owes(u, v, k + 1) = IF p < q THEN 1 ELSE 0
    BY DEF Owes
  <2> HIDE DEF V, a, b, p, q
  <2>8. a * V + p < b * V + q <=> a < b \/ (a = b /\ p < q)
    <3>1. p \in 0 .. V - 1 /\ q \in 0 .. V - 1
      BY <2>2, <2>3
    <3>2. QED
      BY <2>2, <2>4, <3>1, TwoDigits
  <2>9. Owes(u, v, k) = 1 <=> a < b \/ (a = b /\ p < q)
    BY <2>5, <2>6, <2>8
  <2>10. CASE p < q
    <3>1. Owes(u, v, k + 1) = 1
      BY <2>7, <2>10
    <3>2. a < b \/ (a = b /\ p < q) <=> a - 1 < b
      BY <2>4, <2>10
    <3>3. QED
      BY <2>9, <3>1, <3>2 DEF a, b
  <2>11. CASE ~ (p < q)
    <3>1. Owes(u, v, k + 1) = 0
      BY <2>7, <2>11
    <3>2. a < b \/ (a = b /\ p < q) <=> a - 0 < b
      BY <2>4, <2>11
    <3>3. QED
      BY <2>9, <3>1, <3>2 DEF a, b
  <2>12. QED
    BY <2>10, <2>11
<1>4. QED
  BY <1>1, <1>2, <1>3

(* One limb of an exact subtraction.                                       *)
LEMMA SubtractLimb ==
  ASSUME NEW a \in Limb, NEW b \in Limb, NEW l \in {0, 1}
  PROVE  LET r == (((a - l) % Radix) - b) % Radix
             g == IF a - l < b THEN 1 ELSE 0
         IN  r \in Limb /\ a + g * Radix = ((b + r) + l)
<1> USE LimbAssumption
<1> DEFINE e == (a - l) % Radix
           r == (e - b) % Radix
           g == IF a - l < b THEN 1 ELSE 0
<1>1. a \in Nat /\ b \in Nat /\ a < Radix /\ b < Radix /\ l \in Limb
  BY DEF Limb
<1>2. e = (IF a >= l THEN a - l ELSE (a - l) + Radix) /\ e \in Limb
  BY <1>1, LimbDifference
<1> HIDE DEF e
<1>3. r = (IF e >= b THEN e - b ELSE (e - b) + Radix) /\ r \in Limb
  BY <1>2, LimbDifference
<1> HIDE DEF r
<1>4. e \in Nat /\ r \in Nat
  BY <1>2, <1>3 DEF Limb
<1>5. a + g * Radix = (b + r) + l
  <2>1. CASE a - l < b
    <3>1. g * Radix = Radix
      BY <2>1
    <3>2. a + Radix = (b + r) + l
      BY <1>1, <1>2, <1>3, <1>4, <2>1
    <3>3. QED
      BY <3>1, <3>2
  <2>2. CASE ~ (a - l < b)
    <3>1. g * Radix = 0
      BY <2>2
    <3>2. a + 0 = (b + r) + l
      BY <1>1, <1>2, <1>3, <1>4, <2>2
    <3>3. QED
      BY <3>1, <3>2
  <2>3. QED
    BY <2>1, <2>2
<1>6. QED
  BY <1>3, <1>5 DEF r, e

(* If every limb lends what it should, the difference is exact.            *)
LEMMA ExactDifference ==
  ASSUME NEW u \in Number, NEW v \in Number, NEW d \in Number, Value(u) >= Value(v),
         SubtractedDownTo(d, u, v, -1)
  PROVE  Value(d) = Value(u) - Value(v)
<1> USE LimbAssumption
<1> DEFINE o(k) == Owes(u, v, k)
           S == {k \in 0 .. INTS :
                   k >= 1 => Low(u, k) + o(k) * Weight[INTS - k] = Low(v, k) + Low(d, k)}
<1>1. INTS \in S
  <2>1. /\ Low(u, INTS) = 0 /\ Low(v, INTS) = 0 /\ Low(d, INTS) = 0
        /\ o(INTS) = 0 /\ Weight[0] = 1 /\ INTS - INTS = 0
    BY LowFacts, OwesFacts, WeightFacts
  <2> HIDE DEF o
  <2>2. Low(u, INTS) + o(INTS) * Weight[INTS - INTS] = Low(v, INTS) + Low(d, INTS)
    BY <2>1
  <2>3. QED
    BY <2>2
<1>2. ASSUME NEW k \in 0 .. INTS - 1,
             Low(u, k + 1) + o(k + 1) * Weight[INTS - (k + 1)] = Low(v, k + 1) + Low(d, k + 1)
      PROVE  Low(u, k) + o(k) * (Weight[INTS - 1 - k] * Radix) = Low(v, k) + Low(d, k)
  <2> DEFINE V == Weight[INTS - 1 - k]
             a == u[k]
             b == v[k]
             r == d[k]
             l == o(k + 1)
             g == o(k)
             A == Low(u, k + 1)
             B == Low(v, k + 1)
             D == Low(d, k + 1)
  <2>1. /\ INTS - 1 - k \in 0 .. INTS - 1 /\ k + 1 \in 0 .. INTS /\ k \in 0 .. INTS
        /\ INTS - (k + 1) = INTS - 1 - k /\ k > -1
    OBVIOUS
  <2>2. V \in Nat /\ A \in Nat /\ B \in Nat /\ D \in Nat
    BY <2>1, WeightFacts, TailFacts
  <2>3. l \in {0, 1} /\ g \in {0, 1} /\ (g = 1 <=> a - l < b)
    BY <2>1, OwesFacts
  <2>4. a \in Limb /\ b \in Limb /\ r \in Limb
    BY DEF Number
  <2>5. r = (((a - l) % Radix) - b) % Radix
    BY <2>1 DEF SubtractedDownTo, Lent
  <2>6. Low(u, k) = a * V + A /\ Low(v, k) = b * V + B /\ Low(d, k) = r * V + D
    BY LowFacts
  <2>7. A + l * V = B + D
    BY <1>2, <2>1
  <2> HIDE DEF V, a, b, r, l, g, A, B, D
  <2>8. g = IF a - l < b THEN 1 ELSE 0
    BY <2>3
  <2>9. a + g * Radix = (b + r) + l
    BY <2>3, <2>4, <2>5, <2>8, SubtractLimb
  <2>10. (a * V + A) + g * (V * Radix) = (b * V + B) + (r * V + D)
    <3>1. a \in Nat /\ b \in Nat /\ r \in Nat /\ l \in Nat /\ g \in Nat
      BY <2>3, <2>4 DEF Limb
    <3>2. (a + g * Radix) * V = a * V + g * (V * Radix)
      BY <2>2, <3>1
    <3>3. ((b + r) + l) * V = (b * V + r * V) + l * V
      BY <2>2, <3>1
    <3> DEFINE aV == a * V
               bV == b * V
               rV == r * V
               lV == l * V
               gW == g * (V * Radix)
    <3>4. aV \in Nat /\ bV \in Nat /\ rV \in Nat /\ lV \in Nat /\ gW \in Nat
      BY <2>2, <3>1
    <3>5. aV + gW = (bV + rV) + lV /\ A + lV = B + D
      BY <2>7, <2>9, <3>2, <3>3
    <3> HIDE DEF aV, bV, rV, lV, gW
    <3>6. (aV + A) + gW = (bV + B) + (rV + D)
      BY <2>2, <3>4, <3>5
    <3>7. QED
      BY <3>6 DEF aV, bV, rV, gW
  <2>11. QED
    BY <2>6, <2>10 DEF g, V
<1>3. ASSUME NEW k \in 0 .. INTS - 1, k + 1 \in S PROVE k \in S
  <2>1. SUFFICES ASSUME k >= 1
                 PROVE  Low(u, k) + o(k) * Weight[INTS - k] = Low(v, k) + Low(d, k)
    OBVIOUS
  <2>2. k + 1 >= 1 /\ INTS - 1 - k \in 0 .. INTS - 2 /\ (INTS - 1 - k) + 1 = INTS - k
    BY <2>1
  <2>3. Low(u, k) + o(k) * (Weight[INTS - 1 - k] * Radix) = Low(v, k) + Low(d, k)
    <3>1. Low(u, k + 1) + o(k + 1) * Weight[INTS - (k + 1)] = Low(v, k + 1) + Low(d, k + 1)
      BY <1>3, <2>2
    <3> HIDE DEF o
    <3>2. QED
      BY <1>2, <3>1
  <2>4. Weight[INTS - k] = Weight[INTS - 1 - k] * Radix
    BY <2>2, WeightFacts
  <2>5. QED
    BY <2>3, <2>4
<1>4. 0 .. INTS \subseteq S
  <2> HIDE DEF S
  <2>1. QED
    BY <1>1, <1>3, UpwardInduction
<1> DEFINE z == 0
<1>5. z \in 0 .. INTS - 1 /\ z + 1 \in 0 .. INTS /\ z + 1 >= 1 /\ z \in 0 .. INTS
  OBVIOUS
<1>6. Low(u, z) = Value(u) /\ Low(v, z) = Value(v) /\ Low(d, z) = Value(d)
  BY LowFacts
<1> HIDE DEF z
<1>7. Low(u, z + 1) + o(z + 1) * Weight[INTS - (z + 1)] = Low(v, z + 1) + Low(d, z + 1)
  BY <1>4, <1>5
<1>8. o(z) = 0
  <2>1. Value(u) \in Nat /\ Value(v) \in Nat
    BY NumberBelow
  <2>2. ~ (Low(u, z) < Low(v, z))
    BY <1>6, <2>1
  <2>3. QED
    BY <2>2 DEF Owes
<1> HIDE DEF o
<1>9. Low(u, z) + o(z) * (Weight[INTS - 1 - z] * Radix) = Low(v, z) + Low(d, z)
  BY <1>2, <1>5, <1>7
<1>10. Weight[INTS - 1 - z] * Radix \in Nat
  <2>1. INTS - 1 - z \in 0 .. INTS - 1
    BY <1>5
  <2>2. Weight[INTS - 1 - z] \in Nat
    BY <2>1, WeightFacts
  <2>3. QED
    BY <2>2
<1>11. QED
  <2>1. Value(u) \in Nat /\ Value(v) \in Nat /\ Value(d) \in Nat
    BY NumberBelow
  <2>2. Value(u) + 0 = Value(v) + Value(d)
    BY <1>6, <1>8, <1>9, <1>10
  <2>3. QED
    BY <2>1, <2>2

(* The invariant of the subtractions: the limbs are as in an exact one if  *)
(* and only if none has been misjudged.                                    *)
Subtracting ==
  (op \in {"-", "gpu -"} /\ pc # "idle") =>
    /\ pc \in {"borrow", "limbs", "done"}
    /\ x \in Number /\ y \in Number /\ ret \in Number
    /\ Value(x) >= Value(y)
    /\ pc = "borrow" =>
         /\ i \in 0 .. INTS - 1
         /\ \A k \in 0 .. i - 1 : ret[k] = x[k]
         /\ LentFrom(ret, x, y, i) <=> \A k \in Middle : k > i => ~ Misjudged(op, x, y, k)
    /\ pc # "borrow" =>
         /\ i \in -1 .. INTS - 1
         /\ pc = "done" => i = -1
         /\ SubtractedDownTo(ret, x, y, i) <=> \A k \in Middle : ~ Misjudged(op, x, y, k)

(* Before the first round nothing has been lent.                           *)
LEMMA NothingLent ==
  ASSUME NEW u \in Number, NEW v \in Number
  PROVE  /\ LentFrom(u, u, v, INTS - 1)
         /\ \A k \in Middle : ~ (k > INTS - 1)
         /\ INTS - 1 \in 0 .. INTS - 1
<1> USE LimbAssumption
<1>1. LentFrom(u, u, v, INTS - 1)
  <2>1. SUFFICES ASSUME NEW k \in INTS - 1 .. INTS - 1 PROVE u[k] = Lent(u, v, k)
    BY DEF LentFrom
  <2>2. k \in 0 .. INTS - 1 /\ k + 1 = INTS
    OBVIOUS
  <2>3. Owes(u, v, k + 1) = 0
    BY <2>2, OwesFacts
  <2>4. u[k] \in Limb /\ 0 \in Limb
    BY <2>2 DEF Number, Limb
  <2>5. (u[k] - 0) % Radix = u[k]
    <3>1. u[k] >= 0 /\ u[k] - 0 = u[k]
      BY <2>4 DEF Limb
    <3>2. QED
      BY <2>4, <3>1, LimbDifference
  <2>6. QED
    BY <2>3, <2>5 DEF Lent
<1>2. \A k \in Middle : ~ (k > INTS - 1)
  BY DEF Middle
<1>3. QED
  BY <1>1, <1>2

(* When a subtraction starts, nothing has been borrowed.                   *)
LEMMA CallSubtracts ==
  ASSUME Call
  PROVE  Subtracting'
<1> USE LimbAssumption
<1>1. CASE \E p \in Pairs : \E name \in {"-", "gpu -"} : BeginSub(name, p[1], p[2])
  <2>1. PICK p \in Pairs, name \in {"-", "gpu -"} : BeginSub(name, p[1], p[2])
    BY <1>1
  <2> DEFINE u == p[1]
             v == p[2]
  <2>2. u \in Number /\ v \in Number
    OBVIOUS
  <2>3. /\ pc' = "borrow" /\ x' = u /\ y' = v /\ ret' = u /\ i' = INTS - 1
        /\ Value(u) >= Value(v) /\ op' = name
    BY <2>1 DEF BeginSub, Begin
  <2> HIDE DEF u, v
  <2>4. /\ LentFrom(u, u, v, INTS - 1)
        /\ \A k \in Middle : ~ (k > INTS - 1)
        /\ INTS - 1 \in 0 .. INTS - 1
    BY <2>2, NothingLent
  <2>6. LentFrom(ret', x', y', i') <=> \A k \in Middle : k > i' => ~ Misjudged(op', x', y', k)
    BY <2>3, <2>4
  <2>7. i' \in 0 .. INTS - 1 /\ \A k \in 0 .. i' - 1 : ret'[k] = x'[k]
    BY <2>3, <2>4
  <2>8. Value(x') >= Value(y')
    BY <2>3
  <2>9. QED
    BY <2>2, <2>3, <2>6, <2>7, <2>8 DEF Subtracting, Value
<1>2. CASE \E p \in Pairs : BeginCompare(p[1], p[2])
  BY <1>2 DEF BeginCompare, Begin, Subtracting
<1>3. CASE \E u \in Numbers : \/ \E name \in {"mul_2", "mul_3"} : BeginMul(name, u)
                              \/ BeginDiv(u)
                              \/ BeginMod(u)
  BY <1>3 DEF BeginMul, BeginDiv, BeginMod, Begin, Subtracting
<1>4. QED
  BY <1>1, <1>2, <1>3 DEF Call

(* When the limb before it has lent what it should, what a version decides *)
(* about a limb is right unless it misjudges it.                           *)
LEMMA BorrowDecision ==
  ASSUME NEW a \in Limb, NEW b \in Limb, NEW l \in {0, 1}
  PROVE  LET r == (a - l) % Radix
         IN  /\ (r < b <=> a - l < b) <=> ~ (a = 0 /\ l = 1)
             /\ (r < b \/ r = Radix - 1 <=> a - l < b) <=> ~ (a = Radix - 1 /\ l = 0)
<1> USE LimbAssumption
<1> DEFINE r == (a - l) % Radix
<1>1. a \in Nat /\ b \in Nat /\ a < Radix /\ b < Radix /\ l \in Limb
  BY DEF Limb
<1>2. r = IF a >= l THEN a - l ELSE (a - l) + Radix
  BY <1>1, LimbDifference
<1> HIDE DEF r
<1>3. (r < b <=> a - l < b) <=> ~ (a = 0 /\ l = 1)
  BY <1>1, <1>2
<1>4. (r < b \/ r = Radix - 1 <=> a - l < b) <=> ~ (a = Radix - 1 /\ l = 0)
  BY <1>1, <1>2
<1>5. QED
  BY <1>3, <1>4 DEF r

(* A round of the first loop lowers a limb when the code's rule says so.   *)
LEMMA RoundBorrows ==
  ASSUME Subtracting, Borrow
  PROVE  Subtracting'
<1> USE LimbAssumption
<1> DEFINE borrows == Borrows(op = "-")
<1>1. /\ pc = "borrow" /\ i > 0
      /\ ret' = IF borrows THEN [ret EXCEPT ![i - 1] = (@ - 1) % Radix] ELSE ret
      /\ i' = i - 1 /\ UNCHANGED <<pc, op, x, y, temp>>
  BY DEF Borrow, BorrowIf
<1>2. SUFFICES ASSUME op \in {"-", "gpu -"} PROVE Subtracting'
  BY <1>1 DEF Subtracting
<1>3. /\ x \in Number /\ y \in Number /\ ret \in Number /\ Value(x) >= Value(y)
      /\ i \in 0 .. INTS - 1
      /\ \A k \in 0 .. i - 1 : ret[k] = x[k]
      /\ LentFrom(ret, x, y, i) <=> \A k \in Middle : k > i => ~ Misjudged(op, x, y, k)
  BY <1>1, <1>2 DEF Subtracting
<1> DEFINE j == i - 1
           l == Owes(x, y, i + 1)
           o == Owes(x, y, i)
<1>4. i \in 1 .. INTS - 1 /\ j \in 0 .. INTS - 2 /\ j \in 0 .. INTS - 1 /\ j + 1 = i
      /\ i + 1 \in 0 .. INTS /\ i \in 0 .. INTS
  BY <1>1, <1>3
<1>5. ret[j] = x[j] /\ x[j] \in Limb /\ x[i] \in Limb /\ y[i] \in Limb /\ ret[i] \in Limb
  BY <1>3, <1>4 DEF Number
<1>6. /\ ret' \in Number
      /\ ret'[j] = IF borrows THEN (x[j] - 1) % Radix ELSE x[j]
      /\ \A k \in 0 .. INTS - 1 : k # j => ret'[k] = ret[k]
  <2>1. (x[j] - 1) % Radix \in Limb
    <3>1. 1 \in Limb
      BY DEF Limb
    <3>2. QED
      BY <1>5, <3>1, LimbDifference
  <2> HIDE DEF borrows, j
  <2>2. ret' = IF borrows THEN [ret EXCEPT ![j] = (@ - 1) % Radix] ELSE ret
    BY <1>1 DEF j
  <2>3. QED
    BY <1>3, <1>4, <1>5, <2>1, <2>2 DEF Number
<1>7. l \in {0, 1} /\ o \in {0, 1} /\ (o = 1 <=> x[i] - l < y[i])
  BY <1>3, <1>4, OwesFacts
<1>8. ret'[j] = Lent(x, y, j) <=> (borrows <=> o = 1)
  <2> DEFINE a == x[j]
  <2>1. Lent(x, y, j) = (a - o) % Radix
    BY <1>4 DEF Lent
  <2>2. a \in Nat /\ a < Radix /\ a \in Limb /\ 0 \in Limb /\ 1 \in Limb
    BY <1>5 DEF Limb
  <2>3. (a - 0) % Radix = a
    BY <2>2, LimbDifference
  <2>4. (a - 1) % Radix = IF a >= 1 THEN a - 1 ELSE (a - 1) + Radix
    BY <2>2, LimbDifference
  <2>5. ret'[j] = IF borrows THEN (a - 1) % Radix ELSE a
    BY <1>6
  <2> HIDE DEF a, borrows, o
  <2>6. (a - 1) % Radix # a
    BY <2>2, <2>4
  <2>7. CASE o = 1
    BY <2>1, <2>5, <2>6, <2>7
  <2>8. CASE o = 0
    BY <2>1, <2>3, <2>5, <2>6, <2>8
  <2>9. QED
    BY <1>7, <2>7, <2>8
<1>9. ASSUME LentFrom(ret, x, y, i)
      PROVE  (borrows <=> o = 1) <=> ~ (i \in Middle /\ Misjudged(op, x, y, i))
  <2> DEFINE a == x[i]
             b == y[i]
             r == (a - l) % Radix
  <2>1. ret[i] = r
    BY <1>4, <1>9 DEF LentFrom, Lent
  <2>2. borrows <=> r < b \/ (op = "-" /\ i < INTS - 1 /\ r = Radix - 1)
    BY <2>1 DEF Borrows
  <2>3. /\ (r < b <=> a - l < b) <=> ~ (a = 0 /\ l = 1)
        /\ (r < b \/ r = Radix - 1 <=> a - l < b) <=> ~ (a = Radix - 1 /\ l = 0)
    BY <1>5, <1>7, BorrowDecision
  <2>4. Misjudged(op, x, y, i) <=> IF op = "-" THEN a = Radix - 1 /\ l = 0
                                               ELSE a = 0 /\ l = 1
    BY DEF Misjudged
  <2>5. i \in Middle <=> i < INTS - 1
    BY <1>4 DEF Middle
  <2>6. i = INTS - 1 => l = 0
    <3>1. i = INTS - 1 => i + 1 = INTS
      BY <1>4
    <3>2. QED
      BY <1>3, <3>1, OwesFacts
  <2>7. o = 1 <=> a - l < b
    BY <1>7
  <2> HIDE DEF a, b, r, l, o, borrows
  <2>8. CASE i = INTS - 1
    <3>1. ~ (i < INTS - 1) /\ ~ (i \in Middle) /\ l = 0 /\ l # 1
      BY <1>4, <2>5, <2>6, <2>8
    <3>2. QED
      BY <2>2, <2>3, <2>7, <3>1
  <2>9. CASE i # INTS - 1
    <3>1. i < INTS - 1 /\ i \in Middle
      BY <1>4, <2>5, <2>9
    <3>2. CASE op = "-"
      BY <2>2, <2>3, <2>4, <2>7, <3>1, <3>2
    <3>3. CASE op # "-"
      BY <2>2, <2>3, <2>4, <2>7, <3>1, <3>3
    <3>4. QED
      BY <3>2, <3>3
  <2>10. QED
    BY <2>8, <2>9
<1>10. LentFrom(ret', x, y, j) <=> LentFrom(ret, x, y, i) /\ ret'[j] = Lent(x, y, j)
  <2> HIDE DEF j
  <2>1. \A k \in j .. INTS - 1 : k \in 0 .. INTS - 1 /\ (k = j \/ (k \in i .. INTS - 1 /\ k # j))
    BY <1>4
  <2>2. j \in j .. INTS - 1 /\ \A k \in i .. INTS - 1 : k \in j .. INTS - 1 /\ k # j /\ k \in 0 .. INTS - 1
    BY <1>4
  <2>3. ASSUME LentFrom(ret', x, y, j)
        PROVE  LentFrom(ret, x, y, i) /\ ret'[j] = Lent(x, y, j)
    BY <1>6, <2>2, <2>3 DEF LentFrom
  <2>4. ASSUME LentFrom(ret, x, y, i), ret'[j] = Lent(x, y, j)
        PROVE  LentFrom(ret', x, y, j)
    BY <1>6, <2>1, <2>4 DEF LentFrom
  <2>5. QED
    BY <2>3, <2>4
<1>11. (\A k \in Middle : k > j => ~ Misjudged(op, x, y, k))
         <=> /\ \A k \in Middle : k > i => ~ Misjudged(op, x, y, k)
             /\ ~ (i \in Middle /\ Misjudged(op, x, y, i))
  <2>1. i > j /\ \A k \in Middle : (k > j <=> k > i \/ k = i)
    BY <1>4 DEF Middle
  <2> HIDE DEF j
  <2>2. QED
    BY <2>1
<1>12. LentFrom(ret', x, y, j) <=> \A k \in Middle : k > j => ~ Misjudged(op, x, y, k)
  BY <1>3, <1>8, <1>9, <1>10, <1>11
<1>13. \A k \in 0 .. j - 1 : ret'[k] = x[k]
  <2>1. \A k \in 0 .. j - 1 : k \in 0 .. INTS - 1 /\ k # j /\ k \in 0 .. i - 1
    BY <1>4
  <2>2. QED
    BY <1>3, <1>6, <2>1
<1>14. i' = j /\ i' \in 0 .. INTS - 1
  BY <1>1, <1>4
<1>15. QED
  BY <1>1, <1>3, <1>6, <1>12, <1>13, <1>14 DEF Subtracting, Value

(* Between the loops.                                                      *)
LEMMA BorrowsDone ==
  ASSUME Subtracting, BorrowDone
  PROVE  Subtracting'
<1> USE LimbAssumption
<1>1. pc = "borrow" /\ i = 0 /\ pc' = "limbs" /\ i' = INTS - 1 /\ UNCHANGED <<op, x, y, ret, temp>>
  BY DEF BorrowDone
<1>2. SUFFICES ASSUME op \in {"-", "gpu -"} PROVE Subtracting'
  BY <1>1 DEF Subtracting
<1>3. /\ x \in Number /\ y \in Number /\ ret \in Number /\ Value(x) >= Value(y)
      /\ LentFrom(ret, x, y, i) <=> \A k \in Middle : k > i => ~ Misjudged(op, x, y, k)
  BY <1>1, <1>2 DEF Subtracting
<1>4. \A k \in Middle : k > i
  BY <1>1 DEF Middle
<1>5. LentFrom(ret, x, y, i) <=> SubtractedDownTo(ret, x, y, INTS - 1)
  <2>1. \A k \in 0 .. INTS - 1 : ~ (k > INTS - 1)
    OBVIOUS
  <2>2. QED
    BY <1>1, <2>1 DEF LentFrom, SubtractedDownTo
<1>6. SubtractedDownTo(ret, x, y, INTS - 1) <=> \A k \in Middle : ~ Misjudged(op, x, y, k)
  BY <1>3, <1>4, <1>5
<1>7. INTS - 1 \in -1 .. INTS - 1
  OBVIOUS
<1>8. QED
  BY <1>1, <1>3, <1>6, <1>7 DEF Subtracting, Value

(* Subtracting the same limb from different limbs gives different limbs.   *)
LEMMA SubtractInjective ==
  ASSUME NEW a \in Limb, NEW b \in Limb, NEW c \in Limb
  PROVE  (a - c) % Radix = (b - c) % Radix <=> a = b
<1> USE LimbAssumption
<1>1. a \in Nat /\ b \in Nat /\ c \in Nat /\ a < Radix /\ b < Radix /\ c < Radix
  BY DEF Limb
<1>2. /\ (a - c) % Radix = IF a >= c THEN a - c ELSE (a - c) + Radix
      /\ (b - c) % Radix = IF b >= c THEN b - c ELSE (b - c) + Radix
  BY LimbDifference
<1>3. QED
  BY <1>1, <1>2

(* A round of the second loop.                                             *)
LEMMA RoundSubtracts ==
  ASSUME Subtracting, SubLimb
  PROVE  Subtracting'
<1> USE LimbAssumption
<1>1. pc = "limbs" /\ op \in {"-", "gpu -"}
  BY DEF SubLimb
<1>2. /\ x \in Number /\ y \in Number /\ ret \in Number /\ Value(x) >= Value(y)
      /\ i \in -1 .. INTS - 1
      /\ SubtractedDownTo(ret, x, y, i) <=> \A k \in Middle : ~ Misjudged(op, x, y, k)
  BY <1>1 DEF Subtracting
<1>3. CASE i >= 0
  <2>1. i \in 0 .. INTS - 1 /\ i + 1 \in 0 .. INTS
    BY <1>2, <1>3
  <2>2. ret' = [ret EXCEPT ![i] = (ret[i] - y[i]) % Radix] /\ i' = i - 1
        /\ UNCHANGED <<pc, op, x, y, temp>>
    BY <1>3 DEF SubLimb
  <2>3. ret[i] \in Limb /\ y[i] \in Limb /\ Lent(x, y, i) \in Limb
    <3>1. ret[i] \in Limb /\ y[i] \in Limb /\ x[i] \in Limb
      BY <1>2, <2>1 DEF Number
    <3>2. Owes(x, y, i + 1) \in Limb
      BY <1>2, <2>1, OwesFacts DEF Limb
    <3>3. QED
      BY <3>1, <3>2, LimbDifference DEF Lent
  <2>4. (ret[i] - y[i]) % Radix \in Limb
    BY <2>3, LimbDifference
  <2>5. ret' \in Number
        /\ ret'[i] = (ret[i] - y[i]) % Radix
        /\ \A k \in 0 .. INTS - 1 : k # i => ret'[k] = ret[k]
    BY <1>2, <2>1, <2>2, <2>4 DEF Number
  <2>6. ret'[i] = (Lent(x, y, i) - y[i]) % Radix <=> ret[i] = Lent(x, y, i)
    BY <2>3, <2>5, SubtractInjective
  <2>7. SubtractedDownTo(ret', x, y, i - 1) <=> SubtractedDownTo(ret, x, y, i)
    <3>1. i > i - 1 /\ ~ (i > i) /\ \A k \in 0 .. INTS - 1 : k # i => (k > i - 1 <=> k > i)
      BY <2>1
    <3>2. QED
      BY <2>1, <2>5, <2>6, <3>1 DEF SubtractedDownTo
  <2>8. i - 1 \in -1 .. INTS - 1
    BY <2>1
  <2>9. QED
    BY <1>1, <1>2, <2>2, <2>5, <2>7, <2>8 DEF Subtracting, Value
<1>4. CASE ~ (i >= 0)
  <2>1. pc' = "done" /\ UNCHANGED <<op, x, y, ret, i, temp>>
    BY <1>4 DEF SubLimb, Finish
  <2>2. i = -1
    BY <1>2, <1>4
  <2>3. QED
    BY <1>1, <1>2, <2>1, <2>2 DEF Subtracting, Value
<1>5. QED
  BY <1>3, <1>4

(* The limbs of the difference are limbs.                                  *)
LEMMA DifferenceLimb ==
  ASSUME NEW u \in Number, NEW v \in Number, NEW k \in 0 .. INTS - 1
  PROVE  /\ Lent(u, v, k) \in Limb
         /\ (Lent(u, v, k) - v[k]) % Radix \in Limb
         /\ k > -1
<1> USE LimbAssumption
<1>1. k + 1 \in 0 .. INTS /\ k > -1
  OBVIOUS
<1>2. u[k] \in Limb /\ v[k] \in Limb
  BY DEF Number
<1>3. Owes(u, v, k + 1) \in {0, 1}
  BY <1>1, OwesFacts
<1>4. Owes(u, v, k + 1) \in Limb
  BY <1>3 DEF Limb
<1>5. Lent(u, v, k) \in Limb
  BY <1>2, <1>4, LimbDifference DEF Lent
<1>6. QED
  BY <1>1, <1>2, <1>5, LimbDifference

(* A finished subtraction is right if and only if no limb was misjudged.   *)
LEMMA SubtractedRight ==
  ASSUME Subtracting, pc = "done", op \in {"-", "gpu -"}
  PROVE  Value(ret) = Value(x) - Value(y) <=> \A k \in Middle : ~ Misjudged(op, x, y, k)
<1> USE LimbAssumption
<1>1. /\ x \in Number /\ y \in Number /\ ret \in Number /\ Value(x) >= Value(y)
      /\ SubtractedDownTo(ret, x, y, -1) <=> \A k \in Middle : ~ Misjudged(op, x, y, k)
  BY DEF Subtracting
<1>2. ASSUME SubtractedDownTo(ret, x, y, -1)
      PROVE  Value(ret) = Value(x) - Value(y)
  BY <1>1, <1>2, ExactDifference
<1>3. ASSUME Value(ret) = Value(x) - Value(y)
      PROVE  SubtractedDownTo(ret, x, y, -1)
  <2> DEFINE d == [k \in 0 .. INTS - 1 |-> (Lent(x, y, k) - y[k]) % Radix]
  <2>1. d \in Number
    <3>1. \A k \in 0 .. INTS - 1 : (Lent(x, y, k) - y[k]) % Radix \in Limb
      BY <1>1, DifferenceLimb
    <3>2. QED
      BY <3>1 DEF Number
  <2>2. \A k \in 0 .. INTS - 1 : d[k] = (Lent(x, y, k) - y[k]) % Radix
    OBVIOUS
  <2> HIDE DEF d
  <2>3. SubtractedDownTo(d, x, y, -1)
    <3>1. \A k \in 0 .. INTS - 1 : k > -1
      BY <1>1, DifferenceLimb
    <3>2. QED
      BY <2>2, <3>1 DEF SubtractedDownTo
  <2>4. Value(d) = Value(ret)
    BY <1>1, <1>3, <2>1, <2>3, ExactDifference
  <2>5. \A k \in 0 .. INTS - 1 : d[k] = ret[k]
    BY <1>1, <2>1, <2>4, LimbsUnique
  <2>6. QED
    BY <2>3, <2>5 DEF SubtractedDownTo
<1>4. QED
  BY <1>1, <1>2, <1>3

(* Both loops keep the invariant of the subtractions.                      *)
LEMMA SubtractingInvariant == Spec => []Subtracting
<1>1. Init => Subtracting
  BY DEF Init, Subtracting
<1>2. Subtracting /\ [Next]_vars => Subtracting'
  <2> SUFFICES ASSUME Subtracting, [Next]_vars
               PROVE  Subtracting'
    OBVIOUS
  <2>1. CASE Call
    BY <2>1, CallSubtracts
  <2>2. CASE Borrow
    BY <2>2, RoundBorrows
  <2>3. CASE BorrowDone
    BY <2>3, BorrowsDone
  <2>4. CASE SubLimb
    BY <2>4, RoundSubtracts
  <2>5. CASE Compare
    BY <2>5 DEF Compare, CompareUpTo, Subtracting
  <2>6. CASE MulLimb
    BY <2>6 DEF MulLimb, Finish, Subtracting
  <2>7. CASE DivLimb
    BY <2>7 DEF DivLimb, DivLimbWith, Finish, Subtracting
  <2>8. CASE ModLimb
    BY <2>8 DEF ModLimb, ModLimbWeighed, Subtracting
  <2>9. CASE UNCHANGED vars
    BY <2>9 DEF vars, Subtracting, Value
  <2>10. QED
    BY <2>1, <2>2, <2>3, <2>4, <2>5, <2>6, <2>7, <2>8, <2>9 DEF Next, Done
<1>3. QED
  BY <1>1, <1>2, PTL DEF Spec

(* operator- of myBigInt.h is wrong exactly if a middle limb is all ones   *)
(* and nothing is borrowed from it.                                        *)
THEOREM OnesMisjudged == Spec => []SubtractionWrongOnOnes
<1>1. Subtracting => SubtractionWrongOnOnes
  <2>1. SUFFICES ASSUME Subtracting, Finished("-")
                 PROVE  Value(ret) = Value(x) - Value(y)
                          <=> ~ \E k \in Middle : x[k] = Radix - 1 /\ ~ BorrowFrom(k)
    BY DEF SubtractionWrongOnOnes
  <2>2. pc = "done" /\ op = "-"
    BY <2>1 DEF Finished
  <2>3. Value(ret) = Value(x) - Value(y) <=> \A k \in Middle : ~ Misjudged(op, x, y, k)
    BY <2>1, <2>2, SubtractedRight
  <2>4. \A k \in Middle : Misjudged(op, x, y, k) <=> x[k] = Radix - 1 /\ ~ BorrowFrom(k)
    BY <2>2 DEF Misjudged, Owes, BorrowFrom
  <2>5. QED
    BY <2>3, <2>4
<1>2. QED
  BY <1>1, SubtractingInvariant, PTL

(* operator- of uint288.cu is wrong exactly if a middle limb is 0 and is   *)
(* borrowed from.                                                          *)
THEOREM ZerosMisjudged == Spec => []SubtractionWrongOnZero
<1>1. Subtracting => SubtractionWrongOnZero
  <2>1. SUFFICES ASSUME Subtracting, Finished("gpu -")
                 PROVE  Value(ret) = Value(x) - Value(y)
                          <=> ~ \E k \in Middle : x[k] = 0 /\ BorrowFrom(k)
    BY DEF SubtractionWrongOnZero
  <2>2. pc = "done" /\ op = "gpu -"
    BY <2>1 DEF Finished
  <2>3. Value(ret) = Value(x) - Value(y) <=> \A k \in Middle : ~ Misjudged(op, x, y, k)
    BY <2>1, <2>2, SubtractedRight
  <2>4. \A k \in Middle : Misjudged(op, x, y, k) <=> x[k] = 0 /\ BorrowFrom(k)
    <3>1. op # "-"
      BY <2>2
    <3>2. \A k \in Middle : Misjudged(op, x, y, k) <=> x[k] = 0 /\ Owes(x, y, k + 1) = 1
      BY <3>1 DEF Misjudged
    <3>3. QED
      BY <3>2 DEF Owes, BorrowFrom
  <2>5. QED
    BY <2>3, <2>4
<1>2. QED
  BY <1>1, SubtractingInvariant, PTL
=============================================================================
