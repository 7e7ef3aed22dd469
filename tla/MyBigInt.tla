------------------------------ MODULE MyBigInt ------------------------------
(***************************************************************************)
(* The fixed-width integers of DBCTest/myBigInt.h and their copy for the   *)
(* GPU, gpuec/uint288.cu: INTS limbs of 32 bits, most significant first.   *)
(* One operation runs at a time; a step is one round of its loop over the  *)
(* limbs.  The two versions differ in how subtraction finds its borrows.   *)
(***************************************************************************)
EXTENDS Integers

CONSTANTS
  INTS,       \* limbs of a number
  Radix,      \* 2^32
  Divisor,    \* 3^18, of div_3_18
  Modulus,    \* 2 * 3^19, of mod_2_33_3_19
  Pairs,      \* the operands of - and >=
  Numbers     \* the operands of the other operations

Limb   == 0 .. Radix - 1
Number == [0 .. INTS - 1 -> Limb]

ASSUME LimbAssumption ==
  /\ INTS \in Nat /\ INTS >= 2
  /\ Radix \in Nat /\ Radix >= 4 /\ Radix % 2 = 0
  /\ Divisor \in 1 .. Radix
  /\ Modulus \in Nat \ {0}
  /\ Pairs \subseteq Number \X Number
  /\ Numbers \subseteq Number

VARIABLES pc, op,     \* "borrow" and "limbs" are the loops of a running operation
          x, y,       \* the operands
          ret, i,     \* the number in work, the limb in work
          temp        \* a remainder, a sum, or the outcome of a comparison

vars == <<pc, op, x, y, ret, i, temp>>

Zero == [k \in 0 .. INTS - 1 |-> 0]

(* The value of the first k limbs, and of those from limb k on.            *)
Prefix(c) ==
  LET v[k \in 0 .. INTS] == IF k = 0 THEN 0 ELSE v[k - 1] * Radix + c[k - 1]
  IN  v

Weight[k \in 0 .. INTS - 1] == IF k = 0 THEN 1 ELSE Weight[k - 1] * Radix

Value(c) == Prefix(c)[INTS]
Low(c, k) == Value([j \in 0 .. INTS - 1 |-> IF j < k THEN 0 ELSE c[j]])

-----------------------------------------------------------------------------
Init ==
  /\ pc = "idle" /\ op = "none"
  /\ x = Zero /\ y = Zero /\ ret = Zero
  /\ i = 0
  /\ temp = 0

Begin(name, loop, u, v, r, first) ==
  /\ pc' = loop
  /\ op' = name
  /\ x' = u /\ y' = v
  /\ ret' = r
  /\ i' = first
  /\ temp' = 0

(* t - p in the generators: the larger number comes first.                 *)
BeginSub(name, u, v) ==
  /\ Value(u) >= Value(v)
  /\ Begin(name, "borrow", u, v, u, INTS - 1)

BeginCompare(u, v) == Begin(">=", "limbs", u, v, Zero, 0)
BeginMul(name, u)  == Begin(name, "limbs", u, Zero, Zero, INTS - 1)
BeginDiv(u)        == Begin("div_3_18", "limbs", u, Zero, u, 0)
BeginMod(u)        == Begin("mod_2_33_3_19", "limbs", u, Zero, Zero, 1)

Finish == pc' = "done" /\ UNCHANGED <<op, x, y, ret, i, temp>>

(* operator-, first loop: a limb smaller than its partner borrows one from *)
(* the next limb.  myBigInt.h takes a limb of all ones, except the lowest, *)
(* for a limb that has itself been borrowed from; uint288.cu does not look. *)
Borrows(ones) == ret[i] < y[i] \/ (ones /\ i < INTS - 1 /\ ret[i] = Radix - 1)

BorrowIf(borrows) ==
  /\ pc = "borrow"
  /\ i > 0
  /\ ret' = IF borrows THEN [ret EXCEPT ![i - 1] = (@ - 1) % Radix] ELSE ret
  /\ i' = i - 1
  /\ UNCHANGED <<pc, op, x, y, temp>>

BorrowWithoutOnes == BorrowIf(Borrows(FALSE))                     \* mutated
BorrowWithOnes    == BorrowIf(Borrows(TRUE))                      \* mutated
Borrow            == BorrowIf(Borrows(op = "-"))

BorrowDone ==
  /\ pc = "borrow"
  /\ i = 0
  /\ pc' = "limbs"
  /\ i' = INTS - 1
  /\ UNCHANGED <<op, x, y, ret, temp>>

(* Second loop: every limb on its own, modulo 2^32.                        *)
SubLimb ==
  /\ pc = "limbs" /\ op \in {"-", "gpu -"}
  /\ IF i >= 0
     THEN /\ ret' = [ret EXCEPT ![i] = (@ - y[i]) % Radix]
          /\ i' = i - 1
          /\ UNCHANGED <<pc, op, x, y, temp>>
     ELSE Finish

(* operator>=: decided at the first limb that differs.                     *)
CompareUpTo(last) ==
  /\ pc = "limbs" /\ op = ">="
  /\ IF i <= last /\ x[i] = y[i]
     THEN i' = i + 1 /\ UNCHANGED <<pc, op, x, y, ret, temp>>
     ELSE /\ temp' = IF i > last \/ x[i] > y[i] THEN 1 ELSE 0
          /\ pc' = "done"
          /\ UNCHANGED <<op, x, y, ret, i>>

CompareButLast == CompareUpTo(INTS - 2)                           \* mutated
Compare        == CompareUpTo(INTS - 1)

(* mul_2 takes the top bit of the limb below; mul_3 the upper half of its  *)
(* triple, added to the lower half of the limb's own in 32 bits.           *)
BelowOwn(k, j) == (k * x[i]) \div j                               \* mutated
Below(k, j) == IF i = INTS - 1 THEN 0 ELSE (k * x[i + 1]) \div j

MulLimb ==
  /\ pc = "limbs" /\ op \in {"mul_2", "mul_3"}
  /\ IF i >= 0
     THEN /\ ret' = [ret EXCEPT ![i] =
                       IF op = "mul_2" THEN (2 * x[i] + Below(1, Radix \div 2)) % Radix
                                       ELSE (((3 * x[i]) % Radix) + Below(3, Radix)) % Radix]
          /\ i' = i - 1
          /\ UNCHANGED <<pc, op, x, y, temp>>
     ELSE Finish

(* div_3_18: long division from the top limb.                              *)
DivLimbWith(remainder) ==
  /\ pc = "limbs" /\ op = "div_3_18"
  /\ IF i < INTS
     THEN LET temp1 == remainder * Radix + ret[i] IN
          /\ ret' = [ret EXCEPT ![i] = (temp1 \div Divisor) % Radix]
          /\ temp' = temp1 % Divisor
          /\ i' = i + 1
          /\ UNCHANGED <<pc, op, x, y>>
     ELSE Finish

DivLimbAlone == DivLimbWith(0)                                    \* mutated
DivLimb      == DivLimbWith(temp)

(* mod_2_33_3_19: all limbs but the lowest, modulo 2 * 3^19 by a table of  *)
(* the weights' residues, then the lowest limb below that.                 *)
mul_num[k \in 0 .. INTS - 1] == Weight[k] % Modulus

ModLimbWeighed(k) ==
  /\ pc = "limbs" /\ op = "mod_2_33_3_19"
  /\ IF i < INTS
     THEN /\ temp' = temp + ((x[i - 1] * mul_num[k]) % Modulus)
          /\ i' = i + 1
          /\ UNCHANGED <<pc, op, x, y, ret>>
     ELSE /\ pc' = "done"
          /\ temp' = (temp % Modulus) * Radix + x[INTS - 1]
          /\ UNCHANGED <<op, x, y, ret, i>>

ModLimbFromTop == ModLimbWeighed(i - 1)                           \* mutated
ModLimb        == ModLimbWeighed(INTS - 1 - i)

(* Operations are independent of each other: one is enough.                *)
Done == pc = "done" /\ UNCHANGED vars

Call ==
  /\ pc = "idle"
  /\ \/ \E p \in Pairs : \/ \E name \in {"-", "gpu -"} : BeginSub(name, p[1], p[2])
                         \/ BeginCompare(p[1], p[2])
     \/ \E u \in Numbers : \/ \E name \in {"mul_2", "mul_3"} : BeginMul(name, u)
                           \/ BeginDiv(u)
                           \/ BeginMod(u)

Next ==
  \/ Call
  \/ Borrow
  \/ BorrowDone
  \/ SubLimb
  \/ Compare
  \/ MulLimb
  \/ DivLimb
  \/ ModLimb
  \/ Done

Spec == Init /\ [][Next]_vars

-----------------------------------------------------------------------------
Finished(name) == pc = "done" /\ op = name

Size == Weight[INTS - 1] * Radix

(* Whether limb k is borrowed from.                                        *)
BorrowFrom(k) == Low(x, k + 1) < Low(y, k + 1)

Middle == 1 .. INTS - 2

(* myBigInt's operator- is wrong exactly if a middle limb is all ones and  *)
(* nothing is borrowed from it: the limb above then loses one for nothing. *)
SubtractionWrongOnOnes ==
  Finished("-") =>
    (Value(ret) = Value(x) - Value(y)
       <=> ~ \E k \in Middle : x[k] = Radix - 1 /\ ~ BorrowFrom(k))

(* uint288's operator- is wrong exactly if a middle limb is 0 and is       *)
(* borrowed from: it does not borrow on.                                   *)
SubtractionWrongOnZero ==
  Finished("gpu -") =>
    (Value(ret) = Value(x) - Value(y)
       <=> ~ \E k \in Middle : x[k] = 0 /\ BorrowFrom(k))

ComparisonRight == Finished(">=") => (temp = 1 <=> Value(x) >= Value(y))

(* mul_2 is exact modulo the width; mul_3 unless the carry into a limb     *)
(* does not fit beside the lower half of the limb's own triple.            *)
CarryLost(k) == ((3 * x[k]) % Radix) + ((3 * x[k + 1]) \div Radix) >= Radix

MultipleExact ==
  /\ Finished("mul_2") => Value(ret) = (2 * Value(x)) % Size
  /\ Finished("mul_3") => (Value(ret) = (3 * Value(x)) % Size
                             <=> ~ \E k \in 1 .. INTS - 2 : CarryLost(k))

(* Loop invariant of the long division: the limbs done are the quotient of *)
(* those of x, temp is the remainder, the others are still to be divided;  *)
(* at the end nothing is left.                                             *)
DivisionInv ==
  (op = "div_3_18" /\ pc # "idle") =>
    /\ Prefix(x)[i] = Divisor * Prefix(ret)[i] + temp
    /\ temp \in 0 .. Divisor - 1
    /\ \A k \in i .. INTS - 1 : ret[k] = x[k]
    /\ pc = "done" => i = INTS

ResidueExact ==
  Finished("mod_2_33_3_19") => temp = Value(x) % (Radix * Modulus)
=============================================================================
