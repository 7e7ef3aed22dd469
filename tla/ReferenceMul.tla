---------------------------- MODULE ReferenceMul ----------------------------
(***************************************************************************)
(* binary_POINT_mul and NAF_POINT_mul (DBCTest/functions.h), the scalar    *)
(* multiplications against which the benchmark measures double-base        *)
(* chains: right-to-left over the bits of n, and left-to-right over its    *)
(* non-adjacent form; and the multiplications of gpuec/gpuec256.cu, which  *)
(* go down the bits of the scalar or up a table of 2^e G; and the earlier  *)
(* evaluation of chains in DBCTest/optimal_DBC2.cpp, which takes the terms *)
(* from the smallest.  A step is one round of a loop.                      *)
(***************************************************************************)
EXTENDS ECPoint, DoubleBase, Sequences, SequencesExt

CONSTANTS
  Scalars,    \* the arguments of the calls
  Chains,     \* what getOptimalDBC leaves in now_DBC, rows [minus, dbl, tpl]
  BITS,       \* bits of a scalar on the GPU, 256 in the code
  NoResult    \* what a caller sees before the call has returned

(* The sums of the first rows of a chain.                                  *)
RowValue(row) == (IF row.minus THEN -1 ELSE 1) * Pow23(row.dbl, row.tpl)

RowSums(rows) ==
  LET v[x \in 0 .. Len(rows)] == IF x = 0 THEN 0 ELSE v[x - 1] + RowValue(rows[x])
  IN  v

RowsValue(rows) == RowSums(rows)[Len(rows)]

(* The chains come with the smallest term first, and are of scalars.       *)
Row == [minus : BOOLEAN, dbl : Nat, tpl : Nat]

Ascending(rows) ==
  \A x \in 1 .. Len(rows) - 1 : /\ rows[x].dbl <= rows[x + 1].dbl
                                /\ rows[x].tpl <= rows[x + 1].tpl

ASSUME ReferenceAssumption ==
  /\ Scalars \subseteq Nat
  /\ BITS \in Nat
  /\ \A rows \in Chains : /\ rows \in Seq(Row) /\ rows # <<>>
                          /\ Ascending(rows)
                          /\ RowsValue(rows) \in Scalars

VARIABLES pc,       \* the loop of the running call: "bits", "digits", "eval",
                    \* "down", "up" or "terms"
          hexwords, \* the argument
          k,        \* what is left of it (a BIGNUM, consumed)
          R,        \* the result
          doubled,  \* mult_points: the point doubled once per bit
          NAF, j,   \* digits of the non-adjacent form, the digit (bit, term) in work
          now_DBC,  \* the chain in work
          now,      \* now_dbl and now_tpl, the exponents of the point doubled and tripled
          TTV       \* additions and doublings, as the functions count them

chainVars == <<now_DBC, now>>
vars == <<pc, hexwords, k, R, doubled, NAF, j, chainVars, TTV>>

G        == Affine(1)
invert_G == Invert(G)

NoTTV == [add |-> 0, dbl |-> 0]
NoExponents == [dbl |-> 0, tpl |-> 0]

Init ==
  /\ pc = "idle"
  /\ hexwords = 0
  /\ k = 0
  /\ R = NewPoint
  /\ doubled = NewPoint
  /\ NAF = <<>>
  /\ j = 0
  /\ now_DBC = <<>>
  /\ now = NoExponents
  /\ TTV = NoTTV

BeginOn(rows, n, loop, result) ==
  /\ pc \in {"idle", "done"}
  /\ pc' = loop
  /\ hexwords' = n
  /\ k' = n
  /\ R' = result
  /\ now_DBC' = rows
  /\ now' = NoExponents
  /\ TTV' = NoTTV

Begin(n, loop, result) == BeginOn(<<>>, n, loop, result)

(* binary_POINT_mul on a fresh result point.                               *)
CallBinary(n) ==
  /\ Begin(n, "bits", NewPoint)
  /\ doubled' = G
  /\ NAF' = <<>>
  /\ j' = 0

BitThen(half) ==
  /\ pc = "bits"
  /\ k # 0
  /\ R' = IF k % 2 = 1 THEN Add(R, doubled) ELSE R
  /\ doubled' = Dbl(doubled)
  /\ TTV' = [add |-> TTV.add + (k % 2), dbl |-> TTV.dbl + 1]
  /\ k' = half
  /\ UNCHANGED <<pc, hexwords, NAF, j, chainVars>>

BitRoundedUp == BitThen(IF k = 1 THEN 0 ELSE (k + 1) \div 2)      \* mutated
Bit          == BitThen(k \div 2)

ReturnBinary ==
  /\ pc = "bits"
  /\ k = 0
  /\ pc' = "done"
  /\ UNCHANGED <<hexwords, k, R, doubled, NAF, j, TTV, chainVars>>

(* NAF_POINT_mul copies G into the result and asks int_to_naf for the      *)
(* digits; that of 0 is the single digit 0.                                *)
CallNAF(n) ==
  /\ Begin(n, IF n = 0 THEN "eval" ELSE "digits", G)
  /\ NAF' = IF n = 0 THEN <<0>> ELSE <<>>
  /\ j' = 2
  /\ doubled' = NewPoint

(* An odd number gives the digit 2 - (n mod 4), which leaves a multiple    *)
(* of 4.                                                                   *)
DigitOf(digit) ==
  /\ pc = "digits"
  /\ k # 0
  /\ NAF' = Append(NAF, digit)
  /\ k' = (k - digit) \div 2
  /\ UNCHANGED <<pc, hexwords, R, doubled, j, TTV, chainVars>>

DigitBinary == DigitOf(k % 2)                                     \* mutated
Digit       == DigitOf(IF k % 2 = 0 THEN 0 ELSE 2 - (k % 4))

ReverseDigits ==
  /\ pc = "digits"
  /\ k = 0
  /\ pc' = "eval"
  /\ NAF' = Reverse(NAF)
  /\ UNCHANGED <<hexwords, k, R, doubled, j, TTV, chainVars>>

(* One round of the evaluation, the leading digit being taken for 1.       *)
EvalWith(negative) ==
  /\ pc = "eval"
  /\ j <= Len(NAF)
  /\ R' = CASE NAF[j] = 1  -> Add(Dbl(R), G)
            [] NAF[j] = -1 -> Add(Dbl(R), negative)
            [] NAF[j] = 0  -> Dbl(R)
  /\ TTV' = [add |-> TTV.add + (IF NAF[j] = 0 THEN 0 ELSE 1), dbl |-> TTV.dbl + 1]
  /\ j' = j + 1
  /\ UNCHANGED <<pc, hexwords, k, doubled, NAF, chainVars>>

EvalUnsigned == EvalWith(G)                                       \* mutated
EvalDigit    == EvalWith(invert_G)

ReturnNAF ==
  /\ pc = "eval"
  /\ j > Len(NAF)
  /\ pc' = "done"
  /\ UNCHANGED <<hexwords, k, R, doubled, NAF, j, TTV, chainVars>>

(* A running call of either function of DBCTest.                           *)
Running == Bit \/ ReturnBinary \/ Digit \/ ReverseDigits \/ EvalDigit \/ ReturnNAF

-----------------------------------------------------------------------------
(* Points on the GPU have no flag.  dh_ellipticAdd_JJ has no case for a    *)
(* point at infinity nor for a point and itself, dh_ellipticSumEqual_AJ    *)
(* has both.                                                               *)
GpuPoint(m) == Jacobian(m)

dh_ellipticAdd_JJ(p, q) ==
  IF \/ ~Usable(p) \/ ~Usable(q)
     \/ AtInfinity(p) \/ AtInfinity(q)
     \/ (p.k - q.k) % Order = 0
  THEN Garbage(p.k + q.k)
  ELSE Jacobian(p.k + q.k)

BitOf(n, e) == (n \div Pow2[e]) % 2
SetBits(n)  == { e \in 0 .. BITS - 1 : BitOf(n, e) = 1 }

(* The callers pass scalars modulo the order, and never 0: the functions   *)
(* would only print a warning and then read before the scalar.             *)
GpuScalars == { n \in Scalars : 0 < n /\ n < Order /\ n < Pow2[BITS] }

(* dh_point_mult_finalversion (and _inplace, _outofplace, _uint32): from   *)
(* the bit below the leading one down to bit 0.                            *)
CallDown(n) ==
  /\ Begin(n, "down", GpuPoint(1))
  /\ doubled' = NewPoint
  /\ NAF' = <<>>
  /\ j' = Max(SetBits(n)) - 1

BitDown ==
  /\ pc = "down"
  /\ j >= 0
  /\ R' = LET twice == Dbl(R)
          IN  IF BitOf(hexwords, j) = 1 THEN dh_ellipticAdd_JJ(twice, GpuPoint(1)) ELSE twice
  /\ j' = j - 1
  /\ UNCHANGED <<pc, hexwords, k, doubled, NAF, TTV, chainVars>>

(* d_base_point_mul: from the lowest bit set up to the top of the scalar,  *)
(* over basePointMulPCT.                                                   *)
CallUp(n) ==
  LET lowest == Min(SetBits(n))
  IN  /\ Begin(n, "up", GpuPoint(Pow2[lowest]))
      /\ doubled' = NewPoint
      /\ NAF' = <<>>
      /\ j' = lowest + 1

BitUp ==
  /\ pc = "up"
  /\ j < BITS
  /\ R' = IF BitOf(hexwords, j) = 1 THEN Add(R, GpuPoint(Pow2[j])) ELSE R
  /\ j' = j + 1
  /\ UNCHANGED <<pc, hexwords, k, doubled, NAF, TTV, chainVars>>

ReturnGpu ==
  /\ \/ pc = "down" /\ j < 0
     \/ pc = "up" /\ j >= BITS
  /\ pc' = "done"
  /\ UNCHANGED <<hexwords, k, R, doubled, NAF, j, TTV, chainVars>>

-----------------------------------------------------------------------------
(* DBC_POINT_mul of optimal_DBC2.cpp: mult_points, which starts as         *)
(* -(-2a + a), is doubled and tripled up to the exponents of each term and *)
(* added with its sign; the first term is copied.                          *)
CallChain(rows) ==
  /\ BeginOn(rows, RowsValue(rows), "terms", NewPoint)
  /\ doubled' = Invert(Add(Invert(Dbl(G)), G))
  /\ NAF' = <<>>
  /\ j' = 1

DoubleUp ==
  /\ pc = "terms" /\ j <= Len(now_DBC)
  /\ now.dbl < now_DBC[j].dbl
  /\ doubled' = Dbl(doubled)
  /\ now' = [now EXCEPT !.dbl = @ + 1]
  /\ UNCHANGED <<pc, hexwords, k, R, NAF, j, now_DBC, TTV>>

TripleUp ==
  /\ pc = "terms" /\ j <= Len(now_DBC)
  /\ now.dbl >= now_DBC[j].dbl
  /\ now.tpl < now_DBC[j].tpl
  /\ doubled' = Tpl(doubled, doubled)
  /\ now' = [now EXCEPT !.tpl = @ + 1]
  /\ UNCHANGED <<pc, hexwords, k, R, NAF, j, now_DBC, TTV>>

AddTermUp ==
  /\ pc = "terms" /\ j <= Len(now_DBC)
  /\ now.dbl >= now_DBC[j].dbl /\ now.tpl >= now_DBC[j].tpl
  /\ LET term == IF now_DBC[j].minus THEN Invert(doubled) ELSE doubled
     IN  R' = IF j = 1 THEN term ELSE Add(R, term)
  /\ j' = j + 1
  /\ UNCHANGED <<pc, hexwords, k, doubled, NAF, chainVars, TTV>>

ReturnChain ==
  /\ pc = "terms" /\ j > Len(now_DBC)
  /\ pc' = "done"
  /\ UNCHANGED <<hexwords, k, R, doubled, NAF, j, chainVars, TTV>>

Next ==
  \/ \E n \in Scalars : CallBinary(n) \/ CallNAF(n)
  \/ \E n \in GpuScalars : CallDown(n) \/ CallUp(n)
  \/ Running
  \/ BitDown \/ BitUp \/ ReturnGpu
  \/ \E rows \in Chains : CallChain(rows)
  \/ DoubleUp \/ TripleUp \/ AddTermUp \/ ReturnChain

Spec == Init /\ [][Next]_vars

-----------------------------------------------------------------------------
(* The number whose binary digits, most significant first, are ds, and     *)
(* those of its first digits.                                              *)
Horners(ds) ==
  LET v[x \in 0 .. Len(ds)] == IF x = 0 THEN 0 ELSE 2 * v[x - 1] + ds[x]
  IN  v

Horner(ds) == Horners(ds)[Len(ds)]

(* The digits of n as int_to_naf pushes them come least significant first. *)
BitsLeft  == R.k + k * doubled.k = hexwords
Converted == Horner(Reverse(NAF)) + k * Pow2[Len(NAF)] = hexwords
Evaluated == hexwords # 0 => R.k = Horners(NAF)[j - 1]

(* The bits above j, and those below it, as the loops of the GPU have      *)
(* taken them; no addition has met operands its formulas have no case for. *)
TakenDown == Usable(R) /\ R.k = hexwords \div Pow2[j + 1]
TakenUp   == Usable(R) /\ R.k = hexwords % Pow2[j]

(* The terms up to j, as the earlier evaluation has added them.            *)
TermsTaken ==
  /\ Usable(R) /\ Usable(doubled)
  /\ doubled.k = Pow23(now.dbl, now.tpl)
  /\ R.k = RowSums(now_DBC)[j - 1]

(* The loop invariants: what a loop has done and what is left make up the  *)
(* scalar, in each of the six.                                             *)
LoopsExact ==
  /\ pc = "bits" => BitsLeft
  /\ pc = "digits" => Converted
  /\ pc = "eval" => Horner(NAF) = hexwords /\ Evaluated
  /\ pc = "down" => TakenDown
  /\ pc = "up" => TakenUp
  /\ pc = "terms" => TermsTaken

(* Of two neighbouring digits one is 0, so NAF_POINT_mul never adds more   *)
(* often than binary_POINT_mul, and doubles at most as often.              *)
NonAdjacent == \A x \in 1 .. Len(NAF) - 1 : NAF[x] = 0 \/ NAF[x + 1] = 0

BinaryTTV[n \in Nat] ==
  IF n = 0 THEN NoTTV
           ELSE [add |-> BinaryTTV[n \div 2].add + (n % 2), dbl |-> BinaryTTV[n \div 2].dbl + 1]

NoDearer ==
  pc = "done" => /\ TTV.add <= BinaryTTV[hexwords].add
                 /\ TTV.dbl <= BinaryTTV[hexwords].dbl

SparseDigits == NonAdjacent /\ NoDearer

(* All functions implement the abstract multiplication, but for one        *)
(* scalar: NAF_POINT_mul, which starts from a copy of G whatever the       *)
(* leading digit, returns G for n = 0.                                     *)
Promised == IF hexwords = 0 /\ NAF # <<>> THEN 1 ELSE hexwords

Abstract == INSTANCE ScalarMul WITH
  Scalars <- Scalars \cup {1},
  phase  <- IF pc \in {"idle", "done"} THEN pc ELSE "busy",
  n      <- Promised,
  result <- IF pc = "done" /\ Usable(R) THEN R.k ELSE NoResult

ImplementsScalarMul == Abstract!Spec
=============================================================================
