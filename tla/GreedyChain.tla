---------------------------- MODULE GreedyChain ----------------------------
(***************************************************************************)
(* getEOSDBC (DBCTest/EOS_DBC.cpp), getSubOptimalDBC                       *)
(* (DBCTest/subOptimal_DBC.cpp) and the latter's two descendants on the    *)
(* GPU, get_DBC (gpuec/gpuec256.cu) and DBCv2::getDBC (gpuec/DBC.cu):      *)
(* double-base chains by greedy descent.                                   *)
(* For each power of three b of a list, the bounds LBound and RBound say   *)
(* whether some 2^a 3^b is near n; if so a chain is grown from (a, b) by   *)
(* taking the nearest 2^alpha 3^beta below the last exponents until the    *)
(* remainder is 0.  Two slots of DBC_store alternate: DBC_index is the one *)
(* the next chain overwrites, the other holds the cheapest chain so far.   *)
(* The functions differ in the list, in the width of the window in which   *)
(* beta is sought, in the number of chains after which they stop and in    *)
(* the prices; those of the GPU do not look for negative bounds, and their *)
(* jobs here are those that have none.                                     *)
(*                                                                         *)
(* The remainder is an exact integer, so a scalar here is one on whose     *)
(* descent the operator- of myBigInt, which is wrong on some limbs of all  *)
(* ones (MyBigInt), and the rounding of doubles do no harm.                *)
(***************************************************************************)
EXTENDS DoubleBase, Sequences, FiniteSets

CONSTANTS
  Jobs,       \* the calls: [n, b_try, window, dbc_coef, price]
  LaterJobs   \* those made after another call (all of them in the harness; fewer
              \* bound the left-overs in the store that TLC has to explore)

ASSUME JobsAssumption ==
  /\ LaterJobs \subseteq Jobs
  /\ \A x \in Jobs : /\ x.n \in Nat
                     /\ x.b_try \in Seq(0 .. MAX_2)
                     /\ x.window \in Nat /\ x.window >= 2
                     /\ x.dbc_coef \in Nat
                     /\ x.price \in {DBCTestCosts, GpuecCosts}
                     /\ 2 * x.n < Pow2[MAX_2]   \* INTS limbs, the top one spare

(* Unset exceeds every cost that fits the store (MAX_2 is 544 at most).    *)
ASSUME SizeAssumption == MAX_2 <= 10000

VARIABLES pc, job,                       \* where the call is, its arguments
          DBC_store, DBC_len, DBC_index, \* the chains (globals), the slot in work
          z, count_DBC,                  \* loop over b_try
          a, b_temp, t, s, i,            \* the chain in work: bounds, remainder, sign, length
          tried                          \* (history) costs of the chains of this call

chainVars == <<a, b_temp, t, s, i>>
vars == <<pc, job, DBC_store, DBC_len, DBC_index, z, count_DBC, chainVars, tried>>

NoJob == [n |-> 0, b_try |-> <<>>, window |-> 0, dbc_coef |-> 0, price |-> DBCTestCosts]

(* DBC_len[1] at the start of a call, above every real length.             *)
Unset == 1048576

n == job.n
b == job.b_try[z]

JobCost(c, l) == CostAt(job.price, c, l)

-----------------------------------------------------------------------------
(* The bounds of a, from B1 = 9n/(7 sqrt 2) and B2 = 16 sqrt 2 n/21, in    *)
(* exact integers: 2^k 3^e is at most B1 (B2) iff its square is.  The      *)
(* conversion to int truncates towards 0, so a bound is negative only if   *)
(* B1/3^e <= 1/4 (B2/3^e <= 1/2).  (A power above 2n is above both; asking *)
(* first keeps the squares within the integers of TLC.)                    *)
UpToB1(p) == p <= 2 * n /\ 98 * p * p <= 81 * n * n
UpToB2(p) == p <= 2 * n /\ 441 * p * p <= 512 * n * n

LBound(e) == Cardinality({k \in 0 .. MAX_2 : UpToB1(Pow23(k, e))})
RBound(e) == Cardinality({k \in 1 .. MAX_2 : UpToB2(Pow23(k, e))})

BoundBelowOne(e) == 81 * n * n < 98 * Pow3[e] * Pow3[e]          \* mutated
BoundNegative(e) == \/ 1296 * n * n <= 98 * Pow3[e] * Pow3[e]
                    \/ 2048 * n * n <= 441 * Pow3[e] * Pow3[e]

(* The distance of the remainder to 2^d 3^j.                               *)
Gap(d, j) == IF t >= Pow23(d, j) THEN t - Pow23(d, j) ELSE Pow23(d, j) - t

(* alpha_j: the exponent of 2, at most a, of the power nearest to the      *)
(* remainder for a given exponent j of 3; of two equally near the smaller. *)
Below(j) == Cardinality({k \in 1 .. a : Pow23(k, j) <= t})

AlphaWithin(j, limit) ==
  IF Pow3[j] >= t THEN 0
  ELSE IF Below(j) >= limit THEN limit
  ELSE IF Gap(Below(j), j) <= Gap(Below(j) + 1, j) THEN Below(j) ELSE Below(j) + 1
Alpha(j)         == AlphaWithin(j, a)

(* beta: the exponent of 3 in the window below b_temp that comes nearest;  *)
(* the loop goes downwards and a tie replaces, so the smallest.            *)
WindowUpTo(top) == (IF top > job.window THEN top - job.window ELSE 0) .. top
WindowClosed    == b_temp .. b_temp                               \* mutated
WindowBelow     == WindowUpTo(IF b_temp = 0 THEN 0 ELSE b_temp - 1) \* mutated
Window          == WindowUpTo(b_temp)

Power(alpha, beta) == [gap |-> Gap(alpha, beta), alpha |-> alpha, beta |-> beta]

Precedes(p, q) == p.gap < q.gap \/ (p.gap = q.gap /\ p.beta <= q.beta)

NearestOf(powers) == CHOOSE p \in powers : \A q \in powers : Precedes(p, q)

-----------------------------------------------------------------------------
Init ==
  /\ pc = "idle"
  /\ job = NoJob
  /\ DBC_store = [x \in 0 .. 1 |-> EmptySlot]
  /\ DBC_len = [x \in 0 .. 1 |-> 0]
  /\ DBC_index = 0
  /\ z = 1
  /\ count_DBC = 0
  /\ a = 0 /\ b_temp = 0 /\ t = 0 /\ s = 1 /\ i = 0
  /\ tried = {}

CallWith(newJob, len) ==
  /\ \/ pc = "idle"
     \/ pc = "done" /\ newJob \in LaterJobs
  /\ pc' = "bounds"
  /\ job' = newJob
  /\ DBC_index' = 0
  /\ DBC_len' = len
  /\ z' = 1
  /\ count_DBC' = 0
  /\ tried' = {}
  /\ UNCHANGED <<DBC_store, chainVars>>

CallKeepingLen(newJob) == CallWith(newJob, DBC_len)               \* mutated
Call(newJob) == CallWith(newJob, [DBC_len EXCEPT ![1] = Unset])

(* The loop over b_try is left at its end or at the first negative bound.  *)
LoopDone == z <= Len(job.b_try) => BoundNegative(b)

Return ==
  /\ pc = "bounds"
  /\ LoopDone
  /\ pc' = "done"
  /\ UNCHANGED <<job, DBC_store, DBC_len, DBC_index, z, count_DBC, chainVars, tried>>

SkipTo(next) ==
  /\ pc = "bounds"
  /\ ~ LoopDone
  /\ LBound(b) # RBound(b)
  /\ z' = next
  /\ UNCHANGED <<pc, job, DBC_store, DBC_len, DBC_index, count_DBC, chainVars, tried>>

SkipNothing == SkipTo(z)                                          \* mutated
Skip        == SkipTo(z + 1)

StartWith(sign) ==
  /\ pc = "bounds"
  /\ ~ LoopDone
  /\ LBound(b) = RBound(b)
  /\ pc' = "greedy"
  /\ a' = RBound(b)
  /\ b_temp' = b
  /\ t' = n
  /\ s' = sign
  /\ i' = 0
  /\ UNCHANGED <<job, DBC_store, DBC_len, DBC_index, z, count_DBC, tried>>

StartKeepingSign == StartWith(s)                                  \* mutated
Start            == StartWith(1)

RemainderSigned(p) == t - p                                       \* mutated
Remainder(p) == IF t >= p THEN t - p ELSE p - t

(* One round of while(!t.iszero()).  The write to DBC_store is not         *)
(* checked by the code; a row past the end would be a deadlock here.       *)
TakeTerm(chosen, nextSign) ==
  LET p == Pow23(chosen.alpha, chosen.beta) IN
  /\ DBC_store' = [DBC_store EXCEPT ![DBC_index][i] =
                     [sign |-> s, dbl |-> chosen.alpha, tpl |-> chosen.beta]]
  /\ s' = IF t >= p THEN s ELSE nextSign
  /\ t' = Remainder(p)
  /\ i' = i + 1
  /\ a' = chosen.alpha
  /\ b_temp' = chosen.beta
  /\ UNCHANGED <<pc, job, DBC_len, DBC_index, z, count_DBC, tried>>

Candidates == {Power(Alpha(j), j) : j \in Window}

StepWith(nextSign) ==
  /\ pc = "greedy"
  /\ t # 0
  /\ i < MAX_2
  /\ \E chosen \in {NearestOf(Candidates)} : TakeTerm(chosen, nextSign)

StepKeepingSign == StepWith(s)                          \* mutated
Step            == StepWith(-s)

(* The finished chain is costed against the other slot; the dearer one     *)
(* becomes the slot in work, slot 0 on a tie.                              *)
SlotCost(x) == JobCost(DBC_store[x], DBC_len'[x])

Overwrite(cheaper0) == IF cheaper0 THEN 1 ELSE 0

CompareBy(next) ==
  /\ pc = "greedy"
  /\ t = 0
  /\ DBC_len' = [DBC_len EXCEPT ![DBC_index] = i]
  /\ DBC_index' = next
  /\ tried' = tried \cup {JobCost(DBC_store[DBC_index], i)}
  /\ count_DBC' = count_DBC + 1
  /\ IF count_DBC' > job.dbc_coef THEN pc' = "done" /\ UNCHANGED z
                                  ELSE pc' = "bounds" /\ z' = z + 1
  /\ UNCHANGED <<job, DBC_store, chainVars>>

CompareAlternating == CompareBy(1 - DBC_index)                    \* mutated
Compare == CompareBy(Overwrite(SlotCost(0) < SlotCost(1)))

Next ==
  \/ \E newJob \in Jobs : Call(newJob)
  \/ Return
  \/ Skip
  \/ Start
  \/ Step
  \/ Compare

Spec == Init /\ [][Next]_vars

(* A running call is a thread that never blocks.                           *)
Running == Return \/ Skip \/ Start \/ Step \/ Compare

FairSpec == Spec /\ WF_vars(Running)

(* What the call returns: the slot that would not be overwritten.          *)
min_index == 1 - DBC_index

-----------------------------------------------------------------------------
(* Type invariant.                                                         *)
TypeOK ==
  /\ pc \in {"idle", "bounds", "greedy", "done"}
  /\ job \in Jobs \cup {NoJob}
  /\ DBC_store \in [0 .. 1 -> Slot]
  /\ DBC_len \in [0 .. 1 -> (0 .. MAX_2) \cup {Unset}]
  /\ DBC_index \in 0 .. 1
  /\ z \in Nat \ {0}
  /\ count_DBC \in Nat
  /\ a \in Nat /\ b_temp \in Nat /\ t \in Nat /\ s \in {-1, 1}
  /\ i \in 0 .. MAX_2
  /\ tried \subseteq Nat

(* Chain c of length l begins with +2^x 3^y and its exponents never        *)
(* increase: what DBC_POINT_mul takes for granted of its input.            *)
LeadsPositive(c, l) == l > 0 => c[0].sign = 1

(* Loop invariant of the descent: the terms stored so far are a chain, and *)
(* with the signed remainder they add up to n.                             *)
DescentInv ==
  pc = "greedy" =>
    LET c == DBC_store[DBC_index] IN
    /\ IsChain(c, i)
    /\ LeadsPositive(c, i)
    /\ Value(c, i) + s * t = n

(* Every chain grown from (a, b) has at most a + b + 1 terms, though       *)
(* neither exponent need fall at a step: the descent does not stall, and   *)
(* the unchecked writes to DBC_store stay within a + b + 1 rows.           *)
ShortChains ==
  pc = "greedy" => i <= RBound(b) + b + (IF t = 0 THEN 1 ELSE 0)

(* Between two chains and at the end, the slot not in work holds a chain   *)
(* of n, and no chain of this call was cheaper.                            *)
KeptCheapest ==
  (pc \in {"bounds", "done"} /\ tried # {}) =>
    LET c == DBC_store[min_index]
        l == DBC_len[min_index]
    IN  /\ JobCost(c, l) \in tried
        /\ \A cost \in tried : JobCost(c, l) <= cost

KeptIsChainOfN ==
  (pc \in {"bounds", "done"} /\ tried # {}) =>
    LET c == DBC_store[min_index]
        l == DBC_len[min_index]
    IN  /\ l \in 0 .. MAX_2
        /\ IsChain(c, l)
        /\ LeadsPositive(c, l)
        /\ Value(c, l) = n

(* Every proper prefix of a returned chain lies between 0 and 2n.  A       *)
(* multiple of the order among them would lead DBC_POINT_mul through       *)
(* infinity in the middle of the evaluation; for scalars up to half the    *)
(* order there is none.                                                    *)
PrefixesBetween ==
  (pc = "done" /\ tried # {}) =>
    \A k \in 1 .. DBC_len[min_index] - 1 : /\ 0 < Value(DBC_store[min_index], k)
                                           /\ Value(DBC_store[min_index], k) < 2 * n

(* Of five consecutive exponents of 3 whose powers are within n one is     *)
(* accepted (B2 is 32/27 of B1), so a list that tries five such before a   *)
(* larger power builds a chain: ten entries of the list of gpuec/ do, and  *)
(* fewer than five might not.  Nothing else guards a call that ends        *)
(* without a chain and hands back slot 1 with the length Unset.            *)
TriedUpTo(k) == {job.b_try[x] : x \in 1 .. k}

FiveInARow ==
  \E k \in 0 .. Len(job.b_try), e \in 0 .. MAX_2 :
    /\ e .. e + 4 \subseteq TriedUpTo(k)
    /\ \A y \in TriedUpTo(k) : Pow3[y] <= n

FiveInARowFinds == (pc = "done" /\ FiveInARow) => tried # {}

(* run_DBC_v2 adds the terms of the chain from the last to the first, with *)
(* a formula that is wrong for infinity, for equal and for opposite        *)
(* points.  Of these it meets equal points only, at the first addition,    *)
(* and only if the last two rows are the same.                             *)
Suffix(c, k, l) == Value(c, l) - Value(c, k)

OnlyLastRowsMeet ==
  (pc = "done" /\ tried # {}) =>
    LET c == DBC_store[min_index]
        l == DBC_len[min_index]
    IN  \A k \in 1 .. l - 1 :
          Suffix(c, k, l) \in {0, TermValue(c[k - 1]), - TermValue(c[k - 1])} =>
            k = l - 1 /\ c[k] = c[k - 1]

(* Every call returns.                                                     *)
Returns == (pc = "bounds") ~> (pc = "done")

-----------------------------------------------------------------------------
(* The inductive invariant behind DescentInv, KeptCheapest and             *)
(* KeptIsChainOfN.                                                         *)

(* Exponents stay within the tables pow23_all, so every cost is below that *)
(* of a slot of length Unset.                                              *)
Small(x) == x \in 0 .. MAX_2

ExponentsSmall ==
  /\ Small(a) /\ Small(b_temp)
  /\ \A x \in 0 .. 1, k \in 0 .. MAX_2 - 1 : /\ Small(DBC_store[x][k].dbl)
                                             /\ Small(DBC_store[x][k].tpl)

(* The bounds of the next term are the exponents of the last one, and the  *)
(* first term is taken with sign +1.                                       *)
BoundsAreLast ==
  pc = "greedy" => IF i = 0 THEN s = 1
                            ELSE /\ a = DBC_store[DBC_index][i - 1].dbl
                                 /\ b_temp = DBC_store[DBC_index][i - 1].tpl

(* Before the first chain of a call is complete, slot 0 is in work and     *)
(* slot 1 counts as dearest; afterwards the other slot is the best so far. *)
FirstInSlot0 ==
  (pc \in {"bounds", "greedy"} /\ tried = {}) => DBC_index = 0 /\ DBC_len[1] = Unset

KeptSlot ==
  (pc # "idle" /\ tried # {}) =>
    LET c == DBC_store[min_index]
        l == DBC_len[min_index]
    IN  /\ l \in 0 .. MAX_2
        /\ IsChain(c, l) /\ LeadsPositive(c, l) /\ Value(c, l) = n
        /\ JobCost(c, l) \in tried
        /\ \A cost \in tried : JobCost(c, l) <= cost

IndInv ==
  /\ TypeOK
  /\ ExponentsSmall
  /\ DescentInv
  /\ BoundsAreLast
  /\ FirstInSlot0
  /\ KeptSlot

(* The inductive invariants behind ShortChains and PrefixesBetween.  The   *)
(* largest power that the next term may take is Reach.  The remainder is   *)
(* at most 3/2 of it.  Whenever it is more than half of it ("high") the    *)
(* bounds may stay as they are for one step, and that costs one term of    *)
(* the a + b + 1.                                                          *)
Reach == Pow23(a, b_temp)
High  == IF 2 * t > Reach THEN 1 ELSE 0

DescentBounded ==
  pc = "greedy" =>
    /\ z \in 1 .. Len(job.b_try)
    /\ 2 * t <= 3 * Reach
    /\ i + a + b_temp + High <= RBound(b) + b + 1

(* The first power that the next term may take is near n, and from the     *)
(* first term on the remainder is below n.                                 *)
RemainderBelow ==
  pc = "greedy" =>
    /\ n > 0
    /\ i = 0 => t = n /\ Reach < 3 * n /\ (a > 0 => Reach < 2 * n)
    /\ i > 0 => t < n /\ Reach < 2 * n

(* So every prefix of the chain in work and of the one kept is between 0   *)
(* and 2n.                                                                 *)
AllBetween(c, l) == \A k \in 1 .. l : 0 < Value(c, k) /\ Value(c, k) < 2 * n

PrefixesSoFar ==
  /\ pc = "greedy" => AllBetween(DBC_store[DBC_index], i)
  /\ (pc # "idle" /\ tried # {}) => AllBetween(DBC_store[min_index], DBC_len[min_index])

BoundsInv == IndInv /\ DescentBounded /\ RemainderBelow /\ PrefixesSoFar

(* The invariant behind FiveInARowFinds: as long as no chain is built, the *)
(* bounds of every exponent passed have differed.                          *)
RejectedSoFar ==
  (pc \in {"bounds", "done"} /\ tried = {}) =>
    /\ \A x \in 1 .. z - 1 : /\ x <= Len(job.b_try)
                            /\ LBound(job.b_try[x]) # RBound(job.b_try[x])
    /\ pc = "done" => LoopDone

(* The invariant behind OnlyLastRowsMeet: what is left of n after k terms  *)
(* is neither 0 nor the last of them, up to sign, unless it is the last    *)
(* term again and completes the chain.                                     *)
Apart(c, k) == n - Value(c, k) \notin {0, TermValue(c[k - 1]), - TermValue(c[k - 1])}

MeetsAtEnd(c, l) ==
  \A k \in 1 .. l - 1 : Apart(c, k) \/ (k = l - 1 /\ c[k] = c[k - 1])

RowsMeet ==
  /\ pc = "greedy" =>
       LET c == DBC_store[DBC_index] IN
       /\ MeetsAtEnd(c, i)
       /\ t # 0 /\ i > 1 => Apart(c, i - 1)
       /\ t = Reach /\ i > 0 => s = c[i - 1].sign
  /\ (pc # "idle" /\ tried # {}) => MeetsAtEnd(DBC_store[min_index], DBC_len[min_index])
=============================================================================
