------------------------------ MODULE Harness ------------------------------
(***************************************************************************)
(* The main program of DBCTest (DBC.cpp): for every method of computing a  *)
(* multiplication it runs through the scalars of the input, twice for the  *)
(* methods with double-base chains (generation and evaluation, then        *)
(* generation alone, for the theoretical cost), keeps the points in arrays *)
(* r1..r5 and compares them with those of EC_POINT_mul at the end.  The    *)
(* generators hand their chains to the evaluation through DBC_store and    *)
(* DBC_len, which nothing clears in between.                               *)
(*                                                                         *)
(* getOptimalDBC is taken by its contract (OptimalChain): some cheapest    *)
(* chain of n in slot 0.  Scalars are exact integers, as in GreedyChain.   *)
(***************************************************************************)
EXTENDS DoubleBase, ECPoint, Sequences, FiniteSets

CONSTANTS
  Inputs,         \* the possible inputs: sequences of TEST_TIMES scalars
  Methods,        \* the methods in their order: [kind, result, b_try, window, dbc_coef]
  OptimalChains,  \* OptimalChains[n]: the <<slot, length>> getOptimalDBC may leave
  NoResult

VARIABLES
  phase, hexinput, method, pass, item, \* where the program is in its loops
  points,                              \* points[r][item]: the arrays r1..r5
  TTV,                                 \* cost of the passes without evaluation
  error,
  spent,                               \* (history) cost of the operations performed
  (* getEOSDBC and getSubOptimalDBC, with the global store *)
  gpc, job, DBC_store, DBC_len, DBC_index, z, count_DBC, a, b_temp, t, s, i, tried,
  (* DBC_POINT_mul *)
  mpc, slot, len, mi, now_dbl, now_tpl, r, ops,
  (* binary_POINT_mul and NAF_POINT_mul *)
  rpc, hexwords, k, R, doubled, NAF, j, refTTV

generatorVars == <<gpc, job, DBC_store, DBC_len, DBC_index, z, count_DBC,
                   a, b_temp, t, s, i, tried>>
chainMulVars  == <<mpc, slot, len, mi, now_dbl, now_tpl, r, ops>>
referenceVars == <<rpc, hexwords, k, R, doubled, NAF, j, refTTV>>
loopVars      == <<hexinput, method, pass, item>>
resultVars    == <<points, TTV, error, spent>>
vars == <<phase, loopVars, resultVars, generatorVars, chainMulVars, referenceVars>>

TEST_TIMES == Len(hexinput)
current    == Methods[method]
n          == hexinput[item]
WithChains == {"optimal", "greedy"}

GreedyJob(m, scalar) == [n |-> scalar, b_try |-> m.b_try, window |-> m.window,
                         dbc_coef |-> m.dbc_coef, price |-> DBCTestCosts]
GreedyMethods == {m \in DOMAIN Methods : Methods[m].kind = "greedy"}
GreedyJobs    == UNION {{GreedyJob(Methods[m], x[y]) : m \in GreedyMethods, y \in DOMAIN x}
                         : x \in Inputs}

(* The methods and scalars are those of the benchmark: the generators have *)
(* room for twice a scalar, and getOptimalDBC leaves chains of the scalar  *)
(* (0 apart) within the store, one as dear as the other.                   *)
MethodSet == [kind : {"optimal", "greedy", "binary", "NAF"},
              result : {"r1", "r2", "r3", "r4", "r5"},
              b_try : Seq(0 .. MAX_2), window : Nat, dbc_coef : Nat]

LeftForScalar(c, scalar) ==
  /\ c[1] \in Slot /\ c[2] \in 1 .. MAX_2
  /\ \A row \in 0 .. MAX_2 - 1 : c[1][row].dbl <= MAX_2 /\ c[1][row].tpl <= MAX_2
  /\ IsChain(c[1], c[2]) /\ c[1][0].sign = 1
  /\ Value(c[1], c[2]) = scalar

ASSUME HarnessAssumption ==
  /\ MAX_2 <= 10000
  /\ Methods \in Seq(MethodSet)
  /\ \A m \in GreedyMethods : Methods[m].window >= 2
  /\ \A x \in Inputs :
       /\ x \in Seq(Nat) /\ x # <<>>
       /\ \A y \in DOMAIN x :
            /\ GreedyMethods # {} => 2 * x[y] < Pow2[MAX_2]
            /\ (x[y] > 0 /\ \E m \in DOMAIN Methods : Methods[m].kind = "optimal") =>
                 /\ \A c \in OptimalChains[x[y]] : LeftForScalar(c, x[y])
                 /\ \A c, d \in OptimalChains[x[y]] : Cost(c[1], c[2]) = Cost(d[1], d[2])

Greedy == INSTANCE GreedyChain WITH pc <- gpc, Jobs <- GreedyJobs, LaterJobs <- GreedyJobs

Evaluation == INSTANCE ChainMul WITH pc <- mpc, i <- mi, Scalars <- {}, Jobs <- {}

Reference == INSTANCE ReferenceMul WITH
  pc <- rpc, TTV <- refTTV, now_DBC <- <<>>, now <- [dbl |-> 0, tpl |-> 0],
  Scalars <- {}, Chains <- {}, BITS <- 0

Init ==
  /\ phase = "next"
  /\ hexinput \in Inputs
  /\ method = 1 /\ pass = "timed" /\ item = 1
  /\ points = [x \in {Methods[m].result : m \in 1 .. Len(Methods)} |->
                 [y \in 1 .. TEST_TIMES |-> NewPoint]]
  /\ TTV = 0 /\ error = 0 /\ spent = 0
  /\ Greedy!Init
  /\ Evaluation!Init
  /\ Reference!Init

-----------------------------------------------------------------------------
(* The head of a loop round: the generator, or the reference, is called.   *)
CallGreedy ==
  /\ phase = "next" /\ method <= Len(Methods) /\ current.kind = "greedy"
  /\ phase' = "generating"
  /\ Greedy!Call(GreedyJob(current, n))
  /\ UNCHANGED <<loopVars, resultVars, chainMulVars, referenceVars>>

(* The whole of getOptimalDBC: it returns index 0.                         *)
CallOptimal ==
  /\ phase = "next" /\ method <= Len(Methods) /\ current.kind = "optimal"
  /\ phase' = "generated"
  /\ \E c \in OptimalChains[n] :
       /\ DBC_store' = [DBC_store EXCEPT ![0] = c[1]]
       /\ DBC_len' = [DBC_len EXCEPT ![0] = c[2]]
  /\ UNCHANGED <<gpc, job, DBC_index, z, count_DBC, a, b_temp, t, s, i, tried,
                 loopVars, resultVars, chainMulVars, referenceVars>>

CallReference ==
  /\ phase = "next" /\ method <= Len(Methods) /\ current.kind \notin WithChains
  /\ phase' = "reference"
  /\ IF current.kind = "binary" THEN Reference!CallBinary(n) ELSE Reference!CallNAF(n)
  /\ UNCHANGED <<loopVars, resultVars, generatorVars, chainMulVars>>

Generate ==
  /\ phase = "generating"
  /\ Greedy!Running
  /\ phase' = IF gpc' = "done" THEN "generated" ELSE "generating"
  /\ UNCHANGED <<loopVars, resultVars, chainMulVars, referenceVars>>

(* What the generator returned.                                            *)
IndexInWork == DBC_index                                          \* mutated
min_index   == IF current.kind = "optimal" THEN 0 ELSE Greedy!min_index

(* A slot without a chain has length 2^20: DBC_POINT_mul reads past the    *)
(* store, where the behaviour of the program is no longer defined.         *)
Evaluate ==
  /\ phase = "generated" /\ pass = "timed"
  /\ IF DBC_len[min_index] <= MAX_2
     THEN /\ phase' = "evaluating"
          /\ Evaluation!Setup(<<DBC_store[min_index], DBC_len[min_index]>>)
     ELSE /\ phase' = "undefined"
          /\ UNCHANGED chainMulVars
  /\ UNCHANGED <<loopVars, resultVars, generatorVars, referenceVars>>

Multiply ==
  /\ phase = "evaluating"
  /\ Evaluation!Running
  /\ phase' = IF mpc' = "done" THEN "evaluated" ELSE "evaluating"
  /\ UNCHANGED <<loopVars, resultVars, generatorVars, referenceVars>>

MultiplyReference ==
  /\ phase = "reference"
  /\ Reference!Running
  /\ phase' = IF rpc' = "done" THEN "evaluated" ELSE "reference"
  /\ UNCHANGED <<loopVars, resultVars, generatorVars, chainMulVars>>

(* To the next scalar, the second pass or the next method.                 *)
Advance ==
  /\ phase' = "next"
  /\ UNCHANGED hexinput
  /\ IF item < TEST_TIMES
     THEN item' = item + 1 /\ UNCHANGED <<pass, method>>
     ELSE /\ item' = 1
          /\ IF pass = "timed" /\ current.kind \in WithChains
             THEN pass' = "cost" /\ UNCHANGED method
             ELSE pass' = "timed" /\ method' = method + 1

FirstRound == item = 1 /\ pass = "timed"

(* The point goes to the array of the method.  The history counts what was *)
(* done for it; the reference methods count for themselves.                *)
Price(o) == o.add * ADD_COST + o.dbl * DBL_COST + o.tpl * TPL_COST

Keep ==
  /\ phase = "evaluated"
  /\ points' = [points EXCEPT ![current.result][item] =
                  IF current.kind \in WithChains THEN r ELSE R]
  /\ spent' = (IF FirstRound THEN 0 ELSE spent)
                + (IF current.kind \in WithChains THEN Price(ops) ELSE 0)
  /\ TTV' = IF FirstRound THEN 0 ELSE TTV
  /\ Advance
  /\ UNCHANGED <<error, generatorVars, chainMulVars, referenceVars>>

(* compute_TTV, in integer costs.                                          *)
compute_TTV(x) == Cost(DBC_store[x], DBC_len[x]) - ADD_COST

AddCost ==
  /\ phase = "generated" /\ pass = "cost"
  /\ TTV' = TTV + compute_TTV(min_index)
  /\ Advance
  /\ UNCHANGED <<points, error, spent, generatorVars, chainMulVars, referenceVars>>

(* The comparison of every array with the points of EC_POINT_mul.          *)
Differs(p, scalar) == ~ Usable(p) \/ p.k % Order # scalar % Order

Compare ==
  /\ phase = "next" /\ method > Len(Methods)
  /\ phase' = "compared"
  /\ error' = Cardinality({x \in (DOMAIN points) \X (1 .. TEST_TIMES) :
                             Differs(points[x[1]][x[2]], hexinput[x[2]])})
  /\ UNCHANGED <<loopVars, points, TTV, spent, generatorVars, chainMulVars, referenceVars>>

Next ==
  \/ CallGreedy \/ CallOptimal \/ CallReference
  \/ Generate
  \/ Evaluate
  \/ Multiply \/ MultiplyReference
  \/ Keep \/ AddCost
  \/ Compare

Spec == Init /\ [][Next]_vars

(* One thread that never blocks.                                           *)
FairSpec == Spec /\ WF_vars(Next)

-----------------------------------------------------------------------------
(* DBC_POINT_mul is only ever called on a sound chain of the scalar in     *)
(* hand: what ChainMul assumes of its jobs, from generators that find      *)
(* their slots full of earlier chains.                                     *)
EvaluatesSoundChain ==
  phase = "evaluating" => Evaluation!SoundChain(slot, len) /\ Value(slot, len) = n

(* The program counts no error: every method agrees with EC_POINT_mul on   *)
(* every scalar, and none has read outside the store.                      *)
NoErrors == phase # "undefined" /\ error = 0

(* The theoretical cost reported for a method, computed from chains        *)
(* generated a second time, is the cost of the operations its evaluations  *)
(* performed the first time.                                               *)
ReportedCostIsSpent ==
  (phase = "next" /\ FirstRound /\ method > 1 /\ Methods[method - 1].kind \in WithChains)
    => TTV = spent

(* The program comes to its comparison.                                    *)
Finishes == <>(phase = "compared")
=============================================================================
