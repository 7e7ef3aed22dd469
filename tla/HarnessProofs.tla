--------------------------- MODULE HarnessProofs ----------------------------
(***************************************************************************)
(* The main program of DBCTest put together: the proofs of its parts,      *)
(* instantiated for its variables, show that every chain handed over is    *)
(* one that DBC_POINT_mul evaluates rightly, that the comparison counts no *)
(* error, and that the cost reported is the cost spent.                    *)
(*                                                                         *)
(* All under exact arithmetic on the scalars: GreedyChain computes with    *)
(* integers, while the operator- of myBigInt is wrong on middle limbs of   *)
(* all ones that nothing is borrowed from (MyBigIntProofs).                *)
(***************************************************************************)
EXTENDS Harness, ArithmeticProofs

(* What DBC_POINT_mul evaluates rightly.                                   *)
SoundJobs == {x \in Slot \X (0 .. MAX_2) : Evaluation!SoundChain(x[1], x[2])}

(* The proofs of the parts, each for the variables it has here.            *)
Gr == INSTANCE GreedyChainProofs WITH pc <- gpc, Jobs <- GreedyJobs, LaterJobs <- GreedyJobs

Ev == INSTANCE ChainMulProofs WITH pc <- mpc, i <- mi, Scalars <- Int, Jobs <- SoundJobs

Ref == INSTANCE ReferenceMulProofs WITH
  pc <- rpc, TTV <- refTTV, now_DBC <- <<>>, now <- [dbl |-> 0, tpl |-> 0],
  Scalars <- Nat, Chains <- {}, BITS <- 0

-----------------------------------------------------------------------------
(* The instances speak of the same chains, points and steps as the program *)
(* does.                                                                   *)
LEMMA SameValues ==
  ASSUME NEW c, NEW l
  PROVE  /\ Gr!Value(c, l) = Value(c, l)
         /\ Ev!Value(c, l) = Value(c, l)
<1>1. Gr!Value(c, l) = Value(c, l)
  BY DEF Gr!Value, Gr!Sums, Gr!RunningSums, Gr!TermValue, Gr!Pow23, Gr!Pow2, Gr!Pow3,
         Value, Sums, RunningSums, TermValue, Pow23, Pow2, Pow3
<1>2. Ev!Value(c, l) = Value(c, l)
  BY DEF Ev!Value, Ev!Sums, Ev!RunningSums, Ev!TermValue, Ev!Pow23, Ev!Pow2, Ev!Pow3,
         Value, Sums, RunningSums, TermValue, Pow23, Pow2, Pow3
<1>3. QED
  BY <1>1, <1>2

(* They start as the program starts them.                                  *)
LEMMA SameStarts ==
  /\ Greedy!Init => Gr!Init
  /\ Evaluation!Init => Ev!Init
  /\ Reference!Init => Ref!Init
<1>1. Greedy!Init => Gr!Init
  BY DEF Greedy!Init, Gr!Init, Greedy!EmptySlot, Gr!EmptySlot, Greedy!ZeroEntry, Gr!ZeroEntry,
         Greedy!NoJob, Gr!NoJob, Greedy!DBCTestCosts, Gr!DBCTestCosts,
         Greedy!ADD_COST, Gr!ADD_COST, Greedy!DBL_COST, Gr!DBL_COST, Greedy!TPL_COST, Gr!TPL_COST
<1>2. Evaluation!Init => Ev!Init
  BY DEF Evaluation!Init, Ev!Init, Evaluation!EmptySlot, Ev!EmptySlot,
         Evaluation!ZeroEntry, Ev!ZeroEntry, Evaluation!NewPoint, Ev!NewPoint,
         Evaluation!NoOps, Ev!NoOps
<1>3. Reference!Init => Ref!Init
  BY DEF Reference!Init, Ref!Init, Reference!NewPoint, Ref!NewPoint,
         Reference!NoExponents, Ref!NoExponents, Reference!NoTTV, Ref!NoTTV
<1>4. QED
  BY <1>1, <1>2, <1>3

(* A call of a generator is one of its proofs.                             *)
LEMMA SameCalls ==
  ASSUME NEW J \in GreedyJobs
  PROVE  Greedy!Call(J) => Gr!Call(J)
  BY DEF Greedy!Call, Gr!Call, Greedy!CallWith, Gr!CallWith, Greedy!Unset,
         Gr!Unset, Greedy!chainVars, Gr!chainVars

(* So are the steps of a generator, operator by operator.                  *)
LEMMA SameGreedySteps == Greedy!Running => Gr!Next
<1>1. ASSUME NEW S PROVE Greedy!Cardinality(S) = Gr!Cardinality(S)
  BY DEF Greedy!Cardinality, Gr!Cardinality
<1>2. Greedy!LoopDone = Gr!LoopDone
  BY DEF Greedy!LoopDone, Gr!LoopDone, Greedy!BoundNegative,
         Gr!BoundNegative, Greedy!Pow3, Gr!Pow3, Greedy!b, Gr!b, Greedy!n,
         Gr!n
<1>3. ASSUME NEW e PROVE Greedy!LBound(e) = Gr!LBound(e) /\ Greedy!RBound(e) = Gr!RBound(e)
  BY <1>1 DEF Greedy!LBound, Gr!LBound, Greedy!RBound, Gr!RBound, Greedy!UpToB1,
         Gr!UpToB1, Greedy!UpToB2, Gr!UpToB2, Greedy!Pow23, Gr!Pow23,
         Greedy!Pow2, Gr!Pow2, Greedy!Pow3, Gr!Pow3, Greedy!n, Gr!n
<1>4. Greedy!Return => Gr!Return
  BY <1>2 DEF Greedy!Return, Gr!Return, Greedy!chainVars, Gr!chainVars
<1>5. Greedy!Skip => Gr!Skip
  BY <1>2, <1>3 DEF Greedy!Skip, Gr!Skip, Greedy!SkipTo, Gr!SkipTo, Greedy!b, Gr!b,
         Greedy!chainVars, Gr!chainVars
<1>6. Greedy!Start => Gr!Start
  BY <1>2, <1>3 DEF Greedy!Start, Gr!Start, Greedy!StartWith, Gr!StartWith, Greedy!b,
         Gr!b, Greedy!n, Gr!n
<1>7. Greedy!Candidates = Gr!Candidates
  <2>1. ASSUME NEW x PROVE Greedy!Below(x) = Gr!Below(x)
    BY <1>1 DEF Greedy!Below, Gr!Below, Greedy!Pow23, Gr!Pow23,
                Greedy!Pow2, Gr!Pow2, Greedy!Pow3, Gr!Pow3
  <2>2. ASSUME NEW d, NEW e PROVE Greedy!Gap(d, e) = Gr!Gap(d, e)
    BY DEF Greedy!Gap, Gr!Gap, Greedy!Pow23, Gr!Pow23,
           Greedy!Pow2, Gr!Pow2, Greedy!Pow3, Gr!Pow3
  <2>3. ASSUME NEW x PROVE Greedy!Alpha(x) = Gr!Alpha(x)
    BY <2>1, <2>2 DEF Greedy!Alpha, Gr!Alpha, Greedy!AlphaWithin, Gr!AlphaWithin,
                      Greedy!Pow3, Gr!Pow3
  <2>4. Greedy!Window = Gr!Window
    BY DEF Greedy!Window, Gr!Window, Greedy!WindowUpTo, Gr!WindowUpTo
  <2>5. ASSUME NEW x PROVE Greedy!Power(Greedy!Alpha(x), x) = Gr!Power(Gr!Alpha(x), x)
    BY <2>2, <2>3 DEF Greedy!Power, Gr!Power
  <2>6. QED
    BY <2>4, <2>5 DEF Greedy!Candidates, Gr!Candidates
<1>8. ASSUME NEW S PROVE Greedy!NearestOf(S) = Gr!NearestOf(S)
  BY DEF Greedy!NearestOf, Gr!NearestOf, Greedy!Precedes, Gr!Precedes
<1>9. Greedy!Step => Gr!Step
  BY <1>7, <1>8 DEF Greedy!Step, Gr!Step, Greedy!StepWith, Gr!StepWith,
         Greedy!TakeTerm, Gr!TakeTerm, Greedy!Remainder, Gr!Remainder,
         Greedy!Pow23, Gr!Pow23, Greedy!Pow2, Gr!Pow2, Greedy!Pow3, Gr!Pow3
<1>10. Greedy!Compare => Gr!Compare
  BY DEF Greedy!Compare, Gr!Compare, Greedy!CompareBy, Gr!CompareBy,
         Greedy!SlotCost, Gr!SlotCost, Greedy!JobCost, Gr!JobCost,
         Greedy!CostAt, Gr!CostAt, Greedy!Overwrite, Gr!Overwrite,
         Greedy!chainVars, Gr!chainVars
<1>11. QED
  BY <1>4, <1>5, <1>6, <1>9, <1>10 DEF Greedy!Running, Gr!Next

(* The steps of DBC_POINT_mul.                                             *)
LEMMA SameEvaluationSteps ==
  /\ \A x : Evaluation!Setup(x) => Ev!Setup(x)
  /\ Evaluation!Running => Ev!Double \/ Ev!Triple \/ Ev!AddTerm \/ Ev!Return
<1>1. \A x : Evaluation!Setup(x) => Ev!Setup(x)
  BY DEF Evaluation!Setup, Ev!Setup, Evaluation!SetupWith, Ev!SetupWith,
         Evaluation!a, Ev!a, Evaluation!invert_a, Ev!invert_a,
         Evaluation!NoOps, Ev!NoOps, Evaluation!Add, Ev!Add, Evaluation!Dbl,
         Ev!Dbl, Evaluation!Invert, Ev!Invert, Evaluation!Affine, Ev!Affine,
         Evaluation!Jacobian, Ev!Jacobian, Evaluation!Garbage, Ev!Garbage,
         Evaluation!AtInfinity, Ev!AtInfinity, Evaluation!Usable, Ev!Usable,
         Evaluation!Stale, Ev!Stale
<1>2. Evaluation!Double => Ev!Double
  BY DEF Evaluation!Double, Ev!Double, Evaluation!TargetDbl, Ev!TargetDbl,
         Evaluation!Dbl, Ev!Dbl, Evaluation!Jacobian, Ev!Jacobian,
         Evaluation!Garbage, Ev!Garbage, Evaluation!AtInfinity,
         Ev!AtInfinity, Evaluation!Usable, Ev!Usable, Evaluation!Stale,
         Ev!Stale
<1>3. Evaluation!Triple => Ev!Triple
  BY DEF Evaluation!Triple, Ev!Triple, Evaluation!TripleBy, Ev!TripleBy,
         Evaluation!TargetDbl, Ev!TargetDbl, Evaluation!TargetTpl,
         Ev!TargetTpl, Evaluation!Tpl, Ev!Tpl, Evaluation!Jacobian,
         Ev!Jacobian, Evaluation!Garbage, Ev!Garbage, Evaluation!AtInfinity,
         Ev!AtInfinity
<1>4. Evaluation!AddTerm => Ev!AddTerm
  BY DEF Evaluation!AddTerm, Ev!AddTerm, Evaluation!AddTermWith,
         Ev!AddTermWith, Evaluation!TargetDbl, Ev!TargetDbl,
         Evaluation!TargetTpl, Ev!TargetTpl, Evaluation!a, Ev!a,
         Evaluation!invert_a, Ev!invert_a, Evaluation!Affine, Ev!Affine,
         Evaluation!Invert, Ev!Invert, Evaluation!Add, Ev!Add,
         Evaluation!Jacobian, Ev!Jacobian, Evaluation!Garbage, Ev!Garbage,
         Evaluation!AtInfinity, Ev!AtInfinity, Evaluation!Usable, Ev!Usable,
         Evaluation!Stale, Ev!Stale
<1>5. Evaluation!Return => Ev!Return
  BY DEF Evaluation!Return, Ev!Return, Evaluation!ReturnIf, Ev!ReturnIf,
         Evaluation!TargetDbl, Ev!TargetDbl, Evaluation!TargetTpl,
         Ev!TargetTpl
<1>6. QED
  BY <1>1, <1>2, <1>3, <1>4, <1>5 DEF Evaluation!Running

(* The steps of the reference multiplications.                             *)
LEMMA SameReferenceSteps ==
  /\ \A x : Reference!CallBinary(x) => Ref!CallBinary(x)
  /\ \A x : Reference!CallNAF(x) => Ref!CallNAF(x)
  /\ Reference!Running => Ref!Running
<1>1. \A x : Reference!CallBinary(x) => Ref!CallBinary(x)
  BY DEF Reference!CallBinary, Ref!CallBinary, Reference!Begin, Ref!Begin,
         Reference!BeginOn, Ref!BeginOn, Reference!NewPoint, Ref!NewPoint,
         Reference!G, Ref!G, Reference!Affine, Ref!Affine, Reference!NoTTV,
         Ref!NoTTV, Reference!NoExponents, Ref!NoExponents
<1>2. \A x : Reference!CallNAF(x) => Ref!CallNAF(x)
  BY DEF Reference!CallNAF, Ref!CallNAF, Reference!Begin, Ref!Begin,
         Reference!BeginOn, Ref!BeginOn, Reference!NewPoint, Ref!NewPoint,
         Reference!G, Ref!G, Reference!Affine, Ref!Affine, Reference!NoTTV,
         Ref!NoTTV, Reference!NoExponents, Ref!NoExponents
<1>3. Reference!Bit => Ref!Bit
  BY DEF Reference!Bit, Ref!Bit, Reference!BitThen, Ref!BitThen,
         Reference!Dbl, Ref!Dbl, Reference!Add, Ref!Add, Reference!Jacobian,
         Ref!Jacobian, Reference!Garbage, Ref!Garbage, Reference!AtInfinity,
         Ref!AtInfinity, Reference!Usable, Ref!Usable, Reference!Stale,
         Ref!Stale, Reference!chainVars, Ref!chainVars
<1>4. Reference!Digit => Ref!Digit
  BY DEF Reference!Digit, Ref!Digit, Reference!DigitOf, Ref!DigitOf,
         Reference!chainVars, Ref!chainVars
<1>5. Reference!ReverseDigits => Ref!ReverseDigits
  BY DEF Reference!ReverseDigits, Ref!ReverseDigits, Reference!Reverse,
         Ref!Reverse, Reference!chainVars, Ref!chainVars
<1>6. Reference!EvalDigit => Ref!EvalDigit
  BY DEF Reference!EvalDigit, Ref!EvalDigit, Reference!EvalWith,
         Ref!EvalWith, Reference!G, Ref!G, Reference!invert_G, Ref!invert_G,
         Reference!Affine, Ref!Affine, Reference!Invert, Ref!Invert,
         Reference!Dbl, Ref!Dbl, Reference!Add, Ref!Add, Reference!Jacobian,
         Ref!Jacobian, Reference!Garbage, Ref!Garbage, Reference!AtInfinity,
         Ref!AtInfinity, Reference!Usable, Ref!Usable, Reference!Stale,
         Ref!Stale, Reference!chainVars, Ref!chainVars
<1>7. /\ Reference!ReturnBinary => Ref!ReturnBinary
      /\ Reference!ReturnNAF => Ref!ReturnNAF
  BY DEF Reference!ReturnBinary, Ref!ReturnBinary, Reference!ReturnNAF,
         Ref!ReturnNAF, Reference!chainVars, Ref!chainVars
<1>8. QED
  BY <1>1, <1>2, <1>3, <1>4, <1>5, <1>6, <1>7 DEF Reference!Running, Ref!Running

-----------------------------------------------------------------------------
(* The jobs of the greedy generators are such as their proofs assume.      *)
LEMMA GreedyJobFacts ==
  ASSUME NEW J \in GreedyJobs
  PROVE  /\ J.n \in Nat /\ J.b_try \in Seq(0 .. MAX_2) /\ J.window \in Nat /\ J.window >= 2
         /\ J.dbc_coef \in Nat /\ J.price = DBCTestCosts
         /\ 2 * J.n < Pow2[MAX_2]
<1>0. PICK x \in Inputs :
             \E m \in GreedyMethods : \E y \in DOMAIN x : J = GreedyJob(Methods[m], x[y])
  BY DEF GreedyJobs
<1>1. PICK m \in GreedyMethods : \E y \in DOMAIN x : J = GreedyJob(Methods[m], x[y])
  BY <1>0
<1>a. PICK y \in DOMAIN x : J = GreedyJob(Methods[m], x[y])
  BY <1>1
<1>2. m \in DOMAIN Methods /\ Methods \in Seq(MethodSet) /\ Methods[m].window >= 2
  BY HarnessAssumption DEF GreedyMethods
<1>3. Methods[m] \in MethodSet
  BY <1>2
<1>4. x \in Seq(Nat) /\ 2 * x[y] < Pow2[MAX_2]
  BY HarnessAssumption
<1>5. x[y] \in Nat
  BY <1>4
<1> DEFINE W == Methods[m]
<1>6. /\ W.b_try \in Seq(0 .. MAX_2) /\ W.window \in Nat /\ W.dbc_coef \in Nat
  BY <1>3 DEF MethodSet
<1>7. J = [n |-> x[y], b_try |-> W.b_try, window |-> W.window, dbc_coef |-> W.dbc_coef,
           price |-> DBCTestCosts]
  BY <1>a DEF GreedyJob
<1>8. W.window >= 2
  BY <1>2
<1> HIDE DEF W
<1>9. QED
  BY <1>4, <1>5, <1>6, <1>7, <1>8

(* The assumptions of GreedyChain, for this instance.                      *)
LEMMA GreedyAssumptions ==
  /\ MAX_2 \in Nat \ {0} /\ MAX_2 <= 10000
  /\ GreedyJobs \subseteq GreedyJobs
  /\ \A x \in GreedyJobs : /\ x.n \in Nat
                           /\ x.b_try \in Seq(0 .. MAX_2)
                           /\ x.window \in Nat /\ x.window >= 2
                           /\ x.dbc_coef \in Nat
                           /\ x.price \in {Gr!DBCTestCosts, Gr!GpuecCosts}
                           /\ 2 * x.n < Gr!Pow2[MAX_2]
<1>1. Gr!DBCTestCosts = DBCTestCosts
  BY DEF Gr!DBCTestCosts, DBCTestCosts, Gr!ADD_COST, ADD_COST, Gr!DBL_COST, DBL_COST,
         Gr!TPL_COST, TPL_COST
<1>2. Gr!Pow2 = Pow2
  BY DEF Gr!Pow2, Pow2
<1>3. QED
  BY <1>1, <1>2, GreedyJobFacts, HarnessAssumption, MaxAssumption

(* Those of ChainMul.                                                      *)
LEMMA SameSoundChain ==
  ASSUME NEW c, NEW l
  PROVE  /\ Ev!SoundChain(c, l) = Evaluation!SoundChain(c, l)
         /\ Evaluation!SoundChain(c, l) = (/\ l \in 1 .. MAX_2
                                           /\ IsChain(c, l)
                                           /\ c[0].sign = 1
                                           /\ \A x \in 1 .. l - 1 : Value(c, x) % Order # 0)
<1>1. ASSUME NEW x PROVE Evaluation!Value(c, x) = Value(c, x)
  BY DEF Evaluation!Value, Evaluation!Sums, Evaluation!RunningSums, Evaluation!TermValue,
         Evaluation!Pow23, Evaluation!Pow2, Evaluation!Pow3,
         Value, Sums, RunningSums, TermValue, Pow23, Pow2, Pow3
<1>2. /\ Ev!IsChain(c, l) = IsChain(c, l)
      /\ Evaluation!IsChain(c, l) = IsChain(c, l)
  BY DEF Ev!IsChain, Evaluation!IsChain, IsChain
<1>3. QED
  BY <1>1, <1>2, SameValues DEF Ev!SoundChain, Evaluation!SoundChain

(* Nor do the slots of the store differ.                                   *)
LEMMA SameSlots == Gr!Slot = Slot /\ Ev!Slot = Slot
  BY DEF Gr!Slot, Ev!Slot, Slot, Gr!Entry, Ev!Entry, Entry

(* The assumptions of ChainMul: the jobs are what it calls sound.          *)
LEMMA EvaluationAssumptions ==
  /\ MAX_2 \in Nat \ {0}
  /\ Order \in Nat /\ Order > 2
  /\ \A x \in SoundJobs : /\ x[1] \in Ev!Slot
                          /\ Ev!SoundChain(x[1], x[2])
                          /\ Ev!Value(x[1], x[2]) \in Int
<1>1. ASSUME NEW x \in SoundJobs
      PROVE  x[1] \in Slot /\ Evaluation!SoundChain(x[1], x[2]) /\ x[2] \in 0 .. MAX_2
  BY DEF SoundJobs
<1>2. ASSUME NEW c \in Slot, NEW l \in 0 .. MAX_2 PROVE Value(c, l) \in Int
  BY RunningSumsFacts, MaxAssumption DEF Value, Sums, Slot
<1>3. ASSUME NEW x \in SoundJobs
      PROVE  x[1] \in Ev!Slot /\ Ev!SoundChain(x[1], x[2]) /\ Ev!Value(x[1], x[2]) \in Int
  <2>1. x[1] \in Ev!Slot /\ Ev!SoundChain(x[1], x[2])
    BY <1>1, SameSoundChain, SameSlots
  <2>2. Value(x[1], x[2]) \in Int
    BY <1>1, <1>2
  <2>3. QED
    BY <2>1, <2>2, SameValues
<1>4. QED
  BY <1>3, MaxAssumption, OrderAssumption

(* Those of ReferenceMul.                                                  *)
LEMMA ReferenceAssumptions ==
  /\ MAX_2 \in Nat \ {0}
  /\ Order \in Nat /\ Order > 2
  /\ Nat \subseteq Nat /\ 0 \in Nat
  BY MaxAssumption, OrderAssumption

-----------------------------------------------------------------------------
(* What the parts do within the program.                                   *)
Stored == Gr!TypeOK /\ Gr!ExponentsSmall

(* A call may find whatever the store holds, as long as it has its types.  *)
LEMMA GeneratorCall ==
  ASSUME Stored, NEW J \in GreedyJobs, Greedy!Call(J)
  PROVE  Gr!CallerInv' /\ job' = J
<1>1. Gr!Call(J)
  BY SameCalls
<1>2. Gr!CallerInv'
  BY <1>1, Gr!FreshCall, GreedyAssumptions DEF Stored
<1>3. job' = J
  BY <1>1 DEF Gr!Call, Gr!CallWith
<1>4. QED
  BY <1>2, <1>3

(* A running call keeps its invariant and its arguments.                   *)
LEMMA GeneratorStep ==
  ASSUME Gr!CallerInv, Greedy!Running
  PROVE  Gr!CallerInv' /\ job' = job
<1>1. Gr!Next
  BY SameGreedySteps
<1>2. Gr!CallerInv'
  BY <1>1, Gr!CallerStays, GreedyAssumptions
<1>3. job' = job
  BY DEF Greedy!Running, Greedy!Return, Greedy!Skip, Greedy!SkipTo, Greedy!Start,
         Greedy!StartWith, Greedy!Step, Greedy!StepWith, Greedy!TakeTerm,
         Greedy!Compare, Greedy!CompareBy
<1>4. QED
  BY <1>2, <1>3

(* Nothing happens to the generators while others work.                    *)
LEMMA GeneratorRest ==
  ASSUME UNCHANGED generatorVars
  PROVE  /\ Gr!CallerInv => Gr!CallerInv'
         /\ Stored => Stored'
<1>1. UNCHANGED Gr!vars
  BY DEF generatorVars, Gr!vars, Gr!chainVars
<1>2. Gr!CallerInv => Gr!CallerInv'
  BY <1>1, Gr!CallerStays, GreedyAssumptions
<1>3. Stored => Stored'
  BY DEF generatorVars, Stored, Gr!TypeOK, Gr!ExponentsSmall
<1>4. QED
  BY <1>2, <1>3

(* What a call leaves has its types.                                       *)
LEMMA StoredByGenerator == Gr!CallerInv => Stored
  BY DEF Gr!CallerInv, Gr!BoundsInv, Gr!IndInv, Stored

(* DBC_POINT_mul keeps its invariant, running, idle and when called on a   *)
(* sound job.                                                              *)
LEMMA EvaluationStep ==
  /\ Ev!IndInv /\ Evaluation!Running => Ev!IndInv'
  /\ Ev!IndInv /\ UNCHANGED chainMulVars => Ev!IndInv'
  /\ \A x \in SoundJobs : Ev!IndInv /\ Evaluation!Setup(x) => Ev!IndInv'
<1>1. Ev!IndInv /\ [Ev!Next]_(Ev!vars) => Ev!IndInv'
  BY Ev!StepInv, EvaluationAssumptions
<1>2. Evaluation!Running => Ev!Next
  BY SameEvaluationSteps DEF Ev!Next
<1>3. UNCHANGED chainMulVars => UNCHANGED Ev!vars
  BY DEF chainMulVars, Ev!vars
<1>4. \A x \in SoundJobs : Evaluation!Setup(x) => Ev!Next
  BY SameEvaluationSteps DEF Ev!Next
<1>5. QED
  BY <1>1, <1>2, <1>3, <1>4

(* So do the reference multiplications, called with any natural number.    *)
LEMMA ReferenceStep ==
  /\ Ref!LoopInv /\ Reference!Running => Ref!LoopInv'
  /\ Ref!LoopInv /\ UNCHANGED referenceVars => Ref!LoopInv'
  /\ \A x \in Nat : Ref!LoopInv /\ (Reference!CallBinary(x) \/ Reference!CallNAF(x))
                      => Ref!LoopInv'
<1>1. Ref!LoopInv /\ [Ref!Next]_(Ref!vars) => Ref!LoopInv'
  BY Ref!NextLoops, ReferenceAssumptions
<1>2. Reference!Running => Ref!Next
  BY SameReferenceSteps DEF Ref!Next
<1>3. UNCHANGED referenceVars => UNCHANGED Ref!vars
  BY DEF referenceVars, Ref!vars, Ref!chainVars
<1>4. \A x \in Nat : Reference!CallBinary(x) \/ Reference!CallNAF(x) => Ref!Next
  BY SameReferenceSteps DEF Ref!Next
<1>5. QED
  BY <1>1, <1>2, <1>3, <1>4

-----------------------------------------------------------------------------
(* What the results are about.  test_DBC_POINT_mul.py may draw 0, a scalar *)
(* above half the order, or one for which the list of a method comes to no *)
(* exponent it accepts; for those the program may well fail (HarnessRange  *)
(* shows one), so the theorems name what they ask of the scalars.          *)
PositiveScalars == \A x \in Inputs : \A y \in DOMAIN x : x[y] > 0

ListsFind == \A J \in GreedyJobs : Gr!Finds(J)

(* No chain handed to DBC_POINT_mul comes to a multiple of the order       *)
(* before its last term.                                                   *)
AvoidsOrder ==
  phase = "generated" =>
    \A x \in 1 .. DBC_len[min_index] - 1 : Value(DBC_store[min_index], x) % Order # 0

-----------------------------------------------------------------------------
(* The cost of the chain a method finds for a scalar is decided by the two *)
(* alone, so the two passes add up the same costs.                         *)
OptimalCost(scalar) == LET c == CHOOSE c \in OptimalChains[scalar] : TRUE IN Cost(c[1], c[2])

ChainCost(m, scalar) ==
  IF Methods[m].kind = "optimal" THEN OptimalCost(scalar)
                                 ELSE Gr!GreedyCost(GreedyJob(Methods[m], scalar))

(* One addition less: the first term is copied.                            *)
Charge(m, scalar) ==
  IF ChainCost(m, scalar) \in Int THEN ChainCost(m, scalar) - ADD_COST ELSE 0

Charges(m, x) ==
  LET v[y \in 0 .. Len(x)] == IF y = 0 THEN 0 ELSE v[y - 1] + Charge(m, x[y])
  IN  v

(* The sums satisfy their recursion and are integers.                      *)
LEMMA ChargesFacts ==
  ASSUME NEW m, NEW x \in Seq(Nat)
  PROVE  /\ Charges(m, x)[0] = 0
         /\ \A y \in 1 .. Len(x) : Charges(m, x)[y] = Charges(m, x)[y - 1] + Charge(m, x[y])
         /\ \A y \in 0 .. Len(x) : Charges(m, x)[y] \in Int
<1> DEFINE l == Len(x)
           h == [p \in (1 .. l) \X Int |-> p[2] + Charge(m, x[p[1]])]
<1>1. l \in Nat /\ DOMAIN x = 1 .. l
  OBVIOUS
<1>2. ASSUME NEW y \in 1 .. l PROVE Charge(m, x[y]) \in Int
  BY DEF Charge, ADD_COST
<1>3. ASSUME NEW y \in 1 .. l, NEW v \in Int
      PROVE  h[<<y, v>>] = v + Charge(m, x[y]) /\ h[<<y, v>>] \in Int
  BY <1>2
<1> HIDE DEF h
<1>4. IterableTo(l, Int, 0, h)
  <2>1. ClosedTo(l, Int, h)
    BY <1>3 DEF ClosedTo
  <2> HIDE DEF l
  <2>2. QED
    BY <1>1, <2>1, BoundedIteration
<1>5. PICK w \in [0 .. l -> Int] : w[0] = 0 /\ \A y \in 1 .. l : w[y] = h[<<y, w[y - 1]>>]
  BY <1>4 DEF IterableTo
<1> DEFINE F(u) == [y \in 0 .. Len(x) |-> IF y = 0 THEN 0 ELSE u[y - 1] + Charge(m, x[y])]
<1>6. ASSUME NEW y \in 0 .. l PROVE w[y] = F(w)[y]
  <2>1. CASE y = 0
    BY <1>5, <2>1
  <2>2. CASE y # 0
    <3>a. y \in 1 .. l /\ y - 1 \in 0 .. l
      BY <1>1, <2>2
    <3>1. y \in 1 .. l /\ w[y - 1] \in Int
      BY <1>5, <3>a
    <3>2. w[y] = w[y - 1] + Charge(m, x[y])
      BY <1>3, <1>5, <3>1
    <3>3. QED
      BY <2>2, <3>2
  <2>3. QED
    BY <2>1, <2>2
<1>7. w = F(w)
  BY <1>5, <1>6
<1>8. Charges(m, x) = F(Charges(m, x))
  <2> DEFINE good == CHOOSE u : u = F(u)
  <2>1. good = F(good)
    BY <1>7
  <2>2. Charges(m, x) = good
    BY DEF Charges
  <2> HIDE DEF good
  <2>3. QED
    BY <2>1, <2>2
<1>9. Charges(m, x)[0] = 0
  BY <1>1, <1>8
<1>10. ASSUME NEW y \in 1 .. l
       PROVE  Charges(m, x)[y] = Charges(m, x)[y - 1] + Charge(m, x[y])
  <2>1. y \in 0 .. Len(x) /\ y # 0
    OBVIOUS
  <2>2. QED
    BY <1>8, <2>1
<1> DEFINE T == {y \in Nat : y <= l => Charges(m, x)[y] \in Int}
<1>11. Nat \subseteq T
  <2>1. 0 \in T
    BY <1>9
  <2>2. ASSUME NEW y \in Nat, y \in T PROVE y + 1 \in T
    <3>1. SUFFICES ASSUME y + 1 <= l PROVE Charges(m, x)[y + 1] \in Int
      OBVIOUS
    <3>2. y + 1 \in 1 .. l /\ (y + 1) - 1 = y /\ Charges(m, x)[y] \in Int
      BY <1>1, <2>2, <3>1
    <3>3. QED
      BY <1>2, <1>10, <3>2
  <2> HIDE DEF T
  <2>3. QED
    BY <2>1, <2>2, SetInduction
<1>12. QED
  BY <1>1, <1>9, <1>10, <1>11

-----------------------------------------------------------------------------
(* The invariant, part by part.                                            *)
LoopsInv ==
  /\ phase \in {"next", "generating", "generated", "evaluating", "reference",
                "evaluated", "compared"}
  /\ hexinput \in Inputs
  /\ method \in 1 .. Len(Methods) + 1
  /\ pass \in {"timed", "cost"}
  /\ item \in 1 .. TEST_TIMES
  /\ phase \notin {"next", "compared"} => method <= Len(Methods)
  /\ pass = "cost" => method <= Len(Methods) /\ current.kind \in WithChains
  /\ phase = "generating" => current.kind = "greedy"
  /\ phase \in {"generated", "evaluating"} => current.kind \in WithChains
  /\ phase = "reference" => current.kind \notin WithChains
  /\ phase \in {"evaluating", "evaluated"} => pass = "timed"

(* The generators may find whatever an earlier call has left.              *)
GeneratorInv ==
  /\ Stored
  /\ (phase \in {"generating", "generated"} /\ current.kind = "greedy") =>
       Gr!CallerInv /\ job = GreedyJob(current, n)
  /\ (phase = "generated" /\ current.kind = "greedy") => gpc = "done"
  /\ (phase = "generated" /\ current.kind = "optimal") =>
       \E c \in OptimalChains[n] : DBC_store[0] = c[1] /\ DBC_len[0] = c[2]

(* The chain in evaluation is one of the scalar, at the cost of the method.*)
EvaluationInv ==
  /\ Ev!IndInv
  /\ (phase \in {"evaluating", "evaluated"} /\ current.kind \in WithChains) =>
       /\ mpc # "idle"
       /\ Value(slot, len) = n
       /\ Cost(slot, len) = ChainCost(method, n)
  /\ (phase = "evaluated" /\ current.kind \in WithChains) => mpc = "done"

ReferenceInv ==
  /\ Ref!LoopInv
  /\ (phase \in {"reference", "evaluated"} /\ current.kind \notin WithChains) =>
       hexwords = n /\ rpc # "idle"
  /\ (phase = "evaluated" /\ current.kind \notin WithChains) => rpc = "done"

(* Every point a method has kept is right, and the later methods that share*)
(* an array of it keep right ones too.                                     *)
Passed(m, y) == m < method \/ (m = method /\ (pass = "cost" \/ y < item))

PointsInv ==
  /\ points \in [{Methods[m].result : m \in 1 .. Len(Methods)} -> [1 .. TEST_TIMES -> Point]]
  /\ \A m \in 1 .. Len(Methods), y \in 1 .. TEST_TIMES :
       Passed(m, y) => ~ Differs(points[Methods[m].result][y], hexinput[y])
  /\ error = 0

(* The history of the timed pass, then the sum of the second.              *)
CostsInv ==
  /\ (method <= Len(Methods) /\ current.kind \in WithChains) =>
       /\ (pass = "timed" /\ item > 1) =>
            spent = Charges(method, hexinput)[item - 1] /\ TTV = 0
       /\ pass = "cost" =>
            /\ spent = Charges(method, hexinput)[TEST_TIMES]
            /\ TTV = Charges(method, hexinput)[item - 1]
  /\ (FirstRound /\ method > 1 /\ Methods[method - 1].kind \in WithChains) => TTV = spent

Inv == LoopsInv /\ GeneratorInv /\ EvaluationInv /\ ReferenceInv /\ PointsInv /\ CostsInv

-----------------------------------------------------------------------------
(* Where the loops are, and the scalar in hand.                            *)
LEMMA LoopFacts ==
  ASSUME LoopsInv
  PROVE  /\ hexinput \in Seq(Nat) /\ TEST_TIMES \in Nat /\ TEST_TIMES >= 1
         /\ item \in DOMAIN hexinput /\ n \in Nat
         /\ PositiveScalars => n > 0
         /\ Len(Methods) \in Nat
         /\ method <= Len(Methods) =>
              /\ method \in 1 .. Len(Methods) /\ method \in DOMAIN Methods
              /\ current \in MethodSet
<1>1. hexinput \in Inputs /\ item \in 1 .. TEST_TIMES /\ method \in 1 .. Len(Methods) + 1
  BY DEF LoopsInv
<1>2. hexinput \in Seq(Nat) /\ hexinput # <<>>
  BY <1>1, HarnessAssumption
<1>3. TEST_TIMES \in Nat /\ TEST_TIMES >= 1 /\ item \in DOMAIN hexinput /\ n \in Nat
  BY <1>1, <1>2 DEF TEST_TIMES, n
<1>4. Methods \in Seq(MethodSet)
  BY HarnessAssumption
<1>5. Len(Methods) \in Nat
  BY <1>4
<1>6. method <= Len(Methods) => method \in 1 .. Len(Methods) /\ method \in DOMAIN Methods
  BY <1>1, <1>4, <1>5
<1>7. method <= Len(Methods) => current \in MethodSet
  BY <1>4, <1>6 DEF current
<1>8. PositiveScalars => n > 0
  BY <1>1, <1>3 DEF PositiveScalars, n
<1>9. QED
  BY <1>2, <1>3, <1>5, <1>6, <1>7, <1>8

(* The call a greedy method makes is one of the jobs.                      *)
LEMMA CurrentJob ==
  ASSUME LoopsInv, method <= Len(Methods), current.kind = "greedy"
  PROVE  GreedyJob(current, n) \in GreedyJobs /\ method \in GreedyMethods
<1>1. method \in GreedyMethods
  BY LoopFacts DEF GreedyMethods, current
<1>2. item \in DOMAIN hexinput /\ hexinput \in Inputs
  BY LoopFacts DEF LoopsInv
<1>3. QED
  BY <1>1, <1>2 DEF GreedyJobs, current, n

(* The chains getOptimalDBC leaves are chains of the scalar, all at one    *)
(* cost.                                                                   *)
LEMMA OptimalFacts ==
  ASSUME PositiveScalars, LoopsInv, method <= Len(Methods), current.kind = "optimal",
         NEW c \in OptimalChains[n]
  PROVE  LeftForScalar(c, n) /\ Cost(c[1], c[2]) = ChainCost(method, n)
<1>1. hexinput \in Inputs /\ item \in DOMAIN hexinput /\ n > 0 /\ method \in DOMAIN Methods
  BY LoopFacts DEF LoopsInv
<1>2. \E m \in DOMAIN Methods : Methods[m].kind = "optimal"
  BY <1>1 DEF current
<1>3. /\ LeftForScalar(c, n)
      /\ \A d, e \in OptimalChains[n] : Cost(d[1], d[2]) = Cost(e[1], e[2])
  BY <1>1, <1>2, HarnessAssumption DEF n
<1>4. ChainCost(method, n) = OptimalCost(n)
  BY DEF ChainCost, current
<1>5. PICK d \in OptimalChains[n] : OptimalCost(n) = Cost(d[1], d[2])
  BY DEF OptimalCost
<1>6. QED
  BY <1>3, <1>4, <1>5

(* The chain a generator hands over.                                       *)
Handed(c, l) ==
  /\ c \in Slot /\ l \in 1 .. MAX_2
  /\ IsChain(c, l) /\ c[0].sign = 1
  /\ Value(c, l) = n
  /\ Cost(c, l) = ChainCost(method, n)

(* What the proofs of the generators promise, in the terms of the program. *)
LEMMA SameDelivery ==
  ASSUME NEW c, NEW l, Gr!Delivers(c, l), job = GreedyJob(current, n),
         current.kind = "greedy"
  PROVE  Handed(c, l) /\ \A x \in 1 .. l : 0 < Value(c, x) /\ Value(c, x) < 2 * n
<1>1. Gr!n = n /\ job.price = DBCTestCosts
  BY DEF Gr!n, GreedyJob
<1>2. c \in Slot /\ l \in 1 .. MAX_2 /\ IsChain(c, l) /\ c[0].sign = 1
  BY SameSlots DEF Gr!Delivers, Gr!IsChain, IsChain
<1>3. Value(c, l) = n /\ \A x \in 1 .. l : 0 < Value(c, x) /\ Value(c, x) < 2 * n
  BY <1>1, SameValues DEF Gr!Delivers
<1>4. Gr!JobCost(c, l) = Cost(c, l)
  BY <1>1 DEF Gr!JobCost, Gr!CostAt, Cost, CostAt
<1>5. ChainCost(method, n) = Gr!GreedyCost(job)
  BY DEF ChainCost, current
<1>6. Cost(c, l) = ChainCost(method, n)
  BY <1>4, <1>5 DEF Gr!Delivers
<1>7. QED
  BY <1>2, <1>3, <1>6 DEF Handed

(* At the end of a generation slot min_index holds a chain of the scalar   *)
(* in hand, at the cost of the method; of a greedy one the prefixes lie    *)
(* between 0 and 2n.                                                       *)
LEMMA HandOver ==
  ASSUME PositiveScalars, ListsFind, LoopsInv, GeneratorInv, phase = "generated"
  PROVE  /\ Handed(DBC_store[min_index], DBC_len[min_index])
         /\ current.kind = "greedy" =>
              \A x \in 1 .. DBC_len[min_index] :
                0 < Value(DBC_store[min_index], x) /\ Value(DBC_store[min_index], x) < 2 * n
<1>1. method <= Len(Methods) /\ current.kind \in {"optimal", "greedy"} /\ n > 0
  BY LoopFacts DEF LoopsInv, WithChains
<1>2. CASE current.kind = "greedy"
  <2>1. Gr!CallerInv /\ gpc = "done" /\ job = GreedyJob(current, n)
    BY <1>2 DEF GeneratorInv
  <2>2. Gr!Finds(job) /\ Gr!n > 0
    BY <1>1, <1>2, <2>1, CurrentJob DEF ListsFind, Gr!n, GreedyJob
  <2>3. Gr!Delivers(DBC_store[Gr!min_index], DBC_len[Gr!min_index])
    BY <2>1, <2>2, Gr!Delivered, GreedyAssumptions
  <2>4. Gr!min_index = min_index
    BY <1>2 DEF Gr!min_index, min_index, Greedy!min_index
  <2>5. QED
    BY <1>2, <2>1, <2>3, <2>4, SameDelivery
<1>3. CASE current.kind = "optimal"
  <2>1. PICK c \in OptimalChains[n] : DBC_store[0] = c[1] /\ DBC_len[0] = c[2]
    BY <1>3 DEF GeneratorInv
  <2>2. LeftForScalar(c, n) /\ Cost(c[1], c[2]) = ChainCost(method, n)
    BY <1>1, <1>3, OptimalFacts
  <2>3. min_index = 0
    BY <1>3 DEF min_index
  <2>4. QED
    BY <1>3, <2>1, <2>2, <2>3 DEF LeftForScalar, Handed
<1>4. QED
  BY <1>1, <1>2, <1>3

(* What is handed over can be evaluated, and the call does so.             *)
LEMMA HandedIsJob ==
  ASSUME PositiveScalars, ListsFind, LoopsInv, GeneratorInv, phase = "generated", AvoidsOrder
  PROVE  /\ <<DBC_store[min_index], DBC_len[min_index]>> \in SoundJobs
         /\ DBC_len[min_index] <= MAX_2
<1> DEFINE c == DBC_store[min_index]
           l == DBC_len[min_index]
<1>1. Handed(c, l)
  BY HandOver
<1>2. \A x \in 1 .. l - 1 : Value(c, x) % Order # 0
  BY DEF AvoidsOrder
<1> HIDE DEF c, l
<1>3. Evaluation!SoundChain(c, l)
  BY <1>1, <1>2, SameSoundChain DEF Handed
<1>4. c \in Slot /\ l \in 0 .. MAX_2 /\ l <= MAX_2
  BY <1>1, MaxAssumption DEF Handed
<1>5. <<c, l>> \in SoundJobs
  BY <1>3, <1>4 DEF SoundJobs
<1>6. QED
  BY <1>4, <1>5 DEF c, l

-----------------------------------------------------------------------------
(* The first state.                                                        *)
LEMMA InitHolds == Init => Inv
<1> SUFFICES ASSUME Init PROVE Inv
  OBVIOUS
<1>1. hexinput \in Seq(Nat) /\ hexinput # <<>> /\ TEST_TIMES \in Nat \ {0} /\ Len(Methods) \in Nat
  BY HarnessAssumption DEF Init, TEST_TIMES
<1>2. LoopsInv
  BY <1>1 DEF Init, LoopsInv
<1>3. GeneratorInv
  <2>1. Gr!Init
    BY SameStarts DEF Init
  <2>2. Gr!IndInv
    BY <2>1, Gr!InitInv, GreedyAssumptions
  <2>3. Stored
    BY <2>2 DEF Gr!IndInv, Stored
  <2>4. QED
    BY <2>3 DEF Init, GeneratorInv
<1>4. EvaluationInv
  <2>1. Ev!Init
    BY SameStarts DEF Init
  <2>2. Ev!IndInv
    BY <2>1, Ev!InitInv, EvaluationAssumptions
  <2>3. QED
    BY <2>2 DEF Init, EvaluationInv
<1>5. ReferenceInv
  <2>1. Ref!Init
    BY SameStarts DEF Init
  <2>2. Ref!LoopInv
    BY <2>1, Ref!InitLoops, ReferenceAssumptions
  <2>3. QED
    BY <2>2 DEF Init, ReferenceInv
<1>6. PointsInv
  <2>1. NewPoint \in Point
    BY DEF NewPoint, Point, ZKinds
  <2>2. ASSUME NEW m \in 1 .. Len(Methods), NEW y \in 1 .. TEST_TIMES, Passed(m, y) PROVE FALSE
    BY <1>1, <2>2 DEF Init, Passed
  <2>3. QED
    BY <2>1, <2>2 DEF Init, PointsInv
<1>7. CostsInv
  BY <1>1 DEF Init, CostsInv, FirstRound
<1>8. QED
  BY <1>2, <1>3, <1>4, <1>5, <1>6, <1>7 DEF Inv

(* The next round lies within the loops.                                   *)
LEMMA AdvanceLoops ==
  ASSUME LoopsInv, phase \in {"evaluated", "generated"}, Advance
  PROVE  LoopsInv'
<1>1. /\ phase' = "next" /\ hexinput' = hexinput /\ method \in 1 .. Len(Methods)
      /\ TEST_TIMES \in Nat /\ TEST_TIMES >= 1 /\ Len(Methods) \in Nat
      /\ item \in 1 .. TEST_TIMES
  BY LoopFacts DEF LoopsInv, Advance
<1>2. TEST_TIMES' = TEST_TIMES
  BY <1>1 DEF TEST_TIMES
<1>3. CASE item < TEST_TIMES
  <2>1. item' = item + 1 /\ pass' = pass /\ method' = method /\ item' \in 1 .. TEST_TIMES
    BY <1>1, <1>3 DEF Advance
  <2>2. QED
    BY <1>1, <1>2, <2>1 DEF LoopsInv, current
<1>4. CASE ~ (item < TEST_TIMES) /\ pass = "timed" /\ current.kind \in WithChains
  <2>1. item' = 1 /\ pass' = "cost" /\ method' = method
    BY <1>4 DEF Advance
  <2>2. QED
    BY <1>1, <1>2, <1>4, <2>1 DEF LoopsInv, current
<1>5. CASE ~ (item < TEST_TIMES) /\ ~ (pass = "timed" /\ current.kind \in WithChains)
  <2>1. item' = 1 /\ pass' = "timed" /\ method' = method + 1 /\ method' \in 1 .. Len(Methods) + 1
    BY <1>1, <1>5 DEF Advance
  <2>2. QED
    BY <1>1, <1>2, <2>1 DEF LoopsInv
<1>6. QED
  BY <1>3, <1>4, <1>5

(* Outside Advance the place in the loops stays.                           *)
LEMMA StayInLoops ==
  ASSUME LoopsInv, UNCHANGED loopVars
  PROVE  /\ hexinput' = hexinput /\ method' = method /\ pass' = pass /\ item' = item
         /\ TEST_TIMES' = TEST_TIMES /\ current' = current /\ n' = n
  BY DEF loopVars, TEST_TIMES, current, n

(* Every step keeps the place in the loops; Evaluate never reads past the  *)
(* store.                                                                  *)
LEMMA LoopsStep ==
  ASSUME PositiveScalars, ListsFind, Inv, AvoidsOrder, [Next]_vars
  PROVE  LoopsInv'
<1>1. LoopsInv /\ GeneratorInv
  BY DEF Inv
<1>2. CASE CallGreedy
  BY <1>1, <1>2, StayInLoops DEF CallGreedy, LoopsInv
<1>3. CASE CallOptimal
  BY <1>1, <1>3, StayInLoops DEF CallOptimal, LoopsInv, WithChains
<1>4. CASE CallReference
  BY <1>1, <1>4, StayInLoops DEF CallReference, LoopsInv
<1>5. CASE Generate
  BY <1>1, <1>5, StayInLoops DEF Generate, LoopsInv, WithChains
<1>6. CASE Evaluate
  <2>1. phase' = "evaluating" /\ UNCHANGED loopVars /\ phase = "generated" /\ pass = "timed"
    BY <1>1, <1>6, HandedIsJob DEF Evaluate
  <2>2. QED
    BY <1>1, <2>1, StayInLoops DEF LoopsInv
<1>7. CASE Multiply
  BY <1>1, <1>7, StayInLoops DEF Multiply, LoopsInv
<1>8. CASE MultiplyReference
  <2>1. pass = "timed"
    BY <1>1, <1>8 DEF MultiplyReference, LoopsInv
  <2>2. QED
    BY <1>1, <1>8, <2>1, StayInLoops DEF MultiplyReference, LoopsInv
<1>9. CASE Keep \/ AddCost
  BY <1>1, <1>9, AdvanceLoops DEF Keep, AddCost
<1>10. CASE Compare
  BY <1>1, <1>10, StayInLoops DEF Compare, LoopsInv
<1>11. CASE UNCHANGED vars
  BY <1>1, <1>11, StayInLoops DEF vars, LoopsInv
<1>12. QED
  BY <1>2, <1>3, <1>4, <1>5, <1>6, <1>7, <1>8, <1>9, <1>10, <1>11 DEF Next

-----------------------------------------------------------------------------
(* A step that leaves the generators alone, and does not come from a call. *)
LEMMA GeneratorIdle ==
  ASSUME GeneratorInv, UNCHANGED generatorVars, phase' \notin {"generating", "generated"}
  PROVE  GeneratorInv'
<1>1. Stored'
  BY GeneratorRest DEF GeneratorInv
<1>2. QED
  BY <1>1 DEF GeneratorInv

(* Every step keeps what is known of the generators.                       *)
LEMMA GeneratorStays ==
  ASSUME PositiveScalars, ListsFind, Inv, AvoidsOrder, [Next]_vars
  PROVE  GeneratorInv'
<1>1. LoopsInv /\ GeneratorInv
  BY DEF Inv
<1>2. (Gr!CallerInv => Stored)'
  BY StoredByGenerator, PTL
<1>3. CASE CallGreedy
  <2>1. /\ phase' = "generating" /\ UNCHANGED loopVars
        /\ Greedy!Call(GreedyJob(current, n))
        /\ method <= Len(Methods) /\ current.kind = "greedy"
    BY <1>3 DEF CallGreedy
  <2>2. GreedyJob(current, n) \in GreedyJobs
    BY <1>1, <2>1, CurrentJob
  <2>3. Gr!CallerInv' /\ job' = GreedyJob(current, n)
    BY <1>1, <2>1, <2>2, GeneratorCall DEF GeneratorInv
  <2>4. (GreedyJob(current, n))' = GreedyJob(current, n)
    BY <1>1, <2>1, StayInLoops DEF GreedyJob
  <2>5. QED
    BY <1>2, <2>1, <2>3, <2>4 DEF GeneratorInv
<1>4. CASE CallOptimal
  <2>1. /\ phase' = "generated" /\ UNCHANGED loopVars
        /\ method <= Len(Methods) /\ current.kind = "optimal"
        /\ UNCHANGED <<gpc, job, DBC_index, z, count_DBC, a, b_temp, t, s, i, tried>>
    BY <1>4 DEF CallOptimal
  <2>2. PICK c \in OptimalChains[n] :
          /\ DBC_store' = [DBC_store EXCEPT ![0] = c[1]]
          /\ DBC_len' = [DBC_len EXCEPT ![0] = c[2]]
    BY <1>4 DEF CallOptimal
  <2>3. LeftForScalar(c, n)
    BY <1>1, <2>1, OptimalFacts
  <2>4. Gr!TypeOK /\ Gr!ExponentsSmall
    BY <1>1 DEF GeneratorInv, Stored
  <2>5. /\ DBC_store \in [0 .. 1 -> Gr!Slot]
        /\ DBC_len \in [0 .. 1 -> (0 .. MAX_2) \cup {Gr!Unset}]
    BY <2>4 DEF Gr!TypeOK
  <2>6. c[1] \in Gr!Slot /\ c[2] \in 0 .. MAX_2
    BY <2>3, SameSlots, MaxAssumption DEF LeftForScalar
  <2>7. /\ DBC_store' \in [0 .. 1 -> Gr!Slot]
        /\ DBC_len' \in [0 .. 1 -> (0 .. MAX_2) \cup {Gr!Unset}]
        /\ DBC_store'[0] = c[1] /\ DBC_len'[0] = c[2] /\ DBC_store'[1] = DBC_store[1]
    BY <2>2, <2>5, <2>6
  <2>8. Gr!TypeOK'
    BY <2>1, <2>4, <2>7 DEF Gr!TypeOK, Gr!Unset
  <2>9. Gr!ExponentsSmall'
    <3>1. \A x \in 0 .. 1 : x = 0 \/ x = 1
      OBVIOUS
    <3>2. \A row \in 0 .. MAX_2 - 1 : Gr!Small(c[1][row].dbl) /\ Gr!Small(c[1][row].tpl)
      <4>1. ASSUME NEW row \in 0 .. MAX_2 - 1
            PROVE  c[1][row].dbl \in Nat /\ c[1][row].tpl \in Nat
        BY <2>3 DEF LeftForScalar, Slot, Entry
      <4>2. QED
        BY <2>3, <4>1, MaxAssumption DEF LeftForScalar, Gr!Small
    <3>3. a' = a /\ b_temp' = b_temp
      BY <2>1
    <3>4. QED
      BY <2>4, <2>7, <3>1, <3>2, <3>3 DEF Gr!ExponentsSmall, Gr!Small
  <2>10. OptimalChains[n'] = OptimalChains[n] /\ current' = current
    BY <1>1, <2>1, StayInLoops
  <2>11. QED
    BY <2>1, <2>7, <2>8, <2>9, <2>10 DEF GeneratorInv, Stored
<1>5. CASE Generate
  <2>1. /\ phase = "generating" /\ Greedy!Running /\ UNCHANGED loopVars
        /\ phase' = IF gpc' = "done" THEN "generated" ELSE "generating"
        /\ current.kind = "greedy"
    BY <1>1, <1>5 DEF Generate, LoopsInv
  <2>2. Gr!CallerInv /\ job = GreedyJob(current, n)
    BY <1>1, <2>1 DEF GeneratorInv
  <2>3. Gr!CallerInv' /\ job' = job
    BY <2>1, <2>2, GeneratorStep
  <2>4. (GreedyJob(current, n))' = GreedyJob(current, n) /\ current' = current
    BY <1>1, <2>1, StayInLoops DEF GreedyJob
  <2>5. QED
    BY <1>2, <2>1, <2>2, <2>3, <2>4 DEF GeneratorInv
<1>6. CASE Evaluate
  BY <1>1, <1>6, HandedIsJob, GeneratorIdle DEF Evaluate
<1>7. CASE CallReference \/ Multiply \/ MultiplyReference \/ Compare
  BY <1>1, <1>7, GeneratorIdle DEF CallReference, Multiply, MultiplyReference, Compare
<1>8. CASE Keep \/ AddCost
  BY <1>1, <1>8, GeneratorIdle DEF Keep, AddCost, Advance
<1>9. CASE UNCHANGED vars
  <2>1. UNCHANGED generatorVars /\ UNCHANGED loopVars /\ phase' = phase
    BY <1>9 DEF vars
  <2>2. Stored' /\ (Gr!CallerInv => Gr!CallerInv')
    BY <1>1, <2>1, GeneratorRest DEF GeneratorInv
  <2>3. job' = job /\ gpc' = gpc /\ DBC_store' = DBC_store /\ DBC_len' = DBC_len
    BY <2>1 DEF generatorVars
  <2>4. current' = current /\ n' = n
    BY <1>1, <2>1, StayInLoops
  <2>5. (GreedyJob(current, n))' = GreedyJob(current, n)
    BY <2>4 DEF GreedyJob
  <2>6. QED
    BY <1>1, <2>1, <2>2, <2>3, <2>4, <2>5 DEF GeneratorInv
<1>10. QED
  BY <1>3, <1>4, <1>5, <1>6, <1>7, <1>8, <1>9 DEF Next

-----------------------------------------------------------------------------
(* A multiplication in progress keeps its chain.                           *)
LEMMA KeepsChain ==
  ASSUME Evaluation!Running
  PROVE  slot' = slot /\ len' = len /\ mpc' \in {"loop", "done"}
<1>1. CASE Evaluation!Double
  BY <1>1 DEF Evaluation!Double
<1>2. CASE Evaluation!Triple
  BY <1>2 DEF Evaluation!Triple, Evaluation!TripleBy
<1>3. CASE Evaluation!AddTerm
  BY <1>3 DEF Evaluation!AddTerm, Evaluation!AddTermWith
<1>4. CASE Evaluation!Return
  BY <1>4 DEF Evaluation!Return, Evaluation!ReturnIf
<1>5. QED
  BY <1>1, <1>2, <1>3, <1>4 DEF Evaluation!Running

(* A step that leaves DBC_POINT_mul alone.                                 *)
LEMMA EvaluationIdle ==
  ASSUME EvaluationInv, UNCHANGED chainMulVars,
         phase' \in {"evaluating", "evaluated"} => current'.kind \notin WithChains
  PROVE  EvaluationInv'
<1>1. Ev!IndInv'
  BY EvaluationStep DEF EvaluationInv
<1>2. QED
  BY <1>1 DEF EvaluationInv

(* Every step keeps what is known of the evaluation; the call finds a job  *)
(* handed over by a generator.                                             *)
LEMMA EvaluationStays ==
  ASSUME PositiveScalars, ListsFind, Inv, AvoidsOrder, [Next]_vars
  PROVE  EvaluationInv'
<1>1. LoopsInv /\ GeneratorInv /\ EvaluationInv
  BY DEF Inv
<1>2. CASE Evaluate
  <2> DEFINE c == DBC_store[min_index]
             l == DBC_len[min_index]
  <2>1. phase = "generated" /\ UNCHANGED loopVars
    BY <1>2 DEF Evaluate
  <2>2. <<c, l>> \in SoundJobs /\ l <= MAX_2 /\ Handed(c, l)
    BY <1>1, <2>1, HandedIsJob, HandOver
  <2>3. phase' = "evaluating" /\ Evaluation!Setup(<<c, l>>)
    BY <1>2, <2>2 DEF Evaluate
  <2> HIDE DEF c, l
  <2>4. Ev!IndInv'
    BY <1>1, <2>2, <2>3, EvaluationStep DEF EvaluationInv
  <2>5. slot' = c /\ len' = l /\ mpc' = "loop"
    BY <2>3 DEF Evaluation!Setup, Evaluation!SetupWith
  <2>6. method' = method /\ n' = n
    BY <1>1, <2>1, StayInLoops
  <2>7. (Value(slot, len))' = Value(c, l) /\ (Cost(slot, len))' = Cost(c, l)
        /\ (ChainCost(method, n))' = ChainCost(method, n)
    BY <2>5, <2>6
  <2>8. (Value(slot, len) = n)' /\ (Cost(slot, len) = ChainCost(method, n))'
    BY <2>2, <2>6, <2>7 DEF Handed
  <2>9. QED
    BY <2>3, <2>4, <2>5, <2>8 DEF EvaluationInv
<1>3. CASE Multiply
  <2>1. /\ phase = "evaluating" /\ Evaluation!Running /\ UNCHANGED loopVars
        /\ phase' = IF mpc' = "done" THEN "evaluated" ELSE "evaluating"
        /\ current.kind \in WithChains
    BY <1>1, <1>3 DEF Multiply, LoopsInv
  <2>2. Ev!IndInv'
    BY <1>1, <2>1, EvaluationStep DEF EvaluationInv
  <2>3. slot' = slot /\ len' = len /\ mpc' # "idle"
    BY <2>1, KeepsChain
  <2>4. method' = method /\ n' = n /\ current' = current
    BY <1>1, <2>1, StayInLoops
  <2>5. Value(slot, len) = n /\ Cost(slot, len) = ChainCost(method, n)
    BY <1>1, <2>1 DEF EvaluationInv
  <2>6. (Value(slot, len))' = Value(slot, len) /\ (Cost(slot, len))' = Cost(slot, len)
        /\ (ChainCost(method, n))' = ChainCost(method, n)
    BY <2>3, <2>4
  <2>7. (Value(slot, len) = n)' /\ (Cost(slot, len) = ChainCost(method, n))'
    BY <2>4, <2>5, <2>6
  <2>8. phase' = "evaluated" => mpc' = "done"
    BY <2>1
  <2>9. QED
    BY <2>2, <2>3, <2>7, <2>8 DEF EvaluationInv
<1>4. CASE MultiplyReference
  <2>1. current' = current /\ current.kind \notin WithChains /\ UNCHANGED chainMulVars
    BY <1>1, <1>4, StayInLoops DEF MultiplyReference, LoopsInv
  <2>2. QED
    BY <1>1, <2>1, EvaluationIdle
<1>5. CASE CallGreedy \/ CallOptimal \/ CallReference \/ Generate \/ Compare
  BY <1>1, <1>5, EvaluationIdle DEF CallGreedy, CallOptimal, CallReference, Generate, Compare
<1>6. CASE Keep \/ AddCost
  BY <1>1, <1>6, EvaluationIdle DEF Keep, AddCost, Advance
<1>7. CASE UNCHANGED vars
  <2>1. UNCHANGED chainMulVars /\ UNCHANGED loopVars /\ phase' = phase
    BY <1>7 DEF vars
  <2>2. Ev!IndInv'
    BY <1>1, <2>1, EvaluationStep DEF EvaluationInv
  <2>3. slot' = slot /\ len' = len /\ mpc' = mpc
    BY <2>1 DEF chainMulVars
  <2>4. method' = method /\ n' = n /\ current' = current
    BY <1>1, <2>1, StayInLoops
  <2>5. (Value(slot, len))' = Value(slot, len) /\ (Cost(slot, len))' = Cost(slot, len)
        /\ (ChainCost(method, n))' = ChainCost(method, n)
    BY <2>3, <2>4
  <2>6. QED
    BY <1>1, <2>1, <2>2, <2>3, <2>4, <2>5 DEF EvaluationInv
<1>8. QED
  BY <1>2, <1>3, <1>4, <1>5, <1>6, <1>7 DEF Next

-----------------------------------------------------------------------------
(* A reference multiplication keeps its scalar.                            *)
LEMMA KeepsScalar ==
  ASSUME Reference!Running
  PROVE  hexwords' = hexwords /\ rpc' \in {"bits", "digits", "eval", "done"}
<1>1. CASE Reference!Bit
  BY <1>1 DEF Reference!Bit, Reference!BitThen
<1>2. CASE Reference!ReturnBinary \/ Reference!ReturnNAF
  BY <1>2 DEF Reference!ReturnBinary, Reference!ReturnNAF
<1>3. CASE Reference!Digit
  BY <1>3 DEF Reference!Digit, Reference!DigitOf
<1>4. CASE Reference!ReverseDigits
  BY <1>4 DEF Reference!ReverseDigits
<1>5. CASE Reference!EvalDigit
  BY <1>5 DEF Reference!EvalDigit, Reference!EvalWith
<1>6. QED
  BY <1>1, <1>2, <1>3, <1>4, <1>5 DEF Reference!Running

(* A step that leaves the reference multiplications alone.                 *)
LEMMA ReferenceIdle ==
  ASSUME ReferenceInv, UNCHANGED referenceVars,
         phase' \in {"reference", "evaluated"} => current'.kind \in WithChains
  PROVE  ReferenceInv'
<1>1. Ref!LoopInv'
  BY ReferenceStep DEF ReferenceInv
<1>2. QED
  BY <1>1 DEF ReferenceInv

(* Every step keeps what is known of them.                                 *)
LEMMA ReferenceStays ==
  ASSUME PositiveScalars, ListsFind, Inv, AvoidsOrder, [Next]_vars
  PROVE  ReferenceInv'
<1>1. LoopsInv /\ GeneratorInv /\ ReferenceInv
  BY DEF Inv
<1>2. CASE CallReference
  <2>1. /\ phase' = "reference" /\ UNCHANGED loopVars
        /\ Reference!CallBinary(n) \/ Reference!CallNAF(n)
    BY <1>2 DEF CallReference
  <2>2. n \in Nat
    BY <1>1, LoopFacts
  <2>3. Ref!LoopInv'
    BY <1>1, <2>1, <2>2, ReferenceStep DEF ReferenceInv
  <2>4. hexwords' = n /\ rpc' # "idle"
    BY <2>1 DEF Reference!CallBinary, Reference!CallNAF, Reference!Begin, Reference!BeginOn
  <2>5. n' = n
    BY <1>1, <2>1, StayInLoops
  <2>6. QED
    BY <2>1, <2>3, <2>4, <2>5 DEF ReferenceInv
<1>3. CASE MultiplyReference
  <2>1. /\ phase = "reference" /\ Reference!Running /\ UNCHANGED loopVars
        /\ phase' = IF rpc' = "done" THEN "evaluated" ELSE "reference"
        /\ current.kind \notin WithChains
    BY <1>1, <1>3 DEF MultiplyReference, LoopsInv
  <2>2. Ref!LoopInv'
    BY <1>1, <2>1, ReferenceStep DEF ReferenceInv
  <2>3. hexwords' = hexwords /\ rpc' # "idle"
    BY <2>1, KeepsScalar
  <2>4. n' = n /\ hexwords = n
    BY <1>1, <2>1, StayInLoops DEF ReferenceInv
  <2>5. phase' = "evaluated" => rpc' = "done"
    BY <2>1
  <2>6. QED
    BY <2>2, <2>3, <2>4, <2>5 DEF ReferenceInv
<1>4. CASE Multiply
  <2>1. current' = current /\ current.kind \in WithChains /\ UNCHANGED referenceVars
    BY <1>1, <1>4, StayInLoops DEF Multiply, LoopsInv
  <2>2. QED
    BY <1>1, <2>1, ReferenceIdle
<1>5. CASE CallGreedy \/ CallOptimal \/ Generate \/ Compare
  BY <1>1, <1>5, ReferenceIdle DEF CallGreedy, CallOptimal, Generate, Compare
<1>6. CASE Evaluate
  BY <1>1, <1>6, ReferenceIdle DEF Evaluate
<1>7. CASE Keep \/ AddCost
  BY <1>1, <1>7, ReferenceIdle DEF Keep, AddCost, Advance
<1>8. CASE UNCHANGED vars
  <2>1. UNCHANGED referenceVars /\ UNCHANGED loopVars /\ phase' = phase
    BY <1>8 DEF vars
  <2>2. Ref!LoopInv'
    BY <1>1, <2>1, ReferenceStep DEF ReferenceInv
  <2>3. hexwords' = hexwords /\ rpc' = rpc
    BY <2>1 DEF referenceVars
  <2>4. n' = n /\ current' = current
    BY <1>1, <2>1, StayInLoops
  <2>5. QED
    BY <1>1, <2>1, <2>2, <2>3, <2>4 DEF ReferenceInv
<1>9. QED
  BY <1>2, <1>3, <1>4, <1>5, <1>6, <1>7, <1>8 DEF Next

-----------------------------------------------------------------------------
(* The point a method has computed is that of the scalar.                  *)
LEMMA PointInHand ==
  ASSUME PositiveScalars, Inv, phase = "evaluated"
  PROVE  LET p == IF current.kind \in WithChains THEN r ELSE R
         IN  p \in Point /\ ~ Differs(p, n)
<1>1. LoopsInv /\ EvaluationInv /\ ReferenceInv /\ n \in Nat /\ n > 0
  BY LoopFacts DEF Inv
<1>2. CASE current.kind \in WithChains
  <2>1. Ev!IndInv /\ mpc = "done" /\ Value(slot, len) = n
    BY <1>1, <1>2 DEF EvaluationInv
  <2>2. mi = len /\ now_dbl = 0 /\ now_tpl = 0 /\ r \in Ev!Point
    BY <2>1 DEF Ev!IndInv, Ev!ExponentsDone, Ev!TypeOK
  <2>3. r.k = Ev!Value(slot, len) /\ Ev!Usable(r)
    BY <2>1, <2>2, Ev!ResultIsValue, EvaluationAssumptions
  <2>4. r.k = n /\ Usable(r) /\ r \in Point
    BY <2>1, <2>2, <2>3, SameValues
       DEF Ev!Usable, Usable, Ev!Stale, Stale, Ev!Point, Point, Ev!ZKinds, ZKinds
  <2>5. QED
    BY <1>2, <2>4 DEF Differs
<1>3. CASE current.kind \notin WithChains
  <2>1. Ref!LoopInv /\ rpc = "done" /\ hexwords = n
    BY <1>1, <1>3 DEF ReferenceInv
  <2>2. Ref!Usable(R) /\ R.k = Ref!Promised /\ R \in Ref!Point
    BY <2>1 DEF Ref!LoopInv, Ref!TypeOK
  <2>3. R.k = n /\ Usable(R) /\ R \in Point
    BY <1>1, <2>1, <2>2
       DEF Ref!Promised, Ref!Usable, Usable, Ref!Stale, Stale, Ref!Point, Point, Ref!ZKinds, ZKinds
  <2>4. QED
    BY <1>3, <2>3 DEF Differs
<1>4. QED
  BY <1>2, <1>3

(* Its operations cost what the chain does, less one addition.             *)
LEMMA CostInHand ==
  ASSUME Inv, phase = "evaluated", current.kind \in WithChains
  PROVE  Price(ops) = Charge(method, n)
<1>1. Ev!IndInv /\ mpc = "done" /\ Cost(slot, len) = ChainCost(method, n)
  BY DEF Inv, EvaluationInv
<1>2. /\ slot \in Slot /\ mi = len /\ now_dbl = 0 /\ now_tpl = 0 /\ mi \in 1 .. len
      /\ len \in 0 .. MAX_2 /\ ops \in [add : Nat, dbl : Nat, tpl : Nat]
  BY <1>1, SameSlots DEF Ev!IndInv, Ev!ExponentsDone, Ev!TypeOK, Ev!HornerInv
<1>3. /\ ops.add = mi - 1
      /\ ops.dbl + now_dbl = slot[0].dbl
      /\ ops.tpl + now_tpl = slot[0].tpl
  BY <1>1 DEF Ev!IndInv, Ev!Progress
<1>4. ops.add \in Nat /\ ops.dbl \in Nat /\ ops.tpl \in Nat /\ len \in Nat
  BY <1>2, MaxAssumption
<1>5. ops.add = len - 1 /\ ops.dbl = slot[0].dbl /\ ops.tpl = slot[0].tpl
  BY <1>2, <1>3, <1>4
<1>6. Cost(slot, len) = len * 150 + ops.dbl * 70 + ops.tpl * 126
  BY <1>5 DEF Cost, CostAt, DBCTestCosts, ADD_COST, DBL_COST, TPL_COST
<1>7. Price(ops) = (len - 1) * 150 + ops.dbl * 70 + ops.tpl * 126
  BY <1>5 DEF Price, ADD_COST, DBL_COST, TPL_COST
<1>8. Cost(slot, len) \in Int /\ Price(ops) = Cost(slot, len) - 150
  BY <1>4, <1>6, <1>7
<1>9. QED
  BY <1>1, <1>8 DEF Charge, ADD_COST

(* So does compute_TTV for the chain generated a second time.              *)
LEMMA CostHanded ==
  ASSUME PositiveScalars, ListsFind, LoopsInv, GeneratorInv, phase = "generated"
  PROVE  compute_TTV(min_index) = Charge(method, n)
<1> DEFINE c == DBC_store[min_index]
           l == DBC_len[min_index]
<1>1. Handed(c, l)
  BY HandOver
<1> HIDE DEF c, l
<1>2. c \in Slot /\ l \in Nat /\ Cost(c, l) = ChainCost(method, n)
  BY <1>1, MaxAssumption DEF Handed
<1>3. 0 \in 0 .. MAX_2 - 1
  BY MaxAssumption
<1>4. c[0].dbl \in Nat /\ c[0].tpl \in Nat
  BY <1>2, <1>3 DEF Slot, Entry
<1>5. Cost(c, l) = l * 150 + c[0].dbl * 70 + c[0].tpl * 126
  BY DEF Cost, CostAt, DBCTestCosts, ADD_COST, DBL_COST, TPL_COST
<1>6. Cost(c, l) \in Int
  BY <1>2, <1>4, <1>5
<1>7. compute_TTV(min_index) = Cost(c, l) - ADD_COST
  BY DEF compute_TTV, c, l
<1>8. QED
  BY <1>2, <1>6, <1>7 DEF Charge

-----------------------------------------------------------------------------
(* A round adds the scalar in hand to those passed.                        *)
LEMMA AdvancePassed ==
  ASSUME LoopsInv, method <= Len(Methods), Advance,
         NEW m \in 1 .. Len(Methods), NEW y \in 1 .. TEST_TIMES, Passed(m, y)'
  PROVE  Passed(m, y) \/ (m = method /\ y = item)
<1>1. /\ method \in Nat /\ item \in Nat /\ TEST_TIMES \in Nat /\ item <= TEST_TIMES
      /\ pass \in {"timed", "cost"} /\ m \in Nat /\ y \in Nat /\ y <= TEST_TIMES
  BY LoopFacts DEF LoopsInv
<1>2. m < method' \/ (m = method' /\ (pass' = "cost" \/ y < item'))
  BY DEF Passed
<1>3. CASE item < TEST_TIMES
  BY <1>1, <1>2, <1>3 DEF Advance, Passed
<1>4. CASE ~ (item < TEST_TIMES)
  <2>1. item = TEST_TIMES /\ item' = 1
    BY <1>1, <1>4 DEF Advance
  <2>2. \/ pass' = "cost" /\ method' = method
        \/ pass' = "timed" /\ method' = method + 1
    BY <1>4 DEF Advance
  <2>3. QED
    BY <1>1, <1>2, <2>1, <2>2 DEF Passed
<1>5. QED
  BY <1>3, <1>4

(* Steps that keep no point.                                               *)
LEMMA PointsIdle ==
  ASSUME LoopsInv, PointsInv, UNCHANGED <<loopVars, points>>, error' = 0
  PROVE  PointsInv'
<1>1. /\ hexinput' = hexinput /\ method' = method /\ pass' = pass /\ item' = item
      /\ TEST_TIMES' = TEST_TIMES
  BY StayInLoops
<1>2. \A m, y : Passed(m, y)' <=> Passed(m, y)
  BY <1>1 DEF Passed
<1>3. points' = points
  OBVIOUS
<1>4. QED
  BY <1>1, <1>2, <1>3 DEF PointsInv

(* Every step keeps the points right: Keep adds the one in hand, AddCost   *)
(* passes scalars whose points were kept in the timed pass.                *)
LEMMA PointsStay ==
  ASSUME PositiveScalars, ListsFind, Inv, AvoidsOrder, [Next]_vars
  PROVE  PointsInv'
<1>1. LoopsInv /\ PointsInv /\ error = 0
  BY DEF Inv, PointsInv
<1> DEFINE Results == {Methods[m].result : m \in 1 .. Len(Methods)}
<1>2. CASE Keep
  <2> DEFINE p == IF current.kind \in WithChains THEN r ELSE R
  <2>1. /\ phase = "evaluated" /\ Advance /\ error' = error
        /\ points' = [points EXCEPT ![current.result][item] = p]
    BY <1>2 DEF Keep
  <2>2. p \in Point /\ ~ Differs(p, n)
    BY <2>1, PointInHand
  <2> HIDE DEF p
  <2>3. /\ method \in 1 .. Len(Methods) /\ method <= Len(Methods) /\ item \in 1 .. TEST_TIMES
        /\ current.result \in Results
    BY <1>1, <2>1, LoopFacts DEF LoopsInv, current
  <2>4. hexinput' = hexinput /\ TEST_TIMES' = TEST_TIMES
    BY <2>1 DEF Advance, TEST_TIMES
  <2>5. points \in [Results -> [1 .. TEST_TIMES -> Point]]
    BY <1>1 DEF PointsInv
  <2> HIDE DEF Results
  <2>6. points' \in [Results -> [1 .. TEST_TIMES -> Point]]
    BY <2>1, <2>2, <2>3, <2>5
  <2>7. ASSUME NEW x \in Results, NEW y \in 1 .. TEST_TIMES
        PROVE  points'[x][y] = IF x = current.result /\ y = item THEN p ELSE points[x][y]
    BY <2>1, <2>3, <2>5
  <2>8. ASSUME NEW m \in 1 .. Len(Methods), NEW y \in 1 .. TEST_TIMES, Passed(m, y)'
        PROVE  ~ Differs(points'[Methods[m].result][y], hexinput[y])
    <3>1. Passed(m, y) \/ (m = method /\ y = item)
      BY <1>1, <2>1, <2>3, <2>8, AdvancePassed
    <3>2. Methods[m].result \in Results
      BY DEF Results
    <3>3. CASE Methods[m].result = current.result /\ y = item
      BY <2>2, <2>7, <3>2, <3>3 DEF n
    <3>4. CASE ~ (Methods[m].result = current.result /\ y = item)
      <4>1. Passed(m, y)
        BY <3>1, <3>4 DEF current
      <4>2. ~ Differs(points[Methods[m].result][y], hexinput[y])
        BY <1>1, <4>1 DEF PointsInv
      <4>3. QED
        BY <2>7, <3>2, <3>4, <4>2
    <3>5. QED
      BY <3>3, <3>4
  <2>9. QED
    BY <1>1, <2>1, <2>4, <2>6, <2>8 DEF PointsInv, Results
<1>3. CASE AddCost
  <2>1. /\ phase = "generated" /\ pass = "cost" /\ Advance /\ error' = error /\ points' = points
    BY <1>3 DEF AddCost
  <2>2. method <= Len(Methods)
    BY <1>1, <2>1 DEF LoopsInv
  <2>3. hexinput' = hexinput /\ TEST_TIMES' = TEST_TIMES
    BY <2>1 DEF Advance, TEST_TIMES
  <2>4. ASSUME NEW m \in 1 .. Len(Methods), NEW y \in 1 .. TEST_TIMES, Passed(m, y)'
        PROVE  Passed(m, y)
    BY <1>1, <2>1, <2>2, <2>4, AdvancePassed DEF Passed
  <2>5. QED
    BY <1>1, <2>1, <2>3, <2>4 DEF PointsInv
<1>4. CASE Compare
  <2> DEFINE Wrong == {x \in (DOMAIN points) \X (1 .. TEST_TIMES) :
                         Differs(points[x[1]][x[2]], hexinput[x[2]])}
  <2>1. /\ method > Len(Methods) /\ UNCHANGED <<loopVars, points>> /\ error' = Cardinality(Wrong)
    BY <1>4 DEF Compare
  <2>2. Wrong = {}
    <3>1. SUFFICES ASSUME NEW x \in (DOMAIN points) \X (1 .. TEST_TIMES),
                          Differs(points[x[1]][x[2]], hexinput[x[2]])
                   PROVE  FALSE
      OBVIOUS
    <3>2. x[1] \in Results /\ x[2] \in 1 .. TEST_TIMES
      BY <1>1, <3>1 DEF PointsInv
    <3>3. PICK m \in 1 .. Len(Methods) : x[1] = Methods[m].result
      BY <3>2
    <3>4. Passed(m, x[2])
      BY <1>1, <2>1, LoopFacts DEF Passed, LoopsInv
    <3>5. QED
      BY <1>1, <3>1, <3>2, <3>3, <3>4 DEF PointsInv
  <2> HIDE DEF Wrong
  <2>3. error' = 0
    BY <2>1, <2>2, FS_EmptySet
  <2>4. QED
    BY <1>1, <2>1, <2>3, PointsIdle
<1>5. CASE CallGreedy \/ CallOptimal \/ CallReference \/ Generate
  BY <1>1, <1>5, PointsIdle DEF CallGreedy, CallOptimal, CallReference, Generate, resultVars
<1>6. CASE Evaluate \/ Multiply \/ MultiplyReference
  BY <1>1, <1>6, PointsIdle DEF Evaluate, Multiply, MultiplyReference, resultVars
<1>7. CASE UNCHANGED vars
  BY <1>1, <1>7, PointsIdle DEF vars, resultVars
<1>8. QED
  BY <1>2, <1>3, <1>4, <1>5, <1>6, <1>7 DEF Next

-----------------------------------------------------------------------------
(* Steps that count nothing.                                               *)
LEMMA CostsIdle ==
  ASSUME LoopsInv, CostsInv, UNCHANGED <<loopVars, spent, TTV>>
  PROVE  CostsInv'
<1>1. /\ hexinput' = hexinput /\ method' = method /\ pass' = pass /\ item' = item
      /\ TEST_TIMES' = TEST_TIMES /\ current' = current
  BY StayInLoops
<1>2. FirstRound' = FirstRound
  BY <1>1 DEF FirstRound
<1>3. QED
  BY <1>1, <1>2 DEF CostsInv

(* Every step keeps the sums: the timed pass adds up the operations, the   *)
(* cost pass the costs of the chains.                                      *)
LEMMA CostsStay ==
  ASSUME PositiveScalars, ListsFind, Inv, AvoidsOrder, [Next]_vars
  PROVE  CostsInv'
<1>1. LoopsInv /\ GeneratorInv /\ CostsInv
  BY DEF Inv
<1> DEFINE C == Charges(method, hexinput)
<1>2. /\ C[0] = 0
      /\ \A y \in 1 .. TEST_TIMES : C[y] = C[y - 1] + Charge(method, hexinput[y])
      /\ \A y \in 0 .. TEST_TIMES : C[y] \in Int
  BY <1>1, LoopFacts, ChargesFacts DEF TEST_TIMES
<1>3. /\ item \in 1 .. TEST_TIMES /\ TEST_TIMES \in Nat /\ TEST_TIMES >= 1
      /\ method \in Nat /\ method >= 1
  BY <1>1, LoopFacts DEF LoopsInv
<1>4. C[item] = C[item - 1] + Charge(method, n) /\ C[item - 1] \in Int /\ C[item] \in Int
  <2>1. item - 1 \in 0 .. TEST_TIMES /\ item \in 0 .. TEST_TIMES
    BY <1>3
  <2>2. QED
    BY <1>2, <1>3, <2>1 DEF n
<1> HIDE DEF C
(* The costs at the head of the next round, by the one that ends.          *)
<1>5. ASSUME phase \in {"evaluated", "generated"}, Advance,
             pass = "timed" /\ current.kind \in WithChains => spent' = C[item] /\ TTV' = 0,
             pass = "cost" => /\ spent' = C[TEST_TIMES]
                              /\ TTV' = C[item]
      PROVE  CostsInv'
  <2>1. hexinput' = hexinput /\ TEST_TIMES' = TEST_TIMES /\ method <= Len(Methods)
    BY <1>1, <1>5 DEF Advance, TEST_TIMES, LoopsInv
  <2>2. pass \in {"timed", "cost"} /\ (pass = "cost" => current.kind \in WithChains)
    BY <1>1 DEF LoopsInv
  <2>3. CASE item < TEST_TIMES
    <3>1. item' = item + 1 /\ pass' = pass /\ method' = method /\ item' > 1 /\ item' - 1 = item
      BY <1>3, <1>5, <2>3 DEF Advance
    <3>2. current' = current /\ Charges(method, hexinput)' = C
      BY <2>1, <3>1 DEF current, C
    <3>3. ~ FirstRound'
      BY <1>3, <3>1 DEF FirstRound
    <3>4. QED
      BY <1>5, <2>1, <2>2, <3>1, <3>2, <3>3 DEF CostsInv
  <2>4. CASE ~ (item < TEST_TIMES) /\ pass = "timed" /\ current.kind \in WithChains
    <3>1. item' = 1 /\ pass' = "cost" /\ method' = method /\ item = TEST_TIMES /\ item' - 1 = 0
      BY <1>3, <1>5, <2>4 DEF Advance
    <3>2. current' = current /\ Charges(method, hexinput)' = C
      BY <2>1, <3>1 DEF current, C
    <3>3. ~ FirstRound' /\ spent' = C[TEST_TIMES] /\ TTV' = C[0]
      BY <1>2, <1>5, <2>4, <3>1 DEF FirstRound, C
    <3>4. QED
      BY <2>1, <3>1, <3>2, <3>3 DEF CostsInv
  <2>5. CASE ~ (item < TEST_TIMES) /\ ~ (pass = "timed" /\ current.kind \in WithChains)
    <3>1. /\ item' = 1 /\ pass' = "timed" /\ method' = method + 1 /\ item = TEST_TIMES
          /\ method' - 1 = method
      BY <1>3, <1>5, <2>5 DEF Advance
    <3>2. current.kind \in WithChains => TTV' = spent'
      BY <1>5, <2>2, <2>5, <3>1
    <3>3. Methods[method' - 1] = current
      BY <3>1 DEF current
    <3>4. QED
      BY <3>1, <3>2, <3>3 DEF CostsInv
  <2>6. QED
    BY <2>3, <2>4, <2>5
<1>6. CASE Keep
  <2>1. phase = "evaluated" /\ pass = "timed" /\ Advance /\ method <= Len(Methods)
    BY <1>1, <1>6 DEF Keep, LoopsInv
  <2>2. ASSUME current.kind \in WithChains PROVE spent' = C[item] /\ TTV' = 0
    <3>1. Price(ops) = Charge(method, n)
      BY <2>1, <2>2, CostInHand
    <3>2. CASE item = 1
      <4>1. spent' = 0 + Charge(method, n) /\ TTV' = 0
        BY <1>6, <2>1, <2>2, <3>1, <3>2 DEF Keep, FirstRound
      <4>2. C[item - 1] = 0
        BY <1>2, <3>2 DEF C
      <4>3. QED
        BY <1>4, <4>1, <4>2
    <3>3. CASE item # 1
      <4>1. spent' = spent + Charge(method, n) /\ TTV' = TTV
        BY <1>6, <2>1, <2>2, <3>1, <3>3 DEF Keep, FirstRound
      <4>2. spent = C[item - 1] /\ TTV = 0
        BY <1>1, <1>3, <2>1, <2>2, <3>3 DEF CostsInv, C
      <4>3. QED
        BY <1>4, <4>1, <4>2
    <3>4. QED
      BY <3>2, <3>3
  <2>3. QED
    BY <1>5, <2>1, <2>2
<1>7. CASE AddCost
  <2>1. /\ phase = "generated" /\ pass = "cost" /\ Advance /\ spent' = spent
        /\ TTV' = TTV + compute_TTV(min_index)
    BY <1>7 DEF AddCost
  <2>2. method <= Len(Methods) /\ current.kind \in WithChains
    BY <1>1, <2>1 DEF LoopsInv
  <2>3. spent = C[TEST_TIMES] /\ TTV = C[item - 1]
    BY <1>1, <2>1, <2>2 DEF CostsInv, C
  <2>4. compute_TTV(min_index) = Charge(method, n)
    BY <1>1, <2>1, CostHanded
  <2>5. spent' = C[TEST_TIMES] /\ TTV' = C[item]
    BY <1>4, <2>1, <2>3, <2>4
  <2>6. QED
    BY <1>5, <2>1, <2>5
<1>8. CASE CallGreedy \/ CallOptimal \/ CallReference \/ Generate
  BY <1>1, <1>8, CostsIdle DEF CallGreedy, CallOptimal, CallReference, Generate, resultVars
<1>9. CASE Evaluate \/ Multiply \/ MultiplyReference \/ Compare
  BY <1>1, <1>9, CostsIdle DEF Evaluate, Multiply, MultiplyReference, Compare, resultVars
<1>10. CASE UNCHANGED vars
  BY <1>1, <1>10, CostsIdle DEF vars, resultVars
<1>11. QED
  BY <1>6, <1>7, <1>8, <1>9, <1>10 DEF Next

-----------------------------------------------------------------------------
(* The invariant as a whole, as long as no chain comes to a multiple of    *)
(* the order on its way.                                                   *)
LEMMA NextHolds ==
  ASSUME PositiveScalars, ListsFind
  PROVE  Inv /\ AvoidsOrder /\ [Next]_vars => Inv'
  BY LoopsStep, GeneratorStays, EvaluationStays, ReferenceStays, PointsStay, CostsStay DEF Inv

(* So it holds throughout.                                                 *)
LEMMA Holds ==
  ASSUME PositiveScalars, ListsFind
  PROVE  Spec /\ []AvoidsOrder => []Inv
<1>1. Inv /\ AvoidsOrder /\ [Next]_vars => Inv'
  BY NextHolds
<1>2. QED
  BY <1>1, InitHolds, PTL DEF Spec

(* DBC_POINT_mul only ever works on a chain of the scalar in hand, sound   *)
(* in the sense its own correctness asks for: whatever was left in the     *)
(* store, by getEOSDBC, getSubOptimalDBC or getOptimalDBC, for another     *)
(* scalar or by another method (under exact arithmetic, for positive       *)
(* scalars whose lists find a chain, as long as AvoidsOrder holds).        *)
THEOREM HandsOverSoundChains ==
  ASSUME PositiveScalars, ListsFind
  PROVE  Spec /\ []AvoidsOrder => []EvaluatesSoundChain
<1>1. Inv => EvaluatesSoundChain
  <2> SUFFICES ASSUME Inv, phase = "evaluating"
               PROVE  Evaluation!SoundChain(slot, len) /\ Value(slot, len) = n
    BY DEF EvaluatesSoundChain
  <2>1. Ev!IndInv /\ mpc # "idle" /\ Value(slot, len) = n
    BY DEF Inv, EvaluationInv, LoopsInv
  <2>2. Ev!SoundChain(slot, len)
    BY <2>1 DEF Ev!IndInv, Ev!WorksOnSoundChain
  <2>3. QED
    BY <2>1, <2>2, SameSoundChain
<1>2. QED
  BY <1>1, Holds, PTL

(* Every method agrees with EC_POINT_mul on every scalar, whichever arrays *)
(* the methods share, and nothing is read outside the store (under the     *)
(* same conditions).                                                       *)
THEOREM MethodsAgree ==
  ASSUME PositiveScalars, ListsFind
  PROVE  Spec /\ []AvoidsOrder => []NoErrors
<1>1. Inv => NoErrors
  BY DEF Inv, LoopsInv, PointsInv, NoErrors
<1>2. QED
  BY <1>1, Holds, PTL

(* The cost a method reports, from chains generated a second time, is the  *)
(* cost of the operations its evaluations performed the first time (under  *)
(* the same conditions).                                                   *)
THEOREM ReportsWhatWasSpent ==
  ASSUME PositiveScalars, ListsFind
  PROVE  Spec /\ []AvoidsOrder => []ReportedCostIsSpent
<1>1. Inv => ReportedCostIsSpent
  BY DEF Inv, CostsInv, ReportedCostIsSpent
<1>2. QED
  BY <1>1, Holds, PTL

-----------------------------------------------------------------------------
(* The conditions of these results, from the scalars and the lists alone.  *)
(* Up to half the order no greedy chain comes to a multiple of it; of      *)
(* those of getOptimalDBC it has to be asked.                              *)
SmallScalars ==
  \A x \in Inputs : \A y \in DOMAIN x :
    /\ GreedyMethods # {} => 2 * x[y] <= Order
    /\ (\E m \in DOMAIN Methods : Methods[m].kind = "optimal") =>
         \A c \in OptimalChains[x[y]] : \A e \in 1 .. c[2] - 1 : Value(c[1], e) % Order # 0

(* With such scalars no chain comes to a multiple of the order.            *)
LEMMA SmallAvoid ==
  ASSUME PositiveScalars, ListsFind, SmallScalars, Inv
  PROVE  AvoidsOrder
<1> SUFFICES ASSUME phase = "generated", NEW x \in 1 .. DBC_len[min_index] - 1
             PROVE  Value(DBC_store[min_index], x) % Order # 0
  BY DEF AvoidsOrder
<1>1. /\ LoopsInv /\ GeneratorInv /\ method <= Len(Methods)
      /\ current.kind \in {"optimal", "greedy"}
  BY DEF Inv, LoopsInv, WithChains
<1>2. hexinput \in Inputs /\ item \in DOMAIN hexinput /\ n \in Nat /\ method \in DOMAIN Methods
  BY <1>1, LoopFacts DEF LoopsInv
<1> DEFINE c == DBC_store[min_index]
           l == DBC_len[min_index]
<1>3. CASE current.kind = "greedy"
  <2>1. Handed(c, l) /\ \A y \in 1 .. l : 0 < Value(c, y) /\ Value(c, y) < 2 * n
    BY <1>1, <1>3, HandOver
  <2>2. 2 * n <= Order
    BY <1>1, <1>2, <1>3, CurrentJob DEF SmallScalars, n
  <2> HIDE DEF c, l
  <2>3. c \in Slot /\ l \in 1 .. MAX_2 /\ x \in 1 .. l - 1
    BY <2>1 DEF Handed, l
  <2>4. x \in 1 .. l /\ x \in 0 .. MAX_2
    BY <2>3, MaxAssumption
  <2>5. Value(c, x) \in Int
    BY <2>3, <2>4, RunningSumsFacts, MaxAssumption DEF Value, Sums, Slot
  <2>6. 0 < Value(c, x) /\ Value(c, x) < Order
    BY <1>2, <2>1, <2>2, <2>4, <2>5, OrderAssumption
  <2>7. Value(c, x) % Order = Value(c, x)
    BY <2>5, <2>6, OrderAssumption
  <2>8. QED
    BY <2>5, <2>6, <2>7 DEF c
<1>4. CASE current.kind = "optimal"
  <2>1. PICK d \in OptimalChains[n] : DBC_store[0] = d[1] /\ DBC_len[0] = d[2]
    BY <1>1, <1>4 DEF GeneratorInv
  <2>2. min_index = 0
    BY <1>4 DEF min_index
  <2>3. \E m \in DOMAIN Methods : Methods[m].kind = "optimal"
    BY <1>2, <1>4 DEF current
  <2>4. \A e \in 1 .. d[2] - 1 : Value(d[1], e) % Order # 0
    BY <1>2, <2>1, <2>3 DEF SmallScalars, n
  <2>5. QED
    BY <2>1, <2>2, <2>4
<1>5. QED
  BY <1>1, <1>3, <1>4

(* With such scalars no condition on the chains is left: the benchmark     *)
(* does all it should for positive scalars up to half the order whose      *)
(* lists find a chain, under exact arithmetic.                             *)
THEOREM BenchmarkCorrect ==
  ASSUME PositiveScalars, ListsFind, SmallScalars
  PROVE  Spec => []AvoidsOrder /\ []EvaluatesSoundChain /\ []NoErrors /\ []ReportedCostIsSpent
<1>1. Inv => AvoidsOrder
  BY SmallAvoid
<1>2. Inv /\ AvoidsOrder /\ [Next]_vars => Inv'
  BY NextHolds
<1>3. Spec => []AvoidsOrder
  BY <1>1, <1>2, InitHolds, PTL DEF Spec
<1>4. QED
  BY <1>3, HandsOverSoundChains, MethodsAgree, ReportsWhatWasSpent, PTL

-----------------------------------------------------------------------------
(* Lists with five exponents in a row come to a chain: were there a job    *)
(* whose list does not, the proofs about the generators would hold for it. *)
LostJob == CHOOSE J : J \in GreedyJobs /\ Gr!HoldsFive(J) /\ ~ Gr!Finds(J)

Lost == INSTANCE GreedyChainProofs WITH
  pc <- gpc, Jobs <- GreedyJobs, LaterJobs <- GreedyJobs, job <- LostJob

(* Whether a list finds a chain is the same question in both instances.    *)
LEMMA SameLists ==
  ASSUME NEW J
  PROVE  (Lost!Finds(J) <=> Gr!Finds(J)) /\ (Lost!HoldsFive(J) <=> Gr!HoldsFive(J))
<1>1. ASSUME NEW S PROVE Lost!At(J, 0, 0, 0)!Cardinality(S) = Gr!At(J, 0, 0, 0)!Cardinality(S)
  BY DEF Lost!At!Cardinality, Gr!At!Cardinality
<1>2. ASSUME NEW e
      PROVE  Lost!At(J, 0, 0, 0)!BoundNegative(e) = Gr!At(J, 0, 0, 0)!BoundNegative(e)
  BY DEF Lost!At!BoundNegative, Gr!At!BoundNegative, Lost!At!Pow3, Gr!At!Pow3,
         Lost!At!n, Gr!At!n
<1>3. ASSUME NEW e PROVE Lost!Accepted(J, e) = Gr!Accepted(J, e)
  BY <1>1 DEF Lost!Accepted, Gr!Accepted, Lost!At!LBound, Gr!At!LBound, Lost!At!RBound,
              Gr!At!RBound, Lost!At!UpToB1, Gr!At!UpToB1, Lost!At!UpToB2, Gr!At!UpToB2,
              Lost!At!Pow23, Gr!At!Pow23, Lost!At!Pow2, Gr!At!Pow2, Lost!At!Pow3, Gr!At!Pow3,
              Lost!At!n, Gr!At!n
<1>4. Lost!HoldsFive(J) <=> Gr!HoldsFive(J)
  BY DEF Lost!HoldsFive, Gr!HoldsFive, Lost!At!FiveInARow, Gr!At!FiveInARow,
         Lost!At!TriedUpTo, Gr!At!TriedUpTo, Lost!At!Pow3, Gr!At!Pow3, Lost!At!n, Gr!At!n
<1>5. Lost!Finds(J) <=> Gr!Finds(J)
  BY <1>2, <1>3 DEF Lost!Finds, Gr!Finds
<1>6. QED
  BY <1>4, <1>5

(* The lists of a benchmark need not be tried out: five exponents in a row *)
(* within the scalar, before any larger one, are enough for a chain.       *)
THEOREM FiveInARowSuffice ==
  ASSUME \A J \in GreedyJobs : Gr!HoldsFive(J)
  PROVE  ListsFind
<1> SUFFICES ASSUME NEW J \in GreedyJobs, ~ Gr!Finds(J) PROVE FALSE
  BY DEF ListsFind
<1>1. LostJob \in GreedyJobs /\ Gr!HoldsFive(LostJob) /\ ~ Gr!Finds(LostJob)
  BY DEF LostJob
<1>2. Lost!HoldsFive(LostJob)
  BY <1>1, SameLists
<1>3. /\ Lost!DBCTestCosts = Gr!DBCTestCosts /\ Lost!GpuecCosts = Gr!GpuecCosts
      /\ Lost!Pow2 = Gr!Pow2
  BY DEF Lost!DBCTestCosts, Gr!DBCTestCosts, Lost!GpuecCosts, Gr!GpuecCosts, Lost!Pow2, Gr!Pow2,
         Lost!ADD_COST, Gr!ADD_COST, Lost!DBL_COST, Gr!DBL_COST, Lost!TPL_COST, Gr!TPL_COST
<1>4. Lost!Finds(LostJob)
  BY <1>1, <1>2, <1>3, Lost!FiveFind, GreedyAssumptions
<1>5. QED
  BY <1>1, <1>4, SameLists
=============================================================================
