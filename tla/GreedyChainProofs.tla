------------------------- MODULE GreedyChainProofs --------------------------
(***************************************************************************)
(* Proofs about GreedyChain for every store size, list of exponents,       *)
(* window and limit: the loop invariant of the descent and what the call   *)
(* keeps.  They use of the choice of a term only that its exponents do not *)
(* exceed the bounds (NearestInBounds), so they also cover choices made    *)
(* with rounded arithmetic.  The second part bounds how far the descent    *)
(* can go, the third is about the exponents a call passes over, the last   *)
(* about rows that run_DBC_v2 could not add.                               *)
(***************************************************************************)
EXTENDS GreedyChain, ArithmeticProofs

(* A power is a natural number.                                            *)
LEMMA PowerType ==
  ASSUME NEW d \in Nat, NEW e \in Nat
  PROVE  Pow23(d, e) \in Nat
  BY Pow2Facts, Pow3Facts DEF Pow23

(* So is its distance from the remainder.                                  *)
LEMMA GapType ==
  ASSUME t \in Nat, NEW d \in Nat, NEW e \in Nat
  PROVE  Gap(d, e) \in Nat
<1>1. Pow23(d, e) \in Nat
  BY PowerType
<1>2. QED
  BY <1>1 DEF Gap

(* The exponent of 2 of a candidate is at most that of the last term.      *)
LEMMA AlphaInBounds ==
  ASSUME a \in Nat, t \in Nat, NEW j \in Nat
  PROVE  Alpha(j) \in 0 .. a
<1>1. Below(j) \in 0 .. a
  BY CountUpTo DEF Below
<1>2. QED
  BY <1>1 DEF Alpha, AlphaWithin

(* The exponents of all candidates stay within the bounds.                 *)
LEMMA CandidatesInBounds ==
  ASSUME a \in Nat, b_temp \in Nat, t \in Nat, job.window \in Nat
  PROVE  /\ Candidates # {}
         /\ \A p \in Candidates : /\ p.gap \in Nat
                                  /\ p.alpha \in 0 .. a
                                  /\ p.beta \in 0 .. b_temp
<1>1. Window \subseteq 0 .. b_temp /\ b_temp \in Window
  BY DEF Window, WindowUpTo
<1>2. ASSUME NEW j \in Window
      PROVE  /\ Power(Alpha(j), j).gap \in Nat
             /\ Power(Alpha(j), j).alpha \in 0 .. a
             /\ Power(Alpha(j), j).beta \in 0 .. b_temp
  <2>1. j \in Nat /\ j \in 0 .. b_temp
    BY <1>1
  <2>2. Alpha(j) \in 0 .. a /\ Alpha(j) \in Nat
    BY <2>1, AlphaInBounds
  <2>3. Gap(Alpha(j), j) \in Nat
    BY <2>1, <2>2, GapType
  <2>4. QED
    BY <2>1, <2>2, <2>3 DEF Power
<1>3. QED
  BY <1>1, <1>2 DEF Candidates

(* A nearest candidate exists: the one taken is a candidate, and none      *)
(* precedes it.                                                            *)
LEMMA NearestIsNearest ==
  ASSUME a \in Nat, b_temp \in Nat, t \in Nat, job.window \in Nat
  PROVE  LET p == NearestOf(Candidates)
         IN  p \in Candidates /\ \A q \in Candidates : Precedes(p, q)
<1> DEFINE C == Candidates
<1>1. C # {} /\ \A p \in C : p.gap \in Nat /\ p.alpha \in 0 .. a /\ p.beta \in 0 .. b_temp
  BY CandidatesInBounds
<1> HIDE DEF C
<1> DEFINE gaps == {p.gap : p \in C}
<1>2. PICK g \in gaps : \A h \in gaps : g <= h
  <2>1. gaps \subseteq Nat /\ gaps # {}
    BY <1>1
  <2> HIDE DEF gaps
  <2>2. QED
    BY <2>1, LeastNumber
<1> DEFINE betas == {p.beta : p \in {q \in C : q.gap = g}}
<1>3. PICK e \in betas : \A f \in betas : e <= f
  <2>1. betas \subseteq Nat /\ betas # {}
    BY <1>1, <1>2
  <2> HIDE DEF betas
  <2>2. QED
    BY <2>1, LeastNumber
<1>4. PICK p \in C : p.gap = g /\ p.beta = e
  BY <1>3
<1>5. ASSUME NEW q \in C PROVE Precedes(p, q)
  <2>1. p.gap <= q.gap /\ p.gap \in Nat /\ q.gap \in Nat
    BY <1>1, <1>2, <1>4
  <2>2. CASE q.gap = p.gap
    BY <1>3, <1>4, <2>2 DEF Precedes
  <2>3. CASE q.gap # p.gap
    BY <2>1, <2>3 DEF Precedes
  <2>4. QED
    BY <2>2, <2>3
<1>6. NearestOf(C) \in C /\ \A q \in C : Precedes(NearestOf(C), q)
  BY <1>5 DEF NearestOf
<1>7. QED
  BY <1>6 DEF C

(* The nearest power is taken among those within the bounds.               *)
LEMMA NearestInBounds ==
  ASSUME a \in Nat, b_temp \in Nat, t \in Nat, job.window \in Nat
  PROVE  LET p == NearestOf(Candidates)
         IN  p.alpha \in 0 .. a /\ p.beta \in 0 .. b_temp
  BY NearestIsNearest, CandidatesInBounds

(* One entry more: the slot written at index l is worth that term more,    *)
(* and entries before l are untouched.                                     *)
LEMMA AppendEntry ==
  ASSUME NEW c \in Slot, NEW l \in 0 .. MAX_2 - 1, NEW e \in Entry
  PROVE  LET d == [c EXCEPT ![l] = e]
         IN  /\ d \in Slot
             /\ Value(d, l + 1) = Value(c, l) + TermValue(e)
             /\ Value(c, l) \in Int
<1> USE MaxAssumption
<1> DEFINE d == [c EXCEPT ![l] = e]
<1>1. d \in Slot /\ d[l] = e /\ \A k \in 0 .. l - 1 : d[k] = c[k]
  BY DEF Slot
<1> HIDE DEF d
<1>2. Value(d, l) = Value(c, l)
  <2>1. l \in 0 .. MAX_2
    OBVIOUS
  <2>2. QED
    BY <1>1, <2>1, SameSums, MaxAssumption DEF Value, Sums, Slot
<1>3. Value(d, l + 1) = Value(d, l) + TermValue(e)
  BY <1>1, RunningSumsFacts, MaxAssumption DEF Sums, Slot, Value
<1>4. Value(c, l) \in Int
  <2>1. l \in 0 .. MAX_2
    OBVIOUS
  <2>2. QED
    BY <2>1, RunningSumsFacts, MaxAssumption DEF Sums, Slot, Value
<1>5. QED
  BY <1>1, <1>2, <1>3, <1>4 DEF d

(* The cost of a chain that fits the store is a number below that of a     *)
(* slot whose length is Unset.                                             *)
LEMMA CostRange ==
  ASSUME NEW c \in Slot, Small(c[0].dbl), Small(c[0].tpl),
         NEW l \in (0 .. MAX_2) \cup {Unset},
         job.price \in {DBCTestCosts, GpuecCosts}
  PROVE  /\ JobCost(c, l) \in Nat
         /\ l \in 0 .. MAX_2 => JobCost(c, l) < job.price.add * Unset
         /\ l = Unset => JobCost(c, l) >= job.price.add * Unset
         /\ job.price.add * Unset \in Nat
<1> USE MaxAssumption, SizeAssumption DEF JobCost, CostAt, Small, Unset
<1>1. CASE job.price = DBCTestCosts
  BY <1>1 DEF DBCTestCosts, ADD_COST, DBL_COST, TPL_COST
<1>2. CASE job.price = GpuecCosts
  BY <1>2 DEF GpuecCosts
<1>3. QED
  BY <1>1, <1>2

(* The first state.                                                        *)
LEMMA InitInv == Init => IndInv
<1> SUFFICES ASSUME Init PROVE IndInv
  OBVIOUS
<1> USE MaxAssumption
<1>1. EmptySlot \in Slot
  BY DEF EmptySlot, Slot, Entry, ZeroEntry
<1>2. TypeOK
  BY <1>1 DEF Init, TypeOK
<1>3. ExponentsSmall
  BY DEF Init, ExponentsSmall, Small, EmptySlot, ZeroEntry
<1>4. pc = "idle" /\ tried = {}
  BY DEF Init
<1>5. QED
  BY <1>2, <1>3, <1>4 DEF IndInv, DescentInv, BoundsAreLast, FirstInSlot0, KeptSlot

(* A call, on any left-over slots, whoever filled them.                    *)
LEMMA CallFrom ==
  ASSUME TypeOK, ExponentsSmall, NEW newJob \in Jobs, Call(newJob)
  PROVE  IndInv'
<1>1. /\ pc' = "bounds" /\ job' = newJob /\ DBC_index' = 0 /\ z' = 1 /\ count_DBC' = 0
      /\ DBC_len' = [DBC_len EXCEPT ![1] = Unset] /\ tried' = {}
      /\ UNCHANGED <<DBC_store, chainVars>>
  BY DEF Call, CallWith
<1>2. TypeOK'
  BY <1>1, JobsAssumption DEF TypeOK, chainVars
<1>3. ExponentsSmall'
  BY <1>1 DEF ExponentsSmall, chainVars
<1>4. DBC_len'[1] = Unset
  BY <1>1 DEF TypeOK
<1>5. DescentInv' /\ BoundsAreLast' /\ FirstInSlot0' /\ KeptSlot'
  BY <1>1, <1>4 DEF DescentInv, BoundsAreLast, FirstInSlot0, KeptSlot
<1>6. QED
  BY <1>2, <1>3, <1>5 DEF IndInv

(* In particular on the slots of the call before.                          *)
LEMMA CallInv ==
  ASSUME IndInv, NEW newJob \in Jobs, Call(newJob)
  PROVE  IndInv'
  BY CallFrom DEF IndInv

(* The loop over b_try leaves chains, store and costs alone.               *)
LEMMA LoopInv ==
  ASSUME IndInv, Return \/ Skip
  PROVE  IndInv'
<1>1. /\ pc = "bounds" /\ pc' \in {"bounds", "done"} /\ z' \in {z, z + 1}
      /\ UNCHANGED <<job, DBC_store, DBC_len, DBC_index, count_DBC, chainVars, tried>>
  BY DEF Return, Skip, SkipTo
<1>2. TypeOK'
  BY <1>1 DEF IndInv, TypeOK, chainVars
<1>3. ExponentsSmall'
  BY <1>1 DEF IndInv, ExponentsSmall, chainVars
<1>4. DescentInv' /\ BoundsAreLast' /\ FirstInSlot0'
  BY <1>1 DEF IndInv, DescentInv, BoundsAreLast, FirstInSlot0
<1>5. KeptSlot'
  BY <1>1 DEF IndInv, KeptSlot, min_index, n, JobCost
<1>6. QED
  BY <1>2, <1>3, <1>4, <1>5 DEF IndInv

(* The first bounds of a descent.                                          *)
LEMMA StartInv ==
  ASSUME IndInv, Start
  PROVE  IndInv'
<1> USE MaxAssumption
<1>1. /\ pc = "bounds" /\ ~ LoopDone /\ pc' = "greedy"
      /\ a' = RBound(b) /\ b_temp' = b /\ t' = n /\ s' = 1 /\ i' = 0
      /\ UNCHANGED <<job, DBC_store, DBC_len, DBC_index, z, count_DBC, tried>>
  BY DEF Start, StartWith
<1>2. job \in Jobs /\ n \in Nat /\ b \in 0 .. MAX_2
  <2>1. job \in Jobs \cup {NoJob} /\ z \in Nat \ {0} /\ z <= Len(job.b_try)
    BY <1>1 DEF IndInv, TypeOK, LoopDone
  <2>2. Len(NoJob.b_try) = 0
    BY DEF NoJob
  <2>3. job \in Jobs
    BY <2>1, <2>2
  <2>4. job.b_try \in Seq(0 .. MAX_2) /\ job.n \in Nat
    BY <2>3, JobsAssumption
  <2>5. QED
    BY <2>1, <2>3, <2>4 DEF n, b
<1>3. Small(RBound(b))
  BY CountUpTo DEF RBound, Small
<1>4. TypeOK'
  BY <1>1, <1>2, <1>3 DEF IndInv, TypeOK, Small
<1>5. ExponentsSmall'
  BY <1>1, <1>2, <1>3 DEF IndInv, ExponentsSmall, Small
<1>6. DescentInv'
  <2> DEFINE c == DBC_store[DBC_index]
  <2>1. c \in Slot /\ n' = n
    BY <1>1 DEF IndInv, TypeOK, n
  <2>2. Value(c, 0) = 0
    BY <2>1, RunningSumsFacts, MaxAssumption DEF Sums, Slot, Value
  <2>3. Value(c, 0) + 1 * n = n
    BY <1>2, <2>2
  <2>4. IsChain(c, 0) /\ LeadsPositive(c, 0)
    BY DEF IsChain, LeadsPositive
  <2> HIDE DEF c
  <2>5. DBC_store'[DBC_index'] = c
    BY <1>1 DEF c
  <2>6. QED
    BY <1>1, <2>1, <2>3, <2>4, <2>5 DEF DescentInv
<1>7. BoundsAreLast'
  BY <1>1 DEF BoundsAreLast
<1>8. FirstInSlot0' /\ KeptSlot'
  BY <1>1 DEF IndInv, FirstInSlot0, KeptSlot, min_index, n, JobCost
<1>9. QED
  BY <1>4, <1>5, <1>6, <1>7, <1>8 DEF IndInv

(* Taking a term within the bounds keeps the chain a chain and moves the   *)
(* value of the term from the signed remainder into the sum.               *)
LEMMA StepInv ==
  ASSUME IndInv, Step
  PROVE  IndInv'
<1> USE MaxAssumption
<1>1. PICK chosen : chosen = NearestOf(Candidates) /\ TakeTerm(chosen, -s)
  BY DEF Step, StepWith
<1> DEFINE x == DBC_index
           c == DBC_store[x]
           p == Pow23(chosen.alpha, chosen.beta)
           e == [sign |-> s, dbl |-> chosen.alpha, tpl |-> chosen.beta]
           d == [c EXCEPT ![i] = e]
<1>2. /\ pc = "greedy" /\ i \in 0 .. MAX_2 - 1 /\ x \in 0 .. 1 /\ c \in Slot
      /\ a \in Nat /\ b_temp \in Nat /\ t \in Nat /\ s \in {-1, 1} /\ n \in Nat
      /\ job.window \in Nat
  BY JobsAssumption DEF Step, StepWith, IndInv, TypeOK, n, NoJob
<1>3. chosen.alpha \in 0 .. a /\ chosen.beta \in 0 .. b_temp
  BY <1>1, <1>2, NearestInBounds
<1>4. /\ DBC_store' = [DBC_store EXCEPT ![x] = d]
      /\ s' = (IF t >= p THEN s ELSE -s)
      /\ t' = (IF t >= p THEN t - p ELSE p - t)
      /\ i' = i + 1 /\ a' = chosen.alpha /\ b_temp' = chosen.beta
      /\ UNCHANGED <<pc, job, DBC_len, DBC_index, z, count_DBC, tried>>
  BY <1>1 DEF TakeTerm, Remainder
<1>5. p \in Nat /\ e \in Entry
  <2>1. chosen.alpha \in Nat /\ chosen.beta \in Nat
    BY <1>2, <1>3
  <2>2. QED
    BY <1>2, <2>1, PowerType DEF Entry
<1>6. /\ d \in Slot /\ d[i] = e /\ \A k \in 0 .. MAX_2 - 1 : k # i => d[k] = c[k]
      /\ Value(d, i + 1) = Value(c, i) + TermValue(e)
      /\ Value(c, i) \in Int
  <2>1. d[i] = e /\ \A k \in 0 .. MAX_2 - 1 : k # i => d[k] = c[k]
    BY <1>2 DEF Slot
  <2>2. c \in Slot /\ e \in Entry /\ i \in 0 .. MAX_2 - 1
    BY <1>2, <1>5
  <2> HIDE DEF c, e
  <2>3. /\ d \in Slot
        /\ Value(d, i + 1) = Value(c, i) + TermValue(e)
        /\ Value(c, i) \in Int
    BY <2>2, AppendEntry
  <2>4. QED
    BY <2>1, <2>3
<1>7. TermValue(e) = s * p
  BY DEF TermValue
<1>8. e.dbl = chosen.alpha /\ e.tpl = chosen.beta /\ e.sign = s
  OBVIOUS
<1> HIDE DEF c, p, e, d, x
<1>9. DBC_store' \in [0 .. 1 -> Slot] /\ DBC_store'[x] = d
      /\ DBC_store'[1 - x] = DBC_store[1 - x] /\ DBC_index' = x
  BY <1>2, <1>4, <1>6 DEF IndInv, TypeOK, x
<1>10. TypeOK'
  <2>1. t' \in Nat /\ s' \in {-1, 1}
    BY <1>2, <1>4, <1>5
  <2>2. i' \in 0 .. MAX_2 /\ a' \in Nat /\ b_temp' \in Nat
    BY <1>2, <1>3, <1>4
  <2>3. QED
    BY <1>4, <1>9, <2>1, <2>2 DEF IndInv, TypeOK
<1>11. ExponentsSmall'
  <2>1. Small(a) /\ Small(b_temp) /\ \A y \in 0 .. 1, k \in 0 .. MAX_2 - 1 :
          Small(DBC_store[y][k].dbl) /\ Small(DBC_store[y][k].tpl)
    BY DEF IndInv, ExponentsSmall
  <2>2. Small(chosen.alpha) /\ Small(chosen.beta)
    BY <1>2, <1>3, <2>1 DEF Small
  <2>3. ASSUME NEW k \in 0 .. MAX_2 - 1 PROVE Small(d[k].dbl) /\ Small(d[k].tpl)
    <3>1. CASE k = i
      BY <1>6, <1>8, <2>2, <3>1
    <3>2. CASE k # i
      BY <1>2, <1>6, <2>1, <3>2 DEF c
    <3>3. QED
      BY <3>1, <3>2
  <2>4. ASSUME NEW y \in 0 .. 1, NEW k \in 0 .. MAX_2 - 1
        PROVE  Small(DBC_store'[y][k].dbl) /\ Small(DBC_store'[y][k].tpl)
    <3>1. CASE y = x
      BY <1>9, <2>3, <3>1
    <3>2. CASE y = 1 - x
      BY <1>9, <2>1, <3>2
    <3>3. QED
      BY <1>2, <3>1, <3>2
  <2>5. QED
    BY <1>4, <2>2, <2>4 DEF ExponentsSmall
<1>12. IsChain(c, i) /\ LeadsPositive(c, i) /\ Value(c, i) + s * t = n
  BY <1>2 DEF IndInv, DescentInv, c, x
<1>13. i > 0 => a = c[i - 1].dbl /\ b_temp = c[i - 1].tpl
  BY <1>2 DEF IndInv, BoundsAreLast, c, x
<1>14. IsChain(d, i + 1)
  <2>1. ASSUME NEW k \in 0 .. (i + 1) - 1 PROVE d[k].sign \in {-1, 1}
    <3>1. CASE k = i
      BY <1>2, <1>6, <1>8, <3>1
    <3>2. CASE k # i
      <4>1. k \in 0 .. i - 1 /\ k \in 0 .. MAX_2 - 1
        BY <1>2, <3>2
      <4>2. QED
        BY <1>6, <1>12, <3>2, <4>1 DEF IsChain
    <3>3. QED
      BY <3>1, <3>2
  <2>2. ASSUME NEW k \in 1 .. (i + 1) - 1
        PROVE  d[k].dbl <= d[k - 1].dbl /\ d[k].tpl <= d[k - 1].tpl
    <3>0. k - 1 \in 0 .. MAX_2 - 1 /\ k - 1 # i /\ k \in 0 .. MAX_2 - 1
      BY <1>2
    <3>1. CASE k = i
      BY <1>2, <1>3, <1>6, <1>8, <1>13, <3>0, <3>1
    <3>2. CASE k # i
      <4>1. k \in 1 .. i - 1
        BY <1>2, <3>2
      <4>2. QED
        BY <1>6, <1>12, <3>0, <3>2, <4>1 DEF IsChain
    <3>3. QED
      BY <3>1, <3>2
  <2>3. QED
    BY <2>1, <2>2 DEF IsChain
<1>15. LeadsPositive(d, i + 1)
  <2>1. CASE i = 0
    BY <1>2, <1>6, <1>8, <2>1 DEF IndInv, BoundsAreLast, LeadsPositive
  <2>2. CASE i # 0
    BY <1>2, <1>6, <1>12, <2>2 DEF LeadsPositive
  <2>3. QED
    BY <2>1, <2>2
<1>16. Value(d, i + 1) + s' * t' = n
  <2>1. CASE s = 1
    BY <1>2, <1>4, <1>5, <1>6, <1>7, <1>12, <2>1
  <2>2. CASE s = -1
    BY <1>2, <1>4, <1>5, <1>6, <1>7, <1>12, <2>2
  <2>3. QED
    BY <1>2, <2>1, <2>2
<1>17. DescentInv'
  <2>1. n' = n
    BY <1>4 DEF n
  <2>2. QED
    BY <1>4, <1>9, <1>14, <1>15, <1>16, <2>1 DEF DescentInv
<1>18. BoundsAreLast'
  <2>1. i' # 0 /\ i' - 1 = i
    BY <1>2, <1>4
  <2>2. QED
    BY <1>4, <1>6, <1>8, <1>9, <2>1 DEF BoundsAreLast
<1>19. FirstInSlot0'
  BY <1>2, <1>4 DEF IndInv, FirstInSlot0
<1>20. KeptSlot'
  <2>1. min_index' = 1 - x /\ min_index = 1 - x
    BY <1>9 DEF min_index, x
  <2>2. DBC_store'[min_index'] = DBC_store[min_index] /\ n' = n
    BY <1>4, <1>9, <2>1 DEF n
  <2>3. QED
    BY <1>2, <1>4, <2>1, <2>2 DEF IndInv, KeptSlot, JobCost
<1>21. QED
  BY <1>10, <1>11, <1>17, <1>18, <1>19, <1>20 DEF IndInv

(* The comparison overwrites the dearer slot next, so the other one holds  *)
(* the cheapest chain; the first one wins against the length Unset.        *)
LEMMA CompareInv ==
  ASSUME IndInv, Compare
  PROVE  IndInv'
<1> USE MaxAssumption
<1> DEFINE x == DBC_index
           c == DBC_store[x]
           y == 1 - x
           o == DBC_store[y]
           new == JobCost(c, i)
           old == JobCost(o, DBC_len[y])
           top == job.price.add * Unset
<1>1. /\ pc = "greedy" /\ t = 0 /\ x \in 0 .. 1 /\ y \in 0 .. 1 /\ x # y
      /\ c \in Slot /\ o \in Slot /\ i \in 0 .. MAX_2 /\ s \in {-1, 1}
      /\ DBC_len[y] \in (0 .. MAX_2) \cup {Unset}
  BY DEF Compare, CompareBy, IndInv, TypeOK
<1>2. /\ DBC_len' = [DBC_len EXCEPT ![x] = i]
      /\ DBC_index' = Overwrite(SlotCost(0) < SlotCost(1))
      /\ tried' = tried \cup {new}
      /\ count_DBC' = count_DBC + 1
      /\ pc' \in {"bounds", "done"} /\ z' \in {z, z + 1}
      /\ UNCHANGED <<job, DBC_store, chainVars>>
  BY DEF Compare, CompareBy
<1>3. DBC_len'[x] = i /\ DBC_len'[y] = DBC_len[y]
  BY <1>1, <1>2 DEF IndInv, TypeOK
<1>4. SlotCost(x) = new /\ SlotCost(y) = old
  BY <1>3 DEF SlotCost
<1>5. /\ new \in Nat /\ new < top
      /\ old \in Nat /\ top \in Nat
      /\ DBC_len[y] = Unset => old >= top
  <2>1. Small(c[0].dbl) /\ Small(c[0].tpl) /\ Small(o[0].dbl) /\ Small(o[0].tpl)
    BY <1>1 DEF IndInv, ExponentsSmall
  <2>2. job.price \in {DBCTestCosts, GpuecCosts}
    BY JobsAssumption DEF IndInv, TypeOK, NoJob
  <2> HIDE DEF c, o
  <2>3. QED
    BY <1>1, <2>1, <2>2, CostRange
<1>6. IsChain(c, i) /\ LeadsPositive(c, i) /\ Value(c, i) = n
  <2>1. IsChain(c, i) /\ LeadsPositive(c, i) /\ Value(c, i) + s * 0 = n
    BY <1>1 DEF IndInv, DescentInv
  <2>2. Value(c, i) \in Int
    BY <1>1, RunningSumsFacts, MaxAssumption DEF Sums, Slot, Value
  <2>3. s * 0 = 0
    BY <1>1
  <2>4. QED
    BY <2>1, <2>2, <2>3
<1>7. tried # {} => /\ DBC_len[y] \in 0 .. MAX_2
                    /\ IsChain(o, DBC_len[y]) /\ LeadsPositive(o, DBC_len[y])
                    /\ Value(o, DBC_len[y]) = n
                    /\ old \in tried /\ \A cost \in tried : old <= cost
  BY <1>1 DEF IndInv, KeptSlot, min_index
<1>8. tried = {} => x = 0 /\ DBC_len[y] = Unset
  BY <1>1 DEF IndInv, FirstInSlot0
<1>9. tried \subseteq Nat
  BY DEF IndInv, TypeOK
<1> HIDE DEF c, o, new, old, top
<1>10. TypeOK'
  <2>1. DBC_index' \in 0 .. 1
    BY <1>2 DEF Overwrite
  <2>2. DBC_len' \in [0 .. 1 -> (0 .. MAX_2) \cup {Unset}]
    BY <1>1, <1>2 DEF IndInv, TypeOK
  <2>3. tried' \subseteq Nat
    BY <1>2, <1>5, <1>9
  <2>4. QED
    BY <1>2, <2>1, <2>2, <2>3 DEF IndInv, TypeOK, chainVars
<1>11. ExponentsSmall'
  BY <1>2 DEF IndInv, ExponentsSmall, chainVars
<1>12. DescentInv' /\ BoundsAreLast' /\ FirstInSlot0'
  BY <1>2 DEF DescentInv, BoundsAreLast, FirstInSlot0
<1>13. min_index' \in {x, y} /\ n' = n
  <2>1. x \in {0, 1} /\ y = 1 - x
    BY <1>1
  <2>2. QED
    BY <1>2, <2>1 DEF min_index, Overwrite, n
<1>14. /\ min_index' = x => new <= old
       /\ min_index' = y => old <= new
  <2>1. CASE x = 0
    <3>1. y = 1
      BY <2>1
    <3>2. DBC_index' = IF new < old THEN 1 ELSE 0
      BY <1>2, <1>4, <2>1, <3>1 DEF Overwrite
    <3>3. QED
      BY <1>5, <2>1, <3>1, <3>2 DEF min_index
  <2>2. CASE x = 1
    <3>1. y = 0
      BY <2>2
    <3>2. DBC_index' = IF old < new THEN 1 ELSE 0
      BY <1>2, <1>4, <2>2, <3>1 DEF Overwrite
    <3>3. QED
      BY <1>5, <2>2, <3>1, <3>2 DEF min_index
  <2>3. QED
    BY <1>1, <2>1, <2>2
<1>15. CASE min_index' = x
  <2>1. DBC_store'[min_index'] = c /\ DBC_len'[min_index'] = i
    BY <1>2, <1>3, <1>15 DEF c
  <2>2. new \in tried' /\ \A cost \in tried' : new <= cost
    <3>1. \A cost \in tried : new <= cost
      BY <1>5, <1>7, <1>9, <1>14, <1>15
    <3>2. QED
      BY <1>2, <1>5, <3>1
  <2>3. KeptSlot'
    BY <1>1, <1>2, <1>6, <1>13, <2>1, <2>2 DEF KeptSlot, JobCost, new
  <2>4. QED
    BY <1>10, <1>11, <1>12, <2>3 DEF IndInv
<1>16. CASE min_index' = y /\ min_index' # x
  <2>1. DBC_store'[min_index'] = o /\ DBC_len'[min_index'] = DBC_len[y]
    BY <1>2, <1>3, <1>16 DEF o
  <2>2. tried # {}
    BY <1>5, <1>8, <1>14, <1>16 DEF Unset
  <2>3. old \in tried' /\ \A cost \in tried' : old <= cost
    <3>1. old <= new
      BY <1>14, <1>16
    <3>2. QED
      BY <1>2, <1>7, <2>2, <3>1
  <2>4. KeptSlot'
    BY <1>2, <1>7, <1>13, <2>1, <2>2, <2>3 DEF KeptSlot, JobCost, old
  <2>5. QED
    BY <1>10, <1>11, <1>12, <2>4 DEF IndInv
<1>17. QED
  BY <1>13, <1>15, <1>16

(* Every step keeps the inductive invariant.                               *)
LEMMA NextInv == IndInv /\ [Next]_vars => IndInv'
<1> SUFFICES ASSUME IndInv, [Next]_vars PROVE IndInv'
  OBVIOUS
<1>1. CASE \E newJob \in Jobs : Call(newJob)
  BY <1>1, CallInv
<1>2. CASE Return \/ Skip
  BY <1>2, LoopInv
<1>3. CASE Start
  BY <1>3, StartInv
<1>4. CASE Step
  BY <1>4, StepInv
<1>5. CASE Compare
  BY <1>5, CompareInv
<1>6. CASE UNCHANGED vars
  BY <1>6 DEF vars, chainVars, IndInv, TypeOK, ExponentsSmall, DescentInv, BoundsAreLast,
              FirstInSlot0, KeptSlot, min_index, n, JobCost
<1>7. QED
  BY <1>1, <1>2, <1>3, <1>4, <1>5, <1>6 DEF Next

(* The inductive invariant holds in every behaviour of the two functions.  *)
THEOREM Inductive == Spec => []IndInv
  BY InitInv, NextInv, PTL DEF Spec

(* Type correctness: in particular i never leaves 0 .. MAX_2.              *)
THEOREM TypeCorrect == Spec => []TypeOK
<1>1. IndInv => TypeOK
  BY DEF IndInv
<1>2. QED
  BY <1>1, Inductive, PTL

(* The stored terms and the signed remainder always add up to n.           *)
THEOREM DescentCorrect == Spec => []DescentInv
<1>1. IndInv => DescentInv
  BY DEF IndInv
<1>2. QED
  BY <1>1, Inductive, PTL

(* The slot not in work holds a chain of exactly n.                        *)
THEOREM ReturnsChainOfN == Spec => []KeptIsChainOfN
<1>1. IndInv => KeptIsChainOfN
  BY DEF IndInv, KeptSlot, KeptIsChainOfN
<1>2. QED
  BY <1>1, Inductive, PTL

(* No chain of the call was cheaper than the one it keeps.                 *)
THEOREM ReturnsCheapest == Spec => []KeptCheapest
<1>1. IndInv => KeptCheapest
  BY DEF IndInv, KeptSlot, KeptCheapest
<1>2. QED
  BY <1>1, Inductive, PTL

-----------------------------------------------------------------------------
(***************************************************************************)
(* Proofs about how far the descent of GreedyChain can go: a chain has at  *)
(* most a + b + 1 terms, and no prefix of it is 0 or negative.  Both rest  *)
(* on what the choice of the nearest power leaves as remainder             *)
(* (NearestPower).  They hold for every n, list and store size, and for    *)
(* windows of width 2 and more.                                            *)
(***************************************************************************)

(* Below(j) is the largest exponent, if there is one, of a power up to t.  *)
LEMMA BelowIsLargest ==
  ASSUME a \in Nat, t \in Nat, NEW j \in Nat, Pow3[j] <= t
  PROVE  /\ Below(j) \in 0 .. a
         /\ Pow23(Below(j), j) <= t
         /\ Below(j) < a => t < Pow23(Below(j) + 1, j)
<1> DEFINE S == {k \in 1 .. a : Pow23(k, j) <= t}
           B == Cardinality(S)
<1>1. ASSUME NEW u \in S, NEW v \in 1 .. a, v <= u PROVE v \in S
  <2>0. u \in 1 .. a
    OBVIOUS
  <2>1. u \in Nat /\ v \in 0 .. u /\ v \in Nat
    BY <1>1, <2>0
  <2>2. Pow23(v, j) <= Pow23(u, j)
    BY <2>1, PowerBounds
  <2>3. Pow23(v, j) \in Nat /\ Pow23(u, j) \in Nat
    BY <2>1, PowerSteps
  <2>4. QED
    BY <2>2, <2>3
<1>2. B \in 0 .. a /\ S = 1 .. B
  <2>1. S \in SUBSET (1 .. a)
    OBVIOUS
  <2> HIDE DEF S
  <2>2. QED
    BY <1>1, <2>1, CountDownClosed
<1>3. B > 0 => B \in S
  BY <1>2
<1>4. B < a => B + 1 \in 1 .. a /\ B + 1 \notin S
  BY <1>2
<1> HIDE DEF B
<1>5. Pow23(B, j) <= t
  <2>1. CASE B = 0
    BY <2>1, PowerSteps
  <2>2. CASE B # 0
    BY <1>2, <1>3, <2>2
  <2>3. QED
    BY <2>1, <2>2
<1>6. B < a => t < Pow23(B + 1, j)
  <2>1. B + 1 \in Nat
    BY <1>2
  <2>2. Pow23(B + 1, j) \in Nat
    BY <2>1, PowerSteps
  <2>3. QED
    BY <1>4, <2>2
<1>7. Below(j) = B
  BY DEF Below, B
<1>8. QED
  BY <1>2, <1>5, <1>6, <1>7

(* alpha_j is the exponent of 2 of a nearest power with 3^j: no other up   *)
(* to a is nearer.                                                         *)
LEMMA AlphaNearest ==
  ASSUME a \in Nat, t \in Nat, NEW j \in Nat, NEW d \in 0 .. a
  PROVE  Gap(Alpha(j), j) <= Gap(d, j)
<1>0. d \in Nat /\ Alpha(j) \in 0 .. a /\ Alpha(j) \in Nat
  BY AlphaInBounds
<1>1. /\ Pow23(d, j) \in Nat /\ Pow23(Alpha(j), j) \in Nat
      /\ Pow3[j] \in Nat /\ Pow23(0, j) = Pow3[j] /\ Pow23(a, j) \in Nat
  BY <1>0, PowerSteps, Pow3Facts
<1>2. CASE Pow3[j] >= t
  <2>1. Alpha(j) = 0
    BY <1>2 DEF Alpha, AlphaWithin
  <2>2. 0 \in 0 .. d
    BY <1>0
  <2>3. Pow23(0, j) <= Pow23(d, j)
    BY <1>0, <2>2, PowerBounds
  <2>4. QED
    BY <1>1, <1>2, <2>1, <2>3 DEF Gap
<1>3. CASE ~ (Pow3[j] >= t)
  <2> DEFINE B == Below(j)
  <2>1. Pow3[j] <= t
    BY <1>1, <1>3
  <2>2. /\ B \in 0 .. a /\ B \in Nat /\ B + 1 \in Nat
        /\ Pow23(B, j) <= t
        /\ B < a => t < Pow23(B + 1, j)
    BY <2>1, BelowIsLargest
  <2>3. Alpha(j) = IF B >= a THEN a
                   ELSE IF Gap(B, j) <= Gap(B + 1, j) THEN B ELSE B + 1
    BY <1>3 DEF Alpha, AlphaWithin
  <2> HIDE DEF B
  <2>4. Pow23(B, j) \in Nat /\ Pow23(B + 1, j) \in Nat
    BY <2>2, PowerSteps
  <2>5. CASE B >= a
    <3>1. B = a /\ Alpha(j) = a
      BY <2>2, <2>3, <2>5
    <3>2. Pow23(d, j) <= Pow23(a, j)
      BY PowerBounds
    <3>3. QED
      BY <1>1, <2>2, <3>1, <3>2 DEF Gap
  <2>6. CASE B < a
    <3>1. t < Pow23(B + 1, j)
      BY <2>2, <2>6
    <3>2. Gap(Alpha(j), j) <= Gap(B, j) /\ Gap(Alpha(j), j) <= Gap(B + 1, j)
      <4>1. Gap(B, j) \in Nat /\ Gap(B + 1, j) \in Nat
        BY <2>2, GapType
      <4>2. QED
        BY <2>2, <2>3, <2>6, <4>1
    <3>3. CASE d <= B
      <4>1. d \in 0 .. B
        BY <3>3, <1>0, <2>2
      <4>2. Pow23(d, j) <= Pow23(B, j)
        BY <2>2, <4>1, PowerBounds
      <4>3. Gap(B, j) <= Gap(d, j)
        BY <1>1, <2>2, <2>4, <4>2 DEF Gap
      <4>4. Gap(B, j) \in Nat /\ Gap(d, j) \in Nat /\ Gap(Alpha(j), j) \in Nat
        BY <1>0, <2>2, GapType
      <4>5. QED
        BY <3>2, <4>3, <4>4
    <3>4. CASE d > B
      <4>1. B + 1 \in 0 .. d
        BY <3>4, <1>0, <2>2
      <4>2. Pow23(B + 1, j) <= Pow23(d, j)
        BY <1>0, <4>1, PowerBounds
      <4>3. Gap(B + 1, j) <= Gap(d, j)
        BY <1>1, <2>4, <3>1, <4>2 DEF Gap
      <4>4. Gap(B + 1, j) \in Nat /\ Gap(d, j) \in Nat /\ Gap(Alpha(j), j) \in Nat
        BY <1>0, <2>2, GapType
      <4>5. QED
        BY <3>2, <4>3, <4>4
    <3>5. QED
      BY <1>0, <2>2, <3>3, <3>4
  <2>7. QED
    BY <2>2, <2>5, <2>6
<1>4. QED
  BY <1>2, <1>3

(* The chosen power is nearest of all that the window and a allow.         *)
LEMMA ChosenNearest ==
  ASSUME a \in Nat, b_temp \in Nat, t \in Nat, job.window \in Nat
  PROVE  LET c == NearestOf(Candidates)
         IN  /\ c.alpha \in 0 .. a /\ c.beta \in Window
             /\ \A d \in 0 .. a, j \in Window : Gap(c.alpha, c.beta) <= Gap(d, j)
<1> DEFINE c == NearestOf(Candidates)
<1>1. c \in Candidates /\ \A q \in Candidates : Precedes(c, q)
  BY NearestIsNearest
<1>2. c.alpha \in 0 .. a /\ c.beta \in 0 .. b_temp
  BY NearestInBounds
<1> HIDE DEF c
<1>3. PICK j0 \in Window : c = Power(Alpha(j0), j0)
  BY <1>1 DEF Candidates
<1>4. c.beta = j0 /\ c.alpha = Alpha(j0) /\ c.gap = Gap(c.alpha, c.beta)
  BY <1>3 DEF Power
<1>5. ASSUME NEW d \in 0 .. a, NEW j \in Window
      PROVE  Gap(c.alpha, c.beta) <= Gap(d, j)
  <2>1. j \in Nat
    BY DEF Window, WindowUpTo
  <2> DEFINE q == Power(Alpha(j), j)
  <2>2. q \in Candidates /\ q.gap = Gap(Alpha(j), j)
    BY DEF Candidates, Power
  <2>3. c.gap <= q.gap
    <3>1. Precedes(c, q)
      BY <1>1, <2>2
    <3>2. c.gap \in Nat /\ q.gap \in Nat
      BY <1>1, <2>2, CandidatesInBounds
    <3>3. QED
      BY <3>1, <3>2 DEF Precedes
  <2>4. Gap(Alpha(j), j) <= Gap(d, j)
    BY <2>1, AlphaNearest
  <2>5. Alpha(j) \in Nat /\ d \in Nat
    BY <2>1, AlphaInBounds
  <2>6. Gap(Alpha(j), j) \in Nat /\ Gap(d, j) \in Nat /\ c.gap \in Nat
    BY <1>1, <2>1, <2>5, GapType, CandidatesInBounds
  <2> HIDE DEF q
  <2>7. QED
    BY <1>4, <2>2, <2>3, <2>4, <2>6
<1>6. QED
  BY <1>2, <1>3, <1>4, <1>5 DEF c

-----------------------------------------------------------------------------
(* What one step leaves: the exponents fall by d altogether, and the       *)
(* remainder is at most the power taken, and at most half of it unless     *)
(* the exponents fall by two, or by one from a high remainder.  They do    *)
(* not fall at all only from a high remainder, which then is high no more. *)
LEMMA NearestPower ==
  ASSUME a \in Nat, b_temp \in Nat, t \in Nat, t > 0,
         job.window \in Nat, job.window >= 2,
         2 * t <= 3 * Reach
  PROVE  LET c == NearestOf(Candidates)
             p == Pow23(c.alpha, c.beta)
             r == Remainder(p)
             d == (a + b_temp) - (c.alpha + c.beta)
         IN  /\ p \in Nat \ {0} /\ r \in Nat /\ r <= p
             /\ d \in Nat /\ p <= Reach /\ (d > 0 => 2 * p <= Reach)
             /\ 2 * r > p => d >= 2 \/ (d >= 1 /\ 2 * t > Reach)
             /\ d = 0 => 2 * t > Reach /\ c.alpha = a /\ c.beta = b_temp
<1> DEFINE c == NearestOf(Candidates)
           x == c.alpha
           y == c.beta
           p == Pow23(x, y)
           r == Remainder(p)
           d == (a + b_temp) - (x + y)
<1>1. /\ x \in 0 .. a /\ y \in Window
      /\ \A k \in 0 .. a, j \in Window : Gap(x, y) <= Gap(k, j)
  BY ChosenNearest
<1> HIDE DEF c
<1> HIDE DEF x, y
<1>2. /\ \A j \in Nat : j \in Window <=> j <= b_temp /\ (b_temp > job.window => j >= b_temp - job.window)
      /\ y \in 0 .. b_temp /\ b_temp \in Window
  BY <1>1 DEF Window, WindowUpTo
<1>3. x \in Nat /\ y \in Nat
  BY <1>1, <1>2
<1>4. p \in Nat \ {0} /\ r = Gap(x, y) /\ r = (IF t >= p THEN t - p ELSE p - t)
  BY <1>3, PowerSteps DEF Remainder, Gap
<1>5. /\ Reach \in Nat \ {0} /\ p <= Reach
      /\ (x # a \/ y # b_temp) => 2 * p <= Reach
  BY <1>1, <1>2, PowerBounds, PowerSteps DEF Reach
<1>6. d \in Nat /\ (d = 0 <=> x = a /\ y = b_temp)
  BY <1>1, <1>2, <1>3
<1>7. ASSUME NEW k \in 0 .. a, NEW j \in Window
      PROVE  LET q == Pow23(k, j) IN r <= IF t >= q THEN t - q ELSE q - t
  <2>1. Gap(x, y) <= Gap(k, j)
    BY <1>1
  <2>2. QED
    BY <1>4, <2>1 DEF Gap
<1>8. x > 0 => /\ x - 1 \in 0 .. a
               /\ p = 2 * Pow23(x - 1, y) /\ Pow23(x - 1, y) \in Nat
  <2>1. SUFFICES ASSUME x > 0
                 PROVE  /\ x - 1 \in 0 .. a
                        /\ p = 2 * Pow23(x - 1, y) /\ Pow23(x - 1, y) \in Nat
    OBVIOUS
  <2> DEFINE k == x - 1
  <2>2. k \in Nat /\ k \in 0 .. a /\ k + 1 = x
    BY <1>1, <1>3, <2>1
  <2> HIDE DEF k
  <2>3. Pow23(k + 1, y) = 2 * Pow23(k, y) /\ Pow23(k, y) \in Nat
    BY <1>3, <2>2, PowerSteps
  <2>4. QED
    BY <2>2, <2>3 DEF k
<1>9. y > 0 => /\ y - 1 \in Nat
               /\ p = 3 * Pow23(x, y - 1) /\ Pow23(x, y - 1) \in Nat
  <2>1. SUFFICES ASSUME y > 0
                 PROVE  /\ y - 1 \in Nat
                        /\ p = 3 * Pow23(x, y - 1) /\ Pow23(x, y - 1) \in Nat
    OBVIOUS
  <2> DEFINE k == y - 1
  <2>2. k \in Nat /\ k + 1 = y
    BY <1>3, <2>1
  <2> HIDE DEF k
  <2>3. Pow23(x, k + 1) = 3 * Pow23(x, k) /\ Pow23(x, k) \in Nat
    BY <1>3, <2>2, PowerSteps
  <2>4. QED
    BY <2>2, <2>3 DEF k
<1>10. Pow23(x + 1, y) = 2 * p /\ Pow23(x, y + 1) = 3 * p
  BY <1>3, PowerSteps
<1> HIDE DEF p, r
<1>11. CASE 2 * t < p
  <2>1. x = 0
    <3>1. SUFFICES ASSUME x > 0 PROVE FALSE
      BY <1>3
    <3> DEFINE q == Pow23(x - 1, y)
    <3>2. p = 2 * q /\ q \in Nat
      BY <1>8, <3>1
    <3>3. r <= IF t >= q THEN t - q ELSE q - t
      BY <1>1, <1>7, <1>8, <3>1
    <3> HIDE DEF q
    <3>4. QED
      BY <1>4, <1>11, <3>2, <3>3
  <2>2. y > 0
    <3>1. SUFFICES ASSUME y = 0 PROVE FALSE
      BY <1>3
    <3>2. p = 1
      BY <2>1, <3>1, PowerSteps DEF p
    <3>3. QED
      BY <1>11, <3>2
  <2>3. y - 1 \notin Window
    <3>1. SUFFICES ASSUME y - 1 \in Window PROVE FALSE
      OBVIOUS
    <3> DEFINE q == Pow23(x, y - 1)
    <3>2. p = 3 * q /\ q \in Nat
      BY <1>9, <2>2
    <3>3. r <= IF t >= q THEN t - q ELSE q - t
      BY <1>1, <1>7, <3>1
    <3> HIDE DEF q
    <3>4. QED
      BY <1>4, <1>11, <3>2, <3>3
  <2>4. y <= b_temp - job.window
    BY <1>2, <1>3, <1>9, <2>2, <2>3
  <2>5. d >= 2
    BY <1>1, <1>3, <2>4
  <2>6. r <= p
    BY <1>4, <1>11
  <2>7. QED
    BY <1>4, <1>5, <1>6, <2>5, <2>6 DEF r, p, x, y, c
<1>12. CASE 2 * t > 3 * p
  <2>1. x = a
    <3>1. SUFFICES ASSUME x # a PROVE FALSE
      OBVIOUS
    <3>2. x + 1 \in 0 .. a
      BY <1>1, <3>1
    <3> DEFINE q == Pow23(x + 1, y)
    <3>3. r <= IF t >= q THEN t - q ELSE q - t
      BY <1>1, <1>7, <3>2
    <3>4. q = 2 * p
      BY <1>10
    <3> HIDE DEF q
    <3>5. QED
      BY <1>4, <1>12, <3>3, <3>4
  <2>2. y # b_temp /\ d >= 1
    <3>1. y = b_temp => p = Reach
      BY <2>1 DEF p, Reach
    <3>2. y # b_temp
      BY <1>4, <1>5, <1>12, <3>1
    <3>3. QED
      BY <1>6, <3>2
  <2>3. y + 1 \in Window /\ y + 1 \in Nat
    BY <1>1, <1>2, <1>3, <2>2
  <2>4. a = 0
    <3>1. SUFFICES ASSUME a > 0 PROVE FALSE
      OBVIOUS
    <3> DEFINE k == a - 1
    <3>2. k \in 0 .. a /\ k \in Nat /\ k + 1 = a
      BY <3>1
    <3> HIDE DEF k
    <3> DEFINE q == Pow23(k, y + 1)
    <3>3. r <= IF t >= q THEN t - q ELSE q - t
      BY <1>7, <2>3, <3>2
    <3>4. q \in Nat /\ Pow23(k + 1, y + 1) = 2 * q
      BY <2>3, <3>2, PowerSteps
    <3>5. 2 * q = 3 * p
      BY <1>10, <2>1, <3>2, <3>4
    <3> HIDE DEF q
    <3>6. QED
      BY <1>4, <1>12, <3>3, <3>4, <3>5
  <2>5. r <= p
    <3> DEFINE q == Pow23(x, y + 1)
    <3>1. r <= IF t >= q THEN t - q ELSE q - t
      BY <1>1, <1>7, <2>3
    <3>2. q = 3 * p
      BY <1>10
    <3> HIDE DEF q
    <3>3. QED
      BY <1>4, <1>12, <3>1, <3>2
  <2>6. d >= 2 \/ 2 * t > Reach
    <3>1. SUFFICES ASSUME d = 1 PROVE 2 * t > Reach
      BY <1>6, <2>2
    <3>2. y + 1 = b_temp
      BY <1>2, <2>1, <2>2, <3>1
    <3>3. Reach = 3 * p
      BY <1>10, <2>1, <3>2 DEF Reach
    <3>4. QED
      BY <1>12, <3>3
  <2>7. QED
    BY <1>4, <1>5, <1>6, <2>2, <2>5, <2>6 DEF r, p, x, y, c
<1>13. CASE p <= 2 * t /\ 2 * t <= 3 * p
  <2>1. 2 * r <= p /\ r <= p /\ r \in Nat
    BY <1>4, <1>13
  <2>2. d = 0 => 2 * t > Reach
    <3>1. SUFFICES ASSUME d = 0, 2 * t <= Reach PROVE FALSE
      BY <1>5
    <3>2. x = a /\ y = b_temp /\ p = Reach
      BY <1>6, <3>1 DEF p, Reach
    <3>3. p = 2 * t /\ r = t
      BY <1>4, <1>13, <3>1, <3>2
    <3>4. x = 0
      <4>1. SUFFICES ASSUME x > 0 PROVE FALSE
        BY <1>3
      <4> DEFINE q == Pow23(x - 1, y)
      <4>2. p = 2 * q /\ q \in Nat
        BY <1>8, <4>1
      <4>3. r <= IF t >= q THEN t - q ELSE q - t
        BY <1>1, <1>7, <1>8, <4>1
      <4> HIDE DEF q
      <4>4. QED
        BY <3>3, <4>2, <4>3
    <3>5. y > 0
      <4>1. SUFFICES ASSUME y = 0 PROVE FALSE
        BY <1>3
      <4>2. p = 1
        BY <3>4, <4>1, PowerSteps DEF p
      <4>3. QED
        BY <3>3, <4>2
    <3>6. y - 1 \in Window
      BY <1>2, <1>9, <3>2, <3>5
    <3> DEFINE q == Pow23(x, y - 1)
    <3>7. p = 3 * q /\ q \in Nat
      BY <1>9, <3>5
    <3>8. r <= IF t >= q THEN t - q ELSE q - t
      BY <1>1, <1>7, <3>6
    <3> HIDE DEF q
    <3>9. QED
      BY <3>3, <3>7, <3>8
  <2>3. QED
    BY <1>4, <1>5, <1>6, <2>1, <2>2 DEF r, p, x, y, c
<1>14. QED
  BY <1>4, <1>11, <1>12, <1>13

(* The first power is near n: what it leaves is below n.                   *)
LEMMA FirstPower ==
  ASSUME a \in Nat, b_temp \in Nat, t \in Nat, t > 0,
         job.window \in Nat, job.window >= 2,
         Reach < 3 * t, a > 0 => Reach < 2 * t
  PROVE  LET c == NearestOf(Candidates)
             p == Pow23(c.alpha, c.beta)
         IN  Remainder(p) < t /\ p < 2 * t
<1> DEFINE c == NearestOf(Candidates)
           x == c.alpha
           y == c.beta
           p == Pow23(x, y)
           r == Remainder(p)
<1>1. /\ x \in 0 .. a /\ y \in Window
      /\ \A k \in 0 .. a, j \in Window : Gap(x, y) <= Gap(k, j)
  BY ChosenNearest
<1> HIDE DEF c
<1> HIDE DEF x, y
<1>2. b_temp \in Window /\ (b_temp > 0 => b_temp - 1 \in Window) /\ y \in Nat /\ x \in Nat
  BY <1>1 DEF Window, WindowUpTo
<1>3. p \in Nat \ {0} /\ r = Gap(x, y) /\ r = (IF t >= p THEN t - p ELSE p - t)
  BY <1>2, PowerSteps DEF Remainder, Gap
<1>4. Reach \in Nat \ {0}
  BY PowerSteps DEF Reach
<1>5. ASSUME NEW k \in 0 .. a, NEW j \in Window
      PROVE  LET q == Pow23(k, j) IN r <= IF t >= q THEN t - q ELSE q - t
  <2>1. Gap(x, y) <= Gap(k, j)
    BY <1>1
  <2>2. QED
    BY <1>3, <2>1 DEF Gap
<1> HIDE DEF p, r
<1>6. r < t
  <2>1. CASE Reach < 2 * t
    <3>1. r <= IF t >= Reach THEN t - Reach ELSE Reach - t
      BY <1>2, <1>5 DEF Reach
    <3> HIDE DEF Reach
    <3>2. QED
      BY <1>3, <1>4, <2>1, <3>1
  <2>2. CASE ~ (Reach < 2 * t)
    <3>1. a = 0
      BY <2>2
    <3>2. b_temp > 0
      <4>1. b_temp = 0 => Reach = 1
        BY <3>1, PowerSteps DEF Reach
      <4>2. QED
        BY <2>2, <4>1
    <3> DEFINE k == b_temp - 1
    <3>3. k \in Nat /\ k + 1 = b_temp /\ k \in Window
      BY <1>2, <3>2
    <3> HIDE DEF k
    <3> DEFINE q == Pow23(a, k)
    <3>4. r <= IF t >= q THEN t - q ELSE q - t
      BY <1>5, <3>3
    <3>5. q \in Nat \ {0} /\ Reach = 3 * q
      BY <3>3, PowerSteps DEF Reach
    <3> HIDE DEF q, Reach
    <3>6. QED
      BY <1>3, <1>4, <3>4, <3>5
  <2>3. QED
    BY <2>1, <2>2
<1>7. QED
  BY <1>3, <1>6 DEF r, p, x, y, c

-----------------------------------------------------------------------------
(* Squares grow with their roots.                                          *)
LEMMA SquaresGrow ==
  ASSUME NEW p \in Nat, NEW q \in Nat, p <= q
  PROVE  p * p <= q * q
<1> DEFINE e == q - p
<1>1. e \in Nat /\ q = p + e
  OBVIOUS
<1> HIDE DEF e
<1>2. (p + e) * (p + e) = p * p + 2 * (p * e) + e * e /\ p * e \in Nat /\ e * e \in Nat /\ p * p \in Nat
  BY <1>1
<1>3. QED
  BY <1>1, <1>2

(* Where the bounds agree and none is negative, the power they name is     *)
(* near n.                                                                 *)
LEMMA StartNear ==
  ASSUME n \in Nat, b \in Nat, ~ BoundNegative(b), LBound(b) = RBound(b)
  PROVE  LET P == Pow23(RBound(b), b)
         IN  /\ RBound(b) \in Nat /\ P \in Nat
             /\ n > 0
             /\ 2 * n <= 3 * P
             /\ P < 3 * n
             /\ RBound(b) > 0 => P < 2 * n
<1> USE MaxAssumption
<1> DEFINE k == RBound(b)
           P == Pow23(k, b)
           S == {m \in 0 .. MAX_2 : UpToB1(Pow23(m, b))}
           R == {m \in 1 .. MAX_2 : UpToB2(Pow23(m, b))}
           N == n * n
           Q == P * P
<1>1. k = Cardinality(R) /\ k = Cardinality(S)
  BY DEF RBound, LBound
<1>2. ASSUME NEW u \in Nat, NEW v \in 0 .. u
      PROVE  /\ UpToB1(Pow23(u, b)) => UpToB1(Pow23(v, b))
             /\ UpToB2(Pow23(u, b)) => UpToB2(Pow23(v, b))
  <2> DEFINE x == Pow23(v, b)
             y == Pow23(u, b)
  <2> HIDE DEF k, P, S, R, N, Q
  <2>1. v \in Nat /\ v \in 0 .. u /\ b \in Nat /\ b \in 0 .. b
    OBVIOUS
  <2>2. x \in Nat /\ y \in Nat /\ x <= y
    <3>1. x \in Nat
      BY <2>1, PowerSteps
    <3>2. y \in Nat
      BY <2>1, PowerSteps
    <3>3. x <= y
      BY <2>1, PowerBounds
    <3>4. QED
      BY <3>1, <3>2, <3>3
  <2> HIDE DEF x, y
  <2>3. x * x <= y * y /\ x * x \in Nat /\ y * y \in Nat
    BY <2>2, SquaresGrow
  <2>4. 98 * x * x = 98 * (x * x) /\ 98 * y * y = 98 * (y * y)
        /\ 441 * x * x = 441 * (x * x) /\ 441 * y * y = 441 * (y * y)
        /\ 81 * n * n = 81 * (n * n) /\ 512 * n * n = 512 * (n * n) /\ n * n \in Nat
    BY <2>2
  <2>5. UpToB1(y) => UpToB1(x)
    BY <2>2, <2>3, <2>4 DEF UpToB1
  <2>6. UpToB2(y) => UpToB2(x)
    BY <2>2, <2>3, <2>4 DEF UpToB2
  <2>7. QED
    BY <2>5, <2>6 DEF x, y
<1>3. k \in 0 .. MAX_2 /\ R = 1 .. k
  <2>1. R \in SUBSET (1 .. MAX_2)
    OBVIOUS
  <2>2. ASSUME NEW u \in R, NEW v \in 1 .. MAX_2, v <= u PROVE v \in R
    <3>1. u \in 1 .. MAX_2 /\ UpToB2(Pow23(u, b))
      OBVIOUS
    <3>2. u \in Nat /\ v \in 0 .. u
      BY <2>2, <3>1
    <3>3. QED
      BY <1>2, <3>1, <3>2
  <2> HIDE DEF R, k, P, S, N, Q
  <2>3. \A u \in R, v \in 1 .. MAX_2 : v <= u => v \in R
    BY <2>2
  <2>4. Cardinality(R) \in 0 .. MAX_2 /\ R = 1 .. Cardinality(R)
    <3>1. MAX_2 \in Nat
      OBVIOUS
    <3>2. QED
      BY <2>1, <2>3, <3>1, CountDownClosed
  <2>5. QED
    BY <1>1, <2>4
<1>4. ~ UpToB1(P)
  <2>1. SUFFICES ASSUME UpToB1(P) PROVE FALSE
    OBVIOUS
  <2>2. ASSUME NEW v \in 0 .. k PROVE v \in S
    BY <1>2, <1>3, <2>1
  <2>3. IsFiniteSet(S)
    <3>1. IsFiniteSet(0 .. MAX_2) /\ S \subseteq 0 .. MAX_2
      BY FS_Interval
    <3> HIDE DEF S
    <3>2. QED
      BY <3>1, FS_Subset
  <2> HIDE DEF S, k, R
  <2>4. Cardinality(0 .. k) = k + 1
    BY <1>3, FS_Interval
  <2>5. Cardinality(0 .. k) <= Cardinality(S)
    BY <2>2, <2>3, FS_Subset
  <2>6. QED
    BY <1>1, <1>3, <2>4, <2>5
<1>5. k > 0 => UpToB2(P)
  <2>1. k > 0 => k \in R
    BY <1>3
  <2>2. QED
    BY <2>1
<1>6. P \in Nat \ {0} /\ (k = 0 => P = Pow3[b]) /\ k \in Nat
  <2>1. k \in Nat
    BY <1>3
  <2> HIDE DEF k
  <2>2. QED
    BY <2>1, PowerSteps
<1> HIDE DEF k
<1> HIDE DEF P
<1>7. /\ 98 * P * P = 98 * Q /\ 441 * P * P = 441 * Q
      /\ 81 * n * n = 81 * N /\ 512 * n * n = 512 * N
      /\ 1296 * n * n = 1296 * N /\ 2048 * n * n = 2048 * N
      /\ N \in Nat /\ Q \in Nat /\ (n > 0 => N > 0)
      /\ (3 * P) * (3 * P) = 9 * Q /\ (2 * n) * (2 * n) = 4 * N /\ (3 * n) * (3 * n) = 9 * N
  BY <1>6
<1>8. n > 0
  <2>1. SUFFICES ASSUME n = 0 PROVE FALSE
    OBVIOUS
  <2> DEFINE o == Pow3[b]
  <2>2. 98 * o * o = 98 * (o * o) /\ o * o \in Nat
    BY Pow3Facts
  <2>3. 1296 * n * n = 0
    BY <2>1
  <2>4. QED
    BY <2>2, <2>3 DEF BoundNegative
<1>9. 2 * n <= 3 * P
  <2>1. SUFFICES ASSUME 3 * P <= 2 * n PROVE 2 * n <= 3 * P
    BY <1>6
  <2>2. (3 * P) * (3 * P) <= (2 * n) * (2 * n)
    BY <1>6, <2>1, SquaresGrow
  <2>3. P <= 2 * n /\ 98 * Q <= 81 * N
    <3> HIDE DEF Q, N
    <3>1. QED
      BY <1>6, <1>7, <2>1, <2>2
  <2>4. QED
    BY <1>4, <1>7, <2>3 DEF UpToB1
<1>10. k > 0 => P < 2 * n
  <2>1. SUFFICES ASSUME k > 0, P >= 2 * n PROVE FALSE
    BY <1>6
  <2>2. 441 * Q <= 512 * N
    BY <1>5, <1>7, <2>1 DEF UpToB2
  <2>3. (2 * n) * (2 * n) <= P * P
    BY <1>6, <2>1, SquaresGrow
  <2>4. 4 * N <= Q
    BY <1>7, <2>3
  <2> HIDE DEF Q, N
  <2>5. QED
    BY <1>7, <1>8, <2>2, <2>4
<1>11. P < 3 * n
  <2>1. CASE k > 0
    BY <1>6, <1>8, <1>10, <2>1
  <2>2. CASE k = 0
    <3>1. SUFFICES ASSUME P >= 3 * n PROVE FALSE
      BY <1>6
    <3>2. 441 * Q < 2048 * N
      <4>1. ~ (2048 * n * n <= 441 * P * P)
        BY <1>6, <2>2 DEF BoundNegative
      <4> HIDE DEF Q, N
      <4>2. QED
        BY <1>7, <4>1
    <3>3. (3 * n) * (3 * n) <= P * P
      BY <1>6, <3>1, SquaresGrow
    <3>4. 9 * N <= Q
      BY <1>7, <3>3
    <3> HIDE DEF Q, N
    <3>5. QED
      BY <1>7, <3>2, <3>4
  <2>3. QED
    BY <1>6, <2>1, <2>2
<1>12. QED
  BY <1>6, <1>8, <1>9, <1>10, <1>11 DEF P, k

-----------------------------------------------------------------------------
(* The first state.                                                        *)
LEMMA InitBounds == Init => BoundsInv
<1> SUFFICES ASSUME Init PROVE BoundsInv
  OBVIOUS
<1>1. pc = "idle"
  BY DEF Init
<1>2. QED
  BY <1>1, InitInv DEF BoundsInv, DescentBounded, RemainderBelow, PrefixesSoFar

(* Neither a new call nor the loop over b_try touches a chain.             *)
LEMMA CallBounds ==
  ASSUME BoundsInv, NEW newJob \in Jobs, Call(newJob)
  PROVE  BoundsInv'
<1>1. pc' = "bounds" /\ tried' = {}
  BY DEF Call, CallWith
<1>2. IndInv'
  BY CallInv DEF BoundsInv
<1>3. QED
  BY <1>1, <1>2 DEF BoundsInv, DescentBounded, RemainderBelow, PrefixesSoFar

(* Steps that take no term.                                                *)
LEMMA LoopBounds ==
  ASSUME BoundsInv, Return \/ Skip
  PROVE  BoundsInv'
<1>1. /\ pc = "bounds" /\ pc' \in {"bounds", "done"}
      /\ UNCHANGED <<job, DBC_store, DBC_len, DBC_index, count_DBC, chainVars, tried>>
  BY DEF Return, Skip, SkipTo
<1>2. IndInv'
  BY LoopInv DEF BoundsInv
<1>3. PrefixesSoFar'
  BY <1>1 DEF BoundsInv, PrefixesSoFar, AllBetween, min_index, n
<1>4. QED
  BY <1>1, <1>2, <1>3 DEF BoundsInv, DescentBounded, RemainderBelow

(* The bounds a chain starts from name a power near n.                     *)
LEMMA StartBounds ==
  ASSUME BoundsInv, Start
  PROVE  BoundsInv'
<1> USE MaxAssumption
<1>1. /\ pc = "bounds" /\ ~ LoopDone /\ LBound(b) = RBound(b) /\ pc' = "greedy"
      /\ a' = RBound(b) /\ b_temp' = b /\ t' = n /\ s' = 1 /\ i' = 0
      /\ UNCHANGED <<job, DBC_store, DBC_len, DBC_index, z, count_DBC, tried>>
  BY DEF Start, StartWith
<1>2. IndInv'
  BY StartInv DEF BoundsInv
<1>3. n \in Nat /\ b \in 0 .. MAX_2 /\ z \in 1 .. Len(job.b_try)
  <2>1. job \in Jobs \cup {NoJob} /\ z \in Nat \ {0} /\ z <= Len(job.b_try)
    BY <1>1 DEF BoundsInv, IndInv, TypeOK, LoopDone
  <2>2. Len(NoJob.b_try) = 0
    BY DEF NoJob
  <2>3. job \in Jobs
    BY <2>1, <2>2
  <2>4. job.b_try \in Seq(0 .. MAX_2) /\ job.n \in Nat
    BY <2>3, JobsAssumption
  <2>5. QED
    BY <2>1, <2>4 DEF n, b
<1>4. n' = n /\ b' = b /\ RBound(b)' = RBound(b)
  BY <1>1 DEF n, b, RBound, UpToB2
<1>5. /\ RBound(b) \in Nat /\ Pow23(RBound(b), b) \in Nat
      /\ n > 0 /\ 2 * n <= 3 * Pow23(RBound(b), b)
      /\ Pow23(RBound(b), b) < 3 * n
      /\ RBound(b) > 0 => Pow23(RBound(b), b) < 2 * n
  <2>1. b \in Nat /\ ~ BoundNegative(b)
    BY <1>1, <1>3 DEF LoopDone
  <2>2. QED
    BY <1>1, <1>3, <2>1, StartNear
<1>6. Reach' = Pow23(RBound(b), b)
  BY <1>1 DEF Reach
<1>7. DescentBounded'
  <2>1. High' \in 0 .. 1
    BY DEF High
  <2>2. i' + a' + b_temp' + High' <= RBound(b) + b + 1
    BY <1>1, <1>3, <1>5, <2>1
  <2>3. 2 * t' <= 3 * Reach'
    BY <1>1, <1>5, <1>6
  <2>4. z' \in 1 .. Len(job.b_try)'
    BY <1>1, <1>3
  <2>5. QED
    BY <1>4, <2>2, <2>3, <2>4 DEF DescentBounded
<1>8. RemainderBelow'
  BY <1>1, <1>4, <1>5, <1>6 DEF RemainderBelow
<1>9. PrefixesSoFar'
  BY <1>1 DEF BoundsInv, PrefixesSoFar, AllBetween, min_index, n
<1>10. QED
  BY <1>2, <1>7, <1>8, <1>9 DEF BoundsInv

(* The exponents in the lists are within the tables.                       *)
LEMMA ListEntry ==
  ASSUME job.b_try \in Seq(0 .. MAX_2), z \in 1 .. Len(job.b_try)
  PROVE  b \in 0 .. MAX_2
<1> DEFINE q == job.b_try
           S == 0 .. MAX_2
<1>1. q \in Seq(S) /\ z \in 1 .. Len(q) /\ b = q[z]
  BY DEF b
<1> HIDE DEF q, S
<1>2. q \in [1 .. Len(q) -> S]
  BY <1>1
<1>3. b \in S
  BY <1>1, <1>2
<1>4. QED
  BY <1>3 DEF S

(* Budget: a term pays for itself by an exponent or by a high remainder.   *)
LEMMA StepDescent ==
  ASSUME BoundsInv, Step, IndInv'
  PROVE  /\ DescentBounded'
         /\ RemainderBelow'
<1>1. PICK chosen : chosen = NearestOf(Candidates) /\ TakeTerm(chosen, -s)
  BY DEF Step, StepWith
<1> DEFINE x == chosen.alpha
           y == chosen.beta
           p == Pow23(x, y)
           r == Remainder(p)
           d == (a + b_temp) - (x + y)
           B == RBound(b) + b + 1
<1>2. /\ pc = "greedy" /\ t > 0 /\ t \in Nat /\ a \in Nat /\ b_temp \in Nat /\ i \in Nat
      /\ job.window \in Nat /\ job.window >= 2 /\ n \in Nat /\ job \in Jobs
  <2>1. pc = "greedy" /\ t # 0 /\ t \in Nat /\ a \in Nat /\ b_temp \in Nat /\ i \in 0 .. MAX_2
        /\ job \in Jobs \cup {NoJob}
    BY DEF Step, StepWith, BoundsInv, IndInv, TypeOK
  <2>2. job \in Jobs
    <3>1. z \in Nat \ {0}
      BY DEF BoundsInv, IndInv, TypeOK
    <3>2. job = NoJob => n = 0
      BY DEF n, NoJob
    <3>3. n > 0
      BY <2>1 DEF BoundsInv, RemainderBelow
    <3>4. QED
      BY <2>1, <3>2, <3>3
  <2>3. QED
    BY <2>1, <2>2, JobsAssumption DEF n
<1>3. /\ t' = r /\ i' = i + 1 /\ a' = x /\ b_temp' = y /\ Reach' = p
      /\ UNCHANGED <<pc, job, z>>
  BY <1>1 DEF TakeTerm, Reach
<1>4. n' = n /\ b' = b /\ RBound(b)' = RBound(b)
  BY <1>3 DEF n, b, RBound, UpToB2
<1>5. 2 * t <= 3 * Reach /\ i + a + b_temp + High <= B
  BY <1>2 DEF BoundsInv, DescentBounded
<1>6. /\ n > 0
      /\ i = 0 => t = n /\ Reach < 3 * n /\ (a > 0 => Reach < 2 * n)
      /\ i > 0 => t < n /\ Reach < 2 * n
  BY <1>2 DEF BoundsInv, RemainderBelow
<1>7. /\ p \in Nat \ {0} /\ r \in Nat /\ r <= p
      /\ d \in Nat /\ p <= Reach /\ (d > 0 => 2 * p <= Reach)
      /\ 2 * r > p => d >= 2 \/ (d >= 1 /\ 2 * t > Reach)
      /\ d = 0 => 2 * t > Reach
  BY <1>1, <1>2, <1>5, NearestPower
<1>8. r = (IF t >= p THEN t - p ELSE p - t)
  BY DEF Remainder
<1>9. High' = (IF 2 * r > p THEN 1 ELSE 0) /\ High = (IF 2 * t > Reach THEN 1 ELSE 0)
  BY <1>3 DEF High
<1>10. x \in Nat /\ y \in Nat /\ x + y + d = a + b_temp
  BY <1>1, <1>2, NearestInBounds
<1>11. Reach \in Nat
  BY <1>2, PowerSteps DEF Reach
<1>12. b \in 0 .. MAX_2 /\ RBound(b) \in 0 .. MAX_2 /\ z \in 1 .. Len(job.b_try)
  <2>1. RBound(b) \in 0 .. MAX_2
    BY MaxAssumption, CountUpTo DEF RBound
  <2>2. z \in 1 .. Len(job.b_try) /\ job.b_try \in Seq(0 .. MAX_2)
    BY <1>2, JobsAssumption DEF BoundsInv, DescentBounded
  <2>3. b \in 0 .. MAX_2
    BY <2>2, ListEntry
  <2>4. QED
    BY <2>1, <2>2, <2>3
<1>13. i = 0 => r < t /\ p < 2 * t
  BY <1>1, <1>2, <1>6, FirstPower
<1> HIDE DEF x, y, p, r, d
<1>14. B \in Int
  BY <1>12, MaxAssumption
<1> HIDE DEF B
<1>15. 2 * r <= 3 * p
  BY <1>7
<1>16. (i + 1) + x + y + High' <= B
  BY <1>2, <1>5, <1>7, <1>9, <1>10, <1>14
<1>17. r < n /\ p < 2 * n
  <2>1. CASE i = 0
    BY <1>2, <1>6, <1>13, <2>1
  <2>2. CASE i > 0
    <3>1. p < 2 * n /\ t < n
      BY <1>2, <1>6, <1>7, <1>11, <2>2
    <3>2. CASE t >= p
      BY <1>2, <1>7, <1>8, <3>1, <3>2
    <3>3. CASE t < p
      BY <1>2, <1>6, <1>7, <1>8, <1>11, <2>2, <3>1, <3>3
    <3>4. QED
      BY <1>2, <1>7, <3>2, <3>3
  <2>3. QED
    BY <1>2, <2>1, <2>2
<1>18. DescentBounded'
  <2>1. z' \in 1 .. Len(job.b_try)'
    BY <1>3, <1>12
  <2>2. QED
    BY <1>3, <1>4, <1>15, <1>16, <2>1 DEF DescentBounded, B
<1>19. RemainderBelow'
  BY <1>2, <1>3, <1>4, <1>6, <1>17 DEF RemainderBelow
<1>20. QED
  BY <1>18, <1>19

(* The prefixes of the chain in work stay near n: what is still to be      *)
(* added or taken away is less than n.                                     *)
LEMMA StepPrefixes ==
  ASSUME BoundsInv, Step, IndInv', RemainderBelow'
  PROVE  PrefixesSoFar'
<1> USE MaxAssumption
<1>1. PICK chosen : chosen = NearestOf(Candidates) /\ TakeTerm(chosen, -s)
  BY DEF Step, StepWith
<1> DEFINE x == DBC_index
           c == DBC_store[x]
           e == [sign |-> s, dbl |-> chosen.alpha, tpl |-> chosen.beta]
           d == DBC_store'[x]
<1>2. /\ pc = "greedy" /\ i \in 0 .. MAX_2 - 1 /\ x \in 0 .. 1 /\ c \in Slot
      /\ DBC_store \in [0 .. 1 -> Slot] /\ AllBetween(c, i)
  BY DEF Step, StepWith, BoundsInv, IndInv, TypeOK, PrefixesSoFar
<1>3. /\ DBC_store' = [DBC_store EXCEPT ![x][i] = e]
      /\ i' = i + 1
      /\ UNCHANGED <<pc, job, DBC_len, DBC_index, tried>>
  BY <1>1 DEF TakeTerm
<1>4. /\ d \in Slot /\ \A k \in 0 .. MAX_2 - 1 : k # i => d[k] = c[k]
      /\ DBC_store'[1 - x] = DBC_store[1 - x]
  <2>1. d \in Slot
    BY <1>2, <1>3 DEF IndInv, TypeOK
  <2>2. d = [c EXCEPT ![i] = e] /\ DBC_store'[1 - x] = DBC_store[1 - x]
    BY <1>2, <1>3
  <2> HIDE DEF d, e
  <2>3. \A k \in 0 .. MAX_2 - 1 : k # i => d[k] = c[k]
    BY <1>2, <2>2 DEF Slot
  <2>4. QED
    BY <2>1, <2>2, <2>3
<1>5. 0 < Value(d, i + 1) /\ Value(d, i + 1) < 2 * n
  <2>1. Value(d, i') + s' * t' = n' /\ t' < n' /\ n' > 0
    BY <1>2, <1>3 DEF IndInv, DescentInv, RemainderBelow
  <2>2. s' \in {-1, 1} /\ t' \in Nat /\ n' \in Int
    <3>1. s' \in {-1, 1} /\ t' \in Nat /\ job' \in Jobs \cup {NoJob}
      BY DEF IndInv, TypeOK
    <3>2. QED
      BY <3>1, JobsAssumption DEF n, NoJob
  <2>3. Value(d, i') \in Int
    <3>1. i' \in 0 .. MAX_2
      BY <1>2, <1>3
    <3> HIDE DEF d
    <3>2. QED
      BY <1>4, <3>1, RunningSumsFacts, MaxAssumption DEF Sums, Slot, Value
  <2>4. s' * t' = t' \/ s' * t' = - t'
    <3>1. \A u \in {-1, 1}, v \in Nat : u * v = v \/ u * v = - v
      OBVIOUS
    <3>2. QED
      BY <2>2, <3>1
  <2> HIDE DEF d
  <2>5. 0 < Value(d, i') /\ Value(d, i') < 2 * n'
    BY <2>1, <2>2, <2>3, <2>4
  <2>6. n' = n
    BY <1>3 DEF n
  <2>7. QED
    BY <1>3, <2>5, <2>6
<1> HIDE DEF x, c, d, e
<1>6. AllBetween(d, i + 1)
  <2>1. ASSUME NEW k \in 1 .. i + 1 PROVE 0 < Value(d, k) /\ Value(d, k) < 2 * n
    <3>1. CASE k = i + 1
      BY <1>5, <3>1
    <3>2. CASE k # i + 1
      <4>1. k \in 1 .. i /\ k \in 0 .. MAX_2
        BY <1>2, <3>2
      <4>2. \A l \in 0 .. k - 1 : c[l] = d[l]
        BY <1>2, <1>4, <4>1
      <4>3. Value(c, k) = Value(d, k)
        BY <1>2, <1>4, <4>1, <4>2, SameSums, MaxAssumption DEF Value, Sums, Slot
      <4>4. QED
        BY <1>2, <4>1, <4>3 DEF AllBetween
    <3>3. QED
      BY <3>1, <3>2
  <2>2. QED
    BY <2>1 DEF AllBetween
<1>7. (pc' # "idle" /\ tried' # {}) => AllBetween(DBC_store[1 - x], DBC_len[1 - x])
  BY <1>2, <1>3 DEF BoundsInv, PrefixesSoFar, min_index, x
<1>8. min_index' = 1 - x /\ DBC_index' = x
  BY <1>3 DEF min_index, x
<1>9. AllBetween(DBC_store'[DBC_index'], i')
  BY <1>3, <1>6, <1>8 DEF d
<1>10. (pc' # "idle" /\ tried' # {}) => AllBetween(DBC_store'[min_index'], DBC_len'[min_index'])
  <2>1. DBC_store'[1 - x] = DBC_store[1 - x] /\ DBC_len' = DBC_len
    BY <1>3, <1>4
  <2>2. QED
    BY <1>7, <1>8, <2>1
<1>11. QED
  BY <1>3, <1>9, <1>10 DEF PrefixesSoFar, AllBetween, n

(* A step that takes a term or compares a complete chain.                  *)
LEMMA StepBounds ==
  ASSUME BoundsInv, Step
  PROVE  BoundsInv'
<1>1. IndInv'
  BY StepInv DEF BoundsInv
<1>2. DescentBounded' /\ RemainderBelow'
  BY <1>1, StepDescent
<1>3. PrefixesSoFar'
  BY <1>1, <1>2, StepPrefixes
<1>4. QED
  BY <1>1, <1>2, <1>3 DEF BoundsInv

(* The chain kept is the one in work or the one kept before.               *)
LEMMA CompareBounds ==
  ASSUME BoundsInv, Compare
  PROVE  BoundsInv'
<1> DEFINE x == DBC_index
           y == 1 - x
<1>1. /\ pc = "greedy" /\ x \in 0 .. 1 /\ i \in 0 .. MAX_2
      /\ DBC_len \in [0 .. 1 -> (0 .. MAX_2) \cup {Unset}]
  BY DEF Compare, CompareBy, BoundsInv, IndInv, TypeOK
<1>2. /\ DBC_len' = [DBC_len EXCEPT ![x] = i] /\ DBC_store' = DBC_store
      /\ pc' \in {"bounds", "done"} /\ tried' # {}
      /\ DBC_index' \in 0 .. 1 /\ n' = n
  BY DEF Compare, CompareBy, Overwrite, n
<1>3. IndInv'
  BY CompareInv DEF BoundsInv
<1>4. min_index' \in {x, y} /\ min_index = y
  <2>1. x \in {0, 1} /\ y = 1 - x /\ DBC_index' \in {0, 1}
    BY <1>1, <1>2
  <2>2. (x = 0 /\ y = 1) \/ (x = 1 /\ y = 0)
    BY <2>1
  <2>3. 1 - DBC_index' \in {0, 1}
    <3>1. \A u \in {0, 1} : 1 - u \in {0, 1}
      OBVIOUS
    <3>2. QED
      BY <2>1, <3>1
  <2> HIDE DEF x, y
  <2>4. 1 - DBC_index' \in {x, y}
    BY <2>2, <2>3
  <2>5. QED
    BY <2>4 DEF min_index, x, y
<1>5. DBC_len'[x] = i /\ DBC_len'[y] = DBC_len[y]
  BY <1>1, <1>2
<1>6. AllBetween(DBC_store[x], i) /\ (tried # {} => AllBetween(DBC_store[y], DBC_len[y]))
  BY <1>1, <1>4 DEF BoundsInv, PrefixesSoFar
<1>7. CASE min_index' = x
  BY <1>2, <1>3, <1>5, <1>6, <1>7
     DEF BoundsInv, DescentBounded, RemainderBelow, PrefixesSoFar, AllBetween
<1>8. CASE min_index' = y
  <2>1. tried # {}
    <3>1. SUFFICES ASSUME tried = {} PROVE FALSE
      OBVIOUS
    <3>2. x = 0 /\ DBC_len[y] = Unset
      BY <1>1, <3>1 DEF BoundsInv, IndInv, FirstInSlot0
    <3>3. DBC_len'[min_index'] \in 0 .. MAX_2
      BY <1>2, <1>3 DEF IndInv, KeptSlot
    <3>4. QED
      BY <1>5, <1>8, <3>2, <3>3, SizeAssumption, MaxAssumption DEF Unset
  <2>2. QED
    BY <1>2, <1>3, <1>5, <1>6, <1>8, <2>1
       DEF BoundsInv, DescentBounded, RemainderBelow, PrefixesSoFar, AllBetween
<1>9. QED
  BY <1>4, <1>7, <1>8

(* Every step keeps the bounds.                                            *)
LEMMA NextBounds == BoundsInv /\ [Next]_vars => BoundsInv'
<1> SUFFICES ASSUME BoundsInv, [Next]_vars PROVE BoundsInv'
  OBVIOUS
<1>1. CASE \E newJob \in Jobs : Call(newJob)
  BY <1>1, CallBounds
<1>2. CASE Return \/ Skip
  BY <1>2, LoopBounds
<1>3. CASE Start
  BY <1>3, StartBounds
<1>4. CASE Step
  BY <1>4, StepBounds
<1>5. CASE Compare
  BY <1>5, CompareBounds
<1>6. CASE UNCHANGED vars
  <2>1. IndInv'
    BY <1>6, NextInv DEF BoundsInv
  <2>2. n' = n /\ b' = b /\ RBound(b)' = RBound(b) /\ Reach' = Reach /\ High' = High
    BY <1>6 DEF vars, chainVars, n, b, RBound, UpToB2, Reach, High
  <2>3. DescentBounded' /\ RemainderBelow'
    BY <1>6, <2>2 DEF vars, chainVars, BoundsInv, DescentBounded, RemainderBelow
  <2>4. PrefixesSoFar'
    BY <1>6 DEF vars, chainVars, BoundsInv, PrefixesSoFar, AllBetween, min_index, n
  <2>5. QED
    BY <2>1, <2>3, <2>4 DEF BoundsInv
<1>7. QED
  BY <1>1, <1>2, <1>3, <1>4, <1>5, <1>6 DEF Next

(* Budget, remainder and prefixes keep their bounds in every behaviour.    *)
THEOREM Bounded == Spec => []BoundsInv
  BY InitBounds, NextBounds, PTL DEF Spec

(* Every chain grown from (a, b) has at most a + b + 1 terms, so the       *)
(* unchecked writes to DBC_store stay within that many rows.               *)
THEOREM ChainsAreShort == Spec => []ShortChains
<1>1. BoundsInv => ShortChains
  <2>1. SUFFICES ASSUME BoundsInv, pc = "greedy"
                 PROVE  i <= RBound(b) + b + (IF t = 0 THEN 1 ELSE 0)
    BY DEF ShortChains
  <2> DEFINE B == RBound(b) + b
  <2>2. /\ z \in 1 .. Len(job.b_try) /\ i + a + b_temp + High <= B + 1 /\ n > 0
        /\ a \in Nat /\ b_temp \in Nat /\ t \in Nat /\ i \in 0 .. MAX_2
        /\ job \in Jobs \cup {NoJob}
    BY <2>1 DEF BoundsInv, IndInv, TypeOK, DescentBounded, RemainderBelow
  <2>3. High = (IF 2 * t > Reach THEN 1 ELSE 0)
    BY DEF High
  <2>4. B \in Int
    <3>1. RBound(b) \in 0 .. MAX_2
      BY MaxAssumption, CountUpTo DEF RBound
    <3>2. job \in Jobs
      BY <2>2 DEF n, NoJob
    <3>3. job.b_try \in Seq(0 .. MAX_2)
      BY <3>2, JobsAssumption
    <3>4. b \in 0 .. MAX_2
      BY <2>2, <3>3, ListEntry
    <3>5. QED
      BY <3>1, <3>4, MaxAssumption
  <2>5. a + b_temp = 0 => Reach = 1
    BY <2>2, PowerSteps DEF Reach
  <2> HIDE DEF B
  <2>6. i \in Int
    BY <2>2, MaxAssumption
  <2>7. CASE t = 0
    <3>1. i <= B + 1
      BY <2>2, <2>3, <2>4, <2>6
    <3>2. QED
      BY <2>4, <2>6, <2>7, <3>1 DEF B
  <2>8. CASE t # 0
    <3>1. High = 1 \/ a + b_temp > 0
      BY <2>2, <2>3, <2>5, <2>8
    <3>2. i <= B
      BY <2>2, <2>3, <2>4, <2>6, <3>1
    <3>3. QED
      BY <2>4, <2>6, <2>8, <3>2 DEF B
  <2>9. QED
    BY <2>7, <2>8
<1>2. QED
  BY <1>1, Bounded, PTL

(* Every prefix of a chain that a call returns is between 0 and 2n.        *)
THEOREM PrefixesStayBetween == Spec => []PrefixesBetween
<1>1. BoundsInv => PrefixesBetween
  <2>1. SUFFICES ASSUME BoundsInv, pc = "done", tried # {},
                        NEW k \in 1 .. DBC_len[min_index] - 1
                 PROVE  /\ 0 < Value(DBC_store[min_index], k)
                        /\ Value(DBC_store[min_index], k) < 2 * n
    BY DEF PrefixesBetween
  <2>2. AllBetween(DBC_store[min_index], DBC_len[min_index])
    BY <2>1 DEF BoundsInv, PrefixesSoFar
  <2>3. DBC_len[min_index] \in 0 .. MAX_2
    BY <2>1 DEF BoundsInv, IndInv, KeptSlot
  <2>4. k \in 1 .. DBC_len[min_index]
    BY <2>3, MaxAssumption
  <2>5. QED
    BY <2>2, <2>4 DEF AllBetween
<1>2. QED
  BY <1>1, Bounded, PTL

-----------------------------------------------------------------------------
(* The bounds of an exponent agree if one of its powers lies between B1    *)
(* and B2.                                                                 *)
LEMMA PowerBetween ==
  ASSUME n \in Nat, NEW e \in Nat, NEW k \in 0 .. MAX_2,
         98 * (Pow23(k, e) * Pow23(k, e)) > 81 * (n * n),
         441 * (Pow23(k, e) * Pow23(k, e)) <= 512 * (n * n),
         Pow23(k, e) <= 2 * n
  PROVE  LBound(e) = RBound(e)
<1> USE MaxAssumption
<1> DEFINE P == Pow23(k, e)
           S == {m \in 0 .. MAX_2 : UpToB1(Pow23(m, e))}
           R == {m \in 1 .. MAX_2 : UpToB2(Pow23(m, e))}
<1>1. P \in Nat /\ k \in Nat
  BY PowerType
<1>2. \A p \in Nat, q \in Nat : p <= q => p * p <= q * q
  BY SquaresGrow
<1>3. S = 0 .. k - 1
  <2>1. ASSUME NEW m \in 0 .. k - 1 PROVE UpToB1(Pow23(m, e))
    <3>0. m \in 0 .. k /\ m \in Nat /\ e \in 0 .. e /\ m # k
      BY <1>1
    <3>1. 2 * Pow23(m, e) <= P /\ Pow23(m, e) \in Nat /\ m \in Nat
      BY <1>1, <3>0, PowerBounds, PowerType
    <3> DEFINE Q == Pow23(m, e)
    <3>2. (2 * Q) * (2 * Q) <= P * P
      BY <1>1, <1>2, <3>1
    <3> HIDE DEF P, Q
    <3>3. (2 * Q) * (2 * Q) = 4 * (Q * Q) /\ Q * Q \in Nat /\ P * P \in Nat /\ n * n \in Nat
      BY <1>1, <3>1 DEF Q
    <3>4. 441 * (P * P) <= 512 * (n * n)
      BY DEF P
    <3> DEFINE QQ == Q * Q
               PP == P * P
               N == n * n
    <3>5. 4 * QQ <= PP /\ QQ \in Nat /\ PP \in Nat /\ N \in Nat /\ 441 * PP <= 512 * N
      BY <3>2, <3>3, <3>4
    <3> HIDE DEF QQ, PP, N
    <3>6. 98 * QQ <= 81 * N
      BY <3>5
    <3>7. 98 * Q * Q = 98 * (Q * Q) /\ 81 * n * n = 81 * (n * n)
      BY <3>1 DEF Q
    <3>8. Q <= 2 * n
      BY <1>1, <3>1 DEF Q, P
    <3>9. QED
      BY <3>6, <3>7, <3>8 DEF UpToB1, Q, QQ, N
  <2>2. ASSUME NEW m \in 0 .. MAX_2, m >= k PROVE ~ UpToB1(Pow23(m, e))
    <3>1. k \in 0 .. m /\ m \in Nat /\ e \in 0 .. e
      BY <2>2
    <3>2. P <= Pow23(m, e) /\ Pow23(m, e) \in Nat
      BY <3>1, PowerBounds, PowerType
    <3> DEFINE Q == Pow23(m, e)
    <3>3. P * P <= Q * Q
      BY <1>1, <1>2, <3>2
    <3>4. 98 * (P * P) > 81 * (n * n)
      OBVIOUS
    <3>5. 98 * Q * Q = 98 * (Q * Q) /\ 81 * n * n = 81 * (n * n)
      BY <3>2
    <3>6. Q * Q \in Nat /\ P * P \in Nat /\ n * n \in Nat
      BY <1>1, <3>2
    <3> DEFINE QQ == Q * Q
               PP == P * P
               N == n * n
    <3>7. 98 * Q * Q = 98 * QQ /\ 81 * n * n = 81 * N /\ PP <= QQ /\ 98 * PP > 81 * N
          /\ QQ \in Nat /\ PP \in Nat /\ N \in Nat
      BY <3>3, <3>4, <3>5, <3>6
    <3> HIDE DEF QQ, PP, N
    <3>8. ~ (98 * Q * Q <= 81 * n * n)
      BY <3>7
    <3>9. QED
      BY <3>8 DEF UpToB1
  <2>3. QED
    BY <1>1, <2>1, <2>2
<1>4. R = 1 .. k
  <2>1. ASSUME NEW m \in 1 .. k PROVE UpToB2(Pow23(m, e))
    <3>1. m \in 0 .. k /\ e \in 0 .. e /\ m \in Nat
      OBVIOUS
    <3>2. Pow23(m, e) <= P /\ Pow23(m, e) \in Nat
      BY <1>1, <3>1, PowerBounds, PowerType
    <3> DEFINE Q == Pow23(m, e)
    <3>3. Q * Q <= P * P
      BY <1>1, <1>2, <3>2
    <3>4. 441 * (P * P) <= 512 * (n * n)
      OBVIOUS
    <3>5. 441 * Q * Q = 441 * (Q * Q) /\ 512 * n * n = 512 * (n * n)
      BY <3>2
    <3>6. Q * Q \in Nat /\ P * P \in Nat /\ n * n \in Nat
      BY <1>1, <3>2
    <3> DEFINE QQ == Q * Q
               PP == P * P
               N == n * n
    <3>7. 441 * Q * Q = 441 * QQ /\ 512 * n * n = 512 * N /\ QQ <= PP /\ 441 * PP <= 512 * N
          /\ QQ \in Nat /\ PP \in Nat /\ N \in Nat
      BY <3>3, <3>4, <3>5, <3>6
    <3> HIDE DEF QQ, PP, N
    <3>8. 441 * Q * Q <= 512 * n * n
      BY <3>7
    <3>9. Q <= 2 * n
      BY <1>1, <3>2
    <3>10. QED
      BY <3>8, <3>9 DEF UpToB2
  <2>2. ASSUME NEW m \in 1 .. MAX_2, m > k PROVE ~ UpToB2(Pow23(m, e))
    <3>1. k \in 0 .. m /\ m \in Nat /\ e \in 0 .. e /\ k # m
      BY <1>1, <2>2
    <3>2. 2 * P <= Pow23(m, e) /\ Pow23(m, e) \in Nat
      BY <3>1, PowerBounds, PowerType
    <3> DEFINE Q == Pow23(m, e)
    <3>3. (2 * P) * (2 * P) <= Q * Q
      BY <1>1, <1>2, <3>2
    <3>4. 98 * (P * P) > 81 * (n * n)
      OBVIOUS
    <3>5. 441 * Q * Q = 441 * (Q * Q) /\ 512 * n * n = 512 * (n * n)
          /\ (2 * P) * (2 * P) = 4 * (P * P)
      BY <1>1, <3>2
    <3>6. Q * Q \in Nat /\ P * P \in Nat /\ n * n \in Nat
      BY <1>1, <3>2
    <3> DEFINE QQ == Q * Q
               PP == P * P
               N == n * n
    <3>7. 441 * Q * Q = 441 * QQ /\ 512 * n * n = 512 * N /\ 4 * PP <= QQ /\ 98 * PP > 81 * N
          /\ QQ \in Nat /\ PP \in Nat /\ N \in Nat
      BY <3>3, <3>4, <3>5, <3>6
    <3> HIDE DEF QQ, PP, N
    <3>8. ~ (441 * Q * Q <= 512 * n * n)
      BY <3>7
    <3>9. QED
      BY <3>8 DEF UpToB2
  <2>3. QED
    BY <1>1, <2>1, <2>2
<1>5. Cardinality(0 .. k - 1) = k /\ Cardinality(1 .. k) = k
  <2>1. k - 1 \in Int /\ 0 \in Int /\ 1 \in Int /\ k \in Int
    BY <1>1
  <2> DEFINE l == k - 1
             o == 0
             u == 1
  <2> HIDE DEF l, o, u
  <2>2. Cardinality(o .. l) = (IF o > l THEN 0 ELSE l - o + 1)
    BY <2>1, FS_Interval DEF l, o
  <2>3. Cardinality(u .. k) = (IF u > k THEN 0 ELSE k - u + 1)
    BY <2>1, FS_Interval DEF u
  <2>4. QED
    BY <1>1, <2>2, <2>3 DEF l, o, u
<1>6. LBound(e) = Cardinality(S) /\ RBound(e) = Cardinality(R)
  BY DEF LBound, RBound
<1>7. QED
  BY <1>3, <1>4, <1>5, <1>6

(* Within a factor of 2 there is always a multiple of X whose ratio to the *)
(* bound is at most 32/27, among those by 81, 96, 108, 128 and 144.        *)
LEMMA FiveMultiples ==
  ASSUME NEW X \in Nat, NEW N \in Nat,
         441 * (6561 * X) <= 512 * N, 441 * (26244 * X) > 512 * N
  PROVE  \E q \in {6561, 9216, 11664, 16384, 20736} :
           98 * (q * X) > 81 * N /\ 441 * (q * X) <= 512 * N
<1>1. CASE 441 * (20736 * X) <= 512 * N
  BY <1>1
<1>2. CASE 441 * (20736 * X) > 512 * N /\ 441 * (16384 * X) <= 512 * N
  BY <1>2
<1>3. CASE 441 * (16384 * X) > 512 * N /\ 441 * (11664 * X) <= 512 * N
  BY <1>3
<1>4. CASE 441 * (11664 * X) > 512 * N /\ 441 * (9216 * X) <= 512 * N
  BY <1>4
<1>5. CASE 441 * (9216 * X) > 512 * N
  BY <1>5
<1>6. QED
  BY <1>1, <1>2, <1>3, <1>4, <1>5

(* Such a power is within the tables, hence an exponent with one is        *)
(* accepted.                                                               *)
LEMMA AcceptedAt ==
  ASSUME n \in Nat, n > 0, 2 * n < Pow2[MAX_2], NEW e \in Nat, NEW k \in Nat,
         98 * (Pow23(k, e) * Pow23(k, e)) > 81 * (n * n),
         441 * (Pow23(k, e) * Pow23(k, e)) <= 512 * (n * n)
  PROVE  LBound(e) = RBound(e)
<1> USE MaxAssumption
<1> DEFINE P == Pow23(k, e)
           m == 2 * n
<1>1. P \in Nat /\ m \in Nat
  BY PowerType
<1>2. P <= m
  <2>1. SUFFICES ASSUME m <= P PROVE P <= m
    BY <1>1
  <2>2. m * m <= P * P
    BY <1>1, <2>1, SquaresGrow
  <2> DEFINE N == n * n
             Q == P * P
  <2> HIDE DEF P
  <2>3. m * m = 4 * N /\ N \in Nat /\ Q \in Nat /\ N >= 1
    <3>1. N >= 1 * 1
      <4>1. \A u \in Nat, v \in Nat : u <= v => u * u <= v * v
        BY SquaresGrow
      <4>2. QED
        BY <4>1
    <3>2. QED
      BY <1>1, <3>1
  <2>4. 441 * Q <= 512 * N
    BY DEF P
  <2> HIDE DEF N, Q, m
  <2>5. 4 * N <= Q
    BY <2>2, <2>3 DEF Q
  <2>6. FALSE
    BY <2>3, <2>4, <2>5
  <2>7. QED
    BY <2>6
<1>3. k <= MAX_2
  <2>1. SUFFICES ASSUME MAX_2 <= k PROVE FALSE
    BY <1>1
  <2> DEFINE o == 0
  <2>2. MAX_2 \in 0 .. k /\ o \in 0 .. e
    BY <2>1
  <2> HIDE DEF o
  <2>3. Pow23(MAX_2, o) <= P
    BY <2>2, PowerBounds
  <2>4. Pow23(MAX_2, o) = Pow2[MAX_2]
    <3>1. Pow2[MAX_2] \in Nat /\ Pow3[0] = 1
      BY Pow2Facts, Pow3Facts
    <3>2. QED
      BY <3>1 DEF Pow23, o
  <2>5. Pow2[MAX_2] \in Nat
    BY Pow2Facts
  <2>6. QED
    BY <1>1, <1>2, <2>3, <2>4, <2>5
<1>4. QED
  BY <1>2, <1>3, PowerBetween

(* A product with a positive number is no smaller.                         *)
LEMMA TimesGrow ==
  ASSUME NEW u \in Nat, NEW v \in Nat \ {0}
  PROVE  u <= u * v
<1>1. v - 1 \in Nat /\ u * v = u + u * (v - 1)
  OBVIOUS
<1>2. u * (v - 1) \in Nat
  BY <1>1
<1>3. QED
  BY <1>1, <1>2

(* The powers of which the five multiples consist.                         *)
LEMMA SmallPowers ==
  /\ Pow23(0, 4) = 81 /\ Pow23(5, 1) = 96 /\ Pow23(2, 3) = 108 /\ Pow23(7, 0) = 128
  /\ Pow23(4, 2) = 144
<1>1. Pow2[0] = 1 /\ Pow3[0] = 1
  BY Pow2Facts, Pow3Facts
<1>2. \A e \in Nat : Pow2[e + 1] = 2 * Pow2[e] /\ Pow3[e + 1] = 3 * Pow3[e]
  BY Pow2Facts, Pow3Facts
<1>3. Pow2[1] = 2 /\ Pow3[1] = 3
  BY <1>1, <1>2, 0 + 1 = 1
<1>4. Pow2[2] = 4 /\ Pow3[2] = 9
  BY <1>2, <1>3, 1 + 1 = 2
<1>5. Pow2[3] = 8 /\ Pow3[3] = 27
  BY <1>2, <1>4, 2 + 1 = 3
<1>6. Pow2[4] = 16 /\ Pow3[4] = 81
  BY <1>2, <1>5, 3 + 1 = 4
<1>7. Pow2[5] = 32
  BY <1>2, <1>6, 4 + 1 = 5
<1>8. Pow2[6] = 64
  BY <1>2, <1>7, 5 + 1 = 6
<1>9. Pow2[7] = 128
  BY <1>2, <1>8, 6 + 1 = 7
<1>10. QED
  BY <1>1, <1>3, <1>4, <1>5, <1>6, <1>7, <1>9 DEF Pow23

(* Of five consecutive exponents whose powers are within n one is          *)
(* accepted.                                                               *)
LEMMA OneOfFive ==
  ASSUME n \in Nat, 2 * n < Pow2[MAX_2], NEW e \in Nat, Pow3[e + 4] <= n
  PROVE  \E y \in e .. e + 4 : LBound(y) = RBound(y)
<1> USE MaxAssumption
<1> DEFINE f == e + 4
           N == n * n
           Over == {m \in Nat : 441 * (Pow23(m, f) * Pow23(m, f)) > 512 * N}
<1>1. f \in Nat /\ Pow3[f] \in Nat \ {0} /\ n > 0 /\ N \in Nat
  <2>1. f \in Nat
    OBVIOUS
  <2>2. Pow3[f] \in Nat \ {0}
    BY <2>1, Pow3Facts
  <2>3. Pow3[f] <= n
    OBVIOUS
  <2> HIDE DEF f
  <2>4. QED
    BY <2>1, <2>2, <2>3
<1>2. \A m \in Nat : Pow23(m, f) \in Nat
  BY <1>1, PowerType
<1>3. MAX_2 \in Over
  <2> DEFINE P == Pow23(MAX_2, f)
             m == 2 * n
  <2>1. m <= P
    <3>1. Pow2[MAX_2] \in Nat /\ P = Pow2[MAX_2] * Pow3[f]
      BY Pow2Facts DEF Pow23
    <3>2. \A u \in Nat, v \in Nat \ {0} : u <= u * v
      BY TimesGrow
    <3> HIDE DEF P, f
    <3>3. Pow2[MAX_2] <= P
      BY <1>1, <3>1, <3>2
    <3>4. QED
      BY <1>2, <3>1, <3>3 DEF P
  <2>2. m * m <= P * P
    <3>1. m \in Nat /\ P \in Nat
      BY <1>2
    <3>2. QED
      BY <2>1, <3>1, SquaresGrow
  <2>3. m * m = 4 * N /\ N >= 1
    <3>1. N >= 1 * 1
      <4>1. \A u \in Nat, v \in Nat : u <= v => u * u <= v * v
        BY SquaresGrow
      <4>2. QED
        BY <1>1, <4>1
    <3>2. QED
      BY <3>1
  <2> DEFINE Q == P * P
  <2>4. Q \in Nat
    <3>1. P \in Nat
      BY <1>2
    <3> HIDE DEF P
    <3>2. QED
      BY <3>1
  <2> HIDE DEF N, P, m
  <2>5. 4 * N <= Q
    BY <2>2, <2>3 DEF Q
  <2> HIDE DEF Q
  <2>6. 441 * Q > 512 * N
    BY <1>1, <2>3, <2>4, <2>5
  <2>7. QED
    BY <2>6 DEF Q, P
<1>4. PICK l \in Over : \A m \in Over : l <= m
  <2>1. Over \subseteq Nat /\ Over # {}
    BY <1>3
  <2> HIDE DEF Over
  <2>2. QED
    BY <2>1, LeastNumber
<1>5. 0 \notin Over
  <2>1. Pow23(0, f) = Pow3[f]
    BY <1>1, PowerSteps
  <2> DEFINE P == Pow3[f]
  <2>2. P * P <= n * n
    <3>1. P \in Nat /\ P <= n
      BY <1>1
    <3>2. QED
      BY <3>1, SquaresGrow
  <2> DEFINE Q == P * P
  <2>3. Q \in Nat
    BY <1>1
  <2>4. Q <= N
    BY <2>2
  <2> HIDE DEF Q, N
  <2>5. ~ (441 * Q > 512 * N)
    BY <1>1, <2>3, <2>4
  <2>6. QED
    BY <2>1, <2>5 DEF Q
<1> DEFINE k == l - 1
           x == Pow23(k, e)
           X == x * x
<1>6. k \in Nat /\ l = k + 1 /\ k \notin Over
  <2>1. l \in Nat /\ l # 0
    BY <1>4, <1>5
  <2>2. k \in Nat /\ l = k + 1 /\ ~ (l <= k)
    BY <2>1
  <2> HIDE DEF Over, k
  <2>3. QED
    BY <1>4, <2>2
<1> HIDE DEF k
<1>7. x \in Nat /\ X \in Nat
  <2>1. x \in Nat
    BY <1>6, PowerType, ZenonT(60)
  <2> HIDE DEF x
  <2>2. QED
    BY <2>1
<1>8. \A d \in Nat, y \in Nat : Pow23(k + d, e + y) = x * Pow23(d, y)
  BY <1>6, PowerProduct
<1>9. Pow23(k, f) = 81 * x /\ Pow23(l, f) = 162 * x
  <2>1. Pow23(k + 0, e + 4) = x * Pow23(0, 4)
    BY <1>8
  <2>2. k + 0 = k
    BY <1>6
  <2>3. Pow23(k, f) = x * 81
    BY <2>1, <2>2, SmallPowers
  <2>4. Pow23(k + 1, f) = 2 * Pow23(k, f)
    BY <1>1, <1>6, PowerSteps
  <2> HIDE DEF x
  <2>5. QED
    BY <1>6, <1>7, <2>3, <2>4
<1>10. 441 * (6561 * X) <= 512 * N /\ 441 * (26244 * X) > 512 * N
  <2>1. ~ (441 * (Pow23(k, f) * Pow23(k, f)) > 512 * N)
    BY <1>6
  <2>2. 441 * (Pow23(l, f) * Pow23(l, f)) > 512 * N
    BY <1>4
  <2> HIDE DEF x, N
  <2>3. (81 * x) * (81 * x) = 6561 * X /\ (162 * x) * (162 * x) = 26244 * X
    BY <1>7
  <2> HIDE DEF X
  <2>4. QED
    BY <1>1, <1>7, <1>9, <2>1, <2>2, <2>3
<1>11. PICK q \in {6561, 9216, 11664, 16384, 20736} :
         98 * (q * X) > 81 * N /\ 441 * (q * X) <= 512 * N
  <2> HIDE DEF X, N
  <2>1. QED
    BY <1>1, <1>7, <1>10, FiveMultiples
<1>12. ASSUME NEW d \in Nat, NEW y \in 0 .. 4, NEW r \in Nat,
              Pow23(d, y) = r, q = r * r
       PROVE  LBound(e + y) = RBound(e + y)
  <2>1. Pow23(k + d, e + y) = x * r /\ k + d \in Nat /\ e + y \in Nat
    BY <1>6, <1>8, <1>12
  <2> HIDE DEF x
  <2>2. (x * r) * (x * r) = (r * r) * X
    BY <1>7
  <2>3. Pow23(k + d, e + y) * Pow23(k + d, e + y) = q * X
    BY <1>12, <2>1, <2>2
  <2> HIDE DEF X
  <2>4. QED
    BY <1>1, <1>11, <2>1, <2>3, AcceptedAt
<1>13. \E y \in 0 .. 4 : LBound(e + y) = RBound(e + y)
  <2>1. CASE q = 6561
    BY <1>12, <2>1, SmallPowers, 6561 = 81 * 81
  <2>2. CASE q = 9216
    BY <1>12, <2>2, SmallPowers, 9216 = 96 * 96
  <2>3. CASE q = 11664
    BY <1>12, <2>3, SmallPowers, 11664 = 108 * 108
  <2>4. CASE q = 16384
    BY <1>12, <2>4, SmallPowers, 16384 = 128 * 128
  <2>5. CASE q = 20736
    BY <1>12, <2>5, SmallPowers, 20736 = 144 * 144
  <2>6. QED
    BY <1>11, <2>1, <2>2, <2>3, <2>4, <2>5
<1>14. QED
  BY <1>13

(* What a call has passed over stays rejected.                             *)
LEMMA RejectedStays ==
  ASSUME RejectedSoFar, IndInv, [Next]_vars
  PROVE  RejectedSoFar'
<1> DEFINE Rejected(x) == x <= Len(job.b_try) /\ LBound(job.b_try[x]) # RBound(job.b_try[x])
<1>1. CASE \E newJob \in Jobs : Call(newJob)
  BY <1>1 DEF Call, CallWith, RejectedSoFar
<1>2. CASE Return
  <2>1. /\ pc = "bounds" /\ LoopDone
        /\ UNCHANGED <<job, z, tried>>
    BY <1>2 DEF Return
  <2>2. LoopDone' = LoopDone /\ \A x : Rejected(x)' = Rejected(x)
    BY <2>1 DEF LoopDone, BoundNegative, b, n, LBound, RBound, UpToB1, UpToB2
  <2>3. QED
    BY <2>1, <2>2 DEF RejectedSoFar
<1>3. CASE Skip
  <2>1. /\ pc = "bounds" /\ pc' = "bounds" /\ ~ LoopDone /\ LBound(b) # RBound(b) /\ z' = z + 1
        /\ UNCHANGED <<job, tried>>
    BY <1>3 DEF Skip, SkipTo
  <2>2. \A x : Rejected(x)' = Rejected(x)
    BY <2>1 DEF n, LBound, RBound, UpToB1, UpToB2
  <2>3. z \in Nat \ {0} /\ Rejected(z)
    BY <2>1 DEF IndInv, TypeOK, LoopDone, b
  <2> SUFFICES ASSUME tried' = {}, NEW x \in 1 .. z' - 1
               PROVE  Rejected(x)'
    BY <2>1 DEF RejectedSoFar
  <2>4. x = z \/ x \in 1 .. z - 1
    BY <2>1, <2>3
  <2>5. x \in 1 .. z - 1 => Rejected(x)
    BY <2>1 DEF RejectedSoFar
  <2> HIDE DEF Rejected
  <2>6. QED
    BY <2>2, <2>3, <2>4, <2>5
<1>4. CASE Start
  BY <1>4 DEF Start, StartWith, RejectedSoFar
<1>5. CASE Step
  <2>1. pc' = "greedy"
    BY <1>5 DEF Step, StepWith, TakeTerm
  <2>2. QED
    BY <2>1 DEF RejectedSoFar
<1>6. CASE Compare
  <2>1. tried' # {}
    BY <1>6 DEF Compare, CompareBy
  <2>2. QED
    BY <2>1 DEF RejectedSoFar
<1>7. CASE UNCHANGED vars
  <2>1. UNCHANGED <<pc, job, z, tried>>
    BY <1>7 DEF vars
  <2>2. LoopDone' = LoopDone /\ \A x : Rejected(x)' = Rejected(x)
    BY <2>1 DEF LoopDone, BoundNegative, b, n, LBound, RBound, UpToB1, UpToB2
  <2>3. QED
    BY <2>1, <2>2 DEF RejectedSoFar
<1>8. QED
  BY <1>1, <1>2, <1>3, <1>4, <1>5, <1>6, <1>7 DEF Next

(* A bound is negative only at an exponent whose power is above n.         *)
LEMMA NegativeAboveN ==
  ASSUME n \in Nat, NEW e \in Nat, Pow3[e] <= n
  PROVE  ~ BoundNegative(e)
<1> DEFINE P == Pow3[e]
           N == n * n
           Q == P * P
<1>1. P \in Nat \ {0} /\ P <= n
  BY Pow3Facts
<1> HIDE DEF P
<1>2. Q <= N /\ Q \in Nat /\ N \in Nat
  BY <1>1, SquaresGrow
<1>3. N >= 1
  <2>1. n >= 1
    BY <1>1
  <2>2. \A u \in Nat, v \in Nat : u <= v => u * u <= v * v
    BY SquaresGrow
  <2>3. 1 * 1 <= n * n
    BY <2>1, <2>2
  <2>4. QED
    BY <2>3
<1>4. /\ 1296 * n * n = 1296 * N /\ 2048 * n * n = 2048 * N
      /\ 98 * P * P = 98 * Q /\ 441 * P * P = 441 * Q
  BY <1>1
<1> HIDE DEF N, Q
<1>5. ~ (1296 * N <= 98 * Q) /\ ~ (2048 * N <= 441 * Q)
  BY <1>2, <1>3
<1>6. QED
  BY <1>4, <1>5 DEF BoundNegative, P

(* A list that tries five consecutive exponents within n before a larger   *)
(* one leads to a chain.                                                   *)
THEOREM FiveSuffice == Spec => []FiveInARowFinds
<1>1. Init => RejectedSoFar
  BY DEF Init, RejectedSoFar
<1>2. RejectedSoFar /\ IndInv => FiveInARowFinds
  <2>1. SUFFICES ASSUME RejectedSoFar, IndInv, pc = "done", tried = {},
                        NEW k \in 0 .. Len(job.b_try), NEW e \in 0 .. MAX_2,
                        e .. e + 4 \subseteq TriedUpTo(k),
                        \A y \in TriedUpTo(k) : Pow3[y] <= n
                 PROVE  FALSE
    BY DEF FiveInARowFinds, FiveInARow
  <2>2. e \in Nat /\ e + 4 \in e .. e + 4 /\ k \in Nat
    <3>1. Len(job.b_try) \in Nat
      <4>1. job \in Jobs \cup {NoJob}
        BY <2>1 DEF IndInv, TypeOK
      <4>2. CASE job \in Jobs
        <5>1. job.b_try \in Seq(0 .. MAX_2)
          BY <4>2, JobsAssumption
        <5>2. QED
          BY <5>1
      <4>3. CASE job = NoJob
        <5>1. job.b_try = <<>>
          BY <4>3 DEF NoJob
        <5>2. QED
          BY <5>1
      <4>4. QED
        BY <4>1, <4>2, <4>3
    <3>2. QED
      BY <3>1, MaxAssumption
  <2>3. Pow3[e + 4] <= n
    BY <2>1, <2>2
  <2>4. PICK w \in 1 .. k : job.b_try[w] = e + 4
    BY <2>1, <2>2 DEF TriedUpTo
  <2>5. job \in Jobs
    <3>1. job \in Jobs \cup {NoJob} /\ Len(job.b_try) > 0
      BY <2>1, <2>2, <2>4 DEF IndInv, TypeOK
    <3>2. QED
      BY <3>1 DEF NoJob
  <2>6. n \in Nat /\ 2 * n < Pow2[MAX_2] /\ job.b_try \in Seq(0 .. MAX_2) /\ z \in Nat \ {0}
    BY <2>1, <2>5, JobsAssumption DEF n, IndInv, TypeOK
  <2>7. PICK y \in e .. e + 4 : LBound(y) = RBound(y)
    BY <2>2, <2>3, <2>6, OneOfFive
  <2>8. PICK x \in 1 .. k : job.b_try[x] = y
    BY <2>1 DEF TriedUpTo
  <2>9. ~ (x \in 1 .. z - 1)
    BY <2>1, <2>7, <2>8 DEF RejectedSoFar
  <2>10. z \in 1 .. k
    BY <2>2, <2>6, <2>8, <2>9, SMTT(60)
  <2>11. job.b_try[z] \in Nat /\ Pow3[job.b_try[z]] <= n /\ z <= Len(job.b_try)
    <3>1. z \in 1 .. Len(job.b_try)
      BY <2>1, <2>2, <2>6, <2>10
    <3>2. job.b_try[z] \in 0 .. MAX_2
      BY <2>6, <3>1, ListEntry DEF b
    <3>3. job.b_try[z] \in TriedUpTo(k)
      BY <2>10 DEF TriedUpTo
    <3>4. QED
      BY <2>1, <3>1, <3>2, <3>3, MaxAssumption
  <2>12. ~ LoopDone
    BY <2>6, <2>11, NegativeAboveN DEF LoopDone, b
  <2>13. QED
    BY <2>1, <2>12 DEF RejectedSoFar
<1>3. RejectedSoFar /\ IndInv /\ [Next]_vars => RejectedSoFar'
  BY RejectedStays
<1>4. QED
  BY <1>1, <1>2, <1>3, Inductive, PTL DEF Spec

-----------------------------------------------------------------------------
(* If the remainder is a power within reach, that power is chosen.         *)
LEMMA ReachChosen ==
  ASSUME a \in Nat, b_temp \in Nat, job.window \in Nat, t = Reach
  PROVE  LET p == NearestOf(Candidates)
         IN  p.alpha = a /\ p.beta = b_temp
<1> DEFINE p == NearestOf(Candidates)
           q == Pow23(p.alpha, p.beta)
<1>1. t \in Nat \ {0}
  BY PowerSteps DEF Reach
<1>2. /\ p.alpha \in 0 .. a /\ p.beta \in 0 .. b_temp
      /\ Gap(p.alpha, p.beta) <= Gap(a, b_temp)
  <2>1. a \in 0 .. a /\ b_temp \in Window
    BY DEF Window, WindowUpTo
  <2>2. QED
    BY <1>1, <2>1, ChosenNearest, NearestInBounds
<1>3. Gap(a, b_temp) = 0
  BY <1>1 DEF Gap, Reach
<1>4. q \in Nat /\ q = t
  <2>1. q \in Nat
    <3>1. p.alpha \in Nat /\ p.beta \in Nat
      BY <1>2
    <3> HIDE DEF p
    <3>2. QED
      BY <3>1, PowerType
  <2> HIDE DEF q
  <2>2. Gap(p.alpha, p.beta) = IF t >= q THEN t - q ELSE q - t
    BY DEF Gap, q
  <2>3. QED
    BY <1>1, <1>2, <1>3, <2>1, <2>2
<1>5. (p.alpha # a \/ p.beta # b_temp) => 2 * q <= Reach
  BY <1>2, PowerBounds DEF Reach
<1> HIDE DEF q
<1>6. p.alpha = a /\ p.beta = b_temp
  BY <1>1, <1>4, <1>5
<1>7. QED
  BY <1>6

(* The chain in work with one more row: what was apart stays so, and the   *)
(* new row repeats the last one only if it completes the chain.            *)
LEMMA StepMeets ==
  ASSUME RowsMeet, BoundsInv, Step
  PROVE  RowsMeet'
<1> USE MaxAssumption
<1>1. PICK chosen : chosen = NearestOf(Candidates) /\ TakeTerm(chosen, -s)
  BY DEF Step, StepWith
<1> DEFINE x == DBC_index
           c == DBC_store[x]
           e == [sign |-> s, dbl |-> chosen.alpha, tpl |-> chosen.beta]
           d == DBC_store'[x]
           p == Pow23(chosen.alpha, chosen.beta)
<1>2. /\ pc = "greedy" /\ t # 0 /\ i \in 0 .. MAX_2 - 1 /\ x \in 0 .. 1 /\ c \in Slot
      /\ DBC_store \in [0 .. 1 -> Slot]
      /\ a \in Nat /\ b_temp \in Nat /\ t \in Nat /\ s \in {-1, 1}
      /\ job \in Jobs \cup {NoJob}
  BY DEF Step, StepWith, BoundsInv, IndInv, TypeOK
<1>3. /\ DBC_store' = [DBC_store EXCEPT ![x][i] = e]
      /\ i' = i + 1 /\ a' = chosen.alpha /\ b_temp' = chosen.beta
      /\ t' = Remainder(p) /\ s' = IF t >= p THEN s ELSE - s
      /\ UNCHANGED <<pc, job, DBC_len, DBC_index, tried>>
  BY <1>1 DEF TakeTerm
<1>4. IndInv'
  BY StepInv DEF BoundsInv
<1>5. /\ d \in Slot /\ d[i] = e /\ \A k \in 0 .. MAX_2 - 1 : k # i => d[k] = c[k]
      /\ DBC_store'[1 - x] = DBC_store[1 - x]
  <2>1. d \in Slot
    BY <1>2, <1>3, <1>4 DEF IndInv, TypeOK
  <2>2. d = [c EXCEPT ![i] = e] /\ DBC_store'[1 - x] = DBC_store[1 - x]
    BY <1>2, <1>3
  <2> HIDE DEF d, e
  <2>3. d[i] = e /\ \A k \in 0 .. MAX_2 - 1 : k # i => d[k] = c[k]
    BY <1>2, <2>2 DEF Slot
  <2>4. QED
    BY <2>1, <2>2, <2>3
<1>6. job.window \in Nat /\ job.window >= 2 /\ n \in Nat /\ n' = n
  <2>1. n > 0
    BY <1>2 DEF BoundsInv, RemainderBelow
  <2>2. job \in Jobs
    BY <1>2, <2>1 DEF n, NoJob
  <2>3. QED
    BY <1>3, <2>2, JobsAssumption DEF n
<1>7. p \in Nat \ {0} /\ p = Reach'
  <2>1. chosen.alpha \in Nat /\ chosen.beta \in Nat
    BY <1>1, <1>2, <1>6, NearestInBounds
  <2>2. QED
    BY <1>3, <2>1, PowerSteps DEF Reach
<1>8. Value(c, i) + s * t = n /\ Value(c, i) \in Int
  <2>1. i \in 0 .. MAX_2
    BY <1>2
  <2>2. Value(c, i) \in Int
    BY <1>2, <2>1, RunningSumsFacts, MaxAssumption DEF Sums, Slot, Value
  <2>3. QED
    BY <1>2, <2>2 DEF BoundsInv, IndInv, DescentInv
<1>9. \A k \in 0 .. i : Value(d, k) = Value(c, k)
  <2> SUFFICES ASSUME NEW k \in 0 .. i PROVE Value(d, k) = Value(c, k)
    OBVIOUS
  <2> HIDE DEF c, d, e
  <2>1. k \in 0 .. MAX_2 /\ \A l \in 0 .. k - 1 : d[l] = c[l]
    BY <1>2, <1>5
  <2>2. QED
    BY <1>2, <1>5, <2>1, SameSums, MaxAssumption DEF Value, Sums, Slot
<1>10. \A k \in 1 .. i : Apart(d, k) <=> Apart(c, k)
  <2> SUFFICES ASSUME NEW k \in 1 .. i PROVE Apart(d, k) <=> Apart(c, k)
    OBVIOUS
  <2>1. k \in 0 .. i /\ k - 1 \in 0 .. MAX_2 - 1 /\ k - 1 # i
    BY <1>2
  <2>2. d[k - 1] = c[k - 1] /\ Value(d, k) = Value(c, k)
    BY <1>5, <1>9, <2>1
  <2> HIDE DEF c, d
  <2>3. QED
    BY <2>2 DEF Apart
<1>11. /\ MeetsAtEnd(c, i)
       /\ i > 1 => Apart(c, i - 1)
       /\ t = Reach /\ i > 0 => s = c[i - 1].sign
       /\ tried # {} => MeetsAtEnd(DBC_store[1 - x], DBC_len[1 - x])
  BY <1>2 DEF RowsMeet, min_index
<1>12. \A k \in 1 .. i - 1 : Apart(d, k)
  <2> SUFFICES ASSUME NEW k \in 1 .. i - 1 PROVE Apart(c, k)
    BY <1>2, <1>10
  <2> HIDE DEF c
  <2>1. QED
    BY <1>2, <1>11 DEF MeetsAtEnd
<1>13. ASSUME i > 0, ~ Apart(d, i)
       PROVE  t' = 0 /\ d[i] = d[i - 1]
  <2>1. ~ Apart(c, i)
    BY <1>2, <1>10, <1>13
  <2>2. /\ c[i - 1] \in Entry /\ c[i - 1].sign \in {-1, 1}
        /\ c[i - 1].dbl = a /\ c[i - 1].tpl = b_temp
    <3>1. i - 1 \in 0 .. MAX_2 - 1 /\ i - 1 \in 0 .. i - 1
      BY <1>2, <1>13
    <3>2. c[i - 1] \in Entry
      BY <1>2, <3>1 DEF Slot
    <3>3. IsChain(c, i) /\ a = c[i - 1].dbl /\ b_temp = c[i - 1].tpl
      BY <1>2, <1>13 DEF BoundsInv, IndInv, DescentInv, BoundsAreLast
    <3> HIDE DEF c
    <3>4. QED
      BY <3>1, <3>2, <3>3 DEF IsChain
  <2> DEFINE m == c[i - 1].sign
             v == Value(c, i)
  <2>3. TermValue(c[i - 1]) = m * Reach
    BY <2>2 DEF TermValue, Reach
  <2>4. Reach \in Nat \ {0}
    BY <1>2, PowerSteps DEF Reach
  <2>5. n - v \in {0, m * Reach, - (m * Reach)}
    BY <2>1, <2>3 DEF Apart
  <2>6. m \in {-1, 1} /\ v \in Int /\ n - v = s * t
    <3>1. v \in Int /\ v + s * t = n
      BY <1>8
    <3> HIDE DEF v
    <3>2. s * t \in Int
      BY <1>2
    <3>3. n - v = s * t
      BY <1>6, <3>1, <3>2
    <3>4. QED
      BY <2>2, <3>1, <3>3
  <2> HIDE DEF m, v
  <2>7. t = Reach
    <3>1. s * t \in {t, - t} /\ m * Reach \in {Reach, - Reach}
      <4>1. \A g \in {-1, 1}, u \in Nat : g * u \in {u, - u}
        OBVIOUS
      <4>2. QED
        BY <1>2, <2>4, <2>6, <4>1
    <3>2. s * t \in {0, m * Reach, - (m * Reach)}
      BY <2>5, <2>6
    <3>3. QED
      BY <1>2, <2>4, <3>1, <3>2
  <2>8. chosen.alpha = a /\ chosen.beta = b_temp /\ p = t
    <3>1. chosen.alpha = a /\ chosen.beta = b_temp
      BY <1>1, <1>2, <1>6, <2>7, ReachChosen
    <3>2. QED
      BY <2>7, <3>1 DEF Reach
  <2>9. t' = 0
    BY <1>2, <1>3, <2>8 DEF Remainder
  <2>10. s = m
    BY <1>11, <1>13, <2>7 DEF m
  <2>11. d[i - 1] = c[i - 1]
    <3>1. i - 1 \in 0 .. MAX_2 - 1 /\ i - 1 # i
      BY <1>2, <1>13
    <3>2. QED
      BY <1>5, <3>1
  <2>12. e = c[i - 1]
    <3>1. e = [sign |-> m, dbl |-> a, tpl |-> b_temp]
      BY <2>8, <2>10
    <3>2. \A y \in Entry : y = [sign |-> y.sign, dbl |-> y.dbl, tpl |-> y.tpl]
      BY DEF Entry
    <3> HIDE DEF e, c
    <3>3. c[i - 1] = [sign |-> c[i - 1].sign, dbl |-> c[i - 1].dbl, tpl |-> c[i - 1].tpl]
      BY <2>2, <3>2
    <3>4. QED
      BY <2>2, <3>1, <3>3 DEF m
  <2>13. QED
    BY <1>5, <2>9, <2>11, <2>12
<1>14. t' = Reach' => s' = d[i].sign
  <2>1. d[i].sign = s
    BY <1>5
  <2>2. t >= p \/ t' # p
    BY <1>2, <1>3, <1>7 DEF Remainder
  <2>3. QED
    BY <1>3, <1>7, <2>1, <2>2
<1> HIDE DEF c, e, p
<1>15. MeetsAtEnd(d, i + 1)
  <2> SUFFICES ASSUME NEW k \in 1 .. (i + 1) - 1
               PROVE  Apart(d, k) \/ (k = (i + 1) - 1 /\ d[k] = d[k - 1])
    BY DEF MeetsAtEnd
  <2> HIDE DEF d
  <2>1. k = i \/ k \in 1 .. i - 1
    BY <1>2
  <2>2. CASE k = i
    BY <1>2, <1>13, <2>2
  <2>3. CASE k \in 1 .. i - 1
    BY <1>12, <2>3
  <2>4. QED
    BY <2>1, <2>2, <2>3
<1>16. t' # 0 /\ i + 1 > 1 => Apart(d, i)
  BY <1>2, <1>13
<1>17. min_index' = 1 - x /\ DBC_index' = x /\ DBC_len' = DBC_len
  BY <1>3 DEF min_index
<1>18. /\ i' = i + 1 /\ (i + 1) - 1 = i
  BY <1>2, <1>3
<1>19. pc' = "greedy" =>
         LET f == DBC_store[DBC_index] IN
         (/\ MeetsAtEnd(f, i)
          /\ t # 0 /\ i > 1 => Apart(f, i - 1)
          /\ t = Reach /\ i > 0 => s = f[i - 1].sign)'
  BY <1>6, <1>14, <1>15, <1>16, <1>17, <1>18 DEF MeetsAtEnd, Apart
<1>20. tried' # {} => MeetsAtEnd(DBC_store[min_index], DBC_len[min_index])'
  <2>1. tried' # {} => MeetsAtEnd(DBC_store[1 - x], DBC_len[1 - x])
    BY <1>3, <1>11
  <2>2. DBC_store'[min_index'] = DBC_store[1 - x] /\ DBC_len'[min_index'] = DBC_len[1 - x]
    BY <1>5, <1>17
  <2> HIDE DEF d, x
  <2>3. QED
    BY <1>6, <2>1, <2>2 DEF MeetsAtEnd, Apart
<1>21. QED
  BY <1>19, <1>20 DEF RowsMeet

(* The chain kept is the one in work or the one kept before.               *)
LEMMA CompareMeets ==
  ASSUME RowsMeet, IndInv, Compare
  PROVE  RowsMeet'
<1> DEFINE x == DBC_index
           y == 1 - x
<1>1. /\ pc = "greedy" /\ x \in 0 .. 1 /\ i \in 0 .. MAX_2
      /\ DBC_len \in [0 .. 1 -> (0 .. MAX_2) \cup {Unset}]
  BY DEF Compare, CompareBy, IndInv, TypeOK
<1>2. /\ DBC_len' = [DBC_len EXCEPT ![x] = i] /\ DBC_store' = DBC_store
      /\ pc' \in {"bounds", "done"} /\ tried' # {} /\ n' = n
      /\ DBC_index' \in 0 .. 1
  BY DEF Compare, CompareBy, Overwrite, n
<1>3. IndInv'
  BY CompareInv
<1>4. min_index' \in {x, y} /\ min_index = y
  <2>1. x \in {0, 1} /\ y = 1 - x /\ DBC_index' \in {0, 1}
    BY <1>1, <1>2
  <2>2. (x = 0 /\ y = 1) \/ (x = 1 /\ y = 0)
    BY <2>1
  <2>3. 1 - DBC_index' \in {0, 1}
    <3>1. \A u \in {0, 1} : 1 - u \in {0, 1}
      OBVIOUS
    <3>2. QED
      BY <2>1, <3>1
  <2> HIDE DEF x, y
  <2>4. 1 - DBC_index' \in {x, y}
    BY <2>2, <2>3
  <2>5. QED
    BY <2>4 DEF min_index, x, y
<1>5. DBC_len'[x] = i /\ DBC_len'[y] = DBC_len[y]
  BY <1>1, <1>2
<1>6. MeetsAtEnd(DBC_store[x], i) /\ (tried # {} => MeetsAtEnd(DBC_store[y], DBC_len[y]))
  BY <1>1, <1>4 DEF RowsMeet
<1> DEFINE f == DBC_store[min_index']
           l == DBC_len'[min_index']
<1>7. MeetsAtEnd(f, l)
  <2>1. CASE min_index' = x
    BY <1>5, <1>6, <2>1
  <2>2. CASE min_index' = y
    <3>1. tried # {}
      <4>1. SUFFICES ASSUME tried = {} PROVE FALSE
        OBVIOUS
      <4>2. x = 0 /\ DBC_len[y] = Unset
        BY <1>1, <4>1 DEF IndInv, FirstInSlot0
      <4>3. DBC_len'[min_index'] \in 0 .. MAX_2
        BY <1>2, <1>3 DEF IndInv, KeptSlot
      <4>4. QED
        BY <1>5, <2>2, <4>2, <4>3, SizeAssumption, MaxAssumption DEF Unset
    <3>2. QED
      BY <1>5, <1>6, <2>2, <3>1
  <2>3. QED
    BY <1>4, <2>1, <2>2
<1>8. MeetsAtEnd(DBC_store[min_index], DBC_len[min_index])'
  BY <1>2, <1>7 DEF MeetsAtEnd, Apart
<1>9. QED
  BY <1>2, <1>8 DEF RowsMeet

(* Every step keeps the rows apart.                                        *)
LEMMA NextMeets == RowsMeet /\ BoundsInv /\ [Next]_vars => RowsMeet'
<1> SUFFICES ASSUME RowsMeet, BoundsInv, [Next]_vars PROVE RowsMeet'
  OBVIOUS
<1>1. CASE \E newJob \in Jobs : Call(newJob)
  BY <1>1 DEF Call, CallWith, RowsMeet
<1>2. CASE Return \/ Skip
  <2>1. /\ pc = "bounds" /\ pc' \in {"bounds", "done"}
        /\ UNCHANGED <<job, DBC_store, DBC_len, DBC_index, tried>>
    BY <1>2 DEF Return, Skip, SkipTo
  <2>2. QED
    BY <2>1 DEF RowsMeet, MeetsAtEnd, Apart, min_index, n
<1>3. CASE Start
  <2>1. /\ pc = "bounds" /\ pc' = "greedy" /\ i' = 0
        /\ UNCHANGED <<job, DBC_store, DBC_len, DBC_index, tried>>
    BY <1>3 DEF Start, StartWith
  <2>2. tried' # {} => MeetsAtEnd(DBC_store[min_index], DBC_len[min_index])'
    BY <2>1 DEF RowsMeet, MeetsAtEnd, Apart, min_index, n
  <2>3. MeetsAtEnd(DBC_store[DBC_index], i)'
    BY <2>1 DEF MeetsAtEnd
  <2>4. QED
    BY <2>1, <2>2, <2>3 DEF RowsMeet
<1>4. CASE Step
  BY <1>4, StepMeets
<1>5. CASE Compare
  BY <1>5, CompareMeets DEF BoundsInv
<1>6. CASE UNCHANGED vars
  BY <1>6 DEF vars, chainVars, RowsMeet, MeetsAtEnd, Apart, min_index, n, Reach
<1>7. QED
  BY <1>1, <1>2, <1>3, <1>4, <1>5, <1>6 DEF Next

(* On a chain that a call returns, run_DBC_v2 adds no two equal or         *)
(* opposite points and no infinity, but for two equal last rows.           *)
THEOREM RowsMeetAtEnd == Spec => []OnlyLastRowsMeet
<1>1. Init => RowsMeet
  BY DEF Init, RowsMeet
<1>2. RowsMeet /\ BoundsInv => OnlyLastRowsMeet
  <2>1. SUFFICES ASSUME RowsMeet, BoundsInv, pc = "done", tried # {}
                 PROVE  LET c == DBC_store[min_index]
                            l == DBC_len[min_index]
                        IN  \A k \in 1 .. l - 1 :
                              Suffix(c, k, l) \in {0, TermValue(c[k - 1]), - TermValue(c[k - 1])}
                                => k = l - 1 /\ c[k] = c[k - 1]
    BY DEF OnlyLastRowsMeet
  <2>2. Value(DBC_store[min_index], DBC_len[min_index]) = n
    BY <2>1 DEF BoundsInv, IndInv, KeptSlot
  <2>3. MeetsAtEnd(DBC_store[min_index], DBC_len[min_index])
    BY <2>1 DEF RowsMeet
  <2>4. QED
    BY <2>2, <2>3 DEF MeetsAtEnd, Apart, Suffix
<1>3. QED
  BY <1>1, <1>2, NextMeets, Bounded, PTL DEF Spec

-----------------------------------------------------------------------------
(* What a call costs.  Two calls with the same arguments find different    *)
(* left-overs in the store, so they need not return the same slot, nor the *)
(* same chain; but the costs they compare are the same, because every step *)
(* is a function of the part of the state below, its Core.                 *)

(* The states a function f on S leads to from c.                           *)
ClosedUnder(f, T) == \A x \in T : f[x] \in T
Orbit(S, f, c)    == {x \in S : \A T \in SUBSET S : (c \in T /\ ClosedUnder(f, T)) => x \in T}

(* An orbit contains its start and is closed.                              *)
LEMMA OrbitGrows ==
  ASSUME NEW S, NEW f \in [S -> S], NEW c \in S
  PROVE  /\ c \in Orbit(S, f, c)
         /\ \A x \in Orbit(S, f, c) : f[x] \in Orbit(S, f, c)
  BY DEF Orbit, ClosedUnder

(* It ends in one state at most.                                           *)
LEMMA OneEnd ==
  ASSUME NEW S, NEW f \in [S -> S], NEW c \in S,
         NEW d \in Orbit(S, f, c), NEW e \in Orbit(S, f, c),
         f[d] = d, f[e] = e
  PROVE  d = e
<1> DEFINE T == {y \in S : d \in Orbit(S, f, y)}
<1>1. c \in T /\ T \in SUBSET S
  OBVIOUS
<1>2. ASSUME NEW y \in T PROVE f[y] \in T
  <2>1. y \in S /\ f[y] \in S /\ d \in S /\ d \in Orbit(S, f, y)
    BY DEF Orbit
  <2>2. ASSUME NEW U \in SUBSET S, f[y] \in U, ClosedUnder(f, U) PROVE d \in U
    <3>1. U \cup {y} \in SUBSET S /\ y \in U \cup {y} /\ ClosedUnder(f, U \cup {y})
      BY <2>1, <2>2 DEF ClosedUnder
    <3>2. d \in U \cup {y}
      BY <2>1, <3>1 DEF Orbit
    <3>3. QED
      BY <2>2, <3>2
  <2>3. d \in Orbit(S, f, f[y])
    BY <2>1, <2>2 DEF Orbit
  <2>4. QED
    BY <2>1, <2>3
<1>3. e \in T
  <2> HIDE DEF T
  <2>1. ClosedUnder(f, T)
    BY <1>2 DEF ClosedUnder
  <2>2. QED
    BY <1>1, <2>1 DEF Orbit
<1>4. {e} \in SUBSET S /\ e \in {e} /\ ClosedUnder(f, {e})
  BY DEF ClosedUnder, Orbit
<1>5. d \in Orbit(S, f, e)
  BY <1>3
<1>6. d \in {e}
  BY <1>4, <1>5 DEF Orbit
<1>7. QED
  BY <1>6

(* GreedyChain with the arguments and the chain in work given.             *)
At(J, A, B, T) == INSTANCE GreedyChain WITH job <- J, a <- A, b_temp <- B, t <- T

(* Between two chains the call is known by its place in the list and by    *)
(* the costs tried; in a descent also by its bounds, its remainder and the *)
(* first of the terms taken.                                               *)
CoreOf(where, place, count, costs, A, B, T, len, D, E) ==
  [pc |-> where, z |-> place, count |-> count, tried |-> costs,
   a |-> A, b |-> B, t |-> T, i |-> len, dbl |-> D, tpl |-> E]

Between(where, place, count, costs) == CoreOf(where, place, count, costs, 0, 0, 0, 0, 0, 0)

FirstOf(part) == IF i = 0 THEN 0 ELSE part

Core ==
  IF pc = "greedy"
  THEN CoreOf(pc, z, count_DBC, tried, a, b_temp, t, i,
              FirstOf(DBC_store[DBC_index][0].dbl), FirstOf(DBC_store[DBC_index][0].tpl))
  ELSE Between(pc, z, count_DBC, tried)

Cores == [pc : {"bounds", "greedy", "done"}, z : Nat \ {0}, count : Nat, tried : SUBSET Nat,
          a : Nat, b : Nat, t : Nat, i : Nat, dbl : Nat, tpl : Nat]

(* The step a call takes from a core.                                      *)
Ended(J, c) == c.z <= Len(J.b_try) => At(J, 0, 0, 0)!BoundNegative(J.b_try[c.z])

Accepted(J, e) == At(J, 0, 0, 0)!LBound(e) = At(J, 0, 0, 0)!RBound(e)

AfterLook(J, c) ==
  LET e == J.b_try[c.z] IN
  IF Ended(J, c) THEN Between("done", c.z, c.count, c.tried)
  ELSE IF Accepted(J, e)
       THEN CoreOf("greedy", c.z, c.count, c.tried, At(J, 0, 0, 0)!RBound(e), e, J.n, 0, 0, 0)
       ELSE Between("bounds", c.z + 1, c.count, c.tried)

AfterTerm(J, c) ==
  LET p == NearestOf(At(J, c.a, c.b, c.t)!Candidates) IN
  CoreOf("greedy", c.z, c.count, c.tried, p.alpha, p.beta,
         At(J, c.a, c.b, c.t)!Remainder(Pow23(p.alpha, p.beta)), c.i + 1,
         IF c.i = 0 THEN p.alpha ELSE c.dbl, IF c.i = 0 THEN p.beta ELSE c.tpl)

AfterChain(J, c) ==
  LET costs == c.tried \cup {c.i * J.price.add + c.dbl * J.price.dbl + c.tpl * J.price.tpl} IN
  IF c.count + 1 > J.dbc_coef THEN Between("done", c.z, c.count + 1, costs)
                              ELSE Between("bounds", c.z + 1, c.count + 1, costs)

After(J, c) == CASE c.pc = "bounds" -> AfterLook(J, c)
                 [] c.pc = "greedy" -> IF c.t # 0 THEN AfterTerm(J, c) ELSE AfterChain(J, c)
                 [] c.pc = "done"   -> c

Advance(J) == [c \in Cores |-> IF After(J, c) \in Cores THEN After(J, c) ELSE c]
Course(J)  == Orbit(Cores, Advance(J), Between("bounds", 1, 0, {}))

(* The cost of the cheapest chain that a call with arguments J builds.     *)
Cheapest(m, costs) == m \in costs /\ \A x \in costs : m <= x
GreedyCost(J)      == CHOOSE m : \E c \in Course(J) : c.pc = "done" /\ Cheapest(m, c.tried)

OnCourse == pc # "idle" => Core \in Course(job)

(* The core of a running or finished call has the types above.             *)
LEMMA CoreType == IndInv /\ pc # "idle" => Core \in Cores
<1> SUFFICES ASSUME IndInv, pc # "idle" PROVE Core \in Cores
  OBVIOUS
<1>1. /\ pc \in {"bounds", "greedy", "done"} /\ z \in Nat \ {0} /\ count_DBC \in Nat
      /\ tried \in SUBSET Nat /\ a \in Nat /\ b_temp \in Nat /\ t \in Nat /\ i \in Nat
  BY MaxAssumption DEF IndInv, TypeOK
<1>2. DBC_store[DBC_index][0].dbl \in Nat /\ DBC_store[DBC_index][0].tpl \in Nat
  <2>1. DBC_store[DBC_index] \in Slot /\ 0 \in 0 .. MAX_2 - 1
    BY MaxAssumption DEF IndInv, TypeOK
  <2>2. QED
    BY <2>1 DEF Slot, Entry
<1>3. /\ FirstOf(DBC_store[DBC_index][0].dbl) \in Nat
      /\ FirstOf(DBC_store[DBC_index][0].tpl) \in Nat
  BY <1>2 DEF FirstOf
<1>4. QED
  BY <1>1, <1>3 DEF Core, CoreOf, Between, Cores

(* What a step reads of the arguments and of the chain in work.            *)
LEMMA SameBounds ==
  ASSUME NEW e
  PROVE  /\ At(job, 0, 0, 0)!BoundNegative(e) = BoundNegative(e)
         /\ At(job, 0, 0, 0)!LBound(e) = LBound(e)
         /\ At(job, 0, 0, 0)!RBound(e) = RBound(e)
<1>1. At(job, 0, 0, 0)!BoundNegative(e) = BoundNegative(e)
  BY DEF At!BoundNegative, At!Pow3, At!n, BoundNegative, Pow3, n
<1>2. ASSUME NEW S PROVE At(job, 0, 0, 0)!Cardinality(S) = Cardinality(S)
  BY DEF At!Cardinality, Cardinality
<1>3. At(job, 0, 0, 0)!LBound(e) = LBound(e)
  BY <1>2 DEF At!LBound, At!UpToB1, At!Pow23, At!Pow2, At!Pow3, At!n,
              LBound, UpToB1, Pow23, Pow2, Pow3, n
<1>4. At(job, 0, 0, 0)!RBound(e) = RBound(e)
  BY <1>2 DEF At!RBound, At!UpToB2, At!Pow23, At!Pow2, At!Pow3, At!n,
              RBound, UpToB2, Pow23, Pow2, Pow3, n
<1>5. QED
  BY <1>1, <1>3, <1>4

(* The choice of a term reads the window, the bounds and the remainder.    *)
LEMMA SameChoice ==
  ASSUME NEW A, NEW B, NEW T, A = a, B = b_temp, T = t
  PROVE  /\ At(job, A, B, T)!Candidates = Candidates
         /\ \A p : At(job, A, B, T)!Remainder(p) = Remainder(p)
<1>1. ASSUME NEW S PROVE At(job, a, b_temp, t)!Cardinality(S) = Cardinality(S)
  BY DEF At!Cardinality, Cardinality
<1>2. ASSUME NEW j PROVE At(job, a, b_temp, t)!Below(j) = Below(j)
  BY <1>1 DEF At!Below, At!Pow23, At!Pow2, At!Pow3, Below, Pow23, Pow2, Pow3
<1>3. ASSUME NEW d, NEW j PROVE At(job, a, b_temp, t)!Gap(d, j) = Gap(d, j)
  BY DEF At!Gap, At!Pow23, At!Pow2, At!Pow3, Gap, Pow23, Pow2, Pow3
<1>4. ASSUME NEW j PROVE At(job, a, b_temp, t)!Alpha(j) = Alpha(j)
  BY <1>2, <1>3 DEF At!Alpha, At!AlphaWithin, At!Pow3, Alpha, AlphaWithin, Pow3
<1>5. At(job, a, b_temp, t)!Candidates = Candidates
  <2>1. At(job, a, b_temp, t)!Window = Window
    BY DEF At!Window, At!WindowUpTo, Window, WindowUpTo
  <2>2. ASSUME NEW j
        PROVE  At(job, a, b_temp, t)!Power(At(job, a, b_temp, t)!Alpha(j), j) = Power(Alpha(j), j)
    BY <1>3, <1>4 DEF At!Power, Power
  <2>3. QED
    BY <2>1, <2>2 DEF At!Candidates, Candidates
<1>6. \A p : At(job, a, b_temp, t)!Remainder(p) = Remainder(p)
  BY DEF At!Remainder, Remainder
<1>7. QED
  BY <1>5, <1>6

(* A look at the list leaves a core that depends on the one before alone.  *)
LEMMA LookFollows ==
  ASSUME BoundsInv, Return \/ Skip \/ Start
  PROVE  Core' = After(job, Core)
<1>1. pc = "bounds" /\ Core = Between("bounds", z, count_DBC, tried)
  BY DEF Return, Skip, SkipTo, Start, StartWith, Core
<1>2. /\ Core.pc = "bounds" /\ Core.z = z /\ Core.count = count_DBC /\ Core.tried = tried
  BY <1>1 DEF Between, CoreOf
<1> HIDE DEF Core
<1>3. After(job, Core) = AfterLook(job, Core)
  BY <1>2 DEF After
<1>4. Ended(job, Core) = LoopDone
  BY <1>2, SameBounds DEF Ended, LoopDone, b
<1>5. Accepted(job, b) = (LBound(b) = RBound(b))
  BY SameBounds DEF Accepted
<1>6. CASE Return
  BY <1>2, <1>3, <1>4, <1>6 DEF Return, AfterLook, Core
<1>7. CASE Skip
  BY <1>2, <1>3, <1>4, <1>5, <1>7 DEF Skip, SkipTo, AfterLook, Core, b
<1>8. CASE Start
  <2>1. /\ ~ LoopDone /\ LBound(b) = RBound(b) /\ pc' = "greedy"
        /\ a' = RBound(b) /\ b_temp' = b /\ t' = n /\ i' = 0
        /\ UNCHANGED <<job, DBC_store, DBC_len, DBC_index, z, count_DBC, tried>>
    BY <1>8 DEF Start, StartWith
  <2>2. Core' = CoreOf("greedy", z, count_DBC, tried, RBound(b), b, n, 0, 0, 0)
    BY <2>1 DEF Core, FirstOf
  <2>3. AfterLook(job, Core)
          = CoreOf("greedy", z, count_DBC, tried, RBound(b), b, n, 0, 0, 0)
    BY <1>2, <1>4, <1>5, <2>1, SameBounds DEF AfterLook, b, n
  <2>4. QED
    BY <1>3, <2>2, <2>3
<1>9. QED
  BY <1>6, <1>7, <1>8

(* So does a term: that the first row is the one taken first, and stays.   *)
LEMMA TermFollows ==
  ASSUME BoundsInv, Step
  PROVE  Core' = After(job, Core)
<1> USE MaxAssumption
<1> DEFINE x == DBC_index
           p == NearestOf(Candidates)
<1>1. PICK chosen : chosen = NearestOf(Candidates) /\ TakeTerm(chosen, -s)
  BY DEF Step, StepWith
<1>2. /\ pc = "greedy" /\ t # 0 /\ i \in 0 .. MAX_2 - 1 /\ x \in 0 .. 1
      /\ DBC_store \in [0 .. 1 -> Slot]
  BY DEF Step, StepWith, BoundsInv, IndInv, TypeOK
<1>3. /\ DBC_store' = [DBC_store EXCEPT ![x][i] = [sign |-> s, dbl |-> p.alpha, tpl |-> p.beta]]
      /\ t' = Remainder(Pow23(p.alpha, p.beta))
      /\ i' = i + 1 /\ a' = p.alpha /\ b_temp' = p.beta
      /\ UNCHANGED <<pc, job, DBC_len, DBC_index, z, count_DBC, tried>>
  BY <1>1 DEF TakeTerm
<1> HIDE DEF p
<1> DEFINE D == FirstOf(DBC_store[x][0].dbl)
           E == FirstOf(DBC_store[x][0].tpl)
<1>4. /\ FirstOf(DBC_store[x][0].dbl)' = (IF i = 0 THEN p.alpha ELSE D)
      /\ FirstOf(DBC_store[x][0].tpl)' = (IF i = 0 THEN p.beta ELSE E)
  <2>1. DBC_store[x] \in Slot /\ 0 \in 0 .. MAX_2 - 1
    BY <1>2
  <2>2. /\ i = 0 => DBC_store'[x][0] = [sign |-> s, dbl |-> p.alpha, tpl |-> p.beta]
        /\ i # 0 => DBC_store'[x][0] = DBC_store[x][0]
    BY <1>2, <1>3, <2>1 DEF Slot
  <2>3. x' = x /\ i' # 0
    BY <1>2, <1>3
  <2>4. QED
    BY <2>2, <2>3 DEF FirstOf
<1>5. Core' = CoreOf("greedy", z, count_DBC, tried, p.alpha, p.beta,
                     Remainder(Pow23(p.alpha, p.beta)), i + 1,
                     IF i = 0 THEN p.alpha ELSE D, IF i = 0 THEN p.beta ELSE E)
  BY <1>2, <1>3, <1>4 DEF Core
<1>6. Core = CoreOf("greedy", z, count_DBC, tried, a, b_temp, t, i, D, E)
  BY <1>2 DEF Core
<1> HIDE DEF D, E
<1>7. /\ Core.pc = "greedy" /\ Core.z = z /\ Core.count = count_DBC /\ Core.tried = tried
      /\ Core.a = a /\ Core.b = b_temp /\ Core.t = t /\ Core.i = i
      /\ Core.dbl = D /\ Core.tpl = E
  BY <1>6 DEF CoreOf
<1>8. /\ At(job, Core.a, Core.b, Core.t)!Candidates = Candidates
      /\ \A y : At(job, Core.a, Core.b, Core.t)!Remainder(y) = Remainder(y)
  BY <1>7, SameChoice
<1>9. After(job, Core) = AfterTerm(job, Core)
  BY <1>2, <1>7 DEF After
<1>10. AfterTerm(job, Core)
         = CoreOf("greedy", z, count_DBC, tried, p.alpha, p.beta,
                  Remainder(Pow23(p.alpha, p.beta)), i + 1,
                  IF i = 0 THEN p.alpha ELSE D, IF i = 0 THEN p.beta ELSE E)
  BY <1>7, <1>8 DEF AfterTerm, p
<1>11. QED
  BY <1>5, <1>9, <1>10

(* And the cost of a finished chain, which has at least one term.          *)
LEMMA ChainFollows ==
  ASSUME BoundsInv, Compare
  PROVE  Core' = After(job, Core)
<1> DEFINE D == DBC_store[DBC_index][0].dbl
           E == DBC_store[DBC_index][0].tpl
           cost == i * job.price.add + D * job.price.dbl + E * job.price.tpl
<1>1. /\ pc = "greedy" /\ t = 0
      /\ tried' = tried \cup {JobCost(DBC_store[DBC_index], i)}
      /\ count_DBC' = count_DBC + 1
      /\ IF count_DBC' > job.dbc_coef THEN pc' = "done" /\ z' = z
                                      ELSE pc' = "bounds" /\ z' = z + 1
  BY DEF Compare, CompareBy
<1>2. i # 0
  BY <1>1 DEF BoundsInv, RemainderBelow
<1>3. JobCost(DBC_store[DBC_index], i) = cost
  BY DEF JobCost, CostAt
<1>4. Core = CoreOf("greedy", z, count_DBC, tried, a, b_temp, t, i, D, E)
  BY <1>1, <1>2 DEF Core, FirstOf
<1>5. Core' = IF count_DBC + 1 > job.dbc_coef
              THEN Between("done", z, count_DBC + 1, tried \cup {cost})
              ELSE Between("bounds", z + 1, count_DBC + 1, tried \cup {cost})
  BY <1>1, <1>3 DEF Core
<1>6. /\ Core.pc = "greedy" /\ Core.z = z /\ Core.count = count_DBC /\ Core.tried = tried
      /\ Core.t = 0 /\ Core.i = i /\ Core.dbl = D /\ Core.tpl = E
  BY <1>1, <1>4 DEF CoreOf
<1>7. After(job, Core) = AfterChain(job, Core)
  BY <1>6 DEF After
<1> HIDE DEF Core, D, E
<1>8. QED
  BY <1>5, <1>6, <1>7 DEF AfterChain

(* A call starts on its course, whatever the store holds.                  *)
LEMMA CallCourse ==
  ASSUME NEW newJob, Call(newJob)
  PROVE  OnCourse'
<1> DEFINE c0 == Between("bounds", 1, 0, {})
<1>1. pc' = "bounds" /\ z' = 1 /\ count_DBC' = 0 /\ tried' = {}
  BY DEF Call, CallWith
<1>2. Core' = c0 /\ c0 \in Cores
  BY <1>1 DEF Core, Between, CoreOf, Cores
<1>3. Advance(job)' \in [Cores -> Cores]
  BY DEF Advance
<1> HIDE DEF c0, Core
<1>4. c0 \in Orbit(Cores, Advance(job)', c0)
  BY <1>2, <1>3, OrbitGrows
<1>5. QED
  BY <1>2, <1>4 DEF OnCourse, Course, c0

(* And follows it.                                                         *)
LEMMA CourseStays ==
  ASSUME OnCourse, BoundsInv, [Next]_vars
  PROVE  OnCourse'
<1>1. IndInv /\ IndInv'
  BY NextInv DEF BoundsInv
<1>2. \A J : Advance(J) \in [Cores -> Cores]
  BY DEF Advance
<1>3. (IndInv /\ pc # "idle" => Core \in Cores)'
  BY CoreType, PTL
<1>4. CASE \E newJob \in Jobs : Call(newJob)
  BY <1>4, CallCourse
<1>5. CASE Return \/ Skip \/ Start \/ Step \/ Compare
  <2>1. Core' = After(job, Core)
    BY <1>5, LookFollows, TermFollows, ChainFollows
  <2>2. job' = job /\ pc # "idle" /\ pc' # "idle"
    BY <1>5 DEF Return, Skip, SkipTo, Start, StartWith, Step, StepWith, TakeTerm,
                Compare, CompareBy
  <2>3. Core \in Cores /\ Core' \in Cores
    BY <1>1, <1>3, <2>2, CoreType
  <2>4. Core \in Course(job)
    BY <2>2 DEF OnCourse
  <2> HIDE DEF Core
  <2>5. Advance(job)[Core] = After(job, Core)
    BY <2>1, <2>3 DEF Advance
  <2>6. Between("bounds", 1, 0, {}) \in Cores
    BY DEF Between, CoreOf, Cores
  <2>7. Advance(job)[Core] \in Course(job)
    BY <1>2, <2>4, <2>6, OrbitGrows DEF Course
  <2>8. QED
    BY <2>1, <2>2, <2>5, <2>7 DEF OnCourse
<1>6. CASE UNCHANGED vars
  BY <1>6 DEF vars, chainVars, OnCourse, Core, FirstOf
<1>7. QED
  BY <1>4, <1>5, <1>6 DEF Next

(* The kept chain costs what the arguments say.                            *)
KeptCost ==
  (pc = "done" /\ tried # {}) => JobCost(DBC_store[min_index], DBC_len[min_index]) = GreedyCost(job)

(* At the end of the course the cost of the chain kept is that of the job. *)
LEMMA CourseDecides ==
  ASSUME OnCourse, BoundsInv
  PROVE  KeptCost
<1> SUFFICES ASSUME pc = "done", tried # {}
             PROVE  JobCost(DBC_store[min_index], DBC_len[min_index]) = GreedyCost(job)
  BY DEF KeptCost
<1> DEFINE m == JobCost(DBC_store[min_index], DBC_len[min_index])
           f == Advance(job)
           c0 == Between("bounds", 1, 0, {})
<1>1. Core.pc = "done" /\ Core.tried = tried /\ Core \in Course(job) /\ Core \in Cores
  BY CoreType DEF OnCourse, Core, Between, CoreOf, BoundsInv
<1>2. Cheapest(m, tried)
  BY DEF BoundsInv, IndInv, KeptSlot, Cheapest
<1>3. f \in [Cores -> Cores] /\ c0 \in Cores
  BY DEF Advance, Between, CoreOf, Cores
<1> HIDE DEF m, Core
<1>4. ASSUME NEW c \in Course(job), c.pc = "done" PROVE c = Core
  <2>1. c \in Cores
    BY <1>4 DEF Course, Orbit
  <2>2. f[c] = c /\ f[Core] = Core
    BY <1>1, <1>4, <2>1 DEF Advance, After
  <2> HIDE DEF f, c0
  <2>3. c \in Orbit(Cores, f, c0) /\ Core \in Orbit(Cores, f, c0)
    BY <1>1, <1>4 DEF Course, f, c0
  <2>4. QED
    BY <1>3, <2>2, <2>3, OneEnd
<1>5. tried \subseteq Nat
  BY DEF BoundsInv, IndInv, TypeOK
<1>6. ASSUME NEW m2, NEW c \in Course(job), c.pc = "done", Cheapest(m2, c.tried) PROVE m2 = m
  <2>1. c.tried = tried
    BY <1>1, <1>4, <1>6
  <2>2. m2 \in tried /\ m \in tried /\ m <= m2 /\ m2 <= m
    BY <1>2, <1>6, <2>1 DEF Cheapest
  <2>3. m2 \in Nat /\ m \in Nat
    BY <1>5, <2>2
  <2>4. QED
    BY <2>2, <2>3
<1>7. \E c \in Course(job) : c.pc = "done" /\ Cheapest(m, c.tried)
  BY <1>1, <1>2
<1>8. m = GreedyCost(job)
  <2> DEFINE P(v) == \E c \in Course(job) : c.pc = "done" /\ Cheapest(v, c.tried)
  <2>1. P(m) /\ \A v : P(v) => v = m
    BY <1>6, <1>7
  <2>2. GreedyCost(job) = CHOOSE v : P(v)
    BY DEF GreedyCost
  <2> HIDE DEF P
  <2>3. QED
    BY <2>1, <2>2
<1>9. QED
  BY <1>8 DEF m

(* The cost of the chain a call returns is a function of its arguments:    *)
(* what earlier calls left in the two slots does not tell.                 *)
THEOREM CostByArguments == Spec => []KeptCost
<1>1. Init => OnCourse
  BY DEF Init, OnCourse
<1>2. OnCourse /\ BoundsInv /\ [Next]_vars => OnCourse'
  BY CourseStays
<1>3. OnCourse /\ BoundsInv => KeptCost
  BY CourseDecides
<1>4. QED
  BY <1>1, <1>2, <1>3, Bounded, PTL DEF Spec

(* A list that comes to an acceptable exponent before a bound is negative. *)
Finds(J) ==
  \E x \in 1 .. Len(J.b_try) :
    /\ Accepted(J, J.b_try[x])
    /\ \A y \in 1 .. x : ~ At(J, 0, 0, 0)!BoundNegative(J.b_try[y])

(* Such a list leads to a chain.                                           *)
LEMMA FindsChain ==
  ASSUME IndInv, RejectedSoFar, pc = "done", Finds(job)
  PROVE  tried # {}
<1> SUFFICES ASSUME tried = {} PROVE FALSE
  OBVIOUS
<1>1. PICK x \in 1 .. Len(job.b_try) :
         /\ LBound(job.b_try[x]) = RBound(job.b_try[x])
         /\ \A y \in 1 .. x : ~ BoundNegative(job.b_try[y])
  BY SameBounds DEF Finds, Accepted
<1>2. z \in Nat \ {0} /\ ~ (x \in 1 .. z - 1) /\ LoopDone
  BY <1>1 DEF IndInv, TypeOK, RejectedSoFar
<1>3. z \in 1 .. x /\ z <= Len(job.b_try)
  <2>1. Len(job.b_try) \in Nat
    <3>1. job.b_try \in Seq(0 .. MAX_2) \/ job.b_try = <<>>
      BY JobsAssumption DEF IndInv, TypeOK, NoJob
    <3>2. QED
      BY <3>1
  <2>2. QED
    BY <1>1, <1>2, <2>1
<1>4. QED
  BY <1>1, <1>2, <1>3 DEF LoopDone, b

(* Five exponents in a row, with powers within n and no larger one before  *)
(* the last of them, are such a list.                                      *)
HoldsFive(J) == At(J, 0, 0, 0)!FiveInARow

(* For one of five such exponents is accepted, and no bound is negative    *)
(* before it.                                                              *)
LEMMA FiveFind ==
  ASSUME job \in Jobs, HoldsFive(job)
  PROVE  Finds(job)
<1>1. FiveInARow
  BY DEF HoldsFive, At!FiveInARow, At!TriedUpTo, At!Pow3, At!n, FiveInARow, TriedUpTo, Pow3, n
<1>2. PICK k \in 0 .. Len(job.b_try), e \in 0 .. MAX_2 :
        /\ e .. e + 4 \subseteq TriedUpTo(k)
        /\ \A y \in TriedUpTo(k) : Pow3[y] <= n
  BY <1>1 DEF FiveInARow
<1>3. n \in Nat /\ 2 * n < Pow2[MAX_2] /\ job.b_try \in Seq(0 .. MAX_2)
  BY JobsAssumption DEF n
<1>4. Len(job.b_try) \in Nat /\ k \in Nat /\ k <= Len(job.b_try)
  BY <1>3
<1>5. e \in Nat /\ Pow3[e + 4] <= n
  BY <1>2, MaxAssumption
<1>6. PICK y \in e .. e + 4 : LBound(y) = RBound(y)
  BY <1>3, <1>5, OneOfFive
<1>7. PICK x \in 1 .. k : job.b_try[x] = y
  BY <1>2 DEF TriedUpTo
<1>8. ASSUME NEW w \in 1 .. x PROVE ~ BoundNegative(job.b_try[w])
  <2>1. w \in 1 .. k /\ w \in 1 .. Len(job.b_try)
    BY <1>4
  <2>2. job.b_try[w] \in 0 .. MAX_2
    <3> DEFINE q == job.b_try
               S == 0 .. MAX_2
    <3>1. q \in Seq(S) /\ w \in 1 .. Len(q)
      BY <1>3, <2>1
    <3> HIDE DEF q, S
    <3>2. q \in [1 .. Len(q) -> S]
      BY <3>1
    <3>3. q[w] \in S
      BY <3>1, <3>2
    <3>4. QED
      BY <3>3 DEF q, S
  <2>3. Pow3[job.b_try[w]] <= n
    BY <1>2, <2>1 DEF TriedUpTo
  <2>4. QED
    BY <1>3, <2>2, <2>3, NegativeAboveN, MaxAssumption
<1>9. x \in 1 .. Len(job.b_try)
  BY <1>4
<1>10. QED
  BY <1>6, <1>7, <1>8, <1>9, SameBounds DEF Finds, Accepted

-----------------------------------------------------------------------------
(* What a program that shares the store with a call needs of it.           *)
CallerInv == BoundsInv /\ RejectedSoFar /\ OnCourse

(* A call may find any left-overs of the right types.                      *)
LEMMA FreshCall ==
  ASSUME TypeOK, ExponentsSmall, NEW newJob \in Jobs, Call(newJob)
  PROVE  CallerInv'
<1>1. pc' = "bounds" /\ z' = 1 /\ tried' = {}
  BY DEF Call, CallWith
<1>2. IndInv'
  BY CallFrom
<1>3. BoundsInv'
  BY <1>1, <1>2 DEF BoundsInv, DescentBounded, RemainderBelow, PrefixesSoFar
<1>4. RejectedSoFar'
  BY <1>1 DEF RejectedSoFar
<1>5. QED
  BY <1>3, <1>4, CallCourse DEF CallerInv

(* From there every step keeps the invariants.                             *)
LEMMA CallerStays == CallerInv /\ [Next]_vars => CallerInv'
  BY NextBounds, RejectedStays, CourseStays DEF CallerInv, BoundsInv

(* The call returns a chain of n, at the cost its arguments decide.        *)
Delivers(c, l) ==
  /\ c \in Slot /\ l \in 1 .. MAX_2
  /\ IsChain(c, l) /\ c[0].sign = 1
  /\ Value(c, l) = n
  /\ \A k \in 1 .. l : 0 < Value(c, k) /\ Value(c, k) < 2 * n
  /\ JobCost(c, l) = GreedyCost(job)

(* What a caller finds in slot min_index at the end of a call.             *)
LEMMA Delivered ==
  ASSUME CallerInv, pc = "done", Finds(job), n > 0
  PROVE  Delivers(DBC_store[min_index], DBC_len[min_index])
<1> DEFINE c == DBC_store[min_index]
           l == DBC_len[min_index]
<1>1. BoundsInv /\ IndInv /\ RejectedSoFar /\ OnCourse
  BY DEF CallerInv, BoundsInv
<1>2. tried # {}
  BY <1>1, FindsChain
<1>3. c \in Slot
  <2>1. DBC_store \in [0 .. 1 -> Slot] /\ DBC_index \in 0 .. 1
    BY <1>1 DEF IndInv, TypeOK
  <2>2. 1 - DBC_index \in 0 .. 1
    BY <2>1
  <2>3. QED
    BY <2>1, <2>2 DEF min_index
<1>4. l \in 0 .. MAX_2 /\ IsChain(c, l) /\ LeadsPositive(c, l) /\ Value(c, l) = n
  BY <1>1, <1>2 DEF IndInv, KeptSlot
<1>5. \A k \in 1 .. l : 0 < Value(c, k) /\ Value(c, k) < 2 * n
  BY <1>1, <1>2 DEF BoundsInv, PrefixesSoFar, AllBetween
<1>6. JobCost(c, l) = GreedyCost(job)
  BY <1>1, <1>2, CourseDecides DEF KeptCost
<1> HIDE DEF c, l
<1>7. l # 0
  <2>1. Value(c, 0) = 0
    BY <1>3, RunningSumsFacts, MaxAssumption DEF Value, Sums, Slot
  <2>2. QED
    BY <1>4, <2>1
<1>8. l \in 1 .. MAX_2 /\ c[0].sign = 1
  <2>1. \A x \in 0 .. MAX_2 : x # 0 => x \in 1 .. MAX_2 /\ x > 0
    BY MaxAssumption
  <2>2. QED
    BY <1>4, <1>7, <2>1 DEF LeadsPositive
<1>9. QED
  BY <1>3, <1>4, <1>5, <1>6, <1>8 DEF Delivers, c, l
=============================================================================
