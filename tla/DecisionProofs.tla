--------------------------- MODULE DecisionProofs ---------------------------
(***************************************************************************)
(* The way of a decision, from the rules it takes to the records it leaves. *)
(* Rules, for any number of analysts, calls and edits: dual control always  *)
(* holds, and what can go wrong with definitions and versions goes wrong    *)
(* only through a write over a row that was not read. The ladder, for any   *)
(* prices, amounts, scores and rule tables. The records, for any number of  *)
(* calls, payments, failures and disputes. The stores of a device, for any  *)
(* windows, buyers and clocks.                                              *)
(***************************************************************************)
EXTENDS RuleApproval, RiskDecision, DecisionFlow, FeatureStores, FeatureScores, FiniteSetTheorems, WellFoundedInduction, TLAPS

(* What a call carries from its read to its write: the creator of the row,  *)
(* and, for an approval, a definition it has read and an actor who passed.  *)
CallOK(c) ==
  /\ call[c].seen.createdBy = rule.createdBy
  /\ call[c].pc = "moving" /\ call[c].target \in Approved =>
       /\ call[c].seen.dsl \in reviewed
       /\ call[c].actor \notin {NoOne, rule.createdBy}

IInv ==
  /\ ApprovalTypeOK
  /\ DualControl
  /\ ReviewedUnlessStale
  /\ VersionCountsEdits
  /\ \A c \in Calls : CallOK(c)

LEMMA IdleCallTyped ==
  ASSUME NEW a \in Analysts
  PROVE  IdleCall(CreatedRule(a)) \in Call /\ CreatedRule(a) \in Rule
  BY ApprovalAssumption DEF IdleCall, CreatedRule, Call, Rule, Statuses

(* The workflow starts with a draft that nobody has approved.               *)
LEMMA InitIInv == ApprovalInit => IInv
  <1> SUFFICES ASSUME ApprovalInit PROVE IInv
    OBVIOUS
  <1>1. PICK a \in Analysts : /\ rule = CreatedRule(a)
                              /\ call = [c \in Calls |-> IdleCall(CreatedRule(a))]
    BY DEF ApprovalInit
  <1>2. ApprovalTypeOK
    <2>1. rule \in Rule /\ call \in [Calls -> Call]
      BY <1>1, IdleCallTyped
    <2>2. edits \in 0 .. MaxEdits /\ written \in Nat
      BY ApprovalAssumption DEF ApprovalInit
    <2>3. stale \in BOOLEAN /\ reviewed = {}
      BY DEF ApprovalInit
    <2> QED BY <2>1, <2>2, <2>3 DEF ApprovalTypeOK
  <1>3. ASSUME NEW c \in Calls PROVE CallOK(c)
    <2>1. call[c] = IdleCall(rule) /\ rule.createdBy = a
      BY <1>1, <1>3 DEF CreatedRule
    <2> QED BY <2>1 DEF CallOK, IdleCall
  <1>4. rule.status = "DRAFT" /\ rule.version = 1 /\ written = 0
    BY <1>1 DEF ApprovalInit, CreatedRule
  <1> QED
    BY <1>2, <1>3, <1>4 DEF IInv, DualControl, ReviewedUnlessStale, VersionCountsEdits, Approved

\* A step of a call that leaves the row alone.
LEMMA ReadStep ==
  ASSUME IInv, NEW c \in Calls, NEW r \in Call,
         UNCHANGED <<rule, written, stale>>,
         edits' \in 0 .. MaxEdits,
         reviewed \subseteq reviewed', reviewed' \subseteq 0 .. MaxEdits,
         call' = [call EXCEPT ![c] = r],
         r.seen = rule,
         r.pc = "moving" /\ r.target \in Approved =>
           rule.dsl \in reviewed' /\ r.actor \notin {NoOne, rule.createdBy}
  PROVE  IInv'
  <1>1. ApprovalTypeOK'
    BY DEF IInv, ApprovalTypeOK
  <1>2. ASSUME NEW d \in Calls PROVE CallOK(d)'
    BY <1>2 DEF IInv, ApprovalTypeOK, CallOK
  <1> QED
    BY <1>1, <1>2 DEF IInv, DualControl, ReviewedUnlessStale, VersionCountsEdits

\* A step that writes the row: the call returns, and the creator stays.
LEMMA WriteStep ==
  ASSUME IInv, NEW c \in Calls,
         UNCHANGED <<edits, reviewed>>,
         rule' \in Rule, rule'.createdBy = rule.createdBy,
         written' \in Nat,
         Overwrites(c), Return(c)
  PROVE  ApprovalTypeOK' /\ \A d \in Calls : CallOK(d)'
  <1>1. IdleCall(CreatedRule(rule.createdBy)) \in Call
    BY IdleCallTyped DEF IInv, ApprovalTypeOK, Rule
  <1>2. ApprovalTypeOK'
    BY <1>1 DEF IInv, ApprovalTypeOK, Overwrites, Return
  <1>3. ASSUME NEW d \in Calls PROVE CallOK(d)'
    <2>1. CASE d = c
      BY <2>1 DEF IInv, ApprovalTypeOK, CallOK, Return, IdleCall, CreatedRule
    <2>2. CASE d # c
      BY <1>3, <2>2 DEF IInv, ApprovalTypeOK, CallOK, Return
    <2> QED BY <2>1, <2>2
  <1> QED BY <1>2, <1>3

LEMMA NextIInv == IInv /\ [ApprovalNext]_approvalVars => IInv'
  <1> SUFFICES ASSUME IInv, [ApprovalNext]_approvalVars PROVE IInv'
    OBVIOUS
  <1>0. rule \in Rule /\ written \in Nat /\ stale \in BOOLEAN /\ \A c \in Calls : call[c] \in Call
    BY DEF IInv, ApprovalTypeOK
  <1>1. ASSUME NEW c \in Calls, NEW newDsl \in BOOLEAN, ReadToEdit(c, newDsl) PROVE IInv'
    <2> DEFINE r == [call[c] EXCEPT !.pc = "editing", !.seen = rule,
                                    !.dsl = IF newDsl THEN edits' ELSE rule.dsl]
    <2>1. edits' \in 0 .. MaxEdits
      BY <1>1, ApprovalAssumption DEF ReadToEdit, IInv, ApprovalTypeOK
    <2>2. r \in Call
      BY <1>0, <2>1 DEF Call, Rule
    <2>3. call' = [call EXCEPT ![c] = r] /\ UNCHANGED <<rule, written, stale, reviewed>>
      BY <1>1 DEF ReadToEdit
    <2>4. r.seen = rule /\ r.pc = "editing"
      BY <1>0 DEF Call
    <2>5. reviewed' \subseteq 0 .. MaxEdits
      BY <2>3 DEF IInv, ApprovalTypeOK
    <2> HIDE DEF r
    <2> QED BY <2>1, <2>2, <2>3, <2>4, <2>5, ReadStep
  <1>2. ASSUME NEW c \in Calls, NEW target \in Statuses, NEW actor \in Analysts \cup {NoOne},
               ReadToMove(c, target, actor)
        PROVE  IInv'
    <2> DEFINE r == [call[c] EXCEPT !.pc = "moving", !.seen = rule, !.target = target,
                                    !.actor = actor]
    <2>1. r \in Call
      BY <1>0 DEF Call
    <2>2. call' = [call EXCEPT ![c] = r] /\ UNCHANGED <<rule, edits, written, stale>>
      BY <1>2 DEF ReadToMove
    <2>3. r.seen = rule /\ r.target = target /\ r.actor = actor
      BY <1>0 DEF Call
    <2>4. /\ reviewed \subseteq reviewed' /\ reviewed' \subseteq 0 .. MaxEdits
          /\ edits' \in 0 .. MaxEdits
      BY <1>0, <1>2 DEF ReadToMove, IInv, ApprovalTypeOK, Rule
    <2>5. target \in Approved => rule.dsl \in reviewed' /\ actor \notin {NoOne, rule.createdBy}
      BY <1>2 DEF ReadToMove, MayMove
    <2> HIDE DEF r
    <2> QED BY <2>1, <2>2, <2>3, <2>4, <2>5, ReadStep
  <1>3. ASSUME NEW c \in Calls, WriteEdit(c) PROVE IInv'
    <2>0. call[c].dsl \in 0 .. MaxEdits /\ call[c].seen.version + 1 \in Nat
      BY <1>0 DEF Call, Rule
    <2>1. /\ rule' \in Rule /\ rule'.createdBy = rule.createdBy /\ rule'.status = "DRAFT"
          /\ rule'.version = call[c].seen.version + 1
          /\ written' = written + 1 /\ Overwrites(c) /\ Return(c) /\ UNCHANGED <<edits, reviewed>>
      BY <1>0, <1>3, <2>0 DEF WriteEdit, Rule, Statuses
    <2>2. ApprovalTypeOK' /\ \A d \in Calls : CallOK(d)'
      BY <1>0, <2>1, WriteStep
    <2>3. VersionCountsEdits'
      BY <1>0, <2>1 DEF IInv, VersionCountsEdits, Overwrites, Rule
    <2> QED BY <2>1, <2>2, <2>3 DEF IInv, DualControl, ReviewedUnlessStale, Approved
  <1>4. ASSUME NEW c \in Calls, WriteMove(c) PROVE IInv'
    <2> DEFINE m == call[c]
    <2>1. ApproverOf(m) \in Analysts \cup {NoOne}
      BY <1>0 DEF ApproverOf, Call, Rule
    <2>2. /\ rule' \in Rule /\ rule'.createdBy = rule.createdBy /\ rule'.status = m.target
          /\ rule'.version = rule.version /\ rule'.dsl = rule.dsl
          /\ rule'.approvedBy = ApproverOf(m)
          /\ Overwrites(c) /\ Return(c) /\ UNCHANGED <<edits, written, reviewed>>
      BY <1>0, <1>4, <2>1 DEF WriteMove, Rule, Call
    <2>3. ApprovalTypeOK' /\ \A d \in Calls : CallOK(d)'
      BY <1>0, <2>2, WriteStep
    <2>4. CallOK(c) /\ m.pc = "moving"
      BY <1>4 DEF IInv, WriteMove
    <2>5. DualControl'
      <3>1. m.target \in Approved => ApproverOf(m) = m.actor
        BY DEF ApproverOf, Approved
      <3> QED BY <2>2, <2>4, <3>1 DEF DualControl, CallOK
    <2>6. ReviewedUnlessStale'
      <3>1. CASE rule = m.seen
        BY <2>2, <2>4, <3>1 DEF ReviewedUnlessStale, CallOK
      <3>2. CASE rule # m.seen
        BY <2>2, <3>2 DEF ReviewedUnlessStale, Overwrites
      <3> QED BY <3>1, <3>2
    <2>7. VersionCountsEdits'
      BY <2>2 DEF IInv, VersionCountsEdits, Overwrites
    <2> QED BY <2>3, <2>5, <2>6, <2>7 DEF IInv
  <1>5. CASE UNCHANGED approvalVars
    BY <1>5
    DEF approvalVars, IInv, ApprovalTypeOK, DualControl, ReviewedUnlessStale, VersionCountsEdits, CallOK
  <1> QED BY <1>1, <1>2, <1>3, <1>4, <1>5 DEF ApprovalNext

(* The inductive invariant of the workflow holds always.                    *)
THEOREM Invariance == ApprovalSpec => []IInv
  BY InitIInv, NextIInv, PTL DEF ApprovalSpec

(* An approved rule always names an approver who is not its creator         *)
(* (TransitionStatus), however calls interleave.                            *)
THEOREM DualControlHolds == ApprovalSpec => []DualControl
  <1>1. IInv => DualControl
    BY DEF IInv
  <1> QED BY <1>1, Invariance, PTL

(* An approved definition was read by an approval, and versions count the   *)
(* edits (UpdateRule), as long as no write hit a row that it had not read.  *)
THEOREM OnlyStaleWritesSlip == ApprovalSpec => [](ReviewedUnlessStale /\ VersionCountsEdits)
  <1>1. IInv => ReviewedUnlessStale /\ VersionCountsEdits
    BY DEF IInv
  <1> QED BY <1>1, Invariance, PTL
(* The whole of what the run checks of the workflow (CreateRule, UpdateRule *)
(* and TransitionStatus): its types, two pairs of eyes, and only stale      *)
(* writes past them.                                                        *)
THEOREM WorkflowIsSound == ApprovalSpec => []ApprovalSound
  <1>1. IInv => ApprovalSound
    BY DEF IInv, ApprovalSound
  <1> QED BY <1>1, Invariance, PTL

-----------------------------------------------------------------------------
(* Decisions, for every price list, score, amount and table of rules.       *)

(* Induction over the natural numbers, as the theorems below use it: a set  *)
(* in which every number is followed by a smaller one is empty.             *)
LEMMA NoneIsLeast ==
  ASSUME NEW Bad \in SUBSET Nat, \A m \in Bad : \E n \in Bad : n < m
  PROVE  Bad = {}
  <1> SUFFICES ASSUME Bad # {} PROVE FALSE
    OBVIOUS
  <1>1. PICK m \in Bad : \A n \in Bad : ~(<<n, m>> \in OpToRel(<, Nat))
    BY NatLessThanWellFounded, WFMin
  <1>2. \A n \in Bad : ~(n < m)
    BY <1>1 DEF OpToRel
  <1> QED BY <1>2

(* A finite set of integers that is not empty has a greatest element: take  *)
(* a smallest subset that has none and remove one of its elements.          *)
LEMMA FiniteMax ==
  ASSUME NEW S \in SUBSET Int, IsFiniteSet(S), S # {}
  PROVE  Max(S) \in S /\ \A x \in S : Max(S) >= x
  <1> DEFINE HasGreatest(T) == \E x \in T : \A y \in T : x >= y
             Bad == {n \in Nat : \E T \in SUBSET S : T # {} /\ ~HasGreatest(T) /\ Cardinality(T) = n}
  <1>1. ASSUME NEW m \in Bad, \A n \in Bad : ~(n < m) PROVE FALSE
    <2>1. PICK T \in SUBSET S : T # {} /\ ~HasGreatest(T) /\ Cardinality(T) = m
      BY <1>1
    <2>2. PICK x \in T : TRUE
      BY <2>1
    <2> DEFINE R == T \ {x}
    <2>3. IsFiniteSet(T)
      BY FS_Subset
    <2>4. m \in Nat /\ Cardinality(R) = m - 1 /\ IsFiniteSet(R)
      BY <2>1, <2>2, <2>3, <1>1, FS_RemoveElement
    <2>5. Cardinality(R) \in Nat
      BY <2>4, FS_CardinalityType
    <2>6. R \in SUBSET S /\ Cardinality(R) \notin Bad
      <3>1. R \in SUBSET S
        OBVIOUS
      <3> DEFINE r == Cardinality(R)
      <3> HIDE DEF R, r, Bad
      <3>2. r = m - 1 /\ m \in Nat /\ r \in Nat
        BY <2>4, <2>5 DEF r
      <3>3. r < m
        BY <3>2
      <3>4. r \notin Bad
        BY <1>1, <3>3
      <3> QED BY <3>1, <3>4 DEF r
    <2>7. R = {} \/ HasGreatest(R)
      BY <2>5, <2>6
    <2>8. HasGreatest(T)
      <3>1. CASE R = {}
        <4>1. \A y \in T : y = x
          BY <3>1
        <4> QED BY <4>1, <2>2
      <3>2. CASE HasGreatest(R)
        <4>1. PICK z \in R : \A y \in R : z >= y
          BY <3>2
        <4>2. x \in Int /\ z \in Int /\ T \subseteq Int /\ z \in T /\ \A y \in T : y = x \/ z >= y
          BY <2>2, <4>1
        <4>3. CASE z >= x
          BY <4>2, <4>3
        <4>4. CASE ~(z >= x)
          <5>1. \A y \in T : x >= y
            BY <4>2, <4>4
          <5> QED BY <5>1, <2>2
        <4> QED BY <4>3, <4>4
      <3> QED BY <2>7, <3>1, <3>2
    <2> QED BY <2>1, <2>8
  <1>2. Bad = {}
    <2>1. Bad \in SUBSET Nat /\ \A m \in Bad : \E n \in Bad : n < m
      BY <1>1
    <2> HIDE DEF Bad
    <2> QED BY <2>1, NoneIsLeast
  <1>3. Cardinality(S) \in Nat
    BY FS_CardinalityType
  <1>4. HasGreatest(S)
    BY <1>2, <1>3
  <1> QED BY <1>4 DEF Max

LEMMA MaxOfTwo ==
  ASSUME NEW a \in Int, NEW b \in Int
  PROVE  Max({a, b}) \in {a, b} /\ Max({a, b}) >= a /\ Max({a, b}) >= b
  <1>1. \E x \in {a, b} : \A y \in {a, b} : x >= y
    OBVIOUS
  <1> QED BY <1>1 DEF Max

LEMMA MinOfTwo ==
  ASSUME NEW a \in Int, NEW b \in Int
  PROVE  Min({a, b}) \in {a, b} /\ Min({a, b}) =< a /\ Min({a, b}) =< b
  <1>1. \E x \in {a, b} : \A y \in {a, b} : x =< y
    OBVIOUS
  <1> QED BY <1>1 DEF Min

LEMMA ProductMonotone ==
  ASSUME NEW a \in Nat, NEW b \in Nat, NEW c \in Nat, a =< b
  PROVE  a * c \in Nat /\ b * c \in Nat /\ a * c =< b * c
  OBVIOUS

LEMMA PricesAreNaturals ==
  /\ CostBase \in Nat /\ RateLTV \in Nat /\ ReviewFee \in Nat /\ ResidualReviewRate \in Nat
  /\ ChallengeFee \in Nat /\ ChallengeFrictionRate \in Nat /\ FraudMultiplier \in Nat
  BY CostAssumption

LEMMA ProductIsNatural ==
  ASSUME NEW a \in Nat, NEW b \in Nat
  PROVE  a * b \in Nat
  OBVIOUS

LEMMA FalsePositiveCostIsNatural ==
  ASSUME NEW amt \in Nat
  PROVE  FalsePositiveCost(amt) \in Nat
  <1>1. amt * RateLTV \in Nat /\ 100 * CostBase \in Nat /\ 200 * amt \in Nat
    BY PricesAreNaturals, ProductIsNatural
  <1>2. Min({100 * CostBase, 200 * amt}) \in Nat
    <2> DEFINE a == 100 * CostBase
               b == 200 * amt
    <2>1. a \in Int /\ b \in Int /\ a \in Nat /\ b \in Nat
      BY <1>1
    <2> HIDE DEF a, b
    <2>2. Min({a, b}) \in {a, b}
      BY <2>1, MinOfTwo
    <2>3. Min({a, b}) \in Nat
      BY <2>1, <2>2
    <2> QED BY <2>3 DEF a, b
  <1>3. Max({2500, Min({100 * CostBase, 200 * amt})}) \in Nat
    <2> DEFINE b == Min({100 * CostBase, 200 * amt})
    <2>1. b \in Int /\ b \in Nat
      BY <1>2
    <2> HIDE DEF b
    <2>2. Max({2500, b}) \in {2500, b}
      BY <2>1, MaxOfTwo
    <2>3. Max({2500, b}) \in Nat
      BY <2>1, <2>2
    <2> QED BY <2>3 DEF b
  <1> QED BY <1>1, <1>3 DEF FalsePositiveCost

LEMMA CostIsNatural ==
  ASSUME NEW p \in 0 .. 100, NEW amt \in Nat
  PROVE  /\ Cost(p, amt).ALLOW \in Nat /\ Cost(p, amt).DECLINE \in Nat
         /\ Cost(p, amt).REVIEW \in Nat /\ Cost(p, amt).STEP_UP \in Nat
  <1>1. p \in Nat /\ 100 - p \in Nat
    OBVIOUS
  <1>2. p * amt \in Nat /\ p * amt * FraudMultiplier \in Nat
    BY <1>1, PricesAreNaturals, ProductIsNatural
  <1>3. p * amt * FraudMultiplier * 100 \in Nat
    BY <1>2, ProductIsNatural
  <1>4. (100 - p) * FalsePositiveCost(amt) \in Nat
    BY <1>1, FalsePositiveCostIsNatural, ProductIsNatural
  <1>5. 10000 * ReviewFee + ResidualReviewRate * p * amt * FraudMultiplier \in Nat
    <2>1. 10000 * ReviewFee \in Nat /\ ResidualReviewRate * p \in Nat
      BY <1>1, PricesAreNaturals, ProductIsNatural
    <2>2. ResidualReviewRate * p * amt \in Nat
      BY <2>1, ProductIsNatural
    <2>3. ResidualReviewRate * p * amt * FraudMultiplier \in Nat
      BY <2>2, PricesAreNaturals, ProductIsNatural
    <2> QED BY <2>1, <2>3
  <1>6. (100 - p) * ChallengeFrictionRate * amt + 10000 * ChallengeFee \in Nat
    <2>1. 10000 * ChallengeFee \in Nat /\ (100 - p) * ChallengeFrictionRate \in Nat
      BY <1>1, PricesAreNaturals, ProductIsNatural
    <2>2. (100 - p) * ChallengeFrictionRate * amt \in Nat
      BY <2>1, ProductIsNatural
    <2> QED BY <2>1, <2>2
  <1> QED BY <1>3, <1>4, <1>5, <1>6 DEF Cost

(* For every price list, probability and amount, the chain of comparisons   *)
(* (cost_policy.go:95) recommends the cheapest action it admits.            *)
THEOREM CheapestIsChosen ==
  ASSUME NEW p \in 0 .. 100, NEW amt \in Nat
  PROVE  CheapestAdmitted(p, amt)
  <1> DEFINE cost == Cost(p, amt)
             stepUpAdmitted == p >= 15 \/ Exposure(p, amt) >= 250000
             reviewAdmitted == p >= 25 \/ Exposure(p, amt) >= 500000
             best == OptimalAction(p, amt)
  <1>1. /\ cost["ALLOW"] \in Nat /\ cost["DECLINE"] \in Nat
        /\ cost["REVIEW"] \in Nat /\ cost["STEP_UP"] \in Nat
    BY CostIsNatural
  <1>2. Admitted(p, amt) = IF p >= 80 THEN {"DECLINE", "REVIEW"}
                           ELSE {"ALLOW", "DECLINE"} \cup {a \in {"STEP_UP"} : stepUpAdmitted}
                                                     \cup {a \in {"REVIEW"} : reviewAdmitted}
    BY DEF Admitted
  <1>3. CASE p >= 80
    <2>1. best = IF cost["DECLINE"] <= cost["REVIEW"] THEN "DECLINE" ELSE "REVIEW"
      BY <1>3 DEF OptimalAction
    <2> QED BY <2>1, <1>1, <1>2, <1>3 DEF CheapestAdmitted
  <1>4. CASE p < 80
    <2> DEFINE stepUp == IF stepUpAdmitted /\ cost["STEP_UP"] < cost["ALLOW"] THEN "STEP_UP" ELSE "ALLOW"
               review == IF reviewAdmitted /\ cost["REVIEW"] < cost[stepUp] THEN "REVIEW" ELSE stepUp
    <2>1. best = IF cost["DECLINE"] < cost[review] THEN "DECLINE" ELSE review
      BY <1>4 DEF OptimalAction
    <2>2. ~(p >= 80)
      BY <1>4
    <2> HIDE DEF cost, best, stepUpAdmitted, reviewAdmitted
    <2>3. /\ stepUp \in {"ALLOW", "STEP_UP"} /\ (stepUp = "STEP_UP" => stepUpAdmitted)
          /\ cost[stepUp] \in Nat /\ cost[stepUp] <= cost["ALLOW"]
          /\ stepUpAdmitted => cost[stepUp] <= cost["STEP_UP"]
      BY <1>1
    <2> HIDE DEF stepUp
    <2>4. /\ review \in {"REVIEW", stepUp} /\ (review = "REVIEW" => reviewAdmitted)
          /\ cost[review] \in Nat /\ cost[review] <= cost[stepUp]
          /\ reviewAdmitted => cost[review] <= cost["REVIEW"]
      BY <1>1, <2>3
    <2> HIDE DEF review
    <2>5. /\ best \in {"DECLINE", review} /\ cost[best] \in Nat
          /\ cost[best] <= cost[review] /\ cost[best] <= cost["DECLINE"]
      BY <1>1, <2>1, <2>4
    <2>6. best \in Admitted(p, amt)
      BY <1>2, <2>2, <2>3, <2>4, <2>5
    <2>7. cost[best] <= cost[stepUp] /\ cost[best] <= cost["ALLOW"]
      BY <1>1, <2>3, <2>4, <2>5
    <2>8. stepUpAdmitted => cost[best] <= cost["STEP_UP"]
      BY <1>1, <2>3, <2>5, <2>7
    <2>9. reviewAdmitted => cost[best] <= cost["REVIEW"]
      BY <1>1, <2>4, <2>5
    <2>10. ASSUME NEW a \in Admitted(p, amt) PROVE cost[best] <= cost[a]
      BY <1>2, <2>2, <2>5, <2>7, <2>8, <2>9
    <2> QED BY <2>6, <2>10 DEF CheapestAdmitted, cost, best
  <1> QED BY <1>3, <1>4

LEMMA LargerFactor ==
  ASSUME NEW a \in Nat, NEW b \in Nat, NEW c \in Nat, a =< b
  PROVE  c * a =< c * b
  OBVIOUS

\* What a likelier fraud does to each cost.
LEMMA CostsMove ==
  ASSUME NEW p \in 0 .. 100, NEW q \in 0 .. 100, p <= q, NEW amt \in Nat
  PROVE  /\ Cost(p, amt).ALLOW <= Cost(q, amt).ALLOW
         /\ Cost(p, amt).REVIEW <= Cost(q, amt).REVIEW
         /\ Cost(q, amt).DECLINE <= Cost(p, amt).DECLINE
  <1>1. p \in Nat /\ q \in Nat /\ 100 - p \in Nat /\ 100 - q \in Nat /\ 100 - q =< 100 - p
    OBVIOUS
  <1>2. /\ p * amt \in Nat /\ q * amt \in Nat /\ p * amt =< q * amt
        /\ p * amt * FraudMultiplier \in Nat /\ q * amt * FraudMultiplier \in Nat
        /\ p * amt * FraudMultiplier =< q * amt * FraudMultiplier
    BY <1>1, PricesAreNaturals, ProductMonotone
  <1>3. p * amt * FraudMultiplier * 100 =< q * amt * FraudMultiplier * 100
    BY <1>2
  <1>4. (100 - q) * FalsePositiveCost(amt) =< (100 - p) * FalsePositiveCost(amt)
    BY <1>1, FalsePositiveCostIsNatural, ProductMonotone
  <1>5. 10000 * ReviewFee + ResidualReviewRate * p * amt * FraudMultiplier
          =< 10000 * ReviewFee + ResidualReviewRate * q * amt * FraudMultiplier
    <2>1. 10000 * ReviewFee \in Nat
      BY PricesAreNaturals
    <2>2. /\ ResidualReviewRate * p \in Nat /\ ResidualReviewRate * q \in Nat
          /\ ResidualReviewRate * p =< ResidualReviewRate * q
      BY <1>1, PricesAreNaturals, ProductIsNatural, LargerFactor
    <2>3. /\ ResidualReviewRate * p * amt \in Nat /\ ResidualReviewRate * q * amt \in Nat
          /\ ResidualReviewRate * p * amt =< ResidualReviewRate * q * amt
      BY <2>2, ProductMonotone
    <2>4. /\ ResidualReviewRate * p * amt * FraudMultiplier \in Nat
          /\ ResidualReviewRate * q * amt * FraudMultiplier \in Nat
          /\ ResidualReviewRate * p * amt * FraudMultiplier
               =< ResidualReviewRate * q * amt * FraudMultiplier
      BY <2>3, PricesAreNaturals, ProductMonotone
    <2> QED BY <2>1, <2>4
  <1> QED BY <1>3, <1>4, <1>5 DEF Cost

(* A likelier fraud does not make a challenge cheaper than the decline that *)
(* was cheaper: both costs shrink with the chance that the customer is      *)
(* genuine, but the fee of the challenge does not.                          *)
LEMMA DeclineStaysBelowStepUp ==
  ASSUME NEW p \in 0 .. 100, NEW q \in 0 .. 100, p <= q, q < 100, NEW amt \in Nat,
         Cost(p, amt).DECLINE < Cost(p, amt).STEP_UP
  PROVE  Cost(q, amt).DECLINE < Cost(q, amt).STEP_UP
  <1> DEFINE f == FalsePositiveCost(amt)
             g == ChallengeFrictionRate * amt
             c == 10000 * ChallengeFee
             a == 100 - p
             b == 100 - q
  <1>1. f \in Nat /\ g \in Nat /\ c \in Nat /\ a \in Nat /\ b \in Nat /\ 0 < b /\ b <= a
    BY FalsePositiveCostIsNatural, PricesAreNaturals, ProductIsNatural
  <1>2. a * ChallengeFrictionRate * amt = a * g /\ b * ChallengeFrictionRate * amt = b * g
    BY <1>1, PricesAreNaturals
  <1>3. a * f < a * g + c
    BY <1>2 DEF Cost
  <1>4. /\ Cost(q, amt).DECLINE = b * f
        /\ Cost(q, amt).STEP_UP = b * g + c
    BY <1>2 DEF Cost
  <1> HIDE DEF f, g, c, a, b
  <1>5. a * f \in Nat /\ a * g \in Nat /\ b * f \in Nat /\ b * g \in Nat
    BY <1>1, ProductIsNatural
  <1>6. CASE f < g
    <2>1. f + 1 \in Nat /\ f + 1 =< g
      BY <1>1, <1>6
    <2>2. b * (f + 1) =< b * g
      BY <1>1, <2>1, LargerFactor
    <2>3. b * (f + 1) = b * f + b
      BY <1>1
    <2> QED BY <1>1, <1>4, <1>5, <2>2, <2>3
  <1>7. CASE g <= f
    <2> DEFINE d == f - g
    <2>1. d \in Nat /\ f = g + d
      BY <1>1, <1>7
    <2> HIDE DEF d
    <2>2. a * f = a * g + a * d /\ b * f = b * g + b * d
      BY <1>1, <2>1
    <2>3. a * d \in Nat /\ b * d \in Nat /\ b * d =< a * d
      BY <1>1, <2>1, ProductMonotone
    <2> QED BY <1>1, <1>3, <1>4, <1>5, <2>2, <2>3
  <1> QED BY <1>1, <1>6, <1>7

(* For every price list and amount, a decline stands when the fraud is      *)
(* likelier, unless it is likely enough to admit another alternative        *)
(* (cost_policy.go:102, 108).                                               *)
THEOREM LikelierFraudKeepsDecline ==
  ASSUME NEW p \in 0 .. 100, NEW q \in 0 .. 100, NEW amt \in Nat
  PROVE  DeclineStays(p, q, amt)
  <1> SUFFICES ASSUME p <= q, Admitted(q, amt) \subseteq Admitted(p, amt),
                      OptimalAction(p, amt) = "DECLINE"
               PROVE  OptimalAction(q, amt) = "DECLINE"
    BY DEF DeclineStays
  <1> DEFINE old == Cost(p, amt)
             new == Cost(q, amt)
  <1>1. /\ old["ALLOW"] \in Nat /\ old["DECLINE"] \in Nat /\ old["REVIEW"] \in Nat
        /\ old["STEP_UP"] \in Nat /\ new["ALLOW"] \in Nat /\ new["DECLINE"] \in Nat
        /\ new["REVIEW"] \in Nat /\ new["STEP_UP"] \in Nat
    BY CostIsNatural
  <1>2. /\ old["ALLOW"] <= new["ALLOW"] /\ old["REVIEW"] <= new["REVIEW"]
        /\ new["DECLINE"] <= old["DECLINE"]
    BY CostsMove
  <1>3. q < 100 /\ old["DECLINE"] < old["STEP_UP"] => new["DECLINE"] < new["STEP_UP"]
    BY DeclineStaysBelowStepUp
  <1> DEFINE stepUpAt(x) == x >= 15 \/ Exposure(x, amt) >= 250000
             reviewAt(x) == x >= 25 \/ Exposure(x, amt) >= 500000
  <1>4. \A x \in {p, q} :
          Admitted(x, amt) = IF x >= 80 THEN {"DECLINE", "REVIEW"}
                             ELSE {"ALLOW", "DECLINE"} \cup {a \in {"STEP_UP"} : stepUpAt(x)}
                                                       \cup {a \in {"REVIEW"} : reviewAt(x)}
    BY DEF Admitted
  <1>5. \A a \in Admitted(p, amt) : old["DECLINE"] <= old[a]
    BY CheapestIsChosen DEF CheapestAdmitted
  <1>6. CASE q >= 80
    <2>1. "REVIEW" \in Admitted(p, amt)
      BY <1>4, <1>6
    <2>2. new["DECLINE"] <= new["REVIEW"]
      BY <1>1, <1>2, <1>5, <2>1
    <2> QED BY <1>6, <2>2 DEF OptimalAction
  <1>7. CASE q < 80
    <2> DEFINE stepUp(x, cost) == IF stepUpAt(x) /\ cost["STEP_UP"] < cost["ALLOW"] THEN "STEP_UP" ELSE "ALLOW"
               review(x, cost) == IF reviewAt(x) /\ cost["REVIEW"] < cost[stepUp(x, cost)]
                                    THEN "REVIEW" ELSE stepUp(x, cost)
    <2>1. p < 80 /\ ~(p >= 80) /\ ~(q >= 80)
      BY <1>7
    <2>2. OptimalAction(p, amt) = IF old["DECLINE"] < old[review(p, old)] THEN "DECLINE" ELSE review(p, old)
      BY <2>1 DEF OptimalAction
    <2>3. OptimalAction(q, amt) = IF new["DECLINE"] < new[review(q, new)] THEN "DECLINE" ELSE review(q, new)
      BY <1>7 DEF OptimalAction
    <2>4. (stepUpAt(q) => stepUpAt(p)) /\ (reviewAt(q) => reviewAt(p))
      BY <1>4, <2>1
    <2> HIDE DEF old, new, stepUpAt, reviewAt
    <2>5. review(p, old) # "DECLINE" /\ old["DECLINE"] < old[review(p, old)]
      BY <2>2
    <2>6. /\ old["DECLINE"] < old["ALLOW"]
          /\ stepUpAt(p) => old["DECLINE"] < old["STEP_UP"]
          /\ reviewAt(p) => old["DECLINE"] < old["REVIEW"]
      BY <1>1, <2>5
    <2>7. /\ new["DECLINE"] < new["ALLOW"]
          /\ stepUpAt(q) => new["DECLINE"] < new["STEP_UP"]
          /\ reviewAt(q) => new["DECLINE"] < new["REVIEW"]
      BY <1>1, <1>2, <1>3, <1>7, <2>4, <2>6
    <2>8. new["DECLINE"] < new[review(q, new)]
      BY <2>7
    <2> QED BY <2>3, <2>8
  <1> QED BY <1>6, <1>7

LEMMA ScoreMax ==
  ASSUME NEW S \in SUBSET (0 .. 100), S # {}
  PROVE  Max(S) \in S /\ Max(S) \in 0 .. 100 /\ \A x \in S : Max(S) >= x
  <1> DEFINE a == 0
             b == 100
  <1>1. a \in Int /\ b \in Int /\ S \in SUBSET (a .. b) /\ S \in SUBSET Int
    OBVIOUS
  <1> HIDE DEF a, b
  <1>2. IsFiniteSet(a .. b)
    BY <1>1, FS_Interval
  <1>3. IsFiniteSet(S)
    BY <1>1, <1>2, FS_Subset
  <1>4. Max(S) \in S /\ \A x \in S : Max(S) >= x
    BY <1>1, <1>3, FiniteMax
  <1> QED BY <1>4

LEMMA ScoreMaxMonotone ==
  ASSUME NEW S \in SUBSET (0 .. 100), NEW T \in SUBSET (0 .. 100), S # {}, S \subseteq T
  PROVE  Max(T) >= Max(S)
  <1>1. Max(S) \in S /\ Max(S) \in T
    BY ScoreMax
  <1> QED BY <1>1, ScoreMax

LEMMA InputTyped ==
  ASSUME NEW in \in Inputs
  PROVE  /\ in.threats \subseteq Threats /\ in.accounts \in Nat /\ in.busyIp \in BOOLEAN
         /\ in.amount \in Nat /\ in.candidate \in (0 .. 100) \cup {Failed, NotAsked}
         /\ in.legacy \in (0 .. 100) \cup {Failed} /\ in.rules \in RuleTables
  BY DecisionAssumption DEF Inputs

LEMMA MoreThreats ==
  ASSUME NEW in \in Inputs, NEW t \in Threats
  PROVE  LET more == [in EXCEPT !.threats = @ \cup {t}]
         IN  /\ more \in Inputs /\ more.threats = in.threats \cup {t}
             /\ more.accounts = in.accounts /\ more.busyIp = in.busyIp
             /\ more.amount = in.amount /\ more.candidate = in.candidate
             /\ more.legacy = in.legacy /\ more.rules = in.rules
  BY DEF Inputs

FloorTable ==
  [t \in Threats \ {"proxy"} |->
     CASE t = "malicious ip"       -> 85
       [] t = "compromised device" -> 80
       [] t = "impossible travel"  -> 80
       [] t = "fraud ring"         -> 90
       [] t = "fraud neighbour"    -> 85]

Floors(ts) == {10} \cup {FloorTable[t] : t \in ts \cap DOMAIN FloorTable}
AccountFloors(n) == {70 : m \in {k \in {n} : k >= 3}}

LEMMA FloorsTyped ==
  ASSUME NEW ts \in SUBSET Threats, NEW n \in Nat
  PROVE  /\ Floors(ts) \in SUBSET (0 .. 100) /\ AccountFloors(n) \in SUBSET (0 .. 100)
         /\ Floors(ts) # {}
  <1>1. /\ FloorTable["malicious ip"] = 85 /\ FloorTable["compromised device"] = 80
        /\ FloorTable["impossible travel"] = 80 /\ FloorTable["fraud ring"] = 90
        /\ FloorTable["fraud neighbour"] = 85
    BY DEF FloorTable, Threats
  <1>2. DOMAIN FloorTable = {"malicious ip", "compromised device", "impossible travel",
                             "fraud ring", "fraud neighbour"}
    BY DEF FloorTable, Threats
  <1>3. ASSUME NEW t \in DOMAIN FloorTable PROVE FloorTable[t] \in 0 .. 100
    <2>1. FloorTable[t] = 80 \/ FloorTable[t] = 85 \/ FloorTable[t] = 90
      BY ZenonT(60), <1>1, <1>2
    <2> QED BY <2>1
  <1>4. {10} \in SUBSET (0 .. 100) /\ {FloorTable[t] : t \in ts \cap DOMAIN FloorTable} \in SUBSET (0 .. 100)
    BY <1>3
  <1>5. AccountFloors(n) \in SUBSET (0 .. 100)
    BY DEF AccountFloors
  <1> QED BY <1>4, <1>5 DEF Floors

LEMMA FloorIs ==
  ASSUME NEW in \in Inputs
  PROVE  Floor(in) = Max({Max(Floors(in.threats))} \cup AccountFloors(in.accounts))
  BY DEF Floor, FloorOf, Floors, FloorTable, AccountFloors

LEMMA FloorTyped ==
  ASSUME NEW in \in Inputs
  PROVE  Floor(in) \in 0 .. 100
  <1>1. Max(Floors(in.threats)) \in 0 .. 100
    BY InputTyped, FloorsTyped, ScoreMax
  <1>2. {Max(Floors(in.threats))} \cup AccountFloors(in.accounts) \in SUBSET (0 .. 100)
    BY <1>1, InputTyped, FloorsTyped
  <1> QED BY <1>2, FloorIs, ScoreMax

LEMMA FloorMonotone ==
  ASSUME NEW in \in Inputs, NEW more \in Inputs,
         in.threats \subseteq more.threats, more.accounts = in.accounts
  PROVE  Floor(more) >= Floor(in)
  <1> DEFINE a == Max(Floors(in.threats))
             b == Max(Floors(more.threats))
             F == AccountFloors(in.accounts)
  <1>1. Floors(in.threats) \subseteq Floors(more.threats)
    BY DEF Floors
  <1>2. a \in 0 .. 100 /\ b \in 0 .. 100 /\ b >= a
    BY <1>1, InputTyped, FloorsTyped, ScoreMax, ScoreMaxMonotone
  <1>3. F \in SUBSET (0 .. 100)
    BY InputTyped, FloorsTyped
  <1>4. Floor(in) = Max({a} \cup F) /\ Floor(more) = Max({b} \cup F)
    BY FloorIs
  <1> HIDE DEF a, b, F
  <1>5. Max({a} \cup F) \in {a} \cup F /\ Max({a} \cup F) \in 0 .. 100
    BY <1>2, <1>3, ScoreMax
  <1>6. Max({b} \cup F) \in 0 .. 100 /\ \A x \in {b} \cup F : Max({b} \cup F) >= x
    BY <1>2, <1>3, ScoreMax
  <1> QED BY <1>2, <1>3, <1>4, <1>5, <1>6

\* What a threat, the rest of the request and its accounts add to the fallback's score.
Points(in, t) == IF t \in in.threats THEN FallbackPoints[t] ELSE 0
OtherPoints(in) == 15 + (IF in.amount > 100000 THEN 35 ELSE 0) + (IF in.busyIp THEN 30 ELSE 0)
AccountPoints(in) == IF in.accounts >= 3 THEN 55 ELSE IF in.accounts = 2 THEN 30 ELSE 0
PointSum(in) ==
  OtherPoints(in) + Points(in, "impossible travel") + Points(in, "malicious ip")
    + Points(in, "proxy") + Points(in, "compromised device") + Points(in, "fraud neighbour")
    + AccountPoints(in)

LEMMA FallbackIs ==
  ASSUME NEW in \in Inputs
  PROVE  FallbackScore(in) = Min({99, PointSum(in)})
  BY DEF FallbackScore, PointSum, Points, OtherPoints, AccountPoints

AddingThreats == {"impossible travel", "malicious ip", "proxy", "compromised device", "fraud neighbour"}

LEMMA PointsTyped ==
  ASSUME NEW in \in Inputs, NEW u \in AddingThreats
  PROVE  Points(in, u) \in Nat
  <1>1. FallbackPoints[u] \in Nat
    BY DEF FallbackPoints, Threats, AddingThreats
  <1> QED BY <1>1 DEF Points

LEMMA PointSumIs ==
  ASSUME NEW in \in Inputs
  PROVE  \E a, b, c, d, e, f, g \in Nat :
           /\ PointSum(in) = a + b + c + d + e + f + g
           /\ a = OtherPoints(in) /\ b = Points(in, "impossible travel")
           /\ c = Points(in, "malicious ip") /\ d = Points(in, "proxy")
           /\ e = Points(in, "compromised device") /\ f = Points(in, "fraud neighbour")
           /\ g = AccountPoints(in)
  <1>1. OtherPoints(in) \in Nat
    <2>1. (IF in.amount > 100000 THEN 35 ELSE 0) \in Nat /\ (IF in.busyIp THEN 30 ELSE 0) \in Nat
      OBVIOUS
    <2> QED BY <2>1 DEF OtherPoints
  <1>2. AccountPoints(in) \in Nat
    BY DEF AccountPoints
  <1>3. /\ Points(in, "impossible travel") \in Nat /\ Points(in, "malicious ip") \in Nat
        /\ Points(in, "proxy") \in Nat /\ Points(in, "compromised device") \in Nat
        /\ Points(in, "fraud neighbour") \in Nat
    BY PointsTyped DEF AddingThreats
  <1> QED BY <1>1, <1>2, <1>3 DEF PointSum

LEMMA FallbackTyped ==
  ASSUME NEW in \in Inputs
  PROVE  FallbackScore(in) \in 0 .. 99
  <1> DEFINE a == PointSum(in)
  <1>1. a \in Nat
    <2>1. PICK a1, a2, a3, a4, a5, a6, a7 \in Nat :
            /\ PointSum(in) = a1 + a2 + a3 + a4 + a5 + a6 + a7
            /\ a1 = OtherPoints(in) /\ a2 = Points(in, "impossible travel")
            /\ a3 = Points(in, "malicious ip") /\ a4 = Points(in, "proxy")
            /\ a5 = Points(in, "compromised device") /\ a6 = Points(in, "fraud neighbour")
            /\ a7 = AccountPoints(in)
      BY PointSumIs
    <2>2. a1 + a2 + a3 + a4 + a5 + a6 + a7 \in Nat
      OBVIOUS
    <2> QED BY <2>1, <2>2
  <1>2. FallbackScore(in) = Min({99, a})
    BY FallbackIs
  <1> HIDE DEF a
  <1>3. Min({99, a}) \in {99, a} /\ Min({99, a}) =< 99
    BY <1>1, MinOfTwo
  <1> QED BY <1>1, <1>2, <1>3

LEMMA FallbackMonotone ==
  ASSUME NEW in \in Inputs, NEW t \in Threats
  PROVE  FallbackScore([in EXCEPT !.threats = @ \cup {t}]) >= FallbackScore(in)
  <1> DEFINE more == [in EXCEPT !.threats = @ \cup {t}]
             a == PointSum(in)
             b == PointSum(more)
  <1>1. more \in Inputs /\ in.threats \subseteq more.threats
    BY MoreThreats
  <1>2. OtherPoints(more) = OtherPoints(in) /\ AccountPoints(more) = AccountPoints(in)
    BY MoreThreats DEF OtherPoints, AccountPoints
  <1>3. ASSUME NEW u \in AddingThreats PROVE Points(in, u) <= Points(more, u)
    <2>1. Points(in, u) \in Nat /\ Points(more, u) \in Nat
      BY <1>1, PointsTyped
    <2>2. Points(in, u) = Points(more, u) \/ Points(in, u) = 0
      BY <1>1 DEF Points
    <2> QED BY <2>1, <2>2
  <1>4. /\ Points(in, "impossible travel") <= Points(more, "impossible travel")
        /\ Points(in, "malicious ip") <= Points(more, "malicious ip")
        /\ Points(in, "proxy") <= Points(more, "proxy")
        /\ Points(in, "compromised device") <= Points(more, "compromised device")
        /\ Points(in, "fraud neighbour") <= Points(more, "fraud neighbour")
    BY <1>3 DEF AddingThreats
  <1> HIDE DEF more
  <1>5. a \in Nat /\ b \in Nat /\ a <= b
    <2>1. PICK a1, a2, a3, a4, a5, a6, a7 \in Nat :
            /\ PointSum(in) = a1 + a2 + a3 + a4 + a5 + a6 + a7
            /\ a1 = OtherPoints(in) /\ a2 = Points(in, "impossible travel")
            /\ a3 = Points(in, "malicious ip") /\ a4 = Points(in, "proxy")
            /\ a5 = Points(in, "compromised device") /\ a6 = Points(in, "fraud neighbour")
            /\ a7 = AccountPoints(in)
      BY PointSumIs
    <2>2. PICK b1, b2, b3, b4, b5, b6, b7 \in Nat :
            /\ PointSum(more) = b1 + b2 + b3 + b4 + b5 + b6 + b7
            /\ b1 = OtherPoints(more) /\ b2 = Points(more, "impossible travel")
            /\ b3 = Points(more, "malicious ip") /\ b4 = Points(more, "proxy")
            /\ b5 = Points(more, "compromised device") /\ b6 = Points(more, "fraud neighbour")
            /\ b7 = AccountPoints(more)
      BY <1>1, PointSumIs
    <2>3. a1 = b1 /\ a2 <= b2 /\ a3 <= b3 /\ a4 <= b4 /\ a5 <= b5 /\ a6 <= b6 /\ a7 = b7
      BY <1>2, <1>4, <2>1, <2>2
    <2>4. a1 + a2 + a3 + a4 + a5 + a6 + a7 <= b1 + b2 + b3 + b4 + b5 + b6 + b7
      BY <2>3
    <2>5. /\ a1 + a2 + a3 + a4 + a5 + a6 + a7 \in Nat
          /\ b1 + b2 + b3 + b4 + b5 + b6 + b7 \in Nat
      OBVIOUS
    <2> QED BY <2>1, <2>2, <2>4, <2>5
  <1>6. FallbackScore(in) = Min({99, a}) /\ FallbackScore(more) = Min({99, b})
    BY <1>1, FallbackIs
  <1> HIDE DEF a, b
  <1>7. /\ Min({99, a}) \in {99, a} /\ Min({99, a}) =< 99 /\ Min({99, a}) =< a
        /\ Min({99, b}) \in {99, b} /\ Min({99, b}) =< 99 /\ Min({99, b}) =< b
    BY <1>5, MinOfTwo
  <1>8. FallbackScore(more) >= FallbackScore(in)
    BY <1>5, <1>6, <1>7
  <1> QED BY <1>8 DEF more

\* The scores a hard threat stands for.
HardScores(ts) ==
  {0} \cup {90 : t \in ts \cap {"fraud neighbour"}}
      \cup {88 : t \in ts \cap {"impossible travel"}}
      \cup {85 : t \in ts \cap {"malicious ip"}}

LEMMA HardScoresTyped ==
  ASSUME NEW ts \in SUBSET Threats
  PROVE  /\ HardScores(ts) \in SUBSET (0 .. 100) /\ HardScores(ts) # {}
         /\ HardThreatScore(ts) = Max(HardScores(ts)) /\ HardThreatScore(ts) \in 0 .. 100
  <1>1. HardScores(ts) \in SUBSET (0 .. 100) /\ HardScores(ts) # {}
    <2>1. /\ {90 : t \in ts \cap {"fraud neighbour"}} \subseteq {90}
          /\ {88 : t \in ts \cap {"impossible travel"}} \subseteq {88}
          /\ {85 : t \in ts \cap {"malicious ip"}} \subseteq {85}
      OBVIOUS
    <2>2. 0 \in 0 .. 100 /\ 90 \in 0 .. 100 /\ 88 \in 0 .. 100 /\ 85 \in 0 .. 100
      OBVIOUS
    <2>3. HardScores(ts) \subseteq {0, 90, 88, 85} /\ HardScores(ts) # {}
      BY ZenonT(60), <2>1 DEF HardScores
    <2> QED BY <2>2, <2>3
  <1>2. HardThreatScore(ts) = Max(HardScores(ts))
    BY DEF HardThreatScore, HardScores
  <1> QED BY <1>1, <1>2, ScoreMax

LEMMA HardThreatScoreMonotone ==
  ASSUME NEW ts \in SUBSET Threats, NEW us \in SUBSET Threats, ts \subseteq us
  PROVE  HardThreatScore(us) >= HardThreatScore(ts)
  <1>1. HardScores(ts) \subseteq HardScores(us)
    <2>1. /\ {90 : t \in ts \cap {"fraud neighbour"}} \subseteq {90 : t \in us \cap {"fraud neighbour"}}
          /\ {88 : t \in ts \cap {"impossible travel"}} \subseteq {88 : t \in us \cap {"impossible travel"}}
          /\ {85 : t \in ts \cap {"malicious ip"}} \subseteq {85 : t \in us \cap {"malicious ip"}}
      OBVIOUS
    <2> QED BY <2>1, Zenon DEF HardScores
  <1> QED BY <1>1, HardScoresTyped, ScoreMaxMonotone

LEMMA HardThreatScores85 ==
  ASSUME NEW ts \in SUBSET Threats, ts \cap HardThreats # {}
  PROVE  HardThreatScore(ts) >= 85
  <1>1. PICK x \in HardScores(ts) : x \in {85, 88, 90}
    BY ZenonT(60) DEF HardThreats, HardScores
  <1>2. Max(HardScores(ts)) >= x /\ Max(HardScores(ts)) \in 0 .. 100
    BY HardScoresTyped, ScoreMax
  <1>3. x \in Int /\ x >= 85
    BY <1>1
  <1> QED BY <1>2, <1>3, HardScoresTyped

Answer(in) == IF in.legacy = Failed THEN FallbackScore(in) ELSE in.legacy

LEMMA AnswerTyped ==
  ASSUME NEW in \in Inputs
  PROVE  Answer(in) \in 0 .. 100
  <1>1. FallbackScore(in) \in 0 .. 100
    BY FallbackTyped
  <1> QED BY <1>1, InputTyped DEF Answer

LEMMA ModelScoreIs ==
  ASSUME NEW in \in Inputs
  PROVE  /\ in.candidate \in Scores => ModelScore(in) = in.candidate
         /\ in.candidate = Failed => ModelScore(in) = Max({Floor(in), Answer(in)})
         /\ in.candidate = NotAsked => ModelScore(in) = Answer(in)
         /\ in.candidate \in Scores \/ in.candidate = Failed \/ in.candidate = NotAsked
  <1>1. Failed \notin Scores /\ NotAsked \notin Scores /\ Failed # NotAsked
    BY DecisionAssumption DEF Failed, NotAsked
  <1>2. in.candidate \in Scores \/ in.candidate = Failed \/ in.candidate = NotAsked
    BY DEF Inputs
  <1>3. ModelScore(in) = CASE in.candidate \in Scores -> in.candidate
                           [] in.candidate = Failed   -> Max({Floor(in), Answer(in)})
                           [] in.candidate = NotAsked -> Answer(in)
    BY DEF ModelScore, Answer
  <1> QED BY <1>1, <1>2, <1>3

LEMMA ModelScoreTyped ==
  ASSUME NEW in \in Inputs
  PROVE  ModelScore(in) \in 0 .. 100
  <1>1. CASE in.candidate \in Scores
    BY <1>1, ModelScoreIs, DecisionAssumption
  <1>2. CASE in.candidate = Failed
    <2>1. {Floor(in), Answer(in)} \in SUBSET (0 .. 100)
      BY FloorTyped, AnswerTyped
    <2>2. Max({Floor(in), Answer(in)}) \in 0 .. 100
      BY <2>1, ScoreMax
    <2> QED BY <1>2, <2>2, ModelScoreIs
  <1>3. CASE in.candidate = NotAsked
    BY <1>3, ModelScoreIs, AnswerTyped
  <1> QED BY <1>1, <1>2, <1>3, ModelScoreIs

LEMMA FinalScoreIs ==
  ASSUME NEW in \in Inputs
  PROVE  /\ FinalScore(in) \in 0 .. 100
         /\ ~Halted(in) => /\ FinalScore(in) \in {ModelScore(in), HardThreatScore(in.threats)}
                           /\ FinalScore(in) >= ModelScore(in)
                           /\ FinalScore(in) >= HardThreatScore(in.threats)
  <1> DEFINE a == ModelScore(in)
             b == HardThreatScore(in.threats)
  <1>1. a \in 0 .. 100 /\ b \in 0 .. 100
    BY ModelScoreTyped, InputTyped, HardScoresTyped
  <1>2. FinalScore(in) = IF Halted(in) THEN (IF PreRule(in.rules).action = "DECLINE" THEN 95 ELSE 5)
                         ELSE Max({a, b})
    BY DEF FinalScore
  <1> HIDE DEF a, b
  <1>3. Max({a, b}) \in {a, b} /\ Max({a, b}) >= a /\ Max({a, b}) >= b
    <2>1. a \in Int /\ b \in Int
      BY <1>1
    <2> QED BY <2>1, MaxOfTwo
  <1>4. FinalScore(in) \in 0 .. 100
    BY <1>1, <1>2, <1>3
  <1>5. ~Halted(in) => FinalScore(in) \in {a, b} /\ FinalScore(in) >= a /\ FinalScore(in) >= b
    BY <1>2, <1>3
  <1> QED BY <1>4, <1>5 DEF a, b

\* A hard threat puts the score on the ladder's top step, whoever answers.
LEMMA HardThreatIsDeclined ==
  ASSUME NEW in \in Inputs, in.threats \cap HardThreats # {}, ~Halted(in)
  PROVE  Recommendation(in) = "DECLINE"
  <1>1. HardThreatScore(in.threats) >= 85 /\ HardThreatScore(in.threats) \in 0 .. 100
    BY InputTyped, HardThreatScores85, HardScoresTyped
  <1>2. FinalScore(in) >= 85
    BY <1>1, FinalScoreIs
  <1> QED BY <1>2 DEF Recommendation, Ladder

\* The floor can only raise what the legacy route answers.
LEMMA FailedCandidateIsNotLower ==
  ASSUME NEW in \in Inputs, in.candidate = Failed
  PROVE  FinalScore(in) >= FinalScore([in EXCEPT !.candidate = NotAsked])
  <1> DEFINE old == [in EXCEPT !.candidate = NotAsked]
  <1>1. /\ old \in Inputs /\ old.candidate = NotAsked /\ old.legacy = in.legacy
        /\ old.threats = in.threats /\ old.rules = in.rules /\ old.accounts = in.accounts
        /\ old.busyIp = in.busyIp /\ old.amount = in.amount
    BY DEF Inputs
  <1>2. FallbackScore(old) = FallbackScore(in)
    BY <1>1 DEF FallbackScore
  <1> HIDE DEF old
  <1>3. Answer(old) = Answer(in)
    BY <1>1, <1>2 DEF Answer
  <1>4. Halted(old) = Halted(in) /\ PreRule(old.rules) = PreRule(in.rules)
    BY <1>1 DEF Halted
  <1>5. FinalScore(in) >= FinalScore(old)
    <2>1. CASE Halted(in)
      <3>1. FinalScore(in) = FinalScore(old)
        BY <1>4, <2>1 DEF FinalScore
      <3> QED BY <3>1, FinalScoreIs
    <2>2. CASE ~Halted(in)
      <3>1. {Floor(in), Answer(in)} \in SUBSET (0 .. 100)
        BY FloorTyped, AnswerTyped
      <3>2. ModelScore(in) >= Answer(in)
        BY <3>1, ScoreMax, ModelScoreIs
      <3>3. ModelScore(old) = Answer(in)
        BY <1>1, <1>3, ModelScoreIs
      <3>4. FinalScore(in) >= ModelScore(in) /\ FinalScore(in) >= HardThreatScore(in.threats)
        BY <2>2, FinalScoreIs
      <3>5. FinalScore(old) \in {ModelScore(old), HardThreatScore(in.threats)}
        BY <1>1, <1>4, <2>2, FinalScoreIs
      <3>6. ModelScore(in) \in Int /\ Answer(in) \in Int /\ FinalScore(in) \in Int
        BY ModelScoreTyped, AnswerTyped, FinalScoreIs
      <3> QED BY <3>2, <3>3, <3>4, <3>5, <3>6
    <2> QED BY <2>1, <2>2
  <1> QED BY <1>5 DEF old

LEMMA AnswerMonotone ==
  ASSUME NEW in \in Inputs, NEW t \in Threats
  PROVE  Answer([in EXCEPT !.threats = @ \cup {t}]) >= Answer(in)
  <1> DEFINE more == [in EXCEPT !.threats = @ \cup {t}]
  <1>1. more \in Inputs /\ more.legacy = in.legacy
    BY MoreThreats
  <1>2. FallbackScore(more) >= FallbackScore(in)
    BY FallbackMonotone
  <1> HIDE DEF more
  <1>3. Answer(more) >= Answer(in)
    <2>1. CASE in.legacy = Failed
      BY <1>1, <1>2, <2>1 DEF Answer
    <2>2. CASE in.legacy # Failed
      <3>1. Answer(more) = Answer(in)
        BY <1>1, <2>2 DEF Answer
      <3> QED BY <3>1, AnswerTyped
    <2> QED BY <2>1, <2>2
  <1> QED BY <1>3 DEF more

\* A further threat raises or keeps the floor, the answer and the hard score.
LEMMA FurtherThreatIsNotLower ==
  ASSUME NEW in \in Inputs, NEW t \in Threats
  PROVE  FinalScore([in EXCEPT !.threats = @ \cup {t}]) >= FinalScore(in)
  <1> DEFINE more == [in EXCEPT !.threats = @ \cup {t}]
  <1>1. /\ more \in Inputs /\ in.threats \subseteq more.threats /\ more.accounts = in.accounts
        /\ more.candidate = in.candidate /\ more.rules = in.rules
    BY MoreThreats
  <1>2. Answer(more) >= Answer(in)
    BY AnswerMonotone
  <1> HIDE DEF more
  <1>3. Floor(more) >= Floor(in) /\ HardThreatScore(more.threats) >= HardThreatScore(in.threats)
    BY <1>1, FloorMonotone, InputTyped, HardThreatScoreMonotone
  <1>4. /\ Floor(in) \in 0 .. 100 /\ Floor(more) \in 0 .. 100
        /\ Answer(in) \in 0 .. 100 /\ Answer(more) \in 0 .. 100
        /\ ModelScore(in) \in 0 .. 100 /\ ModelScore(more) \in 0 .. 100
    BY <1>1, FloorTyped, AnswerTyped, ModelScoreTyped
  <1>5. ModelScore(more) >= ModelScore(in)
    <2>1. CASE in.candidate \in Scores
      <3>1. ModelScore(more) = ModelScore(in)
        BY <1>1, <2>1, ModelScoreIs
      <3> QED BY <3>1, <1>4
    <2>2. CASE in.candidate = Failed
      <3> DEFINE a == Floor(in)
                 b == Answer(in)
                 c == Floor(more)
                 d == Answer(more)
      <3>1. ModelScore(in) = Max({a, b}) /\ ModelScore(more) = Max({c, d})
        BY <1>1, <2>2, ModelScoreIs
      <3>2. a \in Int /\ b \in Int /\ c \in Int /\ d \in Int /\ c >= a /\ d >= b
        BY <1>2, <1>3, <1>4
      <3> HIDE DEF a, b, c, d
      <3>3. Max({a, b}) \in {a, b} /\ Max({c, d}) >= c /\ Max({c, d}) >= d /\ Max({c, d}) \in {c, d}
        BY <3>2, MaxOfTwo
      <3> QED BY <3>1, <3>2, <3>3
    <2>3. CASE in.candidate = NotAsked
      BY <1>1, <1>2, <2>3, ModelScoreIs
    <2> QED BY <2>1, <2>2, <2>3, ModelScoreIs
  <1>6. FinalScore(more) >= FinalScore(in)
    <2>1. Halted(more) = Halted(in)
      BY <1>1 DEF Halted
    <2>2. CASE Halted(in)
      <3>1. FinalScore(more) = FinalScore(in)
        BY <1>1, <2>1, <2>2 DEF FinalScore
      <3> QED BY <3>1, FinalScoreIs
    <2>3. CASE ~Halted(in)
      <3>1. FinalScore(in) \in {ModelScore(in), HardThreatScore(in.threats)}
        BY <2>3, FinalScoreIs
      <3>2. /\ FinalScore(more) >= ModelScore(more)
            /\ FinalScore(more) >= HardThreatScore(more.threats)
            /\ FinalScore(more) \in 0 .. 100
        BY <1>1, <2>1, <2>3, FinalScoreIs
      <3>3. HardThreatScore(in.threats) \in 0 .. 100 /\ HardThreatScore(more.threats) \in 0 .. 100
        BY <1>1, InputTyped, HardScoresTyped
      <3> QED BY SMTT(30), <1>3, <1>4, <1>5, <3>1, <3>2, <3>3
    <2> QED BY <2>2, <2>3
  <1> QED BY <1>6 DEF more

RuleRow(r) == r \in [action : STRING, status : STRING, updated : Nat, matches : BOOLEAN]

LEMMA RulesTyped ==
  ASSUME NEW in \in Inputs
  PROVE  IsFiniteSet(in.rules) /\ \A r \in in.rules : RuleRow(r)
  BY DecisionAssumption DEF Inputs, RuleRow

\* The decision depends on the rules only through those that decide.
LEMMA SameDeciding ==
  ASSUME NEW in \in Inputs, NEW S, NEW T, Deciding(S) = Deciding(T)
  PROVE  Recommendation([in EXCEPT !.rules = S]) = Recommendation([in EXCEPT !.rules = T])
  <1> DEFINE x == [in EXCEPT !.rules = S]
             y == [in EXCEPT !.rules = T]
  <1>1. /\ x.threats = y.threats /\ x.accounts = y.accounts /\ x.busyIp = y.busyIp
        /\ x.amount = y.amount /\ x.candidate = y.candidate /\ x.legacy = y.legacy
        /\ x.rules = S /\ y.rules = T
    BY DEF Inputs
  <1> HIDE DEF x, y
  <1>2. Floor(x) = Floor(y)
    BY <1>1 DEF Floor
  <1>3. FallbackScore(x) = FallbackScore(y)
    BY <1>1 DEF FallbackScore
  <1>4. ModelScore(x) = ModelScore(y)
    BY <1>1, <1>2, <1>3 DEF ModelScore
  <1>5. Halted(x) = Halted(y) /\ PreRule(x.rules) = PreRule(y.rules)
    BY <1>1 DEF Halted, PreRule
  <1>6. FinalScore(x) = FinalScore(y)
    BY <1>1, <1>4, <1>5 DEF FinalScore
  <1>7. Recommendation(x) = Recommendation(y)
    BY <1>1, <1>5, <1>6 DEF Recommendation
  <1> QED BY <1>7 DEF x, y

\* A rule that decides and was touched later than the others decides alone.
LEMMA LatestDecides ==
  ASSUME NEW in \in Inputs, NEW T, NEW r \in Deciding(T), r.updated \in Nat,
         \A s \in Deciding(T) : s = r \/ (s.updated \in Nat /\ s.updated < r.updated)
  PROVE  Recommendation([in EXCEPT !.rules = T]) = r.action
  <1> DEFINE x == [in EXCEPT !.rules = T]
             first(s) == \A o \in Deciding(T) : s.updated >= o.updated
  <1>1. x.rules = T
    BY DEF Inputs
  <1>2. first(r)
    OBVIOUS
  <1>3. \A s \in Deciding(T) : first(s) => s = r
    OBVIOUS
  <1>4. PreRule(T) = CHOOSE s \in Deciding(T) : first(s)
    BY DEF PreRule
  <1> HIDE DEF first, x
  <1>5. PreRule(T) = r
    BY <1>2, <1>3, <1>4
  <1>6. Recommendation(x) = r.action
    BY <1>1, <1>5 DEF Recommendation, Halted
  <1> QED BY <1>6 DEF x

\* Touching a rule puts it first if it decides, and removes it from no choice if it does not.
LEMMA TouchedDecides ==
  ASSUME NEW in \in Inputs, NEW r \in in.rules
  PROVE  LET touched == [r EXCEPT !.updated = 1 + Max({s.updated : s \in in.rules})]
             after == [in EXCEPT !.rules = (@ \ {r}) \cup {touched}]
         IN IF r.matches /\ r.status = "ACTIVE" /\ r.action \in HardActions
              THEN Recommendation(after) = r.action
              ELSE Recommendation(after) = Recommendation([in EXCEPT !.rules = @ \ {r}])
  <1> DEFINE times == {s.updated : s \in in.rules}
             touched == [r EXCEPT !.updated = 1 + Max(times)]
             T == (in.rules \ {r}) \cup {touched}
             S == in.rules \ {r}
             decides == r.matches /\ r.status = "ACTIVE" /\ r.action \in HardActions
  <1>1. Max(times) \in Nat /\ \A s \in in.rules : s.updated \in Nat /\ Max(times) >= s.updated
    <2> DEFINE f == [s \in in.rules |-> s.updated]
    <2>1. times \in SUBSET Nat /\ times # {}
      BY RulesTyped DEF RuleRow
    <2>2. f \in Surjection(in.rules, times)
      BY DEF Surjection
    <2> HIDE DEF f
    <2>3. IsFiniteSet(times)
      BY <2>2, RulesTyped, FS_Surjection
    <2>4. times \in SUBSET Int
      BY <2>1
    <2>5. \A s \in in.rules : s.updated \in times
      OBVIOUS
    <2> HIDE DEF times
    <2>6. Max(times) \in times /\ \A x \in times : Max(times) >= x
      BY <2>1, <2>3, <2>4, FiniteMax
    <2> QED BY <2>1, <2>5, <2>6
  <1> DEFINE later == 1 + Max(times)
  <1>2. later \in Nat /\ \A s \in in.rules : s.updated \in Nat /\ s.updated < later
    BY <1>1
  <1> HIDE DEF later
  <1>3. touched = [r EXCEPT !.updated = later]
    BY DEF later
  <1>4. /\ touched.updated = later /\ touched.action = r.action
        /\ touched.status = r.status /\ touched.matches = r.matches
    BY <1>3, RulesTyped DEF RuleRow
  <1> HIDE DEF touched
  <1>5. CASE decides
    <2>1. touched \in Deciding(T)
      BY <1>4, <1>5 DEF Deciding
    <2>2. \A s \in Deciding(T) : s = touched \/ (s.updated \in Nat /\ s.updated < touched.updated)
      BY <1>2, <1>4 DEF Deciding
    <2>3. Recommendation([in EXCEPT !.rules = T]) = touched.action
      BY <1>2, <1>4, <2>1, <2>2, LatestDecides
    <2> QED BY <1>4, <1>5, <2>3 DEF touched
  <1>6. CASE ~decides
    <2>1. Deciding(T) = Deciding(S)
      BY <1>4, <1>6 DEF Deciding
    <2>2. Recommendation([in EXCEPT !.rules = T]) = Recommendation([in EXCEPT !.rules = S])
      BY <2>1, SameDeciding
    <2> QED BY <1>6, <2>2 DEF touched
  <1> QED BY <1>5, <1>6

(* For every price list, table of rules, amount and answer of the models:   *)
(* a hard threat is declined whoever fails, a failed canary is never         *)
(* scored below the legacy route, a further threat never lowers the score,  *)
(* the costs justify what the policy chooses, and the rule touched last     *)
(* decides (orchestrator.go, steps 2 to 4 of Evaluate; cost_policy.go).      *)
THEOREM DecisionsAreSound == DecisionSpec => []DecisionSound
  <1>1. ASSUME NEW in \in Inputs, asked = {in} PROVE DecisionSound
    <2>1. HardThreatDeclined
      BY <1>1, HardThreatIsDeclined DEF HardThreatDeclined
    <2>2. CandidateFailureSafe
      BY <1>1, FailedCandidateIsNotLower DEF CandidateFailureSafe
    <2>3. MoreThreatsNotLower
      BY <1>1, FurtherThreatIsNotLower DEF MoreThreatsNotLower
    <2>4. CostsJustify
      <3> DEFINE p == FinalScore(in)
      <3>1. p \in 0 .. 100 /\ in.amount \in Nat
        BY FinalScoreIs, InputTyped
      <3> HIDE DEF p
      <3>2. CheapestAdmitted(p, in.amount)
        BY <3>1, CheapestIsChosen
      <3>3. \A q \in Scores : DeclineStays(p, q, in.amount)
        BY <3>1, LikelierFraudKeepsDecline, DecisionAssumption
      <3> QED BY <1>1, <3>2, <3>3 DEF CostsJustify, p
    <2>5. LastTouchedDecides
      BY <1>1, TouchedDecides DEF LastTouchedDecides
    <2> QED BY <2>1, <2>2, <2>3, <2>4, <2>5 DEF DecisionSound
  <1> DEFINE Asked == \E in \in Inputs : asked = {in}
  <1>2. DecisionInit => Asked
    BY DEF DecisionInit
  <1>3. Asked /\ [FALSE]_asked => Asked'
    OBVIOUS
  <1>4. Asked => DecisionSound
    BY <1>1
  <1> HIDE DEF Asked
  <1> QED BY <1>2, <1>3, <1>4, PTL DEF DecisionSpec

-----------------------------------------------------------------------------
(* What becomes of decisions, for any number of calls and payments.          *)

Evaluating ==
  [pc : {"idle", "decided", "counted", "persisted", "answered"},
   payment : Payments \cup {Nothing}, device : BOOLEAN,
   action : {"ALLOW", "MANUAL_REVIEW", Nothing},
   outcome : {"committed", "rolled back", "failed", Nothing}, uncounted : BOOLEAN]
DecisionRow ==
  [id : Evaluations \cup {Nothing}, action : {"ALLOW", "MANUAL_REVIEW", Nothing}]
Dispute == [payment : Payments, evidence : Evaluations \cup {Nothing}]

\* FlowTypeOK, but for the bound of the counters: that one follows from what they count.
FlowTyped ==
  /\ eval \in [Evaluations -> Evaluating]
  /\ counted \in [Payments -> Nat]
  /\ row \in [Payments -> DecisionRow]
  /\ events \in Seq(Evaluations) /\ chain \in Seq(Evaluations)
  /\ ledger \subseteq Evaluations
  /\ channel \in 0 .. ChannelSize /\ unlogged \in Nat
  /\ sunk \in [Evaluations -> Nat]
  /\ dispute \in Seq(Dispute)
  /\ flowFaults \in 0 .. MaxFlowFaults

(* Where a call is, what it knows and what became of its decision agree     *)
(* with the events.                                                         *)
CallAgrees(e) ==
  /\ eval[e].pc = "idle" => eval[e].payment = Nothing
  /\ eval[e].pc \in {"idle", "decided"} => ~eval[e].uncounted
  /\ eval[e].pc # "idle" => eval[e].payment \in Payments /\ eval[e].action # Nothing
  /\ eval[e].outcome # Nothing <=> eval[e].pc \in {"persisted", "answered"}
  /\ eval[e].outcome = "committed" <=> e \in ToSet(events)
  /\ eval[e].outcome = "rolled back" =>
       /\ eval[e].device
       /\ \E d \in ToSet(events) \ {e} : eval[d].payment = eval[e].payment

CallsAgree == \A e \in Evaluations : CallAgrees(e)
EventsDistinct == \A i, j \in DOMAIN events : events[i] = events[j] => i = j
RowFilled == \A p \in Payments : row[p].id = Nothing <=> row[p].action = Nothing

CountedFor(p) ==
  {e \in Evaluations : /\ eval[e].payment = p /\ eval[e].pc \notin {"idle", "decided"}
                       /\ ~eval[e].uncounted}
CommittedFor(p) == {e \in Evaluations : eval[e].payment = p /\ eval[e].outcome = "committed"}

\* A device's event is written with the decision that it names.
LedgerCommitted == ledger \subseteq ToSet(events)

\* The two sides of CountsExplained, each counted on its own.
CountsExact ==
  \A p \in Payments :
    /\ counted[p] = Cardinality(CountedFor(p))
    /\ Cardinality(EventsOf(p)) = Cardinality(CommittedFor(p))

FlowIInv ==
  /\ FlowTyped /\ CallsAgree /\ EventsDistinct /\ RowFilled /\ RowMatchesEvents
  /\ LedgerCommitted /\ EvidenceStands /\ ChainCovers /\ CountsExact

LEMMA FlowConstants ==
  /\ IsFiniteSet(Evaluations) /\ Nothing \notin Evaluations /\ Nothing \notin Payments
  /\ ChannelSize \in Nat /\ MaxDisputes \in Nat /\ MaxFlowFaults \in Nat
  BY FlowAssumption

-----------------------------------------------------------------------------
(* What the actions do to a call.                                           *)

\* Only e's call moves.
OnlyCall(e) == eval' \in [Evaluations -> Evaluating] /\ \A d \in Evaluations \ {e} : eval'[d] = eval[d]
\* It keeps what it is about.
SameRequest(e) ==
  /\ eval'[e].payment = eval[e].payment /\ eval'[e].action = eval[e].action
  /\ eval'[e].device = eval[e].device

LEMMA DecideMoves ==
  ASSUME FlowTyped, NEW e \in Evaluations, NEW p \in Payments, NEW device \in BOOLEAN,
         NEW action \in {"ALLOW", "MANUAL_REVIEW"}, Decide(e, p, device, action)
  PROVE  /\ OnlyCall(e) /\ eval[e].pc = "idle" /\ eval'[e].pc = "decided" /\ eval'[e].payment = p
         /\ eval'[e].action = action /\ eval'[e].outcome = Nothing /\ ~eval'[e].uncounted
  <1> DEFINE r == [Fresh0 EXCEPT !.pc = "decided", !.payment = p, !.device = device, !.action = action]
  <1>1. /\ r \in Evaluating /\ r.pc = "decided" /\ r.payment = p /\ r.action = action
        /\ r.outcome = Nothing /\ ~r.uncounted
    BY DEF Fresh0, Evaluating
  <1>2. eval' = [eval EXCEPT ![e] = r] /\ eval[e].pc = "idle"
    BY DEF Decide
  <1> HIDE DEF r
  <1> QED BY <1>1, <1>2 DEF FlowTyped, OnlyCall

LEMMA CountMoves ==
  ASSUME FlowTyped, NEW e \in Evaluations, CountPayment(e)
  PROVE  /\ OnlyCall(e) /\ SameRequest(e) /\ eval[e].pc = "decided" /\ eval'[e].pc = "counted"
         /\ eval'[e].outcome = eval[e].outcome
  <1> DEFINE r == [eval[e] EXCEPT !.pc = "counted"]
             s == [eval[e] EXCEPT !.pc = "counted", !.uncounted = TRUE]
  <1>1. eval[e].pc = "decided" /\ (eval' = [eval EXCEPT ![e] = r] \/ eval' = [eval EXCEPT ![e] = s])
    BY DEF CountPayment, FlowTyped
  <1>2. \A x \in {r, s} : /\ x \in Evaluating /\ x.pc = "counted" /\ x.payment = eval[e].payment
                          /\ x.action = eval[e].action /\ x.device = eval[e].device
                          /\ x.outcome = eval[e].outcome
    BY DEF FlowTyped, Evaluating
  <1> HIDE DEF r, s
  <1> QED BY <1>1, <1>2 DEF FlowTyped, OnlyCall, SameRequest

LEMMA PersistMoves ==
  ASSUME FlowTyped, NEW e \in Evaluations, NEW outcome \in {"committed", "rolled back", "failed"},
         Persisted(e, outcome)
  PROVE  /\ OnlyCall(e) /\ SameRequest(e) /\ eval'[e].pc = "persisted"
         /\ eval'[e].outcome = outcome /\ eval'[e].uncounted = eval[e].uncounted
  <1> DEFINE r == [eval[e] EXCEPT !.pc = "persisted", !.outcome = outcome]
  <1>1. eval' = [eval EXCEPT ![e] = r]
    BY DEF Persisted, FlowTyped
  <1>2. /\ r \in Evaluating /\ r.pc = "persisted" /\ r.payment = eval[e].payment
        /\ r.action = eval[e].action /\ r.device = eval[e].device
        /\ r.outcome = outcome /\ r.uncounted = eval[e].uncounted
    BY DEF FlowTyped, Evaluating
  <1> HIDE DEF r
  <1> QED BY <1>1, <1>2 DEF FlowTyped, OnlyCall, SameRequest

LEMMA AnswerMoves ==
  ASSUME FlowTyped, NEW e \in Evaluations, AnswerClient(e)
  PROVE  /\ OnlyCall(e) /\ SameRequest(e) /\ eval[e].pc = "persisted" /\ eval'[e].pc = "answered"
         /\ eval'[e].outcome = eval[e].outcome /\ eval'[e].uncounted = eval[e].uncounted
  <1> DEFINE r == [eval[e] EXCEPT !.pc = "answered"]
  <1>1. eval[e].pc = "persisted" /\ eval' = [eval EXCEPT ![e] = r]
    BY DEF AnswerClient, FlowTyped
  <1>2. /\ r \in Evaluating /\ r.pc = "answered" /\ r.payment = eval[e].payment
        /\ r.action = eval[e].action /\ r.device = eval[e].device
        /\ r.outcome = eval[e].outcome /\ r.uncounted = eval[e].uncounted
    BY DEF FlowTyped, Evaluating
  <1> HIDE DEF r
  <1> QED BY <1>1, <1>2 DEF FlowTyped, OnlyCall, SameRequest

-----------------------------------------------------------------------------
(* What steps that leave a part of the state alone preserve.                *)

\* A call that has decided keeps its request and its outcome.
Onward ==
  /\ eval' \in [Evaluations -> Evaluating]
  /\ \A d \in Evaluations :
       /\ eval[d].pc # "idle" => /\ eval'[d].payment = eval[d].payment
                                 /\ eval'[d].action = eval[d].action
                                 /\ eval'[d].device = eval[d].device
       /\ eval[d].outcome # Nothing => eval'[d].outcome = eval[d].outcome

LEMMA EventsAreCalls ==
  ASSUME FlowTyped, CallsAgree, NEW i \in DOMAIN events
  PROVE  /\ events[i] \in Evaluations /\ events[i] \in ToSet(events)
         /\ eval[events[i]].pc # "idle" /\ eval[events[i]].outcome = "committed"
         /\ eval[events[i]].payment \in Payments /\ eval[events[i]].action # Nothing
  <1>1. events[i] \in Evaluations /\ events[i] \in ToSet(events)
    BY DEF FlowTyped, ToSet
  <1>2. CallAgrees(events[i]) /\ eval[events[i]].outcome = "committed"
    BY <1>1 DEF CallsAgree, CallAgrees
  <1>3. eval[events[i]].pc # "idle"
    BY <1>2 DEF CallAgrees, Nothing
  <1> QED BY <1>1, <1>2, <1>3 DEF CallAgrees

LEMMA EventsKept ==
  ASSUME FlowTyped, CallsAgree, Onward, UNCHANGED events
  PROVE  /\ \A p \in Payments : EventsOf(p)' = EventsOf(p)
         /\ \A i \in DOMAIN events : /\ eval'[events[i]].payment = eval[events[i]].payment
                                     /\ eval'[events[i]].action = eval[events[i]].action
  <1>1. \A i \in DOMAIN events : /\ eval'[events[i]].payment = eval[events[i]].payment
                                 /\ eval'[events[i]].action = eval[events[i]].action
    BY EventsAreCalls DEF Onward
  <1> QED BY <1>1 DEF EventsOf

LEMMA RowsKept ==
  ASSUME FlowIInv, Onward, UNCHANGED <<events, row>>
  PROVE  EventsDistinct' /\ RowFilled' /\ RowMatchesEvents'
  <1>1. EventsDistinct' /\ RowFilled'
    BY DEF FlowIInv, EventsDistinct, RowFilled
  <1>2. /\ \A p \in Payments : EventsOf(p)' = EventsOf(p)
        /\ \A i \in DOMAIN events : eval'[events[i]].action = eval[events[i]].action
    BY EventsKept DEF FlowIInv
  <1>3. \A p \in Payments : EventsOf(p) \subseteq DOMAIN events
    BY DEF EventsOf
  <1>4. ASSUME NEW p \in Payments
        PROVE  /\ (row'[p] = NoRow <=> EventsOf(p)' = {})
               /\ \A i \in EventsOf(p)' :
                    /\ (\A j \in EventsOf(p)' : j <= i) => row'[p].action = eval'[events'[i]].action
                    /\ (\A j \in EventsOf(p)' : i <= j) => row'[p].id = events'[i]
    <2>1. RowMatchesEvents
      BY DEF FlowIInv
    <2> QED BY <1>2, <1>3, <2>1 DEF RowMatchesEvents
  <1>5. RowMatchesEvents'
    BY <1>4 DEF RowMatchesEvents
  <1> QED BY <1>1, <1>5

LEMMA EvidenceKept ==
  ASSUME FlowIInv, Onward, UNCHANGED <<row, ledger, dispute, events>>
  PROVE  EvidenceStands' /\ LedgerCommitted'
  <1>1. \A e \in ledger : eval'[e].payment = eval[e].payment
    <2> SUFFICES ASSUME NEW e \in ledger PROVE eval'[e].payment = eval[e].payment
      OBVIOUS
    <2>1. PICK i \in DOMAIN events : events[i] = e
      BY DEF FlowIInv, LedgerCommitted, ToSet
    <2> QED BY <2>1, EventsKept DEF FlowIInv
  <1> QED BY <1>1 DEF FlowIInv, EvidenceStands, LedgerCommitted

LEMMA ChainKept ==
  ASSUME FlowIInv, UNCHANGED <<chain, channel, unlogged>>,
         \A d \in Evaluations : eval'[d].pc = "answered" <=> eval[d].pc = "answered"
  PROVE  ChainCovers'
  <1>1. Answered' = Answered
    BY DEF Answered
  <1> QED BY <1>1 DEF FlowIInv, ChainCovers

LEMMA CountsKept ==
  ASSUME FlowIInv, Onward, UNCHANGED <<events, counted>>,
         \A p \in Payments : CountedFor(p)' = CountedFor(p) /\ CommittedFor(p)' = CommittedFor(p)
  PROVE  CountsExact'
  <1>1. \A p \in Payments : EventsOf(p)' = EventsOf(p)
    BY EventsKept DEF FlowIInv
  <1> QED BY <1>1 DEF FlowIInv, CountsExact

LEMMA OnlyCallOnward ==
  ASSUME FlowIInv, NEW e \in Evaluations, OnlyCall(e),
         eval[e].pc = "idle" \/ (SameRequest(e) /\ eval[e].outcome \in {Nothing, eval'[e].outcome})
  PROVE  Onward
  <1>1. eval[e].pc = "idle" => eval[e].outcome = Nothing
    BY DEF FlowIInv, CallsAgree, CallAgrees
  <1>2. \A d \in Evaluations : d = e \/ eval'[d] = eval[d]
    BY DEF OnlyCall
  <1> QED BY <1>1, <1>2 DEF OnlyCall, SameRequest, Onward

\* The calls that do not move still agree with the events when e's event is added, or none.
LEMMA OthersAgree ==
  ASSUME FlowIInv, NEW e \in Evaluations, OnlyCall(e), Onward,
         events' = events \/ events' = Append(events, e)
  PROVE  \A d \in Evaluations \ {e} : CallAgrees(d)'
  <1> SUFFICES ASSUME NEW d \in Evaluations, d # e PROVE CallAgrees(d)'
    OBVIOUS
  <1>1. eval'[d] = eval[d] /\ CallAgrees(d)
    BY DEF OnlyCall, FlowIInv, CallsAgree
  <1>2. ToSet(events) \subseteq ToSet(events') /\ ToSet(events') \subseteq ToSet(events) \cup {e}
    <2>1. CASE events' = events
      BY <2>1
    <2>2. CASE events' = Append(events, e)
      <3>1. events \in Seq(Evaluations)
        BY DEF FlowIInv, FlowTyped
      <3>2. /\ DOMAIN events' = 1 .. Len(events) + 1 /\ DOMAIN events = 1 .. Len(events)
            /\ Len(events) \in Nat /\ events'[Len(events) + 1] = e
            /\ \A i \in 1 .. Len(events) : events'[i] = events[i]
        BY <2>2, <3>1
      <3> QED BY <3>2 DEF ToSet
    <2> QED BY <2>1, <2>2
  <1>3. ASSUME eval'[d].outcome = "rolled back"
        PROVE  eval'[d].device /\ \E x \in ToSet(events') \ {d} : eval'[x].payment = eval'[d].payment
    <2>1. eval[d].device /\ \E x \in ToSet(events) \ {d} : eval[x].payment = eval[d].payment
      BY <1>1, <1>3 DEF CallAgrees
    <2>2. PICK i \in DOMAIN events : events[i] # d /\ eval[events[i]].payment = eval[d].payment
      BY <2>1 DEF ToSet
    <2>3. /\ events[i] \in Evaluations /\ events[i] \in ToSet(events)
          /\ eval'[events[i]].payment = eval[events[i]].payment
      BY EventsAreCalls DEF FlowIInv, Onward
    <2> QED BY <1>1, <1>2, <2>1, <2>2, <2>3
  <1>4. /\ eval'[d].pc = "idle" => eval'[d].payment = Nothing
        /\ eval'[d].pc \in {"idle", "decided"} => ~eval'[d].uncounted
        /\ eval'[d].pc # "idle" => eval'[d].payment \in Payments /\ eval'[d].action # Nothing
        /\ eval'[d].outcome # Nothing <=> eval'[d].pc \in {"persisted", "answered"}
    BY <1>1 DEF CallAgrees
  <1>5. eval'[d].outcome = "committed" <=> d \in ToSet(events')
    BY <1>1, <1>2 DEF CallAgrees
  <1>6. ToSet(events)' = ToSet(events')
    BY DEF ToSet
  <1> QED BY <1>3, <1>4, <1>5, <1>6 DEF CallAgrees

LEMMA InitFlowIInv == FlowInit => FlowIInv
  <1> SUFFICES ASSUME FlowInit PROVE FlowIInv
    OBVIOUS
  <1> USE FlowConstants
  <1>1. FlowTyped
    <2>1. Fresh0 \in Evaluating
      BY DEF Fresh0, Evaluating
    <2>2. NoRow \in DecisionRow
      BY DEF NoRow, DecisionRow
    <2>3. eval \in [Evaluations -> Evaluating] /\ row \in [Payments -> DecisionRow]
      BY <2>1, <2>2 DEF FlowInit
    <2> QED BY <2>3 DEF FlowInit, FlowTyped
  <1>2. ToSet(events) = {} /\ events = <<>> /\ ToSet(chain) = {}
    BY DEF FlowInit, ToSet
  <1>3. \A e \in Evaluations : /\ eval[e].pc = "idle" /\ eval[e].payment = Nothing
                                /\ eval[e].outcome = Nothing /\ ~eval[e].uncounted
    BY DEF FlowInit, Fresh0
  <1>4. CallsAgree
    BY <1>2, <1>3 DEF CallsAgree, CallAgrees, Nothing
  <1>5. EventsDistinct /\ RowFilled /\ LedgerCommitted
    BY <1>2 DEF FlowInit, EventsDistinct, RowFilled, NoRow, LedgerCommitted
  <1>6. \A p \in Payments : EventsOf(p) = {} /\ row[p] = NoRow
    BY <1>2 DEF EventsOf, FlowInit
  <1>7. RowMatchesEvents
    BY <1>6 DEF RowMatchesEvents
  <1>8. EvidenceStands
    BY DEF EvidenceStands, FlowInit
  <1>9. ChainCovers
    <2>1. Answered = {}
      BY <1>3 DEF Answered
    <2>2. Cardinality(Answered) = 0
      BY <2>1, FS_EmptySet
    <2> QED BY <1>2, <2>1, <2>2 DEF ChainCovers, FlowInit
  <1>10. CountsExact
    <2>1. \A p \in Payments : CountedFor(p) = {} /\ CommittedFor(p) = {}
      BY <1>3 DEF CountedFor, CommittedFor, Nothing
    <2> QED BY <1>6, <2>1, FS_EmptySet DEF CountsExact, FlowInit
  <1> QED BY <1>1, <1>4, <1>5, <1>7, <1>8, <1>9, <1>10 DEF FlowIInv

LEMMA DecideStep ==
  ASSUME FlowIInv, NEW e \in Evaluations, NEW p \in Payments, NEW device \in BOOLEAN,
         NEW action \in {"ALLOW", "MANUAL_REVIEW"}, Decide(e, p, device, action)
  PROVE  FlowIInv'
  <1>1. /\ OnlyCall(e) /\ eval[e].pc = "idle" /\ eval'[e].pc = "decided" /\ eval'[e].payment = p
        /\ eval'[e].action = action /\ eval'[e].outcome = Nothing /\ ~eval'[e].uncounted
    BY DecideMoves DEF FlowIInv
  <1>2. UNCHANGED <<counted, row, events, ledger, chain, channel, unlogged, sunk, dispute, flowFaults>>
    BY DEF Decide
  <1>3. Onward
    BY <1>1, OnlyCallOnward
  <1>4. FlowTyped'
    BY <1>1, <1>2 DEF FlowIInv, FlowTyped, OnlyCall
  <1>5. CallAgrees(e) /\ eval[e].payment = Nothing /\ eval[e].outcome = Nothing
    BY <1>1 DEF FlowIInv, CallsAgree, CallAgrees
  <1>6. CallsAgree'
    <2>1. CallAgrees(e)'
      BY <1>1, <1>2, <1>5 DEF CallAgrees, Nothing, ToSet
    <2> QED BY <2>1, <1>1, <1>2, <1>3, OthersAgree DEF CallsAgree
  <1>7. ChainCovers'
    BY <1>1, <1>2, ChainKept DEF OnlyCall
  <1>8. CountsExact'
    <2>1. \A q \in Payments : CountedFor(q)' = CountedFor(q) /\ CommittedFor(q)' = CommittedFor(q)
      <3>1. eval'[e].outcome # "committed" /\ eval[e].outcome # "committed"
        BY <1>1, <1>5 DEF Nothing
      <3> QED BY <1>1, <3>1 DEF CountedFor, CommittedFor, OnlyCall
    <2> QED BY <1>2, <1>3, <2>1, CountsKept
  <1> QED BY <1>2, <1>3, <1>4, <1>6, <1>7, <1>8, RowsKept, EvidenceKept DEF FlowIInv

LEMMA CountStep ==
  ASSUME FlowIInv, NEW e \in Evaluations, CountPayment(e)
  PROVE  FlowIInv'
  <1>1. /\ OnlyCall(e) /\ SameRequest(e) /\ eval[e].pc = "decided" /\ eval'[e].pc = "counted"
        /\ eval'[e].outcome = eval[e].outcome
    BY CountMoves DEF FlowIInv
  <1>2. UNCHANGED <<row, events, ledger, chain, channel, unlogged, sunk, dispute>>
    BY DEF CountPayment
  <1>3. Onward
    BY <1>1, OnlyCallOnward
  <1>0. PICK p \in Payments : p = eval[e].payment
    BY <1>1 DEF FlowIInv, CallsAgree, CallAgrees
  <1>4. CallAgrees(e) /\ eval[e].outcome = Nothing /\ ~eval[e].uncounted
    BY <1>1 DEF FlowIInv, CallsAgree, CallAgrees
  <1>5. \/ counted' = [counted EXCEPT ![p] = @ + 1] /\ eval'[e].uncounted = eval[e].uncounted
           /\ UNCHANGED flowFaults
        \/ FlowFault /\ counted' = counted /\ eval'[e].uncounted = TRUE
    BY ZenonT(60), <1>0 DEF CountPayment, FlowIInv, FlowTyped, Evaluating
  <1>6. FlowTyped'
    <2>1. flowFaults' \in 0 .. MaxFlowFaults
      BY <1>5, FlowConstants DEF FlowFault, FlowIInv, FlowTyped
    <2>2. counted' \in [Payments -> Nat]
      <3>1. counted \in [Payments -> Nat]
        BY DEF FlowIInv, FlowTyped
      <3>2. counted[p] + 1 \in Nat
        BY <1>4, <3>1
      <3>3. \/ counted' = [counted EXCEPT ![p] = counted[p] + 1]
            \/ counted' = counted
        BY <1>5
      <3> QED BY <3>1, <3>2, <3>3
    <2> QED BY <1>1, <1>2, <2>1, <2>2 DEF FlowIInv, FlowTyped, OnlyCall
  <1>7. CallsAgree'
    <2>1. CallAgrees(e)'
      BY <1>1, <1>2, <1>4 DEF CallAgrees, SameRequest, Nothing, ToSet
    <2> QED BY <2>1, <1>1, <1>2, <1>3, OthersAgree DEF CallsAgree
  <1>8. ChainCovers'
    BY <1>1, <1>2, ChainKept DEF OnlyCall
  <1>9. CountsExact'
    <2>1. eval'[e].outcome # "committed" /\ eval[e].outcome # "committed"
      BY <1>1, <1>4 DEF Nothing
    <2>2. \A q \in Payments : CommittedFor(q)' = CommittedFor(q)
      BY <1>1, <2>1 DEF CommittedFor, OnlyCall
    <2>3. \A q \in Payments : EventsOf(q)' = EventsOf(q)
      BY <1>2, <1>3, EventsKept DEF FlowIInv
    <2>4. \A q \in Payments \ {p} : CountedFor(q)' = CountedFor(q)
      BY <1>0, <1>1, <1>4 DEF CountedFor, OnlyCall, SameRequest
    <2>5. e \notin CountedFor(p) /\ IsFiniteSet(CountedFor(p))
      <3>1. CountedFor(p) \in SUBSET Evaluations
        BY DEF CountedFor
      <3>2. e \notin CountedFor(p)
        BY <1>1 DEF CountedFor
      <3> QED BY <3>1, <3>2, FlowConstants, FS_Subset
    <2>6. /\ CountsExact /\ counted \in [Payments -> Nat]
      BY DEF FlowIInv, FlowTyped
    <2>7. CASE eval'[e].uncounted
      <3>1. CountedFor(p)' = CountedFor(p)
        BY <1>0, <1>1, <1>4, <2>7 DEF CountedFor, OnlyCall, SameRequest
      <3>2. counted' = counted
        BY <1>4, <1>5, <2>7
      <3>3. \A q \in Payments : CountedFor(q)' = CountedFor(q)
        BY <2>4, <3>1
      <3> QED BY <2>2, <2>3, <2>6, <3>2, <3>3 DEF CountsExact
    <2>8. CASE ~eval'[e].uncounted
      <3>1. CountedFor(p)' = CountedFor(p) \cup {e}
        BY <1>0, <1>1, <1>4, <2>8 DEF CountedFor, OnlyCall, SameRequest
      <3>2. Cardinality(CountedFor(p)') = Cardinality(CountedFor(p)) + 1
        BY <2>5, <3>1, FS_AddElement
      <3>3. counted' = [counted EXCEPT ![p] = @ + 1]
        BY <1>5, <2>8
      <3>4. counted'[p] = counted[p] + 1 /\ \A q \in Payments \ {p} : counted'[q] = counted[q]
        BY <1>4, <2>6, <3>3
      <3>5. counted'[p] = Cardinality(CountedFor(p)')
        BY <1>4, <2>6, <3>2, <3>4 DEF CountsExact
      <3>6. ASSUME NEW q \in Payments
            PROVE  /\ counted'[q] = Cardinality(CountedFor(q)')
                   /\ Cardinality(EventsOf(q)') = Cardinality(CommittedFor(q)')
        <4>1. Cardinality(EventsOf(q)') = Cardinality(CommittedFor(q)')
          BY <2>2, <2>3, <2>6 DEF CountsExact
        <4>2. CASE q = p
          BY <4>1, <4>2, <3>5
        <4>3. CASE q # p
          <5>1. CountedFor(q)' = CountedFor(q) /\ counted'[q] = counted[q]
            BY <4>3, <2>4, <3>4
          <5> QED BY <4>1, <5>1, <2>6 DEF CountsExact
        <4> QED BY <4>2, <4>3
      <3> QED BY <3>6 DEF CountsExact
    <2> QED BY <2>7, <2>8
  <1> QED BY <1>2, <1>3, <1>6, <1>7, <1>8, <1>9, RowsKept, EvidenceKept DEF FlowIInv

\* A transaction that does not commit leaves e's outcome and nothing else.
LEMMA UncommittedStep ==
  ASSUME FlowIInv, NEW e \in Evaluations, NEW outcome \in {"rolled back", "failed"},
         eval[e].pc = "counted", Persisted(e, outcome),
         outcome = "rolled back" => Orphaned(e), flowFaults' \in 0 .. MaxFlowFaults,
         UNCHANGED <<counted, row, events, ledger, chain, channel, unlogged, sunk, dispute>>
  PROVE  FlowIInv'
  <1>1. /\ OnlyCall(e) /\ SameRequest(e) /\ eval'[e].pc = "persisted"
        /\ eval'[e].outcome = outcome /\ eval'[e].uncounted = eval[e].uncounted
    BY PersistMoves DEF FlowIInv
  <1>2. CallAgrees(e) /\ eval[e].outcome = Nothing /\ eval[e].payment \in Payments
    BY DEF FlowIInv, CallsAgree, CallAgrees
  <1>3. Onward
    BY <1>1, <1>2, OnlyCallOnward
  <1>4. FlowTyped'
    BY <1>1 DEF FlowIInv, FlowTyped, OnlyCall
  <1>5. e \notin ToSet(events)
    BY <1>2 DEF CallAgrees, Nothing
  <1>6. CallsAgree'
    <2>1. ASSUME outcome = "rolled back"
          PROVE  eval[e].device /\ \E d \in ToSet(events) \ {e} : eval'[d].payment = eval'[e].payment
      <3>1. eval[e].device /\ row[eval[e].payment] # NoRow
        BY <2>1 DEF Orphaned
      <3>2. PICK i \in EventsOf(eval[e].payment) : TRUE
        BY <1>2, <3>1 DEF FlowIInv, RowMatchesEvents
      <3>3. i \in DOMAIN events /\ eval[events[i]].payment = eval[e].payment
        BY <3>2 DEF EventsOf
      <3>4. events[i] \in ToSet(events) /\ eval'[events[i]].payment = eval[e].payment
        BY <3>3, <1>3, EventsAreCalls, EventsKept DEF FlowIInv
      <3> QED BY <3>1, <3>4, <1>1, <1>5 DEF SameRequest
    <2>2. ToSet(events)' = ToSet(events)
      BY DEF ToSet
    <2>3. CallAgrees(e)'
      BY <1>1, <1>2, <1>5, <2>1, <2>2 DEF CallAgrees, SameRequest, Nothing
    <2> QED BY <2>3, <1>1, <1>3, OthersAgree DEF CallsAgree
  <1>7. ChainCovers'
    BY <1>1, ChainKept DEF OnlyCall
  <1>8. CountsExact'
    <2>1. eval'[e].outcome # "committed" /\ eval[e].outcome # "committed"
      BY <1>1, <1>2 DEF Nothing
    <2>2. \A q \in Payments : CountedFor(q)' = CountedFor(q) /\ CommittedFor(q)' = CommittedFor(q)
      BY <1>1, <2>1 DEF CountedFor, CommittedFor, OnlyCall, SameRequest
    <2> QED BY <1>3, <2>2, CountsKept
  <1> QED BY <1>3, <1>4, <1>6, <1>7, <1>8, RowsKept, EvidenceKept DEF FlowIInv

LEMMA AnswerStep ==
  ASSUME FlowIInv, NEW e \in Evaluations, AnswerClient(e)
  PROVE  FlowIInv'
  <1>1. /\ OnlyCall(e) /\ SameRequest(e) /\ eval[e].pc = "persisted" /\ eval'[e].pc = "answered"
        /\ eval'[e].outcome = eval[e].outcome /\ eval'[e].uncounted = eval[e].uncounted
    BY AnswerMoves DEF FlowIInv
  <1>2. UNCHANGED <<counted, row, events, ledger, sunk, dispute, flowFaults>>
    BY DEF AnswerClient
  <1>3. /\ chain' = Append(chain, e)
        /\ channel' = IF channel < ChannelSize THEN channel + 1 ELSE channel
        /\ unlogged' = IF channel < ChannelSize THEN unlogged ELSE unlogged + 1
    BY DEF AnswerClient
  <1>4. Onward
    BY <1>1, OnlyCallOnward
  <1>5. chain \in Seq(Evaluations) /\ channel \in 0 .. ChannelSize /\ unlogged \in Nat
    BY DEF FlowIInv, FlowTyped
  <1>6. FlowTyped'
    <2>1. chain' \in Seq(Evaluations) /\ channel' \in 0 .. ChannelSize /\ unlogged' \in Nat
      BY <1>3, <1>5, FlowConstants
    <2> QED BY <1>1, <1>2, <2>1 DEF FlowIInv, FlowTyped, OnlyCall
  <1>7. CallsAgree'
    <2>1. CallAgrees(e)
      BY DEF FlowIInv, CallsAgree
    <2>2. ToSet(events)' = ToSet(events)
      BY <1>2 DEF ToSet
    <2>3. \A d \in ToSet(events) : d \in Evaluations /\ eval'[d].payment = eval[d].payment
      BY <1>2, <1>4, EventsAreCalls, EventsKept DEF FlowIInv, ToSet
    <2>4. CallAgrees(e)'
      BY <1>1, <2>1, <2>2, <2>3 DEF CallAgrees, SameRequest, Nothing
    <2> QED BY <2>4, <1>1, <1>2, <1>4, OthersAgree DEF CallsAgree
  <1>8. ChainCovers'
    <2>1. Answered' = Answered \cup {e} /\ e \notin Answered
      BY <1>1 DEF Answered, OnlyCall
    <2>2. IsFiniteSet(Answered)
      <3>1. Answered \in SUBSET Evaluations
        BY DEF Answered
      <3> QED BY <3>1, FlowConstants, FS_Subset
    <2>3. Cardinality(Answered') = Cardinality(Answered) + 1
      BY <2>1, <2>2, FS_AddElement
    <2>4. ToSet(chain) = Answered /\ Len(chain) = Cardinality(Answered) /\ channel + unlogged = Len(chain)
      BY DEF FlowIInv, ChainCovers
    <2>5. /\ DOMAIN chain' = 1 .. Len(chain) + 1 /\ DOMAIN chain = 1 .. Len(chain)
          /\ Len(chain) \in Nat /\ chain'[Len(chain) + 1] = e /\ Len(chain') = Len(chain) + 1
          /\ \A i \in 1 .. Len(chain) : chain'[i] = chain[i]
      BY <1>3, <1>5
    <2>6. ToSet(chain') = ToSet(chain) \cup {e}
      BY <2>5 DEF ToSet
    <2>7. ToSet(chain)' = Answered'
      <3>1. ToSet(chain)' = ToSet(chain')
        BY DEF ToSet
      <3> QED BY <3>1, <2>1, <2>4, <2>6
    <2>8. Len(chain') = Cardinality(Answered')
      BY <2>3, <2>4, <2>5
    <2>9. channel' + unlogged' = Len(chain')
      BY <1>3, <1>5, <2>4, <2>5, FlowConstants
    <2> QED BY <2>7, <2>8, <2>9 DEF ChainCovers
  <1>9. CountsExact'
    <2>1. \A q \in Payments : CountedFor(q)' = CountedFor(q) /\ CommittedFor(q)' = CommittedFor(q)
      BY <1>1 DEF CountedFor, CommittedFor, OnlyCall, SameRequest
    <2> QED BY <1>2, <1>4, <2>1, CountsKept
  <1> QED BY <1>2, <1>4, <1>6, <1>7, <1>8, <1>9, RowsKept, EvidenceKept DEF FlowIInv

\* Steps that leave the calls, the rows and the chain alone.
LEMMA AsideStep ==
  ASSUME FlowIInv, UNCHANGED <<eval, counted, row, events, ledger, chain, channel, unlogged>>,
         sunk' \in [Evaluations -> Nat], flowFaults' \in 0 .. MaxFlowFaults,
         dispute' \in Seq(Dispute), EvidenceStands'
  PROVE  FlowIInv'
  <1>1. FlowTyped'
    BY DEF FlowIInv, FlowTyped
  <1>2. Onward
    BY DEF FlowIInv, FlowTyped, Onward
  <1>3. CallsAgree' /\ LedgerCommitted'
    <2>1. ToSet(events)' = ToSet(events)
      BY DEF ToSet
    <2>2. \A e \in Evaluations : CallAgrees(e)' = CallAgrees(e)
      BY <2>1 DEF CallAgrees
    <2> QED BY <2>1, <2>2 DEF FlowIInv, CallsAgree, LedgerCommitted
  <1>4. ChainCovers'
    BY ChainKept
  <1>5. CountsExact'
    <2>1. \A q \in Payments : CountedFor(q)' = CountedFor(q) /\ CommittedFor(q)' = CommittedFor(q)
      BY DEF CountedFor, CommittedFor
    <2> QED BY <1>2, <2>1, CountsKept
  <1> QED BY <1>1, <1>2, <1>3, <1>4, <1>5, RowsKept DEF FlowIInv

LEMMA SinkStep ==
  ASSUME FlowIInv, NEW e \in Evaluations, SinkEvent(e)
  PROVE  FlowIInv'
  <1>1. UNCHANGED <<eval, counted, row, events, ledger, chain, channel, unlogged, dispute>>
    BY DEF SinkEvent
  <1>2. sunk' \in [Evaluations -> Nat]
    <2>1. sunk \in [Evaluations -> Nat] /\ sunk[e] + 1 \in Nat
      BY DEF FlowIInv, FlowTyped
    <2>2. sunk' = [sunk EXCEPT ![e] = sunk[e] + 1]
      BY <2>1 DEF SinkEvent
    <2> QED BY <2>1, <2>2
  <1>3. flowFaults' \in 0 .. MaxFlowFaults
    BY FlowConstants DEF SinkEvent, FlowFault, FlowIInv, FlowTyped
  <1>4. dispute' \in Seq(Dispute) /\ EvidenceStands'
    BY <1>1 DEF FlowIInv, FlowTyped, EvidenceStands
  <1> QED BY <1>1, <1>2, <1>3, <1>4, AsideStep

LEMMA OpenDisputeStep ==
  ASSUME FlowIInv, NEW p \in Payments, OpenDispute(p)
  PROVE  FlowIInv'
  <1> DEFINE new == [payment |-> p, evidence |-> row[p].id]
  <1>1. UNCHANGED <<eval, counted, row, events, ledger, chain, channel, unlogged, sunk, flowFaults>>
    BY DEF OpenDispute
  <1>2. dispute' = Append(dispute, new) /\ dispute \in Seq(Dispute)
    BY DEF OpenDispute, FlowIInv, FlowTyped
  <1>3. new \in Dispute /\ new.payment = p /\ new.evidence = row[p].id
    BY DEF FlowIInv, FlowTyped, DecisionRow, Dispute
  <1> HIDE DEF new
  <1>4. dispute' \in Seq(Dispute)
    BY <1>2, <1>3
  <1>5. \A i \in DOMAIN dispute' : dispute'[i] = new \/ (i \in DOMAIN dispute /\ dispute'[i] = dispute[i])
    BY <1>2, <1>3
  <1>6. EvidenceStands'
    BY <1>1, <1>3, <1>5 DEF FlowIInv, EvidenceStands
  <1>7. sunk' \in [Evaluations -> Nat] /\ flowFaults' \in 0 .. MaxFlowFaults
    BY <1>1 DEF FlowIInv, FlowTyped
  <1> QED BY <1>1, <1>4, <1>6, <1>7, AsideStep

LEMMA CommitStep ==
  ASSUME FlowIInv, NEW e \in Evaluations, CommitDecision(e)
  PROVE  FlowIInv'
  <1>1. /\ OnlyCall(e) /\ SameRequest(e) /\ eval'[e].pc = "persisted"
        /\ eval'[e].outcome = "committed" /\ eval'[e].uncounted = eval[e].uncounted
    BY PersistMoves DEF FlowIInv, CommitDecision
  <1>2. UNCHANGED <<counted, chain, channel, unlogged, sunk, dispute, flowFaults>>
    BY DEF CommitDecision
  <1>3. PICK p \in Payments : p = eval[e].payment
    BY DEF FlowIInv, CallsAgree, CallAgrees, CommitDecision
  <1>4. CallAgrees(e) /\ eval[e].outcome = Nothing /\ eval[e].action # Nothing /\ eval[e].pc = "counted"
    BY DEF FlowIInv, CallsAgree, CallAgrees, CommitDecision
  <1>5. Onward
    BY <1>1, <1>4, OnlyCallOnward
  <1>6. /\ events' = Append(events, e) /\ events \in Seq(Evaluations)
        /\ ledger' = IF eval[e].device THEN ledger \cup {e} ELSE ledger
        /\ eval[e].device => row[p] = NoRow
    BY <1>3 DEF CommitDecision, FlowIInv, FlowTyped, Orphaned
  <1> DEFINE n == Len(events) + 1
  <1>7. /\ DOMAIN events' = 1 .. n /\ DOMAIN events = 1 .. Len(events)
        /\ Len(events) \in Nat /\ events'[n] = e
        /\ \A i \in 1 .. Len(events) : events'[i] = events[i]
    BY <1>6
  <1>8. e \notin ToSet(events) /\ ToSet(events') = ToSet(events) \cup {e} /\ ToSet(events)' = ToSet(events')
    BY <1>4, <1>7 DEF CallAgrees, Nothing, ToSet
  <1>9. /\ row'[p].id = (IF row[p].id = Nothing THEN e ELSE row[p].id)
        /\ row'[p].action = eval[e].action /\ row'[p] \in DecisionRow
        /\ \A q \in Payments \ {p} : row'[q] = row[q]
        /\ row' \in [Payments -> DecisionRow]
    <2> DEFINE r == [row[p] EXCEPT !.id = IF row[p].id = Nothing THEN e ELSE row[p].id,
                                   !.action = eval[e].action]
    <2>1. row' = [row EXCEPT ![p] = r] /\ row \in [Payments -> DecisionRow]
      BY <1>3 DEF CommitDecision, FlowIInv, FlowTyped
    <2>2. eval[e].action \in {"ALLOW", "MANUAL_REVIEW", Nothing}
      BY DEF FlowIInv, FlowTyped, Evaluating
    <2>3. /\ r \in DecisionRow /\ r.id = (IF row[p].id = Nothing THEN e ELSE row[p].id)
          /\ r.action = eval[e].action
      BY <2>1, <2>2 DEF DecisionRow
    <2> HIDE DEF r
    <2> QED BY <2>1, <2>3
  <1>10. FlowTyped'
    <2>1. events' \in Seq(Evaluations) /\ ledger' \subseteq Evaluations
      BY <1>6 DEF FlowIInv, FlowTyped
    <2> QED BY <1>1, <1>2, <1>9, <2>1 DEF FlowIInv, FlowTyped, OnlyCall
  <1>11. CallsAgree'
    <2>1. CallAgrees(e)'
      BY <1>1, <1>3, <1>4, <1>8 DEF CallAgrees, SameRequest, Nothing
    <2> QED BY <2>1, <1>1, <1>5, <1>6, OthersAgree DEF CallsAgree
  <1>12. EventsDistinct'
    <2>1. \A i \in DOMAIN events : events[i] # e
      BY <1>8 DEF ToSet
    <2> QED BY <1>7, <2>1 DEF FlowIInv, EventsDistinct
  <1>13. RowFilled'
    BY <1>3, <1>4, <1>9, FlowConstants DEF FlowIInv, RowFilled
  <1>14. \A i \in DOMAIN events : /\ eval'[events[i]].payment = eval[events[i]].payment
                                  /\ eval'[events[i]].action = eval[events[i]].action
    BY <1>5, EventsAreCalls DEF FlowIInv, Onward
  <1>15. EventsOf(p)' = EventsOf(p) \cup {n} /\ \A q \in Payments \ {p} : EventsOf(q)' = EventsOf(q)
    <2>1. \A q \in Payments : EventsOf(q)' = {i \in DOMAIN events' : eval'[events'[i]].payment = q}
      BY DEF EventsOf
    <2>2. eval'[events'[n]].payment = p
      BY <1>1, <1>3, <1>7 DEF SameRequest
    <2>3. \A i \in DOMAIN events' : i = n \/ (i \in DOMAIN events /\ eval'[events'[i]].payment = eval[events[i]].payment)
      BY <1>7, <1>14
    <2>4. DOMAIN events \subseteq DOMAIN events' /\ n \in DOMAIN events'
      BY <1>7
    <2>5. \A i \in DOMAIN events : eval'[events'[i]].payment = eval[events[i]].payment
      BY <1>7, <1>14
    <2> QED BY <2>1, <2>2, <2>3, <2>4, <2>5 DEF EventsOf
  <1>16. \A q \in Payments : EventsOf(q) \subseteq 1 .. Len(events)
    BY <1>7 DEF EventsOf
  <1>17. RowMatchesEvents'
    <2>1. RowMatchesEvents /\ RowFilled /\ row \in [Payments -> DecisionRow]
      BY DEF FlowIInv, FlowTyped
    <2>2. row[p].id = Nothing <=> EventsOf(p) = {}
      <3>1. row[p] = NoRow <=> row[p].id = Nothing
        BY <2>1 DEF RowFilled, NoRow, DecisionRow
      <3> QED BY <2>1, <3>1 DEF RowMatchesEvents
    <2>3. /\ row'[p] # NoRow /\ EventsOf(p)' # {}
          /\ \A i \in EventsOf(p)' :
               /\ (\A j \in EventsOf(p)' : j <= i) => row'[p].action = eval'[events'[i]].action
               /\ (\A j \in EventsOf(p)' : i <= j) => row'[p].id = events'[i]
      <3>1. row'[p] # NoRow /\ EventsOf(p)' # {}
        BY <1>4, <1>9, <1>15 DEF NoRow
      <3>2. ASSUME NEW i \in EventsOf(p)', \A j \in EventsOf(p)' : j <= i
            PROVE  row'[p].action = eval'[events'[i]].action
        <4>1. i = n
          BY <1>7, <1>15, <1>16, <3>2
        <4> QED BY <4>1, <1>1, <1>7, <1>9 DEF SameRequest
      <3>3. ASSUME NEW i \in EventsOf(p)', \A j \in EventsOf(p)' : i <= j
            PROVE  row'[p].id = events'[i]
        <4>1. CASE EventsOf(p) = {}
          BY <1>7, <1>9, <1>15, <2>2, <4>1
        <4>2. CASE EventsOf(p) # {}
          <5>1. i \in EventsOf(p) /\ \A j \in EventsOf(p) : i <= j
            BY <1>7, <1>15, <1>16, <3>3, <4>2
          <5>2. row[p].id = events[i]
            BY <2>1, <5>1 DEF RowMatchesEvents
          <5> QED BY <1>7, <1>9, <1>16, <2>2, <4>2, <5>1, <5>2
        <4> QED BY <4>1, <4>2
      <3> QED BY <3>1, <3>2, <3>3
    <2>4. ASSUME NEW q \in Payments, q # p
          PROVE  /\ row'[q] = NoRow <=> EventsOf(q)' = {}
                 /\ \A i \in EventsOf(q)' :
                      /\ (\A j \in EventsOf(q)' : j <= i) => row'[q].action = eval'[events'[i]].action
                      /\ (\A j \in EventsOf(q)' : i <= j) => row'[q].id = events'[i]
      <3>1. EventsOf(q)' = EventsOf(q) /\ row'[q] = row[q]
        BY <1>9, <1>15, <2>4
      <3>2. \A i \in EventsOf(q) : events'[i] = events[i] /\ eval'[events[i]].action = eval[events[i]].action
        BY <1>7, <1>14, <1>16
      <3> QED BY <2>1, <3>1, <3>2 DEF RowMatchesEvents
    <2>5. RowMatchesEvents' <=> \A q \in Payments :
            /\ row'[q] = NoRow <=> EventsOf(q)' = {}
            /\ \A i \in EventsOf(q)' :
                 /\ (\A j \in EventsOf(q)' : j <= i) => row'[q].action = eval'[events'[i]].action
                 /\ (\A j \in EventsOf(q)' : i <= j) => row'[q].id = events'[i]
      BY DEF RowMatchesEvents
    <2> QED BY <2>3, <2>4, <2>5
  <1>18. EvidenceStands' /\ LedgerCommitted'
    <2>1. \A q \in Payments : row[q].id # Nothing => row'[q].id = row[q].id
      BY <1>9
    <2>2. ASSUME NEW i \in DOMAIN dispute', dispute'[i].evidence # Nothing
          PROVE  row'[dispute'[i].payment].id = dispute'[i].evidence
      <3>1. i \in DOMAIN dispute /\ dispute'[i] = dispute[i] /\ dispute[i].payment \in Payments
        <4>1. dispute' = dispute /\ dispute \in Seq(Dispute)
          BY <1>2 DEF FlowIInv, FlowTyped
        <4>2. dispute[i] \in Dispute
          BY <4>1, <2>2
        <4> QED BY <4>1, <4>2, <2>2 DEF Dispute
      <3> QED BY <2>1, <2>2, <3>1 DEF FlowIInv, EvidenceStands
    <2>3. ASSUME NEW d \in ledger' PROVE row'[eval'[d].payment].id = d /\ d \in ToSet(events)'
      <3>1. CASE d \in ledger
        <4>1. d \in ToSet(events) /\ row[eval[d].payment].id = d
          BY <3>1 DEF FlowIInv, LedgerCommitted, EvidenceStands
        <4>2. PICK i \in DOMAIN events : events[i] = d
          BY <4>1 DEF ToSet
        <4>3. eval'[d].payment = eval[d].payment /\ eval[d].payment \in Payments /\ d \in Evaluations
          BY <1>14, <4>2, EventsAreCalls DEF FlowIInv
        <4> QED BY <1>8, <2>1, <4>1, <4>3, FlowConstants
      <3>2. CASE d = e /\ eval[e].device
        BY <1>1, <1>3, <1>6, <1>8, <1>9, <3>2 DEF SameRequest, NoRow
      <3> QED BY <1>6, <3>1, <3>2
    <2> QED BY <2>2, <2>3 DEF EvidenceStands, LedgerCommitted
  <1>19. ChainCovers'
    BY <1>1, <1>2, <1>4, ChainKept DEF OnlyCall
  <1>20. CountsExact'
    <2>1. \A q \in Payments : CountedFor(q)' = CountedFor(q)
      BY <1>1, <1>4 DEF CountedFor, OnlyCall, SameRequest
    <2>2. \A q \in Payments \ {p} : CommittedFor(q)' = CommittedFor(q)
      BY <1>1, <1>3 DEF CommittedFor, OnlyCall, SameRequest
    <2>3. CommittedFor(p)' = CommittedFor(p) \cup {e} /\ e \notin CommittedFor(p)
      BY <1>1, <1>3, <1>4 DEF CommittedFor, OnlyCall, SameRequest, Nothing
    <2>4. IsFiniteSet(CommittedFor(p)) /\ IsFiniteSet(EventsOf(p)) /\ n \notin EventsOf(p)
      <3>1. CommittedFor(p) \in SUBSET Evaluations
        BY DEF CommittedFor
      <3>2. IsFiniteSet(1 .. Len(events))
        BY <1>7, FS_Interval
      <3>3. EventsOf(p) \in SUBSET (1 .. Len(events))
        BY <1>16
      <3>4. IsFiniteSet(EventsOf(p))
        BY <3>2, <3>3, FS_Subset
      <3>5. IsFiniteSet(CommittedFor(p))
        BY <3>1, FlowConstants, FS_Subset
      <3> QED BY <1>7, <3>3, <3>4, <3>5
    <2>5. /\ Cardinality(CommittedFor(p)') = Cardinality(CommittedFor(p)) + 1
          /\ Cardinality(EventsOf(p)') = Cardinality(EventsOf(p)) + 1
      BY ZenonT(60), <1>15, <2>3, <2>4, FS_AddElement
    <2>6. CountsExact
      BY DEF FlowIInv
    <2>7. \A q \in Payments : Cardinality(EventsOf(q)') = Cardinality(CommittedFor(q)')
      BY <1>15, <2>2, <2>5, <2>6 DEF CountsExact
    <2> QED BY <1>2, <2>1, <2>6, <2>7 DEF CountsExact
  <1> QED BY <1>10, <1>11, <1>12, <1>13, <1>17, <1>18, <1>19, <1>20 DEF FlowIInv

LEMMA FlowStep == FlowIInv /\ [FlowNext]_flowVars => FlowIInv'
  <1> SUFFICES ASSUME FlowIInv, [FlowNext]_flowVars PROVE FlowIInv'
    OBVIOUS
  <1>1. ASSUME NEW e \in Evaluations, NEW p \in Payments, NEW device \in BOOLEAN,
               NEW action \in {"ALLOW", "MANUAL_REVIEW"}, Decide(e, p, device, action)
        PROVE  FlowIInv'
    BY <1>1, DecideStep
  <1>2. ASSUME NEW e \in Evaluations, CountPayment(e) PROVE FlowIInv'
    BY <1>2, CountStep
  <1>3. ASSUME NEW e \in Evaluations, CommitDecision(e) PROVE FlowIInv'
    BY <1>3, CommitStep
  <1>4. ASSUME NEW e \in Evaluations, RollBackDecision(e) PROVE FlowIInv'
    <2>1. /\ eval[e].pc = "counted" /\ Orphaned(e) /\ Persisted(e, "rolled back")
          /\ UNCHANGED <<counted, row, events, ledger, chain, channel, unlogged, sunk, dispute, flowFaults>>
      BY <1>4 DEF RollBackDecision
    <2>2. flowFaults' \in 0 .. MaxFlowFaults
      BY <2>1 DEF FlowIInv, FlowTyped
    <2> QED BY <2>1, <2>2, UncommittedStep
  <1>5. ASSUME NEW e \in Evaluations, FailDecision(e) PROVE FlowIInv'
    <2>1. /\ eval[e].pc = "counted" /\ Persisted(e, "failed")
          /\ UNCHANGED <<counted, row, events, ledger, chain, channel, unlogged, sunk, dispute>>
      BY <1>5 DEF FailDecision
    <2>2. flowFaults' \in 0 .. MaxFlowFaults
      BY <1>5, FlowConstants DEF FailDecision, FlowFault, FlowIInv, FlowTyped
    <2> QED BY <2>1, <2>2, UncommittedStep
  <1>6. ASSUME NEW e \in Evaluations, AnswerClient(e) PROVE FlowIInv'
    BY <1>6, AnswerStep
  <1>7. ASSUME NEW e \in Evaluations, SinkEvent(e) PROVE FlowIInv'
    BY <1>7, SinkStep
  <1>8. ASSUME NEW p \in Payments, OpenDispute(p) PROVE FlowIInv'
    BY <1>8, OpenDisputeStep
  <1>9. ASSUME UNCHANGED <<eval, counted, row, events, ledger, chain, channel, unlogged, sunk, dispute>>,
               flowFaults' \in 0 .. MaxFlowFaults
        PROVE  FlowIInv'
    <2>1. sunk' \in [Evaluations -> Nat] /\ dispute' \in Seq(Dispute) /\ EvidenceStands'
      BY <1>9 DEF FlowIInv, FlowTyped, EvidenceStands
    <2> QED BY <1>9, <2>1, AsideStep
  <1>10. ASSUME NEW p \in Payments, LoseDispute(p) PROVE FlowIInv'
    <2>1. flowFaults' \in 0 .. MaxFlowFaults
      BY <1>10, FlowConstants DEF LoseDispute, FlowFault, FlowIInv, FlowTyped
    <2> QED BY <1>10, <2>1, <1>9 DEF LoseDispute
  <1>11. CASE UNCHANGED flowVars
    <2>1. /\ UNCHANGED <<eval, counted, row, events, ledger, chain, channel, unlogged, sunk, dispute>>
          /\ flowFaults' \in 0 .. MaxFlowFaults
      BY <1>11 DEF flowVars, FlowIInv, FlowTyped
    <2> QED BY <2>1, <1>9
  <1> QED BY <1>1, <1>2, <1>3, <1>4, <1>5, <1>6, <1>7, <1>8, <1>10, <1>11 DEF FlowNext

\* Both sides of a count of the calls that got past the stores.
LEMMA CountsBalance ==
  ASSUME FlowIInv PROVE CountsExplained
  <1> SUFFICES ASSUME NEW p \in Payments
      PROVE LET of == {e \in Evaluations : eval[e].payment = p /\ eval[e].pc \notin {"idle", "decided"}}
                unrecorded == {e \in of : eval[e].outcome # "committed"}
                uncounted == {e \in of : eval[e].uncounted}
            IN counted[p] + Cardinality(uncounted)
                 = Cardinality(EventsOf(p)) + Cardinality(unrecorded)
    BY DEF CountsExplained
  <1> DEFINE of == {e \in Evaluations : eval[e].payment = p /\ eval[e].pc \notin {"idle", "decided"}}
             unrecorded == {e \in of : eval[e].outcome # "committed"}
             uncounted == {e \in of : eval[e].uncounted}
  <1>1. IsFiniteSet(of)
    <2>1. of \in SUBSET Evaluations
      OBVIOUS
    <2> QED BY <2>1, FlowConstants, FS_Subset
  <1>2. CountedFor(p) \in SUBSET of /\ uncounted \in SUBSET of /\ unrecorded \in SUBSET of
    BY DEF CountedFor
  <1>3. CommittedFor(p) \in SUBSET of
    <2>1. \A e \in Evaluations : eval[e].outcome = "committed" => eval[e].pc \in {"persisted", "answered"}
      BY DEF FlowIInv, CallsAgree, CallAgrees, Nothing
    <2> QED BY <2>1 DEF CommittedFor
  <1>4. of = CountedFor(p) \cup uncounted /\ CountedFor(p) \cap uncounted = {}
    BY DEF CountedFor
  <1>5. of = CommittedFor(p) \cup unrecorded /\ CommittedFor(p) \cap unrecorded = {}
    BY <1>3 DEF CommittedFor
  <1> DEFINE C == CountedFor(p)
             D == CommittedFor(p)
  <1>6. C \in SUBSET of /\ D \in SUBSET of /\ of = C \cup uncounted /\ C \cap uncounted = {}
        /\ of = D \cup unrecorded /\ D \cap unrecorded = {}
    BY <1>2, <1>3, <1>4, <1>5
  <1>7. counted[p] = Cardinality(C) /\ Cardinality(EventsOf(p)) = Cardinality(D)
    BY DEF FlowIInv, CountsExact
  <1> HIDE DEF of, unrecorded, uncounted, C, D
  <1>8. IsFiniteSet(C) /\ IsFiniteSet(D) /\ IsFiniteSet(unrecorded) /\ IsFiniteSet(uncounted)
    BY <1>1, <1>2, <1>6, FS_Subset
  <1>9. /\ Cardinality(C \cup uncounted) = Cardinality(C) + Cardinality(uncounted) - Cardinality(C \cap uncounted)
        /\ Cardinality(D \cup unrecorded) = Cardinality(D) + Cardinality(unrecorded) - Cardinality(D \cap unrecorded)
    BY <1>8, FS_Union
  <1>10. /\ Cardinality(C) \in Nat /\ Cardinality(D) \in Nat
         /\ Cardinality(uncounted) \in Nat /\ Cardinality(unrecorded) \in Nat
    BY <1>8, FS_CardinalityType
  <1>11. Cardinality(C \cap uncounted) = 0 /\ Cardinality(D \cap unrecorded) = 0
    BY <1>6, FS_EmptySet
  <1>12. Cardinality(of) = Cardinality(C) + Cardinality(uncounted)
    <2>1. Cardinality(of) = Cardinality(C \cup uncounted)
      BY <1>6
    <2> QED BY <2>1, <1>9, <1>10, <1>11
  <1>13. Cardinality(of) = Cardinality(D) + Cardinality(unrecorded)
    <2>1. Cardinality(of) = Cardinality(D \cup unrecorded)
      BY <1>6
    <2> QED BY <2>1, <1>9, <1>10, <1>11
  <1>14. counted[p] + Cardinality(uncounted) = Cardinality(EventsOf(p)) + Cardinality(unrecorded)
    BY <1>7, <1>12, <1>13
  <1> QED BY <1>14 DEF of, unrecorded, uncounted

LEMMA FlowIInvImplies == FlowIInv => RecordsAgree
  <1> SUFFICES ASSUME FlowIInv PROVE RecordsAgree
    OBVIOUS
  <1>1. FlowTypeOK
    <2>1. counted \in [Payments -> 0 .. Cardinality(Evaluations)]
      <3>1. counted \in [Payments -> Nat]
        BY DEF FlowIInv, FlowTyped
      <3>2. ASSUME NEW p \in Payments PROVE counted[p] \in 0 .. Cardinality(Evaluations)
        <4>1. CountedFor(p) \in SUBSET Evaluations
          BY DEF CountedFor
        <4>2. Cardinality(CountedFor(p)) <= Cardinality(Evaluations)
          BY <4>1, FlowConstants, FS_Subset
        <4>3. Cardinality(Evaluations) \in Nat
          BY FlowConstants, FS_CardinalityType
        <4>4. counted[p] = Cardinality(CountedFor(p)) /\ counted[p] \in Nat
          BY <3>1 DEF FlowIInv, CountsExact
        <4> QED BY <4>2, <4>3, <4>4
      <3> QED BY <3>1, <3>2
    <2> QED BY <2>1 DEF FlowIInv, FlowTyped, FlowTypeOK, Evaluating, DecisionRow, Dispute
  <1>2. AnswerRecordedUnless
    <2> SUFFICES ASSUME NEW e \in Answered
                 PROVE  \/ e \in ToSet(events) \/ eval[e].outcome = "failed"
                        \/ /\ eval[e].device
                           /\ \E d \in ToSet(events) \ {e} : eval[d].payment = eval[e].payment
      BY DEF AnswerRecordedUnless
    <2>1. e \in Evaluations /\ eval[e].pc = "answered" /\ CallAgrees(e)
      BY DEF Answered, FlowIInv, CallsAgree
    <2>2. eval[e].outcome \in {"committed", "rolled back", "failed"}
      BY <2>1 DEF CallAgrees, FlowIInv, FlowTyped, Evaluating
    <2> QED BY <2>1, <2>2 DEF CallAgrees
  <1> QED BY <1>1, <1>2, CountsBalance DEF RecordsAgree, FlowIInv

(* For any number of calls and payments, any order of commits, failures and *)
(* redeliveries: a payment's row says what its events say, an answer is     *)
(* recorded unless the database failed or the device's event was orphaned,  *)
(* the evidence of disputes and devices stays, every answer is in the audit *)
(* chain once, and the stores' counters differ from the table only by the   *)
(* calls that explain it (orchestrator.go, step 5 of Evaluate).             *)
THEOREM RecordsAlwaysAgree == FlowSpec => []RecordsAgree
  BY InitFlowIInv, FlowStep, FlowIInvImplies, PTL DEF FlowSpec

-----------------------------------------------------------------------------
(* The feature stores. *)

LEMMA LongestWindow ==
  /\ Windows \subseteq Nat \ {0} /\ Longest \in Windows /\ \A w \in Windows : w <= Longest
  /\ Surplus \in Nat /\ MaxSkew \in Nat /\ MaxHour \in Nat /\ MaxStoreFaults \in Nat /\ MaxSkew < Surplus
  /\ Never \in Int /\ Never < 0 /\ Never = -(Longest + MaxSkew + 1)
  <1>1. /\ Windows \in SUBSET Int /\ IsFiniteSet(Windows) /\ Windows # {}
        /\ Windows \subseteq Nat \ {0} /\ MaxSkew \in Nat
    BY StoresAssumption
  <1>2. Longest \in Windows /\ \A w \in Windows : Longest >= w
    BY <1>1, FiniteMax DEF Longest
  <1>3. Never \in Int /\ Never < 0
    BY <1>1, <1>2 DEF Never
  <1> QED BY <1>1, <1>2, <1>3, StoresAssumption DEF Never

(* What the trims of any pod leave: a ledger has lost only what no window   *)
(* of a pod whose clock is behind can cover any more.                       *)
LedgerKept ==
  stamped \subseteq made /\ \A m \in made \ stamped : m.at <= hour + MaxSkew - Longest - Surplus

TalliesKept ==
  \A w \in Windows : /\ counts[w] \subseteq tallied
                     /\ \A m \in tallied \ counts[w] : m.at <= hour + MaxSkew - w - Surplus

\* A buyer's entry is of its last record, by that pod's clock, or that record is too old.
UseFollows(w, b) ==
  \/ uses[w][b] = Never /\ lastMade[w][b] <= hour + MaxSkew - w
  \/ lastMade[w][b] \in 0 .. hour /\ uses[w][b] \in lastMade[w][b] .. lastMade[w][b] + MaxSkew

UsesFollow == \A w \in Windows, b \in Buyers : UseFollows(w, b)

(* An entry of a shorter window that a reader may still count has one of    *)
(* every longer window, which is older by the skew at most.                 *)
UseNested(v, w, b) ==
  \/ uses[v][b] <= hour - v
  \/ uses[w][b] # Never /\ uses[v][b] <= uses[w][b] + MaxSkew

UsesNested == \A v, w \in Windows, b \in Buyers : v < w => UseNested(v, w, b)

\* Who has an entry is known, or the store of accounts failed him.
UsesKnown ==
  \A w \in Windows, b \in Buyers :
    uses[w][b] # Never => b \in knownBuyers \/ (b \in missed /\ w = Longest)

StoresIInv == StoresTypeOK /\ LedgerKept /\ TalliesKept /\ UsesFollow /\ UsesNested /\ UsesKnown

LEMMA StoresTyped ==
  ASSUME StoresIInv
  PROVE  /\ hour \in 0 .. MaxHour
         /\ stamped \in SUBSET Marks /\ made \in SUBSET Marks
         /\ switchLog \in SUBSET Marks /\ tallied \in SUBSET Marks
         /\ counts \in [Windows -> SUBSET Marks] /\ knownDevice \in BOOLEAN
         /\ knownBuyers \in SUBSET Buyers /\ missed \in SUBSET Buyers
         /\ uses \in [Windows -> [Buyers -> Stamps \cup {Never}]]
         /\ scoring \in [Scorings -> [pc : {"new", "read", "done"}, skew : 0 .. MaxSkew]]
         /\ lastMade \in [Windows -> [Buyers -> 0 .. MaxHour \cup {Never}]]
         /\ storeFaults \in 0 .. MaxStoreFaults
         /\ \A m \in Marks : m.at \in Int
         /\ \A w \in Windows, b \in Buyers : uses[w][b] \in Int /\ lastMade[w][b] \in Int
  <1>1. \A m \in Marks : m.at \in Int
    BY LongestWindow DEF Marks, Stamps
  <1>2. Stamps \cup {Never} \subseteq Int /\ 0 .. MaxHour \cup {Never} \subseteq Int
    BY LongestWindow DEF Stamps
  <1> QED BY <1>1, <1>2 DEF StoresIInv, StoresTypeOK

\* An hour later everything lost is older by an hour.
LEMMA HourStep ==
  ASSUME StoresIInv, HourPasses
  PROVE  StoresIInv'
  <1>0. /\ hour \in Int /\ hour' = hour + 1 /\ hour' \in 0 .. MaxHour
        /\ UNCHANGED <<stamped, uses, switchLog, scoring, made, lastMade, storeFaults, counts, knownDevice,
                       knownBuyers, tallied, missed>>
    BY StoresTyped, LongestWindow DEF HourPasses, deviceVars
  <1>1. StoresTypeOK'
    BY <1>0 DEF StoresIInv, StoresTypeOK
  <1>2. LedgerKept'
    BY <1>0, StoresTyped, LongestWindow DEF StoresIInv, LedgerKept
  <1>3. TalliesKept'
    <2> SUFFICES ASSUME NEW w \in Windows, NEW m \in tallied \ counts[w]
                 PROVE  m.at <= hour + 1 + MaxSkew - w - Surplus
      BY <1>0 DEF StoresIInv, TalliesKept
    <2> QED BY <1>0, StoresTyped, LongestWindow DEF StoresIInv, TalliesKept
  <1>4. UsesFollow'
    <2> SUFFICES ASSUME NEW w \in Windows, NEW b \in Buyers PROVE UseFollows(w, b)'
      BY DEF UsesFollow
    <2>1. UseFollows(w, b) /\ lastMade[w][b] \in Int /\ w \in Int
      BY StoresTyped, LongestWindow DEF StoresIInv, UsesFollow
    <2> QED BY <1>0, <2>1, LongestWindow DEF UseFollows
  <1>5. UsesNested'
    <2> SUFFICES ASSUME NEW v \in Windows, NEW w \in Windows, NEW b \in Buyers, v < w PROVE UseNested(v, w, b)'
      BY DEF UsesNested
    <2>1. UseNested(v, w, b) /\ uses[v][b] \in Int /\ v \in Int
      BY StoresTyped, LongestWindow DEF StoresIInv, UsesNested
    <2> QED BY <1>0, <2>1 DEF UseNested
  <1>6. UsesKnown'
    BY <1>0 DEF StoresIInv, UsesKnown
  <1> QED BY <1>1, <1>2, <1>3, <1>4, <1>5, <1>6 DEF StoresIInv

\* A reader trims the sets of all windows by one clock.
LEMMA FeaturesReadStep ==
  ASSUME StoresIInv, NEW s \in Scorings, ReadFeatures(s)
  PROVE  StoresIInv'
  <1> DEFINE c == Clock(s)
  <1>0. c \in Int /\ hour \in Int /\ hour <= c /\ c <= hour + MaxSkew
    BY StoresTyped, LongestWindow DEF Clock
  <1> HIDE DEF c
  <1>1. /\ stamped' = {m \in stamped : m.at > c - Longest - Surplus}
        /\ uses' = [w \in Windows |-> [b \in Buyers |-> IF uses[w][b] > c - w THEN uses[w][b] ELSE Never]]
        /\ scoring' = [scoring EXCEPT ![s].pc = "read"]
    BY DEF ReadFeatures, Trimmed, TrimmedUses, c
  <1>2. UNCHANGED <<hour, switchLog, made, lastMade, storeFaults, counts, knownDevice, knownBuyers, tallied,
                    missed>>
    BY DEF ReadFeatures, deviceVars
  <1>3. \A w \in Windows, b \in Buyers :
          \/ uses'[w][b] = uses[w][b] /\ uses[w][b] > c - w
          \/ uses'[w][b] = Never /\ uses[w][b] <= c - w
    BY <1>0, <1>1, StoresTyped, LongestWindow
  <1>4. StoresTypeOK'
    <2>1. uses' \in [Windows -> [Buyers -> Stamps \cup {Never}]]
      BY <1>1, StoresTyped
    <2>2. scoring' \in [Scorings -> [pc : {"new", "read", "done"}, skew : 0 .. MaxSkew]]
      BY <1>1, StoresTyped
    <2>3. stamped' \in SUBSET Marks
      BY <1>1, StoresTyped
    <2> QED BY <1>2, <2>1, <2>2, <2>3 DEF StoresIInv, StoresTypeOK
  <1>5. LedgerKept'
    <2>1. stamped' \subseteq made
      BY <1>1 DEF StoresIInv, LedgerKept
    <2>2. ASSUME NEW m \in made \ stamped' PROVE m.at <= hour + MaxSkew - Longest - Surplus
      <3>1. m.at \in Int
        BY StoresTyped
      <3>2. CASE m \in stamped
        BY <1>0, <1>1, <3>1, <3>2, LongestWindow
      <3>3. CASE m \notin stamped
        BY <3>3 DEF StoresIInv, LedgerKept
      <3> QED BY <3>2, <3>3
    <2> QED BY <1>2, <2>1, <2>2 DEF LedgerKept
  <1>6. TalliesKept'
    BY <1>2 DEF StoresIInv, TalliesKept
  <1>7. UsesFollow'
    <2> SUFFICES ASSUME NEW w \in Windows, NEW b \in Buyers PROVE UseFollows(w, b)'
      BY DEF UsesFollow
    <2>1. UseFollows(w, b) /\ lastMade[w][b] \in Int /\ uses[w][b] \in Int /\ w \in Int
      BY StoresTyped, LongestWindow DEF StoresIInv, UsesFollow
    <2>2. CASE uses'[w][b] = uses[w][b]
      BY <1>2, <2>1, <2>2 DEF UseFollows
    <2>3. CASE uses'[w][b] = Never /\ uses[w][b] <= c - w
      BY <1>0, <1>2, <2>1, <2>3, LongestWindow DEF UseFollows
    <2> QED BY <1>3, <2>2, <2>3
  <1>8. UsesNested'
    <2> SUFFICES ASSUME NEW v \in Windows, NEW w \in Windows, NEW b \in Buyers, v < w PROVE UseNested(v, w, b)'
      BY DEF UsesNested
    <2>1. /\ UseNested(v, w, b) /\ uses[v][b] \in Int /\ uses[w][b] \in Int /\ v \in Nat \ {0} /\ w \in Nat
          /\ v <= Longest /\ MaxSkew <= w - v
      BY StoresTyped, LongestWindow, StoresAssumption DEF StoresIInv, UsesNested
    <2>2. Never <= hour - v
      BY <1>0, <2>1, StoresTyped, LongestWindow
    <2>3. CASE uses'[v][b] = Never
      BY <1>2, <2>2, <2>3 DEF UseNested
    <2>4. CASE uses'[v][b] = uses[v][b] /\ uses[v][b] > c - v
      <3>1. CASE uses[v][b] <= hour - v
        BY <1>2, <2>4, <3>1 DEF UseNested
      <3>2. CASE uses[w][b] # Never /\ uses[v][b] <= uses[w][b] + MaxSkew
        <4>1. ~(uses[w][b] <= c - w)
          BY <1>0, <2>1, <2>4, <3>2, LongestWindow
        <4>2. uses'[w][b] = uses[w][b]
          BY <1>3, <4>1
        <4> QED BY <1>2, <2>4, <3>2, <4>2 DEF UseNested
      <3> QED BY <2>1, <3>1, <3>2 DEF UseNested
    <2> QED BY <1>3, <2>3, <2>4
  <1>9. UsesKnown'
    BY <1>2, <1>3 DEF StoresIInv, UsesKnown
  <1> QED BY <1>4, <1>5, <1>6, <1>7, <1>8, <1>9 DEF StoresIInv

\* A payment enters some of the stores, and trims them; no two of them need to fail together.
LEMMA RecordStep ==
  ASSUME StoresIInv, NEW s \in Scorings, NEW buyer \in Buyers, RecordPayment(s, buyer)
  PROVE  StoresIInv'
  <1> DEFINE c == Clock(s)
             m0 == [at |-> c, by |-> s, buyer |-> buyer]
             stores == {"ledger", "counts", "buyers"}
  <1>0. c \in Int /\ hour \in Int /\ hour \in 0 .. MaxHour /\ hour <= c /\ c <= hour + MaxSkew /\ c \in Stamps
    BY StoresTyped, LongestWindow DEF Clock, Stamps
  <1>1. PICK kept \in SUBSET stores :
          /\ storeFaults' = storeFaults + Cardinality(stores \ kept)
          /\ storeFaults' <= MaxStoreFaults
          /\ RecordLedger(m0, "ledger" \in kept)
          /\ RecordCounts(m0, "counts" \in kept)
          /\ RecordBuyer(m0, "buyers" \in kept)
          /\ uses' = [w \in Windows |-> IF w \in SetsAdded(kept) THEN UsesAfter(w, m0) ELSE uses[w]]
          /\ lastMade' = [w \in Windows |-> IF w \in SetsAdded(kept)
                                             THEN [lastMade[w] EXCEPT ![buyer] = hour] ELSE lastMade[w]]
    BY DEF RecordPayment
  <1>2. hour' = hour /\ scoring' = [scoring EXCEPT ![s].pc = "done"]
    BY DEF RecordPayment
  <1> HIDE DEF c
  <1>3. m0 \in Marks /\ m0.at = c /\ m0.by = s /\ m0.buyer = buyer
    BY <1>0 DEF Marks
  <1> HIDE DEF m0
  <1>4. LedgerKept' /\ stamped' \in SUBSET Marks /\ made' \in SUBSET Marks
    <2>1. CASE "ledger" \in kept
      <3>1. /\ stamped' = {m \in stamped \cup {m0} : m.at > c - Longest - Surplus}
            /\ made' = made \cup {m0}
        BY <1>1, <1>3, <2>1 DEF RecordLedger, LedgerAfter, Trimmed
      <3>2. stamped' \subseteq made' /\ stamped' \in SUBSET Marks /\ made' \in SUBSET Marks
        BY <1>3, <3>1, StoresTyped DEF StoresIInv, LedgerKept
      <3>3. ASSUME NEW m \in made' \ stamped' PROVE m.at <= hour + MaxSkew - Longest - Surplus
        <4>1. m.at \in Int
          BY <3>2, StoresTyped
        <4>2. CASE m \in stamped \cup {m0}
          BY <1>0, <3>1, <4>1, <4>2, LongestWindow
        <4>3. CASE m \notin stamped \cup {m0}
          BY <3>1, <4>3 DEF StoresIInv, LedgerKept
        <4> QED BY <4>2, <4>3
      <3> QED BY <1>2, <3>2, <3>3 DEF LedgerKept
    <2>2. CASE "ledger" \notin kept
      BY <1>1, <1>2, <2>2, StoresTyped DEF RecordLedger, StoresIInv, LedgerKept
    <2> QED BY <2>1, <2>2
  <1>5. TalliesKept' /\ counts' \in [Windows -> SUBSET Marks] /\ tallied' \in SUBSET Marks /\ knownDevice' \in BOOLEAN
    <2>1. CASE "counts" \in kept
      <3>1. /\ counts' = [w \in Windows |-> {m \in counts[w] \cup {m0} : m.at > c - w - Surplus}]
            /\ tallied' = tallied \cup {m0} /\ knownDevice' = TRUE
        BY <1>1, <1>3, <2>1 DEF RecordCounts, CountsAfter, Trimmed
      <3>2. counts' \in [Windows -> SUBSET Marks] /\ tallied' \in SUBSET Marks
        BY <1>3, <3>1, StoresTyped
      <3>3. ASSUME NEW w \in Windows
            PROVE  /\ counts'[w] \subseteq tallied'
                   /\ \A m \in tallied' \ counts'[w] : m.at <= hour + MaxSkew - w - Surplus
        <4>1. /\ counts'[w] = {m \in counts[w] \cup {m0} : m.at > c - w - Surplus}
              /\ counts[w] \subseteq tallied
              /\ \A m \in tallied \ counts[w] : m.at <= hour + MaxSkew - w - Surplus
          BY <3>1 DEF StoresIInv, TalliesKept
        <4>2. ASSUME NEW m \in tallied' \ counts'[w] PROVE m.at <= hour + MaxSkew - w - Surplus
          <5>1. m.at \in Int /\ w \in Int
            BY <3>2, StoresTyped, LongestWindow
          <5>2. CASE m \in counts[w] \cup {m0}
            BY <1>0, <4>1, <4>2, <5>1, <5>2, LongestWindow
          <5>3. CASE m \notin counts[w] \cup {m0}
            BY <3>1, <4>1, <5>3
          <5> QED BY <5>2, <5>3
        <4> QED BY <3>1, <4>1, <4>2
      <3> QED BY <1>2, <3>1, <3>2, <3>3 DEF TalliesKept
    <2>2. CASE "counts" \notin kept
      BY <1>1, <1>2, <2>2, StoresTyped DEF RecordCounts, StoresIInv, TalliesKept
    <2> QED BY <2>1, <2>2
  <1>6. /\ switchLog' \in SUBSET Marks /\ knownBuyers' \in SUBSET Buyers /\ missed' \in SUBSET Buyers
        /\ knownBuyers \subseteq knownBuyers' /\ missed \subseteq missed'
        /\ IF "buyers" \in kept THEN buyer \in knownBuyers' ELSE buyer \in missed'
    <2>1. CASE "buyers" \in kept
      BY <1>1, <1>3, <2>1, StoresTyped DEF RecordBuyer, Trimmed
    <2>2. CASE "buyers" \notin kept
      BY <1>1, <1>3, <2>2, StoresTyped DEF RecordBuyer
    <2> QED BY <2>1, <2>2
  <1>7. storeFaults' \in 0 .. MaxStoreFaults
    <2>1. IsFiniteSet(stores \ kept)
      <3>1. IsFiniteSet({"ledger"} \cup {"counts"})
        BY FS_Singleton, FS_AddElement
      <3>2. IsFiniteSet({"ledger"} \cup {"counts"} \cup {"buyers"})
        BY <3>1, FS_AddElement
      <3>3. stores \ kept \in SUBSET ({"ledger"} \cup {"counts"} \cup {"buyers"})
        OBVIOUS
      <3> QED BY <3>2, <3>3, FS_Subset
    <2>2. Cardinality(stores \ kept) \in Nat
      BY <2>1, FS_CardinalityType
    <2> HIDE DEF stores
    <2> QED BY <1>1, <2>2, StoresTyped, LongestWindow
  <1> DEFINE Added == SetsAdded(kept)
  <1>8. /\ Added \subseteq Windows
        /\ "buyers" \in kept => Added = Windows
        /\ "buyers" \notin kept => Added \subseteq {Longest}
    BY LongestWindow DEF SetsAdded
  <1>9. ASSUME NEW w \in Windows, NEW b \in Buyers
        PROVE  /\ w \notin Added => uses'[w][b] = uses[w][b] /\ lastMade'[w][b] = lastMade[w][b]
               /\ w \in Added /\ b = buyer => uses'[w][b] = c /\ lastMade'[w][b] = hour
               /\ w \in Added /\ b # buyer
                    => /\ lastMade'[w][b] = lastMade[w][b]
                       /\ \/ uses'[w][b] = uses[w][b] /\ uses[w][b] > c - w - Surplus
                          \/ uses'[w][b] = Never /\ uses[w][b] <= c - w - Surplus
    <2>1. /\ uses'[w] = IF w \in Added THEN UsesAfter(w, m0) ELSE uses[w]
          /\ lastMade'[w] = IF w \in Added THEN [lastMade[w] EXCEPT ![buyer] = hour] ELSE lastMade[w]
      BY <1>1
    <2>2. /\ uses[w] \in [Buyers -> Stamps \cup {Never}] /\ lastMade[w] \in [Buyers -> 0 .. MaxHour \cup {Never}]
          /\ uses[w][b] \in Int /\ w \in Nat \ {0}
      BY StoresTyped, LongestWindow
    <2>3. UsesAfter(w, m0)[b] = LET u == IF b = buyer THEN c ELSE uses[w][b]
                                IN IF u > c - w - Surplus THEN u ELSE Never
      BY <1>3, <2>2 DEF UsesAfter, TrimmedUses
    <2>4. c > c - w - Surplus
      BY <1>0, <2>2, LongestWindow
    <2> HIDE DEF Added
    <2> QED BY <1>0, <2>1, <2>2, <2>3, <2>4, LongestWindow
  <1>10. /\ uses' \in [Windows -> [Buyers -> Stamps \cup {Never}]]
         /\ lastMade' \in [Windows -> [Buyers -> 0 .. MaxHour \cup {Never}]]
    <2>1. \A w \in Windows : UsesAfter(w, m0) \in [Buyers -> Stamps \cup {Never}]
      BY <1>0, <1>3, StoresTyped DEF UsesAfter, TrimmedUses
    <2>2. \A w \in Windows : [lastMade[w] EXCEPT ![buyer] = hour] \in [Buyers -> 0 .. MaxHour \cup {Never}]
      BY <1>0, StoresTyped
    <2> HIDE DEF Added
    <2> QED BY <1>1, <2>1, <2>2, StoresTyped
  <1> HIDE DEF Added
  <1>11. StoresTypeOK'
    <2>1. scoring' \in [Scorings -> [pc : {"new", "read", "done"}, skew : 0 .. MaxSkew]]
      BY <1>2, StoresTyped
    <2> QED BY <1>0, <1>2, <1>4, <1>5, <1>6, <1>7, <1>10, <2>1 DEF StoresTypeOK
  <1>12. UsesFollow'
    <2> SUFFICES ASSUME NEW w \in Windows, NEW b \in Buyers PROVE UseFollows(w, b)'
      BY DEF UsesFollow
    <2>1. UseFollows(w, b) /\ lastMade[w][b] \in Int /\ uses[w][b] \in Int /\ w \in Int
      BY StoresTyped, LongestWindow DEF StoresIInv, UsesFollow
    <2>2. CASE uses'[w][b] = uses[w][b] /\ lastMade'[w][b] = lastMade[w][b]
      BY <1>2, <2>1, <2>2 DEF UseFollows
    <2>3. CASE uses'[w][b] = c /\ lastMade'[w][b] = hour
      BY <1>0, <1>2, <2>3, LongestWindow DEF UseFollows
    <2>4. CASE uses'[w][b] = Never /\ uses[w][b] <= c - w - Surplus /\ lastMade'[w][b] = lastMade[w][b]
      BY <1>0, <1>2, <2>1, <2>4, LongestWindow DEF UseFollows
    <2> QED BY <1>9, <2>2, <2>3, <2>4
  <1>13. UsesNested'
    <2> SUFFICES ASSUME NEW v \in Windows, NEW w \in Windows, NEW b \in Buyers, v < w PROVE UseNested(v, w, b)'
      BY DEF UsesNested
    <2>1. /\ UseNested(v, w, b) /\ UseFollows(v, b)
          /\ uses[v][b] \in Int /\ uses[w][b] \in Int /\ v \in Nat \ {0} /\ w \in Nat
          /\ v <= Longest /\ w <= Longest /\ MaxSkew <= w - v
      BY StoresTyped, LongestWindow, StoresAssumption DEF StoresIInv, UsesNested, UsesFollow
    <2>2. Never <= hour - v
      BY <1>0, <2>1, LongestWindow
    <2>3. c # Never
      BY <1>0, LongestWindow
    <2>4. CASE v \in Added /\ w \in Added /\ b = buyer
      BY <1>0, <1>2, <1>9, <2>3, <2>4, LongestWindow DEF UseNested
    <2>5. CASE v \in Added /\ w \in Added /\ b # buyer
      <3>1. CASE uses'[v][b] = Never
        BY <1>2, <2>2, <3>1 DEF UseNested
      <3>2. CASE uses'[v][b] = uses[v][b] /\ uses[v][b] > c - v - Surplus
        <4>1. CASE uses[v][b] <= hour - v
          BY <1>2, <3>2, <4>1 DEF UseNested
        <4>2. CASE uses[w][b] # Never /\ uses[v][b] <= uses[w][b] + MaxSkew
          <5>1. ~(uses[w][b] <= c - w - Surplus)
            BY <1>0, <2>1, <3>2, <4>2, LongestWindow
          <5>2. uses'[w][b] = uses[w][b]
            BY <1>9, <2>5, <5>1
          <5> QED BY <1>2, <3>2, <4>2, <5>2 DEF UseNested
        <4> QED BY <2>1, <4>1, <4>2 DEF UseNested
      <3> QED BY <1>9, <2>5, <3>1, <3>2
    <2>6. CASE v \notin Added /\ w \in Added /\ b = buyer
      <3>1. uses'[v][b] = uses[v][b] /\ uses'[w][b] = c
        BY <1>9, <2>6
      <3>2. uses[v][b] <= hour + MaxSkew
        BY <1>0, <2>1, LongestWindow DEF UseFollows
      <3>3. uses[v][b] <= c + MaxSkew
        BY <1>0, <2>1, <3>2, LongestWindow
      <3> QED BY <1>2, <2>3, <3>1, <3>3 DEF UseNested
    <2>7. CASE v \notin Added /\ w \in Added /\ b # buyer
      <3>1. uses'[v][b] = uses[v][b]
        BY <1>9, <2>7
      <3>2. CASE uses'[w][b] = uses[w][b]
        BY <1>2, <2>1, <3>1, <3>2 DEF UseNested
      <3>3. CASE uses'[w][b] = Never /\ uses[w][b] <= c - w - Surplus
        <4>1. uses[v][b] <= hour - v
          BY <1>0, <2>1, <3>3, LongestWindow DEF UseNested
        <4> QED BY <1>2, <3>1, <4>1 DEF UseNested
      <3> QED BY <1>9, <2>7, <3>2, <3>3
    <2>8. CASE w \notin Added
      <3>1. v \notin Added
        BY <1>8, <2>1, <2>8, LongestWindow
      <3>2. uses'[v][b] = uses[v][b] /\ uses'[w][b] = uses[w][b]
        BY <1>9, <2>8, <3>1
      <3> QED BY <1>2, <2>1, <3>2 DEF UseNested
    <2> QED BY <2>4, <2>5, <2>6, <2>7, <2>8
  <1>14. UsesKnown'
    <2> SUFFICES ASSUME NEW w \in Windows, NEW b \in Buyers, uses'[w][b] # Never
                 PROVE  b \in knownBuyers' \/ (b \in missed' /\ w = Longest)
      BY DEF UsesKnown
    <2>1. CASE w \in Added /\ b = buyer
      BY <1>6, <1>8, <2>1
    <2>2. CASE ~(w \in Added /\ b = buyer)
      <3>1. uses[w][b] # Never
        BY <1>9, <2>2
      <3> QED BY <1>6, <3>1 DEF StoresIInv, UsesKnown
    <2> QED BY <2>1, <2>2
  <1> QED BY <1>4, <1>5, <1>11, <1>12, <1>13, <1>14 DEF StoresIInv

LEMMA StoresInvariance == StoresSpec => []StoresIInv
  <1>1. StoresInit => StoresIInv
    <2> SUFFICES ASSUME StoresInit PROVE StoresIInv
      OBVIOUS
    <2>0. /\ hour = 0 /\ stamped = {} /\ made = {} /\ switchLog = {} /\ tallied = {}
          /\ counts = [w \in Windows |-> {}] /\ knownDevice = FALSE /\ knownBuyers = {} /\ missed = {}
          /\ storeFaults = 0
          /\ \A w \in Windows, b \in Buyers : uses[w][b] = Never /\ lastMade[w][b] = Never
      BY DEF StoresInit
    <2>1. /\ uses \in [Windows -> [Buyers -> Stamps \cup {Never}]]
          /\ lastMade \in [Windows -> [Buyers -> 0 .. MaxHour \cup {Never}]]
          /\ scoring \in [Scorings -> [pc : {"new", "read", "done"}, skew : 0 .. MaxSkew]]
      BY DEF StoresInit
    <2>2. StoresTypeOK
      <3>1. hour \in 0 .. MaxHour /\ storeFaults \in 0 .. MaxStoreFaults
        BY <2>0, LongestWindow
      <3>2. {stamped, made, switchLog, tallied} \subseteq SUBSET Marks
        BY <2>0
      <3>3. counts \in [Windows -> SUBSET Marks]
        BY <2>0
      <3>4. knownDevice \in BOOLEAN /\ {knownBuyers, missed} \subseteq SUBSET Buyers
        BY <2>0
      <3> QED BY <2>1, <3>1, <3>2, <3>3, <3>4 DEF StoresTypeOK
    <2>3. LedgerKept /\ TalliesKept
      BY <2>0 DEF LedgerKept, TalliesKept
    <2>4. UsesFollow
      <3> SUFFICES ASSUME NEW w \in Windows, NEW b \in Buyers PROVE UseFollows(w, b)
        BY DEF UsesFollow
      <3>1. w \in Nat /\ w <= Longest /\ Longest \in Nat
        BY LongestWindow
      <3>2. Never <= 0 + MaxSkew - w
        BY <3>1, LongestWindow
      <3> QED BY <2>0, <3>2 DEF UseFollows
    <2>5. UsesNested
      <3> SUFFICES ASSUME NEW v \in Windows, NEW w \in Windows, NEW b \in Buyers PROVE UseNested(v, w, b)
        BY DEF UsesNested
      <3>1. v \in Nat /\ v <= Longest /\ Longest \in Nat
        BY LongestWindow
      <3>2. Never <= 0 - v
        BY <3>1, LongestWindow
      <3> QED BY <2>0, <3>2 DEF UseNested
    <2>6. UsesKnown
      BY <2>0 DEF UsesKnown
    <2> QED BY <2>2, <2>3, <2>4, <2>5, <2>6 DEF StoresIInv
  <1>2. StoresIInv /\ [StoresNext]_storesVars => StoresIInv'
    <2> SUFFICES ASSUME StoresIInv, [StoresNext]_storesVars PROVE StoresIInv'
      OBVIOUS
    <2>1. CASE UNCHANGED storesVars
      BY <2>1 DEF storesVars, deviceVars, StoresIInv, StoresTypeOK, LedgerKept, TalliesKept, UsesFollow,
         UseFollows, UsesNested, UseNested, UsesKnown
    <2> QED BY <2>1, HourStep, FeaturesReadStep, RecordStep DEF StoresNext
  <1> QED BY <1>1, <1>2, PTL DEF StoresSpec

-----------------------------------------------------------------------------
(* The log of a device's payments, in the order of Redis.                   *)

\* Of all pairs of different elements one is before the other, and before is transitive.
Orders(less, S) ==
  /\ \A x, y \in S : x # y => <<x, y>> \in less \/ <<y, x>> \in less
  /\ \A x, y, z \in S : <<x, y>> \in less /\ <<y, z>> \in less => <<x, z>> \in less

Enumerates(log, T, less) ==
  /\ log \in [1 .. Cardinality(T) -> T] /\ Range(log) = T
  /\ \A i, j \in 1 .. Cardinality(T) : i < j => <<log[i], log[j]>> \in less

\* A finite set in an order has a last element.
LEMMA LastExists ==
  ASSUME NEW S, NEW less, Orders(less, S), IsFiniteSet(S), S # {}
  PROVE  \E x \in S : \A y \in S \ {x} : <<y, x>> \in less
  <1> DEFINE HasLast(T) == \E x \in T : \A y \in T \ {x} : <<y, x>> \in less
             Bad == {n \in Nat : \E T \in SUBSET S : T # {} /\ ~HasLast(T) /\ Cardinality(T) = n}
  <1>1. ASSUME NEW m \in Bad PROVE \E n \in Bad : n < m
    <2>1. PICK T \in SUBSET S : T # {} /\ ~HasLast(T) /\ Cardinality(T) = m
      BY <1>1
    <2>2. PICK x \in T : TRUE
      BY <2>1
    <2> DEFINE R == T \ {x}
    <2>3. m \in Nat /\ Cardinality(R) = m - 1 /\ IsFiniteSet(R) /\ R \in SUBSET S
      BY <2>1, <2>2, <1>1, FS_Subset, FS_RemoveElement
    <2>4. Cardinality(R) \in Nat
      BY <2>3, FS_CardinalityType
    <2>5. R # {}
      BY <2>1, <2>2
    <2>6. ~HasLast(R)
      <3> SUFFICES ASSUME NEW z \in R, \A y \in R \ {z} : <<y, z>> \in less PROVE FALSE
        OBVIOUS
      <3>1. CASE <<x, z>> \in less
        <4>1. \A y \in T \ {z} : <<y, z>> \in less
          BY <3>1
        <4> QED BY <2>1, <4>1
      <3>2. CASE <<z, x>> \in less
        <4>1. \A y \in T \ {x} : <<y, x>> \in less
          BY <2>1, <2>2, <3>2 DEF Orders
        <4> QED BY <2>1, <2>2, <4>1
      <3> QED BY <2>1, <2>2, <3>1, <3>2 DEF Orders
    <2>7. m - 1 \in Bad /\ m - 1 < m
      BY <2>3, <2>4, <2>5, <2>6
    <2> QED BY <2>7
  <1>2. Bad = {}
    <2>1. Bad \in SUBSET Nat
      OBVIOUS
    <2> HIDE DEF Bad
    <2> QED BY <1>1, <2>1, NoneIsLeast
  <1>3. Cardinality(S) \in Nat
    BY FS_CardinalityType
  <1> QED BY <1>2, <1>3

(* A finite set in an order can be written down in that order: without its  *)
(* last element first, and then that.                                       *)
LEMMA EnumerationExists ==
  ASSUME NEW S, NEW less, Orders(less, S), IsFiniteSet(S)
  PROVE  \E log : Enumerates(log, S, less)
  <1> DEFINE HasLog(T) == \E log : Enumerates(log, T, less)
             Bad == {n \in Nat : \E T \in SUBSET S : ~HasLog(T) /\ Cardinality(T) = n}
  <1>1. ASSUME NEW m \in Bad PROVE \E n \in Bad : n < m
    <2>1. PICK T \in SUBSET S : ~HasLog(T) /\ Cardinality(T) = m
      BY <1>1
    <2>2. T # {}
      <3> SUFFICES ASSUME T = {} PROVE FALSE
        OBVIOUS
      <3> DEFINE none == [i \in 1 .. 0 |-> i]
      <3>1. none \in [1 .. 0 -> T] /\ Range(none) = T
        BY DEF Range
      <3>2. Cardinality(T) = 0
        BY FS_EmptySet
      <3>3. Enumerates(none, T, less)
        BY <3>1, <3>2 DEF Enumerates
      <3> QED BY <2>1, <3>3
    <2>3. IsFiniteSet(T) /\ Orders(less, T)
      BY <2>1, FS_Subset DEF Orders
    <2>4. PICK x \in T : \A y \in T \ {x} : <<y, x>> \in less
      BY <2>2, <2>3, LastExists
    <2> DEFINE R == T \ {x}
    <2>5. m \in Nat /\ Cardinality(R) = m - 1 /\ IsFiniteSet(R) /\ R \in SUBSET S
      BY <2>1, <2>3, <1>1, FS_RemoveElement
    <2>6. m - 1 \in Nat
      BY <2>5, FS_CardinalityType
    <2>7. ~HasLog(R)
      <3> SUFFICES ASSUME NEW g, Enumerates(g, R, less) PROVE FALSE
        OBVIOUS
      <3> DEFINE log == [i \in 1 .. m |-> IF i = m THEN x ELSE g[i]]
      <3>1. /\ g \in [1 .. m - 1 -> R] /\ Range(g) = R
            /\ \A i, j \in 1 .. m - 1 : i < j => <<g[i], g[j]>> \in less
        BY <2>5 DEF Enumerates
      <3>2. /\ log \in [1 .. m -> T] /\ log[m] = x
            /\ \A i \in 1 .. m - 1 : log[i] = g[i] /\ g[i] \in R
        BY <2>5, <2>6, <3>1
      <3> HIDE DEF log
      <3>3. ASSUME NEW y \in T PROVE \E i \in 1 .. m : log[i] = y
        <4>1. CASE y = x
          BY <2>5, <2>6, <3>2, <4>1
        <4>2. CASE y # x
          <5>1. PICK i \in 1 .. m - 1 : g[i] = y
            BY <3>1, <4>2 DEF Range
          <5> QED BY <2>5, <3>2, <5>1
        <4> QED BY <4>1, <4>2
      <3>4. Range(log) = T
        BY <3>2, <3>3 DEF Range
      <3>5. ASSUME NEW i \in 1 .. m, NEW j \in 1 .. m, i < j PROVE <<log[i], log[j]>> \in less
        <4>1. i \in 1 .. m - 1
          BY <2>5, <3>5
        <4>2. CASE j = m
          BY <2>4, <3>2, <4>1, <4>2
        <4>3. CASE j # m
          BY <2>5, <3>1, <3>2, <3>5, <4>1, <4>3
        <4> QED BY <4>2, <4>3
      <3>6. Enumerates(log, T, less)
        BY <2>1, <3>2, <3>4, <3>5 DEF Enumerates
      <3> QED BY <2>1, <3>6
    <2>8. m - 1 \in Bad /\ m - 1 < m
      BY <2>5, <2>6, <2>7
    <2> QED BY <2>8
  <1>2. Bad = {}
    <2>1. Bad \in SUBSET Nat
      OBVIOUS
    <2> HIDE DEF Bad
    <2> QED BY <1>1, <2>1, NoneIsLeast
  <1>3. Cardinality(S) \in Nat
    BY FS_CardinalityType
  <1> QED BY <1>2, <1>3

\* The values of the first k places, and the places among them where the value changes.
Values(f, k) == {f[i] : i \in 1 .. k}
Changes(f, k) == {i \in 2 .. k : f[i] # f[i - 1]}

LEMMA ChangesFinite ==
  ASSUME NEW f, NEW n \in Nat
  PROVE  /\ IsFiniteSet(Changes(f, n)) /\ Cardinality(Changes(f, n)) \in Nat
         /\ n # 0 => Cardinality(Changes(f, n)) <= n - 1
  <1>1. IsFiniteSet(2 .. n) /\ Cardinality(2 .. n) = IF 2 > n THEN 0 ELSE n - 2 + 1
    BY FS_Interval
  <1>2. Changes(f, n) \in SUBSET (2 .. n)
    BY DEF Changes
  <1>3. IsFiniteSet(Changes(f, n)) /\ Cardinality(Changes(f, n)) <= Cardinality(2 .. n)
    BY <1>1, <1>2, FS_Subset
  <1>4. Cardinality(Changes(f, n)) \in Nat
    BY <1>3, FS_CardinalityType
  <1> QED BY <1>1, <1>3, <1>4

\* A value that is new is a change.
LEMMA ChangesCoverValues ==
  ASSUME NEW f, NEW n \in Nat, n # 0
  PROVE  /\ IsFiniteSet(Values(f, n)) /\ Cardinality(Values(f, n)) \in Nat
         /\ Cardinality(Values(f, n)) <= Cardinality(Changes(f, n)) + 1
  <1> DEFINE Covered(k) == /\ IsFiniteSet(Values(f, k))
                           /\ Cardinality(Values(f, k)) <= Cardinality(Changes(f, k)) + 1
             Bad == {k \in Nat : k # 0 /\ ~Covered(k)}
  <1>1. ASSUME NEW m \in Bad PROVE \E k \in Bad : k < m
    <2>1. m \in Nat /\ m # 0 /\ ~Covered(m)
      BY <1>1
    <2>2. m # 1
      <3> SUFFICES ASSUME m = 1 PROVE FALSE
        OBVIOUS
      <3>1. Values(f, 1) = {f[1]}
        BY DEF Values
      <3>2. IsFiniteSet(Values(f, 1)) /\ Cardinality(Values(f, 1)) = 1
        BY <3>1, FS_Singleton
      <3>3. Cardinality(Changes(f, 1)) \in Nat
        BY ChangesFinite
      <3> QED BY <2>1, <3>2, <3>3
    <2>3. m - 1 \in Nat /\ m - 1 # 0
      BY <2>1, <2>2
    <2>4. ~Covered(m - 1)
      <3> SUFFICES ASSUME Covered(m - 1) PROVE FALSE
        OBVIOUS
      <3>1. /\ IsFiniteSet(Values(f, m - 1)) /\ Cardinality(Values(f, m - 1)) \in Nat
            /\ Cardinality(Values(f, m - 1)) <= Cardinality(Changes(f, m - 1)) + 1
        BY FS_CardinalityType
      <3>2. IsFiniteSet(Changes(f, m - 1)) /\ Cardinality(Changes(f, m - 1)) \in Nat
        BY <2>3, ChangesFinite
      <3>3. \A i : i \in 1 .. m <=> i \in 1 .. m - 1 \/ i = m
        BY <2>1
      <3>4. Values(f, m) = Values(f, m - 1) \cup {f[m]}
        BY <3>3 DEF Values
      <3>5. CASE f[m] = f[m - 1]
        <4>1. f[m] \in Values(f, m - 1)
          BY <2>3, <3>5 DEF Values
        <4>2. Values(f, m) = Values(f, m - 1)
          BY <3>4, <4>1
        <4>3. \A i : i \in 2 .. m <=> i \in 2 .. m - 1 \/ i = m
          BY <2>3
        <4>4. Changes(f, m) = Changes(f, m - 1)
          BY <3>5, <4>3 DEF Changes
        <4> QED BY <2>1, <3>1, <4>2, <4>4
      <3>6. CASE f[m] # f[m - 1]
        <4>1. \A i : i \in 2 .. m <=> i \in 2 .. m - 1 \/ i = m
          BY <2>3
        <4>2. Changes(f, m) = Changes(f, m - 1) \cup {m} /\ m \notin Changes(f, m - 1)
          <5>1. m \notin 2 .. m - 1
            BY <2>1
          <5> QED BY <3>6, <4>1, <5>1 DEF Changes
        <4>3. Cardinality(Changes(f, m)) = Cardinality(Changes(f, m - 1)) + 1
          BY <3>2, <4>2, FS_AddElement
        <4>4. /\ IsFiniteSet(Values(f, m)) /\ Cardinality(Values(f, m)) \in Nat
              /\ Cardinality(Values(f, m)) <= Cardinality(Values(f, m - 1)) + 1
          <5> DEFINE V == Values(f, m - 1)
          <5>1. IsFiniteSet(V) /\ Cardinality(V) \in Nat
            BY <3>1
          <5> HIDE DEF V
          <5>2. /\ IsFiniteSet(V \cup {f[m]}) /\ Cardinality(V \cup {f[m]}) \in Nat
                /\ Cardinality(V \cup {f[m]}) <= Cardinality(V) + 1
            <6>1. IsFiniteSet(V \cup {f[m]})
              BY <5>1, FS_AddElement
            <6>2. Cardinality(V \cup {f[m]}) \in {Cardinality(V), Cardinality(V) + 1}
              BY <5>1, FS_AddElement, Zenon
            <6> QED BY <5>1, <6>1, <6>2
          <5> QED BY <3>4, <5>2 DEF V
        <4> QED BY <2>1, <3>1, <3>2, <4>3, <4>4
      <3> QED BY <3>5, <3>6
    <2> QED BY <2>1, <2>3, <2>4
  <1>2. Bad = {}
    <2>1. Bad \in SUBSET Nat
      OBVIOUS
    <2> HIDE DEF Bad
    <2> QED BY <1>1, <2>1, NoneIsLeast
  <1>3. Covered(n)
    BY <1>2
  <1> QED BY <1>3, FS_CardinalityType

\* Who is alone does not change places with anybody.
LEMMA OneValueNoChange ==
  ASSUME NEW f, NEW n \in Nat, n # 0, Cardinality(Values(f, n)) = 1
  PROVE  Cardinality(Changes(f, n)) = 0
  <1>1. PICK v : Values(f, n) = {v}
    BY ChangesCoverValues, FS_Singleton
  <1>2. \A i \in 1 .. n : f[i] = v
    BY <1>1 DEF Values
  <1>3. \A i \in 2 .. n : i \in 1 .. n /\ i - 1 \in 1 .. n
    OBVIOUS
  <1>4. Changes(f, n) = {}
    BY <1>2, <1>3 DEF Changes
  <1> QED BY <1>4, FS_EmptySet

\* The log has at most one record of each call, and only of calls that are done.
LogKept ==
  /\ IsFiniteSet(switchLog)
  /\ \A m \in switchLog : scoring[m.by].pc = "done"
  /\ \A m, n \in switchLog : m.by = n.by => m = n

LEMMA LogStep == StoresIInv /\ LogKept /\ [StoresNext]_storesVars => LogKept'
  <1> SUFFICES ASSUME StoresIInv, LogKept, [StoresNext]_storesVars PROVE LogKept'
    OBVIOUS
  <1>0. /\ switchLog \in SUBSET Marks
        /\ scoring \in [Scorings -> [pc : {"new", "read", "done"}, skew : 0 .. MaxSkew]]
        /\ \A m \in Marks : m.by \in Scorings
    BY StoresTyped DEF Marks
  <1>1. CASE UNCHANGED storesVars \/ HourPasses
    BY <1>1 DEF storesVars, HourPasses, LogKept
  <1>2. ASSUME NEW s \in Scorings, ReadFeatures(s) PROVE LogKept'
    <2>1. switchLog' = switchLog /\ scoring[s].pc = "new" /\ scoring' = [scoring EXCEPT ![s].pc = "read"]
      BY <1>2 DEF ReadFeatures
    <2>2. \A m \in switchLog : m.by \in Scorings /\ m.by # s
      BY <1>0, <2>1 DEF LogKept
    <2>3. \A m \in switchLog : scoring'[m.by] = scoring[m.by]
      BY <1>0, <2>1, <2>2
    <2> QED BY <2>1, <2>3 DEF LogKept
  <1>3. ASSUME NEW s \in Scorings, NEW b \in Buyers, RecordPayment(s, b) PROVE LogKept'
    <2> DEFINE m == [at |-> Clock(s), by |-> s, buyer |-> b]
    <2>1. scoring[s].pc = "read" /\ scoring' = [scoring EXCEPT ![s].pc = "done"]
      BY <1>3 DEF RecordPayment
    <2>2. /\ switchLog' \subseteq switchLog \cup {m} /\ switchLog' \in SUBSET (switchLog \cup {m})
      <3>1. PICK kept \in SUBSET {"ledger", "counts", "buyers"} : RecordBuyer(m, "buyers" \in kept)
        <4> HIDE DEF m
        <4> QED BY <1>3 DEF RecordPayment, m
      <3>2. switchLog' = switchLog \/ \E cut : switchLog' = Trimmed(switchLog \cup {m}, cut)
        BY <3>1 DEF RecordBuyer
      <3> QED BY <3>2 DEF Trimmed
    <2>3. \A l \in switchLog : l.by \in Scorings /\ l.by # s /\ scoring'[l.by] = scoring[l.by]
      BY <1>0, <2>1 DEF LogKept
    <2>4. m.by = s /\ scoring'[s].pc = "done"
      BY <1>0, <2>1
    <2> HIDE DEF m
    <2>5. IsFiniteSet(switchLog')
      BY <2>2, FS_AddElement, FS_Subset DEF LogKept
    <2> QED BY <2>2, <2>3, <2>4, <2>5 DEF LogKept
  <1> QED BY <1>1, <1>2, <1>3 DEF StoresNext

\* What the reader of the log counts, in the order in which Redis returns it.
LEMMA LogCovers ==
  ASSUME StoresIInv, LogKept
  PROVE  SwitchesCoverBuyers
  <1> SUFFICES ASSUME NEW order \in {f \in [Scorings -> 1 .. Cardinality(Scorings)] : IsInjective(f)},
                      switchLog # {}
               PROVE  LET log == InOrder(switchLog, order)
                          buyers == {m.buyer : m \in switchLog}
                      IN  /\ Cardinality(buyers) - 1 <= Switches(log)
                          /\ Switches(log) <= Len(log) - 1
                          /\ Cardinality(buyers) = 1 => Switches(log) = 0
    BY DEF SwitchesCoverBuyers
  <1> DEFINE less == {p \in switchLog \X switchLog : Precedes(p[1], p[2], order)}
             log == InOrder(switchLog, order)
             n == Cardinality(switchLog)
             buyers == {m.buyer : m \in switchLog}
             f == [i \in 1 .. n |-> log[i].buyer]
  <1>1. \A m \in switchLog : m.at \in Int /\ m.by \in Scorings
    BY StoresTyped DEF Marks
  <1>2. /\ \A s \in Scorings : order[s] \in Int
        /\ \A s, t \in Scorings : order[s] = order[t] => s = t
    BY DEF IsInjective
  <1>3. \A x, y \in switchLog : <<x, y>> \in less <=> Precedes(x, y, order)
    OBVIOUS
  <1>4. Orders(less, switchLog)
    <2> HIDE DEF less
    <2>1. ASSUME NEW x \in switchLog, NEW y \in switchLog, x # y
          PROVE  <<x, y>> \in less \/ <<y, x>> \in less
      <3>1. x.by # y.by
        BY <2>1 DEF LogKept
      <3>2. order[x.by] # order[y.by] /\ order[x.by] \in Int /\ order[y.by] \in Int
        BY <1>1, <1>2, <3>1
      <3> QED BY <1>1, <1>3, <3>2 DEF Precedes
    <2>2. ASSUME NEW x \in switchLog, NEW y \in switchLog, NEW z \in switchLog,
                 <<x, y>> \in less, <<y, z>> \in less
          PROVE  <<x, z>> \in less
      <3>1. Precedes(x, y, order) /\ Precedes(y, z, order)
        BY <1>3, <2>2
      <3>2. order[x.by] \in Int /\ order[y.by] \in Int /\ order[z.by] \in Int
        BY <1>1, <1>2
      <3>3. Precedes(x, z, order)
        BY <1>1, <3>1, <3>2 DEF Precedes
      <3> QED BY <1>3, <3>3
    <2> QED BY <2>1, <2>2 DEF Orders
  <1>5. n \in Nat /\ n # 0
    BY FS_CardinalityType, FS_EmptySet DEF LogKept
  <1>6. log \in [1 .. n -> switchLog] /\ Range(log) = switchLog
    <2>1. PICK g : Enumerates(g, switchLog, less)
      BY <1>4, EnumerationExists DEF LogKept
    <2>2. /\ g \in [1 .. n -> switchLog] /\ Range(g) = switchLog
          /\ \A i, j \in DOMAIN g : i < j => Precedes(g[i], g[j], order)
      BY <1>3, <2>1 DEF Enumerates
    <2> QED BY <2>2 DEF InOrder
  <1> HIDE DEF log
  <1>7. /\ Len(log) = n
        /\ \A i \in 1 .. n : f[i] = log[i].buyer
    BY <1>5, <1>6
  <1>8. buyers = Values(f, n)
    BY <1>6, <1>7 DEF Values, Range
  <1>9. Switches(log) = Cardinality(Changes(f, n))
    <2>1. \A i \in 2 .. n : i \in 1 .. n /\ i - 1 \in 1 .. n
      BY <1>5
    <2>2. Changes(f, n) = {i \in 2 .. n : log[i].buyer # log[i - 1].buyer}
      BY <1>7, <2>1 DEF Changes
    <2> QED BY <1>7, <2>2 DEF Switches
  <1> HIDE DEF n, f, buyers
  <1>10. /\ Cardinality(Values(f, n)) \in Nat /\ Cardinality(Changes(f, n)) \in Nat
         /\ Cardinality(Values(f, n)) <= Cardinality(Changes(f, n)) + 1
         /\ Cardinality(Changes(f, n)) <= n - 1
         /\ Cardinality(Values(f, n)) = 1 => Cardinality(Changes(f, n)) = 0
    BY <1>5, ChangesCoverValues, ChangesFinite, OneValueNoChange
  <1>11. Cardinality(buyers) - 1 <= Switches(log) /\ Switches(log) <= Len(log) - 1
    BY <1>5, <1>7, <1>8, <1>9, <1>10
  <1>12. Cardinality(buyers) = 1 => Switches(log) = 0
    BY <1>8, <1>9, <1>10
  <1> QED BY <1>11, <1>12 DEF log, buyers

(* Whatever pods trim by clocks that differ, and whichever pipelines fail,  *)
(* a reader gets every record its windows cover and no other, misses a      *)
(* buyer only within the skew of a window's edge, counts in a longer window *)
(* whom it counts in a shorter one, and finds two stores at odds only where *)
(* one of them failed; a device with n accounts in its log shows at least   *)
(* n - 1 switches, in whatever order equal times come (features/).          *)
THEOREM ReadersAreServed == StoresSpec => []FeaturesFaithful
  <1>1. StoresIInv => ReadingsExact
    <2> SUFFICES ASSUME StoresIInv, NEW w \in Windows, NEW k \in 0 .. MaxSkew
                 PROVE  /\ RecordsIn(stamped, w, hour + k) = RecordsIn(made, w, hour + k)
                        /\ CountedIn(w, hour + k) = RecordsIn(tallied, w, hour + k)
      BY DEF ReadingsExact
    <2>0. hour \in Int /\ w \in Int /\ w <= Longest /\ Longest \in Int
      BY StoresTyped, LongestWindow
    <2>1. ASSUME NEW m \in made, m.at >= hour + k - w PROVE m \in stamped
      <3>1. m.at \in Int
        BY StoresTyped
      <3>2. ~(m.at <= hour + MaxSkew - Longest - Surplus)
        BY <2>0, <2>1, <3>1, LongestWindow
      <3> QED BY <3>2 DEF StoresIInv, LedgerKept
    <2>2. ASSUME NEW m \in tallied, m.at >= hour + k - w PROVE m \in counts[w]
      <3>1. m.at \in Int
        BY StoresTyped
      <3>2. ~(m.at <= hour + MaxSkew - w - Surplus)
        BY <2>0, <2>2, <3>1, LongestWindow
      <3> QED BY <3>2 DEF StoresIInv, TalliesKept
    <2>3. stamped \subseteq made /\ counts[w] \subseteq tallied /\ \A m \in made \cup tallied : m.at \in Int
      BY StoresTyped DEF StoresIInv, LedgerKept, TalliesKept
    <2>4. \A i \in Int : hour + k - w <= i <=> i >= hour + k - w
      BY <2>0
    <2>5. RecordsIn(stamped, w, hour + k) = RecordsIn(made, w, hour + k)
      <3>1. ASSUME NEW m \in made PROVE hour + k - w <= m.at /\ m.at <= hour + k => m \in stamped
        BY <2>1, <2>3, <2>4
      <3> QED BY <2>0, <2>3, <3>1, LongestWindow DEF RecordsIn
    <2>6. CountedIn(w, hour + k) = RecordsIn(tallied, w, hour + k)
      <3>1. ASSUME NEW m \in tallied PROVE hour + k - w <= m.at /\ m.at <= hour + k => m \in counts[w]
        BY <2>2, <2>3, <2>4
      <3> QED BY <2>0, <2>3, <3>1, LongestWindow DEF CountedIn, RecordsIn
    <2> QED BY <2>5, <2>6
  <1>2. StoresIInv => BuyersWithinSkew
    <2> SUFFICES ASSUME StoresIInv, NEW w \in Windows, NEW k \in 0 .. MaxSkew, NEW b \in Buyers
                 PROVE  /\ lastMade[w][b] > hour + MaxSkew - w => b \in BuyersIn(w, hour + k)
                        /\ b \in BuyersIn(w, hour + k) => lastMade[w][b] > hour - w - MaxSkew
      <3>1. \A w \in Windows, k \in 0 .. MaxSkew : BuyersIn(w, hour + k) \subseteq Buyers
        BY DEF BuyersIn
      <3> QED BY <3>1 DEF BuyersWithinSkew
    <2>0. /\ hour \in Nat /\ w \in Nat /\ w <= Longest /\ Longest \in Nat /\ k \in Nat /\ k <= MaxSkew
          /\ uses[w][b] \in Int /\ lastMade[w][b] \in Int /\ UseFollows(w, b)
      BY StoresTyped, LongestWindow DEF StoresIInv, UsesFollow
    <2>1. ~(Never > hour + k - w)
      BY <2>0, LongestWindow
    <2>2. b \in BuyersIn(w, hour + k) <=> uses[w][b] > hour + k - w
      BY <2>0 DEF BuyersIn
    <2>3. CASE uses[w][b] = Never /\ lastMade[w][b] <= hour + MaxSkew - w
      BY <2>0, <2>1, <2>2, <2>3, LongestWindow
    <2>4. CASE lastMade[w][b] \in 0 .. hour /\ uses[w][b] \in lastMade[w][b] .. lastMade[w][b] + MaxSkew
      BY <2>0, <2>2, <2>4, LongestWindow
    <2> QED BY <2>0, <2>3, <2>4 DEF UseFollows
  <1>3. StoresIInv => StoresConcur
    <2> SUFFICES ASSUME StoresIInv, NEW k \in 0 .. MaxSkew, NEW w \in Windows
                 PROVE  /\ \A v \in Windows : v <= w => BuyersIn(v, hour + k) \subseteq BuyersIn(w, hour + k)
                        /\ \A b \in BuyersIn(w, hour + k) :
                             NewToKnownDevice(b) => b \in missed /\ w = Longest
      BY DEF StoresConcur
    <2>0. hour \in Nat /\ k \in Nat /\ k <= MaxSkew /\ \A v \in Windows : v \in Nat /\ v <= Longest
      BY StoresTyped, LongestWindow
    <2>1. ASSUME NEW v \in Windows, v < w, NEW b \in BuyersIn(v, hour + k)
          PROVE  b \in BuyersIn(w, hour + k)
      <3>1. b \in Buyers /\ uses[v][b] > hour + k - v
        BY <2>0, <2>1 DEF BuyersIn
      <3>2. uses[v][b] \in Int /\ uses[w][b] \in Int /\ UseNested(v, w, b) /\ MaxSkew <= w - v
        BY <2>1, <3>1, StoresTyped, StoresAssumption DEF StoresIInv, UsesNested
      <3>3. uses[v][b] <= uses[w][b] + MaxSkew
        BY <2>0, <3>1, <3>2 DEF UseNested
      <3>4. uses[w][b] > hour + k - w
        BY <2>0, <3>1, <3>2, <3>3, LongestWindow
      <3> QED BY <2>0, <3>1, <3>4 DEF BuyersIn
    <2>2. ASSUME NEW b \in BuyersIn(w, hour + k), NewToKnownDevice(b)
          PROVE  b \in missed /\ w = Longest
      <3>1. b \in Buyers /\ uses[w][b] > hour + k - w
        BY <2>0, <2>2 DEF BuyersIn
      <3>2. uses[w][b] # Never
        BY <2>0, <3>1, LongestWindow
      <3> QED BY <2>2, <3>1, <3>2 DEF StoresIInv, UsesKnown, NewToKnownDevice
    <2>3. \A v \in Windows : v <= w => v < w \/ v = w
      BY <2>0
    <2> QED BY <2>1, <2>2, <2>3
  <1>4. StoresIInv => StoresTypeOK
    BY DEF StoresIInv
  <1>5. StoresInit => LogKept
    BY FS_EmptySet DEF StoresInit, LogKept
  <1>6. StoresIInv /\ LogKept => SwitchesCoverBuyers
    BY LogCovers
  <1>7. StoresIInv /\ LogKept => FeaturesFaithful
    BY <1>1, <1>2, <1>3, <1>4, <1>6 DEF FeaturesFaithful
  <1> QED BY <1>5, <1>7, LogStep, StoresInvariance, PTL DEF StoresSpec

-----------------------------------------------------------------------------
(* Levels, scores and vectors, for any counts.                              *)

\* The level is the highest rung of those that are reached, or zero.
LEMMA LevelIs ==
  ASSUME NEW n \in Nat, NEW R \in SUBSET (1 .. n)
  PROVE  /\ Max({0} \cup R) \in {0} \cup R
         /\ Max({0} \cup R) \in 0 .. n
         /\ \A i \in R : Max({0} \cup R) >= i
  <1> DEFINE a == 0
             S == {0} \cup R
  <1>1. S \in SUBSET (a .. n) /\ S \in SUBSET Int /\ a \in Int /\ S # {} /\ S \subseteq 0 .. n
    OBVIOUS
  <1> HIDE DEF a
  <1>2. IsFiniteSet(a .. n)
    BY <1>1, FS_Interval
  <1> HIDE DEF S
  <1>3. IsFiniteSet(S)
    BY <1>1, <1>2, FS_Subset
  <1>4. Max(S) \in S /\ \A x \in S : Max(S) >= x
    BY <1>1, <1>3, FiniteMax
  <1>5. Max(S) \in 0 .. n
    BY <1>1, <1>4
  <1> QED BY <1>4, <1>5 DEF S

\* Who reaches more rungs is on no lower level.
LEMMA LevelMonotone ==
  ASSUME NEW n \in Nat, NEW Q \in SUBSET (1 .. n), NEW R \in SUBSET (1 .. n), Q \subseteq R
  PROVE  Max({0} \cup Q) <= Max({0} \cup R)
  <1>1. Max({0} \cup Q) \in {0} \cup Q /\ Max({0} \cup R) \in 0 .. n /\ \A i \in R : Max({0} \cup R) >= i
    BY LevelIs
  <1> QED BY <1>1

\* What a rounded rate is: the bounds of the quotient.
LEMMA RoundedIs ==
  ASSUME NEW m \in Nat, NEW d \in Nat \ {0}
  PROVE  /\ Rounded(m, d) \in Nat
         /\ Rounded(m, d) * (2 * d) <= 2 * m + d
         /\ \A q \in Nat : q * (2 * d) <= 2 * m + d => q <= Rounded(m, d)
  <1> DEFINE a == 2 * m + d
             b == 2 * d
             r == a \div b
  <1>1. a \in Nat /\ b \in Nat \ {0}
    OBVIOUS
  <1> HIDE DEF a, b
  <1>2. r \in Nat /\ r * b <= a /\ a < (r + 1) * b
    BY <1>1
  <1> HIDE DEF r
  <1>3. ASSUME NEW q \in Nat, q * b <= a PROVE q <= r
    <2> SUFFICES ASSUME r + 1 <= q PROVE FALSE
      BY <1>2
    <2>1. (r + 1) * b <= q * b
      BY <1>1, <1>2
    <2>2. (r + 1) * b \in Int /\ q * b \in Int
      BY <1>1, <1>2
    <2> QED BY <1>1, <1>2, <1>3, <2>1, <2>2
  <1> QED BY <1>2, <1>3 DEF a, b, r, Rounded

\* A rate grows with what is counted, and falls with what it is a part of.
LEMMA RoundedMonotone ==
  ASSUME NEW m \in Nat, NEW k \in Nat, NEW c \in Nat \ {0}, NEW d \in Nat \ {0}, m <= k, d <= c
  PROVE  Rounded(m, d) <= Rounded(k, d) /\ Rounded(m, c) <= Rounded(m, d)
  <1>1. Rounded(m, d) <= Rounded(k, d)
    <2>1. Rounded(m, d) \in Nat /\ Rounded(m, d) * (2 * d) <= 2 * m + d
      BY RoundedIs
    <2>2. Rounded(m, d) * (2 * d) <= 2 * k + d
      BY <2>1
    <2> QED BY <2>1, <2>2, RoundedIs
  <1>2. Rounded(m, c) <= Rounded(m, d)
    <2> DEFINE q == Rounded(m, c)
    <2>1. q \in Nat /\ q * (2 * c) <= 2 * m + c
      BY RoundedIs
    <2> HIDE DEF q
    <2>2. q * (2 * d) <= 2 * m + d
      <3>1. CASE q = 0
        BY <3>1
      <3>2. CASE q # 0
        <4>1. PICK e \in Nat : c = d + e
          <5>1. c - d \in Nat /\ c = d + (c - d)
            OBVIOUS
          <5> QED BY <5>1
        <4>2. q * (2 * c) = q * (2 * d) + (2 * q) * e /\ q * (2 * d) \in Int /\ (2 * q) * e \in Int
          BY <2>1, <4>1
        <4>3. e <= (2 * q) * e
          BY <2>1, <3>2, <4>1
        <4> QED BY <2>1, <4>1, <4>2, <4>3
      <3> QED BY <3>1, <3>2
    <2>3. \A x \in Nat : x * (2 * d) <= 2 * m + d => x <= Rounded(m, d)
      BY RoundedIs
    <2> QED BY <2>1, <2>2, <2>3 DEF q
  <1> QED BY <1>1, <1>2

LEMMA BurstTyped ==
  ASSUME NEW b \in Bursts
  PROVE  /\ b.s10 \in Nat /\ b.m1 \in Nat /\ b.m5 \in Nat /\ b.h1 \in Nat /\ b.amount \in Nat
         /\ b.m5 <= b.h1 /\ Acceleration(b) \in Nat
  <1>1. b.s10 \in Nat /\ b.m1 \in Nat /\ b.m5 \in Nat /\ b.h1 \in Nat /\ b.amount \in Nat /\ b.m5 <= b.h1
    BY ScoresAssumption DEF Bursts
  <1> DEFINE m == 1200 * b.m5
             d == b.h1
  <1>2. m \in Nat /\ d \in Nat
    BY <1>1
  <1>3. Acceleration(b) = IF d = 0 THEN 0 ELSE Rounded(m, d)
    BY DEF Acceleration
  <1> HIDE DEF m, d
  <1>4. d # 0 => Rounded(m, d) \in Nat
    BY <1>2, RoundedIs
  <1>5. Acceleration(b) \in Nat
    BY <1>3, <1>4
  <1> QED BY <1>1, <1>5

\* A payment more in five minutes and in the hour: the ratio does not fall, being one at most.
LEMMA AccelerationGrows ==
  ASSUME NEW m \in Nat, NEW h \in Nat \ {0}, m <= h
  PROVE  Rounded(1200 * m, h) <= Rounded(1200 * (m + 1), h + 1)
  <1> DEFINE k == 1200 * m
             l == 1200 * (m + 1)
             q == Rounded(k, h)
  <1>1. k \in Nat /\ l \in Nat /\ h + 1 \in Nat \ {0} /\ l = k + 1200 /\ k <= 1200 * h
    OBVIOUS
  <1> HIDE DEF k, l
  <1>2. q \in Nat /\ q * (2 * h) <= 2 * k + h
    BY <1>1, RoundedIs
  <1> HIDE DEF q
  <1>3. q <= 1200
    <2> SUFFICES ASSUME 1201 <= q PROVE FALSE
      BY <1>2
    <2>1. 1201 * (2 * h) <= q * (2 * h)
      BY <1>2
    <2>2. q * (2 * h) \in Int
      BY <1>2
    <2> QED BY <1>1, <1>2, <2>1, <2>2
  <1>4. q * (2 * (h + 1)) = q * (2 * h) + 2 * q /\ q * (2 * h) \in Int
    BY <1>2
  <1>5. q * (2 * (h + 1)) <= 2 * l + (h + 1)
    BY <1>1, <1>2, <1>3, <1>4
  <1>6. q <= Rounded(l, h + 1)
    <2> DEFINE g == h + 1
    <2>1. g \in Nat \ {0} /\ q * (2 * g) <= 2 * l + g
      BY <1>1, <1>5
    <2> HIDE DEF g
    <2>2. q <= Rounded(l, g)
      BY <1>1, <1>2, <2>1, RoundedIs
    <2> QED BY <2>2 DEF g
  <1> QED BY <1>6 DEF k, l, q

LEMMA RungsOfBursts ==
  /\ DOMAIN Thresholds = 1 .. 3
  /\ \A i \in 1 .. 3 : /\ Thresholds[i].s10 \in Nat /\ Thresholds[i].m1 \in Nat /\ Thresholds[i].m5 \in Nat
                       /\ Thresholds[i].amount \in Nat /\ Thresholds[i].acceleration \in Nat
  BY SMT DEF Thresholds, NoLimit

LEMMA MoreReachesMore ==
  ASSUME NEW b, NEW c, NEW t,
         b.s10 \in Nat, b.m1 \in Nat, b.m5 \in Nat, b.amount \in Nat, Acceleration(b) \in Nat,
         c.s10 \in Nat, c.m1 \in Nat, c.m5 \in Nat, c.amount \in Nat, Acceleration(c) \in Nat,
         t.s10 \in Nat, t.m1 \in Nat, t.m5 \in Nat, t.amount \in Nat, t.acceleration \in Nat,
         b.s10 <= c.s10, b.m1 <= c.m1, b.m5 <= c.m5, b.amount <= c.amount,
         Acceleration(b) <= Acceleration(c), Reaches(b, t)
  PROVE  Reaches(c, t)
  BY DEF Reaches

LEMMA FurtherPaymentIsNotMilder ==
  ASSUME NEW b \in Bursts, NEW s \in Nat, NEW m \in Nat, NEW a \in Nat
  PROVE  BurstSignal(b) <= BurstSignal([s10 |-> b.s10 + s, m1 |-> b.m1 + m, m5 |-> b.m5 + 1,
                                        h1 |-> b.h1 + 1, amount |-> b.amount + a])
  <1> DEFINE c == [s10 |-> b.s10 + s, m1 |-> b.m1 + m, m5 |-> b.m5 + 1, h1 |-> b.h1 + 1,
                   amount |-> b.amount + a]
             Q == {i \in 1 .. 3 : Reaches(b, Thresholds[i])}
             R == {i \in 1 .. 3 : Reaches(c, Thresholds[i])}
  <1>1. /\ b.s10 \in Nat /\ b.m1 \in Nat /\ b.m5 \in Nat /\ b.h1 \in Nat /\ b.amount \in Nat
        /\ b.m5 <= b.h1 /\ Acceleration(b) \in Nat
    BY BurstTyped
  <1>2. /\ c.s10 = b.s10 + s /\ c.m1 = b.m1 + m /\ c.m5 = b.m5 + 1 /\ c.h1 = b.h1 + 1
        /\ c.amount = b.amount + a
    OBVIOUS
  <1> HIDE DEF c
  <1>3. Acceleration(c) \in Nat /\ Acceleration(b) <= Acceleration(c)
    <2> DEFINE k == 1200 * (b.m5 + 1)
               g == b.h1 + 1
    <2>1. k \in Nat /\ g \in Nat \ {0}
      BY <1>1
    <2>2. Acceleration(c) = Rounded(k, g)
      BY <1>1, <1>2 DEF Acceleration
    <2>3. b.h1 # 0 => Acceleration(b) <= Rounded(k, g)
      BY <1>1, AccelerationGrows DEF Acceleration
    <2>4. b.h1 = 0 => Acceleration(b) = 0
      BY DEF Acceleration
    <2> HIDE DEF k, g
    <2>5. Rounded(k, g) \in Nat
      BY <2>1, RoundedIs
    <2> QED BY <1>1, <2>2, <2>3, <2>4, <2>5
  <1>4. Q \subseteq R
    <2> SUFFICES ASSUME NEW i \in 1 .. 3, Reaches(b, Thresholds[i]) PROVE Reaches(c, Thresholds[i])
      OBVIOUS
    <2> DEFINE t == Thresholds[i]
    <2>1. t.s10 \in Nat /\ t.m1 \in Nat /\ t.m5 \in Nat /\ t.amount \in Nat /\ t.acceleration \in Nat
      BY RungsOfBursts
    <2>2. Reaches(b, t)
      OBVIOUS
    <2> HIDE DEF t
    <2>3. /\ c.s10 \in Nat /\ c.m1 \in Nat /\ c.m5 \in Nat /\ c.amount \in Nat
          /\ b.s10 <= c.s10 /\ b.m1 <= c.m1 /\ b.m5 <= c.m5 /\ b.amount <= c.amount
      BY <1>1, <1>2
    <2>4. Reaches(c, t)
      BY <1>1, <1>3, <2>1, <2>2, <2>3, MoreReachesMore
    <2> QED BY <2>4 DEF t
  <1>5. BurstSignal(b) = Max({0} \cup Q) /\ BurstSignal(c) = Max({0} \cup R)
    BY RungsOfBursts DEF BurstSignal
  <1>6. Q \in SUBSET (1 .. 3) /\ R \in SUBSET (1 .. 3)
    OBVIOUS
  <1> HIDE DEF Q, R
  <1>7. Max({0} \cup Q) <= Max({0} \cup R)
    BY <1>4, <1>6, LevelMonotone
  <1> QED BY <1>5, <1>7 DEF c

-----------------------------------------------------------------------------
(* Reputation.                                                              *)

LEMMA AtmostIs ==
  ASSUME NEW n \in Int, NEW limit \in Int
  PROVE  Atmost(n, limit) = IF n <= limit THEN n ELSE limit
  BY MinOfTwo DEF Atmost

\* What is left of a sum when it is kept within 0 and 1000.
Kept(n) == Max({0, Atmost(n, 1000)})

LEMMA KeptIs ==
  ASSUME NEW n \in Int
  PROVE  Kept(n) = IF n <= 0 THEN 0 ELSE IF n <= 1000 THEN n ELSE 1000
  <1> DEFINE m == Atmost(n, 1000)
  <1>1. m = IF n <= 1000 THEN n ELSE 1000
    BY AtmostIs
  <1> HIDE DEF m
  <1>2. Max({0, m}) \in {0, m} /\ Max({0, m}) >= 0 /\ Max({0, m}) >= m
    BY <1>1, MaxOfTwo
  <1>3. Max({0, m}) = IF n <= 0 THEN 0 ELSE m
    BY <1>1, <1>2
  <1> QED BY <1>1, <1>3 DEF Kept, m

LEMMA KeptMonotone ==
  ASSUME NEW m \in Int, NEW n \in Int, m <= n
  PROVE  Kept(m) <= Kept(n)
  BY KeptIs

\* The evidence for a score, before it is kept within its bounds: successes, failures, disputes,
\* recent ones, frauds, recent ones, tenure and the rate of disputes.
RateBites(r) == Total(r) >= 3 /\ Disputed(r)
Evidence(s, f, d, e, x, y, t, z) ==
  500 - s - t + x + y + d + e + f + z

LEMMA ReputationTyped ==
  ASSUME NEW r, r.success \in Nat, r.failure \in Nat, r.dispute \in Nat
  PROVE  /\ Total(r) \in Nat /\ Max({1, Total(r)}) = (IF Total(r) = 0 THEN 1 ELSE Total(r))
         /\ Max({1, Total(r)}) \in Nat \ {0} /\ Rounded(10000 * r.dispute, Max({1, Total(r)})) \in Nat
  <1> DEFINE t == Total(r)
  <1>1. t \in Nat
    BY DEF Total
  <1> HIDE DEF t
  <1> DEFINE one == 1
             d == Max({one, t})
             k == 10000 * r.dispute
  <1>2. d \in {one, t} /\ d >= one /\ d >= t
    <2>1. one \in Int /\ t \in Int
      BY <1>1
    <2> HIDE DEF one
    <2> QED BY <2>1, MaxOfTwo
  <1>3. d = (IF t = 0 THEN 1 ELSE t) /\ d \in Nat \ {0}
    <2> HIDE DEF d
    <2> QED BY <1>1, <1>2
  <1>4. k \in Nat
    OBVIOUS
  <1>5. Rounded(k, d) \in Nat
    <2> HIDE DEF k, d
    <2> QED BY <1>3, <1>4, RoundedIs
  <1> QED BY <1>1, <1>3, <1>5 DEF t

LEMMA ScoreIs ==
  ASSUME NEW r, r.success \in Nat, r.failure \in Nat, r.dispute \in Nat, r.recentDispute \in Nat,
         r.fraud \in Nat, r.recentFraud \in Nat, r.tenure \in Nat
  PROVE  /\ Evidence(Atmost(30 * r.success, 300), Atmost(50 * r.failure, 200),
                     Atmost(250 * r.dispute, 500), Atmost(100 * r.recentDispute, 200),
                     IF r.fraud > 0 THEN 500 ELSE 0, IF r.recentFraud > 0 THEN 300 ELSE 0,
                     Atmost(5 * r.tenure, 150), IF RateBites(r) THEN 200 ELSE 0) \in Int
         /\ ReputationScore(r) =
              Kept(Evidence(Atmost(30 * r.success, 300), Atmost(50 * r.failure, 200),
                            Atmost(250 * r.dispute, 500), Atmost(100 * r.recentDispute, 200),
                            IF r.fraud > 0 THEN 500 ELSE 0, IF r.recentFraud > 0 THEN 300 ELSE 0,
                            Atmost(5 * r.tenure, 150), IF RateBites(r) THEN 200 ELSE 0))
  <1> DEFINE s == Atmost(30 * r.success, 300)
             f == Atmost(50 * r.failure, 200)
             d == Atmost(250 * r.dispute, 500)
             e == Atmost(100 * r.recentDispute, 200)
             t == Atmost(5 * r.tenure, 150)
             x == IF r.fraud > 0 THEN 500 ELSE 0
             y == IF r.recentFraud > 0 THEN 300 ELSE 0
             z == IF RateBites(r) THEN 200 ELSE 0
  <1>1. s \in Int /\ f \in Int /\ d \in Int /\ e \in Int /\ t \in Int
    BY AtmostIs
  <1>2. x \in Int /\ y \in Int /\ z \in Int
    OBVIOUS
  <1>3. ReputationScore(r) = Max({0, Atmost(500 - s - t + x + y + d + e + f + z, 1000)})
    BY DEF ReputationScore, RateBites
  <1> HIDE DEF s, f, d, e, t, x, y, z
  <1>4. Evidence(s, f, d, e, x, y, t, z) \in Int
    BY <1>1, <1>2 DEF Evidence
  <1>5. ReputationScore(r) = Kept(Evidence(s, f, d, e, x, y, t, z))
    BY <1>1, <1>2, <1>3 DEF Evidence, Kept
  <1> QED BY <1>4, <1>5 DEF s, f, d, e, x, y, t, z

\* Counts of outcomes, each a number.
Outcomes(r) ==
  /\ r.success \in Nat /\ r.failure \in Nat /\ r.dispute \in Nat /\ r.recentDispute \in Nat
  /\ r.fraud \in Nat /\ r.recentFraud \in Nat /\ r.tenure \in Nat

\* Nothing known of r is worse than what is known of q, except the rate of disputes.
NotWorse(r, q) ==
  /\ q.success <= r.success /\ q.tenure <= r.tenure /\ r.failure <= q.failure
  /\ r.dispute <= q.dispute /\ r.recentDispute <= q.recentDispute
  /\ r.fraud <= q.fraud /\ r.recentFraud <= q.recentFraud

LEMMA AtmostMonotone ==
  ASSUME NEW m \in Nat, NEW n \in Nat, NEW c \in Nat, NEW limit \in Nat, m <= n
  PROVE  /\ Atmost(c * m, limit) \in Int /\ Atmost(c * n, limit) \in Int
         /\ Atmost(c * m, limit) <= Atmost(c * n, limit)
  <1> DEFINE k == c * m
             l == c * n
  <1>1. k \in Int /\ l \in Int /\ k <= l
    OBVIOUS
  <1> HIDE DEF k, l
  <1>2. Atmost(k, limit) = (IF k <= limit THEN k ELSE limit) /\ Atmost(l, limit) = (IF l <= limit THEN l ELSE limit)
    BY <1>1, AtmostIs
  <1>3. Atmost(k, limit) \in Int /\ Atmost(l, limit) \in Int /\ Atmost(k, limit) <= Atmost(l, limit)
    BY <1>1, <1>2
  <1> QED BY <1>3 DEF k, l

LEMMA ScoreFollowsEvidence ==
  ASSUME NEW r, NEW q, Outcomes(r), Outcomes(q), NotWorse(r, q), RateBites(r) => RateBites(q)
  PROVE  ReputationScore(r) <= ReputationScore(q)
  <1> DEFINE s1 == Atmost(30 * r.success, 300)
             f1 == Atmost(50 * r.failure, 200)
             d1 == Atmost(250 * r.dispute, 500)
             e1 == Atmost(100 * r.recentDispute, 200)
             t1 == Atmost(5 * r.tenure, 150)
             x1 == IF r.fraud > 0 THEN 500 ELSE 0
             y1 == IF r.recentFraud > 0 THEN 300 ELSE 0
             z1 == IF RateBites(r) THEN 200 ELSE 0
             s2 == Atmost(30 * q.success, 300)
             f2 == Atmost(50 * q.failure, 200)
             d2 == Atmost(250 * q.dispute, 500)
             e2 == Atmost(100 * q.recentDispute, 200)
             t2 == Atmost(5 * q.tenure, 150)
             x2 == IF q.fraud > 0 THEN 500 ELSE 0
             y2 == IF q.recentFraud > 0 THEN 300 ELSE 0
             z2 == IF RateBites(q) THEN 200 ELSE 0
  <1>1. s1 \in Int /\ s2 \in Int /\ s2 <= s1
    <2> DEFINE weight == 30
               limit == 300
    <2>1. /\ q.success \in Nat /\ r.success \in Nat /\ q.success <= r.success
          /\ weight \in Nat /\ limit \in Nat
      BY DEF Outcomes, NotWorse
    <2>2. /\ Atmost(weight * q.success, limit) \in Int /\ Atmost(weight * r.success, limit) \in Int
          /\ Atmost(weight * q.success, limit) <= Atmost(weight * r.success, limit)
      <3> HIDE DEF weight, limit
      <3> QED BY <2>1, AtmostMonotone
    <2> QED BY <2>2
  <1>2. t1 \in Int /\ t2 \in Int /\ t2 <= t1
    <2> DEFINE weight == 5
               limit == 150
    <2>1. /\ q.tenure \in Nat /\ r.tenure \in Nat /\ q.tenure <= r.tenure
          /\ weight \in Nat /\ limit \in Nat
      BY DEF Outcomes, NotWorse
    <2>2. /\ Atmost(weight * q.tenure, limit) \in Int /\ Atmost(weight * r.tenure, limit) \in Int
          /\ Atmost(weight * q.tenure, limit) <= Atmost(weight * r.tenure, limit)
      <3> HIDE DEF weight, limit
      <3> QED BY <2>1, AtmostMonotone
    <2> QED BY <2>2
  <1>3. f1 \in Int /\ f2 \in Int /\ f1 <= f2
    <2> DEFINE weight == 50
               limit == 200
    <2>1. /\ r.failure \in Nat /\ q.failure \in Nat /\ r.failure <= q.failure
          /\ weight \in Nat /\ limit \in Nat
      BY DEF Outcomes, NotWorse
    <2>2. /\ Atmost(weight * r.failure, limit) \in Int /\ Atmost(weight * q.failure, limit) \in Int
          /\ Atmost(weight * r.failure, limit) <= Atmost(weight * q.failure, limit)
      <3> HIDE DEF weight, limit
      <3> QED BY <2>1, AtmostMonotone
    <2> QED BY <2>2
  <1>4. d1 \in Int /\ d2 \in Int /\ d1 <= d2
    <2> DEFINE weight == 250
               limit == 500
    <2>1. /\ r.dispute \in Nat /\ q.dispute \in Nat /\ r.dispute <= q.dispute
          /\ weight \in Nat /\ limit \in Nat
      BY DEF Outcomes, NotWorse
    <2>2. /\ Atmost(weight * r.dispute, limit) \in Int /\ Atmost(weight * q.dispute, limit) \in Int
          /\ Atmost(weight * r.dispute, limit) <= Atmost(weight * q.dispute, limit)
      <3> HIDE DEF weight, limit
      <3> QED BY <2>1, AtmostMonotone
    <2> QED BY <2>2
  <1>5. e1 \in Int /\ e2 \in Int /\ e1 <= e2
    <2> DEFINE weight == 100
               limit == 200
    <2>1. /\ r.recentDispute \in Nat /\ q.recentDispute \in Nat /\ r.recentDispute <= q.recentDispute
          /\ weight \in Nat /\ limit \in Nat
      BY DEF Outcomes, NotWorse
    <2>2. /\ Atmost(weight * r.recentDispute, limit) \in Int /\ Atmost(weight * q.recentDispute, limit) \in Int
          /\ Atmost(weight * r.recentDispute, limit) <= Atmost(weight * q.recentDispute, limit)
      <3> HIDE DEF weight, limit
      <3> QED BY <2>1, AtmostMonotone
    <2> QED BY <2>2
  <1>6. x1 \in Int /\ x2 \in Int /\ x1 <= x2
    BY DEF Outcomes, NotWorse
  <1>7. y1 \in Int /\ y2 \in Int /\ y1 <= y2
    BY DEF Outcomes, NotWorse
  <1>8. z1 \in Int /\ z2 \in Int /\ z1 <= z2
    OBVIOUS
  <1>9. /\ Evidence(s1, f1, d1, e1, x1, y1, t1, z1) \in Int
        /\ ReputationScore(r) = Kept(Evidence(s1, f1, d1, e1, x1, y1, t1, z1))
    BY ScoreIs DEF Outcomes
  <1>10. /\ Evidence(s2, f2, d2, e2, x2, y2, t2, z2) \in Int
         /\ ReputationScore(q) = Kept(Evidence(s2, f2, d2, e2, x2, y2, t2, z2))
    BY ScoreIs DEF Outcomes
  <1> HIDE DEF s1, f1, d1, e1, t1, x1, y1, z1, s2, f2, d2, e2, t2, x2, y2, z2
  <1>11. Evidence(s1, f1, d1, e1, x1, y1, t1, z1) <= Evidence(s2, f2, d2, e2, x2, y2, t2, z2)
    BY <1>1, <1>2, <1>3, <1>4, <1>5, <1>6, <1>7, <1>8 DEF Evidence
  <1> QED BY <1>9, <1>10, <1>11, KeptMonotone

\* The rate of disputes grows with them, and more outcomes dilute it.
LEMMA DisputesOnlyDiluted ==
  ASSUME NEW r, NEW q, Outcomes(r), Outcomes(q), r.dispute <= q.dispute, Total(q) <= Total(r), Disputed(r)
  PROVE  Disputed(q)
  <1> DEFINE k == 10000 * r.dispute
             l == 10000 * q.dispute
             c == Max({1, Total(r)})
             d == Max({1, Total(q)})
  <1>1. k \in Nat /\ l \in Nat /\ k <= l
    BY DEF Outcomes
  <1>2. c \in Nat \ {0} /\ d \in Nat \ {0} /\ d <= c
    BY ReputationTyped DEF Outcomes
  <1>3. Rounded(k, c) >= 1000
    BY DEF Disputed
  <1>4. Rounded(l, d) >= 1000 => Disputed(q)
    BY DEF Disputed
  <1> HIDE DEF k, l, c, d
  <1>5. Rounded(k, c) \in Nat /\ Rounded(l, d) \in Nat /\ Rounded(k, d) \in Nat
    BY <1>1, <1>2, RoundedIs
  <1>6. Rounded(k, c) <= Rounded(k, d) /\ Rounded(k, d) <= Rounded(l, d)
    BY <1>1, <1>2, RoundedMonotone
  <1>7. Rounded(l, d) >= 1000
    BY <1>3, <1>5, <1>6
  <1> QED BY <1>4, <1>7

LEMMA DisputedHasDispute ==
  ASSUME NEW r, Outcomes(r), Disputed(r)
  PROVE  r.dispute > 0
  <1> SUFFICES ASSUME r.dispute = 0 PROVE FALSE
    BY DEF Outcomes
  <1> DEFINE d == Max({1, Total(r)})
  <1>1. d \in Nat \ {0}
    BY ReputationTyped DEF Outcomes
  <1>2. Rounded(0, d) >= 1000
    BY DEF Disputed
  <1> HIDE DEF d
  <1>3. Rounded(0, d) \in Nat /\ Rounded(0, d) * (2 * d) <= d
    BY <1>1, RoundedIs
  <1>4. Rounded(0, d) * (2 * d) >= 1000 * (2 * d)
    BY <1>1, <1>2, <1>3
  <1> QED BY <1>1, <1>3, <1>4

LEMMA ScoreTyped ==
  ASSUME NEW r, Outcomes(r)
  PROVE  ReputationScore(r) \in 0 .. 1000 /\ ReputationScore(r) \in Int
  BY ScoreIs, KeptIs DEF Outcomes

LEMMA ReputationsAreOutcomes ==
  ASSUME NEW r \in Reputations
  PROVE  /\ r \in [success : Nat, failure : Nat, dispute : Nat, recentDispute : Nat, fraud : Nat,
                   recentFraud : Nat, tenure : Nat]
         /\ Outcomes(r) /\ r.recentDispute <= r.dispute /\ r.recentFraud <= r.fraud
  <1>1. OutcomeCounts \subseteq Nat /\ TenureDays \subseteq Nat
    BY ScoresAssumption
  <1>2. r \in [success : OutcomeCounts, failure : OutcomeCounts, dispute : OutcomeCounts,
               recentDispute : OutcomeCounts, fraud : OutcomeCounts, recentFraud : OutcomeCounts,
               tenure : TenureDays] /\ r.recentDispute <= r.dispute /\ r.recentFraud <= r.fraud
    BY DEF Reputations
  <1>3. r \in [success : Nat, failure : Nat, dispute : Nat, recentDispute : Nat, fraud : Nat,
               recentFraud : Nat, tenure : Nat]
    BY <1>1, <1>2
  <1> QED BY <1>2, <1>3 DEF Outcomes

LEMMA FraudRaises ==
  ASSUME NEW r \in Reputations, NEW new \in Nat
  PROVE  ReputationScore(r) <= ReputationScore([r EXCEPT !.fraud = @ + 1, !.recentFraud = @ + new])
  <1> DEFINE q == [r EXCEPT !.fraud = @ + 1, !.recentFraud = @ + new]
  <1>1. /\ q.success = r.success /\ q.failure = r.failure /\ q.dispute = r.dispute
        /\ q.recentDispute = r.recentDispute /\ q.tenure = r.tenure
        /\ q.fraud = r.fraud + 1 /\ q.recentFraud = r.recentFraud + new
    BY ReputationsAreOutcomes
  <1> HIDE DEF q
  <1>2. Outcomes(r) /\ Outcomes(q) /\ NotWorse(r, q)
    BY <1>1, ReputationsAreOutcomes DEF Outcomes, NotWorse
  <1>3. RateBites(r) => RateBites(q)
    BY <1>1 DEF RateBites, Disputed, Total
  <1> QED BY <1>2, <1>3, ScoreFollowsEvidence DEF q

LEMMA DisputeRaises ==
  ASSUME NEW r \in Reputations, NEW new \in Nat
  PROVE  ReputationScore(r) <= ReputationScore([r EXCEPT !.dispute = @ + 1, !.recentDispute = @ + new])
  <1> DEFINE q == [r EXCEPT !.dispute = @ + 1, !.recentDispute = @ + new]
  <1>1. /\ q.success = r.success /\ q.failure = r.failure /\ q.dispute = r.dispute + 1
        /\ q.recentDispute = r.recentDispute + new /\ q.tenure = r.tenure
        /\ q.fraud = r.fraud /\ q.recentFraud = r.recentFraud
    BY ReputationsAreOutcomes
  <1> HIDE DEF q
  <1>2. Outcomes(r) /\ Outcomes(q) /\ NotWorse(r, q) /\ r.dispute <= q.dispute
    BY <1>1, ReputationsAreOutcomes DEF Outcomes, NotWorse
  <1>3. Total(q) = Total(r) /\ Total(r) \in Nat
    BY <1>1, <1>2 DEF Total, Outcomes
  <1>4. RateBites(r) => RateBites(q)
    BY <1>2, <1>3, DisputesOnlyDiluted DEF RateBites
  <1> QED BY <1>2, <1>4, ScoreFollowsEvidence DEF q

LEMMA LessIsNotMore ==
  \A m, n \in Int : m < n => ~(n <= m)
  OBVIOUS

LEMMA SuccessRaisesOnlyThird ==
  ASSUME NEW r \in Reputations, NEW s, s = [r EXCEPT !.success = @ + 1],
         ReputationScore(s) > ReputationScore(r)
  PROVE  Total(s) = 3 /\ r.dispute > 0
  <1>1. /\ s.success = r.success + 1 /\ s.failure = r.failure /\ s.dispute = r.dispute
        /\ s.recentDispute = r.recentDispute /\ s.tenure = r.tenure
        /\ s.fraud = r.fraud /\ s.recentFraud = r.recentFraud
    BY ReputationsAreOutcomes
  <1>2. Outcomes(r) /\ Outcomes(s) /\ NotWorse(s, r)
    BY <1>1, ReputationsAreOutcomes DEF Outcomes, NotWorse
  <1>3. Total(s) = Total(r) + 1 /\ Total(r) \in Nat
    BY <1>1, <1>2 DEF Total, Outcomes
  <1>4. ReputationScore(s) \in Int /\ ReputationScore(r) \in Int
    BY <1>2, ScoreTyped
  <1>5. ~(ReputationScore(s) <= ReputationScore(r))
    <2>1. ReputationScore(r) < ReputationScore(s)
      BY <1>4
    <2> QED BY <1>4, <2>1, LessIsNotMore, Zenon
  <1>6. RateBites(s) /\ ~RateBites(r)
    BY <1>2, <1>5, ScoreFollowsEvidence
  <1>7. Disputed(s) => Disputed(r)
    <2>1. s.dispute <= r.dispute /\ Total(r) <= Total(s)
      BY <1>1, <1>2, <1>3 DEF Outcomes
    <2> QED BY <1>2, <2>1, DisputesOnlyDiluted
  <1>8. Total(s) >= 3 /\ Disputed(s) /\ ~(Total(r) >= 3)
    BY <1>6, <1>7 DEF RateBites
  <1>9. s.dispute > 0
    BY <1>2, <1>8, DisputedHasDispute
  <1> QED BY <1>1, <1>3, <1>8, <1>9

LEMMA FailureLowersOnlyByDilution ==
  ASSUME NEW r \in Reputations, NEW f, f = [r EXCEPT !.failure = @ + 1],
         ReputationScore(f) < ReputationScore(r)
  PROVE  Disputed(r) /\ ~Disputed(f)
  <1>1. /\ f.success = r.success /\ f.failure = r.failure + 1 /\ f.dispute = r.dispute
        /\ f.recentDispute = r.recentDispute /\ f.tenure = r.tenure
        /\ f.fraud = r.fraud /\ f.recentFraud = r.recentFraud
    BY ReputationsAreOutcomes
  <1>2. Outcomes(r) /\ Outcomes(f) /\ NotWorse(r, f)
    BY <1>1, ReputationsAreOutcomes DEF Outcomes, NotWorse
  <1>3. Total(f) = Total(r) + 1 /\ Total(r) \in Nat
    BY <1>1, <1>2 DEF Total, Outcomes
  <1>4. ~(ReputationScore(r) <= ReputationScore(f))
    <2>1. ReputationScore(r) \in Int /\ ReputationScore(f) \in Int
      BY <1>2, ScoreTyped
    <2> QED BY <2>1, LessIsNotMore, Zenon
  <1>5. RateBites(r) /\ ~RateBites(f)
    BY <1>2, <1>4, ScoreFollowsEvidence
  <1> QED BY <1>3, <1>5 DEF RateBites

-----------------------------------------------------------------------------
(* Reason codes.                                                            *)

LEMMA TrustedIsClean ==
  ASSUME NEW r \in Reputations, TrustCode \in ReputationCodes(r)
  PROVE  ReputationCodes(r) = {TrustCode}
  <1>1. Outcomes(r) /\ r.recentDispute <= r.dispute /\ r.recentFraud <= r.fraud
    BY ReputationsAreOutcomes
  <1>2. r.dispute = 0 /\ r.fraud = 0 /\ ReputationScore(r) <= 200
    BY DEF ReputationCodes, Raised, TrustCode
  <1>3. ~(r.fraud >= 1) /\ ~(r.recentFraud >= 1) /\ ~(r.recentDispute >= 2) /\ ~(r.dispute >= 1)
    BY <1>1, <1>2 DEF Outcomes
  <1>4. ~(ReputationScore(r) >= 750)
    BY <1>1, <1>2, ScoreTyped
  <1>5. ~Disputed(r)
    BY <1>1, <1>2, DisputedHasDispute
  <1>6. ReputationCodes(r) \subseteq
          {"DEVICE_FRAUD_HISTORY", "DEVICE_RECENT_FRAUD_ACTIVITY", "DEVICE_BAD_REPUTATION",
           "DEVICE_HIGH_DISPUTE_RATE", "DEVICE_RECENT_DISPUTE_BURST", "DEVICE_DISPUTE_HISTORY", TrustCode}
    BY DEF ReputationCodes, Raised, TrustCode
  <1>7. "DEVICE_FRAUD_HISTORY" \notin ReputationCodes(r)
    BY <1>3 DEF ReputationCodes, Raised
  <1>8. "DEVICE_RECENT_FRAUD_ACTIVITY" \notin ReputationCodes(r)
    BY <1>3 DEF ReputationCodes, Raised
  <1>9. "DEVICE_BAD_REPUTATION" \notin ReputationCodes(r)
    BY <1>4 DEF ReputationCodes, Raised
  <1>10. "DEVICE_HIGH_DISPUTE_RATE" \notin ReputationCodes(r)
    BY <1>5 DEF ReputationCodes, Raised
  <1>11. "DEVICE_RECENT_DISPUTE_BURST" \notin ReputationCodes(r)
    BY <1>3 DEF ReputationCodes, Raised
  <1>12. "DEVICE_DISPUTE_HISTORY" \notin ReputationCodes(r)
    BY <1>3 DEF ReputationCodes, Raised
  <1> QED BY <1>6, <1>7, <1>8, <1>9, <1>10, <1>11, <1>12

LEMMA AccountAlarmExplained ==
  ASSUME NEW a \in AccountSignals, MultiAccountSignal(a) >= 2
  PROVE  AccountCodes(a) # {}
  <1> DEFINE R == {i \in 1 .. 3 : \E f \in DOMAIN MultiAccountRungs[i] : a[f] >= MultiAccountRungs[i][f]}
  <1>1. MultiAccountSignal(a) = Max({0} \cup R)
    BY DEF MultiAccountSignal, Highest, MultiAccountRungs
  <1>2. R \in SUBSET (1 .. 3)
    OBVIOUS
  <1>3. Max({0} \cup R) \in {0} \cup R
    <2> HIDE DEF R
    <2> QED BY <1>2, LevelIs
  <1>4. 2 \in R \/ 3 \in R
    BY <1>1, <1>2, <1>3
  <1>5. a.accounts24h \in Nat /\ a.switches1h \in Nat
    BY SignalAssumption DEF AccountSignals
  <1>6. a.accounts24h >= 5 \/ a.switches1h >= 3 \/ a.accounts24h >= 10 \/ a.switches1h >= 5
    BY <1>4 DEF MultiAccountRungs
  <1>7. a.accounts24h >= 3 \/ a.switches1h >= 3
    BY <1>5, <1>6
  <1>8. "DEVICE_MULTI_ACCOUNT_ACTIVITY" \in AccountCodes(a) \/ "DEVICE_ACCOUNT_SWITCH_BURST" \in AccountCodes(a)
    BY <1>7 DEF AccountCodes, Raised
  <1> QED BY <1>8

LEMMA TokenAlarmExplained ==
  ASSUME NEW t, CardTestingSignal(t) >= 2 \/ TokenFanOutSignal(t) >= 1
  PROVE  TokenCodes(t) # {}
  <1>1. "CARD_TESTING_DEVICE_TOKEN_BURST" \in TokenCodes(t) \/ "TOKEN_DEVICE_FANOUT" \in TokenCodes(t)
    BY DEF TokenCodes, Raised
  <1> QED BY <1>1

LEMMA BurstAlarmExplained ==
  ASSUME NEW b \in Bursts, BurstSignal(b) >= 2
  PROVE  VelocityCodes(b) \ {"DEVICE_EXTREME_VELOCITY"} # {}
  <1> DEFINE R == {i \in 1 .. 3 : Reaches(b, Thresholds[i])}
  <1>1. BurstSignal(b) = Max({0} \cup R)
    BY RungsOfBursts DEF BurstSignal
  <1>2. R \in SUBSET (1 .. 3)
    OBVIOUS
  <1>3. Max({0} \cup R) \in {0} \cup R
    <2> HIDE DEF R
    <2> QED BY <1>2, LevelIs
  <1>4. Reaches(b, Thresholds[2]) \/ Reaches(b, Thresholds[3])
    BY <1>1, <1>2, <1>3
  <1>5. b.s10 \in Nat /\ b.m1 \in Nat /\ b.m5 \in Nat /\ b.amount \in Nat /\ Acceleration(b) \in Nat
    BY BurstTyped
  <1>6. b.s10 >= 4 \/ b.m1 >= 8 \/ b.m5 >= 15 \/ b.amount >= 200000 \/ Acceleration(b) >= 400
    BY SMT, <1>4, <1>5 DEF Reaches, Thresholds
  <1> DEFINE s10 == b.s10 >= 4
             m1 == b.m1 >= 8
             m5 == b.m5 >= 15
             amount == b.amount >= 200000
             ratio == Acceleration(b) >= 400
             extreme == BurstSignal(b) = 3
             tests == [DEVICE_TX_BURST_10S |-> s10, DEVICE_TX_BURST_1M |-> m1, DEVICE_TX_BURST_5M |-> m5,
                       DEVICE_AMOUNT_BURST_5M |-> amount, DEVICE_VELOCITY_ACCELERATION |-> ratio,
                       DEVICE_EXTREME_VELOCITY |-> extreme]
  <1>7. VelocityCodes(b) = Raised(tests)
    BY SMT DEF VelocityCodes
  <1>8. s10 \/ m1 \/ m5 \/ amount \/ ratio
    BY SMT, <1>6
  <1> HIDE DEF s10, m1, m5, amount, ratio, extreme
  <1>9. s10 => "DEVICE_TX_BURST_10S" \in Raised(tests)
    BY Zenon DEF Raised
  <1>10. m1 => "DEVICE_TX_BURST_1M" \in Raised(tests)
    BY Zenon DEF Raised
  <1>11. m5 => "DEVICE_TX_BURST_5M" \in Raised(tests)
    BY Zenon DEF Raised
  <1>12. amount => "DEVICE_AMOUNT_BURST_5M" \in Raised(tests)
    BY Zenon DEF Raised
  <1>13. ratio => "DEVICE_VELOCITY_ACCELERATION" \in Raised(tests)
    BY Zenon DEF Raised
  <1>14. \E code \in {"DEVICE_TX_BURST_10S", "DEVICE_TX_BURST_1M", "DEVICE_TX_BURST_5M",
                      "DEVICE_AMOUNT_BURST_5M", "DEVICE_VELOCITY_ACCELERATION"} : code \in Raised(tests)
    BY <1>8, <1>9, <1>10, <1>11, <1>12, <1>13
  <1> QED BY <1>7, <1>14

-----------------------------------------------------------------------------
(* Vectors.                                                                 *)

LEMMA LegacyBounds ==
  /\ Len(LegacyFeatures) = 15
  /\ \A i \in 1 .. 15 : LET e == LegacyFeatures[i][2]
                        IN  /\ e[1] \in Int /\ e[2] \in Int /\ e[3] \in Int
                            /\ e[1] <= e[3] /\ e[3] <= e[2]
  <1>1. Len(LegacyFeatures) = 15
    BY SMT DEF LegacyFeatures
  <1>2. ASSUME NEW i \in 1 .. 15
        PROVE  /\ LegacyFeatures[i][2][1] \in Int /\ LegacyFeatures[i][2][2] \in Int
               /\ LegacyFeatures[i][2][3] \in Int
               /\ LegacyFeatures[i][2][1] <= LegacyFeatures[i][2][3]
               /\ LegacyFeatures[i][2][3] <= LegacyFeatures[i][2][2]
    <2>1. i \in 1 .. 5 \/ i \in 6 .. 10 \/ i \in 11 .. 15
      OBVIOUS
    <2>2. CASE i \in 1 .. 5
      BY SMT, <2>2 DEF LegacyFeatures, Fraction, Count
    <2>3. CASE i \in 6 .. 10
      BY SMT, <2>3 DEF LegacyFeatures, Fraction, Count
    <2>4. CASE i \in 11 .. 15
      BY SMT, <2>4 DEF LegacyFeatures, Fraction, Count
    <2> QED BY <2>1, <2>2, <2>3, <2>4
  <1> QED BY <1>1, <1>2

LEMMA BehaviouralBounds ==
  /\ Len(BehaviouralFeatures) = 10
  /\ \A i \in 1 .. 10 : LET e == BehaviouralFeatures[i][2]
                        IN  /\ e[1] \in Int /\ e[2] \in Int /\ e[3] \in Int
                            /\ e[1] <= e[3] /\ e[3] <= e[2]
  <1>1. Len(BehaviouralFeatures) = 10
    BY SMT DEF BehaviouralFeatures
  <1>2. ASSUME NEW i \in 1 .. 10
        PROVE  /\ BehaviouralFeatures[i][2][1] \in Int /\ BehaviouralFeatures[i][2][2] \in Int
               /\ BehaviouralFeatures[i][2][3] \in Int
               /\ BehaviouralFeatures[i][2][1] <= BehaviouralFeatures[i][2][3]
               /\ BehaviouralFeatures[i][2][3] <= BehaviouralFeatures[i][2][2]
    <2>1. i \in 1 .. 5 \/ i \in 6 .. 10
      OBVIOUS
    <2>2. CASE i \in 1 .. 5
      BY SMT, <2>2 DEF BehaviouralFeatures, Fraction, Count
    <2>3. CASE i \in 6 .. 10
      BY SMT, <2>3 DEF BehaviouralFeatures, Fraction, Count
    <2> QED BY <2>1, <2>2, <2>3
  <1> QED BY <1>1, <1>2

LEMMA ArrayIsSequence ==
  ASSUME NEW S, NEW n \in Nat, NEW f \in [1 .. n -> S]
  PROVE  f \in Seq(S) /\ Len(f) = n
  OBVIOUS

LEMMA TwoInARow ==
  ASSUME NEW S, NEW m \in Nat, NEW n \in Nat, NEW f \in [1 .. m -> S], NEW g \in [1 .. n -> S]
  PROVE  /\ DOMAIN (f \o g) = 1 .. m + n
         /\ \A i \in 1 .. m + n : (f \o g)[i] = IF i <= m THEN f[i] ELSE g[i - m]
  <1>1. f \in Seq(S) /\ g \in Seq(S) /\ Len(f) = m /\ Len(g) = n
    BY ArrayIsSequence
  <1> QED BY <1>1

LEMMA FeatureBounds ==
  /\ DOMAIN Definitions = 1 .. 25
  /\ \A i \in 1 .. 25 : /\ Low(i) \in Int /\ High(i) \in Int /\ Default(i) \in Int
                        /\ Low(i) <= Default(i) /\ Default(i) <= High(i)
  <1> DEFINE p == LegacyFeatures
             q == BehaviouralFeatures
  <1>1. p = [i \in 1 .. 15 |-> p[i]] /\ q = [i \in 1 .. 10 |-> q[i]]
    <2>1. p = [i \in 1 .. 15 |-> p[i]]
      BY SMT DEF LegacyFeatures
    <2>2. q = [i \in 1 .. 10 |-> q[i]]
      BY SMT DEF BehaviouralFeatures
    <2> QED BY <2>1, <2>2
  <1>2. /\ DOMAIN (p \o q) = 1 .. 25
        /\ \A i \in 1 .. 25 : (p \o q)[i] = IF i <= 15 THEN p[i] ELSE q[i - 15]
    <2> DEFINE S == {p[i] : i \in 1 .. 15} \cup {q[i] : i \in 1 .. 10}
               m == 15
               n == 10
    <2>1. p \in [1 .. m -> S] /\ q \in [1 .. n -> S]
      <3> HIDE DEF p, q
      <3> QED BY <1>1
    <2>2. m \in Nat /\ n \in Nat /\ m + n = 25
      OBVIOUS
    <2> HIDE DEF p, q, S, m, n
    <2>3. /\ DOMAIN (p \o q) = 1 .. m + n
          /\ \A i \in 1 .. m + n : (p \o q)[i] = IF i <= m THEN p[i] ELSE q[i - m]
      BY <2>1, <2>2, TwoInARow
    <2> QED BY <2>2, <2>3 DEF m
  <1>3. ASSUME NEW i \in 1 .. 25
        PROVE  /\ Low(i) \in Int /\ High(i) \in Int /\ Default(i) \in Int
               /\ Low(i) <= Default(i) /\ Default(i) <= High(i)
    <2>1. CASE i <= 15
      <3>1. Definitions[i] = p[i] /\ i \in 1 .. 15
        <4>1. i \in 1 .. 15 /\ Definitions = p \o q
          BY <2>1 DEF Definitions
        <4> HIDE DEF p, q
        <4> QED BY <1>2, <2>1, <4>1
      <3> QED BY <3>1, LegacyBounds DEF Low, High, Default
    <2>2. CASE ~(i <= 15)
      <3>1. Definitions[i] = q[i - 15] /\ i - 15 \in 1 .. 10
        <4>1. i - 15 \in 1 .. 10 /\ Definitions = p \o q
          BY <2>2 DEF Definitions
        <4> HIDE DEF p, q
        <4> QED BY <1>2, <2>2, <4>1
      <3> QED BY <3>1, BehaviouralBounds DEF Low, High, Default
    <2> QED BY <2>1, <2>2
  <1> QED BY <1>2, <1>3 DEF Definitions

LEMMA SanitizedIs ==
  ASSUME NEW x \in RawValues, NEW i \in 1 .. 25
  PROVE  /\ SanitizeFeatureValue(x, i) \in Int
         /\ Low(i) <= SanitizeFeatureValue(x, i) /\ SanitizeFeatureValue(x, i) <= High(i)
         /\ x.kind = "number" =>
              /\ x.value \in Int
              /\ SanitizeFeatureValue(x, i) =
                   IF x.value <= Low(i) THEN Low(i) ELSE IF x.value <= High(i) THEN x.value ELSE High(i)
  <1> DEFINE lo == Low(i)
             hi == High(i)
             m == Atmost(x.value, hi)
  <1>1. lo \in Int /\ hi \in Int /\ Default(i) \in Int /\ lo <= Default(i) /\ Default(i) <= hi
    BY FeatureBounds
  <1>2. x.kind \in {"NaN", "+Inf", "-Inf", "number"} /\ x.value \in Int
    <2>1. RawNumbers \subseteq Int
      BY ScoresAssumption
    <2>2. CASE x \in [kind : {NaN, "+Inf", "-Inf"}, value : {0}]
      BY <2>2 DEF NaN
    <2>3. CASE x \in [kind : {"number"}, value : RawNumbers]
      BY <2>1, <2>3
    <2> QED BY <2>2, <2>3 DEF RawValues
  <1>3. CASE x.kind = "NaN"
    <2>1. SanitizeFeatureValue(x, i) = Default(i)
      BY <1>3 DEF SanitizeFeatureValue, NaN
    <2> QED BY <1>1, <1>3, <2>1
  <1>4. CASE x.kind = "+Inf"
    <2>1. SanitizeFeatureValue(x, i) = hi
      BY <1>4 DEF SanitizeFeatureValue, NaN
    <2> QED BY <1>1, <1>4, <2>1
  <1>5. CASE x.kind = "-Inf"
    <2>1. SanitizeFeatureValue(x, i) = lo
      BY <1>5 DEF SanitizeFeatureValue, NaN
    <2> QED BY <1>1, <1>5, <2>1
  <1>6. CASE x.kind = "number"
    <2>1. SanitizeFeatureValue(x, i) = Max({lo, m})
      BY <1>6 DEF SanitizeFeatureValue, NaN
    <2>2. m = IF x.value <= hi THEN x.value ELSE hi
      BY <1>1, <1>2, AtmostIs
    <2> HIDE DEF lo, hi, m
    <2>3. Max({lo, m}) \in {lo, m} /\ Max({lo, m}) >= lo /\ Max({lo, m}) >= m
      BY <1>1, <1>2, <2>2, MaxOfTwo
    <2>4. Max({lo, m}) = IF x.value <= lo THEN lo ELSE IF x.value <= hi THEN x.value ELSE hi
      BY <1>1, <1>2, <2>2, <2>3
    <2> QED BY <1>1, <1>2, <2>1, <2>4 DEF lo, hi
  <1> QED BY <1>2, <1>3, <1>4, <1>5, <1>6

\* What VectorInBounds says of two values and their vectors.
VectorSound(x, y, v, o) ==
  /\ \A i \in DOMAIN Definitions :
       /\ Low(i) <= v[i] /\ v[i] <= High(i)
       /\ x.kind = "number" /\ y.kind = "number" /\ x.value <= y.value => v[i] <= o[i]
  /\ Len(LegacyVector(v)) = 15 /\ \A i \in 1 .. 15 : LegacyVector(v)[i] = v[i]

LEMMA VectorsStayInBounds ==
  ASSUME NEW x \in RawValues, NEW y \in RawValues, NEW v, NEW o,
         v = BuildVector([i \in DOMAIN Definitions |-> x]),
         o = BuildVector([i \in DOMAIN Definitions |-> y])
  PROVE  VectorSound(x, y, v, o)
  <1>1. /\ v = [i \in 1 .. 25 |-> SanitizeFeatureValue(x, i)]
        /\ o = [i \in 1 .. 25 |-> SanitizeFeatureValue(y, i)]
    BY FeatureBounds DEF BuildVector
  <1>2. ASSUME NEW i \in 1 .. 25
        PROVE  /\ Low(i) <= v[i] /\ v[i] <= High(i)
               /\ x.kind = "number" /\ y.kind = "number" /\ x.value <= y.value => v[i] <= o[i]
    <2>1. v[i] = SanitizeFeatureValue(x, i) /\ o[i] = SanitizeFeatureValue(y, i)
      BY <1>1
    <2>2. Low(i) \in Int /\ High(i) \in Int /\ Low(i) <= High(i)
      BY FeatureBounds
    <2>3. Low(i) <= v[i] /\ v[i] <= High(i)
      BY <2>1, SanitizedIs
    <2>4. x.kind = "number" =>
            x.value \in Int /\ v[i] = IF x.value <= Low(i) THEN Low(i) ELSE IF x.value <= High(i) THEN x.value ELSE High(i)
      BY <2>1, SanitizedIs
    <2>5. y.kind = "number" =>
            y.value \in Int /\ o[i] = IF y.value <= Low(i) THEN Low(i) ELSE IF y.value <= High(i) THEN y.value ELSE High(i)
      BY <2>1, SanitizedIs
    <2> QED BY <2>2, <2>3, <2>4, <2>5
  <1>3. v \in Seq(Int) /\ Len(v) = 25
    <2>1. \A i \in 1 .. 25 : SanitizeFeatureValue(x, i) \in Int
      BY SanitizedIs
    <2> DEFINE n == 25
    <2>2. v \in [1 .. n -> Int] /\ n \in Nat
      BY <1>1, <2>1
    <2> HIDE DEF n
    <2>3. v \in Seq(Int) /\ Len(v) = n
      BY <2>2, ArrayIsSequence
    <2> QED BY <2>3 DEF n
  <1>4. Len(LegacyVector(v)) = 15 /\ \A i \in 1 .. 15 : LegacyVector(v)[i] = v[i]
    BY <1>3 DEF LegacyVector
  <1> QED BY <1>2, <1>4, FeatureBounds DEF VectorSound

-----------------------------------------------------------------------------

(* For any counts of payments, outcomes and accounts: evidence moves levels *)
(* and scores one way only, vectors stay in their bounds, alarms have a     *)
(* reason code, and no history is called trusted and bad at once.           *)
THEOREM ScoresAreSound == ScoresSpec => []ScoresSound
  <1> DEFINE Known ==
        /\ burst \subseteq Bursts /\ reputation \subseteq Reputations /\ raw \subseteq RawValues
  <1>1. ASSUME Known PROVE ScoresSound
    <2>1. BurstNeverMilder
      <3>1. BurstAmounts \subseteq Nat
        BY ScoresAssumption
      <3>2. burst \subseteq Bursts
        BY <1>1
      <3> QED BY <3>1, <3>2, FurtherPaymentIsNotMilder DEF BurstNeverMilder
    <2>2. BadNewsNeverHelps
      BY <1>1, FraudRaises, DisputeRaises DEF BadNewsNeverHelps
    <2>3. TrustUnlessRateBites
      BY <1>1, SuccessRaisesOnlyThird, FailureLowersOnlyByDilution DEF TrustUnlessRateBites
    <2>4. VectorInBounds
      <3>1. ASSUME NEW x \in raw, NEW y \in raw
            PROVE  VectorSound(x, y, BuildVector([i \in DOMAIN Definitions |-> x]),
                                     BuildVector([i \in DOMAIN Definitions |-> y]))
        BY <1>1, VectorsStayInBounds
      <3> QED BY <3>1 DEF VectorInBounds, VectorSound
    <2>5. AlarmsExplained
      BY <1>1, AccountAlarmExplained, TokenAlarmExplained, BurstAlarmExplained
         DEF AlarmsExplained, AccountsInHand, TokensInHand
    <2>6. TrustedMeansClean
      BY <1>1, TrustedIsClean DEF TrustedMeansClean
    <2> QED BY <2>1, <2>2, <2>3, <2>4, <2>5, <2>6 DEF ScoresSound
  <1>2. ScoresInit \/ ScoresNone => Known
    BY DEF ScoresInit, ScoresNone
  <1>3. Known /\ [FALSE]_<<burst, reputation, raw, signals>> => Known'
    OBVIOUS
  <1> HIDE DEF Known
  <1> QED BY <1>1, <1>2, <1>3, PTL DEF ScoresSpec
===============================================================================
