----------------------------- MODULE RiskDecision -----------------------------
(***************************************************************************)
(* From signals to a recommended action (riskengine/orchestrator.go, steps  *)
(* 2 to 4 of Evaluate): score floors, pre-rules, the model and its          *)
(* fallbacks, hard threats, and the ladder of thresholds with the cost      *)
(* policy below it (cost_policy.go, over integers: a probability is a per   *)
(* cent and a cost is in ten-thousandths; rounding happens for display      *)
(* only). The features of a request that only add reason codes are left     *)
(* out.                                                                     *)
(***************************************************************************)
EXTENDS Integers, FiniteSets, FiniteSetsExt

CONSTANTS
  CostBase, RateLTV,               \* of a false positive; rates are per cent
  ReviewFee, ResidualReviewRate,
  ChallengeFee, ChallengeFrictionRate,
  FraudMultiplier

ASSUME CostAssumption ==
  {CostBase, RateLTV, ReviewFee, ResidualReviewRate, ChallengeFee, ChallengeFrictionRate,
   FraudMultiplier} \subseteq Nat

CONSTANTS
  Scores,   \* what a model may answer
  Amounts,  \* amounts of a request
  Accounts, \* accounts that the graph connects to the request
  RuleTables \* the rules of a tenant: sets of [action, status, updated, matches]

ASSUME DecisionAssumption ==
  /\ Scores \subseteq 0 .. 100 /\ Amounts \subseteq Nat /\ Accounts \subseteq Nat
  /\ \A table \in RuleTables :
       /\ IsFiniteSet(table)
       /\ table \subseteq [action : STRING, status : STRING, updated : Nat, matches : BOOLEAN]

-----------------------------------------------------------------------------
(* The cost policy. *)

Actions == {"ALLOW", "STEP_UP", "REVIEW", "DECLINE"}

\* The cost of a false positive, in hundredths.
FalsePositiveCost(amt) ==
  IF 0 < amt /\ amt < 250 THEN Max({2500, Min({100 * CostBase, 200 * amt})})
  ELSE IF amt * RateLTV > 100 * CostBase THEN amt * RateLTV ELSE 100 * CostBase

Cost(p, amt) ==
  [ALLOW   |-> p * amt * FraudMultiplier * 100,
   DECLINE |-> (100 - p) * FalsePositiveCost(amt),
   REVIEW  |-> 10000 * ReviewFee + ResidualReviewRate * p * amt * FraudMultiplier,
   STEP_UP |-> (100 - p) * ChallengeFrictionRate * amt + 10000 * ChallengeFee]

Exposure(p, amt) == p * amt  \* in hundredths

\* The code's comparisons, each against the best so far.
OptimalAction(p, amt) ==
  LET cost == Cost(p, amt)
      better(a, b, admitted) == IF admitted /\ cost[a] < cost[b] THEN a ELSE b
      stepUp == better("STEP_UP", "ALLOW", p >= 15 \/ Exposure(p, amt) >= 250000)
      review == better("REVIEW", stepUp, p >= 25 \/ Exposure(p, amt) >= 500000)
      decline == better("DECLINE", review, TRUE)
  IN IF p < 80 THEN decline
     ELSE IF cost.DECLINE <= cost.REVIEW THEN "DECLINE" ELSE "REVIEW"

\* The actions the policy may choose from.
Admitted(p, amt) ==
  IF p >= 80 THEN {"DECLINE", "REVIEW"}
  ELSE {"ALLOW", "DECLINE"}
         \cup {a \in {"STEP_UP"} : p >= 15 \/ Exposure(p, amt) >= 250000}
         \cup {a \in {"REVIEW"} : p >= 25 \/ Exposure(p, amt) >= 500000}

(* The chain of comparisons finds the cheapest admitted action, and for the *)
(* same amount a likelier fraud never gets a decline taken back, unless it  *)
(* is likely enough to admit an alternative that was not: a decline at 5    *)
(* per cent of 10000 becomes a step-up at 15.                               *)
CheapestAdmitted(p, amt) ==
  LET cost == Cost(p, amt)
      best == OptimalAction(p, amt)
  IN best \in Admitted(p, amt) /\ \A a \in Admitted(p, amt) : cost[best] <= cost[a]

DeclineStays(p, q, amt) ==
  p <= q /\ Admitted(q, amt) \subseteq Admitted(p, amt) /\ OptimalAction(p, amt) = "DECLINE"
    => OptimalAction(q, amt) = "DECLINE"

-----------------------------------------------------------------------------
(* The decision. *)

Failed == -1   \* the model did not answer in time
NotAsked == -2 \* the legacy route

Threats ==
  {"malicious ip", "compromised device", "proxy", "impossible travel", "fraud ring",
   "fraud neighbour"}
HardThreats == {"malicious ip", "impossible travel", "fraud neighbour"}

(* A request: its threats, what the route's models would answer, the        *)
(* velocity counters above their limits, and the rules of its tenant, with  *)
(* whether their conditions match it.                                       *)
Inputs ==
  [threats : SUBSET Threats, accounts : Accounts, busyIp : BOOLEAN, amount : Amounts,
   candidate : Scores \cup {Failed, NotAsked}, legacy : Scores \cup {Failed}, rules : RuleTables]

\* The score that the threats of a set guarantee.
FloorOf(ts, table) == Max({10} \cup {table[t] : t \in ts \cap DOMAIN table})

Floor(in) ==
  Max({FloorOf(in.threats, [t \in Threats \ {"proxy"} |->
                              CASE t = "malicious ip"       -> 85
                                [] t = "compromised device" -> 80
                                [] t = "impossible travel"  -> 80
                                [] t = "fraud ring"         -> 90
                                [] t = "fraud neighbour"    -> 85])}
      \cup {70 : n \in {k \in {in.accounts} : k >= 3}})

HardActions == {"ALLOW", "DECLINE"}

\* The rules in force whose conditions match, and that allow or decline; others add reason codes.
Deciding(table) ==
  {r \in table : r.status = "ACTIVE" /\ r.matches /\ r.action \in HardActions}

\* ListRules: the last updated first; the priority of a rule is not asked for.
PreRule(table) ==
  CHOOSE r \in Deciding(table) : \A s \in Deciding(table) : r.updated >= s.updated

Halted(in) == Deciding(in.rules) # {}

FallbackPoints ==
  [t \in Threats |-> CASE t = "impossible travel"  -> 70
                       [] t = "malicious ip"       -> 55
                       [] t = "proxy"              -> 35
                       [] t = "compromised device" -> 40
                       [] t = "fraud neighbour"    -> 65
                       [] OTHER                    -> 0]

\* calculateFallbackRiskScore; the graph's degree and the token's counter add alike.
FallbackScore(in) ==
  LET points(t) == IF t \in in.threats THEN FallbackPoints[t] ELSE 0
  IN Min({99, 15 + (IF in.amount > 100000 THEN 35 ELSE 0) + (IF in.busyIp THEN 30 ELSE 0)
                + points("impossible travel") + points("malicious ip") + points("proxy")
                + points("compromised device") + points("fraud neighbour")
                + (IF in.accounts >= 3 THEN 55 ELSE IF in.accounts = 2 THEN 30 ELSE 0)})

\* Mutant: the legacy answer replaces the floor after a failed candidate, too.
ModelScoreUnfloored(in) ==
  IF in.candidate \in Scores THEN in.candidate
  ELSE IF in.legacy = Failed THEN (IF in.candidate = Failed THEN 10 ELSE FallbackScore(in))
  ELSE in.legacy

(* Step 3. A candidate that fails is replaced by the legacy model, and that *)
(* one by the heuristics; only behind a failed candidate does the floor     *)
(* stay under them.                                                         *)
ModelScore(in) ==
  LET answer == IF in.legacy = Failed THEN FallbackScore(in) ELSE in.legacy
  IN CASE in.candidate \in Scores  -> in.candidate
       [] in.candidate = Failed    -> Max({Floor(in), answer})
       [] in.candidate = NotAsked  -> answer

HardThreatScore(ts) ==
  Max({0} \cup {90 : t \in ts \cap {"fraud neighbour"}}
          \cup {88 : t \in ts \cap {"impossible travel"}}
          \cup {85 : t \in ts \cap {"malicious ip"}})

FinalScore(in) ==
  IF Halted(in) THEN (IF PreRule(in.rules).action = "DECLINE" THEN 95 ELSE 5)
  ELSE Max({ModelScore(in), HardThreatScore(in.threats)})

\* Step 4: below the ladder, the cost policy decides.
Ladder(score, amount) ==
  IF score >= 85 THEN "DECLINE" ELSE IF score >= 65 THEN "REVIEW"
  ELSE IF score >= 45 THEN "STEP_UP" ELSE OptimalAction(score, amount)

Recommendation(in) ==
  IF Halted(in) THEN PreRule(in.rules).action ELSE Ladder(FinalScore(in), in.amount)

-----------------------------------------------------------------------------

VARIABLE asked   \* the request in hand; the pipeline has no state of its own

DecisionInit == asked \in {{in} : in \in Inputs}

DecisionSpec == DecisionInit /\ [][FALSE]_asked

(* A hard threat is declined whatever the models answer and whichever of    *)
(* them fails: no fallback loses it. Only a rule may overrule it.           *)
HardThreatDeclined ==
  \A in \in asked :
    in.threats \cap HardThreats # {} /\ ~Halted(in) => Recommendation(in) = "DECLINE"

(* A canary is safe to fail: a request whose candidate fails gets at least  *)
(* the score that the legacy route gives it.                                *)
CandidateFailureSafe ==
  \A in \in asked : in.candidate = Failed =>
    FinalScore(in) >= FinalScore([in EXCEPT !.candidate = NotAsked])

(* More evidence of fraud never lowers the score, on every route, degraded  *)
(* or not.                                                                  *)
MoreThreatsNotLower ==
  \A in \in asked, t \in Threats :
    FinalScore([in EXCEPT !.threats = @ \cup {t}]) >= FinalScore(in)

(* The comparisons of the cost policy find the cheapest action it admits,   *)
(* and a likelier fraud takes a decline back only for an alternative that   *)
(* it newly admits.                                                         *)
CostsJustify ==
  \A in \in asked :
    LET p == FinalScore(in)
    IN CheapestAdmitted(p, in.amount) /\ \A q \in Scores : DeclineStays(p, q, in.amount)

(* Of several rules that decide, the one that was edited or approved last   *)
(* wins, and no other can keep it from: touching a rule again is enough to  *)
(* overrule, and what is not in force overrules nothing.                    *)
LastTouchedDecides ==
  \A in \in asked : \A r \in in.rules :
    LET touched == [r EXCEPT !.updated = 1 + Max({s.updated : s \in in.rules})]
        after == [in EXCEPT !.rules = (@ \ {r}) \cup {touched}]
    IN IF r.matches /\ r.status = "ACTIVE" /\ r.action \in HardActions
         THEN Recommendation(after) = r.action
         ELSE Recommendation(after) = Recommendation([in EXCEPT !.rules = @ \ {r}])

(* A decision is sound: it does not lose a threat, is safe to fail, is      *)
(* monotone in the evidence, and is justified by its costs or by the rule   *)
(* that was touched last.                                                   *)
DecisionSound ==
  HardThreatDeclined /\ CandidateFailureSafe /\ MoreThreatsNotLower /\ CostsJustify
  /\ LastTouchedDecides

===============================================================================
