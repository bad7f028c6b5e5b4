-------------------------- MODULE CanaryRouterProofs --------------------------
(* What holds of the canary router for every number of requests and         *)
(* administrators, every window and every set of percentages.               *)
EXTENDS CanaryRouter, ReleaseLemmas, FiniteSetTheorems

(* Route is monotone: raising the percentage never takes a transaction off  *)
(* the candidate, so a staged rollout only ever adds traffic.               *)
THEOREM RouteMonotone ==
  ASSUME NEW bucket \in 0 .. 99, NEW c \in Configs, NEW d \in Configs,
         Share(c) <= Share(d), TakesCandidate(bucket, c)
  PROVE  TakesCandidate(bucket, d)
  BY DEF Share, TakesCandidate, Configs

(* The induction hypothesis of the safety theorems: the invariants the runs *)
(* check, all at once. A step of one actor may break a part another one     *)
(* relies on, so none of them is inductive without the typing of the rest.  *)
RouterIInv == RouterTypeOK /\ BreakerConsistent /\ TripZeroesTraffic

LEMMA InitIInv == RouterInit => RouterIInv
  <1> SUFFICES ASSUME RouterInit PROVE RouterIInv
    OBVIOUS
  <1> USE CanaryAssumption, FailureWindowAssumption DEF RouterInit
  <1>1. NewBreaker \in Breaker /\ Consistent(NewBreaker)
    BY DEF NewBreaker, Breaker, BreakerStates, Consistent
  <1>2. IdleRequest \in [pc : RequestPCs, seen : Configs, verdict : Verdicts]
    BY DEF IdleRequest, RequestPCs, LegacyOnly, Configs, Verdicts
  <1>3. IdleAdmin \in [pc : AdminPCs, enabled : BOOLEAN, pct : 0 .. 100,
                       resets : BOOLEAN, overrides : BOOLEAN]
    BY DEF IdleAdmin, AdminPCs
  <1>4. config \in Configs
    BY DEF Configs
  <1> QED BY <1>1, <1>2, <1>3, <1>4 DEF RouterIInv, RouterTypeOK, BreakerConsistent, TripZeroesTraffic

RequestType == [Requests -> [pc : RequestPCs, seen : Configs, verdict : Verdicts]]

(* A step of a request that leaves both locks alone: it keeps the types,    *)
(* and it neither starts nor finishes zeroing the traffic.                  *)
LEMMA OutsideLocks ==
  ASSUME RouterIInv, NEW r \in Requests,
         UNCHANGED <<config, breaker, admin, rewritten>>,
         metrics' \in [total : Nat, success : Nat, errors : Nat],
         req' \in RequestType,
         \A q \in Requests : req[q].pc = "zeroing" => req'[q].pc = "zeroing"
  PROVE  RouterIInv'
  BY DEF RouterIInv, RouterTypeOK, BreakerConsistent, TripZeroesTraffic, RolledBack, RequestType

LEMMA RequestIInv ==
  ASSUME RouterIInv, NEW r \in Requests, RequestStep(r)
  PROVE  RouterIInv'
  <1> DEFINE Records == [pc : RequestPCs, seen : Configs, verdict : Verdicts]
             Counters == [total : Nat, success : Nat, errors : Nat]
  <1>0. /\ config \in Configs /\ breaker \in Breaker /\ rewritten \in BOOLEAN
        /\ req \in [Requests -> Records] /\ metrics \in Counters
        /\ BreakerConsistent /\ TripZeroesTraffic
    BY DEF RouterIInv, RouterTypeOK
  <1>a. IdleRequest \in Records /\ LegacyOnly \in Configs
    BY DEF IdleRequest, RequestPCs, Verdicts, LegacyOnly, Configs
  <1>1. CASE ReadConfig(r)
    <2>1. [IdleRequest EXCEPT !.pc = "read", !.seen = config] \in Records
      BY <1>0 DEF IdleRequest, RequestPCs, Verdicts
    <2> QED BY <1>0, <1>1, <2>1, OutsideLocks DEF ReadConfig, RequestType
  <1>2. CASE ChooseRoute(r)
    <2>1. [req[r] EXCEPT !.pc = "chosen"] \in Records
      BY <1>0 DEF RequestPCs
    <2> QED BY <1>0, <1>a, <1>2, <2>1, OutsideLocks DEF ChooseRoute, RequestType
  <1>3. CASE StartCandidate(r)
    <2>1. [req[r] EXCEPT !.pc = "scoring"] \in Records
      BY <1>0 DEF RequestPCs
    <2>2. metrics' \in Counters
      BY <1>0, <1>3 DEF StartCandidate
    <2> QED BY <1>0, <1>3, <2>1, <2>2, OutsideLocks DEF StartCandidate, RequestType
  <1>4. ASSUME NEW ok \in BOOLEAN, Answer(r, ok)
        PROVE  RouterIInv'
    <2>1. [req[r] EXCEPT !.pc = "answered"] \in Records
      BY <1>0 DEF RequestPCs
    <2>2. metrics' \in Counters
      BY <1>0, <1>4 DEF Answer
    <2> QED BY <1>0, <1>4, <2>1, <2>2, OutsideLocks DEF Answer, RequestType
  <1>5. CASE TakeSnapshot(r)
    <2>1. PICK v \in Verdicts :
               req' = [req EXCEPT ![r] = [@ EXCEPT !.pc = "judging", !.verdict = v]]
      BY <1>5 DEF TakeSnapshot, Judgements, Verdicts
    <2>2. [req[r] EXCEPT !.pc = "judging", !.verdict = v] \in Records
      BY <1>0 DEF RequestPCs
    <2> QED BY <1>0, <1>5, <2>1, <2>2, OutsideLocks DEF TakeSnapshot, RequestType
  <1>6. CASE Judge(r)
    <2> DEFINE v == req[r].verdict
    <2>1. /\ v \in Verdicts
          /\ breaker' = Evaluated(breaker, v)
      BY <1>0, <1>6 DEF Judge
    <2>2. /\ breaker' \in Breaker
          /\ BreakerConsistent'
          /\ ~Trips(breaker, v) /\ RolledBack' => RolledBack
      <3> HIDE DEF v
      <3> QED BY <1>0, <2>1, EvaluatedTyped, EvaluatedConsistent DEF BreakerConsistent, RolledBack
    <2>3. [req[r] EXCEPT !.pc = "zeroing"] \in Records
      BY <1>0 DEF RequestPCs
    <2>4. RouterTypeOK'
      BY <1>0, <1>a, <1>6, <2>2, <2>3 DEF Judge, RouterIInv, RouterTypeOK
    <2>5. TripZeroesTraffic'
      <3>1. CASE Trips(breaker, v)
        BY <1>0, <1>6, <3>1 DEF Judge, TripZeroesTraffic
      <3>2. CASE ~Trips(breaker, v)
        BY <1>0, <1>6, <2>2, <3>2 DEF Judge, TripZeroesTraffic, RolledBack, IdleRequest
      <3> QED BY <3>1, <3>2
    <2> QED BY <2>2, <2>4, <2>5 DEF RouterIInv
  <1>7. CASE ZeroTraffic(r)
    BY <1>0, <1>a, <1>7
    DEF ZeroTraffic, RouterIInv, RouterTypeOK, BreakerConsistent, TripZeroesTraffic, RolledBack
  <1>8. CASE SkipCandidate(r)
    BY <1>0, <1>a, <1>8, OutsideLocks DEF SkipCandidate, RequestType
  <1> QED BY <1>1, <1>2, <1>3, <1>4, <1>5, <1>6, <1>7, <1>8 DEF RequestStep

LEMMA AdminIInv ==
  ASSUME RouterIInv, NEW a \in Admins, AdminStep(a)
  PROVE  RouterIInv'
  <1> USE CanaryAssumption, FailureWindowAssumption
      DEF RouterIInv, RouterTypeOK, BreakerConsistent, TripZeroesTraffic, RolledBack, IdleAdmin,
          LegacyOnly, Configs, AdminPCs, Consistent
  <1>1. ASSUME NEW enabled \in BOOLEAN, NEW adminActor \in BOOLEAN, NEW override \in BOOLEAN,
               NEW pct \in Percentages, Confirm(a, enabled, pct, adminActor, override)
        PROVE  RouterIInv'
    BY <1>1 DEF Confirm, ResetsBreaker
  <1>2. CASE WriteConfig(a)
    BY <1>2 DEF WriteConfig, Configured
  <1>3. CASE ResetAfterWrite(a)
    BY <1>3 DEF ResetAfterWrite, ResetBreaker, NewBreaker, Breaker, BreakerStates
  <1> QED BY <1>1, <1>2, <1>3 DEF AdminStep

LEMMA NextIInv == RouterIInv /\ [RouterNext]_routerVars => RouterIInv'
  <1> SUFFICES ASSUME RouterIInv, [RouterNext]_routerVars PROVE RouterIInv'
    OBVIOUS
  <1>1. CASE RouterNext
    <2>1. CASE CoolDown
      BY <2>1 DEF CoolDown, CooledDown, RouterIInv, RouterTypeOK, BreakerConsistent, TripZeroesTraffic,
                  RolledBack, Consistent, Breaker, BreakerStates
    <2> QED BY <1>1, <2>1, RequestIInv, AdminIInv DEF RouterNext
  <1>2. CASE UNCHANGED routerVars
    BY <1>2 DEF routerVars, RouterIInv, RouterTypeOK, BreakerConsistent, TripZeroesTraffic, RolledBack
  <1> QED BY <1>1, <1>2

(* The invariants hold in every behaviour, however many requests, admins    *)
(* and breached evaluations there are.                                      *)
THEOREM Invariance == RouterSpec => []RouterIInv
  BY InitIInv, NextIInv, PTL DEF RouterSpec

(* The variables keep their types: the state the locks of the router and of *)
(* the breaker protect is what canary_router.go declares.                   *)
THEOREM TypeCorrect == RouterSpec => []RouterTypeOK
  BY Invariance, PTL DEF RouterIInv

(* No reordering of evaluations, resets and cooldowns leaves the breaker's  *)
(* state and its failure counter at odds.                                   *)
THEOREM BreakerStaysConsistent == RouterSpec => []BreakerConsistent
  BY Invariance, PTL DEF RouterIInv

(* A trip is never lost between the breaker's lock and the router's.        *)
THEOREM TripIsNotLost == RouterSpec => []TripZeroesTraffic
  BY Invariance, PTL DEF RouterIInv

-----------------------------------------------------------------------------
(* The counters the error rate is computed from.                            *)

Scoring == {r \in Requests : req[r].pc = "scoring"}

LEMMA ScoringFinite == IsFiniteSet(Scoring) /\ Cardinality(Scoring) \in Nat
  <1>1. Scoring \in SUBSET Requests
    BY DEF Scoring
  <1>2. IsFiniteSet(Scoring)
    BY <1>1, CanaryAssumption, FS_Subset
  <1> QED BY <1>2, FS_CardinalityType

\* A step of r is a step of no other request.
Others(r) == \A q \in Requests \ {r} : req'[q] = req[q]

\* A request that begins to be scored is counted once, and one that ends once.
LEMMA BalanceStep ==
  ASSUME RouterTypeOK, MetricsBalance, NEW r \in Requests, RequestStep(r)
  PROVE  MetricsBalance'
  <1>0. /\ req \in RequestType /\ metrics \in [total : Nat, success : Nat, errors : Nat]
        /\ metrics.total = metrics.success + metrics.errors + Cardinality(Scoring)
    BY DEF RouterTypeOK, RequestType, MetricsBalance, Scoring
  <1>1. MetricsBalance' <=> metrics'.total = metrics'.success + metrics'.errors + Cardinality(Scoring')
    BY DEF MetricsBalance, Scoring
  <1>2. ASSUME UNCHANGED metrics, Scoring' = Scoring PROVE MetricsBalance'
    BY <1>0, <1>1, <1>2
  <1>3. CASE ReadConfig(r) \/ ChooseRoute(r) \/ SkipCandidate(r) \/ TakeSnapshot(r) \/ Judge(r) \/ ZeroTraffic(r)
    <2>1. /\ UNCHANGED metrics /\ req[r].pc # "scoring"
      BY <1>3 DEF ReadConfig, ChooseRoute, SkipCandidate, TakeSnapshot, Judge, ZeroTraffic
    <2>2. Others(r) /\ req'[r].pc # "scoring"
      <3>1. IdleRequest.pc # "scoring"
        BY DEF IdleRequest
      <3>2. CASE ReadConfig(r)
        BY <1>0, <3>2 DEF ReadConfig, IdleRequest, RequestType, Others
      <3>3. CASE ChooseRoute(r)
        BY <1>0, <3>1, <3>3 DEF ChooseRoute, RequestType, Others
      <3>4. CASE SkipCandidate(r)
        BY <1>0, <3>1, <3>4 DEF SkipCandidate, RequestType, Others
      <3>5. CASE TakeSnapshot(r)
        <4>1. PICK v \in Judgements(metrics) :
                   req' = [req EXCEPT ![r] = [@ EXCEPT !.pc = "judging", !.verdict = v]]
          BY <3>5 DEF TakeSnapshot
        <4> QED BY <1>0, <4>1 DEF RequestType, Others
      <3>6. CASE Judge(r)
        BY <1>0, <3>1, <3>6 DEF Judge, RequestType, Others
      <3>7. CASE ZeroTraffic(r)
        BY <1>0, <3>1, <3>7 DEF ZeroTraffic, RequestType, Others
      <3> QED BY <1>3, <3>2, <3>3, <3>4, <3>5, <3>6, <3>7
    <2>3. Scoring' = Scoring
      BY <1>0, <2>1, <2>2 DEF Scoring, Others
    <2> QED BY <1>2, <2>1, <2>3
  <1>4. CASE StartCandidate(r)
    <2>1. /\ metrics' = [metrics EXCEPT !.total = metrics.total + 1] /\ req[r].pc = "chosen"
          /\ req' = [req EXCEPT ![r] = [req[r] EXCEPT !.pc = "scoring"]]
      BY <1>4 DEF StartCandidate
    <2>2. Scoring' = Scoring \cup {r} /\ r \notin Scoring
      BY <1>0, <2>1 DEF Scoring, RequestType
    <2>3. Cardinality(Scoring') = Cardinality(Scoring) + 1
      BY <2>2, ScoringFinite, FS_AddElement
    <2>4. /\ metrics'.total = metrics.total + 1 /\ metrics'.success = metrics.success
          /\ metrics'.errors = metrics.errors
      BY <1>0, <2>1
    <2>5. metrics.total \in Nat /\ metrics.success \in Nat /\ metrics.errors \in Nat
      BY <1>0
    <2> QED BY <1>0, <1>1, <2>3, <2>4, <2>5, ScoringFinite
  <1>5. ASSUME NEW ok \in BOOLEAN, Answer(r, ok) PROVE MetricsBalance'
    <2>1. /\ req[r].pc = "scoring" /\ req' = [req EXCEPT ![r] = [req[r] EXCEPT !.pc = "answered"]]
          /\ \/ metrics' = [metrics EXCEPT !.success = metrics.success + 1]
             \/ metrics' = [metrics EXCEPT !.errors = metrics.errors + 1]
      BY <1>5 DEF Answer
    <2>2. Scoring' = Scoring \ {r} /\ r \in Scoring
      BY <1>0, <2>1 DEF Scoring, RequestType
    <2>3. Cardinality(Scoring') = Cardinality(Scoring) - 1
      BY <2>2, ScoringFinite, FS_RemoveElement
    <2>4. metrics'.total = metrics.total /\ metrics'.success + metrics'.errors = metrics.success + metrics.errors + 1
      BY <1>0, <2>1
    <2>5. metrics'.success \in Nat /\ metrics'.errors \in Nat /\ metrics.success \in Nat /\ metrics.errors \in Nat
      BY <1>0, <2>1
    <2> QED BY <1>0, <1>1, <2>3, <2>4, <2>5, ScoringFinite
  <1> QED BY <1>3, <1>4, <1>5 DEF RequestStep

(* The error rate is never computed over requests that were lost or counted *)
(* twice, for any number of scoring goroutines (canary_router.go, the       *)
(* Record functions): a part of RollbackHolds.                              *)
THEOREM MetricsAddUp == RouterSpec => []MetricsBalance
  <1>1. RouterInit => MetricsBalance
    <2> SUFFICES ASSUME RouterInit PROVE MetricsBalance
      OBVIOUS
    <2>1. Scoring = {}
      BY DEF Scoring, RouterInit, IdleRequest
    <2>2. Cardinality(Scoring) = 0
      BY <2>1, FS_EmptySet
    <2> QED BY <2>2 DEF MetricsBalance, Scoring, RouterInit
  <1>2. RouterTypeOK /\ MetricsBalance /\ [RouterNext]_routerVars => MetricsBalance'
    <2> SUFFICES ASSUME RouterTypeOK, MetricsBalance, [RouterNext]_routerVars PROVE MetricsBalance'
      OBVIOUS
    <2>1. ASSUME UNCHANGED <<metrics, req>> PROVE MetricsBalance'
      BY <2>1 DEF MetricsBalance
    <2>2. ASSUME NEW a \in Admins, AdminStep(a) PROVE UNCHANGED <<metrics, req>>
      BY <2>2 DEF AdminStep, Confirm, WriteConfig, ResetAfterWrite
    <2>3. CASE CoolDown
      BY <2>1, <2>3 DEF CoolDown
    <2>4. CASE UNCHANGED routerVars
      BY <2>1, <2>4 DEF routerVars
    <2> QED BY <2>1, <2>2, <2>3, <2>4, BalanceStep DEF RouterNext
  <1> QED BY <1>1, <1>2, TypeCorrect, PTL DEF RouterSpec

(* A rolled-back breaker that has drained stays rolled back until an        *)
(* administrator's Reset: the end of the cooldown alone brings no traffic   *)
(* back (canary_router.go, Route): a part of RollbackHolds.                 *)
THEOREM OnlyResetRevives == RouterSpec => DrainedStaysTripped
  <1> DEFINE Kept == RolledBack' /\ InFlight' = {}
             Resetting == \E a \in Admins : admin[a].pc = "written"
  <1>1. RouterTypeOK /\ [RouterNext]_routerVars
          => [RolledBack /\ InFlight = {} => Kept \/ Resetting]_routerVars
    <2> SUFFICES ASSUME RouterTypeOK, RouterNext, RolledBack, InFlight = {}, ~Resetting
                 PROVE  Kept
      OBVIOUS
    <2>0. /\ req \in RequestType
          /\ \A q \in Requests : req[q].pc \notin {"chosen", "scoring", "answered", "judging"}
      BY DEF RouterTypeOK, RequestType, InFlight
    <2>1. ASSUME UNCHANGED <<breaker, req>> PROVE Kept
      BY <2>1 DEF RolledBack, InFlight
    <2>2. ASSUME NEW r \in Requests, RequestStep(r) PROVE Kept
      <3>1. ReadConfig(r) \/ ChooseRoute(r) \/ ZeroTraffic(r)
        BY <2>0, <2>2 DEF RequestStep, SkipCandidate, StartCandidate, Answer, TakeSnapshot, Judge
      <3>2. breaker' = breaker
        BY <3>1 DEF ReadConfig, ChooseRoute, ZeroTraffic
      <3>3. Others(r) /\ req'[r].pc \in {"idle", "read", "zeroing"}
        <4>1. IdleRequest.pc = "idle"
          BY DEF IdleRequest
        <4>2. CASE ReadConfig(r)
          BY <2>0, <4>2 DEF ReadConfig, IdleRequest, RequestType, Others
        <4>3. CASE ChooseRoute(r)
          BY <2>0, <4>1, <4>3 DEF ChooseRoute, RequestType, Others
        <4>4. CASE ZeroTraffic(r)
          BY <2>0, <4>1, <4>4 DEF ZeroTraffic, RequestType, Others
        <4> QED BY <3>1, <4>2, <4>3, <4>4
      <3>4. InFlight' = {}
        BY <2>0, <3>3 DEF InFlight, Others
      <3> QED BY <3>2, <3>4 DEF RolledBack
    <2>3. ASSUME NEW a \in Admins, AdminStep(a) PROVE Kept
      <3>1. ~ResetAfterWrite(a)
        BY DEF ResetAfterWrite
      <3> QED BY <2>1, <2>3, <3>1 DEF AdminStep, Confirm, WriteConfig
    <2>4. CASE CoolDown
      <3>1. req' = req /\ breaker'.state = breaker.state
        BY <2>4 DEF CoolDown, CooledDown, RouterTypeOK, Breaker
      <3> QED BY <3>1 DEF RolledBack, InFlight
    <2> QED BY <2>2, <2>3, <2>4 DEF RouterNext
  <1>2. RouterTypeOK /\ [RouterNext]_routerVars
          => [RolledBack /\ InFlight = {}
                => \/ RolledBack' /\ InFlight' = {}
                   \/ \E a \in Admins : admin[a].pc = "written"]_routerVars
    BY <1>1
  <1> QED BY <1>2, TypeCorrect, PTL DEF RouterSpec, DrainedStaysTripped
===============================================================================
