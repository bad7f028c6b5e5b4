----------------------------- MODULE CanaryRouter -----------------------------
(***************************************************************************)
(* The canary router (riskengine/canary_router.go): scoring requests that   *)
(* ask it for a route and report back what the candidate model did, and     *)
(* administrators who change the rollout under their feet.                  *)
(*                                                                          *)
(* The router has two locks, cr.mu over the configuration and cb.mu inside  *)
(* the breaker, and atomic counters; no operation holds two of them, so     *)
(* each access is a step of its own and everything may happen in between.   *)
(***************************************************************************)
EXTENDS CircuitBreaker, FiniteSets

CONSTANTS
  Requests,        \* scoring goroutines; each serves one transaction after another
  Admins,          \* goroutines of POST /v1/canary/control
  Percentages,     \* rollout percentages asked for, a subset of 0 .. 100
  Bucket,          \* Bucket[r]: SHA-256 of r's transaction, modulo 100
  MinSampleCount,  \* candidate requests before the breaker judges
  ErrorLimit,      \* candidate errors, per total, are a breach above 1/ErrorLimit
  MaxCandidates    \* bound on the candidate requests of a run

ASSUME CanaryAssumption ==
  /\ IsFiniteSet(Requests)
  /\ Percentages \subseteq 0 .. 100
  /\ Bucket \in [Requests -> 0 .. 99]
  /\ MinSampleCount \in Nat
  /\ ErrorLimit \in Nat \ {0}
  /\ MaxCandidates \in Nat

VARIABLES
  config,   \* cr.config: [enabled, pct]
  breaker,  \* cr.circuitBreaker
  metrics,  \* cr.metrics: candidate requests, successes and errors so far
  req,      \* the control point and the locals of each request
  admin,    \* the control point and the locals of each admin handler
  rewritten \* history: UpdateConfig wrote the configuration since the last trip

routerVars == <<config, breaker, metrics, req, admin, rewritten>>

RequestPCs == {"idle", "read", "chosen", "scoring", "answered", "judging", "zeroing"}

IdleRequest == [pc |-> "idle", seen |-> LegacyOnly, verdict |-> "CLEAN"]

AdminPCs == {"idle", "confirmed", "written"}

IdleAdmin == [pc |-> "idle", enabled |-> FALSE, pct |-> 0, resets |-> FALSE,
              overrides |-> FALSE]

RouterTypeOK ==
  /\ config \in Configs
  /\ breaker \in Breaker
  /\ metrics \in [total : Nat, success : Nat, errors : Nat]
  /\ req \in [Requests -> [pc : RequestPCs, seen : Configs, verdict : Verdicts]]
  /\ admin \in [Admins -> [pc : AdminPCs, enabled : BOOLEAN, pct : 0 .. 100,
                         resets : BOOLEAN, overrides : BOOLEAN]]
  /\ rewritten \in BOOLEAN

RouterInit ==
  /\ \E p \in Percentages : config = [enabled |-> p > 0, pct |-> p]
  /\ breaker = NewBreaker
  /\ metrics = [total |-> 0, success |-> 0, errors |-> 0]
  /\ req = [r \in Requests |-> IdleRequest]
  /\ admin = [a \in Admins |-> IdleAdmin]
  /\ rewritten = TRUE

RolledBack == breaker.state = "ROLLED_BACK"

-----------------------------------------------------------------------------
(* Routing.                                                                 *)

\* bucket < percentage, with the 0% and 100% shortcuts in front of the hash.
TakesCandidate(bucket, c) == Share(c) >= 100 \/ bucket < Share(c)

\* Route, first half: the configuration is copied under cr.mu.
ReadConfig(r) ==
  /\ req[r].pc = "idle"
  /\ metrics.total < MaxCandidates
  /\ req' = [req EXCEPT ![r] = [IdleRequest EXCEPT !.pc = "read", !.seen = config]]
  /\ UNCHANGED <<config, breaker, metrics, admin, rewritten>>

(* Route, second half: the breaker's state is read under its own lock and   *)
(* overrides the copy; a legacy route changes nothing the router keeps.     *)
ChooseRoute(r) ==
  /\ req[r].pc = "read"
  /\ req' = [req EXCEPT ![r] = IF ~RolledBack /\ TakesCandidate(Bucket[r], req[r].seen)
                               THEN [@ EXCEPT !.pc = "chosen"] ELSE IdleRequest]
  /\ UNCHANGED <<config, breaker, metrics, admin, rewritten>>

\* A pre-rule has already decided the transaction: its route is not used.
SkipCandidate(r) ==
  /\ req[r].pc = "chosen"
  /\ req' = [req EXCEPT ![r] = IdleRequest]
  /\ UNCHANGED <<config, breaker, metrics, admin, rewritten>>

\* RecordCandidateRequest, just before the candidate model is called.
StartCandidate(r) ==
  /\ req[r].pc = "chosen"
  /\ metrics.total < MaxCandidates
  /\ metrics' = [metrics EXCEPT !.total = @ + 1]
  /\ req' = [req EXCEPT ![r].pc = "scoring"]
  /\ UNCHANGED <<config, breaker, admin, rewritten>>

\* RecordCandidateSuccess or RecordCandidateFallback, up to their breaker check.
Answer(r, ok) ==
  /\ req[r].pc = "scoring"
  /\ metrics' = IF ok THEN [metrics EXCEPT !.success = @ + 1]
                      ELSE [metrics EXCEPT !.errors = @ + 1]
  /\ req' = [req EXCEPT ![r].pc = "answered"]
  /\ UNCHANGED <<config, breaker, admin, rewritten>>

-----------------------------------------------------------------------------
(* checkCircuitBreaker: snapshot, judge, and only then take cr.mu again.    *)

\* Candidate latency is not modelled: it may or may not exceed its limit.
Judgements(m) ==
  IF m.total < MinSampleCount THEN {"TOO_FEW"}
  ELSE IF m.errors * ErrorLimit > m.total THEN {"BREACHED"}
  ELSE {"BREACHED", "CLEAN"}

TakeSnapshot(r) ==
  /\ req[r].pc = "answered"
  /\ \E v \in Judgements(metrics) :
       req' = [req EXCEPT ![r] = [@ EXCEPT !.pc = "judging", !.verdict = v]]
  /\ UNCHANGED <<config, breaker, metrics, admin, rewritten>>

\* Mutant: the caller that tripped the breaker does not notice.
JudgeUnnoticed(r) ==
  /\ req[r].pc = "judging"
  /\ breaker' = Evaluated(breaker, req[r].verdict)
  /\ req' = [req EXCEPT ![r] = IdleRequest]
  /\ rewritten' = (rewritten /\ ~Trips(breaker, req[r].verdict))
  /\ UNCHANGED <<config, metrics, admin>>

\* EvaluateAndCheckTrip; the caller that tripped the breaker goes on to zero the traffic.
Judge(r) ==
  LET trips == Trips(breaker, req[r].verdict)
  IN /\ req[r].pc = "judging"
     /\ breaker' = Evaluated(breaker, req[r].verdict)
     /\ req' = [req EXCEPT ![r] = IF trips THEN [@ EXCEPT !.pc = "zeroing"] ELSE IdleRequest]
     /\ rewritten' = IF trips THEN FALSE ELSE rewritten
     /\ UNCHANGED <<config, metrics, admin>>

\* Mutant: the rollback never reaches the configuration.
ZeroTrafficForgotten(r) ==
  /\ req[r].pc = "zeroing"
  /\ req' = [req EXCEPT ![r] = IdleRequest]
  /\ UNCHANGED <<config, breaker, metrics, admin, rewritten>>

ZeroTraffic(r) ==
  /\ req[r].pc = "zeroing"
  /\ config' = LegacyOnly
  /\ req' = [req EXCEPT ![r] = IdleRequest]
  /\ UNCHANGED <<breaker, metrics, admin, rewritten>>

\* The cooldown that started at the last trip runs out.
CoolDown ==
  /\ InCooldown(breaker)
  /\ breaker' = CooledDown(breaker)
  /\ UNCHANGED <<config, metrics, req, admin, rewritten>>

-----------------------------------------------------------------------------
(* POST /v1/canary/control, and UpdateConfig behind it.                     *)

(* X-Admin-User names the actor, "admin_api_user" if it is missing: any     *)
(* other name is an "admin_" one or not (adminActor). The handler asks for  *)
(* "override" or "reset" in the reason before it raises the traffic of a    *)
(* breaker that has rolled back.                                            *)
Confirm(a, enabled, pct, adminActor, override) ==
  /\ admin[a].pc = "idle"
  /\ enabled /\ pct > 0 /\ RolledBack => override
  /\ admin' = [admin EXCEPT ![a] = [pc |-> "confirmed", enabled |-> enabled, pct |-> pct,
                                    resets |-> ResetsBreaker(pct, adminActor),
                                    overrides |-> enabled /\ pct > 0 /\ RolledBack]]
  /\ UNCHANGED <<config, breaker, metrics, req, rewritten>>

WriteConfig(a) ==
  /\ admin[a].pc = "confirmed"
  /\ config' = Configured(admin[a].enabled, admin[a].pct)
  /\ rewritten' = TRUE
  /\ admin' = [admin EXCEPT ![a] = IF @.resets THEN [@ EXCEPT !.pc = "written"] ELSE IdleAdmin]
  /\ UNCHANGED <<breaker, metrics, req>>

ResetAfterWrite(a) ==
  /\ admin[a].pc = "written"
  /\ breaker' = ResetBreaker(breaker)
  /\ admin' = [admin EXCEPT ![a] = IdleAdmin]
  /\ UNCHANGED <<config, metrics, req, rewritten>>

-----------------------------------------------------------------------------

RequestStep(r) ==
  \/ ReadConfig(r)
  \/ ChooseRoute(r)
  \/ SkipCandidate(r)
  \/ StartCandidate(r)
  \/ \E ok \in BOOLEAN : Answer(r, ok)
  \/ TakeSnapshot(r)
  \/ Judge(r)
  \/ ZeroTraffic(r)

AdminStep(a) ==
  \/ \E enabled, adminActor, override \in BOOLEAN, pct \in Percentages :
       Confirm(a, enabled, pct, adminActor, override)
  \/ WriteConfig(a)
  \/ ResetAfterWrite(a)

RouterNext ==
  \/ \E r \in Requests : RequestStep(r)
  \/ \E a \in Admins : AdminStep(a)
  \/ CoolDown

(* A goroutine that started runs on: a scoring call is bounded by the HTTP  *)
(* client's timeout, no lock is held across another. Nobody has to send a   *)
(* request or to call the endpoint.                                         *)
RouterFairness ==
  /\ \A r \in Requests :
       /\ WF_routerVars(ChooseRoute(r))
       /\ WF_routerVars(\E ok \in BOOLEAN : Answer(r, ok))
       /\ WF_routerVars(TakeSnapshot(r))
       /\ WF_routerVars(Judge(r))
       /\ WF_routerVars(ZeroTraffic(r))
  /\ \A a \in Admins : WF_routerVars(WriteConfig(a)) /\ WF_routerVars(ResetAfterWrite(a))

RouterSpec == RouterInit /\ [][RouterNext]_routerVars /\ RouterFairness

-----------------------------------------------------------------------------
(* Properties.                                                              *)

BreakerConsistent == Consistent(breaker)

(* A trip is not lost between the two locks: while the breaker is rolled    *)
(* back, either the request that tripped it is still about to zero the      *)
(* traffic, or the configuration is at 0% and disabled, or an UpdateConfig  *)
(* that came after the trip decided otherwise.                              *)
TripZeroesTraffic ==
  RolledBack => \/ rewritten
                \/ config = LegacyOnly
                \/ \E r \in Requests : req[r].pc = "zeroing"

(* Every candidate request counted in the breaker's denominator is still    *)
(* being scored or ends up in exactly one numerator: the error rate is      *)
(* never computed over requests that were lost or counted twice.            *)
MetricsBalance ==
  LET scoring == {r \in Requests : req[r].pc = "scoring"}
  IN metrics.total = metrics.success + metrics.errors + Cardinality(scoring)

\* Requests that have a candidate route and may still reach the breaker.
InFlight == {r \in Requests : req[r].pc \in {"chosen", "scoring", "answered", "judging"}}

(* A rolled-back breaker starves itself: no request gets a candidate route, *)
(* and only candidate requests evaluate it. Once those in flight are gone   *)
(* the end of the cooldown changes nothing, and traffic comes back only     *)
(* through a Reset.                                                         *)
DrainedStaysTripped ==
  [][RolledBack /\ InFlight = {} =>
       \/ RolledBack' /\ InFlight' = {}
       \/ \E a \in Admins : admin[a].pc = "written"]_routerVars

(* The rollback reaches the traffic: after a trip the candidate's share     *)
(* becomes 0 unless somebody rewrites the configuration or resets the       *)
(* breaker first.                                                           *)
TripReachesTraffic == RolledBack ~> (Share(config) = 0 \/ rewritten \/ ~RolledBack)

(* A rollback holds: it reaches the traffic, it is taken back only on       *)
(* purpose, and the counters it is decided on add up.                       *)
RollbackHolds ==
  []RouterTypeOK /\ []MetricsBalance /\ DrainedStaysTripped /\ TripReachesTraffic

=============================================================================
