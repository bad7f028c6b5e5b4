------------------------------- MODULE Services -------------------------------
(***************************************************************************)
(* The components of the backend that share no state with each other. A     *)
(* behaviour runs one of them: focus is chosen at the start, and the others *)
(* stay in their initial state, so that one run of TLC checks them all      *)
(* without the product of their states.                                     *)
(***************************************************************************)
EXTENDS CanaryRouter, DistributedLock, DurableOutbox, TenantRateLimiter, DependencyBreaker, CaseReview,
        AuditChain, VerdictCache, ShadowScorer

VARIABLE focus

servicesVars ==
  <<focus, routerVars, lockVars, outboxVars, limiterVars, dependencyVars, caseVars, trailVars, verdictVars,
    shadowVars>>

Foci == {"canary", "local lock", "redis lock", "outbox", "limiter", "dependency", "cases", "audit chain",
         "verdicts", "shadow"}

ServicesInit ==
  /\ focus \in Foci
  /\ LockInit(IF focus = "redis lock" THEN "redis" ELSE "local")
  /\ RouterInit /\ OutboxInit /\ LimiterInit /\ DependencyInit /\ CaseInit
  /\ TrailInit /\ VerdictInit /\ ShadowInit

\* The steps of one component leave every other one alone.
Rests(c, v) == IF focus \in c THEN TRUE ELSE UNCHANGED v

ServicesNext ==
  /\ \/ focus = "canary" /\ RouterNext
     \/ focus \in {"local lock", "redis lock"} /\ LockNext
     \/ focus = "outbox" /\ OutboxNext
     \/ focus = "limiter" /\ LimiterNext
     \/ focus = "dependency" /\ DependencyNext
     \/ focus = "cases" /\ CaseNext
     \/ focus = "audit chain" /\ TrailNext
     \/ focus = "verdicts" /\ VerdictNext
     \/ focus = "shadow" /\ ShadowNext
  /\ UNCHANGED focus
  /\ Rests({"canary"}, routerVars)
  /\ Rests({"local lock", "redis lock"}, lockVars)
  /\ Rests({"outbox"}, outboxVars)
  /\ Rests({"limiter"}, limiterVars)
  /\ Rests({"dependency"}, dependencyVars)
  /\ Rests({"cases"}, caseVars)
  /\ Rests({"audit chain"}, trailVars)
  /\ Rests({"verdicts"}, verdictVars)
  /\ Rests({"shadow"}, shadowVars)

(* Fairness: requests are served to their end, an administrator's call      *)
(* returns, clocks tick, a call of a dependency returns and is followed by *)
(* another, the outbox has its goroutines, and a pod finishes with an event *)
(* it read.                                                                 *)
ServicesFairness ==
  /\ \A r \in Requests :
       /\ WF_routerVars(focus = "canary" /\ ChooseRoute(r))
       /\ WF_routerVars(focus = "canary" /\ \E ok \in BOOLEAN : Answer(r, ok))
       /\ WF_routerVars(focus = "canary" /\ TakeSnapshot(r))
       /\ WF_routerVars(focus = "canary" /\ Judge(r))
       /\ WF_routerVars(focus = "canary" /\ ZeroTraffic(r))
  /\ \A a \in Admins : WF_routerVars(focus = "canary" /\ (WriteConfig(a) \/ ResetAfterWrite(a)))
  /\ WF_lockVars(focus \in {"local lock", "redis lock"} /\ LockTick)
  /\ \A d \in Deliverers : WF_outboxVars(focus = "outbox" /\ WorkerStep(d))
  /\ WF_dependencyVars(focus = "dependency" /\ TimeOut)
  /\ WF_dependencyVars(focus = "dependency" /\ \E c \in Callers : BeginCall(c))
  /\ \A c \in Callers :
       WF_dependencyVars(focus = "dependency" /\ (CallFails(c) \/ CallSucceeds(c)))
  /\ \A c \in CaseConsumers : WF_caseVars(focus = "cases" /\ (InsertCase(c) \/ LoseEvent(c)))
  /\ \A a \in Appenders : WF_trailVars(focus = "audit chain" /\ (EnterAppend(a) \/ AppendDecision(a)))
  /\ \A s \in Auditors : WF_trailVars(focus = "audit chain" /\ (BeginVerify(s) \/ EndStatus(s)))
  /\ \A w \in ShadowWorkers : WF_shadowVars(focus = "shadow" /\ WorkerMoves(w))

ServicesSpec == ServicesInit /\ [][ServicesNext]_servicesVars /\ ServicesFairness
===============================================================================
