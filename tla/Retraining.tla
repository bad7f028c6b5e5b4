------------------------------ MODULE Retraining ------------------------------
(***************************************************************************)
(* The retraining coordinator (riskengine/retraining_coordinator.go) with   *)
(* its trigger engine, training runner, model registry and canary router:   *)
(*                                                                          *)
(*   - one goroutine per job, executeJobPipeline, from the trigger to the   *)
(*     candidate that awaits approval;                                      *)
(*   - one goroutine per rollout, executeCanaryRollout, which raises the    *)
(*     canary stage by stage and ends in a promotion or a rollback;         *)
(*   - operators that trigger, cancel, approve and reject, and that switch  *)
(*     the operational controls;                                            *)
(*   - the scoring traffic that feeds the circuit breaker.                  *)
(*                                                                          *)
(* The coordinator's lock is held over one state change at a time, never    *)
(* over a handler or a goroutine, so a step below is one critical section.  *)
(* Nothing ties a goroutine to the job that holds the coordinator: a        *)
(* goroutine whose job was cancelled runs on.                               *)
(***************************************************************************)
EXTENDS CircuitBreaker, ModelRegistry, JobLifecycle, Sequences, FiniteSets

CONSTANTS
  MaxJobs,     \* bound on the jobs triggered in a run
  MaxToggles,  \* bound on the changes of the controls and of the canary by hand
  Operators,   \* operator and drift-detector calls that may be under way at once
  Stages,      \* canary percentages of a rollout, in order
  AutoApproveCanary \* config.AutoApproveCanary: no operator has to approve a candidate

Jobs == 1 .. MaxJobs
NoJob == 0

ASSUME RetrainingAssumption ==
  /\ MaxJobs \in Nat
  /\ MaxToggles \in Nat
  /\ Candidates \subseteq Nat \ {0}
  /\ AutoApproveCanary \in BOOLEAN
  /\ Stages \in Seq(1 .. 100) /\ Stages # <<>>

VARIABLES
  jobState,    \* c.currentState
  activeJob,   \* c.activeJob
  engineJob,   \* triggerEngine.activeJobID
  lastJob,     \* jobs are numbered as they are created
  candidates,  \* the keys of c.candidates
  controls,    \* the operational controls that are switched on
  pipeline,    \* the control point and the locals of each job's goroutine
  runner,      \* the state of the training runner's job
  rollout,     \* the control point and the arguments of each rollout goroutine
  operator,    \* the control point and the arguments of each operator call
  registry,
  traffic,     \* canaryRouter.config
  byHand,      \* history: an operator, not a rollout, wrote it last
  breaker,
  scorer,      \* a scoring request on the candidate's route
  toggles      \* changes by hand so far

coordinatorVars == <<jobState, activeJob, engineJob, lastJob>>
goroutineVars == <<pipeline, runner, rollout>>
canaryVars == <<traffic, byHand, breaker, scorer>>
controlVars == <<controls, toggles>>

vars == <<coordinatorVars, candidates, controlVars, goroutineVars, operator, registry,
          canaryVars>>

PromotionBlocked == controls \cap {"MAINTENANCE", "FROZEN"} # {}
RolloutPaused == controls \cap {"MAINTENANCE", "FROZEN", "CANARY_PAUSED"} # {}
TriggersBlocked == controls \cap {"MAINTENANCE", "RETRAINING_PAUSED"} # {}

PipelinePCs ==
  {"none", "toQueued", "toTraining", "starting", "training", "publishing", "listing",
   "toValidating", "validating", "toShadow", "shadow", "toAwaiting", "marking", "rejecting",
   "failing", "done"}

NoVersion == 0

PipelineRecord ==
  [pc : PipelinePCs, version : Candidates \cup {NoVersion}, admin : BOOLEAN]

NoPipeline == [pc |-> "none", version |-> NoVersion, admin |-> FALSE]

RunnerStates == {"none", "running", "succeeded", "failed", "cancelled"}

RolloutPCs ==
  {"none", "entering", "announcing", "gate", "raising", "observing", "promoting", "rolling",
   "failing", "done"}

RolloutRecord ==
  [pc : RolloutPCs, stage : 1 .. Len(Stages), cand : Candidates \cup {NoVersion}, admin : BOOLEAN]

NoRollout == [pc |-> "none", stage |-> 1, cand |-> NoVersion, admin |-> FALSE]

OperatorPCs == {"idle", "asking", "triggering", "cancelling", "cancelled", "rejecting"}

OperatorRecord ==
  [pc : OperatorPCs, job : 0 .. MaxJobs, cand : Candidates \cup {NoVersion}, admin : BOOLEAN]

IdleOperator == [pc |-> "idle", job |-> NoJob, cand |-> NoVersion, admin |-> FALSE]

TypeOK ==
  /\ jobState \in JobStates
  /\ activeJob \in 0 .. MaxJobs
  /\ engineJob \in 0 .. MaxJobs
  /\ lastJob \in 0 .. MaxJobs
  /\ candidates \subseteq Candidates
  /\ controls \subseteq Controls
  /\ pipeline \in [Jobs -> PipelineRecord]
  /\ runner \in [Jobs -> RunnerStates]
  /\ rollout \in [Jobs -> RolloutRecord]
  /\ operator \in [Operators -> OperatorRecord]
  /\ registry \in Registries
  /\ traffic \in Configs
  /\ byHand \in BOOLEAN
  /\ breaker \in Breaker
  /\ scorer \in {"idle", "scoring", "zeroing"}
  /\ toggles \in 0 .. MaxToggles

Init ==
  /\ jobState = "IDLE" /\ activeJob = NoJob /\ engineJob = NoJob /\ lastJob = 0
  /\ candidates = {}
  /\ controls = {} /\ toggles = 0
  /\ pipeline = [j \in Jobs |-> NoPipeline]
  /\ runner = [j \in Jobs |-> "none"]
  /\ rollout = [k \in Jobs |-> NoRollout]
  /\ operator = [o \in Operators |-> IdleOperator]
  /\ registry = NewRegistry
  /\ traffic = LegacyOnly /\ byHand = FALSE /\ breaker = NewBreaker /\ scorer = "idle"

-----------------------------------------------------------------------------
(* Building blocks: what the coordinator does under its lock.               *)

\* Mutant: the trigger engine is not told that the job is over.
EndJobQuietly(newState) ==
  /\ jobState' = newState
  /\ activeJob' = NoJob
  /\ UNCHANGED <<engineJob, lastJob>>

(* The common end of promoteCandidate, rollbackCandidate, rejectCandidate   *)
(* and failJob. It gives up the job that is active, whichever the caller    *)
(* was working for.                                                         *)
EndJob(newState) ==
  /\ jobState' = newState
  /\ activeJob' = NoJob
  /\ engineJob' = NoJob
  /\ UNCHANGED lastJob

(* UpdateConfig(pct > 0, pct, ...). Its write and its reset are one step    *)
(* here: nothing in between reads both (module CanaryRouter splits them).   *)
SetTraffic(pct, adminActor) ==
  /\ traffic' = Configured(pct > 0, pct)
  /\ breaker' = IF ResetsBreaker(pct, adminActor) THEN ResetBreaker(breaker) ELSE breaker

(* A goroutine moves on to another control point, or ends and forgets its   *)
(* locals.                                                                  *)
PipelineAt(j, pc) == pipeline' = [pipeline EXCEPT ![j] = [@ EXCEPT !.pc = pc]]
PipelineEnds(j) == pipeline' = [pipeline EXCEPT ![j] = [NoPipeline EXCEPT !.pc = "done"]]

RolloutAt(k, pc) == rollout' = [rollout EXCEPT ![k] = [@ EXCEPT !.pc = pc]]
RolloutEnds(k) == rollout' = [rollout EXCEPT ![k] = [NoRollout EXCEPT !.pc = "done"]]

OperatorReturns(o) == operator' = [operator EXCEPT ![o] = IdleOperator]

\* A new goroutine for a rollout; the goroutines are numbered as they start.
StartRollout(cand, adminActor) ==
  \E k \in Jobs :
    /\ rollout[k].pc = "none" /\ \A l \in 1 .. k - 1 : rollout[l].pc # "none"
    /\ rollout' = [rollout EXCEPT ![k] =
                     [pc |-> "entering", stage |-> 1, cand |-> cand, admin |-> adminActor]]

-----------------------------------------------------------------------------
(* Triggers.                                                                *)

(* A trigger is three steps, none of which holds what it read: the          *)
(* breaker's state, the trigger engine's active job, and createAndStartJob. *)
(* Who triggered a job only matters to a rollout that the job's own         *)
(* goroutine starts.                                                        *)

\* TriggerManual.
TriggerManual(o, adminActor) ==
  /\ operator[o].pc = "idle"
  /\ breaker.state = "HEALTHY"
  /\ operator' = [operator EXCEPT ![o] =
                    [@ EXCEPT !.pc = "asking", !.admin = adminActor /\ AutoApproveCanary]]
  /\ UNCHANGED <<coordinatorVars, candidates, controlVars, goroutineVars, registry, canaryVars>>

(* OnDriftEvaluated. The controls are read a moment before the breaker, but *)
(* a manual trigger, which skips them, covers what may happen in between.   *)
DriftDetected(o) ==
  /\ operator[o].pc = "idle"
  /\ ~TriggersBlocked
  /\ breaker.state = "HEALTHY"
  /\ operator' = [operator EXCEPT ![o] = [@ EXCEPT !.pc = "asking", !.admin = FALSE]]
  /\ UNCHANGED <<coordinatorVars, candidates, controlVars, goroutineVars, registry, canaryVars>>

(* CanTriggerManual, or EvaluateDrift of a measurement that satisfies the   *)
(* sample quorum, the cooldown and the consecutive windows.                 *)
AskEngine(o) ==
  /\ operator[o].pc = "asking"
  /\ IF engineJob = NoJob
       THEN operator' = [operator EXCEPT ![o] = [@ EXCEPT !.pc = "triggering"]]
       ELSE OperatorReturns(o)
  /\ UNCHANGED <<coordinatorVars, candidates, controlVars, goroutineVars, registry, canaryVars>>

MayCreate == ~TriggersBlocked /\ activeJob = NoJob /\ jobState \in Startable

\* The new job takes over the coordinator and gets its goroutine.
TakeJob(o) ==
  /\ operator[o].pc = "triggering"
  /\ lastJob < MaxJobs
  /\ lastJob' = lastJob + 1
  /\ jobState' = "TRIGGERED"
  /\ activeJob' = lastJob'
  /\ engineJob' = lastJob'
  /\ pipeline' = [pipeline EXCEPT ![lastJob'] =
                    [NoPipeline EXCEPT !.pc = "toQueued", !.admin = operator[o].admin]]
  /\ OperatorReturns(o)
  /\ UNCHANGED <<candidates, controlVars, runner, rollout, registry, canaryVars>>

\* Mutant: what the trigger checked before it took the lock is not checked again.
CreateUnchecked(o) == ~TriggersBlocked /\ TakeJob(o)

\* createAndStartJob.
CreateJob(o) == MayCreate /\ TakeJob(o)

CreateRefused(o) ==
  /\ operator[o].pc = "triggering"
  /\ ~MayCreate
  /\ OperatorReturns(o)
  /\ UNCHANGED <<coordinatorVars, candidates, controlVars, goroutineVars, registry, canaryVars>>

-----------------------------------------------------------------------------
(* executeJobPipeline.                                                      *)

\* The transitions of the pipeline: control point, target state, next control point.
Transitions ==
  {<<"toQueued", "QUEUED", "toTraining">>,
   <<"toTraining", "TRAINING", "starting">>,
   <<"toValidating", "VALIDATING", "validating">>,
   <<"toShadow", "SHADOW_EVALUATION", "shadow">>,
   <<"toAwaiting", "AWAITING_APPROVAL", "marking">>}

(* transitionJobState: legal or not depends on the coordinator's state      *)
(* alone, not on whose job set it; a refusal leads to failJob.              *)
Advance(j) ==
  \E t \in Transitions :
    /\ pipeline[j].pc = t[1]
    /\ IF CanTransition(jobState, t[2])
         THEN jobState' = t[2] /\ PipelineAt(j, t[3])
         ELSE UNCHANGED jobState /\ PipelineAt(j, "failing")
    /\ UNCHANGED <<activeJob, engineJob, lastJob, candidates, controlVars, runner, rollout,
                   operator, registry, canaryVars>>

(* A version is the second in which training starts: a new one, or the one  *)
(* of the training that started just before. Only versions that are still   *)
(* in use are told apart.                                                   *)
UsedVersions == {v \in Candidates : Known(registry, v) \/ \E j \in Jobs : pipeline[j].version = v}

FreshVersions ==
  {v \in Candidates : /\ \A u \in UsedVersions : u <= v
                      /\ v \in UsedVersions \/ v - 1 \in UsedVersions \cup {NoVersion}}

\* StartTraining; the checks of the dataset may refuse to start at all.
StartTraining(j) ==
  /\ pipeline[j].pc = "starting"
  /\ \/ \E v \in FreshVersions :
          /\ pipeline' = [pipeline EXCEPT ![j] = [@ EXCEPT !.pc = "training", !.version = v]]
          /\ runner' = [runner EXCEPT ![j] = "running"]
     \/ /\ PipelineAt(j, "failing")
        /\ UNCHANGED runner
  /\ UNCHANGED <<coordinatorVars, candidates, controlVars, rollout, operator, registry,
                 canaryVars>>

\* executeProcess ends, by itself or at its timeout; a cancelled one stays cancelled.
RunnerEnds(j) ==
  /\ runner[j] = "running"
  /\ \E outcome \in {"succeeded", "failed"} : runner' = [runner EXCEPT ![j] = outcome]
  /\ UNCHANGED <<coordinatorVars, candidates, controlVars, pipeline, rollout, operator, registry,
                 canaryVars>>

\* The polling loop sees that training is over, and nobody asks the runner again.
PollTraining(j) ==
  /\ pipeline[j].pc = "training"
  /\ runner[j] # "running"
  /\ PipelineAt(j, IF runner[j] = "succeeded" THEN "publishing" ELSE "failing")
  /\ runner' = [runner EXCEPT ![j] = "none"]
  /\ UNCHANGED <<coordinatorVars, candidates, controlVars, rollout, operator, registry,
                 canaryVars>>

\* RegisterCandidate, whose error is ignored.
PublishCandidate(j) ==
  /\ pipeline[j].pc = "publishing"
  /\ registry' = WithCandidate(registry, pipeline[j].version)
  /\ PipelineAt(j, "listing")
  /\ UNCHANGED <<coordinatorVars, candidates, controlVars, runner, rollout, operator, canaryVars>>

\* The coordinator's own map, in which operators find the candidate.
ListCandidate(j) ==
  /\ pipeline[j].pc = "listing"
  /\ candidates' = candidates \cup {pipeline[j].version}
  /\ PipelineAt(j, "toValidating")
  /\ UNCHANGED <<coordinatorVars, controlVars, runner, rollout, operator, registry, canaryVars>>

\* A gate the candidate fails: the registry is told, then rejectCandidate called.
FailGate(j) ==
  /\ pipeline[j].pc \in {"validating", "shadow"}
  /\ registry' = WithLifecycle(registry, pipeline[j].version, "REJECTED")
  /\ PipelineAt(j, "rejecting")
  /\ UNCHANGED <<coordinatorVars, candidates, controlVars, runner, rollout, operator, canaryVars>>

PassValidation(j) ==
  /\ pipeline[j].pc = "validating"
  /\ registry' = WithLifecycle(registry, pipeline[j].version, "VALIDATED")
  /\ PipelineAt(j, "toShadow")
  /\ UNCHANGED <<coordinatorVars, candidates, controlVars, runner, rollout, operator, canaryVars>>

(* evaluateShadowGates, and the branch on AutoApproveCanary behind it: the  *)
(* goroutine goes on as a rollout, or to wait for an operator.              *)
PassShadow(j) ==
  /\ pipeline[j].pc = "shadow"
  /\ registry' = WithLifecycle(registry, pipeline[j].version, "SHADOW")
  /\ IF AutoApproveCanary
       THEN StartRollout(pipeline[j].version, pipeline[j].admin) /\ PipelineEnds(j)
       ELSE PipelineAt(j, "toAwaiting") /\ UNCHANGED rollout
  /\ UNCHANGED <<coordinatorVars, candidates, controlVars, runner, operator, canaryVars>>

\* The registry hears of the pending approval after the operators can see it.
MarkApproved(j) ==
  /\ pipeline[j].pc = "marking"
  /\ registry' = WithLifecycle(registry, pipeline[j].version, "APPROVED")
  /\ PipelineEnds(j)
  /\ UNCHANGED <<coordinatorVars, candidates, controlVars, runner, rollout, operator, canaryVars>>

\* rejectCandidate, of a candidate that failed a gate.
RejectByGate(j) ==
  /\ pipeline[j].pc = "rejecting"
  /\ EndJob("REJECTED")
  /\ registry' = WithLifecycle(registry, pipeline[j].version, "REJECTED")
  /\ PipelineEnds(j)
  /\ UNCHANGED <<candidates, controlVars, runner, rollout, operator, canaryVars>>

\* Mutant: the pipeline returns without calling failJob.
FailPipelineQuietly(j) ==
  /\ pipeline[j].pc = "failing"
  /\ PipelineEnds(j)
  /\ UNCHANGED <<coordinatorVars, candidates, controlVars, runner, rollout, operator, registry,
                 canaryVars>>

\* failJob, called by the pipeline.
FailPipeline(j) ==
  /\ pipeline[j].pc = "failing"
  /\ EndJob("FAILED")
  /\ PipelineEnds(j)
  /\ UNCHANGED <<candidates, controlVars, runner, rollout, operator, registry, canaryVars>>

PipelineStep(j) ==
  \/ Advance(j)
  \/ StartTraining(j)
  \/ PollTraining(j)
  \/ PublishCandidate(j)
  \/ ListCandidate(j)
  \/ FailGate(j)
  \/ PassValidation(j)
  \/ PassShadow(j)
  \/ MarkApproved(j)
  \/ RejectByGate(j)
  \/ FailPipeline(j)

-----------------------------------------------------------------------------
(* executeCanaryRollout.                                                    *)

(* A rollout that was approved finds the state already at CANARY; one that  *)
(* was not has to be allowed to move there.                                 *)
EnterRollout(k) ==
  /\ rollout[k].pc = "entering"
  /\ IF jobState = "CANARY" \/ CanTransition(jobState, "CANARY")
       THEN jobState' = "CANARY" /\ RolloutAt(k, "announcing")
       ELSE UNCHANGED jobState /\ RolloutAt(k, "failing")
  /\ UNCHANGED <<activeJob, engineJob, lastJob, candidates, controlVars, pipeline, runner,
                 operator, registry, canaryVars>>

\* The registry hears of it after the lock is free again.
AnnounceRollout(k) ==
  /\ rollout[k].pc = "announcing"
  /\ registry' = WithLifecycle(registry, rollout[k].cand, "CANARY")
  /\ RolloutAt(k, "gate")
  /\ UNCHANGED <<coordinatorVars, candidates, controlVars, pipeline, runner, operator,
                 canaryVars>>

\* Mutant: a paused rollout does not wait.
PassControlsUnchecked(k) ==
  /\ rollout[k].pc = "gate"
  /\ RolloutAt(k, "raising")
  /\ UNCHANGED <<coordinatorVars, candidates, controlVars, pipeline, runner, operator, registry,
                 canaryVars>>

(* The controls are read before each stage, in a loop while one of them     *)
(* pauses the rollout. The coordinator's own state is not read again.       *)
PassControls(k) ==
  /\ rollout[k].pc = "gate"
  /\ ~RolloutPaused
  /\ RolloutAt(k, "raising")
  /\ UNCHANGED <<coordinatorVars, candidates, controlVars, pipeline, runner, operator, registry,
                 canaryVars>>

RaiseTraffic(k) ==
  /\ rollout[k].pc = "raising"
  /\ SetTraffic(Stages[rollout[k].stage], rollout[k].admin) /\ byHand' = FALSE
  /\ RolloutAt(k, "observing")
  /\ UNCHANGED <<coordinatorVars, candidates, controlVars, pipeline, runner, operator, registry,
                 scorer>>

\* The end of the observation window: one look at the breaker decides.
ObserveStage(k) ==
  /\ rollout[k].pc = "observing"
  /\ \/ breaker.state # "HEALTHY" /\ RolloutAt(k, "rolling")
     \/ /\ breaker.state = "HEALTHY" /\ rollout[k].stage < Len(Stages)
        /\ rollout' = [rollout EXCEPT ![k] =
                          [@ EXCEPT !.pc = "gate", !.stage = rollout[k].stage + 1]]
     \/ /\ breaker.state = "HEALTHY" /\ rollout[k].stage = Len(Stages)
        /\ RolloutAt(k, "promoting")
  /\ UNCHANGED <<coordinatorVars, candidates, controlVars, pipeline, runner, operator, registry,
                 canaryVars>>

\* Mutant: the promotion forgets to take the traffic off the canary.
PromoteKeepingTraffic(k) ==
  /\ rollout[k].pc = "promoting"
  /\ EndJob("PROMOTED")
  /\ registry' = WithPromoted(registry, rollout[k].cand)
  /\ RolloutEnds(k)
  /\ UNCHANGED <<candidates, controlVars, pipeline, runner, operator, canaryVars>>

(* promoteCandidate. Of all it could ask of the coordinator's state, it     *)
(* asks for the controls only.                                              *)
PromoteCandidate(k) ==
  /\ rollout[k].pc = "promoting"
  /\ ~PromotionBlocked
  /\ EndJob("PROMOTED")
  /\ SetTraffic(0, rollout[k].admin) /\ byHand' = FALSE
  /\ registry' = WithPromoted(registry, rollout[k].cand)
  /\ RolloutEnds(k)
  /\ UNCHANGED <<candidates, controlVars, pipeline, runner, operator, scorer>>

\* Mutant: a blocked promotion just returns.
PromotionBlockedReturns(k) ==
  /\ rollout[k].pc = "promoting"
  /\ PromotionBlocked
  /\ RolloutEnds(k)
  /\ UNCHANGED <<coordinatorVars, candidates, controlVars, pipeline, runner, operator, registry,
                 canaryVars>>

\* A blocked promotion becomes a rollback.
PromotionRefused(k) ==
  /\ rollout[k].pc = "promoting"
  /\ PromotionBlocked
  /\ RolloutAt(k, "rolling")
  /\ UNCHANGED <<coordinatorVars, candidates, controlVars, pipeline, runner, operator, registry,
                 canaryVars>>

\* rollbackCandidate.
RollbackCandidate(k) ==
  /\ rollout[k].pc = "rolling"
  /\ EndJob("ROLLED_BACK")
  /\ SetTraffic(0, rollout[k].admin) /\ byHand' = FALSE
  /\ registry' = WithRolledBack(registry, rollout[k].cand)
  /\ RolloutEnds(k)
  /\ UNCHANGED <<candidates, controlVars, pipeline, runner, operator, scorer>>

\* failJob, called by a rollout that was not allowed to start.
FailRollout(k) ==
  /\ rollout[k].pc = "failing"
  /\ EndJob("FAILED")
  /\ RolloutEnds(k)
  /\ UNCHANGED <<candidates, controlVars, pipeline, runner, operator, registry, canaryVars>>

RolloutStep(k) ==
  \/ EnterRollout(k)
  \/ AnnounceRollout(k)
  \/ PassControls(k)
  \/ RaiseTraffic(k)
  \/ ObserveStage(k)
  \/ PromoteCandidate(k)
  \/ PromotionRefused(k)
  \/ RollbackCandidate(k)
  \/ FailRollout(k)

-----------------------------------------------------------------------------
(* Operators.                                                               *)

\* ApproveCandidate: any candidate of the map will do, whatever became of it.
ApproveCandidate(v, adminActor) ==
  /\ jobState = "AWAITING_APPROVAL"
  /\ v \in candidates
  /\ jobState' = "CANARY"
  /\ StartRollout(v, adminActor)
  /\ UNCHANGED <<activeJob, engineJob, lastJob, candidates, controlVars, pipeline, runner,
                 operator, registry, canaryVars>>

\* RejectCandidate checks the state and lets go of the lock ...
BeginReject(o, v) ==
  /\ operator[o].pc = "idle"
  /\ jobState = "AWAITING_APPROVAL"
  /\ v \in candidates
  /\ operator' = [operator EXCEPT ![o] = [@ EXCEPT !.pc = "rejecting", !.cand = v]]
  /\ UNCHANGED <<coordinatorVars, candidates, controlVars, goroutineVars, registry, canaryVars>>

\* ... before rejectCandidate takes it again and checks nothing.
FinishReject(o) ==
  /\ operator[o].pc = "rejecting"
  /\ EndJob("REJECTED")
  /\ registry' = WithLifecycle(registry, operator[o].cand, "REJECTED")
  /\ OperatorReturns(o)
  /\ UNCHANGED <<candidates, controlVars, goroutineVars, canaryVars>>

\* CancelJob finds the job active and lets go of the lock,
BeginCancel(o) ==
  /\ operator[o].pc = "idle"
  /\ activeJob # NoJob
  /\ operator' = [operator EXCEPT ![o] = [@ EXCEPT !.pc = "cancelling", !.job = activeJob]]
  /\ UNCHANGED <<coordinatorVars, candidates, controlVars, goroutineVars, registry, canaryVars>>

\* cancels its training, which also overwrites a result that is already there,
CancelTraining(o) ==
  LET j == operator[o].job
  IN /\ operator[o].pc = "cancelling"
     /\ runner' = IF runner[j] = "none" THEN runner ELSE [runner EXCEPT ![j] = "cancelled"]
     /\ operator' = [operator EXCEPT ![o] = [@ EXCEPT !.pc = "cancelled"]]
     /\ UNCHANGED <<coordinatorVars, candidates, controlVars, pipeline, rollout, registry,
                    canaryVars>>

\* and fails whatever the coordinator is doing by then.
FinishCancel(o) ==
  /\ operator[o].pc = "cancelled"
  /\ EndJob("FAILED")
  /\ OperatorReturns(o)
  /\ UNCHANGED <<candidates, controlVars, goroutineVars, registry, canaryVars>>

\* SetMaintenanceMode, SetModelFrozen, SetRetrainingPaused and SetCanaryPaused.
SetControl(c, on) ==
  /\ toggles < MaxToggles
  /\ toggles' = toggles + 1
  /\ controls' = IF on THEN controls \cup {c} ELSE controls \ {c}
  /\ UNCHANGED <<coordinatorVars, candidates, goroutineVars, operator, registry, canaryVars>>

(* POST /v1/canary/control: the canary is set by hand, whatever rollout is  *)
(* under way (module CanaryRouter has the handler in detail).               *)
SetCanary(pct, adminActor) ==
  /\ toggles < MaxToggles
  /\ toggles' = toggles + 1
  /\ SetTraffic(pct, adminActor) /\ byHand' = TRUE
  /\ UNCHANGED <<coordinatorVars, candidates, controls, goroutineVars, operator, registry, scorer>>

OperatorFinishes(o) ==
  \/ AskEngine(o)
  \/ CreateJob(o)
  \/ CreateRefused(o)
  \/ FinishReject(o)
  \/ CancelTraining(o)
  \/ FinishCancel(o)

OperatorStep(o) ==
  \/ \E admin \in BOOLEAN : TriggerManual(o, admin)
  \/ DriftDetected(o)
  \/ \E v \in Candidates : BeginReject(o, v)
  \/ BeginCancel(o)
  \/ OperatorFinishes(o)

-----------------------------------------------------------------------------
(* Scoring traffic, reduced to what reaches the breaker: a request that has *)
(* the candidate's route is judged later and may trip the breaker, and then *)
(* zeroes the traffic under the router's lock.                              *)

ScoreCandidate ==
  /\ scorer = "idle"
  /\ Share(traffic) > 0 /\ breaker.state # "ROLLED_BACK"
  /\ scorer' = "scoring"
  /\ UNCHANGED <<coordinatorVars, candidates, controlVars, goroutineVars, operator, registry,
                 traffic, byHand, breaker>>

JudgeScore(v) ==
  /\ scorer = "scoring"
  /\ breaker' = Evaluated(breaker, v)
  /\ scorer' = IF Trips(breaker, v) THEN "zeroing" ELSE "idle"
  /\ UNCHANGED <<coordinatorVars, candidates, controlVars, goroutineVars, operator, registry,
                 traffic, byHand>>

ZeroTraffic ==
  /\ scorer = "zeroing"
  /\ traffic' = LegacyOnly
  /\ scorer' = "idle"
  /\ UNCHANGED <<coordinatorVars, candidates, controlVars, goroutineVars, operator, registry,
                 byHand, breaker>>

CoolDown ==
  /\ InCooldown(breaker)
  /\ breaker' = CooledDown(breaker)
  /\ UNCHANGED <<coordinatorVars, candidates, controlVars, goroutineVars, operator, registry,
                 traffic, byHand, scorer>>

TrafficStep ==
  \/ ScoreCandidate
  \/ \E v \in Verdicts : JudgeScore(v)
  \/ ZeroTraffic
  \/ CoolDown

-----------------------------------------------------------------------------

Next ==
  \/ \E j \in Jobs : PipelineStep(j) \/ RunnerEnds(j)
  \/ \E k \in Jobs : RolloutStep(k)
  \/ \E o \in Operators : OperatorStep(o)
  \/ \E v \in Candidates, admin \in BOOLEAN : ApproveCandidate(v, admin)
  \/ \E c \in Controls, on \in BOOLEAN : SetControl(c, on)
  \/ \E i \in DOMAIN Stages, adminActor \in BOOLEAN :
       SetCanary(Stages[i], adminActor) \/ SetCanary(0, adminActor)
  \/ TrafficStep

(* Goroutines and handlers that have started run on, and a training process *)
(* ends at its timeout at the latest. Nobody has to trigger, approve,       *)
(* switch a control back or send traffic.                                   *)
Fairness ==
  /\ \A j \in Jobs : WF_vars(PipelineStep(j)) /\ WF_vars(RunnerEnds(j))
  /\ \A k \in Jobs : WF_vars(RolloutStep(k))
  /\ \A o \in Operators : WF_vars(OperatorFinishes(o))

Spec == Init /\ [][Next]_vars /\ Fairness

-----------------------------------------------------------------------------
(* Properties.                                                              *)

(* The coordinator never wedges: a state that refuses new jobs has an       *)
(* active job an operator can cancel, a startable state has none, and the   *)
(* trigger engine's own notion of the active job is the same one. The three *)
(* are set by different functions and by goroutines of different jobs.      *)
SlotAgreement ==
  /\ activeJob = NoJob <=> jobState \in Startable
  /\ engineJob = activeJob

(* However promotions, rollbacks and rejections of different rollouts       *)
(* interleave, no model but the production model carries the production     *)
(* flag.                                                                    *)
ActiveIsProduction == registry.active \subseteq {registry.production}

\* Goroutines that will still set the traffic before they end.
Driving == {k \in Jobs : rollout[k].pc \in {"gate", "raising", "observing", "promoting", "rolling"}}

(* No orphaned canary: as long as a candidate gets traffic that no operator *)
(* set by hand, a rollout is running that will promote it or take the       *)
(* traffic away again - also after its job was cancelled, rejected or       *)
(* overtaken by another one.                                                *)
NoOrphanTraffic == Share(traffic) > 0 => byHand \/ Driving # {}

\* Rollouts that have passed the controls and are about to raise the traffic.
Raising == {k \in Jobs : rollout[k].pc = "raising"}

(* While a control that pauses rollouts stays on, the rollouts that can     *)
(* still raise the traffic are those that had passed it before: the pause   *)
(* is at most one stage late.                                               *)
PauseHolds == [][RolloutPaused /\ RolloutPaused' => Raising' \subseteq Raising]_vars

(* The coordinator as one job slot: taken only when free, by a job that     *)
(* never had it before, and the production model changes only in a step     *)
(* that leaves the slot free.                                               *)
Slot == INSTANCE JobSlot WITH
          slot <- activeJob, last <- lastJob, production <- registry.production,
          Models <- Versions, FirstModel <- Baseline

SlotSpec == Slot!Spec

(* A job in flight does not hang: whatever stale goroutines do to its       *)
(* state, it reaches the operator's decision, the canary, or an end.        *)
InFlight == {"TRIGGERED", "QUEUED", "TRAINING", "VALIDATING", "SHADOW_EVALUATION"}

InFlightEnds == jobState \in InFlight ~> jobState \notin InFlight

(* A canary that no control pauses and no operator sets by hand comes to an *)
(* end, and the candidate's traffic with it.                                *)
CanaryEnds == Share(traffic) > 0 ~> (Share(traffic) = 0 \/ RolloutPaused \/ byHand)
=============================================================================
