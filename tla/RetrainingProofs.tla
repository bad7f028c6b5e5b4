--------------------------- MODULE RetrainingProofs ---------------------------
(* What holds of the retraining coordinator for every number of jobs,       *)
(* operators and candidates, every sequence of canary stages and with or    *)
(* without AutoApproveCanary.                                               *)
EXTENDS Retraining, ReleaseLemmas, SequenceTheorems

-----------------------------------------------------------------------------
(* The goroutines and the handlers.                                         *)

\* Control points of a pipeline that has a candidate to work on.
WithVersion ==
  {"training", "publishing", "listing", "toValidating", "validating", "toShadow", "shadow",
   "toAwaiting", "marking", "rejecting"}

(* The locals of a goroutine are set whenever it is at a point that uses    *)
(* them; without it the registry could be asked to promote no model at all. *)
PipelineLocals ==
  \A j \in Jobs : pipeline[j].pc \in WithVersion => pipeline[j].version \in Candidates

RolloutLocals ==
  \A k \in Jobs : rollout[k].pc \notin {"none", "done"} => rollout[k].cand \in Candidates

OperatorLocals ==
  \A o \in Operators : operator[o].pc = "rejecting" => operator[o].cand \in Candidates

PipelineOK == pipeline \in [Jobs -> PipelineRecord] /\ PipelineLocals
RolloutOK == rollout \in [Jobs -> RolloutRecord] /\ RolloutLocals
OperatorOK == operator \in [Operators -> OperatorRecord] /\ OperatorLocals

LEMMA PipelineMoves ==
  ASSUME PipelineOK, NEW j \in Jobs, NEW pc \in PipelinePCs, PipelineAt(j, pc),
         pc \in WithVersion => pipeline[j].version \in Candidates
  PROVE  PipelineOK'
  <1>1. [pipeline[j] EXCEPT !.pc = pc] \in PipelineRecord
    BY DEF PipelineOK, PipelineRecord
  <1> QED BY <1>1 DEF PipelineOK, PipelineLocals, PipelineAt, PipelineRecord

LEMMA PipelineFinishes ==
  ASSUME PipelineOK, NEW j \in Jobs, PipelineEnds(j)
  PROVE  PipelineOK'
  <1>1. [NoPipeline EXCEPT !.pc = "done"] \in PipelineRecord
    BY DEF NoPipeline, PipelineRecord, PipelinePCs
  <1> QED BY <1>1 DEF PipelineOK, PipelineLocals, PipelineEnds, NoPipeline, WithVersion

LEMMA RolloutMoves ==
  ASSUME RolloutOK, NEW k \in Jobs, NEW pc \in RolloutPCs, RolloutAt(k, pc),
         rollout[k].pc \notin {"none", "done"}
  PROVE  RolloutOK'
  <1>1. [rollout[k] EXCEPT !.pc = pc] \in RolloutRecord
    BY DEF RolloutOK, RolloutRecord
  <1> QED BY <1>1 DEF RolloutOK, RolloutLocals, RolloutAt, RolloutRecord

LEMMA StagesNotEmpty == Len(Stages) \in Nat /\ 1 \in 1 .. Len(Stages)
  BY RetrainingAssumption

LEMMA StagesArePercentages ==
  ASSUME NEW i \in 1 .. Len(Stages)
  PROVE  Stages[i] \in 0 .. 100
  <1>1. Stages[i] \in 1 .. 100
    BY RetrainingAssumption, ElementOfSeq
  <1> QED BY <1>1

LEMMA RolloutFinishes ==
  ASSUME RolloutOK, NEW k \in Jobs, RolloutEnds(k)
  PROVE  RolloutOK'
  <1>1. [NoRollout EXCEPT !.pc = "done"] \in RolloutRecord
    BY StagesNotEmpty DEF NoRollout, RolloutRecord, RolloutPCs
  <1> QED BY <1>1 DEF RolloutOK, RolloutLocals, RolloutEnds, NoRollout

LEMMA RolloutStarts ==
  ASSUME RolloutOK, NEW cand \in Candidates, NEW adminActor \in BOOLEAN,
         StartRollout(cand, adminActor)
  PROVE  RolloutOK'
  <1> DEFINE started == [pc |-> "entering", stage |-> 1, cand |-> cand, admin |-> adminActor]
  <1>1. started \in RolloutRecord
    BY StagesNotEmpty DEF RolloutRecord, RolloutPCs
  <1>2. PICK k \in Jobs : rollout' = [rollout EXCEPT ![k] = started]
    BY DEF StartRollout
  <1> QED BY <1>1, <1>2 DEF RolloutOK, RolloutLocals

LEMMA OperatorFinished ==
  ASSUME OperatorOK, NEW o \in Operators, OperatorReturns(o)
  PROVE  OperatorOK'
  <1>1. IdleOperator \in OperatorRecord
    BY RetrainingAssumption DEF IdleOperator, OperatorRecord, OperatorPCs, NoJob
  <1> QED BY <1>1 DEF OperatorOK, OperatorLocals, OperatorReturns, IdleOperator

-----------------------------------------------------------------------------
(* Type correctness. The proof goes part by part: an action is typed when   *)
(* the parts it writes are.                                                 *)

CoordinatorOK ==
  /\ jobState \in JobStates
  /\ activeJob \in 0 .. MaxJobs
  /\ engineJob \in 0 .. MaxJobs
  /\ lastJob \in 0 .. MaxJobs

CanaryOK ==
  /\ traffic \in Configs
  /\ byHand \in BOOLEAN
  /\ breaker \in Breaker
  /\ scorer \in {"idle", "scoring", "zeroing"}

RestOK ==
  /\ candidates \subseteq Candidates
  /\ controls \subseteq Controls
  /\ toggles \in 0 .. MaxToggles
  /\ runner \in [Jobs -> RunnerStates]
  /\ registry \in Registries

Typed == CoordinatorOK /\ PipelineOK /\ RolloutOK /\ OperatorOK /\ CanaryOK /\ RestOK

LEMMA TypedMeans == Typed <=> TypeOK /\ PipelineLocals /\ RolloutLocals /\ OperatorLocals
  BY DEF Typed, TypeOK, CoordinatorOK, PipelineOK, RolloutOK, OperatorOK, CanaryOK, RestOK

LEMMA EndJobTyped ==
  ASSUME CoordinatorOK, NEW newState \in JobStates, EndJob(newState)
  PROVE  CoordinatorOK'
  BY RetrainingAssumption DEF CoordinatorOK, EndJob, NoJob

LEMMA SetTrafficTyped ==
  ASSUME CanaryOK, NEW pct \in 0 .. 100, NEW adminActor \in BOOLEAN,
         SetTraffic(pct, adminActor)
  PROVE  traffic' \in Configs /\ breaker' \in Breaker
  <1>1. traffic' \in Configs
    BY DEF SetTraffic, Configured, Configs
  <1>2. breaker' \in Breaker
    BY BreakerOperators DEF SetTraffic, CanaryOK
  <1> QED BY <1>1, <1>2

LEMMA PipelineTyped ==
  ASSUME Typed, NEW j \in Jobs, PipelineStep(j)
  PROVE  Typed'
  <1> USE DEF coordinatorVars, controlVars, goroutineVars, canaryVars
  <1> DEFINE v == pipeline[j].version
  <1>0. CoordinatorOK /\ PipelineOK /\ RolloutOK /\ OperatorOK /\ CanaryOK /\ RestOK
    BY DEF Typed
  <1>a. pipeline[j].pc \in WithVersion => v \in Candidates
    BY <1>0 DEF PipelineOK, PipelineLocals
  <1>b. ASSUME UNCHANGED <<rollout, operator, canaryVars>>, CoordinatorOK', PipelineOK', RestOK'
        PROVE  Typed'
    BY <1>0, <1>b DEF Typed, RolloutOK, RolloutLocals, OperatorOK, OperatorLocals, CanaryOK
  <1>c. ASSUME UNCHANGED coordinatorVars PROVE CoordinatorOK'
    BY <1>0, <1>c DEF CoordinatorOK
  <1>1. CASE Advance(j)
    <2>1. PICK t \in Transitions :
            /\ pipeline[j].pc = t[1]
            /\ UNCHANGED <<activeJob, engineJob, lastJob, candidates, controlVars, runner,
                          rollout, operator, registry, canaryVars>>
            /\ \/ jobState' = t[2] /\ PipelineAt(j, t[3])
               \/ UNCHANGED jobState /\ PipelineAt(j, "failing")
      BY <1>1 DEF Advance
    <2>2. /\ t[2] \in JobStates
          /\ t[3] \in PipelinePCs /\ "failing" \in PipelinePCs \ WithVersion
          /\ t[3] \in WithVersion => t[1] \in WithVersion
      BY DEF Transitions, JobStates, PipelinePCs, WithVersion
    <2>3. PipelineOK'
      BY <1>0, <1>a, <2>1, <2>2, PipelineMoves
    <2>4. CoordinatorOK' /\ RestOK'
      BY <1>0, <2>1, <2>2 DEF CoordinatorOK, RestOK
    <2> QED BY <1>b, <2>1, <2>3, <2>4
  <1>2. CASE StartTraining(j)
    <2>1. PipelineOK'
      <3>1. ASSUME NEW w \in Candidates,
                   pipeline' = [pipeline EXCEPT ![j] =
                                  [@ EXCEPT !.pc = "training", !.version = w]]
            PROVE  PipelineOK'
        <4>1. [pipeline[j] EXCEPT !.pc = "training", !.version = w] \in PipelineRecord
          BY <1>0 DEF PipelineOK, PipelineRecord, PipelinePCs
        <4> QED BY <1>0, <3>1, <4>1 DEF PipelineOK, PipelineLocals, PipelineRecord
      <3>2. ASSUME PipelineAt(j, "failing") PROVE PipelineOK'
        BY <1>0, <3>2, PipelineMoves DEF PipelinePCs, WithVersion
      <3> QED BY <1>2, <3>1, <3>2 DEF StartTraining, FreshVersions
    <2>2. RestOK'
      BY <1>0, <1>2 DEF StartTraining, RestOK, RunnerStates
    <2> QED BY <1>2, <1>b, <1>c, <2>1, <2>2 DEF StartTraining
  <1>3. CASE PollTraining(j)
    <2>1. PipelineOK'
      BY <1>0, <1>3, <1>a, PipelineMoves DEF PollTraining, PipelinePCs, WithVersion
    <2>2. RestOK'
      BY <1>0, <1>3 DEF PollTraining, RestOK, RunnerStates
    <2> QED BY <1>3, <1>b, <1>c, <2>1, <2>2 DEF PollTraining
  <1>4. CASE PublishCandidate(j)
    <2>1. PipelineOK' /\ v \in Candidates
      BY <1>0, <1>4, <1>a, PipelineMoves DEF PublishCandidate, PipelinePCs, WithVersion
    <2>2. RestOK'
      BY <1>0, <1>4, <2>1, RegistryCandidate DEF PublishCandidate, RestOK
    <2> QED BY <1>4, <1>b, <1>c, <2>1, <2>2 DEF PublishCandidate
  <1>11. CASE ListCandidate(j)
    <2>1. PipelineOK' /\ v \in Candidates
      BY <1>0, <1>11, <1>a, PipelineMoves DEF ListCandidate, PipelinePCs, WithVersion
    <2>2. RestOK'
      BY <1>0, <1>11, <2>1 DEF ListCandidate, RestOK
    <2> QED BY <1>11, <1>b, <1>c, <2>1, <2>2 DEF ListCandidate
  <1>d. {"VALIDATED", "REJECTED", "SHADOW", "APPROVED"} \subseteq Lifecycles
    BY DEF Lifecycles
  <1>5. CASE FailGate(j)
    <2>1. PipelineOK' /\ v \in Candidates
      BY <1>0, <1>5, <1>a, PipelineMoves DEF FailGate, PipelinePCs, WithVersion
    <2>2. RestOK'
      BY <1>0, <1>5, <1>d, <2>1, RegistryLifecycle DEF FailGate, RestOK
    <2> QED BY <1>5, <1>b, <1>c, <2>1, <2>2 DEF FailGate
  <1>6. CASE PassValidation(j)
    <2>1. PipelineOK' /\ v \in Candidates
      BY <1>0, <1>6, <1>a, PipelineMoves DEF PassValidation, PipelinePCs, WithVersion
    <2>2. RestOK'
      BY <1>0, <1>6, <1>d, <2>1, RegistryLifecycle DEF PassValidation, RestOK
    <2> QED BY <1>6, <1>b, <1>c, <2>1, <2>2 DEF PassValidation
  <1>7. CASE PassShadow(j)
    <2>1. v \in Candidates /\ pipeline[j].admin \in BOOLEAN
      BY <1>0, <1>7, <1>a DEF PassShadow, WithVersion, PipelineOK, PipelineRecord
    <2>2. PipelineOK'
      BY <1>0, <1>7, <2>1, PipelineMoves, PipelineFinishes DEF PassShadow, PipelinePCs
    <2>3. RolloutOK'
      <3>1. CASE AutoApproveCanary
        BY <1>0, <1>7, <2>1, <3>1, RolloutStarts DEF PassShadow
      <3>2. CASE ~AutoApproveCanary
        BY <1>0, <1>7, <3>2 DEF PassShadow, RolloutOK, RolloutLocals
      <3> QED BY <3>1, <3>2
    <2>4. RestOK'
      BY <1>0, <1>7, <1>d, <2>1, RegistryLifecycle DEF PassShadow, RestOK
    <2>5. OperatorOK' /\ CanaryOK'
      BY <1>0, <1>7 DEF PassShadow, OperatorOK, OperatorLocals, CanaryOK
    <2> QED BY <1>7, <1>c, <2>2, <2>3, <2>4, <2>5 DEF PassShadow, Typed
  <1>8. CASE MarkApproved(j)
    <2>1. PipelineOK' /\ v \in Candidates
      BY <1>0, <1>8, <1>a, PipelineFinishes DEF MarkApproved, WithVersion
    <2>2. RestOK'
      BY <1>0, <1>8, <1>d, <2>1, RegistryLifecycle DEF MarkApproved, RestOK
    <2> QED BY <1>8, <1>b, <1>c, <2>1, <2>2 DEF MarkApproved
  <1>9. CASE RejectByGate(j)
    <2>1. PipelineOK' /\ v \in Candidates
      BY <1>0, <1>9, <1>a, PipelineFinishes DEF RejectByGate, WithVersion
    <2>2. RestOK'
      BY <1>0, <1>9, <1>d, <2>1, RegistryLifecycle DEF RejectByGate, RestOK
    <2>3. CoordinatorOK'
      BY <1>0, <1>9, EndJobTyped DEF RejectByGate, JobStates
    <2> QED BY <1>9, <1>b, <2>1, <2>2, <2>3 DEF RejectByGate
  <1>10. CASE FailPipeline(j)
    <2>1. PipelineOK' /\ CoordinatorOK'
      BY <1>0, <1>10, PipelineFinishes, EndJobTyped DEF FailPipeline, JobStates
    <2>2. RestOK'
      BY <1>0, <1>10 DEF FailPipeline, RestOK
    <2> QED BY <1>10, <1>b, <2>1, <2>2 DEF FailPipeline
  <1> QED
    BY <1>1, <1>2, <1>3, <1>4, <1>5, <1>6, <1>7, <1>8, <1>9, <1>10, <1>11 DEF PipelineStep

LEMMA RunnerTyped ==
  ASSUME Typed, NEW j \in Jobs, RunnerEnds(j)
  PROVE  Typed'
  <1> USE DEF coordinatorVars, controlVars, goroutineVars, canaryVars
  <1>1. RestOK'
    BY DEF RunnerEnds, RestOK, Typed, RunnerStates
  <1> QED BY <1>1 DEF RunnerEnds, Typed, CoordinatorOK, PipelineOK, PipelineLocals, RolloutOK,
                      RolloutLocals, OperatorOK, OperatorLocals, CanaryOK

LEMMA RolloutTyped ==
  ASSUME Typed, NEW k \in Jobs, RolloutStep(k)
  PROVE  Typed'
  <1> USE DEF coordinatorVars, controlVars, goroutineVars, canaryVars
  <1>0. CoordinatorOK /\ PipelineOK /\ RolloutOK /\ OperatorOK /\ CanaryOK /\ RestOK
    BY DEF Typed
  <1>a. /\ rollout[k] \in RolloutRecord
        /\ rollout[k].pc \notin {"none", "done"} => rollout[k].cand \in Candidates
        /\ rollout[k].admin \in BOOLEAN /\ rollout[k].stage \in 1 .. Len(Stages)
    BY <1>0 DEF RolloutOK, RolloutLocals, RolloutRecord
  <1>b. ASSUME UNCHANGED <<pipeline, operator>>, CoordinatorOK', RolloutOK', CanaryOK', RestOK'
        PROVE  Typed'
    BY <1>0, <1>b DEF Typed, PipelineOK, PipelineLocals, OperatorOK, OperatorLocals
  <1>c. ASSUME UNCHANGED coordinatorVars PROVE CoordinatorOK'
    BY <1>0, <1>c DEF CoordinatorOK
  <1>d. ASSUME UNCHANGED canaryVars PROVE CanaryOK'
    BY <1>0, <1>d DEF CanaryOK
  <1>e. ASSUME UNCHANGED <<candidates, controlVars, runner, registry>> PROVE RestOK'
    BY <1>0, <1>e DEF RestOK
  <1>f. {"CANARY", "REJECTED"} \subseteq Lifecycles
    BY DEF Lifecycles
  <1>1. CASE EnterRollout(k)
    <2>1. RolloutOK'
      BY <1>0, <1>1, RolloutMoves DEF EnterRollout, RolloutPCs
    <2>2. CoordinatorOK'
      BY <1>0, <1>1 DEF EnterRollout, CoordinatorOK, JobStates
    <2> QED BY <1>1, <1>b, <1>d, <1>e, <2>1, <2>2 DEF EnterRollout
  <1>9. CASE AnnounceRollout(k)
    <2>1. RolloutOK'
      BY <1>0, <1>9, RolloutMoves DEF AnnounceRollout, RolloutPCs
    <2>2. RestOK'
      BY <1>0, <1>9, <1>a, <1>f, RegistryLifecycle DEF AnnounceRollout, RestOK
    <2> QED BY <1>9, <1>b, <1>c, <1>d, <2>1, <2>2 DEF AnnounceRollout
  <1>2. CASE PassControls(k)
    <2>1. RolloutOK'
      BY <1>0, <1>2, RolloutMoves DEF PassControls, RolloutPCs
    <2> QED BY <1>2, <1>b, <1>c, <1>d, <1>e, <2>1 DEF PassControls
  <1>3. CASE RaiseTraffic(k)
    <2>1. RolloutOK'
      BY <1>0, <1>3, RolloutMoves DEF RaiseTraffic, RolloutPCs
    <2>2. Stages[rollout[k].stage] \in 0 .. 100
      BY <1>a, StagesArePercentages
    <2>3. CanaryOK'
      BY <1>0, <1>3, <1>a, <2>2, SetTrafficTyped DEF RaiseTraffic, CanaryOK
    <2> QED BY <1>3, <1>b, <1>c, <1>e, <2>1, <2>3 DEF RaiseTraffic
  <1>4. CASE ObserveStage(k)
    <2>1. ASSUME rollout[k].pc = "observing", rollout[k].stage < Len(Stages),
                 rollout' = [rollout EXCEPT ![k] =
                               [@ EXCEPT !.pc = "gate", !.stage = rollout[k].stage + 1]]
          PROVE  RolloutOK'
      <3>1. rollout[k].stage + 1 \in 1 .. Len(Stages)
        BY <1>a, <2>1, StagesNotEmpty
      <3>2. [rollout[k] EXCEPT !.pc = "gate", !.stage = rollout[k].stage + 1] \in RolloutRecord
        BY <1>a, <3>1 DEF RolloutRecord, RolloutPCs
      <3> QED BY <1>0, <1>a, <2>1, <3>2 DEF RolloutOK, RolloutLocals, RolloutRecord
    <2>2. RolloutOK'
      BY <1>0, <1>4, <2>1, RolloutMoves DEF ObserveStage, RolloutPCs
    <2> QED BY <1>4, <1>b, <1>c, <1>d, <1>e, <2>2 DEF ObserveStage
  <1>5. CASE PromoteCandidate(k)
    <2>1. RolloutOK' /\ CoordinatorOK'
      BY <1>0, <1>5, RolloutFinishes, EndJobTyped DEF PromoteCandidate, JobStates
    <2>2. CanaryOK'
      <3>1. SetTraffic(0, rollout[k].admin) /\ byHand' = FALSE /\ UNCHANGED scorer
        BY <1>5 DEF PromoteCandidate
      <3>2. traffic' \in Configs /\ breaker' \in Breaker
        BY <1>0, <1>a, <3>1, SetTrafficTyped
      <3> QED BY <1>0, <3>1, <3>2 DEF CanaryOK
    <2>3. RestOK'
      BY <1>0, <1>5, <1>a, RegistryPromotion DEF PromoteCandidate, RestOK
    <2> QED BY <1>5, <1>b, <2>1, <2>2, <2>3 DEF PromoteCandidate
  <1>6. CASE PromotionRefused(k)
    <2>1. RolloutOK'
      BY <1>0, <1>6, RolloutMoves DEF PromotionRefused, RolloutPCs
    <2> QED BY <1>6, <1>b, <1>c, <1>d, <1>e, <2>1 DEF PromotionRefused
  <1>7. CASE RollbackCandidate(k)
    <2>1. RolloutOK' /\ CoordinatorOK'
      BY <1>0, <1>7, RolloutFinishes, EndJobTyped DEF RollbackCandidate, JobStates
    <2>2. CanaryOK'
      <3>1. SetTraffic(0, rollout[k].admin) /\ byHand' = FALSE /\ UNCHANGED scorer
        BY <1>7 DEF RollbackCandidate
      <3>2. traffic' \in Configs /\ breaker' \in Breaker
        BY <1>0, <1>a, <3>1, SetTrafficTyped
      <3> QED BY <1>0, <3>1, <3>2 DEF CanaryOK
    <2>3. RestOK'
      BY <1>0, <1>7, <1>a, RegistryPromotion DEF RollbackCandidate, RestOK
    <2> QED BY <1>7, <1>b, <2>1, <2>2, <2>3 DEF RollbackCandidate
  <1>8. CASE FailRollout(k)
    <2>1. RolloutOK' /\ CoordinatorOK'
      BY <1>0, <1>8, RolloutFinishes, EndJobTyped DEF FailRollout, JobStates
    <2> QED BY <1>8, <1>b, <1>d, <1>e, <2>1 DEF FailRollout
  <1> QED BY <1>1, <1>2, <1>3, <1>4, <1>5, <1>6, <1>7, <1>8, <1>9 DEF RolloutStep

LEMMA OperatorTyped ==
  ASSUME Typed, NEW o \in Operators, OperatorStep(o)
  PROVE  Typed'
  <1> USE DEF coordinatorVars, controlVars, goroutineVars, canaryVars
  <1>0. CoordinatorOK /\ PipelineOK /\ RolloutOK /\ OperatorOK /\ CanaryOK /\ RestOK
    BY DEF Typed
  <1>a. operator[o] \in OperatorRecord
    BY <1>0 DEF OperatorOK
  <1>b. ASSUME UNCHANGED <<rollout, canaryVars>>, CoordinatorOK', PipelineOK', OperatorOK', RestOK'
        PROVE  Typed'
    BY <1>0, <1>b DEF Typed, RolloutOK, RolloutLocals, CanaryOK
  <1>c. ASSUME UNCHANGED coordinatorVars PROVE CoordinatorOK'
    BY <1>0, <1>c DEF CoordinatorOK
  <1>d. ASSUME UNCHANGED pipeline PROVE PipelineOK'
    BY <1>0, <1>d DEF PipelineOK, PipelineLocals
  <1>e. ASSUME UNCHANGED <<candidates, controlVars, runner, registry>> PROVE RestOK'
    BY <1>0, <1>e DEF RestOK
  <1>f. ASSUME NEW op \in OperatorRecord, op.pc # "rejecting" \/ op.cand \in Candidates,
               operator' = [operator EXCEPT ![o] = op]
        PROVE  OperatorOK'
    BY <1>0, <1>f DEF OperatorOK, OperatorLocals
  <1>1. ASSUME NEW adminActor \in BOOLEAN, TriggerManual(o, adminActor) PROVE Typed'
    <2>1. [operator[o] EXCEPT !.pc = "asking", !.admin = adminActor /\ AutoApproveCanary]
            \in OperatorRecord
      BY <1>a DEF OperatorRecord, OperatorPCs
    <2>2. OperatorOK'
      BY <1>a, <1>1, <1>f, <2>1 DEF TriggerManual, OperatorRecord
    <2> QED BY <1>1, <1>b, <1>c, <1>d, <1>e, <2>2 DEF TriggerManual
  <1>2. CASE DriftDetected(o)
    <2>1. [operator[o] EXCEPT !.pc = "asking", !.admin = FALSE] \in OperatorRecord
      BY <1>a DEF OperatorRecord, OperatorPCs
    <2>2. OperatorOK'
      BY <1>a, <1>2, <1>f, <2>1 DEF DriftDetected, OperatorRecord
    <2> QED BY <1>2, <1>b, <1>c, <1>d, <1>e, <2>2 DEF DriftDetected
  <1>3. ASSUME NEW v \in Candidates, BeginReject(o, v) PROVE Typed'
    <2>1. [operator[o] EXCEPT !.pc = "rejecting", !.cand = v] \in OperatorRecord
      BY <1>a DEF OperatorRecord, OperatorPCs
    <2>2. OperatorOK'
      BY <1>a, <1>3, <1>f, <2>1 DEF BeginReject, OperatorRecord
    <2> QED BY <1>3, <1>b, <1>c, <1>d, <1>e, <2>2 DEF BeginReject
  <1>4. CASE BeginCancel(o)
    <2>1. [operator[o] EXCEPT !.pc = "cancelling", !.job = activeJob] \in OperatorRecord
      BY <1>0, <1>a DEF OperatorRecord, OperatorPCs, CoordinatorOK
    <2>2. OperatorOK'
      BY <1>a, <1>4, <1>f, <2>1 DEF BeginCancel, OperatorRecord
    <2> QED BY <1>4, <1>b, <1>c, <1>d, <1>e, <2>2 DEF BeginCancel
  <1>5. CASE CreateJob(o)
    <2>1. lastJob' \in Jobs
      BY <1>0, <1>5, RetrainingAssumption DEF CreateJob, TakeJob, CoordinatorOK, Jobs
    <2>2. CoordinatorOK'
      BY <1>5, <2>1, RetrainingAssumption DEF CreateJob, TakeJob, CoordinatorOK, Jobs, JobStates
    <2>3. [NoPipeline EXCEPT !.pc = "toQueued", !.admin = operator[o].admin] \in PipelineRecord
      BY <1>a DEF NoPipeline, PipelineRecord, PipelinePCs, OperatorRecord
    <2>4. PipelineOK'
      BY <1>0, <1>5, <2>1, <2>3
      DEF CreateJob, TakeJob, PipelineOK, PipelineLocals, NoPipeline, WithVersion
    <2>5. OperatorOK'
      BY <1>0, <1>5, OperatorFinished DEF CreateJob, TakeJob
    <2> QED BY <1>5, <1>b, <1>e, <2>2, <2>4, <2>5 DEF CreateJob, TakeJob
  <1>6. CASE CreateRefused(o)
    BY <1>0, <1>6, <1>b, <1>c, <1>d, <1>e, OperatorFinished DEF CreateRefused
  <1>7. CASE FinishReject(o)
    <2>1. operator[o].cand \in Candidates
      BY <1>0, <1>7 DEF FinishReject, OperatorOK, OperatorLocals
    <2>2. RestOK'
      BY <1>0, <1>7, <2>1, RegistryLifecycle DEF FinishReject, RestOK, Lifecycles
    <2>3. CoordinatorOK' /\ OperatorOK'
      BY <1>0, <1>7, EndJobTyped, OperatorFinished DEF FinishReject, JobStates
    <2> QED BY <1>7, <1>b, <1>d, <2>2, <2>3 DEF FinishReject
  <1>8. CASE CancelTraining(o)
    <2>1. [operator[o] EXCEPT !.pc = "cancelled"] \in OperatorRecord
      BY <1>a DEF OperatorRecord, OperatorPCs
    <2>2. OperatorOK'
      BY <1>a, <1>8, <1>f, <2>1 DEF CancelTraining, OperatorRecord
    <2>3. RestOK'
      BY <1>0, <1>8 DEF CancelTraining, RestOK, RunnerStates
    <2> QED BY <1>8, <1>b, <1>c, <1>d, <2>2, <2>3 DEF CancelTraining
  <1>9. CASE FinishCancel(o)
    <2>1. CoordinatorOK' /\ OperatorOK'
      BY <1>0, <1>9, EndJobTyped, OperatorFinished DEF FinishCancel, JobStates
    <2> QED BY <1>9, <1>b, <1>d, <1>e, <2>1 DEF FinishCancel
  <1>10. CASE AskEngine(o)
    <2>1. [operator[o] EXCEPT !.pc = "triggering"] \in OperatorRecord
      BY <1>a DEF OperatorRecord, OperatorPCs
    <2>2. CASE engineJob = NoJob
      <3>1. OperatorOK'
        BY <1>a, <1>f, <1>10, <2>1, <2>2 DEF AskEngine, OperatorRecord
      <3> QED BY <1>b, <1>c, <1>d, <1>e, <1>10, <3>1 DEF AskEngine
    <2>3. CASE engineJob # NoJob
      <3>1. OperatorOK'
        BY <1>0, <1>10, <2>3, OperatorFinished DEF AskEngine
      <3> QED BY <1>b, <1>c, <1>d, <1>e, <1>10, <3>1 DEF AskEngine
    <2> QED BY <2>2, <2>3
  <1> QED
    BY <1>1, <1>2, <1>3, <1>4, <1>5, <1>6, <1>7, <1>8, <1>9, <1>10
    DEF OperatorStep, OperatorFinishes

LEMMA ApproveTyped ==
  ASSUME Typed, NEW v \in Candidates, NEW adminActor \in BOOLEAN, ApproveCandidate(v, adminActor)
  PROVE  Typed'
  <1> USE DEF coordinatorVars, controlVars, goroutineVars, canaryVars
  <1>1. RolloutOK'
    BY RolloutStarts DEF ApproveCandidate, Typed
  <1>2. CoordinatorOK'
    BY DEF ApproveCandidate, Typed, CoordinatorOK, JobStates
  <1> QED BY <1>1, <1>2 DEF ApproveCandidate, Typed, PipelineOK, PipelineLocals, OperatorOK,
                            OperatorLocals, CanaryOK, RestOK

LEMMA ControlTyped ==
  ASSUME Typed, NEW c \in Controls, NEW on \in BOOLEAN, SetControl(c, on)
  PROVE  Typed'
  <1> USE DEF coordinatorVars, controlVars, goroutineVars, canaryVars
  <1>1. RestOK'
    BY RetrainingAssumption DEF SetControl, Typed, RestOK
  <1> QED BY <1>1 DEF SetControl, Typed, CoordinatorOK, PipelineOK, PipelineLocals, RolloutOK,
                      RolloutLocals, OperatorOK, OperatorLocals, CanaryOK

LEMMA CanaryTyped ==
  ASSUME Typed, NEW pct \in 0 .. 100, NEW adminActor \in BOOLEAN, SetCanary(pct, adminActor)
  PROVE  Typed'
  <1> USE DEF coordinatorVars, controlVars, goroutineVars, canaryVars
  <1>1. CanaryOK'
    BY SetTrafficTyped DEF SetCanary, Typed, CanaryOK
  <1>2. RestOK'
    BY RetrainingAssumption DEF SetCanary, Typed, RestOK
  <1> QED BY <1>1, <1>2 DEF SetCanary, Typed, CoordinatorOK, PipelineOK, PipelineLocals,
                            RolloutOK, RolloutLocals, OperatorOK, OperatorLocals

LEMMA TrafficTyped ==
  ASSUME Typed, TrafficStep
  PROVE  Typed'
  <1> USE DEF coordinatorVars, controlVars, goroutineVars, canaryVars
  <1>0. CanaryOK
    BY DEF Typed
  <1>a. ASSUME UNCHANGED <<coordinatorVars, candidates, controlVars, goroutineVars, operator,
                           registry>>, CanaryOK'
        PROVE  Typed'
    BY <1>a DEF Typed, CoordinatorOK, PipelineOK, PipelineLocals, RolloutOK, RolloutLocals,
                OperatorOK, OperatorLocals, RestOK
  <1>1. CASE ScoreCandidate
    BY <1>0, <1>1, <1>a DEF ScoreCandidate, CanaryOK
  <1>2. ASSUME NEW v \in Verdicts, JudgeScore(v) PROVE Typed'
    <2>1. breaker' \in Breaker
      BY <1>0, <1>2, EvaluatedTyped DEF JudgeScore, CanaryOK
    <2> QED BY <1>0, <1>2, <1>a, <2>1 DEF JudgeScore, CanaryOK
  <1>3. CASE ZeroTraffic
    BY <1>0, <1>3, <1>a DEF ZeroTraffic, CanaryOK, LegacyOnly, Configs
  <1>4. CASE CoolDown
    BY <1>0, <1>4, <1>a, BreakerOperators DEF CoolDown, CanaryOK
  <1> QED BY <1>1, <1>2, <1>3, <1>4 DEF TrafficStep

LEMMA InitTyped == Init => Typed
  <1> SUFFICES ASSUME Init PROVE Typed
    OBVIOUS
  <1> USE RetrainingAssumption DEF Init
  <1>1. CoordinatorOK
    BY DEF CoordinatorOK, JobStates, NoJob
  <1>2. PipelineOK
    BY DEF PipelineOK, PipelineLocals, PipelineRecord, NoPipeline, PipelinePCs, WithVersion
  <1>3. RolloutOK
    <2>1. NoRollout \in RolloutRecord
      BY StagesNotEmpty DEF NoRollout, RolloutRecord, RolloutPCs
    <2> QED BY <2>1 DEF RolloutOK, RolloutLocals, NoRollout
  <1>4. OperatorOK
    <2>1. IdleOperator \in OperatorRecord
      BY DEF IdleOperator, OperatorRecord, OperatorPCs, NoJob
    <2> QED BY <2>1 DEF OperatorOK, OperatorLocals, IdleOperator
  <1>5. CanaryOK
    <2>1. NewBreaker \in Breaker
      BY FailureWindowAssumption DEF NewBreaker, Breaker, BreakerStates
    <2>2. LegacyOnly \in Configs
      BY DEF LegacyOnly, Configs
    <2> QED BY <2>1, <2>2 DEF CanaryOK
  <1>6. RestOK
    <2>1. NewRegistry \in Registries
      BY DEF NewRegistry, Registries, Lifecycles, Versions
    <2>2. runner \in [Jobs -> RunnerStates]
      BY DEF RunnerStates
    <2> QED BY <2>1, <2>2 DEF RestOK
  <1> QED BY <1>1, <1>2, <1>3, <1>4, <1>5, <1>6 DEF Typed

(* The actors of Next, one by one.                                          *)
LEMMA NextCases ==
  ASSUME Next
  PROVE  \/ \E j \in Jobs : PipelineStep(j)
         \/ \E j \in Jobs : RunnerEnds(j)
         \/ \E k \in Jobs : RolloutStep(k)
         \/ \E o \in Operators : OperatorStep(o)
         \/ \E v \in Candidates, adminActor \in BOOLEAN : ApproveCandidate(v, adminActor)
         \/ \E c \in Controls, on \in BOOLEAN : SetControl(c, on)
         \/ \E pct \in 0 .. 100, adminActor \in BOOLEAN : SetCanary(pct, adminActor)
         \/ TrafficStep
  <1>1. ASSUME NEW i \in DOMAIN Stages PROVE Stages[i] \in 0 .. 100
    <2>1. DOMAIN Stages = 1 .. Len(Stages)
      BY RetrainingAssumption
    <2> QED BY <2>1, StagesArePercentages
  <1>2. 0 \in 0 .. 100
    OBVIOUS
  <1> QED BY <1>1, <1>2 DEF Next

LEMMA NextTyped ==
  ASSUME Typed, [Next]_vars
  PROVE  Typed'
  <1>1. CASE Next
    BY <1>1, NextCases, PipelineTyped, RunnerTyped, RolloutTyped, OperatorTyped, ApproveTyped,
       ControlTyped, CanaryTyped, TrafficTyped
  <1>2. CASE UNCHANGED vars
    BY <1>2 DEF vars, coordinatorVars, controlVars, goroutineVars, canaryVars, Typed,
       CoordinatorOK, PipelineOK, PipelineLocals, RolloutOK, RolloutLocals, OperatorOK,
       OperatorLocals, CanaryOK, RestOK
  <1> QED BY <1>1, <1>2

-----------------------------------------------------------------------------
(* The job slot.                                                            *)

(* The coordinator's state between two jobs, before and after a step that   *)
(* is nobody's business.                                                    *)
KeepsSlot ==
  /\ UNCHANGED <<activeJob, engineJob, lastJob, registry.production>>
  /\ jobState' # jobState => jobState \notin Startable /\ jobState' \notin Startable

(* A step that ends the active job; the production model may change with it.*)
EndsJob ==
  /\ jobState' \in Startable /\ activeJob' = NoJob /\ engineJob' = NoJob
  /\ UNCHANGED lastJob

(* A step that starts a job.                                                *)
StartsJob ==
  /\ activeJob = NoJob /\ lastJob < MaxJobs
  /\ lastJob' = lastJob + 1 /\ activeJob' = lastJob' /\ engineJob' = lastJob'
  /\ jobState' \notin Startable
  /\ UNCHANGED registry

(* Every step of every actor does one of three things to the coordinator:   *)
(* leaves its slot alone, gives it back, or takes it when it is free.       *)
LEMMA SlotSteps ==
  ASSUME Typed, Next
  PROVE  KeepsSlot \/ EndsJob \/ StartsJob
  <1> USE DEF coordinatorVars, controlVars, goroutineVars, canaryVars
  <1>0. /\ registry \in Registries
        /\ PipelineLocals /\ RolloutLocals /\ OperatorLocals
    BY DEF Typed, RestOK, PipelineOK, RolloutOK, OperatorOK
  <1>a. {"VALIDATED", "REJECTED", "SHADOW", "APPROVED", "CANARY"} \subseteq Lifecycles
    BY DEF Lifecycles
  <1>b. ASSUME UNCHANGED <<coordinatorVars, registry>> PROVE KeepsSlot
    BY <1>b DEF KeepsSlot
  <1>c. ASSUME NEW newState \in Startable, EndJob(newState) PROVE EndsJob
    BY <1>c DEF EndJob, EndsJob
  <1>d. ASSUME UNCHANGED coordinatorVars, UNCHANGED registry.production PROVE KeepsSlot
    BY <1>d DEF KeepsSlot
  <1>1. ASSUME NEW j \in Jobs, PipelineStep(j) PROVE KeepsSlot \/ EndsJob
    <2> DEFINE v == pipeline[j].version
    <2>0. pipeline[j].pc \in WithVersion => v \in Candidates
      BY <1>0 DEF PipelineLocals
    <2>1. CASE Advance(j)
      <3>1. PICK t \in Transitions :
              /\ UNCHANGED <<activeJob, engineJob, lastJob, registry>>
              /\ \/ CanTransition(jobState, t[2]) /\ jobState' = t[2]
                 \/ UNCHANGED jobState
        BY <2>1 DEF Advance
      <3>2. t[2] \in {"QUEUED", "TRAINING", "VALIDATING", "SHADOW_EVALUATION",
                      "AWAITING_APPROVAL"}
        BY DEF Transitions
      <3>3. ASSUME CanTransition(jobState, t[2]) PROVE jobState \notin Startable
        BY <3>2, <3>3 DEF CanTransition, Startable
      <3> QED BY <3>1, <3>2, <3>3 DEF KeepsSlot, Startable
    <2>2. CASE StartTraining(j)
      BY <1>b, <2>2 DEF StartTraining
    <2>3. CASE PollTraining(j)
      BY <1>b, <2>3 DEF PollTraining
    <2>4. CASE PublishCandidate(j)
      BY <1>0, <1>d, <2>0, <2>4, RegistryCandidate DEF PublishCandidate, WithVersion
    <2>11. CASE ListCandidate(j)
      BY <1>b, <2>11 DEF ListCandidate
    <2>5. CASE FailGate(j)
      BY <1>0, <1>a, <1>d, <2>0, <2>5, RegistryLifecycle DEF FailGate, WithVersion
    <2>6. CASE PassValidation(j)
      BY <1>0, <1>a, <1>d, <2>0, <2>6, RegistryLifecycle DEF PassValidation, WithVersion
    <2>7. CASE PassShadow(j)
      BY <1>0, <1>a, <1>d, <2>0, <2>7, RegistryLifecycle DEF PassShadow, WithVersion
    <2>8. CASE MarkApproved(j)
      BY <1>0, <1>a, <1>d, <2>0, <2>8, RegistryLifecycle DEF MarkApproved, WithVersion
    <2>9. CASE RejectByGate(j)
      BY <1>c, <2>9 DEF RejectByGate, Startable
    <2>10. CASE FailPipeline(j)
      BY <1>c, <2>10 DEF FailPipeline, Startable
    <2> QED BY <1>1, <2>1, <2>2, <2>3, <2>4, <2>5, <2>6, <2>7, <2>8, <2>9, <2>10, <2>11
            DEF PipelineStep
  <1>2. ASSUME NEW k \in Jobs, RolloutStep(k) PROVE KeepsSlot \/ EndsJob
    <2>1. CASE EnterRollout(k)
      BY <2>1 DEF EnterRollout, CanTransition, Startable, KeepsSlot
    <2>4. CASE AnnounceRollout(k)
      <3>1. rollout[k].cand \in Candidates
        BY <1>0, <2>4 DEF AnnounceRollout, RolloutLocals
      <3> QED BY <1>0, <1>a, <1>d, <2>4, <3>1, RegistryLifecycle DEF AnnounceRollout
    <2>2. CASE PassControls(k) \/ RaiseTraffic(k) \/ ObserveStage(k) \/ PromotionRefused(k)
      BY <1>b, <2>2 DEF PassControls, RaiseTraffic, ObserveStage, PromotionRefused
    <2>3. CASE PromoteCandidate(k) \/ RollbackCandidate(k) \/ FailRollout(k)
      BY <1>c, <2>3 DEF PromoteCandidate, RollbackCandidate, FailRollout, Startable
    <2> QED BY <1>2, <2>1, <2>2, <2>3, <2>4 DEF RolloutStep
  <1>3. ASSUME NEW o \in Operators, OperatorStep(o) PROVE KeepsSlot \/ EndsJob \/ StartsJob
    <2>1. CASE CreateJob(o)
      BY <2>1 DEF CreateJob, TakeJob, MayCreate, StartsJob, Startable
    <2>2. CASE FinishReject(o) \/ FinishCancel(o)
      BY <1>c, <2>2 DEF FinishReject, FinishCancel, Startable
    <2>3. CASE \/ \E adminActor \in BOOLEAN : TriggerManual(o, adminActor)
               \/ \E v \in Candidates : BeginReject(o, v)
               \/ DriftDetected(o) \/ AskEngine(o) \/ BeginCancel(o) \/ CreateRefused(o)
               \/ CancelTraining(o)
      BY <1>b, <2>3 DEF TriggerManual, BeginReject, DriftDetected, AskEngine, BeginCancel,
                       CreateRefused, CancelTraining
    <2> QED BY <1>3, <2>1, <2>2, <2>3 DEF OperatorStep, OperatorFinishes
  <1>4. ASSUME NEW v \in Candidates, NEW adminActor \in BOOLEAN, ApproveCandidate(v, adminActor)
        PROVE  KeepsSlot
    BY <1>4 DEF ApproveCandidate, KeepsSlot, Startable
  <1>5. ASSUME NEW j \in Jobs, RunnerEnds(j) PROVE KeepsSlot
    BY <1>b, <1>5 DEF RunnerEnds
  <1>6. ASSUME NEW c \in Controls, NEW on \in BOOLEAN, SetControl(c, on) PROVE KeepsSlot
    BY <1>b, <1>6 DEF SetControl
  <1>7. ASSUME NEW pct \in 0 .. 100, NEW adminActor \in BOOLEAN, SetCanary(pct, adminActor)
        PROVE  KeepsSlot
    BY <1>b, <1>7 DEF SetCanary
  <1>8. CASE TrafficStep
    BY <1>b, <1>8 DEF TrafficStep, ScoreCandidate, JudgeScore, ZeroTraffic, CoolDown
  <1> QED BY <1>1, <1>2, <1>3, <1>4, <1>5, <1>6, <1>7, <1>8, NextCases

LEMMA NextSlotAgreement ==
  ASSUME Typed, SlotAgreement, [Next]_vars
  PROVE  SlotAgreement'
  <1>0. lastJob \in Nat /\ activeJob \in Nat
    BY RetrainingAssumption DEF Typed, CoordinatorOK
  <1>1. CASE KeepsSlot
    BY <1>1 DEF KeepsSlot, SlotAgreement
  <1>2. CASE EndsJob
    BY <1>2 DEF EndsJob, SlotAgreement
  <1>3. CASE StartsJob
    BY <1>0, <1>3 DEF StartsJob, SlotAgreement, NoJob
  <1>4. CASE UNCHANGED vars
    BY <1>4 DEF vars, coordinatorVars, SlotAgreement
  <1> QED BY <1>1, <1>2, <1>3, <1>4, SlotSteps

-----------------------------------------------------------------------------
(* The production model.                                                    *)

LEMMA NextActiveIsProduction ==
  ASSUME Typed, ActiveIsProduction, [Next]_vars
  PROVE  ActiveIsProduction'
  <1> USE DEF coordinatorVars, controlVars, goroutineVars, canaryVars
  <1>0. /\ registry \in Registries
        /\ PipelineLocals /\ RolloutLocals /\ OperatorLocals
    BY DEF Typed, RestOK, PipelineOK, RolloutOK, OperatorOK
  <1>a. {"VALIDATED", "REJECTED", "SHADOW", "APPROVED", "CANARY"} \subseteq Lifecycles
    BY DEF Lifecycles
  <1>b. ASSUME UNCHANGED <<registry.active, registry.production>> PROVE ActiveIsProduction'
    BY <1>b DEF ActiveIsProduction
  <1>1. ASSUME NEW j \in Jobs, PipelineStep(j) PROVE ActiveIsProduction'
    <2> DEFINE v == pipeline[j].version
    <2>0. pipeline[j].pc \in WithVersion => v \in Candidates
      BY <1>0 DEF PipelineLocals
    <2>1. CASE Advance(j)
      BY <1>b, <2>1 DEF Advance
    <2>2. CASE StartTraining(j) \/ PollTraining(j) \/ ListCandidate(j) \/ FailPipeline(j)
      BY <1>b, <2>2 DEF StartTraining, PollTraining, ListCandidate, FailPipeline
    <2>3. CASE PublishCandidate(j)
      BY <1>0, <1>b, <2>0, <2>3, RegistryCandidate DEF PublishCandidate, WithVersion
    <2>4. CASE FailGate(j) \/ RejectByGate(j)
      BY <1>0, <1>a, <1>b, <2>0, <2>4, RegistryLifecycle DEF FailGate, RejectByGate, WithVersion
    <2>5. CASE PassValidation(j)
      BY <1>0, <1>a, <1>b, <2>0, <2>5, RegistryLifecycle DEF PassValidation, WithVersion
    <2>6. CASE PassShadow(j)
      BY <1>0, <1>a, <1>b, <2>0, <2>6, RegistryLifecycle DEF PassShadow, WithVersion
    <2>7. CASE MarkApproved(j)
      BY <1>0, <1>a, <1>b, <2>0, <2>7, RegistryLifecycle DEF MarkApproved, WithVersion
    <2> QED BY <1>1, <2>1, <2>2, <2>3, <2>4, <2>5, <2>6, <2>7 DEF PipelineStep
  <1>2. ASSUME NEW k \in Jobs, RolloutStep(k) PROVE ActiveIsProduction'
    <2>0. rollout[k].pc \notin {"none", "done"} => rollout[k].cand \in Candidates
      BY <1>0 DEF RolloutLocals
    <2>1. CASE AnnounceRollout(k)
      BY <1>0, <1>a, <1>b, <2>0, <2>1, RegistryLifecycle DEF AnnounceRollout
    <2>2. CASE EnterRollout(k) \/ PassControls(k) \/ RaiseTraffic(k) \/ ObserveStage(k)
      BY <1>b, <2>2 DEF EnterRollout, PassControls, RaiseTraffic, ObserveStage
    <2>3. CASE PromotionRefused(k) \/ FailRollout(k)
      BY <1>b, <2>3 DEF PromotionRefused, FailRollout
    <2>4. CASE PromoteCandidate(k)
      BY <1>0, <2>0, <2>4, RegistryPromotion DEF PromoteCandidate, ActiveIsProduction
    <2>5. CASE RollbackCandidate(k)
      BY <1>0, <2>0, <2>5, RegistryPromotion DEF RollbackCandidate, ActiveIsProduction
    <2> QED BY <1>2, <2>1, <2>2, <2>3, <2>4, <2>5 DEF RolloutStep
  <1>3. ASSUME NEW o \in Operators, OperatorStep(o) PROVE ActiveIsProduction'
    <2>1. CASE FinishReject(o)
      BY <1>0, <1>a, <1>b, <2>1, RegistryLifecycle DEF FinishReject, OperatorLocals
    <2>2. CASE CreateJob(o) \/ FinishCancel(o) \/ CreateRefused(o) \/ CancelTraining(o)
      BY <1>b, <2>2 DEF CreateJob, TakeJob, FinishCancel, CreateRefused, CancelTraining
    <2>3. CASE \/ \E adminActor \in BOOLEAN : TriggerManual(o, adminActor)
               \/ \E v \in Candidates : BeginReject(o, v)
               \/ DriftDetected(o) \/ AskEngine(o) \/ BeginCancel(o)
      BY <1>b, <2>3 DEF TriggerManual, BeginReject, DriftDetected, AskEngine, BeginCancel
    <2> QED BY <1>3, <2>1, <2>2, <2>3 DEF OperatorStep, OperatorFinishes
  <1>4. ASSUME NEW v \in Candidates, NEW adminActor \in BOOLEAN, ApproveCandidate(v, adminActor)
        PROVE  ActiveIsProduction'
    BY <1>b, <1>4 DEF ApproveCandidate
  <1>5. ASSUME NEW j \in Jobs, RunnerEnds(j) PROVE ActiveIsProduction'
    BY <1>b, <1>5 DEF RunnerEnds
  <1>6. ASSUME NEW c \in Controls, NEW on \in BOOLEAN, SetControl(c, on)
        PROVE  ActiveIsProduction'
    BY <1>b, <1>6 DEF SetControl
  <1>7. ASSUME NEW pct \in 0 .. 100, NEW adminActor \in BOOLEAN, SetCanary(pct, adminActor)
        PROVE  ActiveIsProduction'
    BY <1>b, <1>7 DEF SetCanary
  <1>8. CASE TrafficStep
    BY <1>b, <1>8 DEF TrafficStep, ScoreCandidate, JudgeScore, ZeroTraffic, CoolDown
  <1>9. CASE UNCHANGED vars
    BY <1>b, <1>9 DEF vars
  <1> QED BY <1>1, <1>2, <1>3, <1>4, <1>5, <1>6, <1>7, <1>8, <1>9, NextCases

-----------------------------------------------------------------------------
(* The candidate's traffic.                                                 *)

LEMMA NextNoOrphanTraffic ==
  ASSUME Typed, NoOrphanTraffic, [Next]_vars
  PROVE  NoOrphanTraffic'
  <1> USE DEF coordinatorVars, controlVars, goroutineVars, canaryVars
  <1>0. rollout \in [Jobs -> RolloutRecord]
    BY DEF Typed, RolloutOK
  <1>a. ASSUME UNCHANGED <<traffic, byHand>>,
               \A k \in Jobs : k \in Driving => rollout'[k] = rollout[k]
        PROVE  NoOrphanTraffic'
    BY <1>a DEF NoOrphanTraffic, Driving
  <1>b. ASSUME UNCHANGED <<traffic, byHand, rollout>> PROVE NoOrphanTraffic'
    BY <1>b DEF NoOrphanTraffic, Driving
  <1>c. ASSUME Share(traffic') = 0 PROVE NoOrphanTraffic'
    BY <1>c DEF NoOrphanTraffic
  <1>d. ASSUME NEW k \in Jobs, UNCHANGED <<traffic, byHand>>,
               NEW pc \in {"gate", "raising", "observing", "promoting", "rolling"},
               RolloutAt(k, pc)
        PROVE  NoOrphanTraffic'
    BY <1>0, <1>d DEF NoOrphanTraffic, Driving, RolloutAt, RolloutRecord
  <1>1. ASSUME NEW j \in Jobs, PipelineStep(j) PROVE NoOrphanTraffic'
    <2>1. CASE PassShadow(j)
      <3>1. UNCHANGED <<traffic, byHand>>
        BY <2>1 DEF PassShadow
      <3>2. \A k \in Jobs : k \in Driving => rollout'[k] = rollout[k]
        BY <1>0, <2>1 DEF PassShadow, StartRollout, Driving
      <3> QED BY <1>a, <3>1, <3>2
    <2>2. CASE Advance(j)
      BY <1>b, <2>2 DEF Advance
    <2>3. CASE ~PassShadow(j) /\ ~Advance(j)
      BY <1>b, <1>1, <2>3 DEF PipelineStep, StartTraining, PollTraining, PublishCandidate,
         ListCandidate, FailGate, PassValidation, MarkApproved, RejectByGate, FailPipeline
    <2> QED BY <2>1, <2>2, <2>3
  <1>2. ASSUME NEW k \in Jobs, RolloutStep(k) PROVE NoOrphanTraffic'
    <2>1. CASE EnterRollout(k)
      <3>1. UNCHANGED <<traffic, byHand>>
        BY <2>1 DEF EnterRollout
      <3>2. \A l \in Jobs : l \in Driving => rollout'[l] = rollout[l]
        BY <1>0, <2>1 DEF EnterRollout, RolloutAt, Driving
      <3> QED BY <1>a, <3>1, <3>2
    <2>2. CASE AnnounceRollout(k) \/ PassControls(k)
      BY <1>d, <2>2 DEF AnnounceRollout, PassControls
    <2>3. CASE RaiseTraffic(k)
      BY <1>0, <2>3 DEF RaiseTraffic, RolloutAt, RolloutRecord, NoOrphanTraffic, Driving
    <2>4. CASE ObserveStage(k)
      <3>1. ASSUME rollout' = [rollout EXCEPT ![k] =
                                 [@ EXCEPT !.pc = "gate", !.stage = rollout[k].stage + 1]],
                   UNCHANGED <<traffic, byHand>>
            PROVE  NoOrphanTraffic'
        BY <1>0, <3>1 DEF RolloutRecord, NoOrphanTraffic, Driving
      <3> QED BY <1>d, <2>4, <3>1 DEF ObserveStage
    <2>5. CASE PromotionRefused(k)
      BY <1>d, <2>5 DEF PromotionRefused
    <2>6. CASE PromoteCandidate(k) \/ RollbackCandidate(k)
      <3>1. traffic' = Configured(0 > 0, 0)
        BY <2>6 DEF PromoteCandidate, RollbackCandidate, SetTraffic
      <3>2. Share(Configured(0 > 0, 0)) = 0
        BY DEF Configured, Share
      <3> QED BY <1>c, <3>1, <3>2
    <2>7. CASE FailRollout(k)
      <3>1. UNCHANGED <<traffic, byHand>>
        BY <2>7 DEF FailRollout
      <3>2. \A l \in Jobs : l \in Driving => rollout'[l] = rollout[l]
        BY <1>0, <2>7 DEF FailRollout, RolloutEnds, Driving
      <3> QED BY <1>a, <3>1, <3>2
    <2> QED BY <1>2, <2>1, <2>2, <2>3, <2>4, <2>5, <2>6, <2>7 DEF RolloutStep
  <1>3. ASSUME NEW o \in Operators, OperatorStep(o) PROVE NoOrphanTraffic'
    BY <1>b, <1>3 DEF OperatorStep, OperatorFinishes, TriggerManual, DriftDetected, AskEngine,
       BeginReject, BeginCancel, CreateJob, TakeJob, CreateRefused, FinishReject, CancelTraining, FinishCancel
  <1>4. ASSUME NEW v \in Candidates, NEW adminActor \in BOOLEAN, ApproveCandidate(v, adminActor)
        PROVE  NoOrphanTraffic'
    <2>1. UNCHANGED <<traffic, byHand>>
      BY <1>4 DEF ApproveCandidate
    <2>2. \A k \in Jobs : k \in Driving => rollout'[k] = rollout[k]
      BY <1>0, <1>4 DEF ApproveCandidate, StartRollout, Driving
    <2> QED BY <1>a, <2>1, <2>2
  <1>5. ASSUME NEW j \in Jobs, RunnerEnds(j) PROVE NoOrphanTraffic'
    BY <1>b, <1>5 DEF RunnerEnds
  <1>6. ASSUME NEW c \in Controls, NEW on \in BOOLEAN, SetControl(c, on) PROVE NoOrphanTraffic'
    BY <1>b, <1>6 DEF SetControl
  <1>7. ASSUME NEW pct \in 0 .. 100, NEW adminActor \in BOOLEAN, SetCanary(pct, adminActor)
        PROVE  NoOrphanTraffic'
    BY <1>7 DEF SetCanary, NoOrphanTraffic
  <1>8. CASE TrafficStep
    <2>1. CASE ZeroTraffic
      BY <1>c, <2>1 DEF ZeroTraffic, LegacyOnly, Share
    <2> QED BY <1>b, <1>8, <2>1 DEF TrafficStep, ScoreCandidate, JudgeScore, CoolDown
  <1>9. CASE UNCHANGED vars
    BY <1>b, <1>9 DEF vars
  <1> QED BY <1>1, <1>2, <1>3, <1>4, <1>5, <1>6, <1>7, <1>8, <1>9, NextCases

LEMMA NextPauseHolds ==
  ASSUME Typed, RolloutPaused, [Next]_vars
  PROVE  Raising' \subseteq Raising
  <1> USE DEF coordinatorVars, controlVars, goroutineVars, canaryVars
  <1>0. rollout \in [Jobs -> RolloutRecord]
    BY DEF Typed, RolloutOK
  <1>a. ASSUME UNCHANGED rollout PROVE Raising' \subseteq Raising
    BY <1>a DEF Raising
  <1>b. ASSUME NEW k \in Jobs, NEW pc, pc # "raising", RolloutAt(k, pc)
        PROVE  Raising' \subseteq Raising
    BY <1>0, <1>b DEF Raising, RolloutAt, RolloutRecord
  <1>c. ASSUME NEW cand, NEW adminActor, StartRollout(cand, adminActor)
        PROVE  Raising' \subseteq Raising
    BY <1>0, <1>c DEF Raising, StartRollout
  <1>1. ASSUME NEW j \in Jobs, PipelineStep(j) PROVE Raising' \subseteq Raising
    <2>1. CASE PassShadow(j)
      BY <1>a, <1>c, <2>1 DEF PassShadow
    <2>2. CASE Advance(j)
      BY <1>a, <2>2 DEF Advance
    <2>3. CASE ~PassShadow(j) /\ ~Advance(j)
      BY <1>a, <1>1, <2>3 DEF PipelineStep, StartTraining, PollTraining, PublishCandidate,
         ListCandidate, FailGate, PassValidation, MarkApproved, RejectByGate, FailPipeline
    <2> QED BY <2>1, <2>2, <2>3
  <1>2. ASSUME NEW k \in Jobs, RolloutStep(k) PROVE Raising' \subseteq Raising
    <2>1. CASE PassControls(k)
      BY <2>1 DEF PassControls
    <2>2. CASE ObserveStage(k)
      <3>1. ASSUME rollout' = [rollout EXCEPT ![k] =
                                 [@ EXCEPT !.pc = "gate", !.stage = rollout[k].stage + 1]]
            PROVE  Raising' \subseteq Raising
        BY <1>0, <3>1 DEF Raising, RolloutRecord
      <3> QED BY <1>b, <2>2, <3>1 DEF ObserveStage
    <2>3. CASE EnterRollout(k) \/ AnnounceRollout(k) \/ RaiseTraffic(k) \/ PromotionRefused(k)
      BY <1>b, <2>3 DEF EnterRollout, AnnounceRollout, RaiseTraffic, PromotionRefused
    <2>4. ASSUME RolloutEnds(k) PROVE Raising' \subseteq Raising
      BY <1>0, <2>4 DEF Raising, RolloutEnds, NoRollout
    <2>5. CASE PromoteCandidate(k) \/ RollbackCandidate(k) \/ FailRollout(k)
      BY <2>4, <2>5 DEF PromoteCandidate, RollbackCandidate, FailRollout
    <2> QED BY <1>2, <2>1, <2>2, <2>3, <2>5 DEF RolloutStep
  <1>3. ASSUME NEW o \in Operators, OperatorStep(o) PROVE Raising' \subseteq Raising
    BY <1>a, <1>3 DEF OperatorStep, OperatorFinishes, TriggerManual, DriftDetected, AskEngine,
       BeginReject, BeginCancel, CreateJob, TakeJob, CreateRefused, FinishReject, CancelTraining, FinishCancel
  <1>4. ASSUME NEW v \in Candidates, NEW adminActor \in BOOLEAN, ApproveCandidate(v, adminActor)
        PROVE  Raising' \subseteq Raising
    BY <1>c, <1>4 DEF ApproveCandidate
  <1>5. ASSUME NEW j \in Jobs, RunnerEnds(j) PROVE Raising' \subseteq Raising
    BY <1>a, <1>5 DEF RunnerEnds
  <1>6. ASSUME NEW c \in Controls, NEW on \in BOOLEAN, SetControl(c, on)
        PROVE  Raising' \subseteq Raising
    BY <1>a, <1>6 DEF SetControl
  <1>7. ASSUME NEW pct \in 0 .. 100, NEW adminActor \in BOOLEAN, SetCanary(pct, adminActor)
        PROVE  Raising' \subseteq Raising
    BY <1>a, <1>7 DEF SetCanary
  <1>8. CASE TrafficStep
    BY <1>a, <1>8 DEF TrafficStep, ScoreCandidate, JudgeScore, ZeroTraffic, CoolDown
  <1>9. CASE UNCHANGED vars
    BY <1>a, <1>9 DEF vars
  <1> QED BY <1>1, <1>2, <1>3, <1>4, <1>5, <1>6, <1>7, <1>8, <1>9, NextCases

-----------------------------------------------------------------------------
(* The theorems.                                                            *)

(* The inductive invariant: the types with the goroutines' locals, and the  *)
(* three invariants of the runs. Each of the three is preserved on its own; *)
(* all of them need the types.                                              *)
IInv == Typed /\ SlotAgreement /\ ActiveIsProduction /\ NoOrphanTraffic

(* The inductive invariant holds whatever triggers, operators, goroutines   *)
(* and cancellations do (retraining_coordinator.go).                        *)
THEOREM Invariance == Spec => []IInv
  <1>1. Init => IInv
    <2> SUFFICES ASSUME Init PROVE SlotAgreement /\ ActiveIsProduction /\ NoOrphanTraffic
      BY InitTyped DEF IInv
    <2> QED BY DEF Init, SlotAgreement, Startable, ActiveIsProduction, NewRegistry,
                   NoOrphanTraffic, LegacyOnly, Share
  <1>2. IInv /\ [Next]_vars => IInv'
    BY NextTyped, NextSlotAgreement, NextActiveIsProduction, NextNoOrphanTraffic DEF IInv
  <1> QED BY <1>1, <1>2, PTL DEF Spec

(* Every variable of the coordinator has its type in every reachable state. *)
THEOREM TypeCorrect == Spec => []TypeOK
  <1>1. IInv => TypeOK
    BY TypedMeans DEF IInv
  <1> QED BY <1>1, Invariance, PTL

(* The coordinator never wedges: state, active job and trigger engine agree *)
(* however the goroutines of different jobs interleave.                     *)
THEOREM SlotAgrees == Spec => []SlotAgreement
  <1>1. IInv => SlotAgreement
    BY DEF IInv
  <1> QED BY <1>1, Invariance, PTL

(* No model but the production model carries the production flag.           *)
THEOREM OnlyProductionIsActive == Spec => []ActiveIsProduction
  <1>1. IInv => ActiveIsProduction
    BY DEF IInv
  <1> QED BY <1>1, Invariance, PTL

(* A candidate's traffic always has a rollout that will end it.             *)
THEOREM TrafficIsDriven == Spec => []NoOrphanTraffic
  <1>1. IInv => NoOrphanTraffic
    BY DEF IInv
  <1> QED BY <1>1, Invariance, PTL

(* A pause is at most one stage late.                                       *)
THEOREM PauseIsKept == Spec => PauseHolds
  <1>1. IInv /\ [Next]_vars =>
          [RolloutPaused /\ RolloutPaused' => Raising' \subseteq Raising]_vars
    BY NextPauseHolds DEF IInv
  <1> QED BY <1>1, Invariance, PTL DEF Spec, PauseHolds

(* The coordinator implements the job slot.                                 *)
THEOREM ImplementsSlot == Spec => SlotSpec
  <1>1. Init => Slot!Init
    BY DEF Init, Slot!Init, Slot!Free, NoJob, NewRegistry
  <1>2. ASSUME IInv, [Next]_vars
        PROVE  [Slot!Next]_<<activeJob, lastJob, registry.production>>
    <2>0. Typed'
      BY <1>2, NextTyped DEF IInv
    <2>1. CASE KeepsSlot
      BY <2>1 DEF KeepsSlot
    <2>2. CASE EndsJob
      <3>1. registry'.production \in Versions
        BY <2>0 DEF Typed, RestOK, Registries
      <3> QED BY <2>2, <3>1 DEF EndsJob, NoJob, Slot!Next, Slot!GiveBack, Slot!Free
    <2>3. CASE StartsJob
      BY <2>3 DEF StartsJob, NoJob, Slot!Next, Slot!Take, Slot!Free
    <2>4. CASE UNCHANGED vars
      BY <2>4 DEF vars, coordinatorVars
    <2> QED BY <1>2, <2>1, <2>2, <2>3, <2>4, SlotSteps DEF IInv
  <1> QED BY <1>1, <1>2, Invariance, PTL DEF Spec, SlotSpec, Slot!Spec
===============================================================================
