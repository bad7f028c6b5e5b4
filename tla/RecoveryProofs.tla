---------------------------- MODULE RecoveryProofs ----------------------------
(* What holds of the coordinator with its state file for every number of    *)
(* jobs, rollouts, recoveries, faults and crashes: what is on disk, what a  *)
(* recovery makes of it, and that a promotion survives.                     *)
EXTENDS Recovery, ReleaseLemmas, FiniteSetTheorems

-----------------------------------------------------------------------------
(* Types.                                                                   *)

FileTyped == file \in {NoFile, Damaged} \cup [kind : {"saved"}, image : Saved]

SpentTyped ==
  spent \in [jobs : 0 .. MaxJobs, toggles : 0 .. MaxToggles, requests : 0 .. MaxRequests,
             faults : 0 .. MaxFaults]

CallTyped == call \in [pc : CallPCs, image : Saved, became : JobStates]

\* A rollout at work has a candidate.
RolloutsHave == \A k \in Rollouts : LiveRollout(k) => rollout[k].cand \in Candidates

\* Everything but the file, what saving it costs, and the history.
MemoryTyped ==
  /\ mode \in {"starting", "serving"}
  /\ coord \in Coordinators /\ engineJob \in 0 .. MaxJobs /\ listed \subseteq Candidates
  /\ registry \in Registries
  /\ traffic \in BOOLEAN /\ byHand \in BOOLEAN
  /\ pipeline \in [Jobs -> PipelinePCs]
  /\ rollout \in [Rollouts -> RolloutRecord] /\ RolloutsHave
  /\ CallTyped

Typed == MemoryTyped /\ FileTyped /\ SpentTyped /\ excused \subseteq Excuses /\ promoted \in Versions

LEMMA TypedMeans == Typed <=> RecoveryTypeOK /\ RolloutsHave
  BY DEF Typed, RecoveryTypeOK, MemoryTyped, FileTyped, SpentTyped, CallTyped

LEMMA FileOfTyped ==
  ASSUME NEW c \in Coordinators, NEW reg \in Registries, file' = FileOf(Image(c, reg))
  PROVE  FileTyped' /\ file'.kind = "saved" /\ file'.image.coord = c /\ file'.image.registry = reg
  BY DEF FileTyped, FileOf, Image, Saved

(* A fault and a counted step stay within their bounds.                     *)
LEMMA SpendTyped ==
  ASSUME SpentTyped
  PROVE  /\ Fault => Spend("faults") \in [jobs : 0 .. MaxJobs, toggles : 0 .. MaxToggles,
                                         requests : 0 .. MaxRequests, faults : 0 .. MaxFaults]
         /\ spent.requests < MaxRequests =>
              Spend("requests") \in [jobs : 0 .. MaxJobs, toggles : 0 .. MaxToggles,
                                     requests : 0 .. MaxRequests, faults : 0 .. MaxFaults]
  BY RecoveryAssumption DEF SpentTyped, Spend, Fault

(* Saving writes the state it is given or leaves the file alone.            *)
LEMMA PersistTyped ==
  ASSUME NEW c \in Coordinators, NEW reg \in Registries, FileTyped, SpentTyped,
         excused \subseteq Excuses, Persist(c, reg)
  PROVE  FileTyped' /\ SpentTyped' /\ excused' \subseteq Excuses
  <1>1. Overtaking \subseteq Excuses /\ "unsaved" \in Excuses
    BY DEF Overtaking, Excuses
  <1>2. CASE file' = FileOf(Image(c, reg)) /\ UNCHANGED spent
             /\ excused' = (excused \ {"unsaved"}) \cup Overtaking
    BY <1>1, <1>2, FileOfTyped DEF SpentTyped
  <1>3. CASE Fault /\ spent' = Spend("faults") /\ UNCHANGED file
             /\ excused' = excused \cup {"unsaved"} \cup Overtaking
    BY <1>1, <1>3, SpendTyped DEF SpentTyped, FileTyped
  <1> QED BY <1>2, <1>3 DEF Persist

LEMMA PersistCountingTyped ==
  ASSUME NEW c \in Coordinators, NEW reg \in Registries, NEW what \in {"jobs", "toggles"},
         FileTyped, SpentTyped, excused \subseteq Excuses, PersistCounting(c, reg, what),
         what = "jobs" => spent.jobs < MaxJobs, what = "toggles" => spent.toggles < MaxToggles
  PROVE  FileTyped' /\ SpentTyped' /\ excused' \subseteq Excuses
  <1>1. Overtaking \subseteq Excuses /\ "unsaved" \in Excuses
    BY DEF Overtaking, Excuses
  <1>2. CASE file' = FileOf(Image(c, reg)) /\ spent' = Spend(what)
             /\ excused' = (excused \ {"unsaved"}) \cup Overtaking
    <2>1. SpentTyped'
      BY <1>2, RecoveryAssumption DEF SpentTyped, Spend
    <2> QED BY <1>1, <1>2, <2>1, FileOfTyped
  <1>3. CASE Fault /\ spent' = [Spend(what) EXCEPT !.faults = @ + 1] /\ UNCHANGED file
             /\ excused' = excused \cup {"unsaved"} \cup Overtaking
    <2>1. SpentTyped'
      <3> DEFINE counted == Spend(what)
      <3>1. /\ counted \in [jobs : 0 .. MaxJobs, toggles : 0 .. MaxToggles,
                             requests : 0 .. MaxRequests, faults : 0 .. MaxFaults]
            /\ counted.faults = spent.faults
        BY RecoveryAssumption DEF SpentTyped, Spend
      <3>2. spent' = [counted EXCEPT !.faults = counted.faults + 1]
        BY <1>3
      <3>3. counted.faults + 1 \in 0 .. MaxFaults
        BY <1>3, <3>1, RecoveryAssumption DEF SpentTyped, Fault
      <3> HIDE DEF counted
      <3> QED BY <3>1, <3>2, <3>3 DEF SpentTyped
    <2> QED BY <1>1, <1>3, <2>1 DEF FileTyped
  <1> QED BY <1>2, <1>3 DEF PersistCounting

LEMMA PipelineAtTyped ==
  ASSUME NEW j \in Jobs, NEW pc \in PipelinePCs, pipeline \in [Jobs -> PipelinePCs],
         PipelineAt(j, pc)
  PROVE  pipeline' \in [Jobs -> PipelinePCs]
  BY DEF PipelineAt

LEMMA RolloutAtTyped ==
  ASSUME NEW k \in Rollouts, NEW pc \in {"raising", "observing", "promoting", "rolling"}, Typed,
         LiveRollout(k), RolloutAt(k, pc)
  PROVE  rollout' \in [Rollouts -> RolloutRecord] /\ RolloutsHave'
  BY DEF RolloutAt, Typed, MemoryTyped, RolloutRecord, RolloutsHave, LiveRollout

LEMMA RolloutEndsTyped ==
  ASSUME NEW k \in Rollouts, Typed, RolloutEnds(k)
  PROVE  rollout' \in [Rollouts -> RolloutRecord] /\ RolloutsHave'
  BY RecoveryAssumption
  DEF RolloutEnds, NoRollout, NoJob, NoVersion, Typed, MemoryTyped, RolloutRecord, RolloutsHave,
      LiveRollout

\* What a fresh coordinator is.
LEMMA FreshTyped ==
  /\ FreshCoordinator \in Coordinators
  /\ FreshCoordinator.state = "IDLE" /\ FreshCoordinator.job = NoJob
  /\ FreshCoordinator.cand = NoVersion
  /\ IdleCall \in [pc : CallPCs, image : Saved, became : JobStates]
  <1>1. /\ FreshCoordinator \in Coordinators
        /\ FreshCoordinator.state = "IDLE" /\ FreshCoordinator.job = NoJob
        /\ FreshCoordinator.cand = NoVersion
    BY RecoveryAssumption DEF FreshCoordinator, Coordinators, JobStates, NoJob, NoVersion
  <1>2. Baselines \in Saved
    BY <1>1, RegistryNew DEF Baselines, Saved
  <1> QED BY <1>1, <1>2 DEF IdleCall, CallPCs, JobStates

LEMMA RestartTyped ==
  ASSUME MemoryTyped, Restart
  PROVE  MemoryTyped'
  <1>1. coord' \in Coordinators /\ registry' \in Registries /\ engineJob' \in 0 .. MaxJobs
    BY FreshTyped, RegistryNew, RecoveryAssumption DEF Restart, NoJob
  <1>2. pipeline' \in [Jobs -> PipelinePCs]
    BY DEF Restart, PipelinePCs
  <1>3. rollout' \in [Rollouts -> RolloutRecord] /\ RolloutsHave'
    BY RecoveryAssumption DEF Restart, RolloutRecord, NoRollout, NoVersion, NoJob, RolloutsHave, LiveRollout
  <1>4. CallTyped'
    BY FreshTyped DEF Restart, CallTyped, CallPCs
  <1> QED BY <1>1, <1>2, <1>3, <1>4 DEF MemoryTyped, Restart

\* The fields of a coordinator that a step writes.
LEMMA CoordWritten ==
  ASSUME NEW c \in Coordinators, NEW s \in JobStates, NEW j \in 0 .. MaxJobs,
         NEW v \in Candidates \cup {NoVersion}, NEW on \in SUBSET Switches
  PROVE  /\ [c EXCEPT !.state = s] \in Coordinators
         /\ [c EXCEPT !.state = s, !.job = j] \in Coordinators
         /\ [c EXCEPT !.cand = v] \in Coordinators
         /\ [c EXCEPT !.controls = on] \in Coordinators
         /\ [c EXCEPT !.controls = on, !.cand = v] \in Coordinators
  BY DEF Coordinators

LEMMA CoordMoved ==
  ASSUME NEW c \in Coordinators, NEW s \in JobStates
  PROVE  /\ [c EXCEPT !.state = s] \in Coordinators
         /\ [c EXCEPT !.state = s, !.job = NoJob] \in Coordinators
  <1>1. NoJob \in 0 .. MaxJobs
    BY RecoveryAssumption DEF NoJob
  <1>2. c.cand \in Candidates \cup {NoVersion} /\ c.controls \in SUBSET Switches
    BY DEF Coordinators
  <1> QED BY <1>1, <1>2, CoordWritten

LEMMA EndJobTyped ==
  ASSUME Typed, NEW s \in JobStates, NEW reg \in Registries, EndJob(s, reg)
  PROVE  /\ coord' \in Coordinators /\ registry' \in Registries /\ engineJob' \in 0 .. MaxJobs
         /\ FileTyped' /\ SpentTyped' /\ excused' \subseteq Excuses
  <1>1. NoJob \in 0 .. MaxJobs
    BY RecoveryAssumption DEF NoJob
  <1>2. [coord EXCEPT !.state = s, !.job = NoJob] \in Coordinators
    BY CoordMoved DEF Typed, MemoryTyped
  <1> QED BY <1>1, <1>2, PersistTyped DEF Typed, MemoryTyped, EndJob, Becomes

LEMMA PipelineTyped ==
  ASSUME Typed, NEW j \in Jobs, PipelineStep(j)
  PROVE  Typed'
  <1> USE DEF Typed
  <1>0. j \in Candidates
    BY RecoveryAssumption DEF Jobs
  <1>a. \A s \in JobStates : [coord EXCEPT !.state = s] \in Coordinators
    BY CoordWritten DEF MemoryTyped, Coordinators
  <1>b. ASSUME NEW pc \in PipelinePCs, PipelineAt(j, pc)
        PROVE  pipeline' \in [Jobs -> PipelinePCs]
    BY <1>b, PipelineAtTyped DEF MemoryTyped
  <1>1. CASE Advance(j)
    <2>1. PICK t \in Transitions :
            /\ pipeline[j] = t[1]
            /\ IF CanTransition(coord.state, t[2])
                 THEN Becomes([coord EXCEPT !.state = t[2]], registry) /\ PipelineAt(j, t[3])
                 ELSE PipelineAt(j, "failing") /\ UNCHANGED <<coord, registry, file, spent, excused>>
            /\ UNCHANGED <<mode, engineJob, listed, traffic, byHand, rollout, call, promoted>>
      BY <1>1 DEF Advance
    <2>2. t[2] \in JobStates /\ t[3] \in PipelinePCs /\ "failing" \in PipelinePCs
      BY DEF Transitions, JobStates, PipelinePCs
    <2>3. CASE Becomes([coord EXCEPT !.state = t[2]], registry) /\ PipelineAt(j, t[3])
      BY <1>a, <1>b, <2>1, <2>2, <2>3, PersistTyped
      DEF Becomes, MemoryTyped, CallTyped, RolloutsHave, LiveRollout
    <2>4. CASE PipelineAt(j, "failing") /\ UNCHANGED <<coord, registry, file, spent, excused>>
      BY <1>b, <2>1, <2>2, <2>4
      DEF MemoryTyped, CallTyped, RolloutsHave, LiveRollout, FileTyped, SpentTyped
    <2> QED BY <2>1, <2>3, <2>4
  <1>2. CASE FinishTraining(j)
    BY <1>0, <1>b, <1>2, RegistryCandidate
    DEF FinishTraining, PipelinePCs, MemoryTyped, CallTyped, RolloutsHave, LiveRollout, FileTyped, SpentTyped
  <1>3. CASE ListCandidate(j)
    <2>1. coord' \in Coordinators
      BY <1>0, <1>3, CoordWritten DEF ListCandidate, MemoryTyped, Coordinators
    <2> QED BY <1>0, <1>b, <1>3, <2>1
        DEF ListCandidate, PipelinePCs, MemoryTyped, CallTyped, RolloutsHave, LiveRollout, FileTyped,
            SpentTyped, Overtaking, Excuses
  <1>4. CASE PassGate(j)
    <2>1. {"VALIDATED", "SHADOW", "APPROVED"} \subseteq Lifecycles
      BY DEF Lifecycles
    <2> QED BY <1>0, <1>b, <1>4, <2>1, RegistryLifecycle
        DEF PassGate, PipelinePCs, MemoryTyped, CallTyped, RolloutsHave, LiveRollout, FileTyped, SpentTyped
  <1>5. CASE FailGate(j)
    <2>1. "REJECTED" \in Lifecycles
      BY DEF Lifecycles
    <2> QED BY <1>0, <1>b, <1>5, <2>1, RegistryLifecycle
        DEF FailGate, PipelinePCs, MemoryTyped, CallTyped, RolloutsHave, LiveRollout, FileTyped, SpentTyped
  <1>6. CASE EndPipeline(j)
    <2>1. WithLifecycle(registry, j, "REJECTED") \in Registries
      BY <1>0, RegistryLifecycle DEF Lifecycles, MemoryTyped
    <2>2. \E s \in JobStates, reg \in Registries : EndJob(s, reg)
      BY <1>6, <2>1 DEF EndPipeline, JobStates, MemoryTyped
    <2> QED BY <1>b, <1>6, <2>2, EndJobTyped
        DEF EndPipeline, PipelinePCs, MemoryTyped, CallTyped, RolloutsHave, LiveRollout
  <1> QED BY <1>1, <1>2, <1>3, <1>4, <1>5, <1>6 DEF PipelineStep

LEMMA RolloutTyped ==
  ASSUME Typed, NEW k \in Rollouts, RolloutStep(k)
  PROVE  Typed'
  <1> USE DEF Typed
  <1> DEFINE v == rollout[k].cand
  <1>0. LiveRollout(k) => v \in Candidates
    BY DEF MemoryTyped, RolloutsHave
  <1>a. {"CANARY"} \subseteq Lifecycles /\ {"PROMOTED", "ROLLED_BACK"} \subseteq JobStates
    BY DEF Lifecycles, JobStates
  <1>b. v \in Candidates =>
          /\ WithLifecycle(registry, v, "CANARY") \in Registries
          /\ WithPromoted(registry, v) \in Registries /\ WithRolledBack(registry, v) \in Registries
    BY <1>a, RegistryLifecycle, RegistryPromotion DEF MemoryTyped
  <1>1. CASE AnnounceRollout(k)
    BY <1>0, <1>b, <1>1, RolloutAtTyped
    DEF AnnounceRollout, LiveRollout, MemoryTyped, CallTyped, FileTyped, SpentTyped
  <1>2. CASE RaiseTraffic(k)
    BY <1>2, RolloutAtTyped DEF RaiseTraffic, LiveRollout, MemoryTyped, CallTyped, FileTyped, SpentTyped
  <1>3. CASE ObserveStage(k)
    BY <1>3, RolloutAtTyped DEF ObserveStage, LiveRollout, MemoryTyped, CallTyped, FileTyped, SpentTyped
  <1>4. CASE Promote(k)
    <2>1. v \in Candidates
      BY <1>0, <1>4 DEF Promote, LiveRollout
    <2>2. promoted' \in Versions
      BY <1>4, <2>1 DEF Promote, Versions
    <2> QED BY <1>a, <1>b, <1>4, <2>1, <2>2, EndJobTyped, RolloutEndsTyped
        DEF Promote, MemoryTyped, CallTyped
  <1>5. CASE PromotePanics(k)
    BY <1>5, RestartTyped DEF PromotePanics, FileTyped, SpentTyped
  <1>6. CASE PromotionRefused(k)
    BY <1>6, RolloutAtTyped DEF PromotionRefused, LiveRollout, MemoryTyped, CallTyped, FileTyped, SpentTyped
  <1>7. CASE Rollback(k)
    <2>1. v \in Candidates
      BY <1>0, <1>7 DEF Rollback, LiveRollout
    <2> QED BY <1>a, <1>b, <1>7, <2>1, EndJobTyped, RolloutEndsTyped DEF Rollback, MemoryTyped, CallTyped
  <1> QED BY <1>1, <1>2, <1>3, <1>4, <1>5, <1>6, <1>7 DEF RolloutStep

LEMMA OperatorTyped ==
  ASSUME Typed,
         \/ Trigger \/ (\E v \in Candidates : Approve(v) \/ Reject(v)) \/ Cancel
         \/ (\E c \in Switches, on \in BOOLEAN : SetControl(c, on))
         \/ CleanOrphan \/ RequestRecovery \/ DamageFile \/ Crash
  PROVE  Typed'
  <1> USE DEF Typed
  <1>a. ASSUME NEW s \in JobStates
        PROVE  /\ [coord EXCEPT !.state = s] \in Coordinators
               /\ [coord EXCEPT !.state = s, !.job = NoJob] \in Coordinators
    BY <1>a, CoordMoved DEF MemoryTyped
  <1>b. {"TRIGGERED", "CANARY", "REJECTED", "FAILED"} \subseteq JobStates
    BY DEF JobStates
  <1>1. CASE Trigger
    <2> DEFINE j == spent.jobs + 1
               c == [coord EXCEPT !.state = "TRIGGERED", !.job = j]
    <2>1. j \in Jobs /\ j \in 0 .. MaxJobs
      BY <1>1, RecoveryAssumption DEF Trigger, SpentTyped, Jobs
    <2>2. c \in Coordinators
      BY <1>b, <2>1, CoordWritten DEF MemoryTyped, Coordinators
    <2>3. pipeline' \in [Jobs -> PipelinePCs]
      BY <1>1, <2>1, PipelineAtTyped DEF Trigger, MemoryTyped, PipelinePCs
    <2>4. FileTyped' /\ SpentTyped' /\ excused' \subseteq Excuses
      BY <1>1, <2>2, PersistCountingTyped DEF Trigger, MemoryTyped
    <2> QED BY <1>1, <2>1, <2>2, <2>3, <2>4
        DEF Trigger, MemoryTyped, CallTyped, RolloutsHave, LiveRollout
  <1>2. ASSUME NEW v \in Candidates, Approve(v)
        PROVE  Typed'
    <2>1. rollout' \in [Rollouts -> RolloutRecord] /\ RolloutsHave'
      BY <1>2 DEF Approve, MemoryTyped, Coordinators, RolloutRecord, RolloutsHave, LiveRollout
    <2> QED BY <1>a, <1>b, <1>2, <2>1, PersistTyped DEF Approve, Becomes, MemoryTyped, CallTyped
  <1>3. ASSUME NEW v \in Candidates, Reject(v)
        PROVE  Typed'
    <2>1. WithLifecycle(registry, v, "REJECTED") \in Registries
      BY RegistryLifecycle DEF Lifecycles, MemoryTyped
    <2> QED BY <1>b, <1>3, <2>1, EndJobTyped
        DEF Reject, goroutines, MemoryTyped, CallTyped, RolloutsHave, LiveRollout
  <1>4. CASE Cancel
    BY <1>b, <1>4, EndJobTyped DEF Cancel, goroutines, MemoryTyped, CallTyped, RolloutsHave, LiveRollout
  <1>5. ASSUME NEW c \in Switches, NEW on \in BOOLEAN, SetControl(c, on)
        PROVE  Typed'
    <2> DEFINE new == [coord EXCEPT !.controls = IF on THEN coord.controls \cup {c}
                                                 ELSE coord.controls \ {c}]
    <2>1. new \in Coordinators
      BY DEF MemoryTyped, Coordinators
    <2> QED BY <1>5, <2>1, PersistCountingTyped
        DEF SetControl, goroutines, MemoryTyped, CallTyped, RolloutsHave, LiveRollout
  <1>6. CASE CleanOrphan
    BY <1>a, <1>b, <1>6, PersistTyped
    DEF CleanOrphan, Becomes, goroutines, MemoryTyped, CallTyped, RolloutsHave, LiveRollout
  <1>7. CASE RequestRecovery
    <2>1. CallTyped'
      BY <1>7 DEF RequestRecovery, CallAt, MemoryTyped, CallTyped, CallPCs
    <2> QED BY <1>7, <2>1, SpendTyped
        DEF RequestRecovery, goroutines, MemoryTyped, RolloutsHave, LiveRollout, FileTyped, SpentTyped
  <1>8. CASE DamageFile
    <2>1. "damaged" \in Excuses
      BY DEF Excuses
    <2> QED BY <1>8, <2>1, SpendTyped
        DEF DamageFile, MemoryTyped, CallTyped, RolloutsHave, LiveRollout, FileTyped, SpentTyped
  <1>9. CASE Crash
    BY <1>9, SpendTyped, RestartTyped DEF Crash, FileTyped, SpentTyped
  <1> QED BY <1>1, <1>2, <1>3, <1>4, <1>5, <1>6, <1>7, <1>8, <1>9

\* The three branches of Settle.
SettleFrame ==
  /\ call.pc = "settling"
  /\ UNCHANGED <<mode, engineJob, listed, registry, goroutines, file, spent, excused, promoted>>
SettleInterrupted ==
  /\ SettleFrame /\ call.image.coord.state \in InFlight
  /\ coord' = [coord EXCEPT !.state = "FAILED", !.job = NoJob]
  /\ call' = [call EXCEPT !.pc = "draining", !.became = "FAILED"]
  /\ UNCHANGED <<traffic, byHand>>
SettleRollout ==
  /\ SettleFrame /\ call.image.coord.state = "CANARY"
  /\ coord' = [coord EXCEPT !.state = "IDLE"]
  /\ call' = [call EXCEPT !.pc = "draining", !.became = "IDLE"]
  /\ traffic' = FALSE /\ byHand' = FALSE
SettleNothing ==
  /\ SettleFrame /\ call.image.coord.state \notin InFlight \cup {"CANARY"}
  /\ call' = [call EXCEPT !.pc = "draining"]
  /\ UNCHANGED <<coord, traffic, byHand>>

LEMMA SettleCases == Settle => SettleInterrupted \/ SettleRollout \/ SettleNothing
  <1> SUFFICES ASSUME Settle
               PROVE  SettleInterrupted \/ SettleRollout \/ SettleNothing
    OBVIOUS
  <1>0. SettleFrame
    BY DEF Settle, SettleFrame
  <1>1. CASE call.image.coord.state \in InFlight
    BY <1>0, <1>1 DEF Settle, SettleInterrupted, InFlight
  <1>2. CASE call.image.coord.state = "CANARY"
    BY <1>0, <1>2 DEF Settle, SettleRollout, InFlight
  <1>3. CASE call.image.coord.state \notin InFlight \cup {"CANARY"}
    BY <1>0, <1>3 DEF Settle, SettleNothing, InFlight, CallAt
  <1> QED BY <1>1, <1>2, <1>3

LEMMA CallTypedSteps ==
  ASSUME Typed, RecoveryStep
  PROVE  Typed'
  <1> USE DEF Typed
  <1>a. ASSUME NEW pc \in CallPCs, CallAt(pc)
        PROVE  CallTyped'
    BY <1>a DEF CallAt, MemoryTyped, CallTyped
  <1>1. CASE LoadState
    <2> DEFINE image == IF file.kind = "saved" THEN file.image
                        ELSE Image(FreshCoordinator, PointersOnly(registry))
    <2>1. PointersOnly(registry) \in Registries
      BY DEF PointersOnly, MemoryTyped, Registries, Lifecycles
    <2>2. image \in Saved
      BY <2>1, FreshTyped DEF Image, FileTyped, NoFile, Damaged, Saved
    <2>3. call' = [pc |-> "controls", image |-> image, became |-> image.coord.state]
      BY <1>1 DEF LoadState
    <2>4. CallTyped'
      <3> HIDE DEF image
      <3> QED BY <2>2, <2>3 DEF CallTyped, CallPCs, Coordinators, Saved
    <2>5. excused' \subseteq Excuses
      BY <1>1 DEF LoadState, Excuses
    <2> QED BY <1>1, <2>4, <2>5
        DEF LoadState, goroutines, MemoryTyped, FileTyped, SpentTyped, RolloutsHave, LiveRollout
  <1>2. CASE RestoreControls
    <2>1. call' = [call EXCEPT !.pc = "models"] /\ coord' \in Coordinators /\ listed' \subseteq Candidates
      BY <1>2 DEF RestoreControls, CallAt, MemoryTyped, CallTyped, Saved, Coordinators
    <2> QED BY <1>a, <1>2, <2>1
        DEF RestoreControls, CallPCs, goroutines, MemoryTyped, FileTyped, SpentTyped, RolloutsHave, LiveRollout
  <1>3. CASE RestoreModels
    <2>1. registry' \in Registries
      BY <1>3, RegistryRestored DEF RestoreModels, MemoryTyped, CallTyped, Saved
    <2> QED BY <1>a, <1>3, <2>1
        DEF RestoreModels, CallPCs, goroutines, MemoryTyped, FileTyped, SpentTyped, RolloutsHave, LiveRollout
  <1>4. CASE ReconcileModels
    <2>1. registry' \in Registries
      BY <1>4, RegistryReconciled DEF ReconcileModels, MemoryTyped
    <2>2. SpentTyped' /\ excused' \subseteq Excuses
      BY <1>4, SpendTyped DEF ReconcileModels, SpentTyped, Excuses
    <2> QED BY <1>a, <1>4, <2>1, <2>2
        DEF ReconcileModels, CallPCs, goroutines, MemoryTyped, FileTyped, RolloutsHave, LiveRollout
  <1>5. CASE Settle
    <2>1. {"FAILED", "IDLE"} \subseteq JobStates
      BY DEF JobStates
    <2>2. CASE SettleInterrupted
      <3>1. coord' \in Coordinators
        BY <2>1, <2>2, CoordMoved DEF SettleInterrupted, MemoryTyped
      <3> QED BY <2>1, <2>2, <3>1
          DEF SettleInterrupted, SettleFrame, CallPCs, goroutines, MemoryTyped, CallTyped, FileTyped,
              SpentTyped, RolloutsHave, LiveRollout
    <2>3. CASE SettleRollout
      <3>1. coord' \in Coordinators
        BY <2>1, <2>3, CoordMoved DEF SettleRollout, MemoryTyped
      <3>2. traffic' \in BOOLEAN /\ byHand' \in BOOLEAN
        BY <2>3 DEF SettleRollout
      <3>3. CallTyped'
        BY <2>1, <2>3 DEF SettleRollout, CallPCs, MemoryTyped, CallTyped
      <3> QED BY <2>3, <3>1, <3>2, <3>3
          DEF SettleRollout, SettleFrame, goroutines, MemoryTyped, FileTyped, SpentTyped, RolloutsHave,
              LiveRollout
    <2>4. CASE SettleNothing
      BY <1>5, <2>4
      DEF SettleNothing, SettleFrame, CallPCs, goroutines, MemoryTyped, CallTyped, FileTyped, SpentTyped,
          RolloutsHave, LiveRollout
    <2> QED BY <1>5, <2>2, <2>3, <2>4, SettleCases
  <1>6. CASE Drain
    BY <1>a, <1>6
    DEF Drain, CallPCs, goroutines, MemoryTyped, FileTyped, SpentTyped, RolloutsHave, LiveRollout
  <1>7. CASE Commit
    <2> DEFINE c == [coord EXCEPT !.state = call.became]
    <2>1. c \in Coordinators
      BY DEF MemoryTyped, CallTyped, Coordinators
    <2>2. FileTyped' /\ SpentTyped' /\ excused' \subseteq Excuses
      <3>1. CASE file' = FileOf(Image(c, registry)) /\ excused' = excused \ {"unsaved"} /\ UNCHANGED spent
        BY <2>1, <3>1, FileOfTyped DEF MemoryTyped, SpentTyped
      <3>2. CASE Fault /\ spent' = Spend("faults") /\ excused' = excused \cup {"unsaved"} /\ UNCHANGED file
        BY <3>2, SpendTyped DEF FileTyped, SpentTyped, Excuses
      <3> QED BY <1>7, <3>1, <3>2 DEF Commit
    <2>3. CallTyped'
      BY <1>7, FreshTyped DEF Commit, CallTyped
    <2> QED BY <1>7, <2>1, <2>2, <2>3 DEF Commit, goroutines, MemoryTyped, RolloutsHave, LiveRollout
  <1> QED BY <1>1, <1>2, <1>3, <1>4, <1>5, <1>6, <1>7 DEF RecoveryStep

LEMMA InitTyped == RecoveryInit => Typed
  <1> SUFFICES ASSUME RecoveryInit
               PROVE  Typed
    OBVIOUS
  <1>1. MemoryTyped
    BY FreshTyped, RegistryNew, RecoveryAssumption
    DEF RecoveryInit, MemoryTyped, NoJob, NoVersion, PipelinePCs, NoRollout, RolloutRecord, RolloutsHave,
        LiveRollout, CallTyped, CallPCs
  <1> QED BY <1>1, RecoveryAssumption DEF RecoveryInit, Typed, FileTyped, SpentTyped, Versions

LEMMA NextTyped == Typed /\ [RecoveryNext]_vars => Typed'
  <1> SUFFICES ASSUME Typed, [RecoveryNext]_vars
               PROVE  Typed'
    OBVIOUS
  <1>1. CASE UNCHANGED vars
    BY <1>1 DEF vars, Typed, MemoryTyped, FileTyped, SpentTyped, CallTyped, RolloutsHave, LiveRollout
  <1> QED BY <1>1, PipelineTyped, RolloutTyped, OperatorTyped, CallTypedSteps DEF RecoveryNext

-----------------------------------------------------------------------------
(* Who is at work.                                                          *)

\* Control points behind the registration of a candidate.
Listing == {"toValidating", "validating", "toShadow", "shadow", "toAwaiting", "marking"}
\* Control points of ExecuteRecovery at which it has read the file.
Reading == {"controls", "models", "reconciling", "settling"}
Decided == {"draining", "committing"}

\* A pipeline that will change the coordinator's state before it ends.
Unfinished(j) == pipeline[j] \notin {"none", "done", "marking"}
\* A rollout that will take its traffic away before it ends.
Driving(k) == rollout[k].pc \in {"observing", "promoting", "rolling"}

(* A process that has not recovered yet runs nothing else.                  *)
FreshProcess ==
  mode = "starting" =>
    /\ ~Worker
    /\ call.pc # "idle"
    /\ engineJob = NoJob /\ coord.job = NoJob /\ coord.state \in Startable
    /\ call.pc \in {"loading", "controls", "models"} => registry = NewRegistry

TrafficDriven ==
  traffic /\ (mode = "serving" \/ call.pc = "committing") => \E k \in Rollouts : Driving(k)

ProcessOK == FreshProcess /\ TrafficDriven

(* In the file and in what was read from it, as in memory, a state that     *)
(* awaits a decision comes with a candidate to decide on.                   *)
Decidable(c) == c.state = "AWAITING_APPROVAL" => c.cand # NoVersion

FileDecidable == file.kind = "saved" => Decidable(file.image.coord)

CandidateListed ==
  /\ coord.cand = NoVersion \/ coord.cand \in listed
  /\ (\E j \in Jobs : pipeline[j] \in Listing) => coord.cand # NoVersion

\* Who will lead the coordinator out of a state that refuses triggers.
Way ==
  coord.state \notin Startable =>
    \/ coord.state = "AWAITING_APPROVAL" /\ coord.cand # NoVersion
    \/ coord.state = "CANARY" /\ \E k \in Rollouts : LiveRollout(k)
    \/ coord.state \in InFlight /\ \E j \in Jobs : Unfinished(j)

CallLocals ==
  /\ call.pc \in Reading \cup Decided => Decidable(call.image.coord)
  /\ call.pc \in Reading => call.became = call.image.coord.state
  /\ call.pc \in Decided => call.became \in Startable \cup {"AWAITING_APPROVAL"}
  /\ call.pc \in (Reading \ {"controls"}) \cup Decided /\ call.became = "AWAITING_APPROVAL" =>
       coord.cand # NoVersion

WayOK == FileDecidable /\ CandidateListed /\ Way /\ CallLocals

\* Every step belongs to one of these.
LEMMA NextCases ==
  ASSUME [RecoveryNext]_vars
  PROVE  \/ UNCHANGED vars
         \/ Trigger
         \/ \E j \in Jobs : \/ Advance(j) \/ FinishTraining(j) \/ ListCandidate(j) \/ PassGate(j)
                            \/ FailGate(j) \/ EndPipeline(j)
         \/ \E v \in Candidates : Approve(v) \/ Reject(v)
         \/ Cancel
         \/ \E c \in Switches, on \in BOOLEAN : SetControl(c, on)
         \/ \E k \in Rollouts : \/ AnnounceRollout(k) \/ RaiseTraffic(k) \/ ObserveStage(k)
                                \/ Promote(k) \/ PromotePanics(k) \/ PromotionRefused(k) \/ Rollback(k)
         \/ CleanOrphan \/ RequestRecovery
         \/ LoadState \/ RestoreControls \/ RestoreModels \/ ReconcileModels \/ Settle \/ Drain \/ Commit
         \/ DamageFile \/ Crash
  BY DEF RecoveryNext, PipelineStep, RolloutStep, RecoveryStep

\* Only a process that serves does anything but recover.
LEMMA NextServing ==
  ASSUME RecoveryNext
  PROVE  \/ Serving
         \/ RecoveryStep \/ DamageFile \/ Crash
  BY DEF RecoveryNext, PipelineStep, RolloutStep, Trigger, Approve, Reject, Cancel, SetControl, CleanOrphan,
         RequestRecovery

\* What becomes of the pipelines and rollouts.
LEMMA PipelineGoes ==
  ASSUME Typed, NEW j \in Jobs, NEW pc, PipelineAt(j, pc)
  PROVE  pipeline'[j] = pc /\ \A i \in Jobs \ {j} : pipeline'[i] = pipeline[i]
  BY DEF Typed, MemoryTyped, PipelineAt

LEMMA RolloutGoes ==
  ASSUME Typed, NEW k \in Rollouts, NEW pc
  PROVE  /\ RolloutAt(k, pc) => rollout'[k] = [rollout[k] EXCEPT !.pc = pc] /\ rollout'[k].pc = pc
         /\ RolloutEnds(k) => rollout'[k].pc = "done"
         /\ RolloutAt(k, pc) \/ RolloutEnds(k) => \A l \in Rollouts \ {k} : rollout'[l] = rollout[l]
  BY DEF Typed, MemoryTyped, RolloutAt, RolloutEnds, NoRollout, RolloutRecord

LEMMA CallGoes ==
  ASSUME Typed, NEW pc, CallAt(pc)
  PROVE  call'.pc = pc /\ call'.image = call.image /\ call'.became = call.became
  BY DEF CallAt, Typed, MemoryTyped, CallTyped

LEMMA RestartProcess ==
  ASSUME Typed, Restart
  PROVE  ProcessOK'
  <1>1. \A j \in Jobs : pipeline'[j] \in {"none", "done"}
    BY DEF Restart
  <1>2. \A k \in Rollouts : rollout'[k].pc \in {"none", "done"}
    BY DEF Restart, NoRollout
  <1>3. coord'.job = NoJob /\ coord'.state \in Startable
    BY FreshTyped DEF Restart, Startable
  <1>4. call'.pc = "loading"
    BY DEF Restart, IdleCall
  <1> QED BY <1>1, <1>2, <1>3, <1>4
      DEF Restart, ProcessOK, FreshProcess, TrafficDriven, Worker, LivePipeline, LiveRollout

LEMMA NextProcess == Typed /\ ProcessOK /\ [RecoveryNext]_vars => ProcessOK'
  <1> SUFFICES ASSUME Typed, ProcessOK, [RecoveryNext]_vars
               PROVE  ProcessOK'
    OBVIOUS
  <1> USE DEF ProcessOK, FreshProcess, TrafficDriven
  <1>1. CASE UNCHANGED vars
    BY <1>1 DEF vars, Worker, LivePipeline, LiveRollout, Driving
  <1>2. CASE RecoveryNext /\ Serving
    <2>0. mode = "serving"
      BY <1>2 DEF Serving
    <2>1. ASSUME NEW k \in Rollouts, RaiseTraffic(k)
          PROVE  ProcessOK'
      BY <2>0, <2>1, RolloutGoes DEF RaiseTraffic, Driving
    <2>2. ASSUME NEW k \in Rollouts, Promote(k) \/ Rollback(k)
          PROVE  ProcessOK'
      BY <2>0, <2>2 DEF Promote, Rollback
    <2>3. ASSUME NEW k \in Rollouts, ObserveStage(k) \/ PromotionRefused(k) \/ AnnounceRollout(k)
          PROVE  ProcessOK'
      <3>1. mode' = mode /\ traffic' = traffic
        BY <2>3 DEF ObserveStage, PromotionRefused, AnnounceRollout
      <3>2. \A l \in Rollouts : Driving(l) => Driving(l)'
        <4>1. \/ \E pc \in {"promoting", "rolling"} : RolloutAt(k, pc)
              \/ rollout[k].pc = "announcing" /\ RolloutAt(k, "raising")
          BY <2>3 DEF ObserveStage, PromotionRefused, AnnounceRollout
        <4>2. CASE \E pc \in {"promoting", "rolling"} : RolloutAt(k, pc)
          <5>1. PICK pc \in {"promoting", "rolling"} : RolloutAt(k, pc)
            BY <4>2
          <5>2. /\ rollout'[k].pc = pc
                /\ \A l \in Rollouts \ {k} : rollout'[l] = rollout[l]
            BY <5>1, RolloutGoes
          <5> QED BY <5>1, <5>2 DEF Driving
        <4>3. CASE rollout[k].pc = "announcing" /\ RolloutAt(k, "raising")
          <5>1. \A l \in Rollouts \ {k} : rollout'[l] = rollout[l]
            BY <4>3, RolloutGoes
          <5> QED BY <4>3, <5>1 DEF Driving
        <4> QED BY <4>1, <4>2, <4>3
      <3> QED BY <2>0, <3>1, <3>2
    <2>4. ASSUME NEW k \in Rollouts, PromotePanics(k)
          PROVE  ProcessOK'
      BY <2>4, RestartProcess DEF PromotePanics
    <2>5. ASSUME NEW v \in Candidates, Approve(v)
          PROVE  ProcessOK'
      <3>1. \A l \in Rollouts : Driving(l) => Driving(l)'
        BY <2>5 DEF Approve, Driving, Typed, MemoryTyped
      <3> QED BY <2>0, <2>5, <3>1 DEF Approve
    <2>6. ASSUME NEW j \in Jobs, Advance(j) \/ FinishTraining(j) \/ ListCandidate(j) \/ PassGate(j)
                                 \/ FailGate(j) \/ EndPipeline(j)
          PROVE  ProcessOK'
      <3>1. UNCHANGED <<mode, traffic, rollout>>
        BY <2>6 DEF Advance, FinishTraining, ListCandidate, PassGate, FailGate, EndPipeline
      <3> QED BY <2>0, <3>1 DEF Driving
    <2>7. CASE Trigger \/ Cancel \/ CleanOrphan \/ RequestRecovery \/ DamageFile
      BY <2>0, <2>7 DEF Trigger, Cancel, CleanOrphan, RequestRecovery, DamageFile, goroutines, Driving
    <2>8. ASSUME NEW v \in Candidates, Reject(v)
          PROVE  ProcessOK'
      BY <2>0, <2>8 DEF Reject, goroutines, Driving
    <2>9. ASSUME NEW c \in Switches, NEW on \in BOOLEAN, SetControl(c, on)
          PROVE  ProcessOK'
      BY <2>0, <2>9 DEF SetControl, goroutines, Driving
    <2>10. CASE Crash
      BY <2>10, RestartProcess DEF Crash
    <2>11. CASE RecoveryStep
      <3>1. mode' = "serving" /\ UNCHANGED rollout
        BY <2>0, <2>11, SettleCases
        DEF RecoveryStep, LoadState, RestoreControls, RestoreModels, ReconcileModels, SettleInterrupted,
            SettleRollout, SettleNothing, SettleFrame, Drain, Commit, goroutines
      <3>2. traffic' = traffic \/ traffic' = FALSE
        BY <2>11, SettleCases
        DEF RecoveryStep, LoadState, RestoreControls, RestoreModels, ReconcileModels, SettleInterrupted,
            SettleRollout, SettleNothing, SettleFrame, Drain, Commit, goroutines
      <3> QED BY <2>0, <3>1, <3>2 DEF Driving
    <2> QED BY <1>1, <1>2, <2>1, <2>2, <2>3, <2>4, <2>5, <2>6, <2>7, <2>8, <2>9, <2>10, <2>11, NextCases
        DEF RecoveryStep
  <1>3. CASE RecoveryNext /\ ~Serving
    <2>0. mode = "starting" /\ Startable \subseteq JobStates
      BY <1>3 DEF Serving, Typed, MemoryTyped, Startable, JobStates
    <2>1. CASE LoadState \/ RestoreControls \/ RestoreModels \/ ReconcileModels
      <3>1. UNCHANGED <<mode, engineJob, traffic, pipeline, rollout>>
        BY <2>1 DEF LoadState, RestoreControls, RestoreModels, ReconcileModels, goroutines
      <3>2. coord'.job = coord.job /\ coord'.state = coord.state
        BY <2>1 DEF LoadState, RestoreControls, RestoreModels, ReconcileModels, Typed, MemoryTyped,
                    Coordinators
      <3>3. /\ call'.pc \in Reading
            /\ call'.pc \in {"controls", "models"} =>
                 call.pc \in {"loading", "controls"} /\ registry' = registry
        BY <2>1 DEF LoadState, RestoreControls, RestoreModels, ReconcileModels, CallAt, Reading, Typed,
                    MemoryTyped, CallTyped
      <3> QED BY <2>0, <3>1, <3>2, <3>3 DEF Worker, LivePipeline, LiveRollout, Driving, Reading
    <2>2. CASE Settle
      <3>1. UNCHANGED <<mode, engineJob, pipeline, rollout>>
        BY <2>2, SettleCases
        DEF SettleInterrupted, SettleRollout, SettleNothing, SettleFrame, goroutines
      <3>3. call'.pc = "draining"
        BY <2>2, SettleCases
        DEF SettleInterrupted, SettleRollout, SettleNothing, Typed, MemoryTyped, CallTyped
      <3>2. coord'.job = NoJob /\ coord'.state \in Startable
        BY <2>0, <2>2, SettleCases
        DEF SettleInterrupted, SettleRollout, SettleNothing, SettleFrame, Typed, MemoryTyped, Coordinators,
            Startable
      <3> QED BY <2>0, <3>1, <3>2, <3>3 DEF Worker, LivePipeline, LiveRollout
    <2>3. CASE Drain
      BY <2>0, <2>3
      DEF Drain, CallAt, goroutines, Worker, LivePipeline, LiveRollout, Typed, MemoryTyped, CallTyped
    <2>4. CASE Commit
      BY <2>0, <2>4 DEF Commit, goroutines, Worker, LivePipeline, LiveRollout, Driving
    <2>5. CASE DamageFile
      BY <2>5 DEF DamageFile, Worker, LivePipeline, LiveRollout, Driving
    <2>6. CASE Crash
      BY <2>6, RestartProcess DEF Crash
    <2> QED BY <1>3, <2>1, <2>2, <2>3, <2>4, <2>5, <2>6, NextServing DEF RecoveryStep
  <1> QED BY <1>1, <1>2, <1>3

-----------------------------------------------------------------------------
(* The way out of a state that refuses triggers.                            *)

\* What is saved is the state it is given, or the file stays.
LEMMA PersistSaves ==
  ASSUME NEW c, NEW reg, NEW what,
         \/ Persist(c, reg) \/ PersistCounting(c, reg, what)
  PROVE  file' = file \/ file' = FileOf(Image(c, reg))
  BY DEF Persist, PersistCounting

LEMMA SavesDecidable ==
  ASSUME NEW c, NEW reg, FileDecidable, Decidable(c), file' = file \/ file' = FileOf(Image(c, reg))
  PROVE  FileDecidable'
  BY DEF FileDecidable, Decidable, FileOf, Image

\* The recovery is not disturbed by a step that leaves a candidate in place.
LEMMA CallKept ==
  ASSUME CallLocals, call' = call, coord.cand # NoVersion => coord'.cand # NoVersion
  PROVE  CallLocals'
  BY DEF CallLocals, Decidable

LEMMA CoordDecidable ==
  ASSUME Way
  PROVE  Decidable(coord)
  BY DEF Way, Decidable, InFlight, Startable

\* Ending a job needs no way out.
LEMMA EndJobWay ==
  ASSUME Typed, WayOK, NEW s \in {"PROMOTED", "REJECTED", "FAILED", "ROLLED_BACK"}, NEW reg,
         EndJob(s, reg), listed' = listed, call' = call,
         \A j \in Jobs : pipeline'[j] \in Listing => pipeline[j] \in Listing
  PROVE  WayOK'
  <1>1. coord'.state = s /\ coord'.cand = coord.cand
    BY DEF EndJob, Becomes, Typed, MemoryTyped, Coordinators
  <1>2. Way'
    BY <1>1 DEF Way, Startable
  <1>3. FileDecidable'
    <2>1. Decidable([coord EXCEPT !.state = s, !.job = NoJob])
      BY DEF Decidable, Typed, MemoryTyped, Coordinators
    <2> QED BY <2>1, PersistSaves, SavesDecidable DEF EndJob, Becomes, WayOK
  <1>4. CandidateListed'
    BY <1>1 DEF WayOK, CandidateListed
  <1>5. CallLocals'
    BY <1>1, CallKept DEF WayOK
  <1> QED BY <1>2, <1>3, <1>4, <1>5 DEF WayOK

LEMMA RestartWay ==
  ASSUME Typed, FileDecidable, Restart, file' = file
  PROVE  WayOK'
  <1>1. coord'.state = "IDLE" /\ coord'.cand = NoVersion
    BY FreshTyped DEF Restart
  <1>2. \A j \in Jobs : pipeline'[j] \notin Listing
    BY DEF Restart, Listing
  <1>3. call'.pc = "loading"
    BY DEF Restart, IdleCall
  <1> QED BY <1>1, <1>2, <1>3
      DEF WayOK, FileDecidable, CandidateListed, Way, CallLocals, Startable, Reading, Decided

LEMMA PipelineWay ==
  ASSUME Typed, WayOK, NEW j \in Jobs,
         \/ Advance(j) \/ FinishTraining(j) \/ ListCandidate(j) \/ PassGate(j) \/ FailGate(j)
         \/ EndPipeline(j)
  PROVE  WayOK'
  <1> USE DEF WayOK
  <1>1. CASE Advance(j)
    <2>1. PICK t \in Transitions :
            /\ pipeline[j] = t[1]
            /\ IF CanTransition(coord.state, t[2])
                 THEN Becomes([coord EXCEPT !.state = t[2]], registry) /\ PipelineAt(j, t[3])
                 ELSE PipelineAt(j, "failing") /\ UNCHANGED <<coord, registry, file, spent, excused>>
            /\ UNCHANGED <<mode, engineJob, listed, traffic, byHand, rollout, call, promoted>>
      BY <1>1 DEF Advance
    <2>2. /\ t[2] = "AWAITING_APPROVAL" => t[1] \in Listing
          /\ t[2] # "AWAITING_APPROVAL" => t[2] \in InFlight /\ t[3] \notin {"none", "done", "marking"}
          /\ t[3] \in Listing => t[1] \in Listing
      BY DEF Transitions, Listing, InFlight
    <2>3. CASE Becomes([coord EXCEPT !.state = t[2]], registry) /\ PipelineAt(j, t[3])
      <3>1. coord'.state = t[2] /\ coord'.cand = coord.cand
        BY <2>3 DEF Becomes, Typed, MemoryTyped, Coordinators
      <3>2. pipeline'[j] = t[3] /\ \A i \in Jobs \ {j} : pipeline'[i] = pipeline[i]
        BY <2>3, PipelineGoes
      <3>3. CandidateListed'
        BY <2>1, <2>2, <3>1, <3>2 DEF CandidateListed
      <3>4. Way'
        BY <2>1, <2>2, <3>1, <3>2 DEF Way, CandidateListed, Unfinished
      <3>5. FileDecidable'
        <4>1. Decidable([coord EXCEPT !.state = t[2]])
          BY <2>1, <2>2 DEF Decidable, CandidateListed, Typed, MemoryTyped, Coordinators
        <4> QED BY <2>3, <4>1, PersistSaves, SavesDecidable DEF Becomes
      <3> QED BY <2>1, <3>1, <3>3, <3>4, <3>5, CallKept
    <2>4. CASE PipelineAt(j, "failing") /\ UNCHANGED <<coord, registry, file, spent, excused>>
      <3>1. pipeline'[j] = "failing" /\ \A i \in Jobs \ {j} : pipeline'[i] = pipeline[i]
        BY <2>4, PipelineGoes
      <3>2. CandidateListed' /\ Way'
        BY <2>1, <2>4, <3>1 DEF CandidateListed, Way, Unfinished, Listing, LiveRollout
      <3> QED BY <2>1, <2>4, <3>2, CallKept DEF FileDecidable, Decidable
    <2> QED BY <2>1, <2>3, <2>4
  <1>2. CASE FinishTraining(j)
    <2>1. UNCHANGED <<coord, listed, rollout, file, call>>
      BY <1>2 DEF FinishTraining
    <2>2. pipeline'[j] \in {"listing", "failing"} /\ \A i \in Jobs \ {j} : pipeline'[i] = pipeline[i]
      BY <1>2, PipelineGoes DEF FinishTraining
    <2>3. CandidateListed' /\ Way'
      BY <2>1, <2>2 DEF CandidateListed, Way, Unfinished, Listing, LiveRollout
    <2> QED BY <2>1, <2>3, CallKept DEF FileDecidable, Decidable
  <1>3. CASE ListCandidate(j)
    <2>1. UNCHANGED <<rollout, file, call>> /\ listed' = listed \cup {j}
          /\ coord'.cand = j /\ coord'.state = coord.state /\ j # NoVersion
      BY <1>3, RecoveryAssumption
      DEF ListCandidate, Typed, MemoryTyped, Coordinators, Jobs, NoVersion
    <2>2. /\ pipeline[j] = "listing" /\ pipeline'[j] = "toValidating"
          /\ \A i \in Jobs \ {j} : pipeline'[i] = pipeline[i]
      BY <1>3, PipelineGoes DEF ListCandidate
    <2>3. CandidateListed' /\ Way'
      BY <2>1, <2>2 DEF CandidateListed, Way, Unfinished, LiveRollout
    <2> QED BY <2>1, <2>3, CallKept DEF FileDecidable, Decidable
  <1>4. CASE PassGate(j) \/ FailGate(j)
    <2>1. UNCHANGED <<coord, listed, rollout, file, call>>
      BY <1>4 DEF PassGate, FailGate
    <2>2. /\ pipeline[j] \in Listing
          /\ pipeline'[j] \in {"toShadow", "toAwaiting", "rejecting"} \/ ~Unfinished(j)
          /\ \A i \in Jobs \ {j} : pipeline'[i] = pipeline[i]
      BY <1>4, PipelineGoes DEF PassGate, FailGate, Listing, Unfinished
    <2>3. CandidateListed' /\ Way'
      BY <2>1, <2>2 DEF CandidateListed, Way, Unfinished, LiveRollout
    <2> QED BY <2>1, <2>3, CallKept DEF FileDecidable, Decidable
  <1>5. CASE EndPipeline(j)
    <2>1. pipeline'[j] = "done" /\ \A i \in Jobs \ {j} : pipeline'[i] = pipeline[i]
      BY <1>5, PipelineGoes DEF EndPipeline
    <2> QED BY <1>5, <2>1, EndJobWay DEF EndPipeline, Listing
  <1> QED BY <1>1, <1>2, <1>3, <1>4, <1>5

LEMMA RolloutWay ==
  ASSUME Typed, WayOK, NEW k \in Rollouts,
         \/ AnnounceRollout(k) \/ RaiseTraffic(k) \/ ObserveStage(k) \/ Promote(k)
         \/ PromotePanics(k) \/ PromotionRefused(k) \/ Rollback(k)
  PROVE  WayOK'
  <1>1. CASE AnnounceRollout(k) \/ RaiseTraffic(k) \/ ObserveStage(k) \/ PromotionRefused(k)
    <2>1. UNCHANGED <<coord, listed, pipeline, file, call>>
      BY <1>1 DEF AnnounceRollout, RaiseTraffic, ObserveStage, PromotionRefused
    <2>2. \A l \in Rollouts : LiveRollout(l) => LiveRollout(l)'
      <3>1. \E pc \in {"raising", "observing", "promoting", "rolling"} : RolloutAt(k, pc)
        BY <1>1 DEF AnnounceRollout, RaiseTraffic, ObserveStage, PromotionRefused
      <3> QED BY <3>1, RolloutGoes DEF LiveRollout
    <2>3. CandidateListed' /\ Way'
      BY <2>1, <2>2 DEF WayOK, CandidateListed, Way, Unfinished
    <2> QED BY <2>1, <2>3, CallKept DEF WayOK, FileDecidable, Decidable
  <1>2. CASE Promote(k) \/ Rollback(k)
    BY <1>2, EndJobWay DEF Promote, Rollback
  <1>3. CASE PromotePanics(k)
    BY <1>3, RestartWay DEF PromotePanics, WayOK
  <1> QED BY <1>1, <1>2, <1>3

LEMMA OperatorWay ==
  ASSUME Typed, WayOK,
         \/ Trigger \/ (\E v \in Candidates : Approve(v) \/ Reject(v)) \/ Cancel
         \/ (\E c \in Switches, on \in BOOLEAN : SetControl(c, on))
         \/ CleanOrphan \/ RequestRecovery \/ DamageFile \/ Crash
  PROVE  WayOK'
  <1> USE DEF WayOK
  <1>1. CASE Trigger
    <2> DEFINE j == spent.jobs + 1
               c == [coord EXCEPT !.state = "TRIGGERED", !.job = j]
    <2>1. j \in Jobs
      BY <1>1, RecoveryAssumption DEF Trigger, Typed, SpentTyped, Jobs
    <2>2. /\ pipeline'[j] = "toQueued" /\ \A i \in Jobs \ {j} : pipeline'[i] = pipeline[i]
      BY <1>1, <2>1, PipelineGoes DEF Trigger
    <2>3. coord' = c /\ c.state = "TRIGGERED" /\ c.cand = coord.cand
      BY <1>1 DEF Trigger, Typed, MemoryTyped, Coordinators
    <2>4. CandidateListed' /\ Way'
      BY <1>1, <2>1, <2>2, <2>3 DEF Trigger, CandidateListed, Way, Unfinished, InFlight, Listing
    <2>5. file' = file \/ file' = FileOf(Image(c, registry))
      BY <1>1, PersistSaves DEF Trigger
    <2>6. FileDecidable'
      <3> HIDE DEF c
      <3> QED BY <2>3, <2>5, SavesDecidable DEF Decidable
    <2> QED BY <1>1, <2>3, <2>4, <2>6, CallKept DEF Trigger
  <1>2. ASSUME NEW v \in Candidates, Approve(v)
        PROVE  WayOK'
    <2>1. coord'.state = "CANARY" /\ coord'.cand = coord.cand
      BY <1>2 DEF Approve, Becomes, Typed, MemoryTyped, Coordinators
    <2>2. \E k \in Rollouts : LiveRollout(k)'
      BY <1>2 DEF Approve, Typed, MemoryTyped, LiveRollout
    <2>3. CandidateListed' /\ Way'
      BY <1>2, <2>1, <2>2 DEF Approve, CandidateListed, Way
    <2>4. Decidable([coord EXCEPT !.state = "CANARY"])
      BY DEF Decidable, Typed, MemoryTyped, Coordinators
    <2> QED BY <1>2, <2>1, <2>3, <2>4, PersistSaves, SavesDecidable, CallKept DEF Approve, Becomes
  <1>3. ASSUME NEW v \in Candidates, Reject(v)
        PROVE  WayOK'
    BY <1>3, EndJobWay DEF Reject, goroutines
  <1>4. CASE Cancel
    BY <1>4, EndJobWay DEF Cancel, goroutines
  <1>5. ASSUME NEW c \in Switches, NEW on \in BOOLEAN, SetControl(c, on)
        PROVE  WayOK'
    <2>1. PICK new : /\ coord' = new /\ new.state = coord.state /\ new.cand = coord.cand
                     /\ PersistCounting(new, registry, "toggles")
      BY <1>5 DEF SetControl, Typed, MemoryTyped, Coordinators
    <2>2. CandidateListed' /\ Way'
      BY <1>5, <2>1 DEF SetControl, goroutines, CandidateListed, Way, Unfinished, LiveRollout
    <2>3. Decidable(new)
      BY <2>1, CoordDecidable DEF Decidable
    <2> QED BY <1>5, <2>1, <2>2, <2>3, PersistSaves, SavesDecidable, CallKept DEF SetControl
  <1>6. CASE CleanOrphan
    <2>1. coord'.state = "FAILED" /\ coord'.cand = coord.cand
      BY <1>6 DEF CleanOrphan, Becomes, Typed, MemoryTyped, Coordinators
    <2>2. CandidateListed' /\ Way'
      BY <1>6, <2>1 DEF CleanOrphan, goroutines, CandidateListed, Way, Startable
    <2>3. Decidable([coord EXCEPT !.state = "FAILED", !.job = NoJob])
      BY DEF Decidable, Typed, MemoryTyped, Coordinators
    <2> QED BY <1>6, <2>1, <2>2, <2>3, PersistSaves, SavesDecidable, CallKept DEF CleanOrphan, Becomes
  <1>7. CASE RequestRecovery
    <2>1. UNCHANGED <<coord, listed, pipeline, rollout, file>> /\ call'.pc = "loading"
      BY <1>7, CallGoes DEF RequestRecovery, goroutines
    <2> QED BY <2>1 DEF FileDecidable, Decidable, CandidateListed, Way, Unfinished, LiveRollout, CallLocals,
                        Reading, Decided
  <1>8. CASE DamageFile
    <2>1. UNCHANGED <<coord, listed, pipeline, rollout, call>> /\ file'.kind = "damaged"
      BY <1>8 DEF DamageFile, Damaged
    <2> QED BY <2>1, CallKept DEF FileDecidable, CandidateListed, Way, Unfinished, LiveRollout
  <1>9. CASE Crash
    BY <1>9, RestartWay DEF Crash
  <1> QED BY <1>1, <1>2, <1>3, <1>4, <1>5, <1>6, <1>7, <1>8, <1>9

LEMMA CallWay ==
  ASSUME Typed, WayOK,
         \/ LoadState \/ RestoreControls \/ RestoreModels \/ ReconcileModels \/ Settle \/ Drain \/ Commit
  PROVE  WayOK'
  <1> USE DEF WayOK
  <1>a. ASSUME UNCHANGED <<coord, listed, pipeline, rollout, file>>
        PROVE  FileDecidable' /\ CandidateListed' /\ Way'
    BY <1>a DEF FileDecidable, Decidable, CandidateListed, Way, Unfinished, LiveRollout
  <1>1. CASE LoadState
    <2> DEFINE image == IF file.kind = "saved" THEN file.image
                        ELSE Image(FreshCoordinator, PointersOnly(registry))
    <2>1. Decidable(image.coord)
      BY FreshTyped DEF FileDecidable, Decidable, Image
    <2>2. call'.pc = "controls" /\ call'.image = image /\ call'.became = image.coord.state
      BY <1>1 DEF LoadState
    <2>3. FileDecidable'
      BY <1>1 DEF LoadState, FileDecidable, Decidable, NoFile
    <2>4. CandidateListed' /\ Way'
      BY <1>1 DEF LoadState, goroutines, CandidateListed, Way, Unfinished, LiveRollout
    <2>5. CallLocals'
      <3> HIDE DEF image
      <3> QED BY <2>1, <2>2 DEF CallLocals, Reading, Decided, Decidable
    <2> QED BY <2>3, <2>4, <2>5
  <1>2. CASE RestoreControls
    <2> DEFINE cand == call.image.coord.cand
    <2>1. /\ UNCHANGED <<pipeline, rollout, file>> /\ coord'.state = coord.state
          /\ coord'.cand = (IF cand = NoVersion THEN coord.cand ELSE cand)
          /\ listed' = listed \cup ({cand} \ {NoVersion})
      BY <1>2 DEF RestoreControls, goroutines, Typed, MemoryTyped, Coordinators
    <2>2. CandidateListed' /\ Way'
      BY <2>1 DEF CandidateListed, Way, Unfinished, LiveRollout
    <2>3. call.pc = "controls" /\ call'.pc = "models" /\ call'.image = call.image
          /\ call'.became = call.became
      BY <1>2, CallGoes DEF RestoreControls
    <2>4. CallLocals'
      BY <2>1, <2>3 DEF CallLocals, Reading, Decided, Decidable
    <2> QED BY <2>1, <2>2, <2>4 DEF FileDecidable, Decidable
  <1>3. CASE RestoreModels \/ ReconcileModels
    <2>1. /\ UNCHANGED <<coord, listed, pipeline, rollout, file>>
          /\ call.pc \in {"models", "reconciling"} /\ call'.pc \in {"reconciling", "settling"}
          /\ call'.image = call.image /\ call'.became = call.became
      BY <1>3, CallGoes DEF RestoreModels, ReconcileModels, goroutines
    <2> QED BY <1>a, <2>1 DEF CallLocals, Reading, Decided, Decidable
  <1>4. CASE Settle
    <2>1. /\ UNCHANGED <<listed, pipeline, rollout, file>>
          /\ call.pc = "settling"
      BY <1>4, SettleCases DEF SettleInterrupted, SettleRollout, SettleNothing, SettleFrame, goroutines
    <2>2. CASE SettleInterrupted \/ SettleRollout
      <3>1. /\ coord'.state \in Startable /\ coord'.cand = coord.cand
            /\ call'.became \in Startable /\ call'.pc = "draining" /\ call'.image = call.image
        BY <2>2 DEF SettleInterrupted, SettleRollout, Startable, Typed, MemoryTyped, CallTyped, Coordinators
      <3> QED BY <2>1, <3>1 DEF FileDecidable, CandidateListed, Way, CallLocals, Reading, Decided, Decidable,
                                Startable
    <2>3. CASE SettleNothing
      <3>1. /\ coord' = coord /\ call'.pc = "draining" /\ call'.image = call.image
            /\ call'.became = call.became
            /\ call.image.coord.state \in JobStates \ (InFlight \cup {"CANARY"})
        BY <2>3 DEF SettleNothing, SettleFrame, Typed, MemoryTyped, CallTyped, Saved, Coordinators
      <3>2. call.became \in Startable \cup {"AWAITING_APPROVAL"}
        BY <2>1, <3>1 DEF CallLocals, Reading, JobStates, InFlight, Startable
      <3> QED BY <1>a, <2>1, <3>1, <3>2 DEF CallLocals, Reading, Decided
    <2> QED BY <1>4, <2>2, <2>3, SettleCases
  <1>5. CASE Drain
    <2>1. /\ UNCHANGED <<coord, listed, pipeline, rollout, file>>
          /\ call.pc = "draining" /\ call'.pc = "committing"
          /\ call'.image = call.image /\ call'.became = call.became
      BY <1>5, CallGoes DEF Drain, goroutines
    <2> QED BY <1>a, <2>1 DEF CallLocals, Reading, Decided, Decidable
  <1>6. CASE Commit
    <2> DEFINE c == [coord EXCEPT !.state = call.became]
    <2>1. /\ c.state = call.became /\ c.cand = coord.cand
          /\ call.became \in Startable \cup {"AWAITING_APPROVAL"}
          /\ call.became = "AWAITING_APPROVAL" => coord.cand # NoVersion
      BY <1>6 DEF Commit, CallLocals, Decided, Typed, MemoryTyped, Coordinators
    <2>2. /\ coord' = c /\ UNCHANGED <<listed, pipeline, rollout>> /\ call'.pc = "idle"
          /\ file' = file \/ file' = FileOf(Image(c, registry))
      BY <1>6 DEF Commit, IdleCall, goroutines
    <2> HIDE DEF c
    <2>3. Decidable(c)
      BY <2>1 DEF Decidable
    <2>4. FileDecidable'
      BY <2>2, <2>3, SavesDecidable
    <2> QED BY <2>1, <2>2, <2>4 DEF CandidateListed, Way, CallLocals, Reading, Decided
  <1> QED BY <1>1, <1>2, <1>3, <1>4, <1>5, <1>6

LEMMA NextWay == Typed /\ WayOK /\ [RecoveryNext]_vars => WayOK'
  <1> SUFFICES ASSUME Typed, WayOK, [RecoveryNext]_vars
               PROVE  WayOK'
    OBVIOUS
  <1>1. CASE UNCHANGED vars
    BY <1>1 DEF vars, WayOK, FileDecidable, Decidable, CandidateListed, Way, Unfinished, LiveRollout,
                CallLocals
  <1> QED BY <1>1, NextCases, PipelineWay, RolloutWay, OperatorWay, CallWay

-----------------------------------------------------------------------------
(* The file, what was read from it, and the engine's job.                   *)

Matches ==
  /\ file.image.coord.state = coord.state
  /\ file.image.coord.job = coord.job
  /\ file.image.coord.controls = coord.controls
  /\ file.image.registry.production = registry.production

DiskMatches ==
  Settled /\ "unsaved" \notin excused =>
    /\ file.kind = "saved" => Matches
    /\ "damaged" \notin excused => file.kind = "saved"

(* What a recovery in a process that serves has read is still so, or it is  *)
(* the baseline that stood in for a damaged file.                           *)
ReadCurrent ==
  mode = "serving" /\ "stale" \notin excused =>
    /\ call.pc \in Reading => call.image.coord.state \in {coord.state, "IDLE"}
    /\ call.pc \in Decided /\ call.became = "AWAITING_APPROVAL" => coord.state = "AWAITING_APPROVAL"

(* An engine whose job the coordinator has given up is set free by the      *)
(* pipeline of that job, or by another one that still runs.                 *)
EngineOwned ==
  engineJob # NoJob /\ coord.job # engineJob /\ "stale" \notin excused =>
    coord.job = NoJob /\ coord.state \in Startable /\ \E j \in Jobs : Unfinished(j)

DiskOK == DiskMatches /\ ReadCurrent /\ EngineOwned

\* A step that changes what is saved saves it, and says so when it overtakes a recovery.
LEMMA SavesMatch ==
  ASSUME NEW c, NEW reg, NEW what, coord' = c, registry' = reg,
         Persist(c, reg) \/ PersistCounting(c, reg, what)
  PROVE  /\ "unsaved" \notin excused' => file'.kind = "saved" /\ Matches'
         /\ call.pc \notin {"idle", "loading"} => "stale" \in excused'
         /\ "stale" \in excused => "stale" \in excused'
  <1>1. CASE file' = FileOf(Image(c, reg)) /\ excused' = (excused \ {"unsaved"}) \cup Overtaking
    BY <1>1 DEF FileOf, Image, Matches, Overtaking
  <1>2. CASE excused' = excused \cup {"unsaved"} \cup Overtaking
    BY <1>2 DEF Overtaking
  <1> QED BY <1>1, <1>2 DEF Persist, PersistCounting

LEMMA DiskSaved ==
  ASSUME NEW c, NEW reg, NEW what, coord' = c, registry' = reg,
         Persist(c, reg) \/ PersistCounting(c, reg, what)
  PROVE  DiskMatches'
  BY SavesMatch DEF DiskMatches

LEMMA DiskKept ==
  ASSUME DiskMatches, file' = file, Settled' => Settled,
         coord'.state = coord.state, coord'.job = coord.job, coord'.controls = coord.controls,
         registry'.production = registry.production,
         "unsaved" \in excused => "unsaved" \in excused',
         "damaged" \in excused => "damaged" \in excused'
  PROVE  DiskMatches'
  BY DEF DiskMatches, Matches

LEMMA ReadKept ==
  ASSUME ReadCurrent, call' = call, mode' = mode,
         "stale" \in excused => "stale" \in excused',
         coord'.state = coord.state \/ (call.pc \notin {"idle", "loading"} => "stale" \in excused')
  PROVE  ReadCurrent'
  BY DEF ReadCurrent, Reading, Decided

LEMMA EngineKept ==
  ASSUME EngineOwned, engineJob' = engineJob, coord'.job = coord.job, coord'.state = coord.state,
         "stale" \in excused => "stale" \in excused',
         \A j \in Jobs : Unfinished(j) => Unfinished(j)'
  PROVE  EngineOwned'
  BY DEF EngineOwned

\* A step that neither saves nor has to.
LEMMA DiskQuiet ==
  ASSUME DiskOK, UNCHANGED <<mode, engineJob, call, file>>,
         coord'.state = coord.state, coord'.job = coord.job, coord'.controls = coord.controls,
         registry'.production = registry.production,
         excused \subseteq excused',
         \A j \in Jobs : Unfinished(j) => Unfinished(j)'
  PROVE  DiskOK'
  BY DiskKept, ReadKept, EngineKept DEF DiskOK, Settled

LEMMA EndJobDisk ==
  ASSUME DiskOK, NEW s, NEW reg, EndJob(s, reg), UNCHANGED <<mode, call>>
  PROVE  DiskOK'
  <1>1. DiskMatches'
    BY DiskSaved DEF EndJob, Becomes
  <1>2. ReadCurrent'
    BY SavesMatch, ReadKept DEF DiskOK, EndJob, Becomes
  <1>3. EngineOwned'
    BY DEF EndJob, EngineOwned
  <1> QED BY <1>1, <1>2, <1>3 DEF DiskOK

LEMMA RestartDisk ==
  ASSUME Restart
  PROVE  DiskOK'
  BY DEF Restart, DiskOK, DiskMatches, Settled, ReadCurrent, EngineOwned

LEMMA PipelineDisk ==
  ASSUME Typed, WayOK, DiskOK, NEW j \in Jobs,
         \/ Advance(j) \/ FinishTraining(j) \/ ListCandidate(j) \/ PassGate(j) \/ FailGate(j)
         \/ EndPipeline(j)
  PROVE  DiskOK'
  <1>0. j \in Candidates
    BY RecoveryAssumption DEF Jobs
  <1>1. CASE Advance(j)
    <2>1. PICK t \in Transitions :
            /\ pipeline[j] = t[1]
            /\ IF CanTransition(coord.state, t[2])
                 THEN Becomes([coord EXCEPT !.state = t[2]], registry) /\ PipelineAt(j, t[3])
                 ELSE PipelineAt(j, "failing") /\ UNCHANGED <<coord, registry, file, spent, excused>>
            /\ UNCHANGED <<mode, engineJob, listed, traffic, byHand, rollout, call, promoted>>
      BY <1>1 DEF Advance
    <2>2. CASE /\ CanTransition(coord.state, t[2])
               /\ Becomes([coord EXCEPT !.state = t[2]], registry)
      <3>1. coord.state \notin Startable
        BY <2>2 DEF Transitions, CanTransition, Startable
      <3>2. coord'.job = coord.job
        BY <2>2 DEF Becomes, Typed, MemoryTyped, Coordinators
      <3>3. "stale" \in excused => "stale" \in excused'
        BY <2>2, SavesMatch DEF Becomes
      <3>4. EngineOwned'
        BY <2>1, <3>1, <3>2, <3>3 DEF DiskOK, EngineOwned
      <3>5. DiskMatches'
        BY <2>2, DiskSaved DEF Becomes
      <3>6. ReadCurrent'
        BY <2>1, <2>2, SavesMatch, ReadKept DEF DiskOK, Becomes
      <3> QED BY <3>4, <3>5, <3>6 DEF DiskOK
    <2>3. CASE PipelineAt(j, "failing") /\ UNCHANGED <<coord, registry, file, spent, excused>>
      <3>1. \A i \in Jobs : Unfinished(i) => Unfinished(i)'
        BY <2>3, PipelineGoes DEF Unfinished
      <3> QED BY <2>1, <2>3, <3>1, DiskQuiet
    <2> QED BY <2>1, <2>2, <2>3
  <1>2. CASE FinishTraining(j)
    <2>1. \A i \in Jobs : Unfinished(i) => Unfinished(i)'
      BY <1>2, PipelineGoes DEF FinishTraining, Unfinished
    <2>2. registry'.production = registry.production
      BY <1>0, <1>2, RegistryCandidate DEF FinishTraining, Typed, MemoryTyped
    <2> QED BY <1>2, <2>1, <2>2, DiskQuiet DEF FinishTraining
  <1>3. CASE ListCandidate(j)
    <2>1. \A i \in Jobs : Unfinished(i) => Unfinished(i)'
      BY <1>3, PipelineGoes DEF ListCandidate, Unfinished
    <2>2. coord'.state = coord.state /\ coord'.job = coord.job /\ coord'.controls = coord.controls
      BY <1>3 DEF ListCandidate, Typed, MemoryTyped, Coordinators
    <2> QED BY <1>3, <2>1, <2>2, DiskQuiet DEF ListCandidate
  <1>4. CASE PassGate(j) \/ FailGate(j)
    <2>1. \A i \in Jobs : Unfinished(i) => Unfinished(i)'
      BY <1>4, PipelineGoes DEF PassGate, FailGate, Unfinished
    <2>2. {"VALIDATED", "SHADOW", "APPROVED", "REJECTED"} \subseteq Lifecycles
      BY DEF Lifecycles
    <2>3. registry'.production = registry.production
      BY <1>0, <1>4, <2>2, RegistryLifecycle DEF PassGate, FailGate, Typed, MemoryTyped
    <2> QED BY <1>4, <2>1, <2>3, DiskQuiet DEF PassGate, FailGate
  <1>5. CASE EndPipeline(j)
    BY <1>5, EndJobDisk DEF EndPipeline
  <1> QED BY <1>1, <1>2, <1>3, <1>4, <1>5

LEMMA RolloutDisk ==
  ASSUME Typed, DiskOK, NEW k \in Rollouts,
         \/ AnnounceRollout(k) \/ RaiseTraffic(k) \/ ObserveStage(k) \/ Promote(k)
         \/ PromotePanics(k) \/ PromotionRefused(k) \/ Rollback(k)
  PROVE  DiskOK'
  <1>1. CASE AnnounceRollout(k)
    <2>1. rollout[k].cand \in Candidates /\ "CANARY" \in Lifecycles
      BY <1>1 DEF AnnounceRollout, Typed, MemoryTyped, RolloutsHave, LiveRollout, Lifecycles
    <2>2. registry'.production = registry.production
      BY <1>1, <2>1, RegistryLifecycle DEF AnnounceRollout, Typed, MemoryTyped
    <2> QED BY <1>1, <2>2, DiskQuiet DEF AnnounceRollout, Unfinished
  <1>2. CASE RaiseTraffic(k) \/ ObserveStage(k) \/ PromotionRefused(k)
    BY <1>2, DiskQuiet DEF RaiseTraffic, ObserveStage, PromotionRefused, Unfinished
  <1>3. CASE Promote(k) \/ Rollback(k)
    BY <1>3, EndJobDisk DEF Promote, Rollback
  <1>4. CASE PromotePanics(k)
    BY <1>4, RestartDisk DEF PromotePanics
  <1> QED BY <1>1, <1>2, <1>3, <1>4

LEMMA OperatorDisk ==
  ASSUME Typed, ProcessOK, WayOK, DiskOK,
         \/ Trigger \/ (\E v \in Candidates : Approve(v) \/ Reject(v)) \/ Cancel
         \/ (\E c \in Switches, on \in BOOLEAN : SetControl(c, on))
         \/ CleanOrphan \/ RequestRecovery \/ DamageFile \/ Crash
  PROVE  DiskOK'
  <1>1. CASE Trigger
    <2>1. /\ coord' = [coord EXCEPT !.state = "TRIGGERED", !.job = spent.jobs + 1]
          /\ engineJob' = spent.jobs + 1
      BY <1>1 DEF Trigger
    <2>2. coord'.job = engineJob'
      BY <2>1 DEF Typed, MemoryTyped, Coordinators
    <2>3. DiskMatches'
      BY <1>1, DiskSaved DEF Trigger
    <2>4. ReadCurrent'
      BY <1>1, SavesMatch, ReadKept DEF Trigger, DiskOK
    <2> QED BY <2>2, <2>3, <2>4 DEF DiskOK, EngineOwned
  <1>2. ASSUME NEW v \in Candidates, Approve(v)
        PROVE  DiskOK'
    <2>1. coord'.job = coord.job /\ coord.state = "AWAITING_APPROVAL"
      BY <1>2 DEF Approve, Becomes, Typed, MemoryTyped, Coordinators
    <2>2. DiskMatches'
      BY <1>2, DiskSaved DEF Approve, Becomes
    <2>3. ReadCurrent'
      BY <1>2, SavesMatch, ReadKept DEF Approve, Becomes, DiskOK
    <2>4. "stale" \in excused => "stale" \in excused'
      BY <1>2, SavesMatch DEF Approve, Becomes
    <2>5. EngineOwned'
      BY <1>2, <2>1, <2>4 DEF Approve, DiskOK, EngineOwned, Startable
    <2> QED BY <2>2, <2>3, <2>5 DEF DiskOK
  <1>3. ASSUME NEW v \in Candidates, Reject(v)
        PROVE  DiskOK'
    BY <1>3, EndJobDisk DEF Reject
  <1>4. CASE Cancel
    BY <1>4, EndJobDisk DEF Cancel
  <1>5. ASSUME NEW c \in Switches, NEW on \in BOOLEAN, SetControl(c, on)
        PROVE  DiskOK'
    <2>1. PICK new : /\ coord' = new /\ new.state = coord.state /\ new.job = coord.job
                     /\ PersistCounting(new, registry, "toggles")
      BY <1>5 DEF SetControl, Typed, MemoryTyped, Coordinators
    <2>2. UNCHANGED <<mode, engineJob, registry, pipeline, call>>
      BY <1>5 DEF SetControl, goroutines
    <2>3. "stale" \in excused => "stale" \in excused'
      BY <2>1, <2>2, SavesMatch
    <2>4. DiskMatches'
      BY <2>1, <2>2, DiskSaved
    <2>5. ReadCurrent'
      BY <2>1, <2>2, <2>3, ReadKept DEF DiskOK
    <2>6. EngineOwned'
      BY <2>1, <2>2, <2>3, EngineKept DEF DiskOK, Unfinished
    <2> QED BY <2>4, <2>5, <2>6 DEF DiskOK
  <1>6. CASE CleanOrphan
    <2>1. /\ Persist([coord EXCEPT !.state = "FAILED", !.job = NoJob], registry)
          /\ coord' = [coord EXCEPT !.state = "FAILED", !.job = NoJob]
          /\ UNCHANGED <<mode, engineJob, registry, pipeline, call>>
      BY <1>6 DEF CleanOrphan, Becomes, goroutines
    <2>2. coord'.state = "FAILED" /\ coord'.job = NoJob
      BY <2>1 DEF Typed, MemoryTyped, Coordinators
    <2>3. \E j \in Jobs : Unfinished(j)'
      BY <1>6, <2>1 DEF CleanOrphan, WayOK, Way, Startable, InFlight, Unfinished
    <2>4. DiskMatches'
      BY <2>1, DiskSaved
    <2>5. ReadCurrent'
      BY <2>1, SavesMatch, ReadKept DEF DiskOK
    <2>6. EngineOwned'
      BY <2>2, <2>3 DEF EngineOwned, Startable
    <2> QED BY <2>4, <2>5, <2>6 DEF DiskOK
  <1>7. CASE RequestRecovery
    <2>1. UNCHANGED <<mode, coord, engineJob, registry, pipeline, file, excused>>
      BY <1>7 DEF RequestRecovery, goroutines
    <2>2. call.pc = "idle" /\ call'.pc = "loading"
      BY <1>7, CallGoes DEF RequestRecovery
    <2>3. DiskMatches'
      BY <2>1, <2>2, DiskKept DEF DiskOK, Settled
    <2>4. ReadCurrent'
      BY <2>2 DEF ReadCurrent, Reading, Decided
    <2>5. EngineOwned'
      BY <2>1, EngineKept DEF DiskOK, Unfinished
    <2> QED BY <2>3, <2>4, <2>5 DEF DiskOK
  <1>8. CASE DamageFile
    <2>1. /\ UNCHANGED <<mode, coord, engineJob, registry, pipeline, call>>
          /\ file'.kind = "damaged" /\ excused' = excused \cup {"damaged"}
      BY <1>8 DEF DamageFile, Damaged
    <2>2. DiskMatches'
      BY <2>1 DEF DiskMatches
    <2>3. ReadCurrent'
      BY <2>1, ReadKept DEF DiskOK
    <2>4. EngineOwned'
      BY <2>1, EngineKept DEF DiskOK, Unfinished
    <2> QED BY <2>2, <2>3, <2>4 DEF DiskOK
  <1>9. CASE Crash
    BY <1>9, RestartDisk DEF Crash
  <1> QED BY <1>1, <1>2, <1>3, <1>4, <1>5, <1>6, <1>7, <1>8, <1>9

LEMMA CallDisk ==
  ASSUME Typed, ProcessOK, WayOK, DiskOK,
         \/ LoadState \/ RestoreControls \/ RestoreModels \/ ReconcileModels \/ Settle \/ Drain \/ Commit
  PROVE  DiskOK'
  <1>1. CASE LoadState
    <2>1. /\ UNCHANGED <<mode, coord, engineJob, pipeline>> /\ call.pc = "loading"
          /\ call'.pc = "controls"
          /\ call'.image.coord = IF file.kind = "saved" THEN file.image.coord ELSE FreshCoordinator
          /\ excused' = IF "unsaved" \in excused THEN excused \cup {"stale"} ELSE excused
      BY <1>1 DEF LoadState, goroutines, Image
    <2>2. DiskMatches'
      BY <2>1 DEF DiskMatches, Settled
    <2>3. ReadCurrent'
      BY <2>1, FreshTyped DEF DiskOK, DiskMatches, Matches, Settled, ReadCurrent, Reading, Decided
    <2>4. EngineOwned'
      BY <2>1, EngineKept DEF DiskOK, Unfinished
    <2> QED BY <2>2, <2>3, <2>4 DEF DiskOK
  <1>2. CASE RestoreControls \/ RestoreModels \/ ReconcileModels
    <2>1. /\ UNCHANGED <<mode, engineJob, pipeline>>
          /\ call.pc \in Reading /\ call'.pc \in Reading /\ call'.image = call.image
      BY <1>2, CallGoes DEF RestoreControls, RestoreModels, ReconcileModels, goroutines, Reading
    <2>2. coord'.state = coord.state /\ coord'.job = coord.job
      BY <1>2 DEF RestoreControls, RestoreModels, ReconcileModels, Typed, MemoryTyped, Coordinators
    <2>3. "stale" \in excused => "stale" \in excused'
      BY <1>2 DEF RestoreControls, RestoreModels, ReconcileModels
    <2>4. DiskMatches'
      BY <2>1 DEF DiskMatches, Settled, Reading
    <2>5. ReadCurrent'
      BY <2>1, <2>2, <2>3 DEF DiskOK, ReadCurrent, Reading, Decided
    <2>6. EngineOwned'
      BY <2>1, <2>2, <2>3, EngineKept DEF DiskOK, Unfinished
    <2> QED BY <2>4, <2>5, <2>6 DEF DiskOK
  <1>3. CASE Settle
    <2>1. UNCHANGED <<mode, engineJob, pipeline, excused>> /\ call.pc = "settling"
      BY <1>3, SettleCases DEF SettleInterrupted, SettleRollout, SettleNothing, SettleFrame, goroutines
    <2>2. call'.pc = "draining"
      BY <1>3, SettleCases
      DEF SettleInterrupted, SettleRollout, SettleNothing, Typed, MemoryTyped, CallTyped
    <2>3. DiskMatches'
      BY <2>2 DEF DiskMatches, Settled
    <2>4. mode = "serving" /\ "stale" \notin excused => call.image.coord.state \in {coord.state, "IDLE"}
      BY <2>1 DEF DiskOK, ReadCurrent, Reading
    <2>5. mode = "starting" \/ mode = "serving"
      BY DEF Typed, MemoryTyped
    <2>6. CASE SettleInterrupted
      <3>1. coord'.state = "FAILED" /\ coord'.job = NoJob /\ call'.became = "FAILED"
        BY <2>6 DEF SettleInterrupted, Typed, MemoryTyped, Coordinators, CallTyped
      <3>2. ReadCurrent'
        BY <2>2, <3>1 DEF ReadCurrent, Reading
      <3>3. call.image.coord.state \in InFlight
        BY <2>6 DEF SettleInterrupted
      <3>4. engineJob # NoJob /\ "stale" \notin excused => \E j \in Jobs : Unfinished(j)
        BY <2>4, <2>5, <3>3 DEF ProcessOK, FreshProcess, WayOK, Way, InFlight, Startable
      <3>5. EngineOwned'
        BY <2>1, <3>1, <3>4 DEF EngineOwned, Startable, Unfinished
      <3> QED BY <2>3, <3>2, <3>5 DEF DiskOK
    <2>7. CASE SettleRollout
      <3>1. coord'.state = "IDLE" /\ coord'.job = coord.job /\ call'.became = "IDLE"
        BY <2>7 DEF SettleRollout, Typed, MemoryTyped, Coordinators, CallTyped
      <3>2. ReadCurrent'
        BY <2>2, <3>1 DEF ReadCurrent, Reading
      <3>3. EngineOwned'
        BY <2>1, <3>1 DEF DiskOK, EngineOwned, Startable, Unfinished
      <3> QED BY <2>3, <3>2, <3>3 DEF DiskOK
    <2>8. CASE SettleNothing
      <3>1. coord' = coord /\ call'.became = call.became
        BY <2>8 DEF SettleNothing, Typed, MemoryTyped, CallTyped
      <3>2. call.became = call.image.coord.state
        BY <2>1 DEF WayOK, CallLocals, Reading
      <3>3. ReadCurrent'
        BY <2>1, <2>2, <2>4, <3>1, <3>2 DEF ReadCurrent, Reading
      <3>4. EngineOwned'
        BY <2>1, <3>1, EngineKept DEF DiskOK, Unfinished
      <3> QED BY <2>3, <3>3, <3>4 DEF DiskOK
    <2> QED BY <1>3, <2>6, <2>7, <2>8, SettleCases
  <1>4. CASE Drain
    <2>1. /\ UNCHANGED <<mode, coord, engineJob, pipeline, excused>>
          /\ call.pc = "draining" /\ call'.pc = "committing" /\ call'.became = call.became
      BY <1>4, CallGoes DEF Drain, goroutines
    <2>2. DiskMatches'
      BY <2>1 DEF DiskMatches, Settled
    <2>3. ReadCurrent'
      BY <2>1 DEF DiskOK, ReadCurrent, Reading, Decided
    <2>4. EngineOwned'
      BY <2>1, EngineKept DEF DiskOK, Unfinished
    <2> QED BY <2>2, <2>3, <2>4 DEF DiskOK
  <1>5. CASE Commit
    <2> DEFINE c == [coord EXCEPT !.state = call.became]
    <2>1. c.state = call.became /\ c.job = coord.job
      BY DEF Typed, MemoryTyped, Coordinators
    <2>2. /\ coord' = c /\ UNCHANGED <<engineJob, registry, pipeline>>
          /\ call.pc = "committing" /\ call'.pc = "idle"
          /\ \/ file' = FileOf(Image(c, registry)) /\ excused' = excused \ {"unsaved"}
             \/ excused' = excused \cup {"unsaved"}
      BY <1>5 DEF Commit, goroutines, IdleCall
    <2> HIDE DEF c
    <2>3. DiskMatches'
      BY <2>2 DEF DiskMatches, Matches, FileOf, Image
    <2>4. ReadCurrent'
      BY <2>2 DEF ReadCurrent, Reading, Decided
    <2>5. call.became \in Startable \cup {"AWAITING_APPROVAL"}
      BY <2>2 DEF WayOK, CallLocals, Decided
    <2>6. mode = "serving" /\ "stale" \notin excused /\ coord.state \in Startable =>
            call.became \in Startable
      BY <2>2, <2>5 DEF DiskOK, ReadCurrent, Decided, Startable
    <2>7. mode = "starting" => engineJob = NoJob
      BY DEF ProcessOK, FreshProcess
    <2>8. mode = "starting" \/ mode = "serving"
      BY DEF Typed, MemoryTyped
    <2>9. EngineOwned'
      BY <2>1, <2>2, <2>6, <2>7, <2>8 DEF DiskOK, EngineOwned, Unfinished
    <2> QED BY <2>3, <2>4, <2>9 DEF DiskOK
  <1> QED BY <1>1, <1>2, <1>3, <1>4, <1>5

LEMMA NextDisk == Typed /\ ProcessOK /\ WayOK /\ DiskOK /\ [RecoveryNext]_vars => DiskOK'
  <1> SUFFICES ASSUME Typed, ProcessOK, WayOK, DiskOK, [RecoveryNext]_vars
               PROVE  DiskOK'
    OBVIOUS
  <1>1. CASE UNCHANGED vars
    BY <1>1, DiskQuiet DEF vars, Unfinished
  <1> QED BY <1>1, NextCases, PipelineDisk, RolloutDisk, OperatorDisk, CallDisk

-----------------------------------------------------------------------------
(* The registry, and what the last promotion left in it and in the file.    *)

\* Between its restoring and its reconciliation a registry may be anything.
RegistrySound == call.pc # "reconciling" => PointersHold(registry)

(* Nothing excuses a loss: the file has the model promoted last, or nothing *)
(* was ever saved.                                                          *)
FilePromoted ==
  excused = {} =>
    \/ /\ file.kind = "saved"
       /\ file.image.registry.production = promoted
       /\ Known(file.image.registry, promoted)
    \/ file.kind = "none" /\ promoted = Baseline /\ mode = "starting"

(* A failed write excuses only what a restart loses: the process that       *)
(* promoted has its model, and a recovery that read the file brings it back. *)
CallPromoted ==
  excused \subseteq {"unsaved"} =>
    /\ mode = "serving" => registry.production = promoted
    /\ call.pc \in {"controls", "models"} =>
         /\ call.image.registry.production = promoted
         /\ Known(call.image.registry, promoted) \/ Known(registry, promoted)
    /\ call.pc = "reconciling" => Known(registry, promoted)
    /\ call.pc \in {"reconciling", "settling", "draining", "committing"} =>
         registry.production = promoted

PromotionKept == RegistrySound /\ FilePromoted /\ CallPromoted

\* A step that leaves the registry with its pointers and forgets no model.
RegistryTold ==
  /\ registry'.production = registry.production
  /\ \A w \in Versions : Known(registry, w) => Known(registry', w)
  /\ PointersHold(registry) => PointersHold(registry')

\* What a step makes of the file.
Writes ==
  \/ file' = file /\ excused \subseteq excused'
  \/ /\ Serving /\ file' = FileOf(Image(coord', registry'))
     /\ excused' = (excused \ {"unsaved"}) \cup Overtaking
  \/ "damaged" \in excused'

LEMMA PersistWrites ==
  ASSUME NEW c, NEW reg, NEW what, Serving, coord' = c, registry' = reg,
         Persist(c, reg) \/ PersistCounting(c, reg, what)
  PROVE  Writes
  BY DEF Persist, PersistCounting, Writes

\* The registry is told of a lifecycle, of a candidate, or of nothing.
LEMMA LifecycleTold ==
  ASSUME Typed, NEW v \in Candidates,
         \/ registry' = registry
         \/ registry' = WithCandidate(registry, v)
         \/ registry' = WithRolledBack(registry, v)
         \/ \E s \in {"VALIDATED", "SHADOW", "APPROVED", "CANARY", "REJECTED"} :
              registry' = WithLifecycle(registry, v, s)
  PROVE  RegistryTold
  <1>0. registry \in Registries
    BY DEF Typed, MemoryTyped
  <1>1. CASE registry' = registry
    BY <1>1 DEF RegistryTold
  <1>2. CASE registry' = WithCandidate(registry, v)
    BY <1>0, <1>2, RegistryCandidate, PointersCandidate DEF RegistryTold
  <1>3. CASE registry' = WithRolledBack(registry, v)
    BY <1>0, <1>3, RegistryPromotion, PointersPromotion DEF RegistryTold
  <1>4. ASSUME NEW s \in {"VALIDATED", "SHADOW", "APPROVED", "CANARY", "REJECTED"},
               registry' = WithLifecycle(registry, v, s)
        PROVE  RegistryTold
    <2>1. s \in Lifecycles \ {"NONE", "PROMOTED"}
      BY DEF Lifecycles
    <2> QED BY <1>0, <1>4, <2>1, RegistryLifecycle, PointersLifecycle DEF RegistryTold
  <1> QED BY <1>1, <1>2, <1>3, <1>4

(* Apart from promotions, restarts and the recovery, every step only tells  *)
(* the registry something, and writes the file or leaves it.                *)
Tells == RegistryTold /\ Writes /\ UNCHANGED <<mode, call, promoted>>

LEMMA PipelineTells ==
  ASSUME Typed, NEW j \in Jobs, Serving,
         \/ Advance(j) \/ FinishTraining(j) \/ ListCandidate(j) \/ PassGate(j) \/ FailGate(j)
         \/ EndPipeline(j)
  PROVE  Tells
  <1>0. j \in Candidates
    BY RecoveryAssumption DEF Jobs
  <1>1. CASE Advance(j)
    <2>1. UNCHANGED <<mode, call, promoted>>
      BY <1>1 DEF Advance
    <2>2. registry' = registry
      BY <1>1 DEF Advance, Becomes
    <2>3. Writes
      <3>1. \/ \E t \in Transitions : Becomes([coord EXCEPT !.state = t[2]], registry)
            \/ UNCHANGED <<file, excused>>
        BY <1>1 DEF Advance
      <3> QED BY <3>1, PersistWrites DEF Becomes, Writes
    <2> QED BY <1>0, <2>1, <2>2, <2>3, LifecycleTold DEF Tells
  <1>2. CASE FinishTraining(j)
    BY <1>0, <1>2, LifecycleTold DEF FinishTraining, Tells, Writes
  <1>3. CASE ListCandidate(j)
    BY <1>0, <1>3, LifecycleTold DEF ListCandidate, Tells, Writes
  <1>4. CASE PassGate(j) \/ FailGate(j)
    BY <1>0, <1>4, LifecycleTold DEF PassGate, FailGate, Tells, Writes
  <1>5. CASE EndPipeline(j)
    <2>1. UNCHANGED <<mode, call, promoted>>
      BY <1>5 DEF EndPipeline
    <2>2. \E s, reg : EndJob(s, reg) /\ reg \in {registry, WithLifecycle(registry, j, "REJECTED")}
      BY <1>5 DEF EndPipeline
    <2>3. RegistryTold
      BY <1>0, <2>2, LifecycleTold DEF EndJob, Becomes
    <2>4. Writes
      BY <2>2, PersistWrites DEF EndJob, Becomes
    <2> QED BY <2>1, <2>3, <2>4 DEF Tells
  <1> QED BY <1>1, <1>2, <1>3, <1>4, <1>5

LEMMA RolloutTells ==
  ASSUME Typed, NEW k \in Rollouts, Serving,
         AnnounceRollout(k) \/ RaiseTraffic(k) \/ ObserveStage(k) \/ PromotionRefused(k) \/ Rollback(k)
  PROVE  Tells
  <1>0. rollout[k].cand \in Candidates
    BY DEF Typed, MemoryTyped, RolloutsHave, LiveRollout, AnnounceRollout, RaiseTraffic, ObserveStage,
           PromotionRefused, Rollback
  <1>1. CASE AnnounceRollout(k) \/ RaiseTraffic(k) \/ ObserveStage(k) \/ PromotionRefused(k)
    BY <1>0, <1>1, LifecycleTold
    DEF AnnounceRollout, RaiseTraffic, ObserveStage, PromotionRefused, Tells, Writes
  <1>2. CASE Rollback(k)
    <2>1. RegistryTold
      BY <1>0, <1>2, LifecycleTold DEF Rollback, EndJob, Becomes
    <2>2. Writes
      BY <1>2, PersistWrites DEF Rollback, EndJob, Becomes
    <2> QED BY <1>2, <2>1, <2>2 DEF Rollback, Tells
  <1> QED BY <1>1, <1>2

LEMMA OperatorTells ==
  ASSUME Typed, Serving,
         \/ Trigger \/ (\E v \in Candidates : Approve(v) \/ Reject(v)) \/ Cancel
         \/ (\E c \in Switches, on \in BOOLEAN : SetControl(c, on))
         \/ CleanOrphan
  PROVE  Tells
  <1>1. CASE Trigger
    BY <1>1, PersistWrites DEF Trigger, Tells, RegistryTold
  <1>2. ASSUME NEW v \in Candidates, Approve(v)
        PROVE  Tells
    BY <1>2, PersistWrites DEF Approve, Becomes, Tells, RegistryTold
  <1>3. ASSUME NEW v \in Candidates, Reject(v)
        PROVE  Tells
    <2>1. RegistryTold
      BY <1>3, LifecycleTold DEF Reject, EndJob, Becomes
    <2>2. Writes
      BY <1>3, PersistWrites DEF Reject, EndJob, Becomes
    <2> QED BY <1>3, <2>1, <2>2 DEF Reject, Tells
  <1>4. CASE Cancel
    BY <1>4, PersistWrites DEF Cancel, EndJob, Becomes, Tells, RegistryTold
  <1>5. ASSUME NEW c \in Switches, NEW on \in BOOLEAN, SetControl(c, on)
        PROVE  Tells
    BY <1>5, PersistWrites DEF SetControl, Tells, RegistryTold
  <1>6. CASE CleanOrphan
    BY <1>6, PersistWrites DEF CleanOrphan, Becomes, Tells, RegistryTold
  <1> QED BY <1>1, <1>2, <1>3, <1>4, <1>5, <1>6

LEMMA TellsKept ==
  ASSUME Typed, PromotionKept, Tells
  PROVE  PromotionKept'
  <1> USE DEF PromotionKept, Tells, RegistryTold
  <1>1. RegistrySound'
    BY DEF RegistrySound
  <1>2. excused' \subseteq {"unsaved"} => excused \subseteq {"unsaved"}
    BY DEF Writes
  <1>3. promoted \in Versions
    BY DEF Typed
  <1>4. CallPromoted'
    BY <1>2, <1>3 DEF CallPromoted
  <1>5. FilePromoted'
    <2>1. CASE file' = file /\ excused \subseteq excused'
      BY <2>1 DEF FilePromoted
    <2>2. CASE /\ Serving /\ file' = FileOf(Image(coord', registry'))
               /\ excused' = (excused \ {"unsaved"}) \cup Overtaking
      <3> SUFFICES ASSUME excused' = {}
                   PROVE  /\ file'.kind = "saved"
                          /\ file'.image.registry.production = promoted'
                          /\ Known(file'.image.registry, promoted')
        BY DEF FilePromoted
      <3>1. registry'.production = promoted'
        BY <2>2, <1>4 DEF CallPromoted, Serving
      <3>2. call.pc \in {"idle", "loading"}
        BY <2>2 DEF Overtaking
      <3>3. PointersHold(registry')
        BY <3>2, <1>1 DEF RegistrySound
      <3> QED BY <2>2, <3>1, <3>3 DEF FileOf, Image, PointersHold
    <2>3. CASE "damaged" \in excused'
      BY <2>3 DEF FilePromoted
    <2> QED BY <2>1, <2>2, <2>3 DEF Writes
  <1> QED BY <1>1, <1>4, <1>5

(* A promotion is saved with its flag, or its write fails, or it overtakes  *)
(* a recovery.                                                              *)
LEMMA PromoteKept ==
  ASSUME Typed, PromotionKept, Serving, NEW k \in Rollouts, Promote(k)
  PROVE  PromotionKept'
  <1> DEFINE v == rollout[k].cand
             reg == WithPromoted(registry, v)
             c == [coord EXCEPT !.state = "PROMOTED", !.job = NoJob]
  <1>0. v \in Candidates /\ v \in Versions /\ registry \in Registries
    BY DEF Promote, Typed, MemoryTyped, RolloutsHave, LiveRollout, Versions
  <1>1. /\ registry' = reg /\ UNCHANGED <<mode, call>> /\ coord' = c
        /\ promoted' = IF Known(registry, v) THEN v ELSE promoted
        /\ Persist(c, reg)
    BY DEF Promote, EndJob, Becomes
  <1>2. /\ reg.production = IF Known(registry, v) THEN v ELSE registry.production
        /\ PointersHold(registry) => PointersHold(reg)
    BY <1>0, PointersPromotion
  <1> HIDE DEF reg, c, v
  <1>3. RegistrySound'
    BY <1>1, <1>2 DEF PromotionKept, RegistrySound
  <1>4. excused' \subseteq {"unsaved"} =>
          /\ excused \subseteq {"unsaved"} /\ call.pc \in {"idle", "loading"}
          /\ registry.production = promoted
    BY <1>1 DEF Persist, Overtaking, PromotionKept, CallPromoted, Serving
  <1>5. CallPromoted'
    BY <1>1, <1>2, <1>4 DEF CallPromoted
  <1>6. FilePromoted'
    <2> SUFFICES ASSUME excused' = {}
                 PROVE  /\ file'.kind = "saved"
                        /\ file'.image.registry.production = promoted'
                        /\ Known(file'.image.registry, promoted')
      BY DEF FilePromoted
    <2>1. file' = FileOf(Image(c, reg))
      BY <1>1 DEF Persist
    <2>2. PointersHold(reg) /\ reg.production = promoted'
      BY <1>1, <1>2, <1>4 DEF PromotionKept, RegistrySound
    <2> QED BY <2>1, <2>2 DEF FileOf, Image, PointersHold
  <1> QED BY <1>3, <1>5, <1>6 DEF PromotionKept

LEMMA RestartKept ==
  ASSUME PromotionKept, Restart, UNCHANGED <<file, promoted>>, excused' = excused
  PROVE  PromotionKept'
  <1>1. mode' = "starting" /\ registry' = NewRegistry /\ call'.pc = "loading"
    BY DEF Restart, IdleCall
  <1> QED BY <1>1, RegistryNew DEF PromotionKept, RegistrySound, FilePromoted, CallPromoted

LEMMA OtherKept ==
  ASSUME Typed, PromotionKept, RequestRecovery \/ DamageFile \/ Crash
  PROVE  PromotionKept'
  <1>1. CASE RequestRecovery
    <2>1. UNCHANGED <<mode, registry, file, excused, promoted>> /\ call'.pc = "loading"
          /\ call.pc = "idle"
      BY <1>1, CallGoes DEF RequestRecovery
    <2> QED BY <2>1 DEF PromotionKept, RegistrySound, FilePromoted, CallPromoted
  <1>2. CASE DamageFile
    <2>1. UNCHANGED <<mode, registry, call, promoted>> /\ "damaged" \in excused'
      BY <1>2 DEF DamageFile
    <2> QED BY <2>1 DEF PromotionKept, RegistrySound, FilePromoted, CallPromoted
  <1>3. CASE Crash
    BY <1>3, RestartKept DEF Crash
  <1> QED BY <1>1, <1>2, <1>3

LEMMA CallStepsKept ==
  ASSUME Typed, ProcessOK, PromotionKept,
         \/ LoadState \/ RestoreControls \/ RestoreModels \/ ReconcileModels \/ Settle \/ Drain \/ Commit
  PROVE  PromotionKept'
  <1> USE DEF PromotionKept
  <1>0. promoted \in Versions /\ registry \in Registries /\ call.image.registry \in Registries
    BY DEF Typed, MemoryTyped, CallTyped, Saved
  <1>1. CASE LoadState
    <2>1. /\ UNCHANGED <<mode, registry, promoted>>
          /\ call.pc = "loading" /\ call'.pc = "controls"
          /\ call'.image.registry = IF file.kind = "saved" THEN file.image.registry
                                    ELSE PointersOnly(registry)
          /\ excused' = IF "unsaved" \in excused THEN excused \cup {"stale"} ELSE excused
          /\ file' = IF file = Damaged THEN NoFile ELSE file
      BY <1>1 DEF LoadState, Image
    <2>2. RegistrySound'
      BY <2>1 DEF RegistrySound
    <2>3. FilePromoted'
      BY <2>1 DEF FilePromoted, Damaged, NoFile
    <2>4. excused' \subseteq {"unsaved"} => excused = {}
      BY <2>1
    <2>5. mode = "starting" => registry = NewRegistry
      BY <2>1 DEF ProcessOK, FreshProcess
    <2>6. NewRegistry.production = Baseline /\ Known(NewRegistry, Baseline)
      BY RegistryNew DEF NewRegistry, PointersHold
    <2>7. excused = {} => /\ call'.image.registry.production = promoted
                          /\ Known(call'.image.registry, promoted) \/ Known(registry, promoted)
      <3>1. CASE file.kind = "saved"
        BY <2>1, <3>1 DEF FilePromoted
      <3>2. CASE file.kind # "saved"
        BY <2>1, <2>5, <2>6, <3>2, RegistryNew DEF FilePromoted, PointersOnly, Registries
      <3> QED BY <3>1, <3>2
    <2>8. CallPromoted'
      BY <2>1, <2>4, <2>7 DEF CallPromoted
    <2> QED BY <2>2, <2>3, <2>8
  <1>2. CASE RestoreControls
    <2>1. /\ UNCHANGED <<mode, registry, file, excused, promoted>>
          /\ call.pc = "controls" /\ call'.pc = "models" /\ call'.image = call.image
      BY <1>2, CallGoes DEF RestoreControls
    <2> QED BY <2>1 DEF RegistrySound, FilePromoted, CallPromoted
  <1>3. CASE RestoreModels
    <2>1. /\ UNCHANGED <<mode, file, excused, promoted>>
          /\ call.pc = "models" /\ call'.pc = "reconciling" /\ call'.image = call.image
          /\ registry' = Restored(registry, call.image.registry)
      BY <1>3, CallGoes DEF RestoreModels
    <2>2. registry'.production = call.image.registry.production
          /\ \A w \in Versions : Known(registry', w) <=> Known(registry, w) \/ Known(call.image.registry, w)
      BY <1>0, <2>1, RegistryRestored
    <2> QED BY <1>0, <2>1, <2>2 DEF RegistrySound, FilePromoted, CallPromoted
  <1>4. CASE ReconcileModels
    <2>1. /\ UNCHANGED <<mode, file, promoted>>
          /\ call.pc = "reconciling" /\ call'.pc = "settling" /\ call'.image = call.image
      BY <1>4, CallGoes DEF ReconcileModels
    <2>2. PICK corrupt \in {{}, Candidates} :
            /\ registry' = Reconciled(registry, corrupt)
            /\ excused' = IF corrupt = {} THEN excused ELSE excused \cup {"damaged"}
      BY <1>4 DEF ReconcileModels
    <2>3. PointersHold(registry')
      BY <1>0, <2>2, RegistryReconciled
    <2>4. CASE corrupt = {}
      <3>1. Known(registry, registry.production) => registry'.production = registry.production
        BY <1>0, <2>2, <2>4, RegistryReconciled
      <3> QED BY <2>1, <2>2, <2>3, <2>4, <3>1 DEF RegistrySound, FilePromoted, CallPromoted
    <2>5. CASE corrupt # {}
      BY <2>1, <2>2, <2>3, <2>5 DEF RegistrySound, FilePromoted, CallPromoted
    <2> QED BY <2>4, <2>5
  <1>5. CASE Settle \/ Drain
    <2>1. UNCHANGED <<mode, registry, file, excused, promoted>>
      BY <1>5, SettleCases DEF SettleInterrupted, SettleRollout, SettleNothing, SettleFrame, Drain
    <2>2. call.pc \in {"settling", "draining"} /\ call'.pc \in {"draining", "committing"}
      BY <1>5, SettleCases, CallGoes
      DEF SettleInterrupted, SettleRollout, SettleNothing, SettleFrame, Drain, Typed, MemoryTyped, CallTyped
    <2> QED BY <2>1, <2>2 DEF RegistrySound, FilePromoted, CallPromoted
  <1>6. CASE Commit
    <2>1. /\ UNCHANGED <<registry, promoted>> /\ mode' = "serving"
          /\ call.pc = "committing" /\ call'.pc = "idle"
          /\ \/ excused' = excused \ {"unsaved"}
                /\ \E c : file' = FileOf(Image(c, registry))
             \/ excused' = excused \cup {"unsaved"}
      BY <1>6 DEF Commit, IdleCall
    <2>2. PointersHold(registry)
      BY <2>1 DEF RegistrySound
    <2>3. excused' \subseteq {"unsaved"} => registry.production = promoted
      BY <2>1 DEF CallPromoted
    <2>4. FilePromoted'
      BY <2>1, <2>2, <2>3 DEF FilePromoted, FileOf, Image, PointersHold
    <2> QED BY <2>1, <2>2, <2>3, <2>4 DEF RegistrySound, CallPromoted
  <1> QED BY <1>1, <1>2, <1>3, <1>4, <1>5, <1>6

LEMMA NextPromotion ==
  Typed /\ ProcessOK /\ PromotionKept /\ [RecoveryNext]_vars => PromotionKept'
  <1> SUFFICES ASSUME Typed, ProcessOK, PromotionKept, [RecoveryNext]_vars
               PROVE  PromotionKept'
    OBVIOUS
  <1>1. CASE UNCHANGED vars
    BY <1>1 DEF vars, PromotionKept, RegistrySound, FilePromoted, CallPromoted
  <1>2. CASE RecoveryNext /\ Serving
    <2>1. ASSUME NEW k \in Rollouts, PromotePanics(k)
          PROVE  PromotionKept'
      BY <2>1, RestartKept DEF PromotePanics
    <2> QED BY <1>1, <1>2, <2>1, NextCases, PipelineTells, RolloutTells, OperatorTells, TellsKept,
               PromoteKept, OtherKept, CallStepsKept
  <1>3. CASE RecoveryNext /\ ~Serving
    BY <1>3, NextServing, OtherKept, CallStepsKept DEF RecoveryStep
  <1> QED BY <1>1, <1>2, <1>3

-----------------------------------------------------------------------------
(* The inductive invariant and what follows from it.                        *)

IInv == Typed /\ ProcessOK /\ WayOK /\ DiskOK /\ PromotionKept

LEMMA InitIInv == RecoveryInit => IInv
  <1> SUFFICES ASSUME RecoveryInit
               PROVE  IInv
    OBVIOUS
  <1>1. Typed
    BY InitTyped
  <1>2. /\ coord.state = "IDLE" /\ coord.job = NoJob /\ coord.cand = NoVersion
        /\ mode = "starting" /\ call.pc = "loading" /\ engineJob = NoJob
        /\ registry = NewRegistry /\ file.kind = "none" /\ excused = {} /\ promoted = Baseline
        /\ \A j \in Jobs : pipeline[j] = "none"
        /\ \A k \in Rollouts : rollout[k].pc = "none"
    BY FreshTyped DEF RecoveryInit, IdleCall, NoFile, NoRollout
  <1>3. ProcessOK
    BY <1>2 DEF ProcessOK, FreshProcess, TrafficDriven, Worker, LivePipeline, LiveRollout, Startable
  <1>4. WayOK
    BY <1>2 DEF WayOK, FileDecidable, CandidateListed, Way, CallLocals, Listing, Startable, Reading, Decided
  <1>5. DiskOK
    BY <1>2 DEF DiskOK, DiskMatches, ReadCurrent, EngineOwned, Settled
  <1>6. PromotionKept
    BY <1>2, RegistryNew DEF PromotionKept, RegistrySound, FilePromoted, CallPromoted
  <1> QED BY <1>1, <1>3, <1>4, <1>5, <1>6 DEF IInv

LEMMA NextIInv == IInv /\ [RecoveryNext]_vars => IInv'
  BY NextTyped, NextProcess, NextWay, NextDisk, NextPromotion DEF IInv

(* The invariant holds whatever is triggered, decided, asked for or broken. *)
THEOREM Invariance == RecoverySpec => []IInv
  <1> QED BY InitIInv, NextIInv, PTL DEF RecoverySpec

(* Outside a recovery the state file is what the coordinator has: a crash   *)
(* brings back its state, job, controls and production model, unless a      *)
(* write failed or the file was damaged.                                    *)
THEOREM DiskIsCurrent == RecoverySpec => []DiskCurrent
  <1>1. IInv => DiskCurrent
    BY DEF IInv, DiskOK, DiskMatches, Matches, DiskCurrent
  <1> QED BY <1>1, Invariance, PTL

(* The production model is the one promoted last, through crashes and       *)
(* recoveries, unless a fault or a stale recovery excuses it.               *)
THEOREM PromotionSurvives == RecoverySpec => []ProductionDurable
  <1>1. IInv => ProductionDurable
    BY DEF IInv, PromotionKept, CallPromoted, ProductionDurable, Settled
  <1> QED BY <1>1, Invariance, PTL

\* Each part of RecoverySound follows from the part of the invariant that was made for it.
LEMMA WayOutHolds == IInv => WayOut
  BY DEF IInv, WayOK, Way, CandidateListed, WayOut, Worker, LivePipeline, Unfinished, Settled

LEMMA EngineHolds == IInv => EngineHasOwner
  BY DEF IInv, DiskOK, EngineOwned, EngineHasOwner, Worker, LivePipeline, Unfinished

LEMMA TrafficHolds == IInv => TrafficHasRollout
  BY DEF IInv, ProcessOK, TrafficDriven, TrafficHasRollout, Driving, LiveRollout

LEMMA AuditHolds == IInv => AuditIsClean
  <1> SUFFICES ASSUME IInv, Settled
               PROVE  /\ AuditFailures \subseteq {"registry_consistency"}
                      /\ ActiveModels \subseteq {registry.production}
                      /\ AuditFailures # {} => registry.lifecycle[registry.production] # "PROMOTED"
    BY DEF AuditIsClean
  <1>1. PointersHold(registry)
    BY DEF IInv, PromotionKept, RegistrySound, Settled
  <1>2. Check("production_model") /\ Check("fallback_model")
    BY <1>1 DEF PointersHold, Check, Resolves
  <1>3. ActiveModels \subseteq {registry.production}
    BY <1>1 DEF PointersHold, ActiveModels
  <1>4. AuditFailures \subseteq {"registry_consistency"}
    BY <1>2 DEF AuditFailures
  <1>5. ASSUME registry.lifecycle[registry.production] = "PROMOTED"
        PROVE  Check("registry_consistency")
    <2>1. ActiveModels = {registry.production}
      BY <1>1, <1>3, <1>5 DEF PointersHold, ActiveModels
    <2> QED BY <2>1, FS_Singleton DEF Check
  <1> QED BY <1>3, <1>4, <1>5 DEF AuditFailures

(* No crash and no recovery leaves the coordinator without a way out, the   *)
(* engine without an owner, the registry with a pointer to nothing or with  *)
(* the flag on another model, or traffic on the canary without a rollout.   *)
THEOREM RecoveryIsSound == RecoverySpec => []RecoverySound
  <1>1. IInv => RecoveryTypeOK
    BY TypedMeans DEF IInv
  <1>2. IInv => RecoverySound
    BY <1>1, WayOutHolds, EngineHolds, TrafficHolds, AuditHolds DEF RecoverySound
  <1> QED BY <1>2, Invariance, PTL
===============================================================================
