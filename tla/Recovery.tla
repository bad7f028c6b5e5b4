------------------------------- MODULE Recovery -------------------------------
(***************************************************************************)
(* The coordinator's state file and what a restart makes of it:             *)
(* FileStateStore and RecoveryManager (riskengine/recovery_manager.go),     *)
(* the envelope around the file (state_versioning.go), ExecuteRecovery      *)
(* (disaster_recovery.go), which runs at start-up and, on an operator's     *)
(* request, at any other time, and the orphan cleaner (orphan_cleaner.go).  *)
(*                                                                          *)
(* The coordinator is coarser than in module Retraining: a trigger, a       *)
(* rejection and a cancellation are one step each, a rollout has one stage, *)
(* and the breaker's verdict is a choice. What is kept is every change of   *)
(* the state that the file holds, and whose goroutine makes it.             *)
(***************************************************************************)
EXTENDS ModelRegistry, JobLifecycle, Naturals, FiniteSets

CONSTANTS
  MaxJobs,     \* bound on the jobs triggered in a run; job n trains version n
  MaxRollouts, \* bound on the rollouts approved in a run
  Switches,    \* the controls that operators use
  MaxToggles,  \* bound on the changes of the controls by operators
  MaxRequests, \* bound on the recoveries operators ask for
  MaxFaults    \* bound on crashes, failed writes and damages of the file

ASSUME RecoveryAssumption ==
  /\ {MaxJobs, MaxRollouts, MaxToggles, MaxRequests, MaxFaults} \subseteq Nat
  /\ Candidates = 1 .. MaxJobs
  /\ Switches \subseteq Controls

Jobs == 1 .. MaxJobs
Rollouts == 1 .. MaxRollouts
NoJob == 0
NoVersion == 0

VARIABLES
  mode,        \* "starting" until the recovery at start-up is over, then "serving"
  coord,       \* the fields of the coordinator that are in the file
  engineJob,   \* triggerEngine.activeJobID
  listed,      \* the keys of c.candidates
  registry,
  traffic,     \* the canary's percentage, as zero or not
  byHand,      \* history: it comes from the configuration, not from a rollout
  pipeline,    \* the control point of each job's goroutine
  rollout,     \* the control point, candidate and job of each rollout goroutine
  file,        \* the state file
  call,        \* the control point and the locals of ExecuteRecovery
  spent,       \* jobs, toggles, requests and faults so far
  excused,     \* history: the faults and stale recoveries that explain a loss
  promoted     \* history: the version of the last promotion

vars == <<mode, coord, engineJob, listed, registry, traffic, byHand, pipeline, rollout, file,
          call, spent, excused, promoted>>

goroutines == <<pipeline, rollout>>

InFlight == {"TRIGGERED", "QUEUED", "TRAINING", "VALIDATING", "SHADOW_EVALUATION"}

Coordinators ==
  [state : JobStates, job : 0 .. MaxJobs, cand : Candidates \cup {NoVersion},
   controls : SUBSET Switches]

FreshCoordinator == [state |-> "IDLE", job |-> NoJob, cand |-> NoVersion, controls |-> {}]

Saved == [coord : Coordinators, registry : Registries]

\* What the file may be: missing or empty, unreadable, or a state saved earlier.
NoFile == [kind |-> "none"]
Damaged == [kind |-> "damaged"]
FileOf(s) == [kind |-> "saved", image |-> s]

PipelinePCs ==
  {"none", "toQueued", "toTraining", "training", "listing", "toValidating", "validating",
   "toShadow", "shadow", "toAwaiting", "marking", "rejecting", "failing", "done"}

RolloutRecord ==
  [pc : {"none", "announcing", "raising", "observing", "promoting", "rolling", "done"},
   cand : Candidates \cup {NoVersion}, job : 0 .. MaxJobs]

NoRollout == [pc |-> "none", cand |-> NoVersion, job |-> NoJob]

CallPCs == {"idle", "loading", "controls", "models", "reconciling", "settling", "draining",
            "committing"}

Baselines == [coord |-> FreshCoordinator, registry |-> NewRegistry]

IdleCall == [pc |-> "idle", image |-> Baselines, became |-> "IDLE"]

Excuses == {"unsaved", "damaged", "stale"}

RecoveryTypeOK ==
  /\ mode \in {"starting", "serving"}
  /\ coord \in Coordinators
  /\ engineJob \in 0 .. MaxJobs
  /\ listed \subseteq Candidates
  /\ registry \in Registries
  /\ traffic \in BOOLEAN /\ byHand \in BOOLEAN
  /\ pipeline \in [Jobs -> PipelinePCs]
  /\ rollout \in [Rollouts -> RolloutRecord]
  /\ file \in {NoFile, Damaged} \cup [kind : {"saved"}, image : Saved]
  /\ call \in [pc : CallPCs, image : Saved, became : JobStates]
  /\ spent \in [jobs : 0 .. MaxJobs, toggles : 0 .. MaxToggles, requests : 0 .. MaxRequests,
                faults : 0 .. MaxFaults]
  /\ excused \subseteq Excuses
  /\ promoted \in Versions

-----------------------------------------------------------------------------
(* The state file.                                                          *)

Fault == spent.faults < MaxFaults
Spend(what) == [spent EXCEPT ![what] = @ + 1]

\* A step that changes what ExecuteRecovery has read and not yet applied.
Overtaking == IF call.pc \notin {"idle", "loading"} THEN {"stale"} ELSE {}

Image(c, reg) == [coord |-> c, registry |-> reg]

(* persistStateLocked. Save writes a temporary file and renames it, so the  *)
(* file is the old state or the new one; its error is ignored.              *)
Persist(c, reg) ==
  \/ /\ file' = FileOf(Image(c, reg))
     /\ excused' = (excused \ {"unsaved"}) \cup Overtaking
     /\ UNCHANGED spent
  \/ /\ Fault /\ spent' = Spend("faults")
     /\ excused' = excused \cup {"unsaved"} \cup Overtaking
     /\ UNCHANGED file

\* The same when the step has already counted something else.
PersistCounting(c, reg, what) ==
  \/ /\ file' = FileOf(Image(c, reg))
     /\ excused' = (excused \ {"unsaved"}) \cup Overtaking
     /\ spent' = Spend(what)
  \/ /\ Fault
     /\ spent' = [Spend(what) EXCEPT !.faults = @ + 1]
     /\ excused' = excused \cup {"unsaved"} \cup Overtaking
     /\ UNCHANGED file

\* The file is damaged from outside.
DamageFile ==
  /\ Fault /\ file.kind = "saved"
  /\ file' = Damaged
  /\ spent' = Spend("faults")
  /\ excused' = excused \cup {"damaged"}
  /\ UNCHANGED <<mode, coord, engineJob, listed, registry, traffic, byHand, pipeline, rollout,
                 call, promoted>>

(* The process is gone, and a new one starts with nothing but the file. The *)
(* canary starts at its configured percentage.                              *)
Restart ==
  /\ mode' = "starting"
  /\ coord' = FreshCoordinator /\ engineJob' = NoJob /\ listed' = {}
  /\ registry' = NewRegistry
  /\ traffic' \in BOOLEAN /\ byHand' = traffic'
  /\ pipeline' = [j \in Jobs |-> IF pipeline[j] = "none" THEN "none" ELSE "done"]
  /\ rollout' = [k \in Rollouts |-> IF rollout[k].pc = "none" THEN NoRollout
                                    ELSE [NoRollout EXCEPT !.pc = "done"]]
  /\ call' = [IdleCall EXCEPT !.pc = "loading"]

Crash ==
  /\ Fault /\ spent' = Spend("faults")
  /\ Restart
  /\ UNCHANGED <<file, excused, promoted>>

-----------------------------------------------------------------------------
(* The coordinator at work.                                                 *)

Serving == mode = "serving"

(* A change of the coordinator's fields, saved under the same lock.         *)
Becomes(c, reg) == coord' = c /\ registry' = reg /\ Persist(c, reg)

(* The common end of promoteCandidate, rollbackCandidate, rejectCandidate   *)
(* and failJob.                                                             *)
EndJob(newState, reg) ==
  /\ Becomes([coord EXCEPT !.state = newState, !.job = NoJob], reg)
  /\ engineJob' = NoJob

PipelineAt(j, pc) == pipeline' = [pipeline EXCEPT ![j] = pc]
RolloutAt(k, pc) == rollout' = [rollout EXCEPT ![k].pc = pc]
RolloutEnds(k) == rollout' = [rollout EXCEPT ![k] = [NoRollout EXCEPT !.pc = "done"]]

\* CanTriggerManual and createAndStartJob.
Trigger ==
  /\ Serving
  /\ spent.jobs < MaxJobs
  /\ engineJob = NoJob
  /\ coord.controls \cap {"MAINTENANCE", "RETRAINING_PAUSED"} = {}
  /\ coord.job = NoJob /\ coord.state \in Startable
  /\ LET j == spent.jobs + 1
         c == [coord EXCEPT !.state = "TRIGGERED", !.job = j]
     IN /\ coord' = c
        /\ engineJob' = j
        /\ PipelineAt(j, "toQueued")
        /\ PersistCounting(c, registry, "jobs")
  /\ UNCHANGED <<mode, listed, registry, traffic, byHand, rollout, call, promoted>>

\* The transitions of the pipeline: control point, target state, next control point.
Transitions ==
  {<<"toQueued", "QUEUED", "toTraining">>,
   <<"toTraining", "TRAINING", "training">>,
   <<"toValidating", "VALIDATING", "validating">>,
   <<"toShadow", "SHADOW_EVALUATION", "shadow">>,
   <<"toAwaiting", "AWAITING_APPROVAL", "marking">>}

\* transitionJobState; a refusal leads to failJob.
Advance(j) ==
  \E t \in Transitions :
    /\ pipeline[j] = t[1]
    /\ IF CanTransition(coord.state, t[2])
         THEN Becomes([coord EXCEPT !.state = t[2]], registry) /\ PipelineAt(j, t[3])
         ELSE PipelineAt(j, "failing") /\ UNCHANGED <<coord, registry, file, spent, excused>>
    /\ UNCHANGED <<mode, engineJob, listed, traffic, byHand, rollout, call, promoted>>

\* Training ends; a candidate is registered, whose lifecycle is not saved yet.
FinishTraining(j) ==
  /\ pipeline[j] = "training"
  /\ \/ PipelineAt(j, "listing") /\ registry' = WithCandidate(registry, j)
     \/ PipelineAt(j, "failing") /\ UNCHANGED registry
  /\ UNCHANGED <<mode, coord, engineJob, listed, traffic, byHand, rollout, file, call, spent,
                 excused, promoted>>

\* The candidate becomes visible to operators, under the lock and unsaved.
ListCandidate(j) ==
  /\ pipeline[j] = "listing"
  /\ listed' = listed \cup {j}
  /\ coord' = [coord EXCEPT !.cand = j]
  /\ PipelineAt(j, "toValidating")
  /\ excused' = excused \cup Overtaking
  /\ UNCHANGED <<mode, engineJob, registry, traffic, byHand, rollout, file, call, spent, promoted>>

\* The offline and the shadow gate and the wait for approval, and what the registry is told.
PassGate(j) ==
  /\ \/ /\ pipeline[j] = "validating" /\ PipelineAt(j, "toShadow")
        /\ registry' = WithLifecycle(registry, j, "VALIDATED")
     \/ /\ pipeline[j] = "shadow" /\ PipelineAt(j, "toAwaiting")
        /\ registry' = WithLifecycle(registry, j, "SHADOW")
     \/ /\ pipeline[j] = "marking" /\ PipelineAt(j, "done")
        /\ registry' = WithLifecycle(registry, j, "APPROVED")
  /\ UNCHANGED <<mode, coord, engineJob, listed, traffic, byHand, rollout, file, call, spent,
                 excused, promoted>>

FailGate(j) ==
  /\ pipeline[j] \in {"validating", "shadow"}
  /\ PipelineAt(j, "rejecting")
  /\ registry' = WithLifecycle(registry, j, "REJECTED")
  /\ UNCHANGED <<mode, coord, engineJob, listed, traffic, byHand, rollout, file, call, spent,
                 excused, promoted>>

\* rejectCandidate and failJob, called by the pipeline.
EndPipeline(j) ==
  /\ \/ pipeline[j] = "rejecting" /\ EndJob("REJECTED", WithLifecycle(registry, j, "REJECTED"))
     \/ pipeline[j] = "failing" /\ EndJob("FAILED", registry)
  /\ PipelineAt(j, "done")
  /\ UNCHANGED <<mode, listed, traffic, byHand, rollout, call, promoted>>

PipelineStep(j) ==
  Serving /\ (Advance(j) \/ FinishTraining(j) \/ ListCandidate(j) \/ PassGate(j) \/ FailGate(j)
              \/ EndPipeline(j))

(* ApproveCandidate. The rollout is given the active job, which after a     *)
(* restart is none.                                                         *)
Approve(v) ==
  /\ Serving
  /\ coord.state = "AWAITING_APPROVAL" /\ v \in listed
  /\ \E k \in Rollouts :
       /\ rollout[k].pc = "none" /\ \A l \in 1 .. k - 1 : rollout[l].pc # "none"
       /\ rollout' = [rollout EXCEPT ![k] = [pc |-> "announcing", cand |-> v, job |-> coord.job]]
  /\ Becomes([coord EXCEPT !.state = "CANARY"], registry)
  /\ UNCHANGED <<mode, engineJob, listed, traffic, byHand, pipeline, call, promoted>>

\* RejectCandidate and CancelJob.
Reject(v) ==
  /\ Serving
  /\ coord.state = "AWAITING_APPROVAL" /\ v \in listed
  /\ EndJob("REJECTED", WithLifecycle(registry, v, "REJECTED"))
  /\ UNCHANGED <<mode, listed, traffic, byHand, goroutines, call, promoted>>

Cancel ==
  /\ Serving
  /\ coord.job # NoJob
  /\ EndJob("FAILED", registry)
  /\ UNCHANGED <<mode, listed, traffic, byHand, goroutines, call, promoted>>

\* Mutant: a switch changes the coordinator and not the file.
SetControlUnsaved(c, on) ==
  /\ Serving
  /\ spent.toggles < MaxToggles
  /\ coord' = [coord EXCEPT !.controls = IF on THEN @ \cup {c} ELSE @ \ {c}]
  /\ spent' = Spend("toggles") /\ excused' = excused \cup Overtaking
  /\ UNCHANGED <<mode, engineJob, listed, registry, traffic, byHand, goroutines, file, call,
                 promoted>>

\* SetMaintenanceMode, SetModelFrozen, SetRetrainingPaused and SetCanaryPaused.
SetControl(c, on) ==
  /\ Serving
  /\ spent.toggles < MaxToggles
  /\ LET new == [coord EXCEPT !.controls = IF on THEN @ \cup {c} ELSE @ \ {c}]
     IN coord' = new /\ PersistCounting(new, registry, "toggles")
  /\ UNCHANGED <<mode, engineJob, listed, registry, traffic, byHand, goroutines, call, promoted>>

AnnounceRollout(k) ==
  /\ rollout[k].pc = "announcing"
  /\ registry' = WithLifecycle(registry, rollout[k].cand, "CANARY")
  /\ RolloutAt(k, "raising")
  /\ UNCHANGED <<mode, coord, engineJob, listed, traffic, byHand, pipeline, file, call, spent,
                 excused, promoted>>

RaiseTraffic(k) ==
  /\ rollout[k].pc = "raising"
  /\ coord.controls \cap {"MAINTENANCE", "FROZEN", "CANARY_PAUSED"} = {}
  /\ traffic' = TRUE /\ byHand' = FALSE
  /\ RolloutAt(k, "observing")
  /\ UNCHANGED <<mode, coord, engineJob, listed, registry, pipeline, file, call, spent, excused,
                 promoted>>

\* The breaker's verdict at the end of the stage.
ObserveStage(k) ==
  /\ rollout[k].pc = "observing"
  /\ \E next \in {"promoting", "rolling"} : RolloutAt(k, next)
  /\ UNCHANGED <<mode, coord, engineJob, listed, registry, traffic, byHand, pipeline, file, call,
                 spent, excused, promoted>>

PromotionBlocked == coord.controls \cap {"MAINTENANCE", "FROZEN"} # {}

\* promoteCandidate.
Promote(k) ==
  /\ rollout[k].pc = "promoting" /\ ~PromotionBlocked
  /\ rollout[k].job # NoJob
  /\ EndJob("PROMOTED", WithPromoted(registry, rollout[k].cand))
  /\ traffic' = FALSE /\ byHand' = FALSE
  /\ promoted' = IF Known(registry, rollout[k].cand) THEN rollout[k].cand ELSE promoted
  /\ RolloutEnds(k)
  /\ UNCHANGED <<mode, listed, pipeline, call>>

(* promoteCandidate without a job: it writes to job.State, and the panic of *)
(* a goroutine takes the process down.                                      *)
PromotePanics(k) ==
  /\ rollout[k].pc = "promoting" /\ ~PromotionBlocked
  /\ rollout[k].job = NoJob
  /\ Restart
  /\ UNCHANGED <<file, spent, excused, promoted>>

PromotionRefused(k) ==
  /\ rollout[k].pc = "promoting" /\ PromotionBlocked
  /\ RolloutAt(k, "rolling")
  /\ UNCHANGED <<mode, coord, engineJob, listed, registry, traffic, byHand, pipeline, file, call,
                 spent, excused, promoted>>

\* rollbackCandidate.
Rollback(k) ==
  /\ rollout[k].pc = "rolling"
  /\ EndJob("ROLLED_BACK", WithRolledBack(registry, rollout[k].cand))
  /\ traffic' = FALSE /\ byHand' = FALSE
  /\ RolloutEnds(k)
  /\ UNCHANGED <<mode, listed, pipeline, call, promoted>>

RolloutStep(k) ==
  Serving /\ (AnnounceRollout(k) \/ RaiseTraffic(k) \/ ObserveStage(k) \/ Promote(k)
              \/ PromotePanics(k) \/ PromotionRefused(k) \/ Rollback(k))

(* CleanOnce: a job that has been in one of these states for too long is    *)
(* failed. The trigger engine is not told.                                  *)
CleanOrphan ==
  /\ Serving
  /\ coord.job # NoJob
  /\ coord.state \in {"TRAINING", "VALIDATING", "SHADOW_EVALUATION"}
  /\ Becomes([coord EXCEPT !.state = "FAILED", !.job = NoJob], registry)
  /\ UNCHANGED <<mode, engineJob, listed, traffic, byHand, goroutines, call, promoted>>

-----------------------------------------------------------------------------
(* ExecuteRecovery: no lock is held from one step to the next but its own.  *)

CallAt(pc) == call' = [call EXCEPT !.pc = pc]

\* POST /v1/operations/recovery/trigger.
RequestRecovery ==
  /\ Serving
  /\ call.pc = "idle" /\ spent.requests < MaxRequests
  /\ CallAt("loading")
  /\ spent' = Spend("requests")
  /\ UNCHANGED <<mode, coord, engineJob, listed, registry, traffic, byHand, goroutines, file,
                 excused, promoted>>

\* A baseline stands in for a missing state: the registry's pointers, no models.
PointersOnly(reg) ==
  [reg EXCEPT !.lifecycle = [v \in Versions |-> "NONE"], !.active = {}, !.standby = {},
              !.validated = {}]

(* Load, and the baseline. A file that fails ValidateEnvelope is moved away.*)
LoadState ==
  /\ call.pc = "loading"
  /\ LET image == IF file.kind = "saved" THEN file.image
                  ELSE Image(FreshCoordinator, PointersOnly(registry))
     IN call' = [pc |-> "controls", image |-> image, became |-> image.coord.state]
  /\ file' = IF file = Damaged THEN NoFile ELSE file
  /\ excused' = IF "unsaved" \in excused THEN excused \cup {"stale"} ELSE excused
  /\ UNCHANGED <<mode, coord, engineJob, listed, registry, traffic, byHand, goroutines, spent,
                 promoted>>

\* Step 3: controls and candidate, but neither the state nor the active job.
RestoreControls ==
  /\ call.pc = "controls"
  /\ LET saved == call.image.coord
         cand  == saved.cand
     IN /\ coord' = [coord EXCEPT !.controls = saved.controls,
                                  !.cand = IF cand = NoVersion THEN @ ELSE cand]
        /\ listed' = listed \cup ({cand} \ {NoVersion})
  /\ CallAt("models")
  /\ UNCHANGED <<mode, engineJob, registry, traffic, byHand, goroutines, file, spent, excused,
                 promoted>>

\* Steps 4 to 6, in two critical sections of the registry.
RestoreModels ==
  /\ call.pc = "models"
  /\ registry' = Restored(registry, call.image.registry)
  /\ CallAt("reconciling")
  /\ UNCHANGED <<mode, coord, engineJob, listed, traffic, byHand, goroutines, file, spent,
                 excused, promoted>>

ReconcileModels ==
  /\ call.pc = "reconciling"
  /\ \E corrupt \in {{}, Candidates} :
       /\ corrupt # {} => Fault
       /\ registry' = Reconciled(registry, corrupt)
       /\ spent' = IF corrupt = {} THEN spent ELSE Spend("faults")
       /\ excused' = IF corrupt = {} THEN excused ELSE excused \cup {"damaged"}
  /\ CallAt("settling")
  /\ UNCHANGED <<mode, coord, engineJob, listed, traffic, byHand, goroutines, file, promoted>>

\* Mutant: a job that was only queued is not given up.
SettleTrainingOnly ==
  /\ call.pc = "settling"
  /\ IF call.image.coord.state \in InFlight \ {"TRIGGERED", "QUEUED"}
       THEN /\ coord' = [coord EXCEPT !.state = "FAILED", !.job = NoJob]
            /\ call' = [call EXCEPT !.pc = "draining", !.became = "FAILED"]
       ELSE CallAt("draining") /\ UNCHANGED coord
  /\ UNCHANGED <<mode, engineJob, listed, registry, traffic, byHand, goroutines, file, spent,
                 excused, promoted>>

(* Steps 8 to 11: what the saved state becomes. An interrupted job is given *)
(* up, if there is one in memory; at start-up there is not.                 *)
Settle ==
  /\ call.pc = "settling"
  /\ CASE call.image.coord.state \in InFlight ->
            /\ coord' = [coord EXCEPT !.state = "FAILED", !.job = NoJob]
            /\ call' = [call EXCEPT !.pc = "draining", !.became = "FAILED"]
            /\ UNCHANGED <<traffic, byHand>>
       [] call.image.coord.state = "CANARY" ->
            /\ coord' = [coord EXCEPT !.state = "IDLE"]
            /\ call' = [call EXCEPT !.pc = "draining", !.became = "IDLE"]
            /\ traffic' = FALSE /\ byHand' = FALSE
       [] OTHER ->
            /\ CallAt("draining")
            /\ UNCHANGED <<coord, traffic, byHand>>
  /\ UNCHANGED <<mode, engineJob, listed, registry, goroutines, file, spent, excused, promoted>>

\* Step 11b: whatever was configured, the canary gets nothing.
Drain ==
  /\ call.pc = "draining"
  /\ traffic' = FALSE /\ byHand' = FALSE
  /\ CallAt("committing")
  /\ UNCHANGED <<mode, coord, engineJob, listed, registry, goroutines, file, spent, excused,
                 promoted>>

\* Mutant: the reconciled state is not saved.
CommitUnsaved ==
  /\ call.pc = "committing"
  /\ coord' = [coord EXCEPT !.state = call.became]
  /\ mode' = "serving" /\ call' = IdleCall
  /\ UNCHANGED <<engineJob, listed, registry, traffic, byHand, goroutines, file, spent, excused,
                 promoted>>

(* Step 12 sets the state once more and saves. The recovery at start-up is  *)
(* followed by the goroutines and the server.                               *)
Commit ==
  /\ call.pc = "committing"
  /\ LET c == [coord EXCEPT !.state = call.became]
     IN coord' = c /\ (\/ /\ file' = FileOf(Image(c, registry))
                          /\ excused' = excused \ {"unsaved"}
                          /\ UNCHANGED spent
                       \/ /\ Fault /\ spent' = Spend("faults")
                          /\ excused' = excused \cup {"unsaved"}
                          /\ UNCHANGED file)
  /\ mode' = "serving"
  /\ call' = IdleCall
  /\ UNCHANGED <<engineJob, listed, registry, traffic, byHand, goroutines, promoted>>

RecoveryStep ==
  LoadState \/ RestoreControls \/ RestoreModels \/ ReconcileModels \/ Settle \/ Drain \/ Commit

-----------------------------------------------------------------------------

RecoveryInit ==
  /\ mode = "starting"
  /\ coord = FreshCoordinator /\ engineJob = NoJob /\ listed = {}
  /\ registry = NewRegistry
  /\ traffic \in BOOLEAN /\ byHand = traffic
  /\ pipeline = [j \in Jobs |-> "none"]
  /\ rollout = [k \in Rollouts |-> NoRollout]
  /\ file = NoFile
  /\ call = [IdleCall EXCEPT !.pc = "loading"]
  /\ spent = [jobs |-> 0, toggles |-> 0, requests |-> 0, faults |-> 0]
  /\ excused = {}
  /\ promoted = Baseline

RecoveryNext ==
  \/ Trigger
  \/ \E j \in Jobs : PipelineStep(j)
  \/ \E v \in Candidates : Approve(v) \/ Reject(v)
  \/ Cancel
  \/ \E c \in Switches, on \in BOOLEAN : SetControl(c, on)
  \/ \E k \in Rollouts : RolloutStep(k)
  \/ CleanOrphan
  \/ RequestRecovery
  \/ RecoveryStep
  \/ DamageFile
  \/ Crash

(* Goroutines that have started and a recovery that has begun run on; nobody*)
(* has to trigger, approve, ask for a recovery or switch a control.         *)
RecoveryFairness ==
  /\ WF_vars(RecoveryStep)
  /\ \A j \in Jobs : WF_vars(PipelineStep(j))
  /\ \A k \in Rollouts : WF_vars(RolloutStep(k))

RecoverySpec == RecoveryInit /\ [][RecoveryNext]_vars /\ RecoveryFairness

-----------------------------------------------------------------------------
(* Properties. *)

Settled == mode = "serving" /\ call.pc \in {"idle", "loading"}

LivePipeline(j) == pipeline[j] \notin {"none", "done"}
LiveRollout(k) == rollout[k].pc \notin {"none", "done"}
Worker == (\E j \in Jobs : LivePipeline(j)) \/ (\E k \in Rollouts : LiveRollout(k))

(* What a crash would bring back is what the coordinator has now: its state,*)
(* its job, its controls and the production model, at every point outside a *)
(* recovery, unless the last write failed or the file was damaged.          *)
DiskCurrent ==
  Settled /\ excused \cap {"unsaved", "damaged"} = {} =>
    /\ file.kind = "saved"
    /\ file.image.coord.state = coord.state
    /\ file.image.coord.job = coord.job
    /\ file.image.coord.controls = coord.controls
    /\ file.image.registry.production = registry.production

(* No crash and no recovery leaves the coordinator in a state that refuses  *)
(* triggers with nobody to leave it: some goroutine is at work, or an       *)
(* operator can decide on the candidate that awaits approval.               *)
WayOut ==
  Settled /\ coord.state \notin Startable =>
    \/ Worker
    \/ coord.state = "AWAITING_APPROVAL" /\ coord.cand \in listed

(* The trigger engine is occupied by a job only while the job's goroutines  *)
(* run or it can be cancelled, although the cleaner and a recovery end a job *)
(* without telling the engine; a recovery that applies what it read before  *)
(* the job moved on is the exception.                                       *)
EngineHasOwner ==
  mode = "serving" /\ engineJob # NoJob =>
    \/ Worker
    \/ coord.job = engineJob
    \/ "stale" \in excused

(* A promotion survives crashes: production is the model promoted last,     *)
(* unless a write failed, a file or an artifact was damaged, or a recovery  *)
(* applied what it read before the promotion.                               *)
ProductionDurable ==
  Settled /\ excused = {} => registry.production = promoted

(* What the safety auditor (SafetyAuditor.Audit) finds in the registry. Its *)
(* other checks read artifacts, ages and error budgets, or cannot fail.     *)
ActiveModels == {v \in registry.active : Known(registry, v)}

\* GetProductionModel and GetFallbackModel find the model their pointer names.
Resolves(pointer) == Known(registry, pointer)

Check(name) ==
  CASE name = "production_model"     -> Resolves(registry.production)
    [] name = "fallback_model"       -> Resolves(registry.fallback)
    [] name = "registry_consistency" -> Cardinality(ActiveModels) = 1

AuditFailures ==
  {name \in {"production_model", "fallback_model", "registry_consistency"} : ~Check(name)}

(* Whatever a crash, a promotion, a rollback or a recovery makes of the     *)
(* registry, its pointers name models that it has, and no model but the one *)
(* in production carries the flag of production. It may be without a flag:  *)
(* a candidate can be approved again after its promotion, while another one *)
(* awaits approval, and the rollback of that second rollout clears the flag *)
(* and leaves the pointer. A model that was promoted and not touched since  *)
(* has its flag, and the auditor finds nothing.                             *)
AuditIsClean ==
  Settled =>
    /\ AuditFailures \subseteq {"registry_consistency"}
    /\ ActiveModels \subseteq {registry.production}
    /\ AuditFailures # {} => registry.lifecycle[registry.production] # "PROMOTED"

(* Once the process serves, the canary's traffic is that of a rollout at    *)
(* work: neither the configuration of a fresh process nor a rollout that    *)
(* died with the last one leaves any.                                       *)
TrafficHasRollout ==
  mode = "serving" /\ traffic => \E k \in Rollouts : LiveRollout(k)

(* The state file does not say for ever that a job is in flight: its job    *)
(* ends, or the recovery after a crash gives it up, unless the write failed.*)
FileInFlight == file.kind = "saved" /\ file.image.coord.state \in InFlight
FileSettles == FileInFlight ~> (~FileInFlight \/ "unsaved" \in excused)

(* recovery_manager.go says of a candidate found in AWAITING_APPROVAL that  *)
(* it is "successfully recovered and awaiting operator review". An operator *)
(* who approves it starts a rollout that may be promoted like any other: it *)
(* has the job that the promotion writes to.                                *)
RecoveredCandidatePromotes ==
  \A k \in Rollouts :
    rollout[k].pc = "promoting" /\ ~PromotionBlocked => rollout[k].job # NoJob

(* Crashes and recoveries leave the coordinator with a way out, its engine  *)
(* with an owner, the registry with one production model, and the traffic   *)
(* with a rollout.                                                          *)
RecoverySound ==
  RecoveryTypeOK /\ WayOut /\ EngineHasOwner /\ AuditIsClean /\ TrafficHasRollout

===============================================================================
