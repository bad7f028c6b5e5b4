----------------------------- MODULE JobLifecycle -----------------------------
(* The states of a retraining job (riskengine/retraining_types.go), shared   *)
(* by the modules that move jobs through them.                               *)

JobStates ==
  {"IDLE", "TRIGGERED", "QUEUED", "TRAINING", "VALIDATING", "SHADOW_EVALUATION",
   "AWAITING_APPROVAL", "CANARY", "PROMOTED", "REJECTED", "FAILED", "ROLLED_BACK"}

\* States in which createAndStartJob accepts a job.
Startable == {"IDLE", "PROMOTED", "REJECTED", "FAILED", "ROLLED_BACK"}

\* JobState.CanTransitionTo.
CanTransition(from, to) ==
  CASE from = "IDLE"              -> to = "TRIGGERED"
    [] from = "TRIGGERED"         -> to \in {"QUEUED", "FAILED", "IDLE"}
    [] from = "QUEUED"            -> to \in {"TRAINING", "FAILED", "IDLE"}
    [] from = "TRAINING"          -> to \in {"VALIDATING", "FAILED"}
    [] from = "VALIDATING"        -> to \in {"SHADOW_EVALUATION", "REJECTED", "FAILED"}
    [] from = "SHADOW_EVALUATION" -> to \in {"AWAITING_APPROVAL", "CANARY", "REJECTED", "FAILED"}
    [] from = "AWAITING_APPROVAL" -> to \in {"CANARY", "REJECTED", "FAILED"}
    [] from = "CANARY"            -> to \in {"PROMOTED", "ROLLED_BACK", "FAILED"}
    [] OTHER                      -> to \in {"IDLE", "TRIGGERED"}

Controls == {"MAINTENANCE", "FROZEN", "RETRAINING_PAUSED", "CANARY_PAUSED"}
===============================================================================
