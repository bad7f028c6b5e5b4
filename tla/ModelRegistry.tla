---------------------------- MODULE ModelRegistry -----------------------------
(***************************************************************************)
(* The model registry (riskengine/model_registry.go). All its methods hold  *)
(* one lock from start to end, so each is an operator from the registry     *)
(* before the call to the registry after it. The registry does not know     *)
(* which lifecycle change is legal: it applies what it is told.             *)
(***************************************************************************)
EXTENDS Integers

CONSTANTS
  Candidates,  \* versions that training may produce
  Baseline,    \* the production model a fresh registry knows
  Backup       \* the emergency fallback it knows

ASSUME RegistryAssumption == Baseline # Backup /\ {Baseline, Backup} \cap Candidates = {}

Versions == Candidates \cup {Baseline, Backup}

Lifecycles ==
  {"NONE",  \* not in r.models
   "CANDIDATE", "VALIDATED", "SHADOW", "APPROVED", "CANARY",
   "PROMOTED", "REJECTED", "ROLLED_BACK", "FAILED"}

(* active and standby are the IsProductionActive and IsFallbackActive flags *)
(* of the models, validated their ValidationStatus "PASSED"; production and *)
(* fallback are the registry's own pointers.                                *)
Registries ==
  [lifecycle : [Versions -> Lifecycles], active : SUBSET Versions, standby : SUBSET Versions,
   validated : SUBSET Versions, production : Versions, fallback : Versions]

NewRegistry ==
  [lifecycle  |-> [v \in Versions |-> IF v \in Candidates THEN "NONE" ELSE "PROMOTED"],
   active     |-> {Baseline},
   standby    |-> {Backup},
   validated  |-> {Baseline, Backup},
   production |-> Baseline,
   fallback   |-> Backup]

Known(reg, v) == reg.lifecycle[v] # "NONE"

(* RegisterCandidate: a version is registered once and never replaced.      *)
WithCandidate(reg, v) ==
  IF Known(reg, v) THEN reg ELSE [reg EXCEPT !.lifecycle = [@ EXCEPT ![v] = "CANDIDATE"]]

(* UpdateLifecycleState. *)
WithLifecycle(reg, v, state) ==
  IF ~Known(reg, v) THEN reg
  ELSE [reg EXCEPT !.lifecycle = [@ EXCEPT ![v] = state],
                   !.validated = IF state = "VALIDATED" THEN @ \cup {v} ELSE @]

\* Mutant: the previous production model keeps its flag.
WithPromotedKeepingFlag(reg, v) ==
  IF ~Known(reg, v) THEN reg
  ELSE [reg EXCEPT !.active     = @ \cup {v},
                   !.lifecycle  = [@ EXCEPT ![v] = "PROMOTED"],
                   !.fallback   = reg.production,
                   !.production = v]

(* PromoteModel; a candidate of the retraining pipeline has no provenance   *)
(* record, so the provenance check never stops one.                         *)
WithPromoted(reg, v) ==
  IF ~Known(reg, v) THEN reg
  ELSE [reg EXCEPT !.active     = (@ \ {reg.production}) \cup {v},
                   !.standby    = (@ \cup {reg.production}) \ {v},
                   !.lifecycle  = [@ EXCEPT ![v] = "PROMOTED"],
                   !.fallback   = reg.production,
                   !.production = v]

(* RollbackModel: the flag of the model is cleared, the pointers stay.      *)
WithRolledBack(reg, v) ==
  IF ~Known(reg, v) THEN reg
  ELSE [reg EXCEPT !.lifecycle = [@ EXCEPT ![v] = "ROLLED_BACK"], !.active = @ \ {v}]

\* Mutant: the models are restored, the pointers are not.
RestoredModelsOnly(reg, stored) ==
  LET known == {v \in Versions : Known(stored, v)}
  IN [reg EXCEPT !.lifecycle = [v \in Versions |-> IF v \in known THEN stored.lifecycle[v]
                                                   ELSE reg.lifecycle[v]],
                 !.active = (@ \ known) \cup stored.active]

(* Restoring a stored registry: its models replace those of the same        *)
(* version, others stay, and its pointers are taken as they are.            *)
Restored(reg, stored) ==
  LET known == {v \in Versions : Known(stored, v)}
  IN [lifecycle  |-> [v \in Versions |-> IF v \in known THEN stored.lifecycle[v]
                                        ELSE reg.lifecycle[v]],
      active     |-> (reg.active \ known) \cup stored.active,
      standby    |-> (reg.standby \ known) \cup stored.standby,
      validated  |-> (reg.validated \ known) \cup stored.validated,
      production |-> stored.production,
      fallback   |-> stored.fallback]

(* Reconcile, when the artifacts of the versions in corrupt cannot be       *)
(* verified: a missing fallback is restored, production fails over to the   *)
(* fallback, exactly the production model keeps its flag, and candidates    *)
(* that were still under evaluation fail.                                   *)
Reconciled(reg, corrupt) ==
  LET fallback   == IF Known(reg, reg.fallback) THEN reg.fallback ELSE Backup
      restored   == ~Known(reg, reg.fallback)
      production == IF Known(reg, reg.production) /\ reg.production \notin corrupt
                      THEN reg.production ELSE fallback
      failing    == {v \in corrupt : reg.lifecycle[v] \in {"CANDIDATE", "VALIDATED", "SHADOW"}}
  IN [reg EXCEPT !.fallback   = fallback,
                 !.production = production,
                 !.active     = {production},
                 !.standby    = IF restored THEN @ \cup {Backup} ELSE @,
                 !.validated  = IF restored THEN @ \cup {Backup} ELSE @,
                 !.lifecycle  = [v \in Versions |->
                                   IF v \in failing THEN "FAILED"
                                   ELSE IF restored /\ v = Backup THEN "PROMOTED" ELSE @[v]]]
===============================================================================
