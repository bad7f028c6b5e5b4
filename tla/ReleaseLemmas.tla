---------------------------- MODULE ReleaseLemmas ----------------------------
(* What the operators of the breaker and of the registry return, for every  *)
(* window and every set of versions: the modules that own a breaker or a    *)
(* registry cite these facts.                                               *)
EXTENDS CircuitBreaker, ModelRegistry, TLAPS

-----------------------------------------------------------------------------
(* The breaker.                                                             *)

(* An evaluation returns a breaker, and rolls back only by tripping.        *)
LEMMA EvaluatedTyped ==
  ASSUME NEW b \in Breaker, NEW v \in Verdicts
  PROVE  /\ Evaluated(b, v) \in Breaker
         /\ ~Trips(b, v) /\ Evaluated(b, v).state = "ROLLED_BACK" => b.state = "ROLLED_BACK"
  <1> USE FailureWindowAssumption
  <1>1. CASE Ignores(b, v)
    BY <1>1 DEF Evaluated
  <1>2. CASE Trips(b, v)
    BY <1>2 DEF Evaluated, Trips, Breaker, BreakerStates
  <1>3. CASE ~Ignores(b, v) /\ ~Trips(b, v) /\ v = "BREACHED"
    BY <1>3 DEF Evaluated, Trips, Breaker, BreakerStates
  <1>4. CASE ~Ignores(b, v) /\ v = "CLEAN"
    <2>1. Evaluated(b, v) = NewBreaker
      BY <1>4 DEF Evaluated, Trips
    <2> QED BY <2>1 DEF NewBreaker, Breaker, BreakerStates
  <1> QED BY <1>1, <1>2, <1>3, <1>4 DEF Ignores, Verdicts

(* An evaluation keeps state and counter in step.                           *)
LEMMA EvaluatedConsistent ==
  ASSUME NEW b \in Breaker, NEW v \in Verdicts, Consistent(b)
  PROVE  Consistent(Evaluated(b, v))
  <1> USE FailureWindowAssumption
  <1>1. CASE Ignores(b, v)
    BY <1>1 DEF Evaluated
  <1>2. CASE Trips(b, v)
    BY <1>2 DEF Evaluated, Trips, Breaker, Consistent
  <1>3. CASE ~Ignores(b, v) /\ ~Trips(b, v) /\ v = "BREACHED"
    BY <1>3 DEF Evaluated, Trips, Breaker, Consistent
  <1>4. CASE ~Ignores(b, v) /\ v = "CLEAN"
    <2>1. Evaluated(b, v) = NewBreaker
      BY <1>4 DEF Evaluated, Trips
    <2> QED BY <2>1 DEF NewBreaker, Consistent
  <1> QED BY <1>1, <1>2, <1>3, <1>4 DEF Ignores, Verdicts

(* A new, a reset and a cooled-down breaker are breakers.                   *)
LEMMA BreakerOperators ==
  ASSUME NEW b \in Breaker
  PROVE  /\ NewBreaker \in Breaker
         /\ ResetBreaker(b) \in Breaker
         /\ CooledDown(b) \in Breaker
  <1>1. NewBreaker \in Breaker
    BY FailureWindowAssumption DEF NewBreaker, Breaker, BreakerStates
  <1>2. ResetBreaker(b) \in Breaker
    BY <1>1 DEF ResetBreaker
  <1>3. CooledDown(b) \in Breaker
    BY DEF CooledDown, Breaker
  <1> QED BY <1>1, <1>2, <1>3

-----------------------------------------------------------------------------
(* The operators of the registry.                                           *)

(* Registering a candidate, and whatever else the pipeline tells the        *)
(* registry about it, leaves a registry whose production model and          *)
(* production flags are as before.                                          *)
LEMMA RegistryCandidate ==
  ASSUME NEW reg \in Registries, NEW v \in Candidates
  PROVE  /\ WithCandidate(reg, v) \in Registries
         /\ WithCandidate(reg, v).active = reg.active
         /\ WithCandidate(reg, v).production = reg.production
  BY DEF Versions, WithCandidate, Registries, Lifecycles

LEMMA RegistryLifecycle ==
  ASSUME NEW reg \in Registries, NEW v \in Candidates, NEW state \in Lifecycles
  PROVE  /\ WithLifecycle(reg, v, state) \in Registries
         /\ WithLifecycle(reg, v, state).active = reg.active
         /\ WithLifecycle(reg, v, state).production = reg.production
  BY DEF Versions, WithLifecycle, Registries

(* A promotion and a rollback return registries, and neither gives the      *)
(* production flag to a model that is not the production model.             *)
LEMMA RegistryPromotion ==
  ASSUME NEW reg \in Registries, NEW v \in Candidates
  PROVE  /\ WithPromoted(reg, v) \in Registries
         /\ WithRolledBack(reg, v) \in Registries
         /\ WithRolledBack(reg, v).production = reg.production
         /\ reg.active \subseteq {reg.production} =>
              /\ WithPromoted(reg, v).active \subseteq {WithPromoted(reg, v).production}
              /\ WithRolledBack(reg, v).active \subseteq {reg.production}
  <1>1. v \in Versions
    BY DEF Versions
  <1>2. "PROMOTED" \in Lifecycles /\ "ROLLED_BACK" \in Lifecycles
    BY DEF Lifecycles
  <1>3. WithPromoted(reg, v) \in Registries
    BY <1>1, <1>2 DEF WithPromoted, Registries
  <1>4. reg.active \subseteq {reg.production} =>
          WithPromoted(reg, v).active \subseteq {WithPromoted(reg, v).production}
    BY <1>1, <1>2 DEF WithPromoted, Registries
  <1>5. /\ WithRolledBack(reg, v) \in Registries
        /\ WithRolledBack(reg, v).production = reg.production
        /\ WithRolledBack(reg, v).active \subseteq reg.active
    BY <1>1, <1>2 DEF WithRolledBack, Registries
  <1> QED BY <1>3, <1>4, <1>5

(* The pointers of a registry name models it has, and no other model than   *)
(* the one in production has its flag; the model in production has it       *)
(* unless it was rolled back after its promotion.                           *)
PointersHold(reg) ==
  /\ Known(reg, reg.production) /\ Known(reg, reg.fallback)
  /\ reg.active \subseteq {reg.production}
  /\ reg.lifecycle[reg.production] = "PROMOTED" => reg.production \in reg.active

(* A fresh registry holds what it should.                                   *)
LEMMA RegistryNew == NewRegistry \in Registries /\ PointersHold(NewRegistry)
  BY RegistryAssumption DEF NewRegistry, Registries, Lifecycles, Versions, PointersHold, Known

(* What the pipeline tells the registry forgets no model and keeps the      *)
(* pointers: only a promotion makes a lifecycle "PROMOTED".                 *)
LEMMA PointersCandidate ==
  ASSUME NEW reg \in Registries, NEW v \in Candidates
  PROVE  /\ \A w \in Versions : Known(reg, w) => Known(WithCandidate(reg, v), w)
         /\ PointersHold(reg) => PointersHold(WithCandidate(reg, v))
  BY DEF WithCandidate, Registries, Lifecycles, Versions, PointersHold, Known

LEMMA PointersLifecycle ==
  ASSUME NEW reg \in Registries, NEW v \in Candidates,
         NEW state \in Lifecycles \ {"NONE", "PROMOTED"}
  PROVE  /\ \A w \in Versions : Known(reg, w) => Known(WithLifecycle(reg, v, state), w)
         /\ PointersHold(reg) => PointersHold(WithLifecycle(reg, v, state))
  BY DEF WithLifecycle, Registries, Versions, PointersHold, Known

(* Promotions and rollbacks, of whatever model, keep the pointers.          *)
LEMMA PointersPromotion ==
  ASSUME NEW reg \in Registries, NEW v \in Candidates
  PROVE  /\ \A w \in Versions : Known(reg, w) => Known(WithPromoted(reg, v), w)
         /\ \A w \in Versions : Known(reg, w) => Known(WithRolledBack(reg, v), w)
         /\ WithPromoted(reg, v).production = IF Known(reg, v) THEN v ELSE reg.production
         /\ PointersHold(reg) => PointersHold(WithPromoted(reg, v))
         /\ PointersHold(reg) => PointersHold(WithRolledBack(reg, v))
  <1>1. v \in Versions
    BY DEF Versions
  <1>2. /\ \A w \in Versions : Known(reg, w) => Known(WithPromoted(reg, v), w)
        /\ \A w \in Versions : Known(reg, w) => Known(WithRolledBack(reg, v), w)
        /\ WithPromoted(reg, v).production = IF Known(reg, v) THEN v ELSE reg.production
    BY <1>1 DEF WithPromoted, WithRolledBack, Registries, Known
  <1>3. ASSUME PointersHold(reg)
        PROVE  PointersHold(WithPromoted(reg, v))
    BY <1>1, <1>3 DEF WithPromoted, Registries, PointersHold, Known
  <1>4. ASSUME PointersHold(reg)
        PROVE  PointersHold(WithRolledBack(reg, v))
    BY <1>1, <1>4 DEF WithRolledBack, Registries, PointersHold, Known
  <1> QED BY <1>2, <1>3, <1>4

(* Restoring takes the pointers of the stored registry and forgets no model *)
(* of either.                                                               *)
LEMMA RegistryRestored ==
  ASSUME NEW reg \in Registries, NEW stored \in Registries
  PROVE  /\ Restored(reg, stored) \in Registries
         /\ Restored(reg, stored).production = stored.production
         /\ \A w \in Versions :
              Known(Restored(reg, stored), w) <=> Known(reg, w) \/ Known(stored, w)
  BY DEF Restored, Registries, Known

(* Whatever it is given, reconciliation returns a registry whose pointers   *)
(* hold, and it leaves a production model that is known and intact.         *)
LEMMA RegistryReconciled ==
  ASSUME NEW reg \in Registries, NEW corrupt \in SUBSET Candidates
  PROVE  /\ Reconciled(reg, corrupt) \in Registries
         /\ PointersHold(Reconciled(reg, corrupt))
         /\ Known(reg, reg.production) /\ reg.production \notin corrupt =>
              Reconciled(reg, corrupt).production = reg.production
  <1>1. Backup \in Versions /\ Backup \notin corrupt /\ corrupt \subseteq Versions
    BY RegistryAssumption DEF Versions
  <1>2. "FAILED" \in Lifecycles /\ "PROMOTED" \in Lifecycles
    BY DEF Lifecycles
  <1>3. Reconciled(reg, corrupt) \in Registries
    BY ZenonT(60), <1>1, <1>2 DEF Reconciled, Registries, Known
  <1>4. PointersHold(Reconciled(reg, corrupt))
    BY <1>1 DEF Reconciled, Registries, PointersHold, Known
  <1>5. Known(reg, reg.production) /\ reg.production \notin corrupt =>
          Reconciled(reg, corrupt).production = reg.production
    BY DEF Reconciled, Registries
  <1> QED BY <1>3, <1>4, <1>5
===============================================================================
