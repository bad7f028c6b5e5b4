----------------------------- MODULE DriftDetector -----------------------------
(***************************************************************************)
(* Drift measurement (riskengine/drift_collector.go, drift_detector.go,     *)
(* drift_calculator.go): a ring of the latest feature vectors, evaluations  *)
(* by the periodic worker and by POST /v1/drift/evaluate at once, and the   *)
(* state that the last of them to finish leaves behind. A vector is drifted *)
(* or not; the shares of drifted ones stand for the divergence.             *)
(***************************************************************************)
EXTENDS Naturals, Sequences, FiniteSets, SequencesExt

CONSTANTS
  Evaluators,  \* goroutines that run EvaluateLiveDrift
  RingSize,    \* maxCapacity
  MinSamples,  \* MinSamplesForDrift
  MaxPushes,   \* bound on the vectors of a run
  MaxDriftHistory \* 50

ASSUME DriftAssumption ==
  /\ {RingSize, MinSamples, MaxPushes, MaxDriftHistory} \subseteq Nat
  /\ 0 < RingSize /\ 0 < MaxDriftHistory /\ MinSamples <= RingSize

VARIABLES
  ring,      \* buffers, writeIndices, counts
  pushed,    \* every vector pushed, which the ring is the end of
  evaluator, \* the control point and measurement of each goroutine
  drift,     \* currentStatus, latestMeasurement, history
  told       \* measurements the coordinator was called with

driftVars == <<ring, pushed, evaluator, drift, told>>

DriftLevels == {"HEALTHY", "WARNING", "DEGRADED", "CRITICAL"}
NoMeasurement == [at |-> 0, status |-> "HEALTHY", enough |-> FALSE]
Measurements == [at : 0 .. MaxPushes, status : DriftLevels, enough : BOOLEAN]

DriftTypeOK ==
  /\ ring \in [buffer : [0 .. RingSize - 1 -> BOOLEAN], next : 0 .. RingSize - 1, count : 0 .. RingSize]
  /\ pushed \in Seq(BOOLEAN) /\ Len(pushed) <= MaxPushes
  /\ evaluator \in [Evaluators -> [pc : {"idle", "measured", "updated"}, m : Measurements]]
  /\ drift.status \in DriftLevels /\ drift.latest \in Measurements
  /\ drift.history \in Seq(Measurements) /\ Len(drift.history) <= MaxDriftHistory
  /\ told \subseteq Measurements

DriftInit ==
  /\ ring = [buffer |-> [i \in 0 .. RingSize - 1 |-> FALSE], next |-> 0, count |-> 0]
  /\ pushed = <<>>
  /\ evaluator = [e \in Evaluators |-> [pc |-> "idle", m |-> NoMeasurement]]
  /\ drift = [status |-> "HEALTHY", latest |-> NoMeasurement, history |-> <<>>]
  /\ told = {}

PushVector(v) ==
  /\ Len(pushed) < MaxPushes /\ pushed' = Append(pushed, v)
  /\ ring' = [buffer |-> [ring.buffer EXCEPT ![ring.next] = v],
              next |-> (ring.next + 1) % RingSize,
              count |-> IF ring.count < RingSize THEN ring.count + 1 ELSE ring.count]
  /\ UNCHANGED <<evaluator, drift, told>>

\* Snapshot: the most recent values, oldest first.
Snapshot ==
  [i \in 1 .. ring.count |->
     ring.buffer[(((ring.next + RingSize) - ring.count) + i - 1) % RingSize]]

(* The severity of a feature, and the status of the model with so many      *)
(* features of each severity: the thresholds of the maximal PSI are those   *)
(* of the severities, shifted by one level.                                 *)
FeatureSeverity(share) ==
  IF share >= 75 THEN "CRITICAL" ELSE IF share >= 50 THEN "HIGH"
  ELSE IF share >= 25 THEN "WARNING" ELSE "STABLE"

ModelStatus(critical, drifted, psi) ==
  IF critical >= 2 \/ psi = "CRITICAL" THEN "CRITICAL"
  ELSE IF critical >= 1 \/ drifted >= 4 \/ psi = "HIGH" THEN "DEGRADED"
  ELSE IF drifted >= 1 \/ psi = "WARNING" THEN "WARNING" ELSE "HEALTHY"

Measured(samples) ==
  LET n == Len(samples)
      share == (100 * Cardinality({i \in DOMAIN samples : samples[i]})) \div n
      severity == FeatureSeverity(share)
  IN IF n < MinSamples THEN "HEALTHY"
     ELSE ModelStatus(IF severity = "CRITICAL" THEN 1 ELSE 0, IF severity = "STABLE" THEN 0 ELSE 1,
                      severity)

\* EvaluateLiveDrift up to the lock of the detector.
Measure(e) ==
  /\ evaluator[e].pc = "idle" /\ Len(pushed) > evaluator[e].m.at
  /\ evaluator' = [evaluator EXCEPT ![e] =
       [pc |-> "measured",
        m |-> [at |-> Len(pushed), status |-> IF ring.count = 0 THEN "HEALTHY" ELSE Measured(Snapshot),
               enough |-> ring.count >= MinSamples]]]
  /\ UNCHANGED <<ring, pushed, drift, told>>

\* updateState; without enough samples nobody is called.
UpdateState(e) ==
  /\ evaluator[e].pc = "measured"
  /\ drift' = [status |-> evaluator[e].m.status, latest |-> evaluator[e].m,
               history |-> Append(IF Len(drift.history) >= MaxDriftHistory THEN Tail(drift.history)
                                  ELSE drift.history, evaluator[e].m)]
  /\ evaluator' = [evaluator EXCEPT ![e].pc = IF evaluator[e].m.enough THEN "updated" ELSE "idle"]
  /\ UNCHANGED <<ring, pushed, told>>

\* Mutant: the coordinator is called with the detector's latest measurement.
TellLatest(e) ==
  /\ evaluator[e].pc = "updated"
  /\ told' = told \cup {drift.latest}
  /\ evaluator' = [evaluator EXCEPT ![e].pc = "idle"]
  /\ UNCHANGED <<ring, pushed, drift>>

\* The callback (RetrainingCoordinator.OnDriftEvaluated).
Tell(e) ==
  /\ evaluator[e].pc = "updated"
  /\ told' = told \cup {evaluator[e].m}
  /\ evaluator' = [evaluator EXCEPT ![e].pc = "idle"]
  /\ UNCHANGED <<ring, pushed, drift>>

DriftNext ==
  \/ \E v \in BOOLEAN : PushVector(v)
  \/ \E e \in Evaluators : Measure(e) \/ UpdateState(e) \/ Tell(e)

-----------------------------------------------------------------------------

(* The ring is the end of the stream, in its order, before and after it     *)
(* wraps around.                                                            *)
RingIsRecent ==
  Snapshot = SubSeq(pushed, 1 + Len(pushed) - ring.count, Len(pushed))

(* What operators and the coordinator see is one measurement: the status is *)
(* that of the latest, and the history ends with it.                        *)
StatusIsLatest ==
  /\ drift.status = drift.latest.status
  /\ drift.history # <<>> => Last(drift.history) = drift.latest
  /\ Len(drift.history) <= MaxDriftHistory

(* Every measurement of enough samples that is in the history reaches the   *)
(* coordinator, also when another one replaces it in between.               *)
DriftIsTold == []<>(\A m \in Range(drift.history) : m.enough => m \in told)
===============================================================================
