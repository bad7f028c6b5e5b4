------------------------------ MODULE ServiceLevels ------------------------------
(***************************************************************************)
(* What the service levels are measured from (SLOEngine in                  *)
(* riskengine/slo_engine.go): a ring of the latest evaluations, of which    *)
(* those of the last minutes count, and the probes of dependencies, counted *)
(* since the process started. Nobody reports divergence, drift, retraining  *)
(* or rollbacks to the engine, and the orchestrator never an inference      *)
(* error: those levels keep the values they have without any.               *)
(***************************************************************************)
EXTENDS SloMath

CONSTANTS
  Reservoir,       \* defaultSLOReservoirSize: 2000
  WindowLength,    \* windowDuration: 5 minutes
  SlowLatency,     \* the latency of an evaluation that is slow; others take 1 ms
  MaxEvaluations,  \* bounds on the evaluations, probes and minutes of a run
  MaxProbes,
  MaxMinute

ASSUME ServiceLevelAssumption ==
  /\ {Reservoir, WindowLength, SlowLatency, MaxEvaluations, MaxProbes, MaxMinute} \subseteq Nat
  /\ 0 < Reservoir /\ 0 < WindowLength

VARIABLES
  samples,  \* evalSamples, evalIdx, evalCount
  history,  \* every evaluation of the run, in order
  probes,   \* depChecksTotal and depChecksSuccess, summed over the dependencies
  minute

levelVars == <<samples, history, probes, minute>>

Evaluations == [at : 0 .. MaxMinute, latency : {1, SlowLatency}, degraded : BOOLEAN]

SamplesTypeOK ==
  /\ samples.buffer \in [0 .. Reservoir - 1 -> Evaluations]
  /\ samples.next \in 0 .. Reservoir - 1 /\ samples.count \in 0 .. Reservoir
  /\ history \in Seq(Evaluations) /\ Len(history) <= MaxEvaluations
  /\ probes.total \in 0 .. MaxProbes /\ probes.healthy \in 0 .. probes.total
  /\ minute \in 0 .. MaxMinute

SamplesInit ==
  /\ samples = [buffer |-> [i \in 0 .. Reservoir - 1 |-> [at |-> 0, latency |-> 1, degraded |-> FALSE]],
                next |-> 0, count |-> 0]
  /\ history = <<>>
  /\ probes = [total |-> 0, healthy |-> 0]
  /\ minute = 0

\* RecordEvaluation, as the orchestrator calls it: what is degraded failed and fell back.
RecordEvaluation(latency, degraded) ==
  LET sample == [at |-> minute, latency |-> latency, degraded |-> degraded]
  IN /\ Len(history) < MaxEvaluations /\ history' = Append(history, sample)
     /\ samples' = [buffer |-> [samples.buffer EXCEPT ![samples.next] = sample],
                    next |-> (samples.next + 1) % Reservoir,
                    count |-> Min({Reservoir, samples.count + 1})]
     /\ UNCHANGED <<probes, minute>>

RecordDependencyCheck(healthy) ==
  /\ probes.total < MaxProbes
  /\ probes' = [total |-> probes.total + 1, healthy |-> probes.healthy + IF healthy THEN 1 ELSE 0]
  /\ UNCHANGED <<samples, history, minute>>

MinutePasses == minute < MaxMinute /\ minute' = minute + 1 /\ UNCHANGED <<samples, history, probes>>

SamplesNext ==
  \/ \E latency \in {1, SlowLatency}, degraded \in BOOLEAN : RecordEvaluation(latency, degraded)
  \/ \E healthy \in BOOLEAN : RecordDependencyCheck(healthy)
  \/ MinutePasses

-----------------------------------------------------------------------------
(* SLOEngine.Evaluate. *)

\* The places of the ring that count: filled, and younger than the window.
Counted == {i \in 0 .. samples.count - 1 : samples.buffer[i].at + WindowLength > minute}

Share(n, of, none) == IF of = 0 THEN none ELSE (One * n) \div of

Values ==
  LET all == Cardinality(Counted)
      degraded == Cardinality({i \in Counted : samples.buffer[i].degraded})
      slow == Cardinality({i \in Counted : samples.buffer[i].latency = SlowLatency})
      sorted == [k \in 1 .. all |-> IF k <= all - slow THEN 1 ELSE SlowLatency]
  IN [availability |-> Share(all - degraded, all, One),
      p95_latency |-> Percentile(sorted, 95), p99_latency |-> Percentile(sorted, 99),
      error_rate |-> 0, fallback_rate |-> Share(degraded, all, 0),
      divergence |-> 0, drift |-> 0, retraining |-> One, rollback_rate |-> 0,
      dependencies |-> Share(probes.healthy, probes.total, One)]

Statuses == {StatusOf(Definitions[l], Values[l]) : l \in DOMAIN Definitions}
OverallStatus ==
  IF "BREACHED" \in Statuses THEN "BREACHED" ELSE IF "WARNING" \in Statuses THEN "WARNING" ELSE "HEALTHY"

\* ErrorBudgetPolicyEngine.Evaluate follows the level with the least budget left.
BudgetAction == Policy(Min({Remaining(Definitions[l], Values[l]) : l \in DOMAIN Definitions}))

-----------------------------------------------------------------------------

\* The latest evaluations, as many as the ring can hold, and of those the young ones.
Kept == {k \in DOMAIN history : k > Len(history) - Reservoir}
Young == {k \in Kept : history[k].at + WindowLength > minute}

(* The levels are those of the last minutes: of the latest evaluations that *)
(* the ring can hold, exactly the young ones count, before and after it has *)
(* wrapped around.                                                          *)
LevelsAreRecent ==
  LET n == Len(history)
      count == samples.count
  IN /\ count = Min({Reservoir, n})
     /\ \A i \in 1 .. count :
          samples.buffer[((samples.next + Reservoir) - count + i - 1) % Reservoir] = history[n - count + i]
     /\ Cardinality(Counted) = Cardinality(Young)
     /\ Values.fallback_rate = Share(Cardinality({k \in Young : history[k].degraded}), Cardinality(Young), 0)

(* The models are frozen for a reason that operators see: the budget is     *)
(* spent when a level is breached, and otherwise only when one is just at   *)
(* its target, which is a warning to operators and no breach. More than one *)
(* evaluation in a thousand that fell back breaches availability, so that   *)
(* with little traffic a single one freezes the models, until the window has*)
(* passed. A probe that failed is not forgotten: it is outweighed only by   *)
(* 199 that did not.                                                        *)
FreezeHasCause ==
  LET degraded == {k \in Young : history[k].degraded}
      slow == \E k \in Young : history[k].latency > 1
      failed == probes.total - probes.healthy
      frozen == BudgetAction = "EMERGENCY_MODEL_FREEZE"
  IN /\ OverallStatus = "BREACHED" => frozen
     /\ frozen => \/ OverallStatus = "BREACHED"
                  \/ OverallStatus = "WARNING" /\ \E l \in DOMAIN Definitions : Values[l] = Definitions[l].target
     /\ 1000 * Cardinality(degraded) > Cardinality(Young) => OverallStatus = "BREACHED"
     /\ 200 * failed > probes.total => OverallStatus = "BREACHED"
     /\ degraded = {} /\ ~slow /\ failed = 0 => BudgetAction = "BUDGET_HEALTHY"

=================================================================================
