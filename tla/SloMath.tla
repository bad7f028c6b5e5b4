-------------------------------- MODULE SloMath --------------------------------
(***************************************************************************)
(* The arithmetic of service levels (riskengine/slo_engine.go), of the      *)
(* error budget policy (riskengine/error_budget_policy.go), of the safety   *)
(* gates that the canary router reports (riskengine/canary_router.go) and of*)
(* the histograms of drift (riskengine/drift_calculator.go).                *)
(* Fractions are in hundred-thousandths, latencies in milliseconds, and     *)
(* what remains of a budget is in hundredths of a per cent, rounded as the  *)
(* code rounds it; the rates of the gates are in ten-thousandths.           *)
(***************************************************************************)
EXTENDS Integers, Sequences, FiniteSetsExt

One == 100000
Slo(upper, target, warning, breach) ==
  [upper |-> upper, target |-> target, warning |-> warning, breach |-> breach]

Definitions ==
  [availability |-> Slo(FALSE, 99900, 99950, 99900),
   p95_latency  |-> Slo(TRUE, 100, 75, 100),
   p99_latency  |-> Slo(TRUE, 250, 150, 250),
   error_rate   |-> Slo(TRUE, 500, 200, 500),
   fallback_rate |-> Slo(TRUE, 1000, 500, 1000),
   divergence   |-> Slo(TRUE, 5000, 3000, 5000),
   drift        |-> Slo(TRUE, 20000, 10000, 25000),
   retraining   |-> Slo(FALSE, 95000, 98000, 95000),
   rollback_rate |-> Slo(TRUE, 5000, 2000, 5000),
   dependencies |-> Slo(FALSE, 99500, 99800, 99500)]

StatusOf(slo, v) ==
  LET worse(a, b) == IF slo.upper THEN a > b ELSE a < b
  IN IF worse(v, slo.breach) THEN "BREACHED"
     ELSE IF worse(v, slo.warning) THEN "WARNING" ELSE "HEALTHY"

Rounded(n, d) == (2 * n + d) \div (2 * d)

\* Mutant: the budget of an upper bound is what is left up to one.
RemainingOfOne(slo, v) ==
  LET budget == One - slo.target
      spent == IF slo.upper THEN v ELSE One - v
  IN IF spent <= 0 THEN 10000
     ELSE IF spent >= budget THEN 0 ELSE Rounded(10000 * (budget - spent), budget)

\* evalSingleSLO: the deficit as a share of the budget.
Remaining(slo, v) ==
  LET budget == IF slo.upper THEN slo.target ELSE One - slo.target
      spent == IF slo.upper THEN v ELSE One - v
  IN IF spent <= 0 THEN 10000
     ELSE IF spent >= budget THEN 0 ELSE Rounded(10000 * (budget - spent), budget)

Policy(remaining) ==
  IF remaining <= 0 THEN "EMERGENCY_MODEL_FREEZE"
  ELSE IF remaining < 1000 THEN "FREEZE_PROMOTIONS"
  ELSE IF remaining < 2500 THEN "THROTTLE_PROMOTIONS" ELSE "BUDGET_HEALTHY"

\* p in per cent; the code's index is one less than the rank.
Percentile(sorted, p) ==
  IF sorted = <<>> THEN 0
  ELSE sorted[Min({Len(sorted), Max({1, (p * Len(sorted) + 99) \div 100})})]

\* calculatePercentile of the drift calculator: its index is not one less than the rank.
DriftPercentile(sorted, p) == sorted[Min({Len(sorted), (p * Len(sorted)) \div 100 + 1})]

\* The bin of a value: below the first and above the last edge, the outermost ones.
BinOf(edges, v) ==
  IF v <= edges[1] THEN 1
  ELSE IF v >= edges[Len(edges)] THEN Len(edges) - 1
  ELSE Min({b \in 1 .. Len(edges) - 1 : edges[b] <= v /\ v < edges[b + 1]})

\* BinContinuousFeature, as counts.
Histogram(edges, values) ==
  [b \in 1 .. Len(edges) - 1 |-> Cardinality({i \in DOMAIN values : BinOf(edges, values[i]) = b})]

-----------------------------------------------------------------------------
(* The gates of the canary, and the breaker that judges the same snapshot.  *)

\* NewCanaryRouter: a limit that is not set is the default, for both of them.
GateLimits(asked) ==
  LET default == [errors |-> 100, fallbacks |-> 100, p95 |-> 15, p99 |-> 25]
  IN [l \in DOMAIN default |-> IF asked[l] <= 0 THEN default[l] ELSE asked[l]]

Latencies(window) == [p95 |-> Percentile(window, 95), p99 |-> Percentile(window, 99)]

\* Every fallback is an error as well. The rates are rounded, then compared.
CanarySnapshot(total, fallbacks, failures, window) ==
  [total |-> total, latency |-> Latencies(window),
   errors |-> IF total = 0 THEN 0 ELSE Rounded(10000 * (fallbacks + failures), total),
   fallbacks |-> IF total = 0 THEN 0 ELSE Rounded(10000 * fallbacks, total)]

Slow(m, limits) == m.latency.p95 > limits.p95 \/ m.latency.p99 > limits.p99
Failing(m, limits) == m.errors > limits.errors \/ m.fallbacks > limits.fallbacks

(* EvaluateSafetyGates. Latency only warns, and from twenty requests on;    *)
(* with no traffic the gates tell what the breaker is.                      *)
GateStatus(on, breakerState, m, limits) ==
  IF ~on \/ m.total = 0 THEN IF breakerState \in {"ROLLED_BACK", "FAILED"} THEN "FAILED" ELSE "IDLE"
  ELSE IF m.total >= 10 /\ Failing(m, limits) THEN "FAILED"
  ELSE IF m.total >= 20 /\ Slow(m, limits) THEN "WARNING" ELSE "HEALTHY"

\* EvaluateAndCheckTrip, of one snapshot.
Breached(m, limits) == m.total >= 10 /\ (Failing(m, limits) \/ Slow(m, limits))

-----------------------------------------------------------------------------

VARIABLE level  \* a service level and a value it may have, or a window of samples

LevelInit(values, windows) ==
  level \in [slo : DOMAIN Definitions, value : values, window : {<<>>}]
           \cup [slo : {"availability"}, value : {One}, window : windows]

(* The two scales agree: a breached level freezes the models, and a healthy *)
(* one never keeps a promotion back, at every boundary of every level.      *)
BudgetMatchesStatus ==
  LET slo == Definitions[level.slo]
      action == Policy(Remaining(slo, level.value))
  IN slo.upper \/ level.value <= One =>
       /\ StatusOf(slo, level.value) = "BREACHED" => action = "EMERGENCY_MODEL_FREEZE"
       /\ StatusOf(slo, level.value) = "HEALTHY" => action = "BUDGET_HEALTHY"

(* The percentile is the smallest sample that at least p per cent of the    *)
(* samples do not exceed.                                                   *)
PercentileIsRank ==
  LET s == level.window
      share(v) == 100 * Cardinality({i \in DOMAIN s : s[i] <= v})
  IN \A p \in {50, 95, 99} : s # <<>> =>
       /\ share(Percentile(s, p)) >= p * Len(s)
       /\ \A i \in DOMAIN s : s[i] < Percentile(s, p) => share(s[i]) < p * Len(s)

\* How many values the first bins of a histogram hold.
HeldUpTo(h, last) ==
  LET held[b \in 0 .. last] == IF b = 0 THEN 0 ELSE held[b - 1] + h[b]
  IN held

(* Every live value is in one bin, at the edges and outside of them as well: *)
(* as many are up to a bin as are below its right edge. The percentiles that*)
(* drift is reported with are those of the service levels or the next       *)
(* sample, never a smaller one.                                             *)
BinsAccount ==
  LET s == level.window
  IN s # <<>> =>
       /\ \A edges \in {<<1, 15, 16>>, <<2, 15, 16, 20>>, <<0, 1, 2>>} :
            LET last == Len(edges) - 1
                held == HeldUpTo(Histogram(edges, s), last)
            IN /\ held[last] = Len(s)
               /\ \A b \in 1 .. last - 1 : held[b] = Cardinality({i \in DOMAIN s : s[i] < edges[b + 1]})
       /\ \A p \in {1, 5, 25, 50, 75, 95, 99} :
            LET rank == Max({1, (p * Len(s) + 99) \div 100})
            IN DriftPercentile(s, p) \in {Percentile(s, p), s[Min({Len(s), rank + 1})]}

(* The gates that an operator reads and the breaker that acts agree on one  *)
(* snapshot, whatever limits are configured: a failed gate is a breach, a   *)
(* breach shows in the gates, except that of the latency of ten to nineteen *)
(* requests, and what has rolled back is not shown as idle.                 *)
GatesShowBreaches ==
  level.window # <<>> =>
    \A total \in {0, 9, 10, 19, 20, 100, 199, 200}, fallbacks \in 0 .. 2, failures \in 0 .. 1, e \in {0, 50} :
      LET limits == GateLimits([errors |-> e, fallbacks |-> 0, p95 |-> 0, p99 |-> -1])
          m == CanarySnapshot(total, fallbacks, failures, level.window)
          gates == GateStatus(TRUE, "HEALTHY", m, limits)
      IN fallbacks + failures <= total =>
           /\ gates = "FAILED" => Breached(m, limits)
           /\ Breached(m, limits) /\ gates = "HEALTHY" => total < 20 /\ ~Failing(m, limits)
           /\ GateStatus(FALSE, "ROLLED_BACK", m, limits) = "FAILED"
===============================================================================
