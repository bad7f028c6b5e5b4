---------------------------- MODULE CircuitBreaker ----------------------------
(***************************************************************************)
(* The breaker that watches a canary rollout (riskengine/circuit_breaker).  *)
(* Every method runs under the breaker's own lock, so each is one operator  *)
(* from the breaker before the call to the breaker after it; the modules    *)
(* that own a breaker keep it in a variable.                                *)
(***************************************************************************)
EXTENDS Integers

CONSTANT FailureWindow  \* consecutive breached evaluations that trip it

ASSUME FailureWindowAssumption == FailureWindow \in Nat \ {0}

BreakerStates == {"HEALTHY", "FAILED", "ROLLED_BACK"}

(* What the thresholds make of one metrics snapshot: too few candidate      *)
(* requests to judge, a rate or a latency above its limit, or neither.      *)
Verdicts == {"TOO_FEW", "BREACHED", "CLEAN"}

(* lastTrippedAt is abstracted to whether the cooldown is still running;    *)
(* consecutiveFailures is only ever compared with FailureWindow, and is cut *)
(* off there.                                                               *)
Breaker == [state : BreakerStates, failures : 0 .. FailureWindow, cooling : BOOLEAN]

NewBreaker == [state |-> "HEALTHY", failures |-> 0, cooling |-> FALSE]

\* A breaker that has rolled back ignores every snapshot until it cooled down.
InCooldown(b) == b.state = "ROLLED_BACK" /\ b.cooling

Ignores(b, v) == InCooldown(b) \/ v = "TOO_FEW"

Trips(b, v) == ~Ignores(b, v) /\ v = "BREACHED" /\ b.failures + 1 >= FailureWindow

(* EvaluateAndCheckTrip. *)
Evaluated(b, v) ==
  IF Ignores(b, v) THEN b
  ELSE IF Trips(b, v)
    THEN [state |-> "ROLLED_BACK", failures |-> FailureWindow, cooling |-> TRUE]
  ELSE IF v = "BREACHED"
    THEN [state |-> "FAILED", failures |-> b.failures + 1, cooling |-> FALSE]
  ELSE NewBreaker

(* CooldownSeconds have passed since the trip. *)
CooledDown(b) == [b EXCEPT !.cooling = FALSE]

(* Reset: an administrative change of the rollout, or a return to 0%. *)
ResetBreaker(b) == NewBreaker

-----------------------------------------------------------------------------
(* The rollout configuration of the canary router and what UpdateConfig     *)
(* makes of it, for the modules that route on it and that change it.        *)

Configs == [enabled : BOOLEAN, pct : 0 .. 100]

LegacyOnly == [enabled |-> FALSE, pct |-> 0]

Configured(enabled, pct) == [enabled |-> enabled /\ pct > 0, pct |-> pct]

\* The share of the buckets a configuration sends to the candidate.
Share(c) == IF c.enabled THEN c.pct ELSE 0

(* UpdateConfig resets the breaker on a return to 0% and for actors named   *)
(* "admin_..." or "ADMIN_OPERATOR", the defaults of the admin endpoints.    *)
ResetsBreaker(pct, adminActor) == pct = 0 \/ adminActor

-----------------------------------------------------------------------------

(* The state and the failure counter tell the same story: HEALTHY with no   *)
(* recent breach, FAILED part of the way to the window, ROLLED_BACK at it.  *)
(* It is what makes GetStatus and the next evaluation agree after any       *)
(* sequence of evaluations, cooldowns and resets.                           *)
Consistent(b) ==
  /\ b.state = "HEALTHY" <=> b.failures = 0
  /\ b.state = "ROLLED_BACK" <=> b.failures = FailureWindow
=============================================================================
