--------------------------- MODULE DependencyBreaker --------------------------
(* The circuit breaker around a dependency (resilience/circuit_breaker.go):  *)
(* Execute looks at the state, calls without the lock, and judges the answer *)
(* by the state it finds then, whichever it was when the call began.         *)
EXTENDS Naturals

CONSTANTS
  Callers,            \* the goroutines that call Execute
  FailureThreshold, SuccessThreshold

ASSUME DependencyAssumption == {FailureThreshold, SuccessThreshold} \subseteq Nat \ {0}

VARIABLES
  gate,      \* state, failures and successes
  timedOut,  \* more than the timeout has passed since the last change of state
  caller     \* the control point of each call, and the state it began in

dependencyVars == <<gate, timedOut, caller>>

GateStates == {"CLOSED", "OPEN", "HALF_OPEN"}
MaxFailures == FailureThreshold + 2

DependencyTypeOK ==
  /\ gate \in [state : GateStates, failures : 0 .. MaxFailures, successes : 0 .. SuccessThreshold]
  /\ timedOut \in BOOLEAN
  /\ caller \in [Callers -> {"idle"} \cup GateStates]

DependencyInit ==
  /\ gate = [state |-> "CLOSED", failures |-> 0, successes |-> 0]
  /\ timedOut = FALSE
  /\ caller = [c \in Callers |-> "idle"]

\* Mutant: the time spent open is not looked at.
BeginCallNoProbe(c) ==
  /\ caller[c] = "idle" /\ gate.state # "OPEN"
  /\ caller' = [caller EXCEPT ![c] = gate.state]
  /\ UNCHANGED <<gate, timedOut>>

\* Execute up to the call: an open breaker whose time is up lets calls probe.
BeginCall(c) ==
  /\ caller[c] = "idle"
  /\ LET g == IF gate.state = "OPEN" /\ timedOut
                THEN [gate EXCEPT !.state = "HALF_OPEN", !.successes = 0] ELSE gate
     IN /\ gate' = g
        /\ timedOut' = (timedOut /\ g.state = gate.state)
        /\ caller' = [caller EXCEPT ![c] = IF g.state = "OPEN" THEN "idle" ELSE g.state]

\* The counter of failures is bounded here, not in the code.
CallFails(c) ==
  /\ caller[c] # "idle"
  /\ LET failures == gate.failures + 1
         opens == gate.state = "HALF_OPEN" \/ failures >= FailureThreshold
     IN /\ gate' = [gate EXCEPT !.failures = IF @ < MaxFailures THEN @ + 1 ELSE @,
                                !.state = IF opens THEN "OPEN" ELSE @]
        /\ timedOut' = (timedOut /\ ~opens)
  /\ caller' = [caller EXCEPT ![c] = "idle"]

CallSucceeds(c) ==
  /\ caller[c] # "idle"
  /\ LET closes == gate.state = "HALF_OPEN" /\ gate.successes + 1 >= SuccessThreshold
     IN /\ gate' = [state |-> IF closes THEN "CLOSED" ELSE gate.state,
                    failures |-> IF closes \/ gate.state = "CLOSED" THEN 0 ELSE gate.failures,
                    successes |-> IF gate.state = "HALF_OPEN" THEN gate.successes + 1
                                  ELSE gate.successes]
        /\ timedOut' = (timedOut /\ ~closes)
  /\ caller' = [caller EXCEPT ![c] = "idle"]

TimeOut == ~timedOut /\ timedOut' = TRUE /\ UNCHANGED <<gate, caller>>

DependencyNext ==
  \/ \E c \in Callers : BeginCall(c) \/ CallFails(c) \/ CallSucceeds(c)
  \/ TimeOut

DependencySpec == DependencyInit /\ [][DependencyNext]_dependencyVars

-----------------------------------------------------------------------------

(* A closed breaker is below its threshold: no order of answers that come   *)
(* back late, in another state than they were asked in, leaves it closed    *)
(* with as many failures as should have opened it.                          *)
ClosedBelowThreshold == gate.state = "CLOSED" => gate.failures < FailureThreshold

(* An open breaker is tried again, as long as calls keep coming: failures   *)
(* that come back late prolong it, but not for ever.                        *)
OpenEnds == gate.state = "OPEN" ~> gate.state # "OPEN"

(* The breaker opens in time, and never for good.                           *)
BreakerRecovers ==
  []DependencyTypeOK /\ []ClosedBelowThreshold /\ OpenEnds

===============================================================================
