------------------------------- MODULE Operations -------------------------------
(***************************************************************************)
(* The loop of cmd/api/main.go that runs every five seconds, and what it    *)
(* drives: the health report (riskengine/health_aggregator.go), the error   *)
(* budget policy, the incidents (riskengine/incident_engine.go) with their  *)
(* alerts (riskengine/alert_manager.go) and the remediation that main.go    *)
(* hangs on them, and the operators' endpoints                              *)
(* (cmd/api/operations_handlers.go).                                        *)
(*                                                                          *)
(* Whatever may raise an incident is a signal: a probed dependency, the     *)
(* worst service level, the breaker, drift, retraining. A signal is at the  *)
(* severity it raises, "ok", or "between", where it neither raises nor      *)
(* resolves.                                                                *)
(***************************************************************************)
EXTENDS Naturals, Sequences, FiniteSets, SequencesExt

CONSTANTS
  Signals,        \* those of the instance, of SignalLevels below
  MaxHistory,     \* maxHistory: 500
  LongOpen,       \* passes of the loop in ten minutes
  AlertQueueSize, \* 500
  MaxIncidents,   \* bound on the incidents of a run
  MaxChanges      \* bound on changes of a signal and of an incident by hand

SignalLevels ==
  [postgres   |-> {"CRITICAL", "ok"},
   redis      |-> {"WARNING", "ok"},
   slo        |-> {"CRITICAL", "WARNING", "ok"},
   breaker    |-> {"CRITICAL", "ok", "between"},
   drift      |-> {"HIGH", "ok", "between"},
   retraining |-> {"WARNING", "ok", "between"}]

ASSUME OperationsAssumption ==
  /\ {MaxHistory, LongOpen, AlertQueueSize, MaxIncidents, MaxChanges} \subseteq Nat
  /\ Signals \subseteq DOMAIN SignalLevels

VARIABLES
  signal,     \* what a reader would see now
  changes,
  loop,       \* where the loop is, and what it read at the beginning of the pass
  incidents,  \* every incident of the run, in order; the list is its tail
  current,    \* the map: the incident of each key
  frozen,     \* modelFrozen
  frozenBy,   \* who set it last
  remedies,   \* remediation goroutines that have not run yet
  alerts

opsVars == <<signal, changes, loop, incidents, current, frozen, frozenBy, remedies, alerts>>

ReadFirst == {"postgres", "redis", "slo"}  \* by the report and the summary of the pass

Severities == {"WARNING", "HIGH", "CRITICAL"}
Worth(s) == CASE s = "WARNING" -> 1 [] s = "HIGH" -> 2 [] s = "CRITICAL" -> 3
None == 0
Ids == [pass : 1 .. MaxIncidents, number : 1 .. MaxHistory + 1]

OpsTypeOK ==
  /\ signal \in [Signals -> Severities \cup {"ok", "between"}]
  /\ \A s \in Signals : signal[s] \in SignalLevels[s]
  /\ loop \in [pc : {"idle", "assessed", "budgeted"}, seen : [Signals -> Severities \cup {"ok", "between"}]]
  /\ incidents \in Seq([id : Ids, key : Signals, severity : Severities,
                        status : {"OPEN", "ACKNOWLEDGED", "RESOLVED"}, count : 1 .. 3,
                        age : 0 .. LongOpen, wasCritical : BOOLEAN])
  /\ Len(incidents) <= MaxIncidents
  /\ current \in [Signals -> 0 .. Len(incidents)]
  /\ frozen \in BOOLEAN
  /\ frozenBy \in {"nobody", "OPERATOR", "ERROR_BUDGET_POLICY", "AUTO_REMEDIATION"}
  /\ remedies \in SUBSET (1 .. MaxIncidents)
  /\ alerts \in [queued : 0 .. AlertQueueSize, sent : Nat, dropped : Nat]

OpsInit ==
  /\ signal = [s \in Signals |-> "ok"] /\ changes = 0
  /\ loop = [pc |-> "idle", seen |-> signal]
  /\ incidents = <<>> /\ current = [s \in Signals |-> None]
  /\ frozen = FALSE /\ frozenBy = "nobody"
  /\ remedies = {} /\ alerts = [queued |-> 0, sent |-> 0, dropped |-> 0]

\* A probe, the traffic, or another component changes what there is to see.
ChangeSignal(s, l) ==
  /\ changes < MaxChanges /\ changes' = changes + 1
  /\ l \in SignalLevels[s] \ {signal[s]} /\ signal' = [signal EXCEPT ![s] = l]
  /\ UNCHANGED <<loop, incidents, current, frozen, frozenBy, remedies, alerts>>

-----------------------------------------------------------------------------
(* A pass of the loop. *)

\* GetHealthReport and sloEngine.Evaluate.
Assess ==
  /\ loop.pc = "idle"
  /\ loop' = [pc |-> "assessed", seen |-> signal]
  /\ UNCHANGED <<signal, changes, incidents, current, frozen, frozenBy, remedies, alerts>>

(* budgetPolicy.Evaluate asks the service levels once more and freezes the  *)
(* models unless they are frozen: always for a budget that is spent, and    *)
(* for one of less than ten per cent, which a WARNING may have.             *)
ApplyBudget ==
  /\ loop.pc = "assessed" /\ loop' = [loop EXCEPT !.pc = "budgeted"]
  /\ \/ /\ "slo" \in Signals /\ signal["slo"] \in {"CRITICAL", "WARNING"} /\ ~frozen
        /\ frozen' = TRUE /\ frozenBy' = "ERROR_BUDGET_POLICY"
     \/ /\ frozen \/ "slo" \notin Signals \/ signal["slo"] # "CRITICAL"
        /\ UNCHANGED <<frozen, frozenBy>>
  /\ UNCHANGED <<signal, changes, incidents, current, remedies, alerts>>

Seen == [s \in Signals |-> IF s \in ReadFirst THEN loop.seen[s] ELSE signal[s]]
Unresolved(s) == current[s] # None /\ incidents[current[s]].status # "RESOLVED"

\* WARNING three times is HIGH, HIGH for ten minutes or what is critical is CRITICAL.
Escalated(inc, raised) ==
  LET severity == IF inc.severity = "WARNING" /\ inc.count + 1 >= 3 THEN "HIGH" ELSE inc.severity
  IN IF raised = "CRITICAL" \/ (severity = "HIGH" /\ inc.age >= LongOpen) THEN "CRITICAL" ELSE severity

Updated(inc, raised) ==
  LET severity == Escalated(inc, raised)
  IN [inc EXCEPT !.severity = severity, !.count = IF @ < 3 THEN @ + 1 ELSE 3,
                 !.wasCritical = @ \/ severity = "CRITICAL"]

Older(inc) == [inc EXCEPT !.age = IF @ < LongOpen THEN @ + 1 ELSE @]

Opened(s, raised, pass, place) ==
  [id |-> [pass |-> pass, number |-> 1 + (IF place - 1 < MaxHistory THEN place - 1 ELSE MaxHistory)],
   key |-> s, severity |-> raised, status |-> "OPEN", count |-> 1, age |-> 0,
   wasCritical |-> raised = "CRITICAL"]

\* What main.go hangs on an incident, when it is raised and whenever it is updated.
NeedsRemedy(inc) == inc.severity = "CRITICAL"

\* Keys without an unresolved incident get one.
Raised(s) == Seen[s] \in Severities /\ ~Unresolved(s)

(* incidentEngine.Evaluate: one critical section. The pass of an id is its  *)
(* second; new incidents are numbered by the length of the trimmed list.    *)
EvaluateIncidents ==
  LET new == SetToSeq({s \in Signals : Raised(s)})
      n == Len(incidents)
      touched == [i \in 1 .. n |->
        LET inc == Older(incidents[i])
            s == inc.key
        IN IF current[s] # i \/ ~Unresolved(s) \/ Raised(s) THEN inc
           ELSE IF Seen[s] \in Severities THEN Updated(inc, Seen[s])
           ELSE IF Seen[s] = "ok" THEN [inc EXCEPT !.status = "RESOLVED"] ELSE inc]
      opened == [k \in 1 .. Len(new) |-> Opened(new[k], Seen[new[k]], n + 1, n + k)]
      room == AlertQueueSize - alerts.queued
      fit == IF Len(new) <= room THEN Len(new) ELSE room
  IN /\ loop.pc = "budgeted" /\ loop' = [loop EXCEPT !.pc = "idle"]
     /\ n + Len(new) <= MaxIncidents
     /\ incidents' = touched \o opened
     /\ current' = [s \in Signals |-> IF Raised(s) THEN n + CHOOSE k \in 1 .. Len(new) : new[k] = s
                                      ELSE current[s]]
     /\ remedies' = remedies \cup
          {i \in DOMAIN incidents' : /\ current'[incidents'[i].key] = i
                                     /\ Seen[incidents'[i].key] \in Severities
                                     /\ NeedsRemedy(incidents'[i])}
     /\ alerts' = [alerts EXCEPT !.queued = @ + fit, !.dropped = @ + Len(new) - fit]
     /\ UNCHANGED <<signal, changes, frozen, frozenBy>>

\* The goroutine of a critical incident, whenever it is scheduled.
Remediate(i) ==
  /\ i \in remedies /\ remedies' = remedies \ {i}
  /\ frozen' = TRUE /\ frozenBy' = "AUTO_REMEDIATION"
  /\ UNCHANGED <<signal, changes, loop, incidents, current, alerts>>

\* The worker of the alert manager; its sinks do not fail.
SendAlert ==
  /\ alerts.queued > 0
  /\ alerts' = [alerts EXCEPT !.queued = @ - 1, !.sent = @ + 1]
  /\ UNCHANGED <<signal, changes, loop, incidents, current, frozen, frozenBy, remedies>>

-----------------------------------------------------------------------------
(* Operators. The endpoints find the first incident of the list with an id. *)

Listed == {i \in DOMAIN incidents : i + MaxHistory > Len(incidents)}
FirstWith(id) == CHOOSE i \in Listed : /\ incidents[i].id = id
                                       /\ \A j \in Listed : incidents[j].id = id => i <= j

Acknowledge(i) ==
  LET found == FirstWith(incidents[i].id)
  IN /\ changes < MaxChanges /\ changes' = changes + 1 /\ i \in Listed /\ incidents[found].status # "RESOLVED"
     /\ incidents' = [incidents EXCEPT ![found].status = "ACKNOWLEDGED"]
     /\ UNCHANGED <<signal, loop, current, frozen, frozenBy, remedies, alerts>>

Resolve(i) ==
  /\ changes < MaxChanges /\ changes' = changes + 1 /\ i \in Listed
  /\ incidents' = [incidents EXCEPT ![FirstWith(incidents[i].id)].status = "RESOLVED"]
  /\ UNCHANGED <<signal, loop, current, frozen, frozenBy, remedies, alerts>>

OperatorFreezes(on) ==
  /\ frozen' = on /\ frozenBy' = "OPERATOR"
  /\ UNCHANGED <<signal, changes, loop, incidents, current, remedies, alerts>>

OpsNext ==
  \/ \E s \in Signals : \E l \in SignalLevels[s] : ChangeSignal(s, l)
  \/ Assess \/ ApplyBudget \/ EvaluateIncidents
  \/ \E i \in 1 .. MaxIncidents : Remediate(i)
  \/ SendAlert
  \/ \E i \in DOMAIN incidents : Acknowledge(i) \/ Resolve(i)
  \/ \E on \in BOOLEAN : OperatorFreezes(on)

-----------------------------------------------------------------------------

(* Deduplication: whatever operators resolve in between, a key has at most  *)
(* one unresolved incident, the one that the map will update.               *)
OneUnresolvedPerKey ==
  \A i \in DOMAIN incidents :
    incidents[i].status # "RESOLVED" => current[incidents[i].key] = i

(* Ids tell incidents apart as long as the list has not been trimmed; from  *)
(* then on two that are raised in one pass share an id, and operators can   *)
(* reach only the first.                                                    *)
IdsDistinctUntilTrimmed ==
  \A i, j \in DOMAIN incidents :
    i # j /\ incidents[i].id = incidents[j].id => i > MaxHistory /\ j > MaxHistory

(* Every incident has exactly one alert: sent, queued or dropped.           *)
OneAlertEach == Len(incidents) = alerts.queued + alerts.sent + alerts.dropped

(* Remediation needs an incident that was critical.                         *)
RemedyHasCause ==
  frozenBy = "AUTO_REMEDIATION" => \E i \in DOMAIN incidents : incidents[i].wasCritical

(* An incident that stays unresolved never loses severity or its            *)
(* acknowledgement, and a resolved one is never taken back.                 *)
IncidentsOnlyWorsen ==
  [][\A i \in DOMAIN incidents :
       /\ Worth(incidents[i].severity) <= Worth(incidents'[i].severity)
       /\ incidents[i].status = "ACKNOWLEDGED" => incidents'[i].status # "OPEN"
       /\ incidents[i].status = "RESOLVED" => incidents'[i].status = "RESOLVED"]_opsVars

(* Whoever keeps lifting it, a pass that finds an incident critical is      *)
(* followed by a freeze.                                                    *)
CriticalFreezes == remedies # {} ~> frozen

(* Incidents, their ids, their alerts and the remediation agree, whatever   *)
(* operators do in between.                                                 *)
IncidentsAgree ==
  OpsTypeOK /\ OneUnresolvedPerKey /\ IdsDistinctUntilTrimmed /\ OneAlertEach /\ RemedyHasCause

===============================================================================
