--------------------------------- MODULE Console ---------------------------------
(***************************************************************************)
(* The operator's console: what the HTTP handlers of cmd/api admit, ask of  *)
(* the retraining coordinator and answer. The coordinator is seen as the    *)
(* handlers see it, a state, an active job, candidates and a job history,   *)
(* moved by one goroutine per job and one per rollout. Cancelling and       *)
(* rejecting look at the job under the lock, let go of it, and take it      *)
(* again to end whatever job is active then.                                *)
(***************************************************************************)
EXTENDS Naturals, FiniteSets, JobLifecycle

CONSTANTS
  Clerks,    \* requests of operators that may be under way at once
  MaxFiles,  \* bound on the jobs that are triggered
  MaxFlips   \* bound on the changes of dependencies and controls

ASSUME ConsoleAssumption == MaxFiles \in Nat /\ MaxFlips \in Nat

Files == 1 .. MaxFiles
NoFile == 0
Dependencies == {"postgres", "redis", "clickhouse", "ml"}

VARIABLES
  desk,     \* the coordinator: its state, its active job, the jobs created, the controls that are on
  past,     \* the jobs in c.jobHistory
  work,     \* the last state each job's goroutine brought it to
  card,     \* what is known of each job's candidate
  rollouts, \* the jobs whose rollout goroutine runs
  dropped,  \* history: the jobs that gave up the slot to the end of another
  clerk,    \* requests between their two critical sections
  answer,   \* the last answer, and whether its request had the administrator's key
  health    \* dependencies that are down, those the aggregator knows of, changes so far

consoleVars == <<desk, past, work, card, rollouts, dropped, clerk, answer, health>>

AtRest == [pc |-> "idle", file |-> NoFile, key |-> FALSE]

ConsoleTypeOK ==
  /\ desk \in [phase : JobStates, active : Files \cup {NoFile}, last : Files \cup {NoFile},
               on : SUBSET Controls]
  /\ past \subseteq Files /\ rollouts \subseteq Files /\ dropped \subseteq Files
  /\ work \in [Files -> {"none", "over"} \cup JobStates]
  /\ card \in [Files -> {"none", "listed", "validated", "shadowed"}]
  /\ clerk \in [Clerks -> [pc : {"idle", "cancelling", "rejecting"}, file : Files \cup {NoFile}, key : BOOLEAN]]
  /\ answer \in [code : {0, 200, 202, 400, 401, 404, 409}, key : BOOLEAN]
  /\ health \in [down : SUBSET Dependencies, known : SUBSET Dependencies, flips : 0 .. MaxFlips]

ConsoleInit ==
  /\ desk = [phase |-> "IDLE", active |-> NoFile, last |-> NoFile, on |-> {}]
  /\ past = {} /\ rollouts = {} /\ dropped = {}
  /\ work = [j \in Files |-> "none"] /\ card = [j \in Files |-> "none"]
  /\ clerk = [c \in Clerks |-> AtRest]
  /\ answer = [code |-> 0, key |-> FALSE]
  /\ health = [down |-> {}, known |-> {}, flips |-> 0]

-----------------------------------------------------------------------------
(* Admission. *)

Guarded == {"trigger", "cancel", "approve", "reject", "switch", "incident", "recover"}
Open == {"job", "logs", "candidate", "validation", "shadow", "status", "drift"}
Addressed ==
  {"cancel", "approve", "reject", "incident", "job", "logs", "candidate", "validation", "shadow"}

\* Bodies: unreadable JSON, a blank reason, a reason. Cancelling invents a reason.
Parsed == {"trigger", "switch", "incident"}
Reasoned == {"trigger", "switch", "incident", "approve", "reject"}
Requests == [endpoint : Guarded \cup Open, key : BOOLEAN, name : BOOLEAN,
             body : {"unreadable", "blank", "reason"}]

NeedsKey(q) == q.endpoint \in Guarded

(* RequireAdminAuth, SanitizeIdentifier, and the checks of the body, in     *)
(* this order; 0 admits the request.                                        *)
Refusal(q) ==
  IF NeedsKey(q) /\ ~q.key THEN 401
  ELSE IF \/ q.endpoint \in Addressed /\ ~q.name
          \/ q.endpoint \in Parsed /\ q.body = "unreadable"
          \/ q.endpoint \in Reasoned /\ q.body # "reason" THEN 400
  ELSE 0

Answers(code, key) == answer' = [code |-> code, key |-> key]
Admitted(e, key) == \E q \in Requests : q.endpoint = e /\ q.key = key /\ Refusal(q) = 0

Refusals == {[code |-> Refusal(q), key |-> q.key] : q \in {r \in Requests : Refusal(r) # 0}}

Refuse ==
  /\ answer' \in Refusals
  /\ UNCHANGED <<desk, past, work, card, rollouts, dropped, clerk, health>>

-----------------------------------------------------------------------------
(* The coordinator. *)

\* Mutant: the job that ends is not filed.
EndUnfiled(j, state) ==
  /\ desk' = [desk EXCEPT !.phase = state, !.active = NoFile]
  /\ past' = past
  /\ dropped' = IF desk.active \in {j, NoFile} THEN dropped ELSE dropped \cup {desk.active}

(* failJob, rejectCandidate, rollbackCandidate and promoteCandidate: the    *)
(* caller's job is filed, and the active one gives up the slot.             *)
EndFile(j, state) ==
  /\ desk' = [desk EXCEPT !.phase = state, !.active = NoFile]
  /\ past' = past \cup {j}
  /\ dropped' = IF desk.active \in {j, NoFile} THEN dropped ELSE dropped \cup {desk.active}

\* POST /retraining/trigger; the trigger engine may have its reasons to refuse.
TriggerRetraining(key) ==
  /\ Admitted("trigger", key)
  /\ \/ /\ desk.on \cap {"MAINTENANCE", "RETRAINING_PAUSED"} = {}
        /\ desk.active = NoFile /\ desk.phase \in Startable /\ desk.last < MaxFiles
        /\ LET j == desk.last + 1
           IN /\ desk' = [desk EXCEPT !.phase = "TRIGGERED", !.active = j, !.last = j]
              /\ work' = [work EXCEPT ![j] = "TRIGGERED"]
        /\ Answers(202, key)
     \/ Answers(409, key) /\ UNCHANGED <<desk, work>>
  /\ UNCHANGED <<past, card, rollouts, dropped, clerk, health>>

Following ==
  [TRIGGERED |-> "QUEUED", QUEUED |-> "TRAINING", TRAINING |-> "VALIDATING",
   VALIDATING |-> "SHADOW_EVALUATION", SHADOW_EVALUATION |-> "AWAITING_APPROVAL"]

\* The candidate is listed, given its scorecard, or its shadow's before the transition.
CardAfter(j) ==
  CASE work[j] = "TRAINING" -> "listed" [] work[j] = "VALIDATING" -> "validated"
    [] work[j] = "SHADOW_EVALUATION" -> "shadowed" [] OTHER -> card[j]

AtWork(j) == work[j] \in DOMAIN Following

\* executeJobPipeline: a transition the state does not allow fails the job.
WorkOn(j) ==
  /\ AtWork(j)
  /\ card' = [card EXCEPT ![j] = CardAfter(j)]
  /\ LET to == Following[work[j]]
     IN IF CanTransition(desk.phase, to)
        THEN /\ desk' = [desk EXCEPT !.phase = to]
             /\ work' = [work EXCEPT ![j] = IF to = "AWAITING_APPROVAL" THEN "over" ELSE to]
             /\ UNCHANGED <<past, dropped>>
        ELSE EndFile(j, "FAILED") /\ work' = [work EXCEPT ![j] = "over"]
  /\ UNCHANGED <<rollouts, clerk, answer, health>>

\* A training that fails, and the gates.
GiveUp(j) ==
  /\ work[j] \in {"TRAINING", "VALIDATING", "SHADOW_EVALUATION"}
  /\ card' = IF work[j] = "TRAINING" THEN card ELSE [card EXCEPT ![j] = CardAfter(j)]
  /\ EndFile(j, IF work[j] = "TRAINING" THEN "FAILED" ELSE "REJECTED")
  /\ work' = [work EXCEPT ![j] = "over"]
  /\ UNCHANGED <<rollouts, clerk, answer, health>>

\* executeCanaryRollout and what ends it, for the job it was started with.
EndRollout(j) ==
  /\ j \in rollouts /\ rollouts' = rollouts \ {j}
  /\ \/ EndFile(j, "ROLLED_BACK")
     \/ desk.on \cap {"MAINTENANCE", "FROZEN"} = {} /\ EndFile(j, "PROMOTED")
  /\ UNCHANGED <<work, card, clerk, answer, health>>

-----------------------------------------------------------------------------
(* The calls that change something. *)

\* POST .../approve of a candidate that is known, whichever job made it.
Approve(v, key) ==
  /\ Admitted("approve", key)
  /\ IF desk.phase = "AWAITING_APPROVAL" /\ card[v] # "none"
     THEN /\ desk' = [desk EXCEPT !.phase = "CANARY"] /\ rollouts' = rollouts \cup {desk.active}
          /\ Answers(200, key)
     ELSE Answers(400, key) /\ UNCHANGED <<desk, rollouts>>
  /\ UNCHANGED <<past, work, card, dropped, clerk, health>>

Begin(c, pc, granted, key) ==
  /\ clerk[c] = AtRest
  /\ IF granted THEN clerk' = [clerk EXCEPT ![c] = [pc |-> pc, file |-> desk.active, key |-> key]] /\ UNCHANGED answer
     ELSE Answers(400, key) /\ UNCHANGED clerk
  /\ UNCHANGED <<desk, past, work, card, rollouts, dropped, health>>

BeginCancel(c, j, key) == Admitted("cancel", key) /\ Begin(c, "cancelling", desk.active = j, key)

BeginReject(c, v, key) ==
  /\ Admitted("reject", key)
  /\ Begin(c, "rejecting", desk.phase = "AWAITING_APPROVAL" /\ card[v] # "none", key)

Finish(c) ==
  /\ clerk[c].pc # "idle"
  /\ EndFile(clerk[c].file, IF clerk[c].pc = "cancelling" THEN "FAILED" ELSE "REJECTED")
  /\ clerk' = [clerk EXCEPT ![c] = AtRest] /\ Answers(200, clerk[c].key)
  /\ UNCHANGED <<work, card, rollouts, health>>

Flips == health.flips < MaxFlips /\ health' = [health EXCEPT !.flips = @ + 1]

\* POST /v1/operations/.../enable and its like.
Switch(c, on, key) ==
  /\ Admitted("switch", key) /\ Flips
  /\ desk' = [desk EXCEPT !.on = IF on THEN @ \cup {c} ELSE @ \ {c}]
  /\ Answers(200, key)
  /\ UNCHANGED <<past, work, card, rollouts, dropped, clerk>>

-----------------------------------------------------------------------------
(* Reading. *)

JobFound(j) == j # NoFile /\ (desk.active = j \/ j \in past)

\* The code of GET /retraining/jobs/{id}, /models/candidates/{id} and its scorecards.
Found(e, j) ==
  CASE e = "job" -> JobFound(j)
    [] e = "candidate" -> card[j] # "none"
    [] e = "validation" -> card[j] \in {"validated", "shadowed"}
    [] e = "shadow" -> card[j] = "shadowed"
    [] OTHER -> TRUE

Read(e, j) ==
  /\ Answers(IF Found(e, j) THEN 200 ELSE 404, FALSE)
  /\ UNCHANGED <<desk, past, work, card, rollouts, dropped, clerk, health>>

\* /metrics exports that a retraining is active unless the state is a final one.
RetrainingGauge == desk.phase \notin Startable

-----------------------------------------------------------------------------
(* Health: the aggregator's background probes, and the readiness probe. *)

DependencyChanges(d) ==
  /\ health.flips < MaxFlips
  /\ health' = [health EXCEPT !.flips = @ + 1,
                              !.down = IF d \in @ THEN @ \ {d} ELSE @ \cup {d}]
  /\ UNCHANGED <<desk, past, work, card, rollouts, dropped, clerk, answer>>

Probe(d) ==
  /\ health' = [health EXCEPT !.known = IF d \in health.down THEN @ \cup {d} ELSE @ \ {d}]
  /\ UNCHANGED <<desk, past, work, card, rollouts, dropped, clerk, answer>>

\* /readyz pings; a scorer that is down is only said to be degraded.
Ready == health.down \cap {"postgres", "redis", "clickhouse"} = {}

\* GetHealthReport: a database that does not answer is UNHEALTHY and critical.
Overall ==
  IF "postgres" \in health.known THEN "UNHEALTHY"
  ELSE IF health.known # {} \/ desk.phase = "FAILED" THEN "DEGRADED" ELSE "HEALTHY"

ConsoleNext ==
  \/ Refuse
  \/ \E key \in BOOLEAN :
       \/ TriggerRetraining(key)
       \/ \E j \in Files : Approve(j, key) \/ \E c \in Clerks : BeginCancel(c, j, key) \/ BeginReject(c, j, key)
       \/ \E c \in Controls, on \in BOOLEAN : Switch(c, on, key)
  \/ \E j \in Files : WorkOn(j) \/ GiveUp(j) \/ EndRollout(j)
  \/ \E c \in Clerks : Finish(c)
  \/ \E e \in Open, j \in Files : Read(e, j)
  \/ \E d \in Dependencies : DependencyChanges(d) \/ Probe(d)

-----------------------------------------------------------------------------

(* A job that was accepted can be looked up for ever, unless the end of     *)
(* another took its slot: cancelling, rejecting, failing and the end of a   *)
(* rollout file their own job and free whatever slot is taken.              *)
JobsFindable == \A j \in 1 .. desk.last : JobFound(j) \/ j \in dropped

(* The exported gauge and the slot never disagree, though they are set by   *)
(* goroutines of different jobs.                                            *)
GaugeTells == RetrainingGauge <=> desk.active # NoFile

(* Once the probes are up to date, a platform that reports to be unhealthy  *)
(* is never ready, though the two verdicts are computed apart.              *)
UnhealthyIsNotReady == health.known = health.down /\ Overall = "UNHEALTHY" => ~Ready

(* From outside, nothing but a request with the administrator's key, and    *)
(* one that is told so, starts a job or a rollout or turns a control.       *)
OnlyAdministratorsChange ==
  [][desk.on' # desk.on \/ desk.last' # desk.last \/ ~(rollouts' \subseteq rollouts)
       => answer'.key /\ answer'.code \in {200, 202}]_consoleVars
==================================================================================
