------------------------------ MODULE CaseReview ------------------------------
(***************************************************************************)
(* Review cases: decision events arrive over Kafka and make cases           *)
(* (cases/consumer.go), analysts claim and resolve them (cases/handler.go,  *)
(* cases/case_service.go). Every statement names the case by its id alone.  *)
(* The events are those of MANUAL_REVIEW, each of a transaction of its own. *)
(* Whether an INSERT is accepted is open here; the ids that the             *)
(* orchestrator puts into its events are refused (DecisionFlow).            *)
(***************************************************************************)
EXTENDS Naturals, FiniteSets

CONSTANTS
  Reviews,        \* decision events
  CaseConsumers,  \* pods of the consumer group
  CaseAnalysts,
  MaxCases,       \* bound on the rows of a run
  MaxReads,       \* bound on the deliveries of an event
  MaxCaseSteps    \* bound on the claims and resolutions of a case

NoReview == "none"
Unassigned == "unassigned"

\* The last two are the NULLs of the columns and of a pod that is idle.
ASSUME CaseAssumption ==
  /\ {MaxCases, MaxReads, MaxCaseSteps} \subseteq Nat
  /\ NoReview \notin Reviews /\ Unassigned \notin CaseAnalysts

VARIABLES
  caseRow,     \* the table cases
  reads,       \* deliveries of each event
  committed,   \* its offset is committed
  consuming,   \* each pod's event, between the look for a case and the insert
  caseSteps,   \* claims and resolutions of each case
  caseLosses   \* history: events whose pod died or whose insert failed, and overlaps

caseVars == <<caseRow, reads, committed, consuming, caseSteps, caseLosses>>

CaseIds == 1 .. MaxCases
NoCase == [review |-> NoReview, status |-> "NONE", assigned |-> Unassigned, resolved |-> FALSE]
NewCase(r) == [NoCase EXCEPT !.review = r, !.status = "OPEN"]

CaseTypeOK ==
  /\ caseRow \in [CaseIds -> [review : Reviews \cup {NoReview},
                              status : {"NONE", "OPEN", "UNDER_REVIEW", "RESOLVED_ALLOW",
                                        "RESOLVED_DECLINE"},
                              assigned : CaseAnalysts \cup {Unassigned}, resolved : BOOLEAN]]
  /\ reads \in [Reviews -> 0 .. MaxReads]
  /\ committed \subseteq Reviews
  /\ consuming \in [CaseConsumers -> Reviews \cup {NoReview}]
  /\ caseSteps \in [CaseIds -> 0 .. MaxCaseSteps]
  /\ caseLosses \subseteq Reviews \X {"lost", "overlap"}

CaseInit ==
  /\ caseRow = [i \in CaseIds |-> NoCase]
  /\ reads = [r \in Reviews |-> 0]
  /\ committed = {}
  /\ consuming = [c \in CaseConsumers |-> NoReview]
  /\ caseSteps = [i \in CaseIds |-> 0]
  /\ caseLosses = {}

CasesOf(r) == {i \in CaseIds : caseRow[i].review = r}

(* ReadMessage and the look for an existing case. An event is read again    *)
(* when a pod dies or the group is rebalanced before its offset is          *)
(* committed, even while another pod is at work on it.                      *)
TakeEvent(c, r) ==
  /\ consuming[c] = NoReview /\ r \notin committed /\ reads[r] < MaxReads
  /\ reads' = [reads EXCEPT ![r] = @ + 1]
  /\ consuming' = IF CasesOf(r) = {} THEN [consuming EXCEPT ![c] = r] ELSE consuming
  /\ caseLosses' = IF \E d \in CaseConsumers : consuming[d] = r
                     THEN caseLosses \cup {<<r, "overlap">>} ELSE caseLosses
  /\ UNCHANGED <<caseRow, committed, caseSteps>>

\* The INSERT of CreateCaseFromDecision.
InsertCase(c) ==
  /\ consuming[c] # NoReview
  /\ \E i \in CaseIds :
       /\ caseRow[i] = NoCase /\ \A k \in 1 .. i - 1 : caseRow[k] # NoCase
       /\ caseRow' = [caseRow EXCEPT ![i] = NewCase(consuming[c])]
  /\ consuming' = [consuming EXCEPT ![c] = NoReview]
  /\ UNCHANGED <<reads, committed, caseSteps, caseLosses>>

\* Mutant: the pod goes back for the event and does nothing with it.
LoseEventAgain(c) ==
  /\ consuming[c] # NoReview
  /\ consuming' = [consuming EXCEPT ![c] = NoReview]
  /\ UNCHANGED <<caseRow, reads, committed, caseSteps, caseLosses>>

\* It fails and is logged, or the pod dies: the event is not tried again.
LoseEvent(c) ==
  /\ consuming[c] # NoReview
  /\ caseLosses' = caseLosses \cup {<<consuming[c], "lost">>}
  /\ consuming' = [consuming EXCEPT ![c] = NoReview]
  /\ UNCHANGED <<caseRow, reads, committed, caseSteps>>

\* The reader commits what it read once a second, processed or not.
CommitOffset(r) ==
  /\ reads[r] > 0 /\ r \notin committed
  /\ committed' = committed \cup {r}
  /\ UNCHANGED <<caseRow, reads, consuming, caseSteps, caseLosses>>

StepOf(i) == caseSteps[i] < MaxCaseSteps /\ caseSteps' = [caseSteps EXCEPT ![i] = @ + 1]

ClaimCase(i, a) ==
  /\ caseRow[i] # NoCase
  /\ StepOf(i)
  /\ caseRow' = [caseRow EXCEPT ![i].status = "UNDER_REVIEW", ![i].assigned = a]
  /\ UNCHANGED <<reads, committed, consuming, caseLosses>>

\* COALESCE keeps the analyst who has the case.
ResolveCase(i, a, s) ==
  /\ caseRow[i] # NoCase
  /\ StepOf(i)
  /\ caseRow' = [caseRow EXCEPT ![i].status = s, ![i].resolved = TRUE,
                                ![i].assigned = IF @ = Unassigned THEN a ELSE @]
  /\ UNCHANGED <<reads, committed, consuming, caseLosses>>

CaseNext ==
  \/ \E c \in CaseConsumers :
       InsertCase(c) \/ LoseEvent(c) \/ \E r \in Reviews : TakeEvent(c, r)
  \/ \E r \in Reviews : CommitOffset(r)
  \/ \E i \in CaseIds, a \in CaseAnalysts :
       \/ ClaimCase(i, a)
       \/ \E s \in {"RESOLVED_ALLOW", "RESOLVED_DECLINE"} : ResolveCase(i, a, s)

CaseSpec == CaseInit /\ [][CaseNext]_caseVars

-----------------------------------------------------------------------------

(* A redelivered event makes no second case, unless two pods were at work   *)
(* on it at once: the look and the INSERT are two statements, and the table *)
(* has no constraint.                                                       *)
OneCasePerReview ==
  \A r \in Reviews : Cardinality(CasesOf(r)) > 1 => <<r, "overlap">> \in caseLosses

(* Somebody answers for every case that was decided, in any order of claims *)
(* and resolutions.                                                         *)
ResolvedBySomebody == \A i \in CaseIds : caseRow[i].resolved => caseRow[i].assigned # Unassigned

(* A manual review that was read becomes a case, unless its pod died or the *)
(* INSERT failed.                                                           *)
ReviewBecomesCase ==
  \A r \in Reviews : reads[r] > 0 ~> CasesOf(r) # {} \/ <<r, "lost">> \in caseLosses

(* A review becomes one case, and somebody answers for it.                  *)
ReviewsCovered ==
  []CaseTypeOK /\ []OneCasePerReview /\ []ResolvedBySomebody /\ ReviewBecomesCase

===============================================================================
