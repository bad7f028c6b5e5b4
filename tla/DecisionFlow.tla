----------------------------- MODULE DecisionFlow -----------------------------
(***************************************************************************)
(* What becomes of a decision: Evaluate counts the payment in the feature   *)
(* stores, writes the decision with its event in one database transaction   *)
(* (riskengine/orchestrator.go), appends it to the audit chain and answers; *)
(* the event reaches the audit and the case consumers; disputes look the    *)
(* decision up (ingestion/webhook_handler.go).                              *)
(* Calls are concurrent and may be about the same payment: providers send   *)
(* several events for one payment, and clients repeat themselves.           *)
(*                                                                          *)
(* A transaction holds the lock of the payment's row from its first         *)
(* statement on, and Postgres refuses every statement after one that        *)
(* failed, so that a transaction is one step here.                          *)
(***************************************************************************)
EXTENDS Naturals, Sequences, FiniteSets, SequencesExt

CONSTANTS
  Evaluations,  \* calls of Evaluate
  Payments,     \* transaction ids
  ChannelSize,  \* of the audit channel: 20000, which nothing reads
  MaxDisputes,  \* bound on the disputes of a run
  MaxFlowFaults \* bound on failed transactions, failed inserts and redeliveries

Nothing == "nothing"

ASSUME FlowAssumption ==
  /\ {ChannelSize, MaxDisputes, MaxFlowFaults} \subseteq Nat
  /\ IsFiniteSet(Evaluations) /\ Nothing \notin Evaluations \cup Payments

VARIABLES
  eval,       \* the control point and locals of each call
  counted,   \* how often the feature stores counted each payment
  row,        \* risk_decisions: one row per payment
  events,     \* outbox_events in the order of their commits
  ledger,     \* device_events: the decisions they name
  chain,      \* the audit trail: the decisions in the order of their appends
  channel,    \* entries in the audit channel
  unlogged,   \* droppedAuditEventsTotal
  sunk,       \* rows of the audit table in ClickHouse, per decision
  dispute,    \* the evidence of each dispute
  flowFaults

flowVars == <<eval, counted, row, events, ledger, chain, channel, unlogged, sunk, dispute,
              flowFaults>>

NoRow == [id |-> Nothing, action |-> Nothing]
Fresh0 == [pc |-> "idle", payment |-> Nothing, device |-> FALSE, action |-> Nothing,
           outcome |-> Nothing, uncounted |-> FALSE]

FlowTypeOK ==
  /\ eval \in [Evaluations ->
       [pc : {"idle", "decided", "counted", "persisted", "answered"},
        payment : Payments \cup {Nothing}, device : BOOLEAN,
        action : {"ALLOW", "MANUAL_REVIEW", Nothing},
        outcome : {"committed", "rolled back", "failed", Nothing}, uncounted : BOOLEAN]]
  /\ counted \in [Payments -> 0 .. Cardinality(Evaluations)]
  /\ row \in [Payments -> [id : Evaluations \cup {Nothing},
                           action : {"ALLOW", "MANUAL_REVIEW", Nothing}]]
  /\ {events, chain} \subseteq Seq(Evaluations)
  /\ ledger \subseteq Evaluations
  /\ channel \in 0 .. ChannelSize /\ unlogged \in Nat
  /\ sunk \in [Evaluations -> Nat]
  /\ dispute \in Seq([payment : Payments, evidence : Evaluations \cup {Nothing}])
  /\ flowFaults \in 0 .. MaxFlowFaults

FlowInit ==
  /\ eval = [e \in Evaluations |-> Fresh0] /\ counted = [p \in Payments |-> 0]
  /\ row = [p \in Payments |-> NoRow]
  /\ events = <<>> /\ ledger = {} /\ chain = <<>> /\ channel = 0 /\ unlogged = 0
  /\ sunk = [e \in Evaluations |-> 0]
  /\ dispute = <<>> /\ flowFaults = 0

FlowFault == flowFaults < MaxFlowFaults /\ flowFaults' = flowFaults + 1

-----------------------------------------------------------------------------
(* Evaluate. *)

\* Everything up to the recommendation (RiskDecision).
Decide(e, p, device, action) ==
  /\ eval[e].pc = "idle"
  /\ eval' = [eval EXCEPT ![e] = [Fresh0 EXCEPT !.pc = "decided", !.payment = p,
                                  !.device = device, !.action = action]]
  /\ UNCHANGED <<counted, row, events, ledger, chain, channel, unlogged, sunk, dispute,
                 flowFaults>>

(* The stores count the payment before the transaction, and whatever        *)
(* becomes of it; a store that fails is ignored.                            *)
CountPayment(e) ==
  /\ eval[e].pc = "decided"
  /\ \/ /\ counted' = [counted EXCEPT ![eval[e].payment] = @ + 1]
        /\ eval' = [eval EXCEPT ![e].pc = "counted"]
        /\ UNCHANGED flowFaults
     \/ /\ FlowFault
        /\ eval' = [eval EXCEPT ![e].pc = "counted", ![e].uncounted = TRUE]
        /\ UNCHANGED counted
  /\ UNCHANGED <<row, events, ledger, chain, channel, unlogged, sunk, dispute>>

Persisted(e, outcome) == eval' = [eval EXCEPT ![e].pc = "persisted", ![e].outcome = outcome]

\* The device's event names this decision, which is not in the table when the
\* payment's row keeps the id of an earlier one.
Orphaned(e) == eval[e].device /\ row[eval[e].payment] # NoRow

\* Mutant: only the payment's first decision has an event.
CommitFirstEvent(e) ==
  /\ eval[e].pc = "counted" /\ ~Orphaned(e)
  /\ row' = [row EXCEPT ![eval[e].payment].id = IF @ = Nothing THEN e ELSE @,
                        ![eval[e].payment].action = eval[e].action]
  /\ events' = IF row[eval[e].payment] = NoRow THEN Append(events, e) ELSE events
  /\ ledger' = IF eval[e].device THEN ledger \cup {e} ELSE ledger
  /\ Persisted(e, "committed")
  /\ UNCHANGED <<counted, chain, channel, unlogged, sunk, dispute, flowFaults>>

(* The upsert keeps the id of the row it finds and takes the new action;    *)
(* the foreign key of device_events is checked at once.                     *)
CommitDecision(e) ==
  /\ eval[e].pc = "counted" /\ ~Orphaned(e)
  /\ row' = [row EXCEPT ![eval[e].payment].id = IF @ = Nothing THEN e ELSE @,
                        ![eval[e].payment].action = eval[e].action]
  /\ events' = Append(events, e)
  /\ ledger' = IF eval[e].device THEN ledger \cup {e} ELSE ledger
  /\ Persisted(e, "committed")
  /\ UNCHANGED <<counted, chain, channel, unlogged, sunk, dispute, flowFaults>>

\* The statement fails, the commit is refused, and both errors are logged.
RollBackDecision(e) ==
  /\ eval[e].pc = "counted" /\ Orphaned(e)
  /\ Persisted(e, "rolled back")
  /\ UNCHANGED <<counted, row, events, ledger, chain, channel, unlogged, sunk, dispute,
                 flowFaults>>

\* The database is away, or another statement fails.
FailDecision(e) ==
  /\ eval[e].pc = "counted"
  /\ FlowFault
  /\ Persisted(e, "failed")
  /\ UNCHANGED <<counted, row, events, ledger, chain, channel, unlogged, sunk, dispute>>

\* The audit chain, the audit channel and the answer.
AnswerClient(e) ==
  /\ eval[e].pc = "persisted"
  /\ eval' = [eval EXCEPT ![e].pc = "answered"]
  /\ chain' = Append(chain, e)
  /\ channel' = IF channel < ChannelSize THEN channel + 1 ELSE channel
  /\ unlogged' = IF channel < ChannelSize THEN unlogged ELSE unlogged + 1
  /\ UNCHANGED <<counted, row, events, ledger, sunk, dispute, flowFaults>>

-----------------------------------------------------------------------------
(* The consumers of the topic. *)

\* One row per delivery: nothing looks for an earlier one.
SinkEvent(e) ==
  /\ e \in ToSet(events)
  /\ IF sunk[e] = 0 THEN UNCHANGED flowFaults ELSE FlowFault
  /\ sunk' = [sunk EXCEPT ![e] = @ + 1]
  /\ UNCHANGED <<eval, counted, row, events, ledger, chain, channel, unlogged, dispute>>

\* The consumer of the cases changes nothing: the event's decision_id is "dec_" and the
\* UUID, the column cases.decision_id is a UUID, the INSERT is refused and logged.

-----------------------------------------------------------------------------
(* handleDisputeOpened: every delivery makes a dispute of its own, with the *)
(* decision of the payment if there is one by now.                          *)

OpenDispute(p) ==
  /\ Len(dispute) < MaxDisputes
  /\ dispute' = Append(dispute, [payment |-> p, evidence |-> row[p].id])
  /\ UNCHANGED <<eval, counted, row, events, ledger, chain, channel, unlogged, sunk, flowFaults>>

\* The INSERT fails: logged, and answered with 200.
LoseDispute(p) ==
  /\ FlowFault
  /\ UNCHANGED <<eval, counted, row, events, ledger, chain, channel, unlogged, sunk, dispute>>

FlowNext ==
  \/ \E e \in Evaluations :
       \/ \E p \in Payments, device \in BOOLEAN, action \in {"ALLOW", "MANUAL_REVIEW"} :
            Decide(e, p, device, action)
       \/ CountPayment(e) \/ CommitDecision(e) \/ RollBackDecision(e) \/ FailDecision(e)
       \/ AnswerClient(e) \/ SinkEvent(e)
  \/ \E p \in Payments : OpenDispute(p) \/ LoseDispute(p)

-----------------------------------------------------------------------------

FlowSpec == FlowInit /\ [][FlowNext]_flowVars

\* The places of a payment's events.
EventsOf(p) == {i \in DOMAIN events : eval[events[i]].payment = p}
Answered == {e \in Evaluations : eval[e].pc = "answered"}

(* A payment's row and its events are written together or not at all: there *)
(* is a row exactly when there is an event, it has the action of the last   *)
(* event and the id of the first, in any order of concurrent commits.       *)
RowMatchesEvents ==
  \A p \in Payments :
    /\ row[p] = NoRow <=> EventsOf(p) = {}
    /\ \A i \in EventsOf(p) :
         /\ (\A j \in EventsOf(p) : j <= i) => row[p].action = eval[events[i]].action
         /\ (\A j \in EventsOf(p) : i <= j) => row[p].id = events[i]

(* Who is answered is recorded: with its event, unless the database failed, *)
(* or an earlier evaluation of the payment was recorded and this one has a  *)
(* device.                                                                  *)
AnswerRecordedUnless ==
  \A e \in Answered :
    \/ e \in ToSet(events)
    \/ eval[e].outcome = "failed"
    \/ /\ eval[e].device
       /\ \E d \in ToSet(events) \ {e} : eval[d].payment = eval[e].payment

(* What disputes and devices refer to stays in the table under that id.     *)
EvidenceStands ==
  /\ \A i \in DOMAIN dispute :
       dispute[i].evidence # Nothing => row[dispute[i].payment].id = dispute[i].evidence
  /\ \A e \in ledger : row[eval[e].payment].id = e

(* Every answer is in the audit chain once, and in the channel or counted   *)
(* as dropped.                                                              *)
ChainCovers ==
  /\ ToSet(chain) = Answered /\ Len(chain) = Cardinality(Answered)
  /\ channel + unlogged = Len(chain)

(* The counts that later decisions rest on are never behind the table but   *)
(* for a store that failed, and ahead of it only by the calls that are yet  *)
(* to commit or never did: a payment that is tried again counts again.      *)
CountsExplained ==
  \A p \in Payments :
    LET of == {e \in Evaluations : eval[e].payment = p /\ eval[e].pc \notin {"idle", "decided"}}
        unrecorded == {e \in of : eval[e].outcome # "committed"}
        uncounted == {e \in of : eval[e].uncounted}
    IN counted[p] + Cardinality(uncounted)
         = Cardinality(EventsOf(p)) + Cardinality(unrecorded)

(* Counts, row, events, ledger, disputes, audit chain and answers agree, in *)
(* any order of commits, failures and redeliveries.                         *)
RecordsAgree ==
  /\ FlowTypeOK /\ CountsExplained /\ RowMatchesEvents /\ AnswerRecordedUnless
  /\ EvidenceStands /\ ChainCovers

===============================================================================
