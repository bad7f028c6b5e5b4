----------------------------- MODULE ShadowScorer -----------------------------
(***************************************************************************)
(* The pool that scores decisions again with the candidate model            *)
(* (riskengine/shadow_scorer.go): evaluations enqueue without blocking,     *)
(* workers take from a bounded channel, and shutdown closes it while the    *)
(* server still answers (cmd/api/main.go closes the pool first). What a      *)
(* worker finds is counted at once and stored for the dashboards after.     *)
(***************************************************************************)
EXTENDS Naturals, Sequences, FiniteSets

CONSTANTS
  Scored,        \* evaluations that are sampled
  ShadowWorkers, \* WorkerCount
  ShadowQueue,   \* QueueCapacity
  Champion,      \* of each evaluation: the decision that was made
  Challenger     \* and the one the candidate would have made

Kinds == {"ALLOW", "REVIEW", "DECLINE"}
Kind(decision) == IF decision = "STEP_UP" THEN "REVIEW" ELSE decision

NoTask == "none"
Exited == "exited"

(* NewShadowScorer replaces a worker count or a capacity that is not        *)
(* positive by a default.                                                   *)
ASSUME ShadowAssumption ==
  /\ IsFiniteSet(Scored) /\ NoTask \notin Scored /\ Exited \notin Scored
  /\ ShadowWorkers # {} /\ ShadowQueue \in Nat \ {0}
  /\ Champion \in [Scored -> Kinds \cup {"STEP_UP"}] /\ Challenger \in [Scored -> Kinds]

VARIABLES
  sender,   \* the control point of each evaluation's Enqueue
  channelQ, \* workQueue
  working,  \* the task of each worker
  pool,     \* the pool's life: closed, the channel, the context
  counted,  \* the counters of ShadowMetrics
  tally,    \* its counters of decisions, by model
  row       \* of each task: the candidate's decision, and what became of its row

shadowVars == <<sender, channelQ, working, pool, counted, tally, row>>

Counters == {"requests", "dropped", "success", "errors", "divergence"}

ShadowTypeOK ==
  /\ sender \in [Scored -> {"idle", "checked", "counted", "queued", "dropped", "refused", "panicked"}]
  /\ channelQ \in Seq(Scored) /\ Len(channelQ) <= ShadowQueue
  /\ working \in [ShadowWorkers -> Scored \cup {NoTask, Exited}]
  /\ pool \in [closed : BOOLEAN, channel : {"open", "closed"}, cancelled : BOOLEAN,
               result : {"none", "graceful", "timed out"}]
  /\ counted \in [Counters -> 0 .. Cardinality(Scored)]
  /\ tally \in [{"champion", "challenger"} -> [Kinds -> 0 .. Cardinality(Scored)]]
  /\ row \in [Scored -> [state : {"none", "counted", "stored", "lost"}, decision : Kinds]]

ShadowInit ==
  /\ sender = [s \in Scored |-> "idle"]
  /\ channelQ = <<>>
  /\ working = [w \in ShadowWorkers |-> NoTask]
  /\ pool = [closed |-> FALSE, channel |-> "open", cancelled |-> FALSE, result |-> "none"]
  /\ counted = [c \in Counters |-> 0]
  /\ tally = [m \in {"champion", "challenger"} |-> [k \in Kinds |-> 0]]
  /\ row = [s \in Scored |-> [state |-> "none", decision |-> "REVIEW"]]

Counting(c) == counted' = [counted EXCEPT ![c] = @ + 1]
Sender(s, pc) == sender' = [sender EXCEPT ![s] = pc]

-----------------------------------------------------------------------------
(* Enqueue: the check of closed, the counter, and the send are three steps. *)

CheckOpen(s) ==
  /\ sender[s] = "idle"
  /\ Sender(s, IF pool.closed THEN "refused" ELSE "checked")
  /\ UNCHANGED <<channelQ, working, pool, counted, tally, row>>

CountRequest(s) ==
  /\ sender[s] = "checked"
  /\ Sender(s, "counted") /\ Counting("requests")
  /\ UNCHANGED <<channelQ, working, pool, tally, row>>

\* A send on a closed channel panics, also as a case of a select.
SendTask(s) ==
  /\ sender[s] = "counted"
  /\ IF pool.channel = "closed" THEN Sender(s, "panicked") /\ UNCHANGED <<channelQ, counted>>
     ELSE IF Len(channelQ) < ShadowQueue
          THEN channelQ' = Append(channelQ, s) /\ Sender(s, "queued") /\ UNCHANGED counted
          ELSE Sender(s, "dropped") /\ Counting("dropped") /\ UNCHANGED channelQ
  /\ UNCHANGED <<working, pool, tally, row>>

-----------------------------------------------------------------------------
(* Workers. A worker that sees the cancelled context drains what is queued, *)
(* which is what it does anyway until the closed channel is empty.          *)

TakeTask(w) ==
  /\ working[w] = NoTask /\ channelQ # <<>>
  /\ working' = [working EXCEPT ![w] = Head(channelQ)]
  /\ channelQ' = Tail(channelQ)
  /\ UNCHANGED <<sender, pool, counted, tally, row>>

\* Mutant: a worker leaves when the context is cancelled, whatever is queued.
ExitWorkerEarly(w) ==
  /\ working[w] = NoTask
  /\ pool.closed
  /\ working' = [working EXCEPT ![w] = Exited]
  /\ UNCHANGED <<sender, channelQ, pool, counted, tally, row>>

ExitWorker(w) ==
  /\ working[w] = NoTask /\ channelQ = <<>>
  /\ pool.channel = "closed"
  /\ working' = [working EXCEPT ![w] = Exited]
  /\ UNCHANGED <<sender, channelQ, pool, counted, tally, row>>

(* processTask, the counters: the candidate answers, or an error counts as  *)
(* a review. A decision that differs diverges, whatever its kind.           *)
CountOutcome(w, answered) ==
  LET s == working[w]
      decision == IF answered THEN Challenger[s] ELSE "REVIEW"
  IN /\ s \in Scored /\ row[s].state = "none"
     /\ pool.cancelled => ~answered
     /\ row' = [row EXCEPT ![s] = [state |-> "counted", decision |-> decision]]
     /\ tally' = [tally EXCEPT !.champion[Kind(Champion[s])] = @ + 1, !.challenger[decision] = @ + 1]
     /\ counted' = [counted EXCEPT ![IF answered THEN "success" ELSE "errors"] = @ + 1,
                                   !.divergence = IF Champion[s] = decision THEN @ ELSE @ + 1]
     /\ UNCHANGED <<sender, channelQ, working, pool>>

\* InsertShadowEvaluation with the pool's context; an error is only logged.
StoreRow(w, ok) ==
  /\ working[w] \in Scored /\ row[working[w]].state = "counted"
  /\ pool.cancelled => ~ok
  /\ row' = [row EXCEPT ![working[w]].state = IF ok THEN "stored" ELSE "lost"]
  /\ working' = [working EXCEPT ![w] = NoTask]
  /\ UNCHANGED <<sender, channelQ, pool, counted, tally>>

-----------------------------------------------------------------------------
(* Close, once. *)

MarkClosed ==
  /\ ~pool.closed /\ pool' = [pool EXCEPT !.closed = TRUE]
  /\ UNCHANGED <<sender, channelQ, working, counted, tally, row>>
CloseChannel ==
  /\ pool.closed /\ pool.channel = "open" /\ pool' = [pool EXCEPT !.channel = "closed"]
  /\ UNCHANGED <<sender, channelQ, working, counted, tally, row>>
EndClose ==
  /\ pool.channel = "closed" /\ pool.result = "none"
  /\ \A w \in ShadowWorkers : working[w] = Exited
  /\ pool' = [pool EXCEPT !.cancelled = TRUE, !.result = "graceful"]
  /\ UNCHANGED <<sender, channelQ, working, counted, tally, row>>
CloseTimesOut ==
  /\ pool.channel = "closed" /\ pool.result = "none"
  /\ pool' = [pool EXCEPT !.cancelled = TRUE, !.result = "timed out"]
  /\ UNCHANGED <<sender, channelQ, working, counted, tally, row>>

WorkerMoves(w) ==
  TakeTask(w) \/ ExitWorker(w) \/ \E ok \in BOOLEAN : CountOutcome(w, ok) \/ StoreRow(w, ok)

ShadowNext ==
  \/ \E s \in Scored : CheckOpen(s) \/ CountRequest(s) \/ SendTask(s)
  \/ \E w \in ShadowWorkers : WorkerMoves(w)
  \/ MarkClosed \/ CloseChannel \/ EndClose \/ CloseTimesOut

ShadowSpec == ShadowInit /\ [][ShadowNext]_shadowVars

-----------------------------------------------------------------------------

In(pcs) == Cardinality({s \in Scored : sender[s] \in pcs})
InHand == {working[w] : w \in {v \in ShadowWorkers : working[v] \in Scored}}
Uncounted == {s \in InHand : row[s].state = "none"}

\* The category of a row, DECLINE_TO_ALLOW say: from what to what it moved.
Direction(s) == [from |-> Kind(Champion[s]), to |-> row[s].decision]

(* Every request the pool counted is queued, in hand, dropped, scored, an   *)
(* error, or on its way into the channel, at which a closed one panics.     *)
ShadowBalance ==
  counted["requests"] =
    Len(channelQ) + Cardinality(Uncounted) + counted["dropped"] + counted["success"]
      + counted["errors"] + In({"counted", "panicked"})

(* A shutdown that reports to be graceful left nothing behind.              *)
GracefulIsDone == pool.result = "graceful" => channelQ = <<>> /\ InHand = {}

(* The stored rows explain how far the candidate's counters of decisions    *)
(* are from those of production: a kind has gained what moved to it and     *)
(* lost what moved away, up to the rows that are not stored.                *)
RowsExplainTally ==
  LET stored == {s \in Scored : row[s].state = "stored"}
      missing == Cardinality({s \in Scored : row[s].state \in {"counted", "lost"}})
  IN \A k \in Kinds :
       LET gained == Cardinality({s \in stored : Direction(s).to = k /\ Direction(s).from # k})
           left == Cardinality({s \in stored : Direction(s).from = k /\ Direction(s).to # k})
           surplus == tally.challenger[k] + left
           expected == tally.champion[k] + gained
       IN surplus <= expected + missing /\ expected <= surplus + missing

(* The pool accounts for every task it counted, leaves none behind when its *)
(* shutdown succeeds, and its rows explain its counters.                    *)
ShadowAccounts ==
  ShadowTypeOK /\ ShadowBalance /\ GracefulIsDone /\ RowsExplainTally

===============================================================================
