---------------------------- MODULE DurableOutbox -----------------------------
(***************************************************************************)
(* The durable outbox (riskengine/outbox.go): producers, a bounded channel, *)
(* workers that deliver with retries, a dead-letter log, and FlushAndClose. *)
(***************************************************************************)
EXTENDS Naturals, Sequences, FiniteSets

CONSTANTS
  Events,       \* each is enqueued by a producer of its own
  Deliverers,   \* the worker goroutines
  QueueSize,    \* maxQueueSize
  MaxRetries,   \* retries of an event
  MaxDead       \* the dead-letter log keeps 1000

None == "none"

(* NewDurableOutbox replaces a worker count or a queue size that is not     *)
(* positive by a default.                                                   *)
ASSUME OutboxAssumption ==
  /\ {QueueSize, MaxRetries, MaxDead} \subseteq Nat /\ QueueSize > 0
  /\ IsFiniteSet(Events) /\ None \notin Events
  /\ Deliverers # {}

VARIABLES
  producer,   \* the control point of each event's Enqueue
  queue,      \* the channel
  queueClosed, isClosed,
  deliverer,  \* each worker's event, attempts and control point
  delivered, deadLetters, failedCount, droppedCount,
  flush,      \* FlushAndClose
  cancelled   \* the context of the workers

outboxVars == <<producer, queue, queueClosed, isClosed, deliverer, delivered, deadLetters,
                failedCount, droppedCount, flush, cancelled>>

Resting == [pc |-> "waiting", event |-> None, attempt |-> 0]

OutboxTypeOK ==
  /\ producer \in [Events -> {"idle", "sending", "accepted", "refused", "panicked"}]
  /\ queue \in Seq(Events) /\ Len(queue) <= QueueSize
  /\ queueClosed \in BOOLEAN /\ isClosed \in BOOLEAN /\ cancelled \in BOOLEAN
  /\ deliverer \in [Deliverers -> [pc : {"waiting", "dispatching", "backoff", "gone"},
                                   event : Events \cup {None}, attempt : 0 .. MaxRetries]]
  /\ delivered \subseteq Events /\ deadLetters \subseteq Events
  /\ failedCount \in 0 .. Cardinality(Events) /\ droppedCount \in 0 .. Cardinality(Events)
  /\ flush \in {"idle", "closing", "waiting", "flushed", "timed out"}

OutboxInit ==
  /\ producer = [e \in Events |-> "idle"]
  /\ queue = <<>> /\ queueClosed = FALSE /\ isClosed = FALSE
  /\ deliverer = [d \in Deliverers |-> Resting]
  /\ delivered = {} /\ deadLetters = {} /\ failedCount = 0 /\ droppedCount = 0
  /\ flush = "idle" /\ cancelled = FALSE

-----------------------------------------------------------------------------
(* Enqueue: the look at isClosed, and the send. *)

BeginEnqueue(e) ==
  /\ producer[e] = "idle"
  /\ producer' = [producer EXCEPT ![e] = IF isClosed THEN "refused" ELSE "sending"]
  /\ UNCHANGED <<queue, queueClosed, isClosed, deliverer, delivered, deadLetters, failedCount,
                 droppedCount, flush, cancelled>>

\* Mutant: a full queue makes the producer forget the event and report it sent.
SendOverwriting(e) ==
  /\ producer[e] = "sending" /\ ~queueClosed
  /\ producer' = [producer EXCEPT ![e] = "accepted"]
  /\ queue' = IF Len(queue) < QueueSize THEN Append(queue, e) ELSE Append(Tail(queue), e)
  /\ UNCHANGED <<queueClosed, isClosed, deliverer, delivered, deadLetters, failedCount,
                 droppedCount, flush, cancelled>>

\* A send on a closed channel panics, in the goroutine of the producer.
Send(e) ==
  /\ producer[e] = "sending"
  /\ LET full == Len(queue) >= QueueSize
     IN /\ producer' = [producer EXCEPT ![e] = IF queueClosed THEN "panicked"
                                              ELSE IF full THEN "refused" ELSE "accepted"]
        /\ queue' = IF queueClosed \/ full THEN queue ELSE Append(queue, e)
        /\ droppedCount' = IF full /\ ~queueClosed THEN droppedCount + 1 ELSE droppedCount
  /\ UNCHANGED <<queueClosed, isClosed, deliverer, delivered, deadLetters, failedCount, flush,
                 cancelled>>

-----------------------------------------------------------------------------
(* workerLoop and processWithRetries. *)

\* With the context done and events left, the select takes either branch.
Receive(d) ==
  /\ deliverer[d].pc = "waiting" /\ queue # <<>>
  /\ queue' = Tail(queue)
  /\ deliverer' = [deliverer EXCEPT ![d] = [pc |-> "dispatching", event |-> Head(queue),
                                            attempt |-> 0]]
  /\ UNCHANGED <<producer, queueClosed, isClosed, delivered, deadLetters, failedCount,
                 droppedCount, flush, cancelled>>

StopWorking(d) ==
  /\ deliverer[d].pc = "waiting"
  /\ cancelled \/ (queueClosed /\ queue = <<>>)
  /\ deliverer' = [deliverer EXCEPT ![d].pc = "gone"]
  /\ UNCHANGED <<producer, queue, queueClosed, isClosed, delivered, deadLetters, failedCount,
                 droppedCount, flush, cancelled>>

Rest(d) == deliverer' = [deliverer EXCEPT ![d] = Resting]

Deliver(d) ==
  LET e == deliverer[d].event
  IN /\ deliverer[d].pc = "dispatching" /\ ~cancelled
     /\ delivered' = delivered \cup {e}
     /\ Rest(d)
     /\ UNCHANGED <<producer, queue, queueClosed, isClosed, deadLetters, failedCount,
                    droppedCount, flush, cancelled>>

\* Mutant: the last attempt only rests.
FailForgotten(d) ==
  /\ deliverer[d].pc = "dispatching" /\ ~cancelled
  /\ IF deliverer[d].attempt < MaxRetries
       THEN deliverer' = [deliverer EXCEPT ![d].pc = "backoff"]
       ELSE Rest(d)
  /\ UNCHANGED <<producer, queue, queueClosed, isClosed, delivered, deadLetters, failedCount,
                 droppedCount, flush, cancelled>>

\* Dispatch fails or runs into its time limit of five seconds.
Fail(d) ==
  /\ deliverer[d].pc = "dispatching" /\ ~cancelled
  /\ IF deliverer[d].attempt < MaxRetries
       THEN /\ deliverer' = [deliverer EXCEPT ![d].pc = "backoff"]
            /\ UNCHANGED <<deadLetters, failedCount>>
       ELSE /\ Rest(d)
            /\ failedCount' = failedCount + 1
            /\ deadLetters' = IF Cardinality(deadLetters) < MaxDead
                                THEN deadLetters \cup {deliverer[d].event} ELSE deadLetters
  /\ UNCHANGED <<producer, queue, queueClosed, isClosed, delivered, droppedCount, flush, cancelled>>

TryAgain(d) ==
  /\ deliverer[d].pc = "backoff" /\ ~cancelled
  /\ deliverer' = [deliverer EXCEPT ![d].pc = "dispatching", ![d].attempt = @ + 1]
  /\ UNCHANGED <<producer, queue, queueClosed, isClosed, delivered, deadLetters, failedCount,
                 droppedCount, flush, cancelled>>

\* The context ends while a worker holds an event: the event is forgotten.
Abandon(d) ==
  /\ deliverer[d].pc \in {"dispatching", "backoff"} /\ cancelled
  /\ Rest(d)
  /\ UNCHANGED <<producer, queue, queueClosed, isClosed, delivered, deadLetters, failedCount,
                 droppedCount, flush, cancelled>>

-----------------------------------------------------------------------------
(* FlushAndClose. *)

BeginFlush ==
  /\ flush = "idle"
  /\ isClosed' = TRUE /\ flush' = "closing"
  /\ UNCHANGED <<producer, queue, queueClosed, deliverer, delivered, deadLetters, failedCount,
                 droppedCount, cancelled>>

CloseQueue ==
  /\ flush = "closing"
  /\ queueClosed' = TRUE /\ flush' = "waiting"
  /\ UNCHANGED <<producer, queue, isClosed, deliverer, delivered, deadLetters, failedCount,
                 droppedCount, cancelled>>

AllGone == \A d \in Deliverers : deliverer[d].pc = "gone"

FinishFlush ==
  /\ flush = "waiting"
  /\ flush' \in (IF AllGone THEN {"flushed", "timed out"} ELSE {"timed out"})
  /\ cancelled' = TRUE
  /\ UNCHANGED <<producer, queue, queueClosed, isClosed, deliverer, delivered, deadLetters,
                 failedCount, droppedCount>>

WorkerStep(d) ==
  Receive(d) \/ StopWorking(d) \/ Deliver(d) \/ Fail(d) \/ TryAgain(d) \/ Abandon(d)

OutboxNext ==
  \/ \E e \in Events : BeginEnqueue(e) \/ Send(e)
  \/ \E d \in Deliverers : WorkerStep(d)
  \/ BeginFlush \/ CloseQueue \/ FinishFlush

OutboxSpec == OutboxInit /\ [][OutboxNext]_outboxVars

-----------------------------------------------------------------------------

Working == {deliverer[d].event : d \in Deliverers} \ {None}
Queued == {queue[i] : i \in 1 .. Len(queue)}
Accepted == {e \in Events : producer[e] = "accepted"}

(* An event that Enqueue accepted is in the queue, with one worker,         *)
(* delivered, or counted as failed, each exactly once, until a flush times  *)
(* out; one that it refused is nowhere.                                     *)
EachEventSomewhere ==
  /\ Len(queue) = Cardinality(Queued)
  /\ Queued \cap Working = {} /\ (Queued \cup Working) \cap (delivered \cup deadLetters) = {}
  /\ delivered \cap deadLetters = {}
  /\ Queued \cup Working \cup delivered \cup deadLetters \subseteq Accepted
  /\ flush # "timed out" =>
       Cardinality(Accepted) =
         Cardinality(Queued \cup Working) + Cardinality(delivered) + failedCount

(* When FlushAndClose reports success, nothing is left behind: every event  *)
(* accepted before or during the flush was delivered or failed for good.    *)
FlushLeavesNothing ==
  flush = "flushed" => Cardinality(Accepted) = Cardinality(delivered) + failedCount

(* An accepted event reaches its end, whatever retries and shutdowns do; it *)
(* is lost silently only by a flush that timed out or a full dead-letter    *)
(* log.                                                                     *)
EventSettles ==
  \A e \in Events :
    producer[e] = "accepted" ~>
      \/ e \in delivered \cup deadLetters
      \/ flush = "timed out"
      \/ failedCount > Cardinality(deadLetters)

(* No event is lost or doubled on the way, up to and including a flush.     *)
OutboxKeeps ==
  OutboxTypeOK /\ EachEventSomewhere /\ FlushLeavesNothing

===============================================================================
