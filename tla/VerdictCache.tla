----------------------------- MODULE VerdictCache ------------------------------
(***************************************************************************)
(* Razorpay's webhook (ingestion/razorpay_adapter.go). A delivery of a       *)
(* payment event looks for the verdict of its event and payment in a map,    *)
(* has the payment evaluated when there is none, and stores what it answers. *)
(* The map is lost with the process, and the provider delivers again.        *)
(***************************************************************************)
EXTENDS Naturals, FiniteSets

CONSTANTS
  Deliveries,  \* webhook calls
  CacheKeys,   \* pairs of an event and a payment
  MaxRestarts  \* bound on restarts

ASSUME VerdictAssumption == CacheKeys # {} /\ MaxRestarts \in Nat

VARIABLES
  delivery,  \* each call: control point, body, answer; history: answered before it came
  verdictOf, \* idempotencySync
  restarts

verdictVars == <<delivery, verdictOf, restarts>>

Actions == {"ALLOW", "STEP_UP_3DS", "MANUAL_REVIEW", "DECLINE"}
Bodies == {"unsigned", "malformed", "other event", "payment"}
Unanswered == [by |-> "nobody", action |-> "none"]
AnswersGiven == [by : Deliveries, action : Actions] \cup {Unanswered}

VerdictTypeOK ==
  /\ delivery \in [Deliveries ->
       [pc : {"sent", "evaluating", "evaluated", "answered", "refused"}, key : CacheKeys, body : Bodies,
        verdict : AnswersGiven, life : 0 .. MaxRestarts, after : SUBSET Deliveries]]
  /\ verdictOf \in [CacheKeys -> AnswersGiven]
  /\ restarts \in 0 .. MaxRestarts

VerdictInit ==
  /\ delivery = [d \in Deliveries |->
       [pc |-> "sent", key |-> CHOOSE k \in CacheKeys : TRUE, body |-> "payment",
        verdict |-> Unanswered, life |-> 0, after |-> {}]]
  /\ verdictOf = [k \in CacheKeys |-> Unanswered]
  /\ restarts = 0

\* VerifyRazorpaySignature, the decoding, and the kind of event: what needs no verdict.
Refuse(d, body) ==
  /\ delivery[d].pc = "sent" /\ body # "payment"
  /\ delivery' = [delivery EXCEPT ![d].pc = IF body = "other event" THEN "answered" ELSE "refused",
                                  ![d].body = body]
  /\ UNCHANGED <<verdictOf, restarts>>

\* The idempotent replay check: a stored verdict is the answer.
LookUpVerdict(d, k) ==
  /\ delivery[d].pc = "sent"
  /\ delivery' = [delivery EXCEPT
       ![d].key = k,
       ![d].life = restarts,
       ![d].after = {x \in Deliveries : delivery[x].verdict # Unanswered /\ delivery[x].pc = "answered"},
       ![d].pc = IF verdictOf[k] = Unanswered THEN "evaluating" ELSE "answered",
       ![d].verdict = verdictOf[k]]
  /\ UNCHANGED <<verdictOf, restarts>>

(* The local heuristics, for an evaluation that fails: the worst of a whale, *)
(* a disposable address, and an international card above 10 000 rupees.      *)
HeuristicAction(foreign, disposable, whale) ==
  CASE whale -> "DECLINE"
    [] foreign /\ disposable -> "DECLINE"
    [] foreign /\ ~disposable -> "STEP_UP_3DS"
    [] OTHER -> "ALLOW"

\* The orchestrator's action, or that of the heuristics.
EvaluateDelivery(d, a) ==
  /\ delivery[d].pc = "evaluating"
  /\ delivery' = [delivery EXCEPT ![d].pc = "evaluated", ![d].verdict = [by |-> d, action |-> a]]
  /\ UNCHANGED <<verdictOf, restarts>>

\* Mutant: what lets a payment pass is not worth storing.
StoreVerdictSometimes(d) ==
  /\ delivery[d].pc = "evaluated"
  /\ verdictOf' = IF delivery[d].verdict.action = "ALLOW" THEN verdictOf
                  ELSE [verdictOf EXCEPT ![delivery[d].key] = delivery[d].verdict]
  /\ delivery' = [delivery EXCEPT ![d].pc = "answered"]
  /\ UNCHANGED restarts

\* The store writes over what a delivery that came at the same time stored.
StoreVerdict(d) ==
  /\ delivery[d].pc = "evaluated"
  /\ verdictOf' = [verdictOf EXCEPT ![delivery[d].key] = delivery[d].verdict]
  /\ delivery' = [delivery EXCEPT ![d].pc = "answered"]
  /\ UNCHANGED restarts

\* A restart loses the map, and the calls under way are delivered again.
RestartAdapter ==
  /\ restarts < MaxRestarts
  /\ restarts' = restarts + 1
  /\ verdictOf' = [k \in CacheKeys |-> Unanswered]
  /\ delivery' = [d \in Deliveries |->
       IF delivery[d].pc \in {"evaluating", "evaluated"}
       THEN [delivery[d] EXCEPT !.pc = "sent", !.verdict = Unanswered] ELSE delivery[d]]

FallbackActions == {HeuristicAction(f, t, w) : f, t, w \in BOOLEAN}

VerdictNext ==
  \/ \E d \in Deliveries :
       \/ \E b \in Bodies : Refuse(d, b)
       \/ \E k \in CacheKeys : LookUpVerdict(d, k)
       \/ \E a \in Actions \cup FallbackActions : EvaluateDelivery(d, a)
       \/ StoreVerdict(d)
  \/ RestartAdapter

VerdictSpec == VerdictInit /\ [][VerdictNext]_verdictVars

(* Two answers for one event of one payment differ only when the calls      *)
(* overlapped or the process restarted between them: a later delivery is     *)
(* told what an earlier one was told.                                        *)
TwiceOnlyOverlapping ==
  \A d, e \in Deliveries :
    (/\ delivery[d].pc = "answered" /\ delivery[e].pc = "answered"
     /\ delivery[d].key = delivery[e].key /\ delivery[d].life = delivery[e].life
     /\ d \in delivery[e].after)
    => \/ delivery[e].verdict = delivery[d].verdict
       \/ \E x \in Deliveries \ {d, e} :
            /\ delivery[x].key = delivery[d].key /\ d \notin delivery[x].after
            /\ delivery[x].verdict = delivery[e].verdict

(* A verdict once given stands, up to overlapping calls and restarts.       *)
VerdictsStand ==
  VerdictTypeOK /\ TwiceOnlyOverlapping

================================================================================
