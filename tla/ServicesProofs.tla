---------------------------- MODULE ServicesProofs ----------------------------
(***************************************************************************)
(* Theorems about components that Services runs one at a time, the          *)
(* distributed lock, the breaker of a dependency, the audit chain, the      *)
(* verdicts of the webhook, the limiter of tenants, the cases, and the two  *)
(* pools that take work off the path of a decision, outbox and shadow; and  *)
(* about two that a payment meets on its way: the threat feed and the       *)
(* replay protection of the bot defence.                                    *)
(***************************************************************************)
EXTENDS DistributedLock, DependencyBreaker, AuditChain, VerdictCache, TenantRateLimiter, CaseReview,
        BotDefense, ThreatContext, DurableOutbox, ShadowScorer, FiniteSetTheorems,
        WellFoundedInduction, TLAPS

(* The distributed lock. *)

\* Every lease that was given out has a token of its own.
TokensDiffer ==
  \A v, w \in Workers :
    v # w /\ lease[v].token = lease[w].token => lease[v].token = NoToken

\* An entry that is gone has no time left.
EntryOK == entry.token = NoToken => entry.left = -1

\* A lease that is acted upon is in the store, where it ends when the holder thinks.
Backed ==
  \A w \in Workers :
    Believes(w) /\ (lockKind = "local" \/ ~lease[w].extended)
      => Owns(w) /\ entry.left = lease[w].left

LockIInv ==
  /\ LockTypeOK /\ TokensDiffer /\ EntryOK /\ Backed
  /\ entry.token <= tokens /\ \A w \in Workers : lease[w].token <= tokens

\* A lease that is given out leaves the store and the leases in order.
LEMMA GivenOut ==
  ASSUME LockIInv, NEW w \in Workers, NEW state \in LeaseStates, Available, GiveOut(w, state)
  PROVE  LockIInv'
  <1> USE LockAssumption
  <1>1. LockTypeOK' /\ entry'.token <= tokens' /\ \A v \in Workers : lease'[v].token <= tokens'
    BY DEF GiveOut, Fresh, LockIInv, LockTypeOK, LeaseStates
  <1>2. TokensDiffer'
    BY DEF GiveOut, Fresh, LockIInv, LockTypeOK, TokensDiffer, NoToken
  <1>3. EntryOK'
    BY DEF GiveOut, Fresh, LockIInv, LockTypeOK, EntryOK, NoToken
  <1>4. Backed'
    <2> SUFFICES ASSUME NEW v \in Workers, Believes(v)', (lockKind = "local" \/ ~lease[v].extended)'
                 PROVE  (Owns(v) /\ entry.left = lease[v].left)'
      BY DEF Backed
    <2>1. CASE v = w
      BY <2>1 DEF GiveOut, Fresh, LockIInv, LockTypeOK, Owns, NoToken
    <2>2. CASE v # w
      <3>1. lease'[v] = lease[v] /\ lockKind' = lockKind
        BY <2>2 DEF GiveOut, LockIInv, LockTypeOK
      <3>2. Owns(v) /\ entry.left = lease[v].left /\ lease[v].left > 0
        BY <3>1 DEF LockIInv, Backed, Believes
      <3> QED BY <3>2 DEF Available, Owns, LockIInv, LockTypeOK
    <2> QED BY <2>1, <2>2
  <1> QED BY <1>1, <1>2, <1>3, <1>4 DEF LockIInv

\* The other operations of a worker do.
LEMMA WorkerKeeps ==
  ASSUME LockIInv, NEW w \in Workers, Release(w) \/ Extend(w) \/ Dies(w)
  PROVE  LockIInv'
  <1> USE LockAssumption
  <1>1. CASE Release(w)
    <2>1. /\ \A v \in Workers : /\ lease'[v].token = lease[v].token /\ lease'[v].left = lease[v].left
                                /\ lease'[v].extended = lease[v].extended
                                /\ lease'[v].state = IF v = w THEN "released" ELSE lease[v].state
          /\ LockTypeOK' /\ UNCHANGED <<lockKind, tokens>>
      BY <1>1 DEF Release, LockIInv, LockTypeOK, LeaseStates, NoEntry, NoToken
    <2>2. TokensDiffer' /\ EntryOK' /\ (entry.token <= tokens)'
          /\ \A v \in Workers : lease'[v].token <= tokens'
      BY <1>1, <2>1 DEF Release, LockIInv, LockTypeOK, TokensDiffer, EntryOK, NoEntry, NoToken
    <2>3. Backed'
      BY <1>1, <2>1 DEF Release, LockIInv, LockTypeOK, Backed, Believes, Owns, TokensDiffer, NoToken
    <2> QED BY <2>1, <2>2, <2>3 DEF LockIInv
  <1>2. CASE Extend(w)
    <2>1. /\ \A v \in Workers : /\ lease'[v].token = lease[v].token
                                /\ lease'[v].state = lease[v].state
                                /\ v # w => lease'[v] = lease[v]
          /\ lease'[w].extended /\ entry'.token = entry.token
          /\ lockKind = "local" => lease'[w].left = entry'.left
          /\ UNCHANGED <<lockKind, tokens>>
      BY <1>2 DEF Extend, LockIInv, LockTypeOK
    <2>2. LockTypeOK'
      BY <1>2 DEF Extend, LockIInv, LockTypeOK
    <2>3. TokensDiffer' /\ EntryOK' /\ (entry.token <= tokens)'
          /\ \A v \in Workers : lease'[v].token <= tokens'
      BY <1>2, <2>1 DEF Extend, Owns, LockIInv, TokensDiffer, EntryOK
    <2>4. Backed'
      BY <1>2, <2>1 DEF Extend, LockIInv, LockTypeOK, Backed, Believes, Owns, TokensDiffer, NoToken
    <2> QED BY <2>1, <2>2, <2>3, <2>4 DEF LockIInv
  <1>3. CASE Dies(w)
    <2>1. /\ \A v \in Workers : /\ lease'[v].token = lease[v].token /\ lease'[v].left = lease[v].left
                                /\ lease'[v].extended = lease[v].extended
                                /\ lease'[v].state = IF v = w THEN "lost" ELSE lease[v].state
          /\ LockTypeOK' /\ UNCHANGED <<lockKind, tokens, entry>>
      BY <1>3 DEF Dies, LockIInv, LockTypeOK, LeaseStates
    <2> QED BY <2>1 DEF LockIInv, TokensDiffer, EntryOK, Backed, Believes, Owns
  <1> QED BY <1>1, <1>2, <1>3

\* Time takes from the entry what it takes from the leases.
LEMMA TickKeeps ==
  ASSUME LockIInv, LockTick
  PROVE  LockIInv'
  <1> USE LockAssumption
  <1>1. /\ \A v \in Workers : /\ lease'[v].token = lease[v].token /\ lease'[v].state = lease[v].state
                              /\ lease'[v].extended = lease[v].extended
                              /\ lease'[v].left = IF lease[v].left >= 0 THEN lease[v].left - 1
                                                                        ELSE lease[v].left
        /\ entry' = IF lockKind = "redis" /\ entry.left <= 1 THEN NoEntry ELSE LessLeft(entry)
        /\ UNCHANGED <<lockKind, tokens>>
    BY DEF LockTick, LessLeft, LockIInv, LockTypeOK
  <1>2. LessLeft(entry) = [token |-> entry.token,
                           left |-> IF entry.left >= 0 THEN entry.left - 1 ELSE entry.left]
    BY DEF LessLeft, LockIInv, LockTypeOK
  <1>3. LockTypeOK'
    <2>1. \A v \in Workers : LessLeft(lease[v]) \in [token : 0 .. MaxTokens, left : -1 .. MaxLeft,
                                                     state : LeaseStates, extended : BOOLEAN]
      BY DEF LessLeft, LockIInv, LockTypeOK
    <2> QED BY <1>1, <1>2, <2>1 DEF LockTick, LockIInv, LockTypeOK, NoEntry, NoToken
  <1>4. TokensDiffer' /\ EntryOK' /\ (entry.token <= tokens)' /\ \A v \in Workers : lease'[v].token <= tokens'
    BY <1>1, <1>2 DEF LockIInv, LockTypeOK, TokensDiffer, EntryOK, NoEntry, NoToken
  <1>5. Backed'
    BY <1>1, <1>2 DEF LockIInv, LockTypeOK, Backed, Believes, Owns, NoEntry, NoToken
  <1> QED BY <1>1, <1>3, <1>4, <1>5 DEF LockIInv

LEMMA LockNextIInv == LockIInv /\ [LockNext]_lockVars => LockIInv'
  <1> SUFFICES ASSUME LockIInv, [LockNext]_lockVars PROVE LockIInv'
    OBVIOUS
  <1>1. ASSUME NEW w \in Workers, Acquire(w) \/ AcquireUnheard(w) PROVE LockIInv'
    BY <1>1, GivenOut DEF Acquire, AcquireUnheard, LeaseStates
  <1>2. CASE UNCHANGED lockVars
    BY <1>2 DEF lockVars, LockIInv, LockTypeOK, TokensDiffer, EntryOK, Backed, Believes, Owns
  <1> QED BY <1>1, <1>2, WorkerKeeps, TickKeeps DEF LockNext

(* The inductive invariant of the lock, for either implementation           *)
(* (distributed_lock.go).                                                   *)
THEOREM LockInvariance == LockSpec => []LockIInv
  <1>1. (\E kind \in {"local", "redis"} : LockInit(kind)) => LockIInv
    BY LockAssumption DEF LockInit, LockIInv, LockTypeOK, TokensDiffer, EntryOK, Backed, Believes,
       NoEntry, NoLease, NoToken, LeaseStates
  <1> QED BY <1>1, LockNextIInv, PTL DEF LockSpec

(* Two workers never act on the lock at once, whatever dies, expires or is  *)
(* not heard of, for any number of workers: the exception is an extended    *)
(* lease of Redis.                                                          *)
THEOREM OneHolderActs == LockSpec => []OneBeliever
  <1>1. LockIInv => OneBeliever
    <2> SUFFICES ASSUME LockIInv, NEW v \in Workers, NEW w \in Workers, v # w, Believes(v), Believes(w)
                 PROVE  lockKind = "redis" /\ (lease[v].extended \/ lease[w].extended)
      BY DEF OneBeliever
    <2>1. ~(Owns(v) /\ Owns(w))
      BY DEF LockIInv, TokensDiffer, Owns
    <2> QED BY <2>1 DEF LockIInv, LockTypeOK, Backed
  <1> QED BY <1>1, LockInvariance, PTL

(* A lock that is alive is freed by its owner only.                         *)
THEOREM OnlyOwnerFrees == LockSpec => OnlyOwnerReleases
  <1>1. LockIInv /\ [LockNext]_lockVars
        => [entry.left > 1 /\ entry'.token # entry.token
              => \E w \in Workers : lease[w].token = entry.token /\ lease'[w].state = "released"]_lockVars
    <2> SUFFICES ASSUME LockIInv, LockNext, entry.left > 1, entry'.token # entry.token
                 PROVE  \E w \in Workers : lease[w].token = entry.token /\ lease'[w].state = "released"
      BY DEF lockVars
    <2>1. ASSUME NEW w \in Workers, Acquire(w) \/ AcquireUnheard(w) PROVE FALSE
      BY <2>1 DEF Acquire, AcquireUnheard, Available, LockIInv, LockTypeOK, EntryOK
    <2>2. ASSUME NEW w \in Workers, Release(w)
          PROVE  lease[w].token = entry.token /\ lease'[w].state = "released"
      BY <2>2 DEF Release, Owns, LockIInv, LockTypeOK
    <2>3. ASSUME NEW w \in Workers, Extend(w) \/ Dies(w) PROVE FALSE
      BY <2>3 DEF Extend, Dies, LockIInv, LockTypeOK
    <2>4. CASE LockTick
      BY <2>4 DEF LockTick, LessLeft, LockIInv, LockTypeOK
    <2> QED BY <2>1, <2>2, <2>3, <2>4 DEF LockNext
  <1> QED BY <1>1, LockInvariance, PTL DEF LockSpec, OnlyOwnerReleases

-----------------------------------------------------------------------------
(* The breaker of a dependency. *)

\* A probing breaker closes before it has more successes than it needs.
DependencyIInv ==
  /\ gate \in [state : GateStates, failures : 0 .. MaxFailures, successes : 0 .. SuccessThreshold]
  /\ caller \in [Callers -> {"idle"} \cup GateStates]
  /\ ClosedBelowThreshold
  /\ gate.state = "HALF_OPEN" => gate.successes < SuccessThreshold

LEMMA DependencyNextIInv == DependencyIInv /\ [DependencyNext]_dependencyVars => DependencyIInv'
  <1> SUFFICES ASSUME DependencyIInv, [DependencyNext]_dependencyVars PROVE DependencyIInv'
    OBVIOUS
  <1> USE DependencyAssumption DEF DependencyIInv, ClosedBelowThreshold, GateStates, MaxFailures
  <1>1. ASSUME NEW c \in Callers, BeginCall(c) PROVE DependencyIInv'
    <2>1. CASE gate.state = "OPEN" /\ timedOut
      <3>1. /\ gate' = [gate EXCEPT !.state = "HALF_OPEN", !.successes = 0]
            /\ caller' = [caller EXCEPT ![c] = IF gate'.state = "OPEN" THEN "idle" ELSE gate'.state]
        BY <1>1, <2>1, Zenon DEF BeginCall
      <3>2. gate' = [state |-> "HALF_OPEN", failures |-> gate.failures, successes |-> 0]
        BY <3>1
      <3> QED BY <3>1, <3>2
    <2>2. CASE ~(gate.state = "OPEN" /\ timedOut)
      <3>1. /\ gate' = gate
            /\ caller' = [caller EXCEPT ![c] = IF gate.state = "OPEN" THEN "idle" ELSE gate.state]
        BY <1>1, <2>2, Zenon DEF BeginCall
      <3> QED BY <3>1
    <2> QED BY <2>1, <2>2
  <1>2. ASSUME NEW c \in Callers, CallFails(c) PROVE DependencyIInv'
    <2>1. /\ gate' = [state |-> IF gate.state = "HALF_OPEN" \/ gate.failures + 1 >= FailureThreshold
                                THEN "OPEN" ELSE gate.state,
                      failures |-> IF gate.failures < MaxFailures THEN gate.failures + 1 ELSE gate.failures,
                      successes |-> gate.successes]
          /\ caller' = [caller EXCEPT ![c] = "idle"]
      BY <1>2 DEF CallFails
    <2> QED BY <2>1
  <1>3. ASSUME NEW c \in Callers, CallSucceeds(c) PROVE DependencyIInv'
    BY <1>3 DEF CallSucceeds
  <1>4. CASE TimeOut
    BY <1>4 DEF TimeOut
  <1>5. CASE UNCHANGED dependencyVars
    BY <1>5 DEF dependencyVars
  <1> QED BY <1>1, <1>2, <1>3, <1>4, <1>5 DEF DependencyNext

(* No order of late answers leaves the breaker closed at its threshold, for *)
(* any number of callers and any thresholds.                                *)
THEOREM OpensInTime == DependencySpec => []ClosedBelowThreshold
  <1>1. DependencyInit => DependencyIInv
    BY DependencyAssumption
    DEF DependencyInit, DependencyIInv, ClosedBelowThreshold, GateStates, MaxFailures
  <1>2. DependencyIInv => ClosedBelowThreshold
    BY DEF DependencyIInv
  <1> QED BY <1>1, <1>2, DependencyNextIInv, PTL DEF DependencySpec

-----------------------------------------------------------------------------
(* The audit chain. *)

TrailTypes ==
  /\ trailPc \in [Appenders \cup Auditors -> {"idle", "waiting", "holding", "verifying", "done"}]
  /\ locals \in [Appenders -> Seq(Appenders)] /\ headHash \in Seq(Appenders)
  /\ trail \in Seq([id : Appenders, prev : Seq(Appenders), hash : Seq(Appenders)])

\* One writer is inside, and the hash that it has read is still the head.
WriterExclusive ==
  /\ \A a, b \in Appenders : trailPc[a] = "holding" /\ trailPc[b] = "holding" => a = b
  /\ \A a \in Appenders : trailPc[a] = "holding" => locals[a] = headHash

TrailIInv == TrailTypes /\ WriterExclusive /\ ChainVerifies

\* What follows from the state of the chain alone.
LEMMA OutsideTrail ==
  ASSUME TrailIInv, UNCHANGED <<trail, headHash>>, FALSE \notin verdicts'
  PROVE  ChainVerifies'
  BY DEF TrailIInv, ChainVerifies, Intact

LEMMA AppendKeeps ==
  ASSUME TrailIInv, NEW a \in Appenders, AppendStep(a)
  PROVE  TrailIInv'
  <1> USE TrailAssumption
  <1>1. CASE AskAppend(a)
    <2>1. TrailTypes' /\ WriterExclusive'
      BY <1>1 DEF AskAppend, To, TrailIInv, TrailTypes, WriterExclusive
    <2> QED BY <1>1, <2>1, OutsideTrail DEF AskAppend, TrailIInv, ChainVerifies
  <1>2. CASE EnterAppend(a)
    <2>1. TrailTypes' /\ WriterExclusive'
      BY <1>2 DEF EnterAppend, To, WriterHolds, TrailIInv, TrailTypes, WriterExclusive
    <2> QED BY <1>2, <2>1, OutsideTrail DEF EnterAppend, TrailIInv, ChainVerifies
  <1>3. CASE AppendDecision(a)
    <2> DEFINE hash == Append(headHash, a)
               new == [id |-> a, prev |-> headHash, hash |-> hash]
    <2>1. /\ trail' = Append(trail, new) /\ headHash' = hash /\ hash \in Seq(Appenders)
          /\ trailPc' = [trailPc EXCEPT ![a] = "done"] /\ UNCHANGED <<locals, verdicts>>
      <3>1. locals[a] = headHash
        BY <1>3 DEF AppendDecision, TrailIInv, WriterExclusive
      <3>2. hash \in Seq(Appenders)
        BY DEF TrailIInv, TrailTypes
      <3> QED BY <1>3, <3>1, <3>2 DEF AppendDecision, HashOf, To
    <2>2. TrailTypes'
      BY <2>1 DEF TrailIInv, TrailTypes
    <2>3. WriterExclusive'
      BY <1>3, <2>1 DEF AppendDecision, TrailIInv, TrailTypes, WriterExclusive
    <2>4. Intact'
      <3> SUFFICES ASSUME NEW i \in DOMAIN trail'
                   PROVE  /\ trail'[i].prev = (IF i = 1 THEN Genesis ELSE trail'[i - 1].hash)
                          /\ trail'[i].hash = HashOf(trail'[i].prev, trail'[i].id)
        BY DEF Intact
      <3>1. /\ Len(trail) \in Nat /\ i \in 1 .. Len(trail) + 1
            /\ DOMAIN trail = 1 .. Len(trail)
            /\ \A k \in 1 .. Len(trail) : trail'[k] = trail[k]
            /\ trail'[Len(trail) + 1] = new
        BY <2>1 DEF TrailIInv, TrailTypes
      <3>2. CASE i \in 1 .. Len(trail)
        BY <3>1, <3>2 DEF TrailIInv, ChainVerifies, Intact
      <3>3. CASE i = Len(trail) + 1
        <4>1. headHash = IF trail = <<>> THEN Genesis ELSE trail[Len(trail)].hash
          BY DEF TrailIInv, ChainVerifies, Last
        <4>2. trail = <<>> <=> Len(trail) = 0
          BY DEF TrailIInv, TrailTypes
        <4> QED BY <3>1, <3>3, <4>1, <4>2 DEF HashOf
      <3> QED BY <3>1, <3>2, <3>3
    <2>5. trail' # <<>> /\ Last(trail').hash = headHash'
      <3>1. /\ Len(trail) \in Nat /\ trail' \in Seq([id : Appenders, prev : Seq(Appenders), hash : Seq(Appenders)])
            /\ Len(trail') = Len(trail) + 1 /\ trail'[Len(trail) + 1] = new
        BY <2>1, <2>2 DEF TrailIInv, TrailTypes
      <3>2. trail' # <<>>
        BY <3>1
      <3>3. new.hash = hash
        OBVIOUS
      <3> QED BY <2>1, <3>1, <3>2, <3>3 DEF Last
    <2> QED BY <2>1, <2>2, <2>3, <2>4, <2>5 DEF TrailIInv, ChainVerifies
  <1> QED BY <1>1, <1>2, <1>3 DEF AppendStep

LEMMA StatusKeeps ==
  ASSUME TrailIInv, NEW s \in Auditors, StatusStep(s)
  PROVE  TrailIInv'
  <1>1. /\ UNCHANGED <<locals, trail, headHash>>
        /\ \A a \in Appenders : trailPc'[a] = trailPc[a]
        /\ trailPc' \in [Appenders \cup Auditors -> {"idle", "waiting", "holding", "verifying", "done"}]
    BY TrailAssumption DEF StatusStep, BeginStatus, BeginVerify, EndStatus, To, TrailIInv, TrailTypes
  <1>2. FALSE \notin verdicts'
    BY DEF StatusStep, BeginStatus, BeginVerify, EndStatus, TrailIInv, ChainVerifies
  <1> QED BY <1>1, <1>2, OutsideTrail DEF TrailIInv, TrailTypes, WriterExclusive

LEMMA TrailNextIInv == TrailIInv /\ [TrailNext]_trailVars => TrailIInv'
  <1> SUFFICES ASSUME TrailIInv, [TrailNext]_trailVars PROVE TrailIInv'
    OBVIOUS
  <1>1. CASE UNCHANGED trailVars
    BY <1>1 DEF trailVars, TrailIInv, TrailTypes, WriterExclusive, ChainVerifies, Intact
  <1> QED BY <1>1, AppendKeeps, StatusKeeps DEF TrailNext

(* The chain verifies at all times, for who asks in between as well, for    *)
(* any number of decisions and status calls.                                *)
THEOREM ChainAlwaysVerifies == TrailSpec => []ChainVerifies
  <1>1. TrailInit => TrailIInv
    BY DEF TrailInit, TrailIInv, TrailTypes, WriterExclusive, ChainVerifies, Intact, Genesis
  <1>2. TrailIInv => ChainVerifies
    BY DEF TrailIInv
  <1> QED BY <1>1, <1>2, TrailNextIInv, PTL DEF TrailSpec

-----------------------------------------------------------------------------
(* The verdicts of the payment webhook.                                     *)

\* What is stored was answered to the delivery that had it evaluated, since the last restart.
StoredWasAnswered ==
  \A k \in CacheKeys :
    verdictOf[k] # Unanswered =>
      LET x == verdictOf[k].by
      IN /\ x \in Deliveries /\ delivery[x].pc = "answered" /\ delivery[x].key = k
         /\ delivery[x].verdict = verdictOf[k] /\ delivery[x].life = restarts

\* What was answered since the last restart is stored.
AnswerIsStored ==
  \A d \in Deliveries :
    /\ delivery[d].life <= restarts
    /\ (/\ delivery[d].pc = "answered" /\ delivery[d].verdict # Unanswered
        /\ delivery[d].life = restarts)
         => verdictOf[delivery[d].key] # Unanswered

\* A delivery under way has no verdict but one of its own, and looked since the last restart.
UnderWay ==
  \A d \in Deliveries :
    /\ delivery[d].pc \in {"sent", "evaluating", "refused"} => delivery[d].verdict = Unanswered
    /\ delivery[d].pc = "evaluated" => delivery[d].verdict.by = d
                                       /\ delivery[d].verdict.action \in Actions
    /\ delivery[d].pc \in {"evaluating", "evaluated"} => delivery[d].life = restarts

\* A verdict that is not a delivery's own is that of another delivery for the same key.
VerdictHasOwner ==
  \A e \in Deliveries :
    delivery[e].verdict # Unanswered /\ delivery[e].verdict.by # e =>
      LET x == delivery[e].verdict.by
      IN /\ x \in Deliveries /\ delivery[x].verdict = delivery[e].verdict
         /\ delivery[x].key = delivery[e].key /\ delivery[x].life = delivery[e].life
         /\ delivery[x].pc = "answered"

\* A delivery without a verdict of another found none of the same key and life answered before.
OwnVerdictIsFirst ==
  \A e \in Deliveries : \A d \in delivery[e].after :
    /\ delivery[d].pc = "answered"
    /\ delivery[e].verdict = Unanswered \/ delivery[e].verdict.by = e =>
         ~(delivery[d].key = delivery[e].key /\ delivery[d].life = delivery[e].life)

VerdictIInv ==
  /\ VerdictTypeOK /\ StoredWasAnswered /\ AnswerIsStored /\ UnderWay /\ VerdictHasOwner
  /\ OwnVerdictIsFirst

DeliveryRecords ==
  [pc : {"sent", "evaluating", "evaluated", "answered", "refused"}, key : CacheKeys, body : Bodies,
   verdict : AnswersGiven, life : 0 .. MaxRestarts, after : SUBSET Deliveries]

LEMMA VerdictTypes ==
  /\ VerdictTypeOK <=> /\ delivery \in [Deliveries -> DeliveryRecords]
                       /\ verdictOf \in [CacheKeys -> AnswersGiven] /\ restarts \in 0 .. MaxRestarts
  /\ Unanswered \in AnswersGiven /\ 0 \in 0 .. MaxRestarts
  /\ \A d \in Deliveries, a \in Actions : [by |-> d, action |-> a] \in AnswersGiven
                                         /\ [by |-> d, action |-> a] # Unanswered
  /\ \A v \in AnswersGiven : v # Unanswered => v.by \in Deliveries /\ v.action \in Actions
  BY VerdictAssumption DEF VerdictTypeOK, DeliveryRecords, AnswersGiven, Unanswered, Actions

DeliveryPoints == {"sent", "evaluating", "evaluated", "answered", "refused"}

\* The fields the steps of a delivery write, and those they leave.
LEMMA MovedFields ==
  ASSUME NEW x \in DeliveryRecords, NEW b \in Bodies, NEW p \in DeliveryPoints
  PROVE  LET r == [x EXCEPT !.pc = p, !.body = b]
         IN /\ r \in DeliveryRecords /\ r.pc = p /\ r.key = x.key /\ r.life = x.life
            /\ r.after = x.after /\ r.verdict = x.verdict
  BY DEF DeliveryRecords, DeliveryPoints

LEMMA JudgedFields ==
  ASSUME NEW x \in DeliveryRecords, NEW v \in AnswersGiven, NEW p \in DeliveryPoints
  PROVE  LET r == [x EXCEPT !.pc = p, !.verdict = v]
         IN /\ r \in DeliveryRecords /\ r.pc = p /\ r.verdict = v /\ r.key = x.key
            /\ r.life = x.life /\ r.after = x.after
  BY DEF DeliveryRecords, DeliveryPoints

LEMMA VerdictInitIInv == VerdictInit => VerdictIInv
  <1> SUFFICES ASSUME VerdictInit
               PROVE  VerdictIInv
    OBVIOUS
  <1> DEFINE k0 == CHOOSE k \in CacheKeys : TRUE
             r0 == [pc |-> "sent", key |-> k0, body |-> "payment", verdict |-> Unanswered,
                    life |-> 0, after |-> {}]
  <1>1. k0 \in CacheKeys
    BY VerdictAssumption
  <1> HIDE DEF k0
  <1>2. r0 \in DeliveryRecords
    BY <1>1, VerdictTypes DEF DeliveryRecords, Bodies
  <1>3. /\ \A d \in Deliveries : delivery[d] = r0
        /\ \A k \in CacheKeys : verdictOf[k] = Unanswered
        /\ delivery \in [Deliveries -> DeliveryRecords]
        /\ verdictOf \in [CacheKeys -> AnswersGiven] /\ restarts = 0
    BY <1>2, VerdictTypes DEF VerdictInit, k0
  <1>4. VerdictTypeOK
    BY <1>3, VerdictTypes
  <1>5. \A d \in Deliveries : /\ delivery[d].pc = "sent" /\ delivery[d].verdict = Unanswered
                              /\ delivery[d].after = {} /\ delivery[d].life = 0
    BY <1>3
  <1> QED BY <1>3, <1>4, <1>5
      DEF VerdictIInv, StoredWasAnswered, AnswerIsStored, UnderWay, VerdictHasOwner, OwnVerdictIsFirst

\* A step that only moves a delivery without a verdict to its next point.
LEMMA RefuseKeeps ==
  ASSUME VerdictIInv, NEW d \in Deliveries, NEW b \in Bodies, Refuse(d, b)
  PROVE  VerdictIInv'
  <1>1. /\ delivery \in [Deliveries -> DeliveryRecords] /\ UNCHANGED <<verdictOf, restarts>>
        /\ delivery[d].pc = "sent" /\ delivery[d].verdict = Unanswered
    BY VerdictTypes DEF VerdictIInv, Refuse, UnderWay
  <1> DEFINE p == IF b = "other event" THEN "answered" ELSE "refused"
             r == [delivery[d] EXCEPT !.pc = p, !.body = b]
  <1>2. delivery' = [delivery EXCEPT ![d] = r] /\ p \in {"answered", "refused"}
    BY DEF Refuse
  <1> HIDE DEF p
  <1>3. /\ r \in DeliveryRecords /\ r.pc = p /\ r.key = delivery[d].key /\ r.life = delivery[d].life
        /\ r.after = delivery[d].after /\ r.verdict = delivery[d].verdict
    <2>1. delivery[d] \in DeliveryRecords /\ p \in DeliveryPoints
      BY <1>1, <1>2 DEF DeliveryPoints
    <2> QED BY ONLY <2>1, MovedFields
  <1> HIDE DEF r
  <1>4. /\ delivery' \in [Deliveries -> DeliveryRecords] /\ delivery'[d] = r
        /\ \A x \in Deliveries \ {d} : delivery'[x] = delivery[x]
    BY <1>1, <1>2, <1>3
  <1>5. \A x \in Deliveries : /\ delivery'[x].key = delivery[x].key /\ delivery'[x].life = delivery[x].life
                              /\ delivery'[x].after = delivery[x].after
                              /\ delivery'[x].verdict = delivery[x].verdict
                              /\ (x # d => delivery'[x].pc = delivery[x].pc)
    BY <1>3, <1>4
  <1>6. VerdictTypeOK'
    BY <1>1, <1>4, VerdictTypes DEF VerdictIInv, VerdictTypeOK, DeliveryRecords
  <1>7. StoredWasAnswered'
    BY <1>1, <1>5 DEF VerdictIInv, StoredWasAnswered
  <1>8. AnswerIsStored' /\ UnderWay'
    BY <1>1, <1>2, <1>3, <1>4, <1>5 DEF VerdictIInv, AnswerIsStored, UnderWay
  <1>9. VerdictHasOwner'
    BY <1>1, <1>5 DEF VerdictIInv, VerdictHasOwner
  <1>10. OwnVerdictIsFirst'
    <2>1. \A e \in Deliveries : delivery[e].after \subseteq Deliveries
      BY <1>1 DEF DeliveryRecords
    <2> QED BY <1>1, <1>5, <2>1 DEF VerdictIInv, OwnVerdictIsFirst
  <1> QED BY <1>6, <1>7, <1>8, <1>9, <1>10 DEF VerdictIInv

LEMMA LookUpKeeps ==
  ASSUME VerdictIInv, NEW d \in Deliveries, NEW k \in CacheKeys, LookUpVerdict(d, k)
  PROVE  VerdictIInv'
  <1> DEFINE before == {x \in Deliveries : delivery[x].verdict # Unanswered /\ delivery[x].pc = "answered"}
             p == IF verdictOf[k] = Unanswered THEN "evaluating" ELSE "answered"
             r == [delivery[d] EXCEPT !.key = k, !.life = restarts, !.after = before, !.pc = p,
                                      !.verdict = verdictOf[k]]
  <1>1. /\ delivery \in [Deliveries -> DeliveryRecords] /\ UNCHANGED <<verdictOf, restarts>>
        /\ verdictOf[k] \in AnswersGiven /\ restarts \in 0 .. MaxRestarts
        /\ delivery[d].pc = "sent" /\ before \in SUBSET Deliveries
    BY VerdictTypes DEF VerdictIInv, LookUpVerdict
  <1>2. delivery' = [delivery EXCEPT ![d] = r]
    BY DEF LookUpVerdict
  <1>3. p \in {"evaluating", "answered"} /\ (p = "evaluating" <=> verdictOf[k] = Unanswered)
    OBVIOUS
  <1>4. \A x \in before : /\ x \in Deliveries /\ x # d /\ delivery[x].pc = "answered"
                          /\ delivery[x].verdict # Unanswered
    BY <1>1
  <1> HIDE DEF p, before
  <1>5. /\ r \in DeliveryRecords /\ r.key = k /\ r.life = restarts /\ r.after = before /\ r.pc = p
        /\ r.verdict = verdictOf[k]
    <2>1. delivery[d] \in DeliveryRecords /\ p \in DeliveryPoints
      BY <1>1, <1>3 DEF DeliveryPoints
    <2>2. /\ verdictOf[k] \in AnswersGiven /\ restarts \in 0 .. MaxRestarts
          /\ before \in SUBSET Deliveries /\ k \in CacheKeys
      BY <1>1
    <2> DEFINE y == delivery[d]
               v == verdictOf[k]
               l == restarts
    <2>3. /\ y \in DeliveryRecords /\ p \in DeliveryPoints /\ v \in AnswersGiven
          /\ l \in 0 .. MaxRestarts /\ before \in SUBSET Deliveries /\ k \in CacheKeys
          /\ r = [y EXCEPT !.key = k, !.life = l, !.after = before, !.pc = p, !.verdict = v]
      BY <2>1, <2>2
    <2> HIDE DEF y, v, l, r
    <2>4. /\ r \in DeliveryRecords /\ r.key = k /\ r.life = l /\ r.after = before /\ r.pc = p
          /\ r.verdict = v
      BY <2>3 DEF DeliveryRecords, DeliveryPoints
    <2> QED BY <2>4 DEF v, l
  <1> HIDE DEF r
  <1>6. /\ delivery' \in [Deliveries -> DeliveryRecords] /\ delivery'[d] = r
        /\ \A x \in Deliveries \ {d} : delivery'[x] = delivery[x]
    BY <1>1, <1>2, <1>5
  <1>7. VerdictTypeOK'
    BY <1>1, <1>6, VerdictTypes DEF VerdictIInv, VerdictTypeOK, DeliveryRecords
  <1>8. StoredWasAnswered'
    <2>1. \A j \in CacheKeys : verdictOf[j] # Unanswered => verdictOf[j].by # d
      BY <1>1 DEF VerdictIInv, StoredWasAnswered
    <2> QED BY <1>1, <1>6, <2>1 DEF VerdictIInv, StoredWasAnswered
  <1>9. AnswerIsStored'
    <2>1. restarts <= restarts
      BY <1>1, VerdictAssumption
    <2>2. \A x \in Deliveries \ {d} :
            /\ delivery'[x].life <= restarts'
            /\ (/\ delivery'[x].pc = "answered" /\ delivery'[x].verdict # Unanswered
                /\ delivery'[x].life = restarts') => verdictOf'[delivery'[x].key] # Unanswered
      BY <1>1, <1>6 DEF VerdictIInv, AnswerIsStored
    <2>3. /\ delivery'[d].life <= restarts'
          /\ delivery'[d].verdict # Unanswered => verdictOf'[delivery'[d].key] # Unanswered
      BY <1>1, <1>5, <1>6, <2>1
    <2> QED BY <2>2, <2>3 DEF AnswerIsStored
  <1>10. UnderWay'
    BY <1>1, <1>3, <1>5, <1>6 DEF VerdictIInv, UnderWay
  <1>11. VerdictHasOwner'
    <2> SUFFICES ASSUME NEW e \in Deliveries, delivery'[e].verdict # Unanswered,
                        delivery'[e].verdict.by # e
                 PROVE  LET x == delivery'[e].verdict.by
                        IN /\ x \in Deliveries /\ delivery'[x].verdict = delivery'[e].verdict
                           /\ delivery'[x].key = delivery'[e].key
                           /\ delivery'[x].life = delivery'[e].life
                           /\ delivery'[x].pc = "answered"
      BY DEF VerdictHasOwner
    <2>1. CASE e = d
      <3>1. LET x == verdictOf[k].by
            IN /\ x \in Deliveries /\ x # d /\ delivery[x].pc = "answered" /\ delivery[x].key = k
               /\ delivery[x].verdict = verdictOf[k] /\ delivery[x].life = restarts
        BY <1>1, <1>5, <1>6, <2>1 DEF VerdictIInv, StoredWasAnswered
      <3> QED BY <1>5, <1>6, <2>1, <3>1
    <2>2. CASE e # d
      <3>1. LET x == delivery[e].verdict.by
            IN /\ x \in Deliveries /\ delivery[x].verdict = delivery[e].verdict
               /\ delivery[x].key = delivery[e].key /\ delivery[x].life = delivery[e].life
               /\ delivery[x].pc = "answered" /\ x # d
        BY <1>1, <1>6, <2>2 DEF VerdictIInv, VerdictHasOwner
      <3> QED BY <1>6, <2>2, <3>1
    <2> QED BY <2>1, <2>2
  <1>12. OwnVerdictIsFirst'
    <2> SUFFICES ASSUME NEW e \in Deliveries, NEW x \in delivery'[e].after
                 PROVE  /\ delivery'[x].pc = "answered"
                        /\ delivery'[e].verdict = Unanswered \/ delivery'[e].verdict.by = e =>
                             ~(delivery'[x].key = delivery'[e].key
                               /\ delivery'[x].life = delivery'[e].life)
      BY DEF OwnVerdictIsFirst
    <2>1. CASE e = d
      <3>1. x \in before
        BY <1>5, <1>6, <2>1
      <3>2. x \in Deliveries /\ x # d /\ delivery'[x] = delivery[x] /\ delivery[x].pc = "answered"
            /\ delivery[x].verdict # Unanswered
        BY <1>4, <1>6, <3>1
      <3>3. delivery[x].key = k /\ delivery[x].life = restarts => verdictOf[k] # Unanswered
        BY <3>2 DEF VerdictIInv, AnswerIsStored
      <3>4. verdictOf[k] # Unanswered => verdictOf[k].by # d
        BY <1>1 DEF VerdictIInv, StoredWasAnswered
      <3> QED BY <1>5, <1>6, <2>1, <3>2, <3>3, <3>4
    <2>2. CASE e # d
      <3>1. delivery'[e] = delivery[e] /\ delivery[e] \in DeliveryRecords
        BY <1>1, <1>6, <2>2
      <3>2. x \in Deliveries /\ delivery[x].pc = "answered"
            /\ (delivery[e].verdict = Unanswered \/ delivery[e].verdict.by = e =>
                  ~(delivery[x].key = delivery[e].key /\ delivery[x].life = delivery[e].life))
        BY <3>1 DEF VerdictIInv, OwnVerdictIsFirst, DeliveryRecords
      <3>3. delivery'[x] = delivery[x]
        BY <1>1, <1>6, <3>2
      <3> QED BY <3>1, <3>2, <3>3
    <2> QED BY <2>1, <2>2
  <1> QED BY <1>7, <1>8, <1>9, <1>10, <1>11, <1>12 DEF VerdictIInv

LEMMA EvaluateKeeps ==
  ASSUME VerdictIInv, NEW d \in Deliveries, NEW a \in Actions, EvaluateDelivery(d, a)
  PROVE  VerdictIInv'
  <1> DEFINE v == [by |-> d, action |-> a]
             r == [delivery[d] EXCEPT !.pc = "evaluated", !.verdict = v]
  <1>1. /\ delivery \in [Deliveries -> DeliveryRecords] /\ UNCHANGED <<verdictOf, restarts>>
        /\ delivery[d].pc = "evaluating" /\ delivery[d].verdict = Unanswered
        /\ delivery[d].life = restarts
    BY VerdictTypes DEF VerdictIInv, EvaluateDelivery, UnderWay
  <1>2. delivery' = [delivery EXCEPT ![d] = r]
    BY DEF EvaluateDelivery
  <1>3. v \in AnswersGiven /\ v # Unanswered /\ v.by = d /\ v.action \in Actions
    BY VerdictTypes
  <1> HIDE DEF v
  <1>4. /\ r \in DeliveryRecords /\ r.pc = "evaluated" /\ r.verdict = v /\ r.key = delivery[d].key
        /\ r.life = delivery[d].life /\ r.after = delivery[d].after
    <2>1. delivery[d] \in DeliveryRecords /\ "evaluated" \in DeliveryPoints
      BY <1>1 DEF DeliveryPoints
    <2>2. v \in AnswersGiven
      BY <1>3
    <2> QED BY ONLY ZenonT(60), <2>1, <2>2, JudgedFields
  <1> HIDE DEF r
  <1>5. /\ delivery' \in [Deliveries -> DeliveryRecords] /\ delivery'[d] = r
        /\ \A x \in Deliveries \ {d} : delivery'[x] = delivery[x]
    BY <1>1, <1>2, <1>4
  <1>6. VerdictTypeOK'
    BY <1>1, <1>5, VerdictTypes DEF VerdictIInv, VerdictTypeOK, DeliveryRecords
  <1>7. StoredWasAnswered'
    <2>1. \A j \in CacheKeys : verdictOf[j] # Unanswered => verdictOf[j].by # d
      BY <1>1 DEF VerdictIInv, StoredWasAnswered
    <2> QED BY <1>1, <1>5, <2>1 DEF VerdictIInv, StoredWasAnswered
  <1>8. AnswerIsStored' /\ UnderWay'
    BY <1>1, <1>3, <1>4, <1>5 DEF VerdictIInv, AnswerIsStored, UnderWay
  <1>9. VerdictHasOwner'
    <2> SUFFICES ASSUME NEW e \in Deliveries, delivery'[e].verdict # Unanswered,
                        delivery'[e].verdict.by # e
                 PROVE  LET x == delivery'[e].verdict.by
                        IN /\ x \in Deliveries /\ delivery'[x].verdict = delivery'[e].verdict
                           /\ delivery'[x].key = delivery'[e].key
                           /\ delivery'[x].life = delivery'[e].life
                           /\ delivery'[x].pc = "answered"
      BY DEF VerdictHasOwner
    <2>1. e # d
      BY <1>3, <1>4, <1>5
    <2>2. LET x == delivery[e].verdict.by
          IN /\ x \in Deliveries /\ delivery[x].verdict = delivery[e].verdict
             /\ delivery[x].key = delivery[e].key /\ delivery[x].life = delivery[e].life
             /\ delivery[x].pc = "answered" /\ x # d
      BY <1>1, <1>5, <2>1 DEF VerdictIInv, VerdictHasOwner
    <2> QED BY <1>5, <2>1, <2>2
  <1>10. OwnVerdictIsFirst'
    <2> SUFFICES ASSUME NEW e \in Deliveries, NEW x \in delivery'[e].after
                 PROVE  /\ delivery'[x].pc = "answered"
                        /\ delivery'[e].verdict = Unanswered \/ delivery'[e].verdict.by = e =>
                             ~(delivery'[x].key = delivery'[e].key
                               /\ delivery'[x].life = delivery'[e].life)
      BY DEF OwnVerdictIsFirst
    <2>1. x \in delivery[e].after /\ x \in Deliveries
      BY <1>1, <1>4, <1>5 DEF DeliveryRecords
    <2>2. delivery[x].pc = "answered" /\ delivery'[x] = delivery[x]
      BY <1>1, <1>5, <2>1 DEF VerdictIInv, OwnVerdictIsFirst
    <2>3. delivery[e].verdict = Unanswered \/ delivery[e].verdict.by = e =>
            ~(delivery[x].key = delivery[e].key /\ delivery[x].life = delivery[e].life)
      BY <2>1 DEF VerdictIInv, OwnVerdictIsFirst
    <2>4. /\ delivery'[e].key = delivery[e].key /\ delivery'[e].life = delivery[e].life
          /\ delivery[e].verdict = Unanswered \/ delivery'[e].verdict = delivery[e].verdict
      BY <1>1, <1>4, <1>5
    <2> QED BY <2>2, <2>3, <2>4
  <1> QED BY <1>6, <1>7, <1>8, <1>9, <1>10 DEF VerdictIInv

LEMMA StoreKeeps ==
  ASSUME VerdictIInv, NEW d \in Deliveries, StoreVerdict(d)
  PROVE  VerdictIInv'
  <1> DEFINE k == delivery[d].key
             v == delivery[d].verdict
             r == [delivery[d] EXCEPT !.pc = "answered"]
  <1>1. /\ delivery \in [Deliveries -> DeliveryRecords] /\ verdictOf \in [CacheKeys -> AnswersGiven]
        /\ UNCHANGED restarts /\ delivery[d].pc = "evaluated" /\ delivery[d].life = restarts
        /\ v.by = d /\ v.action \in Actions
    BY VerdictTypes DEF VerdictIInv, StoreVerdict, UnderWay
  <1>2. delivery' = [delivery EXCEPT ![d] = r] /\ verdictOf' = [verdictOf EXCEPT ![k] = v]
    BY DEF StoreVerdict
  <1>3. v # Unanswered /\ v \in AnswersGiven /\ k \in CacheKeys
    BY <1>1 DEF Unanswered, Actions, DeliveryRecords
  <1>4. /\ r \in DeliveryRecords /\ r.pc = "answered" /\ r.verdict = v /\ r.key = k
        /\ r.life = delivery[d].life /\ r.after = delivery[d].after
    BY <1>1 DEF DeliveryRecords
  <1> HIDE DEF r
  <1>5. /\ delivery' \in [Deliveries -> DeliveryRecords] /\ delivery'[d] = r
        /\ \A x \in Deliveries \ {d} : delivery'[x] = delivery[x]
    BY <1>1, <1>2, <1>4
  <1>6. /\ verdictOf' \in [CacheKeys -> AnswersGiven] /\ verdictOf'[k] = v
        /\ \A j \in CacheKeys \ {k} : verdictOf'[j] = verdictOf[j]
    BY <1>1, <1>2, <1>3
  <1>7. \A x \in Deliveries : /\ delivery'[x].key = delivery[x].key /\ delivery'[x].life = delivery[x].life
                              /\ delivery'[x].after = delivery[x].after
                              /\ delivery'[x].verdict = delivery[x].verdict
                              /\ (x # d => delivery'[x].pc = delivery[x].pc)
    BY <1>4, <1>5
  <1>8. VerdictTypeOK'
    BY <1>1, <1>5, <1>6 DEF VerdictIInv, VerdictTypeOK, DeliveryRecords
  <1> HIDE DEF k, v
  <1>9. StoredWasAnswered'
    <2>1. ASSUME NEW j \in CacheKeys, verdictOf'[j] # Unanswered
          PROVE  LET x == verdictOf'[j].by
                 IN /\ x \in Deliveries /\ delivery'[x].pc = "answered" /\ delivery'[x].key = j
                    /\ delivery'[x].verdict = verdictOf'[j] /\ delivery'[x].life = restarts'
      <3>1. CASE j = k
        BY <1>1, <1>4, <1>5, <1>6, <3>1
      <3>2. CASE j # k
        <4>1. verdictOf'[j] = verdictOf[j]
          BY <1>6, <3>2
        <4>2. LET x == verdictOf[j].by
              IN /\ x \in Deliveries /\ delivery[x].pc = "answered" /\ delivery[x].key = j
                 /\ delivery[x].verdict = verdictOf[j] /\ delivery[x].life = restarts
          BY <2>1, <4>1 DEF VerdictIInv, StoredWasAnswered
        <4> QED BY <1>1, <1>5, <4>1, <4>2
      <3> QED BY <3>1, <3>2
    <2> QED BY <2>1 DEF StoredWasAnswered
  <1>10. AnswerIsStored'
    <2>1. \A x \in Deliveries : delivery[x].key \in CacheKeys
      BY <1>1 DEF DeliveryRecords
    <2>2. ASSUME NEW x \in Deliveries
          PROVE  /\ delivery'[x].life <= restarts'
                 /\ (/\ delivery'[x].pc = "answered" /\ delivery'[x].verdict # Unanswered
                     /\ delivery'[x].life = restarts') => verdictOf'[delivery'[x].key] # Unanswered
      <3>1. CASE delivery[x].key = k
        BY <1>1, <1>3, <1>6, <1>7, <3>1 DEF VerdictIInv, AnswerIsStored
      <3>2. CASE delivery[x].key # k
        <4>1. x # d
          BY <3>2 DEF k
        <4> QED BY <1>1, <1>6, <1>7, <2>1, <3>2, <4>1 DEF VerdictIInv, AnswerIsStored
      <3> QED BY <3>1, <3>2
    <2> QED BY <2>2 DEF AnswerIsStored
  <1>11. UnderWay'
    BY <1>1, <1>4, <1>5, <1>7 DEF VerdictIInv, UnderWay
  <1>12. VerdictHasOwner'
    BY <1>1, <1>7 DEF VerdictIInv, VerdictHasOwner
  <1>13. OwnVerdictIsFirst'
    <2>1. \A e \in Deliveries : delivery[e].after \subseteq Deliveries
      BY <1>1 DEF DeliveryRecords
    <2> QED BY <1>1, <1>7, <2>1 DEF VerdictIInv, OwnVerdictIsFirst
  <1> QED BY <1>8, <1>9, <1>10, <1>11, <1>12, <1>13 DEF VerdictIInv

LEMMA RestartKeeps ==
  ASSUME VerdictIInv, RestartAdapter
  PROVE  VerdictIInv'
  <1>1. /\ delivery \in [Deliveries -> DeliveryRecords] /\ restarts \in 0 .. MaxRestarts
        /\ restarts < MaxRestarts /\ restarts' = restarts + 1
        /\ verdictOf' = [k \in CacheKeys |-> Unanswered]
    BY VerdictTypes DEF VerdictIInv, RestartAdapter
  <1> DEFINE lost(d) == delivery[d].pc \in {"evaluating", "evaluated"}
             again(d) == [delivery[d] EXCEPT !.pc = "sent", !.verdict = Unanswered]
  <1>2. delivery' = [d \in Deliveries |-> IF lost(d) THEN again(d) ELSE delivery[d]]
    BY DEF RestartAdapter
  <1>3. ASSUME NEW d \in Deliveries
        PROVE  /\ again(d) \in DeliveryRecords /\ again(d).pc = "sent"
               /\ again(d).verdict = Unanswered /\ again(d).key = delivery[d].key
               /\ again(d).life = delivery[d].life /\ again(d).after = delivery[d].after
    <2>1. /\ delivery[d] \in DeliveryRecords /\ "sent" \in DeliveryPoints
          /\ Unanswered \in AnswersGiven
      BY <1>1, VerdictTypes DEF DeliveryPoints
    <2> QED BY ONLY ZenonT(60), <2>1, JudgedFields
  <1>4. \A d \in Deliveries :
          /\ delivery'[d] \in DeliveryRecords
          /\ delivery'[d].key = delivery[d].key /\ delivery'[d].life = delivery[d].life
          /\ delivery'[d].after = delivery[d].after
          /\ IF delivery[d].pc \in {"evaluating", "evaluated"}
               THEN delivery'[d].pc = "sent" /\ delivery'[d].verdict = Unanswered
               ELSE delivery'[d] = delivery[d]
    BY <1>1, <1>2, <1>3
  <1>5. \A k \in CacheKeys : verdictOf'[k] = Unanswered
    BY <1>1
  <1>6. VerdictTypeOK'
    <2>1. delivery' \in [Deliveries -> DeliveryRecords]
      BY <1>1, <1>2, <1>3
    <2>2. verdictOf' \in [CacheKeys -> AnswersGiven] /\ restarts' \in 0 .. MaxRestarts
      BY <1>1, VerdictTypes, VerdictAssumption
    <2> QED BY <2>1, <2>2 DEF VerdictTypeOK, DeliveryRecords
  <1>7. StoredWasAnswered'
    BY <1>5 DEF StoredWasAnswered
  <1>8. AnswerIsStored'
    <2>1. \A d \in Deliveries : delivery[d].life \in 0 .. MaxRestarts /\ delivery[d].life <= restarts
      BY <1>1 DEF DeliveryRecords, VerdictIInv, AnswerIsStored
    <2>2. \A d \in Deliveries : delivery[d].life <= restarts + 1 /\ delivery[d].life # restarts + 1
      BY <1>1, <2>1, VerdictAssumption
    <2> QED BY <1>1, <1>4, <2>2 DEF AnswerIsStored
  <1>9. UnderWay'
    BY <1>4 DEF VerdictIInv, UnderWay
  <1>10. VerdictHasOwner'
    <2> SUFFICES ASSUME NEW e \in Deliveries, delivery'[e].verdict # Unanswered,
                        delivery'[e].verdict.by # e
                 PROVE  LET x == delivery'[e].verdict.by
                        IN /\ x \in Deliveries /\ delivery'[x].verdict = delivery'[e].verdict
                           /\ delivery'[x].key = delivery'[e].key
                           /\ delivery'[x].life = delivery'[e].life
                           /\ delivery'[x].pc = "answered"
      BY DEF VerdictHasOwner
    <2>1. delivery'[e] = delivery[e]
      BY <1>4
    <2>2. LET x == delivery[e].verdict.by
          IN /\ x \in Deliveries /\ delivery[x].verdict = delivery[e].verdict
             /\ delivery[x].key = delivery[e].key /\ delivery[x].life = delivery[e].life
             /\ delivery[x].pc = "answered"
      BY <2>1 DEF VerdictIInv, VerdictHasOwner
    <2> QED BY <1>4, <2>1, <2>2
  <1>11. OwnVerdictIsFirst'
    <2> SUFFICES ASSUME NEW e \in Deliveries, NEW x \in delivery'[e].after
                 PROVE  /\ delivery'[x].pc = "answered"
                        /\ delivery'[e].verdict = Unanswered \/ delivery'[e].verdict.by = e =>
                             ~(delivery'[x].key = delivery'[e].key
                               /\ delivery'[x].life = delivery'[e].life)
      BY DEF OwnVerdictIsFirst
    <2>1. x \in delivery[e].after /\ x \in Deliveries
      BY <1>1, <1>4 DEF DeliveryRecords
    <2>2. delivery[x].pc = "answered" /\ delivery'[x] = delivery[x]
      BY <1>4, <2>1 DEF VerdictIInv, OwnVerdictIsFirst
    <2>3. delivery[e].verdict = Unanswered \/ delivery[e].verdict.by = e =>
            ~(delivery[x].key = delivery[e].key /\ delivery[x].life = delivery[e].life)
      BY <2>1 DEF VerdictIInv, OwnVerdictIsFirst
    <2>4. \/ delivery'[e].verdict = delivery[e].verdict
          \/ delivery[e].verdict = Unanswered \/ delivery[e].verdict.by = e
      BY <1>4 DEF VerdictIInv, UnderWay
    <2> QED BY <1>4, <2>2, <2>3, <2>4
  <1> QED BY <1>6, <1>7, <1>8, <1>9, <1>10, <1>11 DEF VerdictIInv

\* Of two answers in one life, the later is the earlier's, or that of a delivery that overlapped.
LEMMA VerdictSound == VerdictIInv => VerdictsStand
  <1> SUFFICES ASSUME VerdictIInv
               PROVE  VerdictsStand
    OBVIOUS
  <1>1. TwiceOnlyOverlapping
    <2> SUFFICES ASSUME NEW d \in Deliveries, NEW e \in Deliveries,
                        delivery[d].pc = "answered", delivery[e].pc = "answered",
                        delivery[d].key = delivery[e].key, delivery[d].life = delivery[e].life,
                        d \in delivery[e].after, delivery[e].verdict # delivery[d].verdict
                 PROVE  \E x \in Deliveries \ {d, e} :
                          /\ delivery[x].key = delivery[d].key /\ d \notin delivery[x].after
                          /\ delivery[x].verdict = delivery[e].verdict
      BY DEF TwiceOnlyOverlapping
    <2> DEFINE x == delivery[e].verdict.by
    <2>1. delivery[e].verdict # Unanswered /\ x # e
      BY DEF VerdictIInv, OwnVerdictIsFirst
    <2>2. /\ x \in Deliveries /\ delivery[x].verdict = delivery[e].verdict
          /\ delivery[x].key = delivery[e].key /\ delivery[x].life = delivery[e].life
      BY <2>1 DEF VerdictIInv, VerdictHasOwner
    <2>3. x # d
      BY <2>2
    <2>4. d \notin delivery[x].after
      BY <2>2 DEF VerdictIInv, OwnVerdictIsFirst
    <2> QED BY <2>1, <2>2, <2>3, <2>4
  <1> QED BY <1>1 DEF VerdictsStand, VerdictIInv

(* A verdict the payment webhook gave stands: a later delivery of the same  *)
(* event of the same payment is told the same, unless the two calls         *)
(* overlapped or the process restarted between them, for any number of      *)
(* deliveries, payments and restarts.                                       *)
THEOREM VerdictsAreKept == VerdictSpec => []VerdictsStand
  <1>1. VerdictInit => VerdictIInv
    BY VerdictInitIInv
  <1>2. VerdictIInv /\ [VerdictNext]_verdictVars => VerdictIInv'
    <2> SUFFICES ASSUME VerdictIInv, [VerdictNext]_verdictVars
                 PROVE  VerdictIInv'
      OBVIOUS
    <2>1. FallbackActions \subseteq Actions
      BY DEF FallbackActions, HeuristicAction, Actions
    <2>2. ASSUME NEW d \in Deliveries, NEW b \in Bodies, Refuse(d, b)
          PROVE  VerdictIInv'
      BY <2>2, RefuseKeeps
    <2>3. ASSUME NEW d \in Deliveries, NEW k \in CacheKeys, LookUpVerdict(d, k)
          PROVE  VerdictIInv'
      BY <2>3, LookUpKeeps
    <2>4. ASSUME NEW d \in Deliveries, NEW a \in Actions \cup FallbackActions, EvaluateDelivery(d, a)
          PROVE  VerdictIInv'
      BY <2>1, <2>4, EvaluateKeeps
    <2>5. ASSUME NEW d \in Deliveries, StoreVerdict(d)
          PROVE  VerdictIInv'
      BY <2>5, StoreKeeps
    <2>6. CASE UNCHANGED verdictVars
      BY <2>6
      DEF verdictVars, VerdictIInv, VerdictTypeOK, StoredWasAnswered, AnswerIsStored, UnderWay,
          VerdictHasOwner, OwnVerdictIsFirst
    <2> QED BY <2>2, <2>3, <2>4, <2>5, <2>6, RestartKeeps DEF VerdictNext
  <1>3. VerdictIInv => VerdictsStand
    BY VerdictSound
  <1> QED BY <1>1, <1>2, <1>3, PTL DEF VerdictSpec

-----------------------------------------------------------------------------
(* The token buckets. *)

(* What a bucket has given in the last ticks and what it could give now are *)
(* within the burst and the refill of those ticks: the property itself is   *)
(* not inductive, a full bucket that had given its all would break it.      *)
Budget ==
  \A o \in Owners, since \in 0 .. ticks :
    given[o] - givenBefore[o][since] + Refill(o) <= Capacity(o) + (ticks - since) * Rate(o)

\* A bucket that does not exist yet has given nothing.
UnusedGiveNothing == \A o \in Owners \ DOMAIN buckets : given[o] = 0

LimiterIInv == LimiterTypeOK /\ Budget /\ UnusedGiveNothing

LEMMA LimiterNumbers ==
  ASSUME LimiterTypeOK, NEW o \in Owners
  PROVE  /\ Capacity(o) \in Nat /\ Rate(o) \in Nat /\ ticks \in Nat
         /\ given[o] \in Nat /\ \A t \in 0 .. ticks : givenBefore[o][t] \in Nat
         /\ Refill(o) \in 0 .. Capacity(o)
  <1>1. Capacity(o) \in Nat /\ Rate(o) \in Nat /\ ticks \in Nat /\ MaxTicks \in Nat
    BY LimiterAssumption DEF LimiterTypeOK, Capacity, Rate
  <1>2. given[o] \in Nat /\ \A t \in 0 .. ticks : givenBefore[o][t] \in Nat
    BY <1>1 DEF LimiterTypeOK
  <1> DEFINE b == IF o \in DOMAIN buckets THEN buckets[o] ELSE NewBucket(o)
             n == b.tokens + (ticks - b.refilled) * Rate(o)
  <1>3. b.tokens \in 0 .. Capacity(o) /\ b.refilled \in 0 .. ticks
    BY <1>1 DEF LimiterTypeOK, NewBucket
  <1>4. (ticks - b.refilled) * Rate(o) \in Nat
    <2>1. \A i, k \in Nat : i * k \in Nat
      OBVIOUS
    <2>2. ticks - b.refilled \in Nat
      BY <1>1, <1>3
    <2> QED BY <1>1, <2>1, <2>2
  <1>5. Refill(o) = IF n > Capacity(o) THEN Capacity(o) ELSE n
    BY DEF Refill
  <1>6. n \in Nat
    BY <1>3, <1>4
  <1> HIDE DEF n
  <1> QED BY <1>1, <1>2, <1>5, <1>6

WithinCapacity == \A o \in Owners : Refill(o) \in 0 .. Capacity(o)

LEMMA RefillFits == LimiterTypeOK => WithinCapacity
  BY LimiterNumbers DEF WithinCapacity

\* A request finds what is left, and leaves it or one token less.
LEMMA BucketTaken ==
  ASSUME LimiterIInv, NEW o \in Owners, Take(o), Given(o), UNCHANGED <<ticks, givenBefore>>,
         asking' \in [Askers -> Tenants \cup {Nobody}]
  PROVE  LimiterIInv'
  <1> DEFINE n == Refill(o)
             left == IF n >= 1 THEN n - 1 ELSE n
  <1>1. /\ Capacity(o) \in Nat /\ n \in 0 .. Capacity(o) /\ left \in 0 .. Capacity(o)
        /\ ticks \in Nat /\ given[o] \in Nat /\ Rate(o) \in Nat
    BY LimiterNumbers DEF LimiterIInv
  <1>2. buckets' = [x \in DOMAIN buckets \cup {o} |->
                      IF x = o THEN [tokens |-> left, refilled |-> ticks] ELSE buckets[x]]
    BY DEF Take
  <1>3. given' = IF n >= 1 THEN [given EXCEPT ![o] = given[o] + 1] ELSE given
    BY DEF Given
  <1>4. LimiterTypeOK'
    <2>1. given' \in [Owners -> Nat]
      BY <1>1, <1>3 DEF LimiterIInv, LimiterTypeOK
    <2>2. \A x \in DOMAIN buckets' : buckets'[x] \in [tokens : 0 .. Capacity(x), refilled : 0 .. ticks]
      BY <1>1, <1>2 DEF LimiterIInv, LimiterTypeOK
    <2>3. Global \in DOMAIN buckets' /\ DOMAIN buckets' \subseteq Owners
      BY <1>2 DEF LimiterIInv, LimiterTypeOK
    <2> QED BY <2>1, <2>2, <2>3 DEF LimiterIInv, LimiterTypeOK, Capacity
  <1>5. Refill(o)' = left
    <2>1. o \in DOMAIN buckets' /\ buckets'[o].tokens = left /\ buckets'[o].refilled = ticks
      BY <1>2
    <2>2. Refill(o)' = IF left + (ticks - ticks) * Rate(o) > Capacity(o) THEN Capacity(o)
                       ELSE left + (ticks - ticks) * Rate(o)
      BY <2>1 DEF Refill, Capacity, Rate
    <2>3. (ticks - ticks) * Rate(o) = 0
      BY <1>1
    <2> HIDE DEF left
    <2> QED BY <1>1, <2>2, <2>3
  <1>6. \A x \in Owners \ {o} : Refill(x)' = Refill(x) /\ given'[x] = given[x]
    BY <1>2, <1>3 DEF Refill, NewBucket, Capacity, Rate, LimiterIInv, LimiterTypeOK
  <1>7. Budget'
    <2> SUFFICES ASSUME NEW x \in Owners, NEW since \in 0 .. ticks
                 PROVE  given'[x] - givenBefore[x][since] + Refill(x)'
                          <= Capacity(x) + (ticks - since) * Rate(x)
      BY DEF Budget, Capacity, Rate
    <2>1. given[x] - givenBefore[x][since] + Refill(x) <= Capacity(x) + (ticks - since) * Rate(x)
      BY DEF LimiterIInv, Budget
    <2>2. CASE x # o
      BY <1>6, <2>1, <2>2
    <2>3. CASE x = o
      <3>1. given'[o] + left = given[o] + n
        BY <1>1, <1>3 DEF LimiterIInv, LimiterTypeOK
      <3>2. given'[o] \in Nat /\ givenBefore[o][since] \in Nat
        BY <1>4, LimiterNumbers DEF LimiterTypeOK, LimiterIInv
      <3>3. given'[o] - givenBefore[o][since] + left = given[o] - givenBefore[o][since] + n
        <4> HIDE DEF left, n
        <4> QED BY <1>1, <3>1, <3>2
      <3> QED BY <1>5, <2>1, <2>3, <3>3
    <2> QED BY <2>2, <2>3
  <1>8. UnusedGiveNothing'
    BY <1>2, <1>6 DEF LimiterIInv, UnusedGiveNothing
  <1> QED BY <1>4, <1>7, <1>8 DEF LimiterIInv

\* A tick brings a bucket at most its rate.
LEMMA TickPasses ==
  ASSUME LimiterIInv, LimiterTicks
  PROVE  LimiterIInv'
  <1>0. ticks \in Nat /\ MaxTicks \in Nat /\ ticks < MaxTicks /\ ticks' = ticks + 1
    BY LimiterAssumption DEF LimiterIInv, LimiterTypeOK, LimiterTicks
  <1>1. buckets' = buckets /\ asking' = asking /\ given' = given
    BY DEF LimiterTicks
  <1>2. /\ givenBefore' \in [Owners -> [0 .. MaxTicks -> Nat]]
        /\ \A o \in Owners : /\ givenBefore'[o][ticks + 1] = given[o]
                             /\ \A t \in 0 .. ticks : givenBefore'[o][t] = givenBefore[o][t]
    BY <1>0 DEF LimiterTicks, LimiterIInv, LimiterTypeOK
  <1>3. LimiterTypeOK'
    <2>1. ticks' \in 0 .. MaxTicks
      BY <1>0
    <2>2. \A o \in DOMAIN buckets : buckets[o] \in [tokens : 0 .. Capacity(o), refilled : 0 .. ticks + 1]
      <3>1. 0 .. ticks \subseteq 0 .. ticks + 1
        BY <1>0
      <3>2. \A o \in DOMAIN buckets : buckets[o] \in [tokens : 0 .. Capacity(o), refilled : 0 .. ticks]
        BY DEF LimiterIInv, LimiterTypeOK
      <3> QED BY <3>1, <3>2
    <2> QED BY <1>0, <1>1, <1>2, <2>1, <2>2 DEF LimiterIInv, LimiterTypeOK, Capacity
  <1>4. ASSUME NEW o \in Owners PROVE Refill(o)' <= Refill(o) + Rate(o) /\ Refill(o)' \in 0 .. Capacity(o)
    <2>1. Refill(o)' \in 0 .. Capacity(o) /\ Refill(o) \in 0 .. Capacity(o) /\ Capacity(o) \in Nat /\ Rate(o) \in Nat
      <3>1. WithinCapacity'
        BY <1>3, RefillFits, PTL
      <3>2. (0 .. Capacity(o))' = 0 .. Capacity(o)
        BY DEF Capacity
      <3> QED BY <3>1, <3>2, LimiterNumbers DEF LimiterIInv, WithinCapacity
    <2>2. CASE o \in DOMAIN buckets
      <3>1. buckets[o].tokens \in Nat /\ buckets[o].refilled \in 0 .. ticks
        <4>1. buckets[o] \in [tokens : 0 .. Capacity(o), refilled : 0 .. ticks]
          BY <2>2 DEF LimiterIInv, LimiterTypeOK
        <4> QED BY <4>1
      <3> DEFINE m == (ticks - buckets[o].refilled) * Rate(o)
      <3>2. m \in Int /\ (ticks + 1 - buckets[o].refilled) * Rate(o) = m + Rate(o)
        <4>1. \A i \in Int, k \in Nat : i * k \in Int /\ (i + 1) * k = i * k + k
          OBVIOUS
        <4>2. /\ ticks - buckets[o].refilled \in Int
              /\ ticks + 1 - buckets[o].refilled = (ticks - buckets[o].refilled) + 1
          BY <1>0, <3>1
        <4> QED BY <2>1, <4>1, <4>2
      <3> DEFINE l == buckets[o].tokens + m
                 h == buckets[o].tokens + (ticks + 1 - buckets[o].refilled) * Rate(o)
      <3>3. Refill(o) = IF l > Capacity(o) THEN Capacity(o) ELSE l
        BY <2>2 DEF Refill
      <3>4. Refill(o)' = IF h > Capacity(o) THEN Capacity(o) ELSE h
        <4>1. Capacity(o)' = Capacity(o) /\ Rate(o)' = Rate(o)
          BY DEF Capacity, Rate
        <4> QED BY <1>0, <1>1, <2>1, <2>2, <3>1, <4>1 DEF Refill
      <3>5. l \in Int /\ h = l + Rate(o)
        <4> HIDE DEF m
        <4> QED BY <2>1, <3>1, <3>2
      <3> HIDE DEF l, h
      <3> QED BY <2>1, <3>3, <3>4, <3>5
    <2>3. CASE o \notin DOMAIN buckets
      <3>1. Refill(o) = IF Capacity(o) + (ticks - ticks) * Rate(o) > Capacity(o) THEN Capacity(o)
                        ELSE Capacity(o) + (ticks - ticks) * Rate(o)
        BY <2>3 DEF Refill, NewBucket
      <3>2. (ticks - ticks) * Rate(o) = 0
        BY <1>0, <2>1
      <3>3. Refill(o) = Capacity(o)
        BY <2>1, <3>1, <3>2
      <3> QED BY <2>1, <3>3
    <2> QED BY <2>2, <2>3
  <1>5. Budget'
    <2> SUFFICES ASSUME NEW o \in Owners, NEW since \in 0 .. ticks + 1
                 PROVE  given[o] - givenBefore'[o][since] + Refill(o)'
                          <= Capacity(o) + (ticks + 1 - since) * Rate(o)
      BY <1>0, <1>1 DEF Budget, Capacity, Rate
    <2>1. Capacity(o) \in Nat /\ Rate(o) \in Nat /\ given[o] \in Nat /\ Refill(o) \in Nat /\ Refill(o)' \in Nat
      BY <1>3, <1>4, LimiterNumbers DEF LimiterIInv
    <2>2. CASE since = ticks + 1
      <3>1. given[o] - givenBefore'[o][since] = 0
        BY <1>2, <2>1, <2>2
      <3>2. (ticks + 1 - since) * Rate(o) = 0
        BY <1>0, <2>1, <2>2
      <3> QED BY <1>4, <2>1, <3>1, <3>2
    <2>3. CASE since # ticks + 1
      <3>1. since \in 0 .. ticks /\ givenBefore'[o][since] = givenBefore[o][since]
        BY <1>0, <1>2, <2>3
      <3>2. givenBefore[o][since] \in Nat
        BY <3>1, LimiterNumbers DEF LimiterIInv
      <3> DEFINE m == (ticks - since) * Rate(o)
      <3>3. m \in Int /\ (ticks + 1 - since) * Rate(o) = m + Rate(o)
        <4>1. \A i \in Int, k \in Nat : i * k \in Int /\ (i + 1) * k = i * k + k
          OBVIOUS
        <4>2. ticks - since \in Int /\ ticks + 1 - since = (ticks - since) + 1
          BY <1>0, <3>1
        <4> QED BY <2>1, <4>1, <4>2
      <3>4. given[o] - givenBefore[o][since] + Refill(o) <= Capacity(o) + m
        BY <3>1 DEF LimiterIInv, Budget
      <3> HIDE DEF m
      <3> QED BY <1>4, <2>1, <3>1, <3>2, <3>3, <3>4
    <2> QED BY <2>2, <2>3
  <1>6. UnusedGiveNothing'
    BY <1>1 DEF LimiterIInv, UnusedGiveNothing
  <1> QED BY <1>3, <1>5, <1>6 DEF LimiterIInv

(* In no stretch of time does a tenant, or the platform, get more requests  *)
(* through than its burst and its refill allow, for every rate and burst    *)
(* and however requests interleave between the two locks (rate_limiter.go,  *)
(* allow and AllowN).                                                       *)
THEOREM LimitsAreKept == LimiterSpec => []LimitsHold
  <1>1. LimiterInit => LimiterIInv
    <2> SUFFICES ASSUME LimiterInit PROVE LimiterIInv
      OBVIOUS
    <2>1. LimiterTypeOK
      BY LimiterAssumption DEF LimiterInit, LimiterTypeOK, Owners, Capacity, Global
    <2>2. Budget
      <3> SUFFICES ASSUME NEW o \in Owners, NEW since \in 0 .. ticks
                   PROVE  given[o] - givenBefore[o][since] + Refill(o)
                            <= Capacity(o) + (ticks - since) * Rate(o)
        BY DEF Budget
      <3>1. ticks = 0 /\ since = 0 /\ given[o] = 0 /\ givenBefore[o][0] = 0
        BY LimiterAssumption DEF LimiterInit
      <3>2. Refill(o) \in 0 .. Capacity(o) /\ Capacity(o) \in Nat /\ Rate(o) \in Nat
        BY <2>1, LimiterNumbers
      <3> QED BY <3>1, <3>2
    <2> QED BY <2>1, <2>2 DEF LimiterIInv, UnusedGiveNothing, LimiterInit
  <1>2. LimiterIInv /\ [LimiterNext]_limiterVars => LimiterIInv'
    <2> SUFFICES ASSUME LimiterIInv, [LimiterNext]_limiterVars PROVE LimiterIInv'
      OBVIOUS
    <2>1. ASSUME NEW r \in Askers, NEW t \in Tenants, AskGlobal(r, t) PROVE LimiterIInv'
      <3>1. asking' \in [Askers -> Tenants \cup {Nobody}]
        BY <2>1 DEF AskGlobal, LimiterIInv, LimiterTypeOK
      <3> QED BY <2>1, <3>1, BucketTaken DEF AskGlobal, Owners
    <2>2. ASSUME NEW r \in Askers, AskTenant(r) PROVE LimiterIInv'
      <3>1. asking[r] \in Owners /\ asking' \in [Askers -> Tenants \cup {Nobody}]
        BY <2>2 DEF AskTenant, LimiterIInv, LimiterTypeOK, Owners
      <3> QED BY <2>2, <3>1, BucketTaken DEF AskTenant
    <2>3. CASE UNCHANGED limiterVars
      BY <2>3 DEF limiterVars, LimiterIInv, LimiterTypeOK, Budget, UnusedGiveNothing, Refill, NewBucket
    <2> QED BY <2>1, <2>2, <2>3, TickPasses DEF LimiterNext
  <1>3. LimiterIInv => LimitsHold
    <2> SUFFICES ASSUME LimiterIInv, NEW o \in Owners, NEW since \in 0 .. ticks
                 PROVE  given[o] - givenBefore[o][since] <= Capacity(o) + (ticks - since) * Rate(o)
      BY DEF LimiterIInv, LimitsHold, NoOverspending
    <2>1. /\ given[o] - givenBefore[o][since] + Refill(o) <= Capacity(o) + (ticks - since) * Rate(o)
          /\ Refill(o) \in Nat /\ given[o] - givenBefore[o][since] \in Int
          /\ Capacity(o) \in Nat /\ Rate(o) \in Nat /\ ticks \in Nat
      BY LimiterNumbers DEF LimiterIInv, Budget
    <2>2. (ticks - since) * Rate(o) \in Int
      BY <2>1
    <2> QED BY <2>1, <2>2
  <1> QED BY <1>1, <1>2, <1>3, PTL DEF LimiterSpec

-----------------------------------------------------------------------------
(* Review cases. *)

CaseRows ==
  [review : Reviews \cup {NoReview},
   status : {"NONE", "OPEN", "UNDER_REVIEW", "RESOLVED_ALLOW", "RESOLVED_DECLINE"},
   assigned : CaseAnalysts \cup {Unassigned}, resolved : BOOLEAN]

Overlapped(r) == <<r, "overlap">> \in caseLosses

\* Two pods at work on one event know of no case, and one of them found the other there.
ConsumersOverlap ==
  \A c, d \in CaseConsumers :
    c # d /\ consuming[c] = consuming[d] /\ consuming[c] # NoReview => Overlapped(consuming[c])

\* A pod that is about to insert a second case overlapped with the one that inserted the first.
InsertersOverlap ==
  \A c \in CaseConsumers, i \in CaseIds :
    consuming[c] # NoReview /\ caseRow[i].review = consuming[c] => Overlapped(consuming[c])

\* OneCasePerReview without counting.
CasesOverlap ==
  \A i, k \in CaseIds :
    i # k /\ caseRow[i].review = caseRow[k].review /\ caseRow[i].review # NoReview
      => Overlapped(caseRow[i].review)

CaseIInv == CaseTypeOK /\ ConsumersOverlap /\ InsertersOverlap /\ CasesOverlap /\ ResolvedBySomebody

\* A claim or a resolution touches one row, and not its review.
LEMMA OneRow ==
  ASSUME CaseIInv, NEW i \in CaseIds, NEW x \in CaseRows,
         caseRow' = [caseRow EXCEPT ![i] = x], StepOf(i), UNCHANGED <<reads, committed, consuming, caseLosses>>,
         x.review = caseRow[i].review, x.assigned # Unassigned
  PROVE  CaseIInv'
  <1>0. /\ caseRow \in [CaseIds -> CaseRows] /\ CaseTypeOK
        /\ ConsumersOverlap /\ InsertersOverlap /\ CasesOverlap /\ ResolvedBySomebody
    BY DEF CaseIInv, CaseTypeOK, CaseRows
  <1>1. \A k \in CaseIds : /\ caseRow'[k].review = caseRow[k].review
                           /\ k # i => caseRow'[k] = caseRow[k]
                           /\ caseRow'[i] = x
    BY <1>0
  <1>2. caseSteps' \in [CaseIds -> 0 .. MaxCaseSteps]
    BY <1>0, CaseAssumption DEF CaseTypeOK, StepOf
  <1>3. caseRow' \in [CaseIds -> CaseRows]
    BY <1>0
  <1>4. CaseTypeOK'
    BY <1>0, <1>2, <1>3 DEF CaseTypeOK, CaseRows
  <1>5. ConsumersOverlap'
    BY <1>0 DEF ConsumersOverlap, Overlapped
  <1>6. InsertersOverlap'
    BY <1>0, <1>1 DEF InsertersOverlap, Overlapped
  <1>7. CasesOverlap'
    BY <1>0, <1>1 DEF CasesOverlap, Overlapped
  <1>8. ResolvedBySomebody'
    BY <1>0, <1>1 DEF ResolvedBySomebody
  <1> QED BY <1>4, <1>5, <1>6, <1>7, <1>8 DEF CaseIInv

LEMMA CaseStep ==
  ASSUME CaseIInv, [CaseNext]_caseVars
  PROVE  CaseIInv'
  <1>0. /\ caseRow \in [CaseIds -> CaseRows] /\ CaseTypeOK
        /\ consuming \in [CaseConsumers -> Reviews \cup {NoReview}]
        /\ ConsumersOverlap /\ InsertersOverlap /\ CasesOverlap /\ ResolvedBySomebody
    BY DEF CaseIInv, CaseTypeOK, CaseRows
  <1>1. ASSUME NEW c \in CaseConsumers, NEW r \in Reviews, TakeEvent(c, r)
        PROVE  CaseIInv'
    <2>1. UNCHANGED <<caseRow, committed, caseSteps>>
      BY <1>1 DEF TakeEvent
    <2>2. reads' \in [Reviews -> 0 .. MaxReads]
      BY <1>0, <1>1, CaseAssumption DEF TakeEvent, CaseTypeOK
    <2>3. /\ caseLosses' \subseteq Reviews \X {"lost", "overlap"} /\ caseLosses \subseteq caseLosses'
          /\ (\E d \in CaseConsumers : consuming[d] = r) => <<r, "overlap">> \in caseLosses'
      BY <1>0, <1>1 DEF TakeEvent, CaseTypeOK
    <2>4. \/ consuming' = consuming
          \/ CasesOf(r) = {} /\ consuming' = [consuming EXCEPT ![c] = r]
      BY <1>1 DEF TakeEvent
    <2>5. CaseTypeOK'
      BY <1>0, <2>1, <2>2, <2>3, <2>4 DEF CaseTypeOK
    <2>6. ConsumersOverlap'
      BY <1>0, <2>3, <2>4 DEF ConsumersOverlap, Overlapped
    <2>7. InsertersOverlap'
      BY <1>0, <2>1, <2>3, <2>4 DEF InsertersOverlap, Overlapped, CasesOf
    <2>8. CasesOverlap' /\ ResolvedBySomebody'
      BY <1>0, <2>1, <2>3 DEF CasesOverlap, ResolvedBySomebody, Overlapped
    <2> QED BY <2>5, <2>6, <2>7, <2>8 DEF CaseIInv
  <1>2. ASSUME NEW c \in CaseConsumers, InsertCase(c)
        PROVE  CaseIInv'
    <2>1. PICK i \in CaseIds : caseRow[i] = NoCase /\ caseRow' = [caseRow EXCEPT ![i] = NewCase(consuming[c])]
      BY <1>2 DEF InsertCase
    <2>2. /\ consuming[c] \in Reviews /\ consuming[c] # NoReview
          /\ consuming' = [consuming EXCEPT ![c] = NoReview]
          /\ UNCHANGED <<reads, committed, caseSteps, caseLosses>>
      BY <1>0, <1>2 DEF InsertCase
    <2> DEFINE x == NewCase(consuming[c])
    <2>3. x \in CaseRows /\ x.review = consuming[c] /\ ~x.resolved
      BY <2>2 DEF NewCase, NoCase, CaseRows
    <2> HIDE DEF x
    <2>4. caseRow' \in [CaseIds -> CaseRows] /\ caseRow'[i] = x /\ \A k \in CaseIds \ {i} : caseRow'[k] = caseRow[k]
      BY <1>0, <2>1, <2>3 DEF x
    <2>5. CaseTypeOK'
      BY <1>0, <2>2, <2>4 DEF CaseTypeOK, CaseRows
    <2>6. ConsumersOverlap'
      BY <1>0, <2>2 DEF ConsumersOverlap, Overlapped
    <2>7. InsertersOverlap'
      BY <1>0, <2>2, <2>3, <2>4 DEF InsertersOverlap, ConsumersOverlap, Overlapped
    <2>8. CasesOverlap'
      BY <1>0, <2>2, <2>3, <2>4 DEF InsertersOverlap, CasesOverlap, Overlapped
    <2>9. ResolvedBySomebody'
      BY <1>0, <2>3, <2>4 DEF ResolvedBySomebody
    <2> QED BY <2>5, <2>6, <2>7, <2>8, <2>9 DEF CaseIInv
  <1>3. ASSUME NEW c \in CaseConsumers, LoseEvent(c)
        PROVE  CaseIInv'
    <2>1. /\ consuming[c] \in Reviews /\ consuming' = [consuming EXCEPT ![c] = NoReview]
          /\ caseLosses' = caseLosses \cup {<<consuming[c], "lost">>}
          /\ UNCHANGED <<caseRow, reads, committed, caseSteps>>
      BY <1>0, <1>3 DEF LoseEvent
    <2>2. CaseTypeOK'
      BY <1>0, <2>1 DEF CaseTypeOK
    <2>3. ConsumersOverlap' /\ InsertersOverlap'
      BY <1>0, <2>1 DEF ConsumersOverlap, InsertersOverlap, Overlapped
    <2>4. CasesOverlap' /\ ResolvedBySomebody'
      BY <1>0, <2>1 DEF CasesOverlap, ResolvedBySomebody, Overlapped
    <2> QED BY <2>2, <2>3, <2>4 DEF CaseIInv
  <1>4. ASSUME NEW r \in Reviews, CommitOffset(r)
        PROVE  CaseIInv'
    BY <1>4 DEF CommitOffset, CaseIInv, CaseTypeOK, ConsumersOverlap, InsertersOverlap, CasesOverlap,
       ResolvedBySomebody, Overlapped
  <1>5. ASSUME NEW i \in CaseIds, NEW a \in CaseAnalysts, ClaimCase(i, a)
        PROVE  CaseIInv'
    <2> DEFINE x == [caseRow[i] EXCEPT !.status = "UNDER_REVIEW", !.assigned = a]
    <2>1. x \in CaseRows /\ x.review = caseRow[i].review /\ x.assigned # Unassigned
      BY <1>0, CaseAssumption DEF CaseRows
    <2>2. caseRow' = [caseRow EXCEPT ![i] = x]
      BY <1>0, <1>5 DEF ClaimCase
    <2> HIDE DEF x
    <2> QED BY <1>5, <2>1, <2>2, OneRow DEF ClaimCase
  <1>6. ASSUME NEW i \in CaseIds, NEW a \in CaseAnalysts, NEW s \in {"RESOLVED_ALLOW", "RESOLVED_DECLINE"},
               ResolveCase(i, a, s)
        PROVE  CaseIInv'
    <2> DEFINE x == [caseRow[i] EXCEPT !.status = s, !.resolved = TRUE,
                                       !.assigned = IF @ = Unassigned THEN a ELSE @]
    <2>1. x \in CaseRows /\ x.review = caseRow[i].review /\ x.assigned # Unassigned
      BY <1>0, CaseAssumption DEF CaseRows
    <2>2. caseRow' = [caseRow EXCEPT ![i] = x]
      BY <1>0, <1>6 DEF ResolveCase
    <2> HIDE DEF x
    <2> QED BY <1>6, <2>1, <2>2, OneRow DEF ResolveCase
  <1>7. CASE UNCHANGED caseVars
    BY <1>7 DEF caseVars, CaseIInv, CaseTypeOK, ConsumersOverlap, InsertersOverlap, CasesOverlap,
       ResolvedBySomebody, Overlapped
  <1> QED BY <1>1, <1>2, <1>3, <1>4, <1>5, <1>6, <1>7 DEF CaseNext

(* The safety of ReviewsCovered, for every number of pods, events and       *)
(* redeliveries: a second case for a review is always the work of two pods  *)
(* that had the event at once, and a decided case always has an analyst     *)
(* (consumer.go, case_service.go).                                          *)
THEOREM CasesAreSingle == CaseSpec => [](OneCasePerReview /\ ResolvedBySomebody)
  <1>1. CaseInit => CaseIInv
    <2> SUFFICES ASSUME CaseInit PROVE CaseIInv
      OBVIOUS
    <2>1. CaseTypeOK
      BY CaseAssumption DEF CaseInit, CaseTypeOK, NoCase
    <2> QED BY <2>1 DEF CaseInit, NoCase, CaseIInv, ConsumersOverlap, InsertersOverlap, CasesOverlap,
            ResolvedBySomebody
  <1>2. CaseIInv /\ [CaseNext]_caseVars => CaseIInv'
    BY CaseStep
  <1>3. CaseIInv => OneCasePerReview /\ ResolvedBySomebody
    <2> SUFFICES ASSUME CaseIInv, NEW r \in Reviews, ~Overlapped(r)
                 PROVE  Cardinality(CasesOf(r)) \in {0, 1}
      BY DEF CaseIInv, OneCasePerReview, Overlapped
    <2>1. \A i, k \in CasesOf(r) : i = k
      BY CaseAssumption DEF CaseIInv, CasesOverlap, CasesOf
    <2>2. CASE CasesOf(r) = {}
      BY <2>2, FS_EmptySet
    <2>3. CASE CasesOf(r) # {}
      <3>1. PICK i : CasesOf(r) = {i}
        BY <2>1, <2>3
      <3>2. Cardinality({i}) = 1
        BY FS_Singleton
      <3> QED BY <3>1, <3>2
    <2> QED BY <2>2, <2>3
  <1> QED BY <1>1, <1>2, <1>3, PTL DEF CaseSpec

-----------------------------------------------------------------------------
(* Threat intelligence. *)

HasGreatest(S) == \E x \in S : \A y \in S : x >= y

LEMMA GreatestOfUnion ==
  ASSUME NEW S \in SUBSET Int, NEW T \in SUBSET Int, HasGreatest(S), T = {} \/ HasGreatest(T)
  PROVE  HasGreatest(S \cup T)
  <1>1. PICK x \in S : \A y \in S : x >= y
    BY DEF HasGreatest
  <1>2. CASE T = {}
    BY <1>1, <1>2 DEF HasGreatest
  <1>3. CASE HasGreatest(T)
    <2>1. PICK z \in T : \A y \in T : z >= y
      BY <1>3 DEF HasGreatest
    <2>2. x \in Int /\ z \in Int
      BY <1>1, <2>1
    <2>3. CASE x >= z
      <3>1. \A y \in S \cup T : x >= y
        BY <1>1, <2>1, <2>2, <2>3
      <3> QED BY <1>1, <3>1 DEF HasGreatest
    <2>4. CASE z >= x
      <3>1. \A y \in S \cup T : z >= y
        BY <1>1, <2>1, <2>2, <2>4
      <3> QED BY <2>1, <3>1 DEF HasGreatest
    <2> QED BY <2>2, <2>3, <2>4
  <1> QED BY <1>2, <1>3

LEMMA MaxOf ==
  ASSUME NEW S \in SUBSET Int, HasGreatest(S)
  PROVE  Max(S) \in S /\ \A y \in S : Max(S) >= y
  BY DEF HasGreatest, Max

FeedOK == DOMAIN feed \subseteq Addresses /\ \A ip \in DOMAIN feed : feed[ip] \in FeedScores \cup {95}

(* A report is on the scale, and the block of an address is counted even if *)
(* the address has a score of its own.                                      *)
LEMMA ReportOK ==
  ASSUME FeedOK, NEW ip \in Addresses, NEW device \in Fingerprints, NEW km, NEW minutes
  PROVE  LET report == EvaluateThreatContext(ip, device, km, minutes)
         IN report \in Reports /\ (SubnetOf(ip) \in ListedBlocks => report.score >= 85)
  <1> DEFINE s == SubnetOf(ip)
             impossible == km > 300 /\ Speed(km, minutes) > 900
             D == {DeviceScore[device]}
             P == {35 : x \in {s} \cap ProxySubnets}
             F == {feed[x] : x \in {ip} \cap DOMAIN feed}
             B == {85 : x \in {s} \cap ListedBlocks}
             I == IF impossible THEN {88} ELSE {}
  <1>1. DeviceScore[device] \in 0 .. 100
    BY DEF DeviceScore, Fingerprints
  <1>2. \A n \in 0 .. 100 : HasGreatest({n})
    BY DEF HasGreatest
  <1>3. D \subseteq 0 .. 100 /\ HasGreatest(D)
    BY <1>1, <1>2
  <1>4. P \subseteq 0 .. 100 /\ (P = {} \/ HasGreatest(P))
    <2>1. P = {} \/ P = {35}
      OBVIOUS
    <2>2. HasGreatest({35}) /\ {35} \subseteq 0 .. 100
      BY <1>2
    <2> HIDE DEF P
    <2> QED BY <2>1, <2>2
  <1>5. F \subseteq 0 .. 100 /\ (F = {} \/ HasGreatest(F))
    <2>1. CASE ip \in DOMAIN feed
      <3>1. F = {feed[ip]}
        BY <2>1
      <3>2. feed[ip] \in 0 .. 100
        <4>1. feed[ip] \in FeedScores \cup {95}
          BY <2>1 DEF FeedOK
        <4>2. FeedScores \subseteq 0 .. 100 /\ 95 \in 0 .. 100
          BY ThreatAssumption
        <4> QED BY <4>1, <4>2
      <3> HIDE DEF F
      <3> QED BY <1>2, <3>1, <3>2
    <2>2. CASE ip \notin DOMAIN feed
      BY <2>2
    <2> QED BY <2>1, <2>2
  <1>6. B \subseteq 0 .. 100 /\ (B = {} \/ HasGreatest(B)) /\ (s \in ListedBlocks => 85 \in B)
    <2>1. (s \in ListedBlocks /\ B = {85}) \/ (s \notin ListedBlocks /\ B = {})
      OBVIOUS
    <2>2. HasGreatest({85}) /\ {85} \subseteq 0 .. 100
      BY <1>2
    <2> HIDE DEF B, s
    <2> QED BY <2>1, <2>2
  <1>7. I \subseteq 0 .. 100 /\ (I = {} \/ HasGreatest(I))
    BY <1>2
  <1> HIDE DEF D, P, F, B, I
  <1> DEFINE S == D \cup P \cup (F \cup B) \cup I
  <1>8. HasGreatest(S)
    <2>1. HasGreatest(D \cup P) /\ D \cup P \subseteq Int
      BY <1>3, <1>4, GreatestOfUnion
    <2>2. F \cup B = {} \/ HasGreatest(F \cup B)
      <3>1. CASE F = {}
        BY <1>6, <3>1
      <3>2. CASE F # {}
        BY <1>5, <1>6, <3>2, GreatestOfUnion
      <3> QED BY <3>1, <3>2
    <2>3. F \cup B \subseteq Int /\ I \subseteq Int
      BY <1>5, <1>6, <1>7
    <2>4. HasGreatest(D \cup P \cup (F \cup B))
      BY <2>1, <2>2, <2>3, GreatestOfUnion
    <2> QED BY <1>7, <2>1, <2>3, <2>4, GreatestOfUnion
  <1>9. S \in SUBSET (0 .. 100) /\ S \in SUBSET Int
    BY <1>3, <1>4, <1>5, <1>6, <1>7
  <1>10. Max(S) \in 0 .. 100 /\ (s \in ListedBlocks => Max(S) >= 85)
    BY <1>6, <1>8, <1>9, MaxOf
  <1>11. EvaluateThreatContext(ip, device, km, minutes) =
           [proxy |-> s \in ProxySubnets, malicious |-> Scores(ip, s) # {},
            compromised |-> DeviceScore[device] > 0, impossible |-> impossible, score |-> Max(S)]
    BY DEF EvaluateThreatContext, Scores, D, P, F, B, I
  <1> HIDE DEF S, impossible
  <1>12. impossible \in BOOLEAN
    BY DEF impossible
  <1> QED BY <1>10, <1>11, <1>12 DEF Reports

(* However operators score single addresses, no payment from a listed block *)
(* is reported below the block, and every report is on the scale            *)
(* (threat_intelligence.go, EvaluateThreatContext).                         *)
THEOREM FeedsAlwaysHold == ThreatSpec => []FeedsHold
  <1> DEFINE Trip == [from : Addresses, device : Fingerprints, report : Reports]
  <1>1. ThreatInit => FeedsHold
    <2> SUFFICES ASSUME ThreatInit PROVE FeedsHold
      OBVIOUS
    <2>1. DOMAIN feed \subseteq Addresses /\ \A ip \in DOMAIN feed : feed[ip] \in FeedScores \cup {95}
      BY DEF ThreatInit, BaselineFeed, Addresses
    <2>2. <<>> \in Seq(Trip) /\ Len(<<>>) = 0 /\ DOMAIN <<>> = {}
      OBVIOUS
    <2> QED BY <2>1, <2>2, ThreatAssumption DEF ThreatInit, FeedsHold, ThreatTypeOK, ListedBlockFloor
  <1>2. FeedsHold /\ [ThreatNext]_threatVars => FeedsHold'
    <2> SUFFICES ASSUME FeedsHold, [ThreatNext]_threatVars PROVE FeedsHold'
      OBVIOUS
    <2>0. /\ FeedOK /\ trips \in [Customers -> Seq(Trip)]
          /\ \A c \in Customers : Len(trips[c]) <= MaxPayments
          /\ ListedBlockFloor
      BY DEF FeedsHold, ThreatTypeOK, FeedOK
    <2>1. ASSUME NEW ip \in Reported, NEW score \in FeedScores, AddMaliciousIP(ip, score)
          PROVE  FeedsHold'
      <3>1. FeedOK' /\ trips' = trips
        BY <2>0, <2>1, ThreatAssumption DEF AddMaliciousIP, FeedOK
      <3> QED BY <2>0, <3>1 DEF FeedsHold, ThreatTypeOK, FeedOK, ListedBlockFloor
    <2>2. ASSUME NEW c \in Customers, NEW ip \in Addresses, NEW device \in Fingerprints, Pay(c, ip, device)
          PROVE  FeedsHold'
      <3>1. PICK km : /\ trips' = [trips EXCEPT ![c] =
                             Append(trips[c], [from |-> ip, device |-> device,
                                               report |-> EvaluateThreatContext(ip, device, km, 12)])]
                      /\ Len(trips[c]) < MaxPayments /\ feed' = feed
        BY <2>2 DEF Pay
      <3> DEFINE report == EvaluateThreatContext(ip, device, km, 12)
                 trip == [from |-> ip, device |-> device, report |-> report]
      <3>2. report \in Reports /\ (SubnetOf(ip) \in ListedBlocks => report.score >= 85)
        BY <2>0, ReportOK
      <3> HIDE DEF report
      <3>3. trip \in Trip /\ trip.from = ip /\ trip.report = report
        BY <3>2
      <3>4. trips' = [trips EXCEPT ![c] = Append(trips[c], trip)]
        BY <3>1 DEF report
      <3> HIDE DEF trip, Trip
      <3>5. /\ trips' \in [Customers -> Seq(Trip)]
            /\ Len(trips'[c]) = Len(trips[c]) + 1
            /\ \A d \in Customers \ {c} : trips'[d] = trips[d]
            /\ trips'[c][Len(trips[c]) + 1] = trip
            /\ \A i \in 1 .. Len(trips[c]) : trips'[c][i] = trips[c][i]
        BY <2>0, <3>3, <3>4
      <3>6. \A d \in Customers : Len(trips'[d]) <= MaxPayments
        BY <2>0, <3>1, <3>5, ThreatAssumption
      <3>7. FeedOK'
        BY <2>0, <3>1 DEF FeedOK
      <3>8. ListedBlockFloor'
        <4> SUFFICES ASSUME NEW d \in Customers, NEW i \in DOMAIN trips'[d],
                            SubnetOf(trips'[d][i].from) \in ListedBlocks
                     PROVE  trips'[d][i].report.score >= 85
          BY DEF ListedBlockFloor
        <4>1. i \in 1 .. Len(trips'[d])
          BY <3>5
        <4>2. CASE d # c
          BY <2>0, <3>5, <4>2 DEF ListedBlockFloor
        <4>3. CASE d = c /\ i = Len(trips[c]) + 1
          BY <3>2, <3>3, <3>5, <4>3
        <4>4. CASE d = c /\ i # Len(trips[c]) + 1
          <5>1. i \in DOMAIN trips[c] /\ trips'[c][i] = trips[c][i]
            <6>1. i \in 1 .. Len(trips'[c]) /\ Len(trips[c]) \in Nat /\ DOMAIN trips[c] = 1 .. Len(trips[c])
              BY <2>0, <4>1, <4>4
            <6>2. i \in 1 .. Len(trips[c])
              BY <3>5, <4>4, <6>1
            <6> QED BY <3>5, <6>1, <6>2
          <5> QED BY <2>0, <4>4, <5>1 DEF ListedBlockFloor
        <4> QED BY <4>2, <4>3, <4>4
      <3> QED BY <3>5, <3>6, <3>7, <3>8 DEF FeedsHold, ThreatTypeOK, FeedOK, Trip
    <2>3. CASE UNCHANGED threatVars
      BY <2>3 DEF threatVars, FeedsHold, ThreatTypeOK, ListedBlockFloor
    <2> QED BY <2>1, <2>2, <2>3 DEF ThreatNext
  <1> QED BY <1>1, <1>2, PTL DEF ThreatSpec

-----------------------------------------------------------------------------
(* Replayed requests. *)

BotSignals ==
  [replay : BOOLEAN, limited : SUBSET {"dev", "acc", "card"}, accounts : Nat, probing : BOOLEAN]

BotRecords ==
  [pc : {"idle", "limits", "mesh", "done"}, visit : Visits \cup {NoVisit}, stamp : Int,
   asked : Nat, score : 0 .. 99, signals : BotSignals]

ReplayTyped ==
  /\ request \in [BotRequests -> BotRecords]
  /\ botTime \in Nat
  /\ \A n \in DOMAIN nonces : nonces[n] \in 0 .. botTime
  /\ IsFiniteSet(DOMAIN seenOn)

(* The nonce of a request that was let through is still remembered, or it   *)
(* is too late for the request to come again: what every detector has to    *)
(* keep between two requests that may be a long time apart.                 *)
Remembered(r) ==
  LET n == request[r].visit.nonce
  IN \/ n \in DOMAIN nonces /\ nonces[n] >= request[r].stamp - DriftAllowed
     \/ botTime > request[r].stamp - DriftAllowed + NonceKept

LetThroughRemembered ==
  \A r \in BotRequests : request[r].pc # "idle" /\ ~request[r].signals.replay => Remembered(r)

ReplayIInv == ReplayTyped /\ LetThroughRemembered /\ ReplayCaught

\* Later steps of a request leave what its first one found.
LEMMA LaterStep ==
  ASSUME ReplayIInv, NEW r \in BotRequests, NEW x \in BotRecords,
         request' = [request EXCEPT ![r] = x], x.visit = request[r].visit, x.stamp = request[r].stamp,
         x.signals.replay = request[r].signals.replay, request[r].pc # "idle",
         UNCHANGED <<nonces, botTime>>, IsFiniteSet(DOMAIN seenOn')
  PROVE  ReplayIInv'
  <1>1. \A q \in BotRequests : /\ request'[q].visit = request[q].visit /\ request'[q].stamp = request[q].stamp
                               /\ request'[q].signals.replay = request[q].signals.replay
                               /\ request'[q].pc # "idle" => request[q].pc # "idle"
    BY DEF ReplayIInv, ReplayTyped
  <1>2. ReplayTyped'
    BY DEF ReplayIInv, ReplayTyped
  <1>3. LetThroughRemembered' /\ ReplayCaught'
    BY <1>1 DEF ReplayIInv, LetThroughRemembered, Remembered, ReplayCaught
  <1> QED BY <1>2, <1>3 DEF ReplayIInv

\* The first detector: a nonce enters, and those that are too old may leave.
LEMMA ReplayValidated ==
  ASSUME ReplayIInv, NEW r \in BotRequests, NEW v \in VisitsOf[r], ValidateReplay(r, v)
  PROVE  ReplayIInv'
  <1> DEFINE stamp == botTime - v.age
             repeated == v.nonce \in DOMAIN nonces /\ ~Forgettable(v.nonce)
             replay == repeated \/ botTime - stamp > DriftAllowed \/ stamp - botTime > DriftAllowed
             signals == [request[r].signals EXCEPT !.replay = replay]
             x == [request[r] EXCEPT !.pc = "limits", !.visit = v, !.stamp = stamp, !.signals = signals]
  <1>0. /\ request \in [BotRequests -> BotRecords] /\ botTime \in Nat /\ v.age \in Int
        /\ NonceKept \in Nat /\ DriftAllowed \in Nat /\ 2 * DriftAllowed <= NonceKept
        /\ LetThroughRemembered /\ ReplayCaught /\ \A n \in DOMAIN nonces : nonces[n] \in 0 .. botTime
    BY BotAssumption DEF ReplayIInv, ReplayTyped
  <1>1. /\ request[r].pc = "idle" /\ request' = [request EXCEPT ![r] = x]
        /\ UNCHANGED <<clientBuckets, seenOn, botTime>>
    BY <1>0 DEF ValidateReplay, BotRecords
  <1>2. nonces' = IF repeated THEN nonces
                  ELSE [n \in DOMAIN AfterFull \cup {v.nonce} |->
                          IF n = v.nonce THEN botTime ELSE AfterFull[n]]
    BY DEF ValidateReplay
  <1>3. stamp \in Int /\ replay \in BOOLEAN
    BY <1>0
  <1>4. v \in Visits
    BY DEF Visits
  <1>5. /\ x \in BotRecords /\ x.visit = v /\ x.stamp = stamp /\ x.signals.replay = replay
        /\ x.pc = "limits"
    <2> HIDE DEF stamp, replay
    <2>1. /\ signals.replay = replay
          /\ signals \in BotSignals
      BY <1>0, <1>3 DEF BotRecords, BotSignals
    <2> HIDE DEF signals
    <2> QED BY ZenonT(60), <1>0, <1>3, <1>4, <2>1 DEF BotRecords
  <1> HIDE DEF x
  <1>6. /\ request' \in [BotRequests -> BotRecords] /\ request'[r] = x
        /\ \A q \in BotRequests \ {r} : request'[q] = request[q]
    BY <1>0, <1>1, <1>5
  <1>7. /\ \A n \in DOMAIN AfterFull : n \in DOMAIN nonces /\ AfterFull[n] = nonces[n]
        /\ \A n \in DOMAIN nonces \ DOMAIN AfterFull : Forgettable(n)
    BY DEF AfterFull
  <1>8. /\ \A n \in DOMAIN nonces' : nonces'[n] \in 0 .. botTime
        /\ \A n \in DOMAIN nonces : \/ n \in DOMAIN nonces' /\ nonces'[n] >= nonces[n]
                                    \/ botTime > nonces[n] + NonceKept
        /\ v.nonce \in DOMAIN nonces' /\ (~repeated => nonces'[v.nonce] = botTime)
    <2>1. CASE repeated
      BY <1>0, <1>2, <2>1
    <2>2. CASE ~repeated
      <3>1. /\ DOMAIN nonces' = DOMAIN AfterFull \cup {v.nonce} /\ nonces'[v.nonce] = botTime
            /\ \A n \in DOMAIN AfterFull \ {v.nonce} : nonces'[n] = AfterFull[n]
        BY <1>2, <2>2
      <3>2. \A n \in DOMAIN nonces' : nonces'[n] \in 0 .. botTime
        BY <1>0, <1>7, <3>1
      <3>3. ASSUME NEW n \in DOMAIN nonces
            PROVE  \/ n \in DOMAIN nonces' /\ nonces'[n] >= nonces[n]
                   \/ botTime > nonces[n] + NonceKept
        <4>1. nonces[n] \in 0 .. botTime
          BY <1>0
        <4>2. CASE n = v.nonce
          BY <1>0, <3>1, <4>1, <4>2
        <4>3. CASE n \in DOMAIN AfterFull \ {v.nonce}
          BY <1>0, <1>7, <3>1, <4>1, <4>3
        <4>4. CASE n \notin DOMAIN AfterFull
          <5>1. botTime - nonces[n] > NonceKept
            BY <1>7, <4>4 DEF Forgettable
          <5> QED BY <1>0, <4>1, <5>1
        <4> QED BY <4>2, <4>3, <4>4
      <3> QED BY <3>1, <3>2, <3>3
    <2> QED BY <2>1, <2>2
  <1>9. ReplayTyped'
    BY <1>1, <1>6, <1>8 DEF ReplayIInv, ReplayTyped
  <1>10. LetThroughRemembered'
    <2> SUFFICES ASSUME NEW q \in BotRequests, request'[q].pc # "idle", ~request'[q].signals.replay
                 PROVE  Remembered(q)'
      BY DEF LetThroughRemembered
    <2>1. CASE q = r
      <3>1. ~replay /\ request'[q].visit.nonce = v.nonce /\ request'[q].stamp = stamp
        BY <1>5, <1>6, <2>1
      <3>2. nonces'[v.nonce] = botTime /\ v.nonce \in DOMAIN nonces'
        BY <1>8, <3>1
      <3>3. botTime >= stamp - DriftAllowed
        BY <1>0, <1>3, <3>1
      <3> HIDE DEF stamp
      <3> QED BY <3>1, <3>2, <3>3 DEF Remembered
    <2>2. CASE q # r
      <3> DEFINE n == request[q].visit.nonce
                 t == request[q].stamp
      <3>1. request'[q] = request[q] /\ Remembered(q) /\ t \in Int
        BY <1>0, <1>6, <2>2 DEF LetThroughRemembered, BotRecords
      <3>2. CASE n \in DOMAIN nonces /\ nonces[n] >= t - DriftAllowed
        <4>1. nonces[n] \in 0 .. botTime
          BY <1>0, <3>2
        <4>2. CASE n \in DOMAIN nonces' /\ nonces'[n] >= nonces[n]
          <5>1. nonces'[n] \in 0 .. botTime
            BY <1>8, <4>2
          <5>2. nonces'[n] >= t - DriftAllowed
            BY <1>0, <3>1, <3>2, <4>1, <4>2, <5>1
          <5> QED BY <3>1, <4>2, <5>2 DEF Remembered
        <4>3. CASE botTime > nonces[n] + NonceKept
          <5>1. botTime > t - DriftAllowed + NonceKept
            BY <1>0, <3>1, <3>2, <4>1, <4>3
          <5> QED BY <1>1, <3>1, <5>1 DEF Remembered
        <4> QED BY <1>8, <3>2, <4>2, <4>3
      <3>3. CASE botTime > t - DriftAllowed + NonceKept
        BY <1>1, <3>1, <3>3 DEF Remembered
      <3> QED BY <3>1, <3>2, <3>3 DEF Remembered
    <2> QED BY <2>1, <2>2
  <1>11. ReplayCaught'
    <2>1. ASSUME NEW q \in BotRequests \ {r}, request[q].pc # "idle",
                 request[q].visit.nonce = v.nonce, request[q].stamp = stamp, ~request[q].signals.replay
          PROVE  replay
      <3>1. Remembered(q)
        BY <1>0, <2>1 DEF LetThroughRemembered
      <3>2. SUFFICES ASSUME ~replay PROVE FALSE
        OBVIOUS
      <3>3. botTime - stamp <= DriftAllowed
        BY <1>0, <1>3, <3>2
      <3>4. v.nonce \in DOMAIN nonces => nonces[v.nonce] \in 0 .. botTime /\ botTime - nonces[v.nonce] > NonceKept
        BY <1>0, <3>2 DEF Forgettable
      <3>5. botTime > stamp - DriftAllowed + NonceKept
        <4>1. \/ v.nonce \in DOMAIN nonces /\ nonces[v.nonce] >= stamp - DriftAllowed
              \/ botTime > stamp - DriftAllowed + NonceKept
          BY <2>1, <3>1 DEF Remembered
        <4>2. CASE v.nonce \in DOMAIN nonces /\ nonces[v.nonce] >= stamp - DriftAllowed
          <5> HIDE DEF stamp, replay
          <5> QED BY <1>0, <1>3, <3>4, <4>2
        <4> QED BY <4>1, <4>2
      <3> HIDE DEF stamp, replay
      <3> QED BY <1>0, <1>3, <3>3, <3>5
    <2> HIDE DEF stamp, replay
    <2>2. ASSUME NEW p \in BotRequests, NEW q \in BotRequests, p # q,
                 request'[p].pc # "idle", request'[q].pc # "idle",
                 request'[p].visit.nonce = request'[q].visit.nonce, request'[p].stamp = request'[q].stamp
          PROVE  request'[p].signals.replay \/ request'[q].signals.replay
      <3>1. CASE p = r
        BY <1>5, <1>6, <2>1, <2>2, <3>1
      <3>2. CASE q = r
        BY <1>5, <1>6, <2>1, <2>2, <3>2
      <3>3. CASE p # r /\ q # r
        BY <1>0, <1>6, <2>2, <3>3 DEF ReplayCaught
      <3> QED BY <3>1, <3>2, <3>3
    <2> QED BY <2>2 DEF ReplayCaught
  <1> QED BY <1>9, <1>10, <1>11 DEF ReplayIInv

LEMMA ScoreInScale ==
  ASSUME NEW v, NEW s
  PROVE  Score(v, s) \in 0 .. 99
  <1> DEFINE a == IF s.replay THEN 50 ELSE 0
             b == IF "loop" \in v.pace THEN 35 ELSE 0
             c == IF "burst" \in v.pace THEN 25 ELSE 0
             d == IF "headless" \in v.pace THEN 30 ELSE 0
             e == IF s.probing THEN 45 ELSE 0
             f == IF s.accounts >= AccountFanOut THEN 35 ELSE 0
             g == IF s.limited \cap {"dev", "acc"} # {} THEN 30 ELSE 0
             h == IF "card" \in s.limited THEN 35 ELSE 0
             sum == 4 + a + b + c + d + e + f + g + h
  <1>1. a \in Nat /\ b \in Nat /\ c \in Nat /\ d \in Nat /\ e \in Nat /\ f \in Nat /\ g \in Nat /\ h \in Nat
    OBVIOUS
  <1>2. Score(v, s) = IF sum > 99 THEN 98 ELSE sum
    BY DEF Score
  <1> HIDE DEF a, b, c, d, e, f, g, h
  <1>3. sum \in Nat
    BY <1>1
  <1> HIDE DEF sum
  <1> QED BY <1>2, <1>3

LEMMA BotStep ==
  ASSUME ReplayIInv, [BotNext]_botVars
  PROVE  ReplayIInv'
  <1>0. /\ request \in [BotRequests -> BotRecords] /\ botTime \in Nat /\ IsFiniteSet(DOMAIN seenOn)
    BY DEF ReplayIInv, ReplayTyped
  <1>1. ASSUME NEW r \in BotRequests, EvaluateLimits(r) PROVE ReplayIInv'
    <2> DEFINE keys == Keys(request[r].visit)
               empty == {k \in keys : Tokens(k) = 0}
               limited == {k[1] : k \in empty}
               signals == [request[r].signals EXCEPT !.limited = limited]
               x == [request[r] EXCEPT !.pc = "mesh", !.asked = botTime,
                                       !.signals = signals]
    <2>1. request' = [request EXCEPT ![r] = x] /\ request[r].pc # "idle"
      BY <1>0, <1>1 DEF EvaluateLimits, BotRecords
    <2>2. UNCHANGED <<nonces, seenOn, botTime>>
      BY <1>1 DEF EvaluateLimits
    <2>3. limited \in SUBSET {"dev", "acc", "card"}
      BY DEF Keys
    <2> HIDE DEF limited
    <2>5. /\ signals.replay = request[r].signals.replay
          /\ signals \in BotSignals
      BY <1>0, <2>3 DEF BotRecords, BotSignals
    <2> HIDE DEF signals
    <2>4. /\ x \in BotRecords /\ x.visit = request[r].visit /\ x.stamp = request[r].stamp
          /\ x.signals.replay = request[r].signals.replay
      BY ZenonT(60), <1>0, <2>5 DEF BotRecords
    <2> HIDE DEF x
    <2> QED BY <1>0, <2>1, <2>2, <2>4, LaterStep
  <1>2. ASSUME NEW r \in BotRequests, AnalyzeCoordinatedRisk(r) PROVE ReplayIInv'
    <2> DEFINE v == request[r].visit
               now == {<<v.device, "account", v.account>>, <<v.device, "card", v.card>>}
               On(kind) == {y \in DOMAIN seenOn : y[1] = v.device /\ y[2] = kind /\ Within(y)}
                           \cup {y \in now : y[2] = kind}
               accounts == Cardinality(On("account"))
               probing == Cardinality(On("card")) >= ProbedCards \/ (Cardinality(On("card")) >= 2 /\ v.micro)
               signals == [request[r].signals EXCEPT !.accounts = accounts, !.probing = probing]
               score == Score(v, signals)
               x == [request[r] EXCEPT !.pc = "done", !.signals = signals, !.score = score]
    <2>1. /\ request' = [request EXCEPT ![r] = x] /\ request[r].pc # "idle"
          /\ DOMAIN seenOn' = DOMAIN seenOn \cup now
      BY <1>0, <1>2 DEF AnalyzeCoordinatedRisk, BotRecords
    <2>2. UNCHANGED <<nonces, botTime>>
      BY <1>2 DEF AnalyzeCoordinatedRisk
    <2>3. IsFiniteSet(now)
      <3> DEFINE a == <<v.device, "account", v.account>>
                 c == <<v.device, "card", v.card>>
      <3> HIDE DEF a, c
      <3>1. IsFiniteSet({a})
        BY FS_Singleton
      <3>2. IsFiniteSet({a} \cup {c})
        BY <3>1, FS_AddElement
      <3>3. now = {a} \cup {c}
        BY DEF a, c
      <3> QED BY <3>2, <3>3
    <2>4. IsFiniteSet(DOMAIN seenOn')
      <3> HIDE DEF now
      <3>1. IsFiniteSet(DOMAIN seenOn \cup now)
        BY <1>0, <2>3, FS_Union
      <3> QED BY <2>1, <3>1
    <2>5. accounts \in Nat
      <3>1. On("account") \in SUBSET (DOMAIN seenOn \cup now)
        OBVIOUS
      <3>2. IsFiniteSet(DOMAIN seenOn \cup now)
        BY <1>0, <2>3, FS_Union
      <3> HIDE DEF On, now
      <3>3. IsFiniteSet(On("account"))
        BY <3>1, <3>2, FS_Subset
      <3> QED BY <3>3, FS_CardinalityType
    <2>6. probing \in BOOLEAN
      OBVIOUS
    <2> HIDE DEF accounts, probing
    <2>7. /\ signals.replay = request[r].signals.replay
          /\ signals \in BotSignals
      <3> DEFINE old == request[r].signals
      <3>1. request[r].signals \in BotSignals
        BY <1>0 DEF BotRecords
      <3>2. signals = [old EXCEPT !.accounts = accounts, !.probing = probing] /\ old \in BotSignals
        BY <3>1
      <3> HIDE DEF old, signals
      <3>3. signals.replay = old.replay /\ signals \in BotSignals
        BY <2>5, <2>6, <3>2 DEF BotSignals
      <3> QED BY <3>3 DEF old
    <2>8. score \in 0 .. 99
      BY ScoreInScale
    <2> HIDE DEF signals, score
    <2>9. /\ x \in BotRecords /\ x.visit = request[r].visit /\ x.stamp = request[r].stamp
          /\ x.signals.replay = request[r].signals.replay
      BY ZenonT(60), <1>0, <2>7, <2>8 DEF BotRecords
    <2> HIDE DEF x
    <2> QED BY <2>1, <2>2, <2>4, <2>9, LaterStep
  <1>3. CASE BotTick
    <2>1. botTime' = botTime + 1 /\ UNCHANGED <<request, nonces, seenOn>>
      BY <1>3 DEF BotTick
    <2>2. ReplayTyped'
      <3>1. \A n \in DOMAIN nonces : nonces[n] \in 0 .. botTime + 1
        BY <1>0 DEF ReplayIInv, ReplayTyped
      <3> QED BY <1>0, <2>1, <3>1 DEF ReplayTyped
    <2>3. LetThroughRemembered'
      <3> SUFFICES ASSUME NEW r \in BotRequests, Remembered(r) PROVE Remembered(r)'
        BY <2>1 DEF ReplayIInv, LetThroughRemembered
      <3>1. request[r].stamp - DriftAllowed + NonceKept \in Int
        BY <1>0, BotAssumption DEF BotRecords
      <3> QED BY <1>0, <2>1, <3>1 DEF Remembered
    <2>4. ReplayCaught'
      BY <2>1 DEF ReplayIInv, ReplayCaught
    <2> QED BY <2>2, <2>3, <2>4 DEF ReplayIInv
  <1>4. CASE UNCHANGED botVars
    BY <1>4 DEF botVars, ReplayIInv, ReplayTyped, LetThroughRemembered, Remembered, ReplayCaught
  <1> QED BY <1>1, <1>2, <1>3, <1>4, ReplayValidated DEF BotNext

LEMMA ReplayInvariance == BotSpec => []ReplayIInv
  <1>1. BotInit => ReplayIInv
    <2> SUFFICES ASSUME BotInit PROVE ReplayIInv
      OBVIOUS
    <2>1. DOMAIN nonces = {} /\ DOMAIN seenOn = {}
      BY DEF BotInit
    <2>2. IsFiniteSet(DOMAIN seenOn)
      BY <2>1, FS_EmptySet
    <2>3. [pc |-> "idle", visit |-> NoVisit, stamp |-> 0, asked |-> 0, score |-> 0, signals |-> NoSignals]
            \in BotRecords
      BY DEF BotRecords, BotSignals, NoSignals
    <2> QED BY <2>1, <2>2, <2>3 DEF BotInit, ReplayIInv, ReplayTyped, LetThroughRemembered, ReplayCaught
  <1>2. ReplayIInv /\ [BotNext]_botVars => ReplayIInv'
    BY BotStep
  <1> QED BY <1>1, <1>2, PTL DEF BotSpec

-----------------------------------------------------------------------------
(* The rhythm of a client.                                                  *)

\* Induction over the natural numbers: a set without a least number is empty.
LEMMA NoneIsLeast ==
  ASSUME NEW Bad \in SUBSET Nat, \A m \in Bad : \E n \in Bad : n < m
  PROVE  Bad = {}
  <1> SUFFICES ASSUME Bad # {} PROVE FALSE
    OBVIOUS
  <1>1. PICK m \in Bad : \A n \in Bad : ~(<<n, m>> \in OpToRel(<, Nat))
    BY NatLessThanWellFounded, WFMin
  <1>2. \A n \in Bad : ~(n < m)
    BY <1>1 DEF OpToRel
  <1> QED BY <1>2

\* Of equal intervals the sum is their number times one of them.
LEMMA EvenSum ==
  ASSUME NEW d \in Nat, NEW ds, NEW n \in Nat, Len(ds) = n, \A i \in 1 .. n : ds[i] = d
  PROVE  Sum(ds) = n * d
  <1> DEFINE Adds(f) == f = [i \in 0 .. n |-> IF i = 0 THEN 0 ELSE f[i - 1] + ds[i]]
             upTo == CHOOSE f : Adds(f)
             line == [i \in 0 .. n |-> i * d]
  <1>1. Adds(line)
    <2>1. ASSUME NEW i \in 0 .. n PROVE line[i] = IF i = 0 THEN 0 ELSE line[i - 1] + ds[i]
      <3>1. CASE i = 0
        BY <3>1
      <3>2. CASE i # 0
        <4>1. i - 1 \in 0 .. n /\ i \in 1 .. n /\ i \in Nat
          BY <3>2
        <4>2. line[i - 1] = (i - 1) * d /\ line[i] = i * d /\ ds[i] = d
          BY <4>1
        <4>3. \A k, e \in Nat : k * e = (k - 1) * e + e
          OBVIOUS
        <4>4. i * d = (i - 1) * d + d
          BY <4>1, <4>3
        <4> QED BY <3>2, <4>2, <4>4
      <3> QED BY <3>1, <3>2
    <2>2. line = [i \in 0 .. n |-> line[i]]
      OBVIOUS
    <2> HIDE DEF line
    <2> QED BY <2>1, <2>2
  <1>2. Adds(upTo)
    BY <1>1
  <1>3. Sum(ds) = upTo[n]
    BY DEF Sum
  <1> HIDE DEF upTo, line
  <1>4. /\ upTo[0] = 0
        /\ \A i \in 1 .. n : upTo[i] = upTo[i - 1] + d
    BY <1>2
  <1> HIDE DEF Adds
  <1> DEFINE Bad == {i \in 0 .. n : upTo[i] # i * d}
  <1>5. ASSUME NEW m \in Bad PROVE \E k \in Bad : k < m
    <2>1. m \in 0 .. n /\ upTo[m] # m * d
      BY <1>5
    <2>2. m # 0
      <3>1. 0 * d = 0
        OBVIOUS
      <3> QED BY <1>4, <2>1, <3>1
    <2>3. m \in 1 .. n /\ m - 1 \in 0 .. n /\ m \in Nat
      BY <2>1, <2>2
    <2>4. \A k, e \in Nat : k * e = (k - 1) * e + e
      OBVIOUS
    <2>5. m * d = (m - 1) * d + d
      BY <2>3, <2>4
    <2>6. upTo[m - 1] # (m - 1) * d
      BY <1>4, <2>1, <2>3, <2>5
    <2> QED BY <2>3, <2>6
  <1>6. Bad = {}
    <2>1. Bad \in SUBSET Nat
      OBVIOUS
    <2> HIDE DEF Bad
    <2> QED BY <1>5, <2>1, NoneIsLeast
  <1>7. upTo[n] = n * d
    BY <1>6
  <1> QED BY <1>3, <1>7

(* Equal intervals of one unit and more are even, because the mean of their *)
(* squares is the square of their mean; those of less than four are a burst.*)
LEMMA SteadyIsNoticed ==
  ASSUME NEW d \in Nat, d < 100, NEW n \in Nat, n >= 3, NEW ds \in [1 .. n -> Nat],
         \A i \in 1 .. n : ds[i] = d
  PROVE  IsDeterministicCadence(ds) \/ IsBurstPacing(ds)
  <1>0. DOMAIN ds = 1 .. n /\ Len(ds) = n
    OBVIOUS
  <1>1. CASE d = 0
    <2>1. {i \in DOMAIN ds : ds[i] < 4} = 1 .. n
      BY <1>0, <1>1
    <2>2. Cardinality(1 .. n) = n
      BY FS_Interval
    <2> QED BY <2>1, <2>2 DEF IsBurstPacing
  <1>2. CASE d # 0
    <2> DEFINE sq == [i \in 1 .. n |-> ds[i] * ds[i]]
               q == d * d
    <2>1. q \in Nat /\ \A i \in 1 .. n : sq[i] = q
      OBVIOUS
    <2>2. Len(sq) = n
      OBVIOUS
    <2>3. Sum(ds) = n * d
      BY <1>0, EvenSum
    <2> HIDE DEF sq, q
    <2>4. Sum(sq) = n * q
      BY <2>1, <2>2, EvenSum
    <2>5. n * d \in Nat /\ n * d > 0 /\ n * d < 100 * n
      <3>1. \A k, e \in Nat : k > 0 /\ e > 0 /\ e < 100 => k * e \in Nat /\ k * e > 0 /\ k * e < 100 * k
        OBVIOUS
      <3> QED BY <1>2, <3>1
    <2>6. 400 * n * (n * q) < 409 * (n * d) * (n * d)
      <3> DEFINE m == n * d
      <3>1. n * (n * q) = m * m
        BY DEF q
      <3>2. m * m \in Nat /\ m * m > 0
        <4>1. m \in Nat /\ m > 0
          BY <2>5
        <4> HIDE DEF m
        <4> QED BY <4>1
      <3>3. 400 * n * (n * q) = 400 * (n * (n * q))
        BY <2>1
      <3>4. 409 * m * m = 409 * (m * m)
        BY <2>5
      <3> HIDE DEF m
      <3>5. 400 * (m * m) < 409 * (m * m)
        BY <3>2
      <3> QED BY <3>1, <3>3, <3>4, <3>5 DEF m
    <2>7. Even(ds)
      BY <1>0, <2>3, <2>4, <2>5, <2>6 DEF Even, sq
    <2>8. MeanBelow(ds, 100)
      BY <1>0, <2>3, <2>5 DEF MeanBelow
    <2> QED BY <1>0, <2>7, <2>8 DEF IsDeterministicCadence
  <1> QED BY <1>1, <1>2

\* What is made of the window is what the window is.
PaceOfGaps ==
  Len(gaps) # 0 => pace = {p \in {"deterministic"} : IsDeterministicCadence(gaps)}
                          \cup {p \in {"burst"} : IsBurstPacing(gaps)}

LEMMA BoundedIsShort ==
  ASSUME NEW S, NEW n \in Nat, NEW q
  PROVE  q \in BoundedSeq(S, n) <=> q \in Seq(S) /\ Len(q) <= n
  <1>1. ASSUME q \in BoundedSeq(S, n) PROVE q \in Seq(S) /\ Len(q) <= n
    <2>1. PICK m \in 0 .. n : q \in [1 .. m -> S]
      BY <1>1 DEF BoundedSeq, SeqOf
    <2> QED BY <2>1
  <1>2. ASSUME q \in Seq(S), Len(q) <= n PROVE q \in BoundedSeq(S, n)
    <2>1. Len(q) \in 0 .. n /\ q \in [1 .. Len(q) -> S]
      BY <1>2
    <2> QED BY <2>1 DEF BoundedSeq, SeqOf
  <1> QED BY <1>1, <1>2

LEMMA CadenceInvariance == CadenceSpec => [](CadenceTypeOK /\ PaceOfGaps)
  <1>0. MaxGaps \in Nat /\ MaxGaps # 0
    BY CadenceAssumption
  <1>1. CadenceInit => CadenceTypeOK /\ PaceOfGaps
    <2> SUFFICES ASSUME CadenceInit PROVE CadenceTypeOK /\ PaceOfGaps
      OBVIOUS
    <2>1. gaps \in Seq(Intervals) /\ Len(gaps) = 0 /\ pace = {}
      BY DEF CadenceInit
    <2>2. gaps \in BoundedSeq(Intervals, MaxGaps)
      <3>1. Len(gaps) <= MaxGaps
        BY <1>0, <2>1
      <3> QED BY <1>0, <2>1, <3>1, BoundedIsShort, Zenon
    <2>3. PaceOfGaps
      BY <2>1 DEF PaceOfGaps
    <2> QED BY <2>1, <2>2, <2>3 DEF CadenceTypeOK
  <1>2. CadenceTypeOK /\ PaceOfGaps /\ [CadenceNext]_cadenceVars => CadenceTypeOK' /\ PaceOfGaps'
    <2> SUFFICES ASSUME CadenceTypeOK, PaceOfGaps, [CadenceNext]_cadenceVars
                 PROVE  CadenceTypeOK' /\ PaceOfGaps'
      OBVIOUS
    <2>1. CASE UNCHANGED cadenceVars
      BY <2>1 DEF cadenceVars, CadenceTypeOK, PaceOfGaps, IsDeterministicCadence, IsBurstPacing, MeanBelow, Even
    <2>2. ASSUME NEW d \in Intervals, AnalyzeCadence(d) PROVE CadenceTypeOK' /\ PaceOfGaps'
      <3> DEFINE all == Append(gaps, d)
      <3>1. gaps \in Seq(Intervals) /\ Len(gaps) <= MaxGaps /\ Len(gaps) \in Nat
        BY <1>0, BoundedIsShort DEF CadenceTypeOK
      <3>2. all \in Seq(Intervals) /\ Len(all) = Len(gaps) + 1
        BY <3>1
      <3> HIDE DEF all
      <3>3. gaps' = (IF Len(all) > MaxGaps THEN Tail(all) ELSE all)
        BY <2>2 DEF AnalyzeCadence, all
      <3>4. gaps' \in Seq(Intervals) /\ Len(gaps') <= MaxGaps
        BY <1>0, <3>1, <3>2, <3>3
      <3>5. pace' = {p \in {"deterministic"} : IsDeterministicCadence(gaps')}
                    \cup {p \in {"burst"} : IsBurstPacing(gaps')}
        BY <2>2 DEF AnalyzeCadence
      <3>6. CadenceTypeOK'
        BY <1>0, <3>4, <3>5, BoundedIsShort DEF CadenceTypeOK
      <3>7. PaceOfGaps'
        BY <3>5 DEF PaceOfGaps, IsDeterministicCadence, IsBurstPacing, MeanBelow, Even
      <3> QED BY <3>6, <3>7
    <2> QED BY <2>1, <2>2 DEF CadenceNext
  <1> QED BY <1>1, <1>2, PTL DEF CadenceSpec

LEMMA SteadySeen == CadenceTypeOK /\ PaceOfGaps => SteadyIsSeen
  <1> SUFFICES ASSUME CadenceTypeOK, PaceOfGaps, NEW d \in Intervals, d < 100, Len(gaps) >= 3,
                      Range(gaps) = {d}
               PROVE  pace # {}
    BY DEF SteadyIsSeen
  <1> DEFINE n == Len(gaps)
  <1>1. d \in Nat /\ gaps \in Seq(Intervals) /\ Intervals \subseteq Nat
    BY CadenceAssumption, BoundedIsShort DEF CadenceTypeOK
  <1>2. n \in Nat /\ gaps \in [1 .. n -> Nat] /\ DOMAIN gaps = 1 .. n
    <2>1. n \in Nat /\ gaps \in [1 .. n -> Intervals] /\ DOMAIN gaps = 1 .. n
      BY <1>1
    <2> HIDE DEF n
    <2>2. \A i \in 1 .. n : gaps[i] \in Nat
      BY <1>1, <2>1
    <2> QED BY <2>1, <2>2
  <1>3. \A i \in 1 .. n : gaps[i] = d
    BY <1>2 DEF Range
  <1>4. IsDeterministicCadence(gaps) \/ IsBurstPacing(gaps)
    BY <1>1, <1>2, <1>3, SteadyIsNoticed
  <1> QED BY <1>4 DEF PaceOfGaps

-----------------------------------------------------------------------------
(* What the detectors keep, within its bounds.                              *)

BotLayers == {"dev", "acc", "card"}
Relation(v, kind) == <<v.device, kind, IF kind = "account" THEN v.account ELSE v.card>>

\* Whatever is entered about a device is of a request that has come.
SeenOfRequests ==
  \A x \in DOMAIN seenOn :
    /\ seenOn[x] \in 0 .. botTime
    /\ \E q \in BotRequests : /\ request[q].pc \in {"limits", "mesh", "done"}
                              /\ x \in {Relation(request[q].visit, "account"), Relation(request[q].visit, "card")}

BucketsInBounds ==
  \A k \in DOMAIN clientBuckets : k[1] \in BotLayers /\ clientBuckets[k] \in 0 .. Burst[k[1]]

RequestsInBounds ==
  \A q \in BotRequests : /\ request[q].asked \in 0 .. MaxBotTime
                         /\ request[q].signals.accounts \in 0 .. Cardinality(BotRequests)

BotBounds == botTime \in 0 .. MaxBotTime /\ SeenOfRequests /\ BucketsInBounds /\ RequestsInBounds

LEMMA BotConstants ==
  /\ MaxBotTime \in Nat /\ IsFiniteSet(BotRequests) /\ Cardinality(BotRequests) \in Nat
  /\ Burst \in [BotLayers -> Nat]
  BY BotAssumption, FS_CardinalityType DEF BotLayers

\* As many accounts are on a device as requests at most, because each came with one.
LEMMA AccountsOfRequests ==
  ASSUME NEW visit \in [BotRequests -> Visits \cup {NoVisit}], NEW dev,
         NEW On, \A x \in On : \E q \in BotRequests : x = <<dev, "account", visit[q].account>>
  PROVE  Cardinality(On) \in 0 .. Cardinality(BotRequests)
  <1> DEFINE f == [q \in BotRequests |-> <<dev, "account", visit[q].account>>]
             All == {f[q] : q \in BotRequests}
  <1>1. f \in [BotRequests -> All] /\ \A x \in All : \E q \in BotRequests : f[q] = x
    OBVIOUS
  <1>2. On \in SUBSET All
    OBVIOUS
  <1> HIDE DEF f
  <1> HIDE DEF All
  <1>3. f \in Surjection(BotRequests, All)
    BY <1>1 DEF Surjection
  <1>4. IsFiniteSet(All) /\ Cardinality(All) <= Cardinality(BotRequests)
    BY <1>3, BotConstants, FS_Surjection
  <1>5. IsFiniteSet(On) /\ Cardinality(On) <= Cardinality(All)
    BY <1>2, <1>4, FS_Subset
  <1> QED BY <1>4, <1>5, BotConstants, FS_CardinalityType

LEMMA ValidateKeepsBounds ==
  ASSUME ReplayIInv, BotBounds, NEW r \in BotRequests, NEW v \in VisitsOf[r], ValidateReplay(r, v)
  PROVE  BotBounds'
  <1>1. /\ request[r].pc = "idle" /\ request \in [BotRequests -> BotRecords]
        /\ UNCHANGED <<clientBuckets, seenOn, botTime>>
    BY DEF ValidateReplay, ReplayIInv, ReplayTyped
  <1>2. PICK stamp, replay :
          request' = [request EXCEPT ![r].pc = "limits", ![r].visit = v, ![r].stamp = stamp,
                                     ![r].signals.replay = replay]
    BY DEF ValidateReplay
  <1>3. \A q \in BotRequests : /\ request'[q].asked = request[q].asked
                               /\ request'[q].signals.accounts = request[q].signals.accounts
                               /\ q # r => request'[q] = request[q]
    BY <1>1, <1>2 DEF BotRecords, BotSignals
  <1>4. SeenOfRequests'
    <2> SUFFICES ASSUME NEW x \in DOMAIN seenOn
                 PROVE  /\ seenOn[x] \in 0 .. botTime
                        /\ \E q \in BotRequests :
                             /\ request'[q].pc \in {"limits", "mesh", "done"}
                             /\ x \in {Relation(request'[q].visit, "account"),
                                       Relation(request'[q].visit, "card")}
      BY <1>1 DEF SeenOfRequests
    <2>1. PICK q \in BotRequests :
            /\ request[q].pc \in {"limits", "mesh", "done"}
            /\ x \in {Relation(request[q].visit, "account"), Relation(request[q].visit, "card")}
      BY DEF BotBounds, SeenOfRequests
    <2>2. request'[q] = request[q]
      BY <1>1, <1>3, <2>1
    <2> QED BY <2>1, <2>2 DEF BotBounds, SeenOfRequests
  <1>5. BucketsInBounds'
    BY <1>1 DEF BotBounds, BucketsInBounds
  <1>6. RequestsInBounds'
    BY <1>3 DEF BotBounds, RequestsInBounds
  <1> QED BY <1>1, <1>4, <1>5, <1>6 DEF BotBounds

LEMMA LimitsKeepBounds ==
  ASSUME ReplayIInv, BotBounds, NEW r \in BotRequests, EvaluateLimits(r)
  PROVE  BotBounds'
  <1> DEFINE keys == Keys(request[r].visit)
             empty == {k \in keys : Tokens(k) = 0}
  <1>1. /\ request[r].pc = "limits" /\ request \in [BotRequests -> BotRecords]
        /\ clientBuckets' = [k \in DOMAIN clientBuckets \cup keys |->
                               IF k \in keys \ empty THEN Tokens(k) - 1 ELSE Tokens(k)]
        /\ UNCHANGED <<seenOn, botTime>>
    BY DEF EvaluateLimits, ReplayIInv, ReplayTyped
  <1>2. PICK limited : request' = [request EXCEPT ![r].pc = "mesh", ![r].asked = botTime,
                                                  ![r].signals.limited = limited]
    BY DEF EvaluateLimits
  <1>3. \A q \in BotRequests : /\ request'[q].visit = request[q].visit
                               /\ request'[q].signals.accounts = request[q].signals.accounts
                               /\ request'[q].asked \in {request[q].asked, botTime}
                               /\ request'[q].pc \in {request[q].pc, "mesh"}
    BY <1>1, <1>2 DEF BotRecords, BotSignals
  <1>4. SeenOfRequests'
    BY <1>1, <1>3 DEF BotBounds, SeenOfRequests, Relation
  <1>5. ASSUME NEW k \in DOMAIN clientBuckets \cup keys
        PROVE  k[1] \in BotLayers /\ Tokens(k) \in 0 .. Burst[k[1]] /\ Burst[k[1]] \in Nat
    <2>1. k[1] \in BotLayers
      BY DEF Keys, BotLayers, BotBounds, BucketsInBounds
    <2> QED BY <2>1, BotConstants DEF Tokens, BotBounds, BucketsInBounds
  <1>6. BucketsInBounds'
    <2> SUFFICES ASSUME NEW k \in DOMAIN clientBuckets'
                 PROVE  k[1] \in BotLayers /\ clientBuckets'[k] \in 0 .. Burst[k[1]]
      BY DEF BucketsInBounds
    <2>1. k \in DOMAIN clientBuckets \cup keys
      BY <1>1
    <2>2. clientBuckets'[k] = IF k \in keys \ empty THEN Tokens(k) - 1 ELSE Tokens(k)
      BY <1>1, <2>1
    <2>3. k \in keys \ empty => Tokens(k) # 0
      OBVIOUS
    <2> HIDE DEF keys, empty
    <2> QED BY <1>5, <2>1, <2>2, <2>3
  <1>7. RequestsInBounds'
    BY <1>3 DEF BotBounds, RequestsInBounds
  <1> QED BY <1>1, <1>4, <1>6, <1>7 DEF BotBounds

LEMMA AnalysisKeepsBounds ==
  ASSUME ReplayIInv, BotBounds, NEW r \in BotRequests, AnalyzeCoordinatedRisk(r)
  PROVE  BotBounds'
  <1> DEFINE v == request[r].visit
             now == {Relation(v, "account"), Relation(v, "card")}
             On == {x \in DOMAIN seenOn : x[1] = v.device /\ x[2] = "account" /\ Within(x)}
                   \cup {x \in now : x[2] = "account"}
  <1>1. /\ request[r].pc = "mesh" /\ request \in [BotRequests -> BotRecords]
        /\ seenOn' = [x \in DOMAIN seenOn \cup now |-> IF x \in now THEN botTime ELSE seenOn[x]]
        /\ UNCHANGED <<clientBuckets, botTime>>
    BY DEF AnalyzeCoordinatedRisk, ReplayIInv, ReplayTyped, Relation
  <1>2. \E probing, score :
          request' = [request EXCEPT ![r].pc = "done",
                        ![r].signals = [request[r].signals EXCEPT !.accounts = Cardinality(On), !.probing = probing],
                        ![r].score = score]
    BY DEF AnalyzeCoordinatedRisk, Relation
  <1>3. Cardinality(On) \in 0 .. Cardinality(BotRequests)
    <2> DEFINE visit == [q \in BotRequests |-> request[q].visit]
    <2>1. visit \in [BotRequests -> Visits \cup {NoVisit}]
      BY <1>1 DEF BotRecords
    <2>2. ASSUME NEW x \in On PROVE \E q \in BotRequests : x = <<v.device, "account", visit[q].account>>
      <3>1. CASE x \in now
        BY <2>2, <3>1 DEF Relation
      <3>2. CASE x \in DOMAIN seenOn
        <4>1. x[1] = v.device /\ x[2] = "account"
          BY <2>2 DEF Relation
        <4>2. PICK q \in BotRequests :
                x \in {Relation(request[q].visit, "account"), Relation(request[q].visit, "card")}
          BY <3>2 DEF BotBounds, SeenOfRequests
        <4>3. x = <<v.device, "account", request[q].visit.account>>
          BY <4>1, <4>2 DEF Relation
        <4> QED BY <4>3
      <3> QED BY <2>2, <3>1, <3>2
    <2> HIDE DEF visit
    <2> HIDE DEF On, v
    <2> QED BY <2>1, <2>2, AccountsOfRequests
  <1> DEFINE n == Cardinality(On)
  <1> HIDE DEF n
  <1>4. PICK probing, score :
          request' = [request EXCEPT ![r].pc = "done",
                        ![r].signals = [request[r].signals EXCEPT !.accounts = n, !.probing = probing],
                        ![r].score = score]
    BY <1>2 DEF n
  <1>5. \A q \in BotRequests : /\ request'[q].visit = request[q].visit
                               /\ request'[q].asked = request[q].asked
                               /\ request'[q].signals.accounts \in {request[q].signals.accounts, n}
                               /\ request'[q].pc \in {request[q].pc, "done"}
    BY <1>1, <1>4 DEF BotRecords, BotSignals
  <1>6. SeenOfRequests'
    <2> SUFFICES ASSUME NEW x \in DOMAIN seenOn'
                 PROVE  /\ seenOn'[x] \in 0 .. botTime
                        /\ \E q \in BotRequests :
                             /\ request'[q].pc \in {"limits", "mesh", "done"}
                             /\ x \in {Relation(request[q].visit, "account"),
                                       Relation(request[q].visit, "card")}
      BY <1>1, <1>5 DEF SeenOfRequests, Relation
    <2>1. botTime \in Nat
      BY BotConstants DEF BotBounds
    <2>2. CASE x \in now
      <3>1. request'[r].pc \in {"limits", "mesh", "done"}
        BY <1>1, <1>5
      <3> QED BY <1>1, <2>1, <2>2, <3>1
    <2>3. CASE x \notin now
      <3>1. x \in DOMAIN seenOn /\ seenOn'[x] = seenOn[x]
        BY <1>1, <2>3
      <3> QED BY <1>5, <3>1 DEF BotBounds, SeenOfRequests
    <2> QED BY <2>2, <2>3
  <1>7. RequestsInBounds'
    BY <1>3, <1>5 DEF BotBounds, RequestsInBounds, n
  <1>8. BucketsInBounds'
    BY <1>1 DEF BotBounds, BucketsInBounds
  <1> QED BY <1>1, <1>6, <1>7, <1>8 DEF BotBounds

LEMMA BotBoundsStep ==
  ASSUME ReplayIInv, BotBounds, [BotNext]_botVars
  PROVE  BotBounds'
  <1>1. CASE UNCHANGED botVars
    BY <1>1 DEF botVars, BotBounds, SeenOfRequests, BucketsInBounds, RequestsInBounds, Relation
  <1>2. CASE BotTick
    <2>1. /\ botTime \in Nat /\ botTime < MaxBotTime /\ botTime' = botTime + 1
          /\ DOMAIN clientBuckets' = {} /\ UNCHANGED <<request, seenOn>>
      BY <1>2, BotConstants DEF BotTick, BotBounds
    <2>2. SeenOfRequests'
      <3>1. \A x \in DOMAIN seenOn : seenOn[x] \in 0 .. botTime + 1
        BY <2>1 DEF BotBounds, SeenOfRequests
      <3> QED BY <2>1, <3>1 DEF BotBounds, SeenOfRequests, Relation
    <2>3. BucketsInBounds' /\ RequestsInBounds'
      BY <2>1 DEF BotBounds, BucketsInBounds, RequestsInBounds
    <2> QED BY <2>1, <2>2, <2>3, BotConstants DEF BotBounds
  <1> QED BY <1>1, <1>2, ValidateKeepsBounds, LimitsKeepBounds, AnalysisKeepsBounds DEF BotNext

LEMMA BotTyped == ReplayIInv /\ BotBounds => BotTypeOK
  <1> SUFFICES ASSUME ReplayIInv, BotBounds PROVE BotTypeOK
    OBVIOUS
  <1> DEFINE signals == [replay : BOOLEAN, limited : SUBSET {"dev", "acc", "card"},
                         accounts : 0 .. Cardinality(BotRequests), probing : BOOLEAN]
             records == [pc : {"idle", "limits", "mesh", "done"}, visit : Visits \cup {NoVisit},
                         stamp : Int, asked : 0 .. MaxBotTime, score : 0 .. 99, signals : signals]
  <1>1. ASSUME NEW q \in BotRequests PROVE request[q] \in records
    <2>1. request[q] \in BotRecords /\ request[q].signals \in BotSignals
      BY DEF ReplayIInv, ReplayTyped, BotRecords
    <2>2. /\ request[q].asked \in 0 .. MaxBotTime
          /\ request[q].signals.accounts \in 0 .. Cardinality(BotRequests)
      BY DEF BotBounds, RequestsInBounds
    <2>3. request[q].signals \in signals
      BY <2>1, <2>2 DEF BotSignals
    <2> HIDE DEF signals
    <2> QED BY <2>1, <2>2, <2>3 DEF BotRecords
  <1>2. request \in [BotRequests -> records]
    BY <1>1 DEF ReplayIInv, ReplayTyped
  <1>3. /\ \A n \in DOMAIN nonces : nonces[n] <= botTime
        /\ \A k \in DOMAIN clientBuckets : clientBuckets[k] \in 0 .. Burst[k[1]]
        /\ \A x \in DOMAIN seenOn : seenOn[x] <= botTime
        /\ botTime \in 0 .. MaxBotTime
    BY DEF ReplayIInv, ReplayTyped, BotBounds, BucketsInBounds, SeenOfRequests
  <1> QED BY <1>2, <1>3 DEF BotTypeOK

(* However much later a request comes again, and whatever else fills or     *)
(* empties the cache of nonces in between, one of the two is reported as a  *)
(* replay; a client that calls at equal intervals below five seconds is     *)
(* noticed whatever it did before; buckets never go below zero, and a       *)
(* device has no more accounts than requests came (bot_defense/).           *)
THEOREM BotsAreNoticed == BotSpec /\ CadenceSpec => []BotsNoticed
  <1>1. BotInit => BotBounds
    <2> SUFFICES ASSUME BotInit PROVE BotBounds
      OBVIOUS
    <2>1. /\ DOMAIN clientBuckets = {} /\ DOMAIN seenOn = {} /\ botTime = 0
          /\ \A q \in BotRequests : request[q].asked = 0 /\ request[q].signals.accounts = 0
      BY DEF BotInit, NoSignals
    <2> QED BY <2>1, BotConstants DEF BotBounds, SeenOfRequests, BucketsInBounds, RequestsInBounds
  <1>2. ReplayIInv /\ BotBounds /\ [BotNext]_botVars => BotBounds'
    BY BotBoundsStep
  <1>3. BotSpec => [](ReplayIInv /\ BotBounds)
    BY <1>1, <1>2, ReplayInvariance, PTL DEF BotSpec
  <1>4. (ReplayIInv /\ BotBounds) /\ (CadenceTypeOK /\ PaceOfGaps) => BotsNoticed
    BY BotTyped, SteadySeen DEF BotsNoticed, ReplayIInv
  <1> QED BY <1>3, <1>4, CadenceInvariance, PTL

-----------------------------------------------------------------------------
(* The channel, as a sequence without repetitions.                          *)

Holds(q) == {q[i] : i \in 1 .. Len(q)}
NoRepeats(q) == \A i, j \in 1 .. Len(q) : q[i] = q[j] => i = j

LEMMA AppendHolds ==
  ASSUME NEW S, NEW q \in Seq(S), NEW e \in S, NoRepeats(q), e \notin Holds(q)
  PROVE  /\ Append(q, e) \in Seq(S) /\ Len(Append(q, e)) = Len(q) + 1
         /\ Holds(Append(q, e)) = Holds(q) \cup {e} /\ NoRepeats(Append(q, e))
  <1>1. /\ Append(q, e) \in Seq(S) /\ Len(Append(q, e)) = Len(q) + 1 /\ Len(q) \in Nat
        /\ \A i \in 1 .. Len(q) + 1 : Append(q, e)[i] = IF i = Len(q) + 1 THEN e ELSE q[i]
    OBVIOUS
  <1> DEFINE r == Append(q, e)
  <1> HIDE DEF r
  <1>2. Holds(r) = Holds(q) \cup {e}
    BY <1>1 DEF Holds, r
  <1>3. NoRepeats(r)
    BY <1>1 DEF Holds, NoRepeats, r
  <1> QED BY <1>1, <1>2, <1>3 DEF r

LEMMA TailHolds ==
  ASSUME NEW S, NEW q \in Seq(S), q # <<>>, NoRepeats(q)
  PROVE  /\ Tail(q) \in Seq(S) /\ Len(Tail(q)) = Len(q) - 1 /\ Len(q) \in Nat \ {0}
         /\ Head(q) \in S /\ Head(q) \in Holds(q) /\ Head(q) \notin Holds(Tail(q))
         /\ Holds(Tail(q)) = Holds(q) \ {Head(q)} /\ NoRepeats(Tail(q))
  <1>1. /\ Tail(q) \in Seq(S) /\ Len(Tail(q)) = Len(q) - 1 /\ Len(q) \in Nat \ {0}
        /\ Head(q) = q[1] /\ Head(q) \in S
        /\ \A i \in 1 .. Len(q) - 1 : Tail(q)[i] = q[i + 1]
    OBVIOUS
  <1> DEFINE r == Tail(q)
             h == Head(q)
  <1> HIDE DEF r, h
  <1>2. /\ r \in Seq(S) /\ Len(r) = Len(q) - 1 /\ Len(q) \in Nat \ {0} /\ h = q[1]
        /\ \A i \in 1 .. Len(q) - 1 : r[i] = q[i + 1]
    BY <1>1 DEF r, h
  <1>3. h \in Holds(q) /\ h \notin Holds(r)
    BY <1>2 DEF Holds, NoRepeats
  <1>4. Holds(r) = Holds(q) \ {h}
    <2>1. ASSUME NEW x \in Holds(r)
          PROVE  x \in Holds(q)
      BY <1>2, <2>1 DEF Holds
    <2>2. ASSUME NEW x \in Holds(q), x # h
          PROVE  x \in Holds(r)
      <3>1. PICK i \in 1 .. Len(q) : x = q[i]
        BY DEF Holds
      <3>2. i - 1 \in 1 .. Len(r) /\ r[i - 1] = q[i]
        BY <1>2, <2>2, <3>1
      <3> QED BY <3>1, <3>2 DEF Holds
    <2> QED BY <1>3, <2>1, <2>2
  <1>5. NoRepeats(r)
    BY <1>2 DEF NoRepeats
  <1> QED BY <1>1, <1>3, <1>4, <1>5 DEF r, h

-----------------------------------------------------------------------------
(* The durable outbox.                                                      *)

\* A worker has an event exactly while it tries to deliver it.
EventHeld ==
  \A d \in Deliverers :
    deliverer[d].event = None <=> deliverer[d].pc \in {"waiting", "gone"}

\* Only an attempt that was not the last is followed by a pause.
RetriesLeft ==
  \A d \in Deliverers : deliverer[d].pc = "backoff" => deliverer[d].attempt < MaxRetries

(* No event is in two places: the channel holds none twice, and no two      *)
(* workers have the same.                                                   *)
InOnePlace ==
  /\ NoRepeats(queue)
  /\ \A c, d \in Deliverers :
       c # d /\ deliverer[c].event = deliverer[d].event => deliverer[c].event = None

\* Where FlushAndClose is says what it has closed, cancelled and waited for.
FlushOrder ==
  /\ cancelled <=> flush \in {"flushed", "timed out"}
  /\ queueClosed <=> flush \in {"waiting", "flushed", "timed out"}
  /\ \A d \in Deliverers : deliverer[d].pc = "gone" /\ ~cancelled => queueClosed /\ queue = <<>>
  /\ flush = "flushed" => AllGone /\ queue = <<>>

\* Each drop was counted for an event of its own.
DropsCounted == droppedCount <= Cardinality({e \in Events : producer[e] = "refused"})

OutboxIInv ==
  /\ OutboxTypeOK /\ EventHeld /\ RetriesLeft /\ InOnePlace /\ EachEventSomewhere
  /\ FlushOrder /\ DropsCounted

LEMMA EventSets ==
  ASSUME NEW S \in SUBSET Events
  PROVE  /\ IsFiniteSet(S) /\ Cardinality(S) \in Nat /\ Cardinality(S) <= Cardinality(Events)
         /\ Cardinality(Events) \in Nat
  BY OutboxAssumption, FS_Subset, FS_CardinalityType

LEMMA QueuedHolds == Queued = Holds(queue)
  BY DEF Queued, Holds

LEMMA OutboxSets ==
  ASSUME OutboxTypeOK
  PROVE  Queued \subseteq Events /\ Working \subseteq Events /\ Accepted \subseteq Events
  <1>1. Queued \subseteq Events
    <2>1. queue \in Seq(Events)
      BY DEF OutboxTypeOK
    <2> QED BY <2>1 DEF Queued
  <1>2. Working \subseteq Events
    BY DEF OutboxTypeOK, Working
  <1> QED BY <1>1, <1>2 DEF Accepted

\* The parts of the type that the steps need one by one.
LEMMA OutboxCounts ==
  ASSUME OutboxTypeOK
  PROVE  /\ queue \in Seq(Events) /\ Len(queue) \in Nat /\ Len(queue) <= QueueSize
         /\ failedCount \in Nat /\ droppedCount \in Nat /\ Cardinality(delivered) \in Nat
         /\ QueueSize \in Nat /\ MaxRetries \in Nat /\ Cardinality(Events) \in Nat
  <1>1. queue \in Seq(Events) /\ Len(queue) <= QueueSize /\ delivered \in SUBSET Events
        /\ failedCount \in 0 .. Cardinality(Events) /\ droppedCount \in 0 .. Cardinality(Events)
    BY DEF OutboxTypeOK
  <1>2. Cardinality(delivered) \in Nat /\ Cardinality(Events) \in Nat
    BY <1>1, EventSets
  <1> QED BY <1>1, <1>2, OutboxAssumption

LEMMA OutboxInitIInv == OutboxInit => OutboxIInv
  <1> SUFFICES ASSUME OutboxInit
               PROVE  OutboxIInv
    OBVIOUS
  <1>1. /\ \A d \in Deliverers : deliverer[d] = Resting
        /\ \A e \in Events : producer[e] = "idle"
        /\ queue = <<>> /\ Len(queue) = 0 /\ delivered = {} /\ deadLetters = {} /\ failedCount = 0
        /\ droppedCount = 0 /\ flush = "idle" /\ ~cancelled /\ ~queueClosed
    BY DEF OutboxInit
  <1>2. Working = {} /\ Queued = {} /\ Accepted = {} /\ {e \in Events : producer[e] = "refused"} = {}
    BY <1>1 DEF Working, Queued, Accepted, Resting
  <1>3. OutboxTypeOK
    <2>1. Cardinality(Events) \in Nat
      BY EventSets
    <2>2. Resting \in [pc : {"waiting", "dispatching", "backoff", "gone"},
                      event : Events \cup {None}, attempt : 0 .. MaxRetries]
      BY OutboxAssumption DEF Resting
    <2>3. /\ producer \in [Events -> {"idle", "sending", "accepted", "refused", "panicked"}]
          /\ deliverer \in [Deliverers -> [pc : {"waiting", "dispatching", "backoff", "gone"},
                                            event : Events \cup {None}, attempt : 0 .. MaxRetries]]
      BY <2>2 DEF OutboxInit
    <2>4. queue \in Seq(Events) /\ Len(queue) <= QueueSize
      BY <1>1, OutboxAssumption
    <2>5. queueClosed \in BOOLEAN /\ isClosed \in BOOLEAN /\ cancelled \in BOOLEAN
      BY DEF OutboxInit
    <2>6. /\ delivered \subseteq Events /\ deadLetters \subseteq Events
          /\ failedCount \in 0 .. Cardinality(Events) /\ droppedCount \in 0 .. Cardinality(Events)
      BY <1>1, <2>1
    <2> QED BY <1>1, <2>3, <2>4, <2>5, <2>6 DEF OutboxTypeOK
  <1>4. EachEventSomewhere
    BY <1>1, <1>2, FS_EmptySet DEF EachEventSomewhere
  <1>5. EventHeld /\ RetriesLeft /\ InOnePlace /\ FlushOrder /\ DropsCounted
    BY <1>1, <1>2, FS_EmptySet
    DEF EventHeld, RetriesLeft, InOnePlace, FlushOrder, DropsCounted, Resting, NoRepeats
  <1> QED BY <1>3, <1>4, <1>5 DEF OutboxIInv

LEMMA BeginEnqueueKeeps ==
  ASSUME OutboxIInv, NEW e \in Events, BeginEnqueue(e)
  PROVE  OutboxIInv'
  <1> DEFINE refused == {x \in Events : producer[x] = "refused"}
  <1>1. /\ UNCHANGED <<queue, queueClosed, isClosed, deliverer, delivered, deadLetters, failedCount,
                       droppedCount, flush, cancelled>>
        /\ producer[e] = "idle" /\ producer'[e] \in {"refused", "sending"}
        /\ \A x \in Events \ {e} : producer'[x] = producer[x]
        /\ producer' \in [Events -> {"idle", "sending", "accepted", "refused", "panicked"}]
    BY DEF BeginEnqueue, OutboxIInv, OutboxTypeOK
  <1>2. Accepted' = Accepted /\ Queued' = Queued /\ Working' = Working
    BY <1>1 DEF Accepted, Queued, Working
  <1>3. refused' = refused \/ refused' = refused \cup {e}
    BY <1>1
  <1>a. IsFiniteSet(refused) /\ Cardinality(refused) \in Nat
    <2>1. refused \in SUBSET Events
      OBVIOUS
    <2> HIDE DEF refused
    <2> QED BY <2>1, EventSets
  <1>4. Cardinality(refused) <= Cardinality(refused') /\ Cardinality(refused') \in Nat
    <2> HIDE DEF refused
    <2> QED BY <1>a, <1>3, FS_AddElement
  <1>5. OutboxTypeOK' /\ EventHeld' /\ RetriesLeft' /\ InOnePlace' /\ FlushOrder'
    BY <1>1 DEF OutboxIInv, OutboxTypeOK, EventHeld, RetriesLeft, InOnePlace, FlushOrder, AllGone
  <1>6. DropsCounted'
    BY <1>1, <1>a, <1>4, OutboxCounts DEF OutboxIInv, DropsCounted
  <1>7. EachEventSomewhere'
    BY <1>1, <1>2 DEF OutboxIInv, EachEventSomewhere
  <1> QED BY <1>5, <1>6, <1>7 DEF OutboxIInv

LEMMA SendKeeps ==
  ASSUME OutboxIInv, NEW e \in Events, Send(e)
  PROVE  OutboxIInv'
  <1> USE OutboxAssumption
  <1> DEFINE refused == {x \in Events : producer[x] = "refused"}
  <1>0. /\ UNCHANGED <<queueClosed, isClosed, deliverer, delivered, deadLetters, failedCount, flush,
                       cancelled>>
        /\ producer[e] = "sending" /\ \A x \in Events \ {e} : producer'[x] = producer[x]
        /\ producer' \in [Events -> {"idle", "sending", "accepted", "refused", "panicked"}]
    BY DEF Send, OutboxIInv, OutboxTypeOK
  <1>b. /\ queue \in Seq(Events) /\ Len(queue) \in Nat /\ Len(queue) <= QueueSize
        /\ droppedCount \in Nat /\ failedCount \in Nat /\ Cardinality(delivered) \in Nat
    BY OutboxCounts DEF OutboxIInv
  <1>1. Working' = Working
    BY <1>0 DEF Working
  <1>2. CASE queueClosed
    <2>1. producer'[e] = "panicked" /\ queue' = queue /\ droppedCount' = droppedCount
      BY <1>2 DEF Send, OutboxIInv, OutboxTypeOK
    <2>2. Accepted' = Accepted /\ Queued' = Queued /\ refused' = refused
      BY <1>0, <2>1 DEF Accepted, Queued
    <2> QED BY <1>0, <1>1, <2>1, <2>2
        DEF OutboxIInv, OutboxTypeOK, EventHeld, RetriesLeft, InOnePlace, EachEventSomewhere, FlushOrder, AllGone,
            DropsCounted
  <1>3. CASE ~queueClosed /\ Len(queue) >= QueueSize
    <2>1. producer'[e] = "refused" /\ queue' = queue /\ droppedCount' = droppedCount + 1
      BY <1>3 DEF Send, OutboxIInv, OutboxTypeOK
    <2>2. Accepted' = Accepted /\ Queued' = Queued /\ refused' = refused \cup {e} /\ e \notin refused
      BY <1>0, <2>1 DEF Accepted, Queued
    <2>3. Cardinality(refused') = Cardinality(refused) + 1
      BY <2>2, EventSets, FS_AddElement
    <2>4. refused \subseteq Events /\ refused' \subseteq Events
      BY <1>0
    <2>5. DropsCounted' /\ droppedCount' \in 0 .. Cardinality(Events)
      BY <1>b, <2>1, <2>3, <2>4, EventSets DEF OutboxIInv, DropsCounted
    <2>6. EachEventSomewhere'
      BY <1>0, <1>1, <2>1, <2>2 DEF OutboxIInv, EachEventSomewhere
    <2>7. EventHeld' /\ RetriesLeft' /\ InOnePlace' /\ FlushOrder'
      BY <1>0, <2>1 DEF OutboxIInv, EventHeld, RetriesLeft, InOnePlace, FlushOrder, AllGone
    <2>8. OutboxTypeOK'
      BY <1>0, <2>1, <2>5 DEF OutboxIInv, OutboxTypeOK
    <2> QED BY <2>5, <2>6, <2>7, <2>8 DEF OutboxIInv
  <1>4. CASE ~queueClosed /\ ~(Len(queue) >= QueueSize)
    <2>1. producer'[e] = "accepted" /\ queue' = Append(queue, e) /\ droppedCount' = droppedCount
      BY <1>4 DEF Send, OutboxIInv, OutboxTypeOK
    <2>2. Accepted' = Accepted \cup {e} /\ e \notin Accepted /\ refused' = refused
      BY <1>0, <2>1 DEF Accepted
    <2>3. e \notin Queued \cup Working \cup delivered \cup deadLetters
      BY <2>2 DEF OutboxIInv, EachEventSomewhere
    <2>4. /\ queue' \in Seq(Events) /\ Len(queue') = Len(queue) + 1
          /\ Queued' = Queued \cup {e} /\ NoRepeats(queue')
      BY <1>b, <2>1, <2>3, AppendHolds, QueuedHolds DEF OutboxIInv, InOnePlace, Holds, Queued
    <2>5. /\ IsFiniteSet(Queued) /\ IsFiniteSet(Queued \cup Working) /\ IsFiniteSet(Accepted)
          /\ Cardinality(Queued) \in Nat /\ Cardinality(Queued \cup Working) \in Nat
          /\ Cardinality(Accepted) \in Nat
      BY OutboxSets, EventSets DEF OutboxIInv
    <2>6. /\ Cardinality(Queued') = Cardinality(Queued) + 1
          /\ Cardinality((Queued \cup Working)') = Cardinality(Queued \cup Working) + 1
          /\ Cardinality(Accepted') = Cardinality(Accepted) + 1
      <3>1. (Queued \cup Working)' = (Queued \cup Working) \cup {e}
        BY <1>1, <2>4
      <3> QED BY <2>2, <2>3, <2>4, <2>5, <3>1, FS_AddElement
    <2>8. EachEventSomewhere'
      <3>a. flush # "timed out" =>
              Cardinality(Accepted) =
                Cardinality(Queued \cup Working) + Cardinality(delivered) + failedCount
        BY DEF OutboxIInv, EachEventSomewhere
      <3>b. delivered' = delivered /\ failedCount' = failedCount /\ flush' = flush
        BY <1>0
      <3>1. flush' # "timed out" =>
              Cardinality(Accepted') =
                Cardinality(Queued' \cup Working') + Cardinality(delivered') + failedCount'
        <4>1. /\ Cardinality(Queued' \cup Working') = Cardinality(Queued \cup Working) + 1
              /\ Cardinality(Accepted') = Cardinality(Accepted) + 1
              /\ Cardinality(delivered') = Cardinality(delivered)
          BY <2>6, <3>b
        <4>2. /\ Cardinality(Queued \cup Working) \in Nat /\ Cardinality(Accepted) \in Nat
              /\ Cardinality(delivered) \in Nat /\ failedCount \in Nat
          BY <1>b, <2>5
        <4>3. \A a, b, c, f \in Nat : a = b + c + f => a + 1 = (b + 1) + c + f
          OBVIOUS
        <4>4. CASE flush # "timed out"
          <5>1. Cardinality(Accepted) = Cardinality(Queued \cup Working) + Cardinality(delivered)
                                          + failedCount
            BY <3>a, <4>4
          <5>2. Cardinality(Accepted) + 1 = (Cardinality(Queued \cup Working) + 1)
                                             + Cardinality(delivered) + failedCount
            BY <4>2, <4>3, <5>1
          <5> QED BY ONLY <3>b, <4>1, <5>2
        <4> QED BY <3>b, <4>4
      <3>2. (Len(queue) = Cardinality(Queued))'
        BY <2>4, <2>6 DEF OutboxIInv, EachEventSomewhere
      <3> QED BY ZenonT(60), <1>0, <1>1, <2>2, <2>3, <2>4, <3>1, <3>2 DEF OutboxIInv, EachEventSomewhere
    <2>9. FlushOrder'
      BY <1>0, <1>4 DEF OutboxIInv, FlushOrder
    <2>10. EventHeld' /\ RetriesLeft' /\ InOnePlace' /\ DropsCounted'
      BY <1>0, <2>1, <2>2, <2>4 DEF OutboxIInv, EventHeld, RetriesLeft, InOnePlace, DropsCounted
    <2>11. OutboxTypeOK'
      <3>1. Len(queue') <= QueueSize
        BY <1>b, <1>4, <2>4, OutboxCounts DEF OutboxIInv
      <3> QED BY <1>0, <2>1, <2>4, <3>1 DEF OutboxIInv, OutboxTypeOK
    <2> QED BY <2>8, <2>9, <2>10, <2>11 DEF OutboxIInv
  <1> QED BY <1>2, <1>3, <1>4

\* The three cardinalities of the account, and what each is of.
LEMMA AccountNumbers ==
  ASSUME OutboxTypeOK
  PROVE  /\ IsFiniteSet(Queued) /\ IsFiniteSet(Queued \cup Working) /\ IsFiniteSet(Accepted)
         /\ IsFiniteSet(delivered)
         /\ Cardinality(Queued) \in Nat /\ Cardinality(Queued \cup Working) \in Nat
         /\ Cardinality(Accepted) \in Nat /\ Cardinality(delivered) \in Nat
         /\ Cardinality(Accepted) <= Cardinality(Events) /\ Cardinality(Events) \in Nat
  <1>1. /\ Queued \in SUBSET Events /\ (Queued \cup Working) \in SUBSET Events
        /\ Accepted \in SUBSET Events /\ delivered \in SUBSET Events
    BY OutboxSets DEF OutboxTypeOK
  <1> QED BY <1>1, EventSets

LEMMA ReceiveKeeps ==
  ASSUME OutboxIInv, NEW d \in Deliverers, Receive(d)
  PROVE  OutboxIInv'
  <1> DEFINE h == Head(queue)
  <1>1. /\ UNCHANGED <<producer, queueClosed, isClosed, delivered, deadLetters, failedCount,
                       droppedCount, flush, cancelled>>
        /\ queue' = Tail(queue) /\ queue # <<>> /\ deliverer[d].pc = "waiting"
        /\ deliverer' = [deliverer EXCEPT ![d] = [pc |-> "dispatching", event |-> h,
                                                  attempt |-> 0]]
    BY DEF Receive
  <1>2. /\ queue \in Seq(Events) /\ Len(queue) \in Nat /\ Len(queue) <= QueueSize
        /\ QueueSize \in Nat /\ MaxRetries \in Nat
    BY OutboxCounts DEF OutboxIInv
  <1>3. /\ queue' \in Seq(Events) /\ Len(queue') = Len(queue) - 1 /\ h \in Events
        /\ h \in Queued /\ Queued' = Queued \ {h} /\ NoRepeats(queue')
    BY <1>1, <1>2, TailHolds, QueuedHolds DEF OutboxIInv, InOnePlace, Holds, Queued
  <1>4. h # None /\ h \notin Working
    BY <1>3, OutboxAssumption DEF OutboxIInv, EachEventSomewhere
  <1>5. /\ deliverer'[d].event = h /\ deliverer'[d].pc = "dispatching" /\ deliverer'[d].attempt = 0
        /\ \A c \in Deliverers \ {d} : deliverer'[c] = deliverer[c]
        /\ deliverer' \in [Deliverers -> [pc : {"waiting", "dispatching", "backoff", "gone"},
                                          event : Events \cup {None}, attempt : 0 .. MaxRetries]]
    <2> HIDE DEF h
    <2>1. [pc |-> "dispatching", event |-> h, attempt |-> 0]
             \in [pc : {"waiting", "dispatching", "backoff", "gone"},
                  event : Events \cup {None}, attempt : 0 .. MaxRetries]
      BY <1>2, <1>3
    <2> QED BY <1>1, <2>1 DEF OutboxIInv, OutboxTypeOK
  <1> HIDE DEF h
  <1>6. deliverer[d].event = None
    BY <1>1 DEF OutboxIInv, EventHeld
  <1>7. Working' = Working \cup {h}
    BY <1>4, <1>5, <1>6 DEF Working
  <1>8. Queued' \cup Working' = Queued \cup Working /\ Accepted' = Accepted
    BY <1>1, <1>3, <1>7 DEF Accepted
  <1>9. EventHeld' /\ RetriesLeft'
    BY <1>4, <1>5 DEF OutboxIInv, EventHeld, RetriesLeft
  <1>10. InOnePlace'
    <2>1. \A c \in Deliverers \ {d} : deliverer[c].event # h
      BY <1>4 DEF Working
    <2> QED BY <1>3, <1>5, <2>1 DEF OutboxIInv, InOnePlace
  <1>11. EachEventSomewhere'
    <2>1. Cardinality(Queued') = Cardinality(Queued) - 1
      BY <1>3, AccountNumbers, FS_RemoveElement DEF OutboxIInv
    <2>2. (Len(queue) = Cardinality(Queued))'
      BY <1>3, <2>1 DEF OutboxIInv, EachEventSomewhere
    <2>3. (Queued \cap Working = {})'
      BY <1>3, <1>7 DEF OutboxIInv, EachEventSomewhere
    <2> QED BY <1>1, <1>8, <2>2, <2>3 DEF OutboxIInv, EachEventSomewhere
  <1>12. FlushOrder'
    <2>1. queue = <<>> => FALSE
      BY <1>1
    <2>2. ~AllGone
      BY <1>1 DEF AllGone
    <2>3. flush # "flushed"
      BY <2>2 DEF OutboxIInv, FlushOrder
    <2>4. \A c \in Deliverers : deliverer'[c].pc = "gone" => deliverer[c].pc = "gone"
      BY <1>5
    <2>5. \A c \in Deliverers : deliverer[c].pc = "gone" => cancelled
      BY <2>1 DEF OutboxIInv, FlushOrder
    <2> QED BY <1>1, <2>3, <2>4, <2>5 DEF OutboxIInv, FlushOrder
  <1>13. OutboxTypeOK'
    <2>1. Len(queue') <= QueueSize
      BY <1>2, <1>3
    <2> QED BY <1>1, <1>3, <1>5, <2>1 DEF OutboxIInv, OutboxTypeOK
  <1>14. DropsCounted'
    BY <1>1 DEF OutboxIInv, DropsCounted
  <1> QED BY <1>9, <1>10, <1>11, <1>12, <1>13, <1>14 DEF OutboxIInv

\* A worker that lets go of its event is the only one that had it.
LEMMA RestReleases ==
  ASSUME OutboxIInv, NEW d \in Deliverers, deliverer[d].pc \in {"dispatching", "backoff"}, Rest(d)
  PROVE  /\ deliverer[d].event \in Events /\ deliverer[d].event \in Working
         /\ deliverer[d].event \notin Queued
         /\ Working' = Working \ {deliverer[d].event}
         /\ deliverer'[d] = Resting /\ \A c \in Deliverers \ {d} : deliverer'[c] = deliverer[c]
         /\ deliverer' \in [Deliverers -> [pc : {"waiting", "dispatching", "backoff", "gone"},
                                           event : Events \cup {None}, attempt : 0 .. MaxRetries]]
         /\ EventHeld' /\ RetriesLeft'
         /\ \A b, c \in Deliverers :
              b # c /\ deliverer'[b].event = deliverer'[c].event => deliverer'[b].event = None
  <1>1. deliverer[d].event # None /\ deliverer[d].event \in Events
    BY DEF OutboxIInv, EventHeld, OutboxTypeOK
  <1>2. deliverer'[d] = Resting /\ \A c \in Deliverers \ {d} : deliverer'[c] = deliverer[c]
    BY DEF Rest, OutboxIInv, OutboxTypeOK
  <1>3. Resting \in [pc : {"waiting", "dispatching", "backoff", "gone"},
                    event : Events \cup {None}, attempt : 0 .. MaxRetries]
    BY OutboxAssumption DEF Resting
  <1>4. deliverer' \in [Deliverers -> [pc : {"waiting", "dispatching", "backoff", "gone"},
                                       event : Events \cup {None}, attempt : 0 .. MaxRetries]]
    BY <1>3 DEF Rest, OutboxIInv, OutboxTypeOK
  <1>5. Resting.event = None /\ Resting.pc = "waiting"
    BY DEF Resting
  <1>6. deliverer[d].event \in Working /\ deliverer[d].event \notin Queued
    BY <1>1 DEF Working, OutboxIInv, EachEventSomewhere
  <1>7. \A c \in Deliverers \ {d} : deliverer[c].event # deliverer[d].event
    BY <1>1 DEF OutboxIInv, InOnePlace
  <1>8. Working' = Working \ {deliverer[d].event}
    BY <1>1, <1>2, <1>5, <1>7 DEF Working
  <1>9. EventHeld' /\ RetriesLeft'
    BY <1>2, <1>5 DEF OutboxIInv, EventHeld, RetriesLeft
  <1>10. \A b, c \in Deliverers :
            b # c /\ deliverer'[b].event = deliverer'[c].event => deliverer'[b].event = None
    BY <1>2, <1>5 DEF OutboxIInv, InOnePlace
  <1> QED BY <1>1, <1>2, <1>4, <1>6, <1>8, <1>9, <1>10

\* While a worker is at work no flush has succeeded, and none of those that are gone came back.
LEMMA RestKeepsOrder ==
  ASSUME OutboxIInv, NEW d \in Deliverers, deliverer[d].pc \in {"dispatching", "backoff"}, Rest(d),
         UNCHANGED <<queue, queueClosed, flush, cancelled>>
  PROVE  FlushOrder' /\ flush # "flushed"
  <1>1. deliverer'[d].pc = "waiting" /\ \A c \in Deliverers \ {d} : deliverer'[c] = deliverer[c]
    BY RestReleases DEF Resting
  <1>2. ~AllGone
    BY DEF AllGone
  <1>3. flush # "flushed"
    BY <1>2 DEF OutboxIInv, FlushOrder
  <1> QED BY <1>1, <1>3 DEF OutboxIInv, FlushOrder

LEMMA DeliverKeeps ==
  ASSUME OutboxIInv, NEW d \in Deliverers, Deliver(d)
  PROVE  OutboxIInv'
  <1> DEFINE e == deliverer[d].event
  <1>1. /\ UNCHANGED <<producer, queue, queueClosed, isClosed, deadLetters, failedCount,
                       droppedCount, flush, cancelled>>
        /\ deliverer[d].pc = "dispatching" /\ delivered' = delivered \cup {e} /\ Rest(d)
    BY DEF Deliver
  <1>2. /\ e \in Events /\ e \in Working /\ e \notin Queued /\ Working' = Working \ {e}
        /\ deliverer' \in [Deliverers -> [pc : {"waiting", "dispatching", "backoff", "gone"},
                                          event : Events \cup {None}, attempt : 0 .. MaxRetries]]
        /\ EventHeld' /\ RetriesLeft'
    BY <1>1, RestReleases
  <1> HIDE DEF e
  <1>3. Queued' = Queued /\ Accepted' = Accepted
    BY <1>1 DEF Queued, Accepted
  <1>4. e \notin delivered \cup deadLetters /\ e \in Accepted
    BY <1>2 DEF OutboxIInv, EachEventSomewhere
  <1>5. Queued' \cup Working' = (Queued \cup Working) \ {e}
    BY <1>2, <1>3
  <1>6. /\ Cardinality(Queued' \cup Working') = Cardinality(Queued \cup Working) - 1
        /\ Cardinality(delivered') = Cardinality(delivered) + 1
    BY ZenonT(60), <1>1, <1>2, <1>4, <1>5, AccountNumbers, FS_RemoveElement, FS_AddElement DEF OutboxIInv
  <1>7. EachEventSomewhere'
    <2>1. /\ Cardinality(Queued \cup Working) \in Nat /\ Cardinality(delivered) \in Nat
          /\ failedCount \in Nat /\ Cardinality(Accepted) \in Nat
      BY AccountNumbers, OutboxCounts DEF OutboxIInv
    <2>2. flush # "timed out" =>
            Cardinality(Accepted) =
              (Cardinality(Queued \cup Working) - 1) + (Cardinality(delivered) + 1) + failedCount
      <3>2. flush # "timed out" =>
              Cardinality(Accepted) = Cardinality(Queued \cup Working) + Cardinality(delivered)
                                        + failedCount
        BY DEF OutboxIInv, EachEventSomewhere
      <3>3. CASE flush # "timed out"
        <4> DEFINE a == Cardinality(Accepted)
                   b == Cardinality(Queued \cup Working)
                   c == Cardinality(delivered)
        <4>1. a \in Nat /\ b \in Nat /\ c \in Nat /\ failedCount \in Nat /\ a = b + c + failedCount
          BY <2>1, <3>2, <3>3
        <4>2. a = (b - 1) + (c + 1) + failedCount
          <5> HIDE DEF a, b, c
          <5> QED BY <4>1
        <4> QED BY <4>2
      <3> QED BY <3>3
    <2>3. flush' # "timed out" =>
            Cardinality(Accepted') =
              Cardinality(Queued' \cup Working') + Cardinality(delivered') + failedCount'
      BY <1>1, <1>3, <1>6, <2>2
    <2> QED BY <1>1, <1>2, <1>3, <1>4, <2>3 DEF OutboxIInv, EachEventSomewhere
  <1>8. InOnePlace'
    BY <1>1, RestReleases DEF OutboxIInv, InOnePlace
  <1>9. FlushOrder'
    BY <1>1, RestKeepsOrder
  <1>10. OutboxTypeOK' /\ DropsCounted'
    BY <1>1, <1>2 DEF OutboxIInv, OutboxTypeOK, DropsCounted
  <1> QED BY <1>2, <1>7, <1>8, <1>9, <1>10 DEF OutboxIInv

LEMMA AbandonKeeps ==
  ASSUME OutboxIInv, NEW d \in Deliverers, Abandon(d)
  PROVE  OutboxIInv'
  <1>1. /\ UNCHANGED <<producer, queue, queueClosed, isClosed, delivered, deadLetters, failedCount,
                       droppedCount, flush, cancelled>>
        /\ deliverer[d].pc \in {"dispatching", "backoff"} /\ cancelled /\ Rest(d)
    BY DEF Abandon
  <1>2. /\ Working' \subseteq Working
        /\ deliverer' \in [Deliverers -> [pc : {"waiting", "dispatching", "backoff", "gone"},
                                          event : Events \cup {None}, attempt : 0 .. MaxRetries]]
        /\ EventHeld' /\ RetriesLeft'
    BY <1>1, RestReleases
  <1>3. Queued' = Queued /\ Accepted' = Accepted
    BY <1>1 DEF Queued, Accepted
  <1>4. FlushOrder' /\ flush # "flushed"
    BY <1>1, RestKeepsOrder
  <1>5. flush = "timed out"
    BY <1>1, <1>4 DEF OutboxIInv, FlushOrder
  <1>6. EachEventSomewhere'
    BY <1>1, <1>2, <1>3, <1>5 DEF OutboxIInv, EachEventSomewhere
  <1>7. InOnePlace'
    BY <1>1, RestReleases DEF OutboxIInv, InOnePlace
  <1>8. OutboxTypeOK' /\ DropsCounted'
    BY <1>1, <1>2 DEF OutboxIInv, OutboxTypeOK, DropsCounted
  <1> QED BY <1>2, <1>4, <1>6, <1>7, <1>8 DEF OutboxIInv

LEMMA FailKeeps ==
  ASSUME OutboxIInv, NEW d \in Deliverers, Fail(d)
  PROVE  OutboxIInv'
  <1> DEFINE e == deliverer[d].event
  <1>1. /\ UNCHANGED <<producer, queue, queueClosed, isClosed, delivered, droppedCount, flush,
                       cancelled>>
        /\ deliverer[d].pc = "dispatching" /\ ~cancelled
    BY DEF Fail
  <1>2. Queued' = Queued /\ Accepted' = Accepted
    BY <1>1 DEF Queued, Accepted
  <1>3. /\ MaxRetries \in Nat /\ Cardinality(Queued \cup Working) \in Nat
        /\ Cardinality(delivered) \in Nat /\ failedCount \in Nat /\ Cardinality(Accepted) \in Nat
        /\ Cardinality(Events) \in Nat /\ Cardinality(Accepted) <= Cardinality(Events)
    BY AccountNumbers, OutboxCounts DEF OutboxIInv
  <1>4. CASE deliverer[d].attempt < MaxRetries
    <2>1. /\ deliverer' = [deliverer EXCEPT ![d].pc = "backoff"]
          /\ UNCHANGED <<deadLetters, failedCount>>
      BY <1>4 DEF Fail
    <2>2. /\ deliverer' \in [Deliverers -> [pc : {"waiting", "dispatching", "backoff", "gone"},
                                            event : Events \cup {None}, attempt : 0 .. MaxRetries]]
          /\ deliverer'[d].pc = "backoff" /\ deliverer'[d].event = deliverer[d].event
          /\ deliverer'[d].attempt = deliverer[d].attempt
          /\ \A c \in Deliverers \ {d} : deliverer'[c] = deliverer[c]
      BY <2>1 DEF OutboxIInv, OutboxTypeOK
    <2>3. \A c \in Deliverers : deliverer'[c].event = deliverer[c].event
      BY <2>2
    <2>4. Working' = Working
      BY <2>3 DEF Working
    <2>5. EventHeld' /\ RetriesLeft'
      BY <1>1, <1>4, <2>2, <2>3 DEF OutboxIInv, EventHeld, RetriesLeft
    <2>6. InOnePlace'
      BY <1>1, <2>3 DEF OutboxIInv, InOnePlace
    <2>7. FlushOrder'
      <3>1. ~AllGone
        BY <1>1 DEF AllGone
      <3>2. flush # "flushed"
        BY <3>1 DEF OutboxIInv, FlushOrder
      <3> QED BY <1>1, <2>2, <3>2 DEF OutboxIInv, FlushOrder
    <2>8. EachEventSomewhere'
      BY <1>1, <1>2, <2>1, <2>4 DEF OutboxIInv, EachEventSomewhere
    <2>9. OutboxTypeOK' /\ DropsCounted'
      BY <1>1, <2>1, <2>2 DEF OutboxIInv, OutboxTypeOK, DropsCounted
    <2> QED BY <2>5, <2>6, <2>7, <2>8, <2>9 DEF OutboxIInv
  <1>5. CASE ~(deliverer[d].attempt < MaxRetries)
    <2>1. /\ Rest(d) /\ failedCount' = failedCount + 1
          /\ deadLetters' \in {deadLetters, deadLetters \cup {e}}
      BY <1>5 DEF Fail
    <2>2. /\ e \in Events /\ e \in Working /\ e \notin Queued /\ Working' = Working \ {e}
          /\ deliverer' \in [Deliverers -> [pc : {"waiting", "dispatching", "backoff", "gone"},
                                            event : Events \cup {None}, attempt : 0 .. MaxRetries]]
          /\ EventHeld' /\ RetriesLeft'
      BY <1>1, <2>1, RestReleases
    <2> HIDE DEF e
    <2>3. e \notin delivered \cup deadLetters /\ e \in Accepted
      BY <2>2 DEF OutboxIInv, EachEventSomewhere
    <2>4. FlushOrder' /\ flush # "flushed"
      BY <1>1, <2>1, RestKeepsOrder
    <2>5. flush # "timed out"
      BY <1>1 DEF OutboxIInv, FlushOrder
    <2>6. Cardinality(Queued' \cup Working') = Cardinality(Queued \cup Working) - 1
      <3>1. Queued' \cup Working' = (Queued \cup Working) \ {e}
        BY <1>2, <2>2
      <3> QED BY ZenonT(60), <2>2, <3>1, AccountNumbers, FS_RemoveElement DEF OutboxIInv
    <2>7. /\ Cardinality(Accepted) =
               Cardinality(Queued \cup Working) + Cardinality(delivered) + failedCount
      BY <2>5 DEF OutboxIInv, EachEventSomewhere
    <2>8. Cardinality(Queued \cup Working) # 0
      <3>1. e \in Queued \cup Working /\ IsFiniteSet(Queued \cup Working)
        BY <2>2, AccountNumbers DEF OutboxIInv
      <3> QED BY <3>1, FS_EmptySet
    <2>9. Cardinality(Accepted') =
            Cardinality(Queued' \cup Working') + Cardinality(delivered') + failedCount'
      <3>1. \A a, b, c, f \in Nat : a = b + c + f => a = (b - 1) + c + (f + 1)
        OBVIOUS
      <3>2. Cardinality(Accepted) =
              (Cardinality(Queued \cup Working) - 1) + Cardinality(delivered) + (failedCount + 1)
        BY <1>3, <2>7, <3>1
      <3> QED BY <1>1, <1>2, <2>1, <2>6, <3>2
    <2>10. failedCount' \in 0 .. Cardinality(Events)
      <3>1. \A a, b, c, f, n \in Nat : a = b + c + f /\ b # 0 /\ a <= n => f + 1 \in 0 .. n
        OBVIOUS
      <3> QED BY <1>3, <2>1, <2>7, <2>8, <3>1
    <2>11. EachEventSomewhere'
      BY ZenonT(60), <1>1, <1>2, <2>1, <2>2, <2>3, <2>9 DEF OutboxIInv, EachEventSomewhere
    <2>12. InOnePlace'
      BY <1>1, <2>1, RestReleases DEF OutboxIInv, InOnePlace
    <2>13. OutboxTypeOK' /\ DropsCounted'
      BY <1>1, <2>1, <2>2, <2>10 DEF OutboxIInv, OutboxTypeOK, DropsCounted
    <2> QED BY <2>2, <2>4, <2>11, <2>12, <2>13 DEF OutboxIInv
  <1> QED BY <1>4, <1>5

LEMMA TwoFields ==
  ASSUME NEW P, NEW E, NEW A, NEW x \in [pc : P, event : E, attempt : A], NEW p \in P, NEW a \in A
  PROVE  /\ [x EXCEPT !.pc = p, !.attempt = a] \in [pc : P, event : E, attempt : A]
         /\ [x EXCEPT !.pc = p, !.attempt = a].pc = p
         /\ [x EXCEPT !.pc = p, !.attempt = a].event = x.event
  OBVIOUS

LEMMA TryAgainKeeps ==
  ASSUME OutboxIInv, NEW d \in Deliverers, TryAgain(d)
  PROVE  OutboxIInv'
  <1>1. /\ UNCHANGED <<producer, queue, queueClosed, isClosed, delivered, deadLetters, failedCount,
                       droppedCount, flush, cancelled>>
        /\ deliverer[d].pc = "backoff"
        /\ deliverer' = [deliverer EXCEPT ![d].pc = "dispatching", ![d].attempt = @ + 1]
    BY DEF TryAgain
  <1>2. deliverer[d].attempt \in 0 .. MaxRetries /\ deliverer[d].attempt < MaxRetries
        /\ MaxRetries \in Nat
    BY <1>1, OutboxCounts DEF OutboxIInv, RetriesLeft, OutboxTypeOK
  <1>3. /\ deliverer' \in [Deliverers -> [pc : {"waiting", "dispatching", "backoff", "gone"},
                                          event : Events \cup {None}, attempt : 0 .. MaxRetries]]
        /\ deliverer'[d].pc = "dispatching" /\ deliverer'[d].event = deliverer[d].event
        /\ \A c \in Deliverers \ {d} : deliverer'[c] = deliverer[c]
    <2> DEFINE r == [deliverer[d] EXCEPT !.pc = "dispatching", !.attempt = @ + 1]
    <2>1. r \in [pc : {"waiting", "dispatching", "backoff", "gone"},
                 event : Events \cup {None}, attempt : 0 .. MaxRetries]
          /\ r.pc = "dispatching" /\ r.event = deliverer[d].event
      <3>1. deliverer[d] \in [pc : {"waiting", "dispatching", "backoff", "gone"},
                              event : Events \cup {None}, attempt : 0 .. MaxRetries]
        BY DEF OutboxIInv, OutboxTypeOK
      <3>2. deliverer[d].attempt + 1 \in 0 .. MaxRetries
        BY <1>2
      <3> QED BY <3>1, <3>2, TwoFields
    <2>2. deliverer' = [deliverer EXCEPT ![d] = r]
      BY <1>1
    <2> HIDE DEF r
    <2> QED BY <2>1, <2>2 DEF OutboxIInv, OutboxTypeOK
  <1>4. \A c \in Deliverers : deliverer'[c].event = deliverer[c].event
    BY <1>3
  <1>5. Working' = Working /\ Queued' = Queued /\ Accepted' = Accepted
    BY <1>1, <1>4 DEF Working, Queued, Accepted
  <1>6. EventHeld' /\ RetriesLeft'
    BY <1>1, <1>3 DEF OutboxIInv, EventHeld, RetriesLeft
  <1>7. InOnePlace'
    BY <1>1, <1>4 DEF OutboxIInv, InOnePlace
  <1>8. FlushOrder'
    <2>1. ~AllGone
      BY <1>1 DEF AllGone
    <2>2. flush # "flushed"
      BY <2>1 DEF OutboxIInv, FlushOrder
    <2> QED BY <1>1, <1>3, <2>2 DEF OutboxIInv, FlushOrder
  <1>9. EachEventSomewhere'
    BY <1>1, <1>5 DEF OutboxIInv, EachEventSomewhere
  <1>10. OutboxTypeOK' /\ DropsCounted'
    BY <1>1, <1>3 DEF OutboxIInv, OutboxTypeOK, DropsCounted
  <1> QED BY <1>6, <1>7, <1>8, <1>9, <1>10 DEF OutboxIInv

LEMMA StopWorkingKeeps ==
  ASSUME OutboxIInv, NEW d \in Deliverers, StopWorking(d)
  PROVE  OutboxIInv'
  <1>1. /\ UNCHANGED <<producer, queue, queueClosed, isClosed, delivered, deadLetters, failedCount,
                       droppedCount, flush, cancelled>>
        /\ deliverer[d].pc = "waiting" /\ (cancelled \/ (queueClosed /\ queue = <<>>))
        /\ deliverer' = [deliverer EXCEPT ![d].pc = "gone"]
    BY DEF StopWorking
  <1>2. /\ deliverer' \in [Deliverers -> [pc : {"waiting", "dispatching", "backoff", "gone"},
                                          event : Events \cup {None}, attempt : 0 .. MaxRetries]]
        /\ deliverer'[d].pc = "gone" /\ deliverer'[d].event = deliverer[d].event
        /\ \A c \in Deliverers \ {d} : deliverer'[c] = deliverer[c]
    BY <1>1 DEF OutboxIInv, OutboxTypeOK
  <1>3. \A c \in Deliverers : deliverer'[c].event = deliverer[c].event
    BY <1>2
  <1>4. Working' = Working /\ Queued' = Queued /\ Accepted' = Accepted
    BY <1>1, <1>3 DEF Working, Queued, Accepted
  <1>5. EventHeld' /\ RetriesLeft'
    BY <1>1, <1>2 DEF OutboxIInv, EventHeld, RetriesLeft
  <1>6. InOnePlace'
    BY <1>1, <1>3 DEF OutboxIInv, InOnePlace
  <1>7. FlushOrder'
    <2>1. ~AllGone
      BY <1>1 DEF AllGone
    <2>2. flush # "flushed"
      BY <2>1 DEF OutboxIInv, FlushOrder
    <2> QED BY <1>1, <1>2, <2>2 DEF OutboxIInv, FlushOrder
  <1>8. EachEventSomewhere'
    BY <1>1, <1>4 DEF OutboxIInv, EachEventSomewhere
  <1>9. OutboxTypeOK' /\ DropsCounted'
    BY <1>1, <1>2 DEF OutboxIInv, OutboxTypeOK, DropsCounted
  <1> QED BY <1>5, <1>6, <1>7, <1>8, <1>9 DEF OutboxIInv

LEMMA FlushKeeps ==
  ASSUME OutboxIInv, BeginFlush \/ CloseQueue \/ FinishFlush
  PROVE  OutboxIInv'
  <1>1. UNCHANGED <<producer, queue, deliverer, delivered, deadLetters, failedCount, droppedCount>>
    BY DEF BeginFlush, CloseQueue, FinishFlush
  <1>2. Working' = Working /\ Queued' = Queued /\ Accepted' = Accepted /\ (AllGone <=> AllGone')
    BY <1>1 DEF Working, Queued, Accepted, AllGone
  <1>3. EventHeld' /\ RetriesLeft' /\ InOnePlace' /\ DropsCounted'
    BY <1>1 DEF OutboxIInv, EventHeld, RetriesLeft, InOnePlace, DropsCounted
  <1>4. flush # "timed out"
    BY DEF BeginFlush, CloseQueue, FinishFlush
  <1>5. EachEventSomewhere'
    BY <1>1, <1>2, <1>4 DEF OutboxIInv, EachEventSomewhere
  <1>6. FlushOrder'
    <2>1. CASE BeginFlush \/ CloseQueue
      <3>1. /\ flush' \notin {"flushed", "timed out"} /\ flush \notin {"flushed", "timed out"}
            /\ cancelled' = cancelled /\ (flush' = "waiting" <=> CloseQueue)
        BY <2>1 DEF BeginFlush, CloseQueue
      <3>2. CASE CloseQueue
        BY <1>1, <3>1, <3>2 DEF CloseQueue, OutboxIInv, FlushOrder
      <3>3. CASE BeginFlush
        BY <1>1, <3>1, <3>3 DEF BeginFlush, OutboxIInv, FlushOrder
      <3> QED BY <2>1, <3>2, <3>3
    <2>2. CASE FinishFlush
      <3>1. ~cancelled /\ cancelled' /\ queueClosed /\ queueClosed' = queueClosed
        BY <2>2 DEF FinishFlush, OutboxIInv, FlushOrder, OutboxTypeOK
      <3>2. flush' \in {"flushed", "timed out"} /\ (flush' = "flushed" => AllGone)
        BY <2>2 DEF FinishFlush
      <3>3. AllGone => queue = <<>>
        BY <3>1, OutboxAssumption DEF AllGone, OutboxIInv, FlushOrder
      <3> QED BY <1>1, <1>2, <3>1, <3>2, <3>3 DEF FlushOrder
    <2> QED BY <2>1, <2>2
  <1>7. OutboxTypeOK'
    <2>1. /\ queueClosed' \in BOOLEAN /\ isClosed' \in BOOLEAN /\ cancelled' \in BOOLEAN
          /\ flush' \in {"idle", "closing", "waiting", "flushed", "timed out"}
      BY DEF BeginFlush, CloseQueue, FinishFlush, OutboxIInv, OutboxTypeOK
    <2> QED BY <1>1, <2>1 DEF OutboxIInv, OutboxTypeOK
  <1> QED BY <1>3, <1>5, <1>6, <1>7 DEF OutboxIInv

\* A flush that succeeded waited until no event was left on the way.
LEMMA FlushedIsEmpty == OutboxIInv => OutboxKeeps
  <1> SUFFICES ASSUME OutboxIInv
               PROVE  OutboxKeeps
    OBVIOUS
  <1>1. flush = "flushed" => Queued \cup Working = {}
    <2> SUFFICES ASSUME flush = "flushed"
                 PROVE  Queued \cup Working = {}
      OBVIOUS
    <2>1. AllGone /\ queue = <<>>
      BY DEF OutboxIInv, FlushOrder
    <2>2. Queued = {}
      BY <2>1 DEF Queued
    <2>3. Working = {}
      BY <2>1 DEF AllGone, Working, OutboxIInv, EventHeld
    <2> QED BY <2>2, <2>3
  <1>2. FlushLeavesNothing
    <2>1. Cardinality(delivered) \in Nat /\ failedCount \in Nat
      BY OutboxCounts DEF OutboxIInv
    <2>2. flush = "flushed" =>
            Cardinality(Accepted) = Cardinality({}) + Cardinality(delivered) + failedCount
      BY <1>1 DEF OutboxIInv, EachEventSomewhere
    <2> QED BY <2>1, <2>2, FS_EmptySet DEF FlushLeavesNothing
  <1> QED BY <1>2 DEF OutboxKeeps, OutboxIInv

(* No event is lost or doubled on the way through the outbox, and a flush   *)
(* that reports success left nothing behind: Enqueue's send, the workers'   *)
(* retries and FlushAndClose, in every order they can run.                  *)
THEOREM OutboxIsSafe == OutboxSpec => []OutboxKeeps
  <1>1. OutboxInit => OutboxIInv
    BY OutboxInitIInv
  <1>2. OutboxIInv /\ [OutboxNext]_outboxVars => OutboxIInv'
    <2> SUFFICES ASSUME OutboxIInv, [OutboxNext]_outboxVars
                 PROVE  OutboxIInv'
      OBVIOUS
    <2>1. ASSUME NEW e \in Events, BeginEnqueue(e)
          PROVE  OutboxIInv'
      BY <2>1, BeginEnqueueKeeps
    <2>2. ASSUME NEW e \in Events, Send(e)
          PROVE  OutboxIInv'
      BY <2>2, SendKeeps
    <2>3. ASSUME NEW d \in Deliverers, WorkerStep(d)
          PROVE  OutboxIInv'
      BY <2>3, ReceiveKeeps, StopWorkingKeeps, DeliverKeeps, FailKeeps, TryAgainKeeps, AbandonKeeps
      DEF WorkerStep
    <2>4. CASE BeginFlush \/ CloseQueue \/ FinishFlush
      BY <2>4, FlushKeeps
    <2>5. CASE UNCHANGED outboxVars
      <3>1. UNCHANGED <<producer, queue, queueClosed, isClosed, deliverer, delivered, deadLetters,
                        failedCount, droppedCount, flush, cancelled>>
        BY <2>5 DEF outboxVars
      <3>2. Queued' = Queued /\ Working' = Working /\ Accepted' = Accepted /\ (AllGone <=> AllGone')
        BY <3>1 DEF Queued, Working, Accepted, AllGone
      <3>3. OutboxTypeOK' /\ EventHeld' /\ RetriesLeft'
        BY <3>1 DEF OutboxIInv, OutboxTypeOK, EventHeld, RetriesLeft
      <3>4. EachEventSomewhere' /\ InOnePlace' /\ DropsCounted'
        BY <3>1, <3>2 DEF OutboxIInv, EachEventSomewhere, InOnePlace, DropsCounted
      <3>5. FlushOrder'
        BY <3>1, <3>2 DEF OutboxIInv, FlushOrder
      <3> QED BY <3>3, <3>4, <3>5 DEF OutboxIInv
    <2> QED BY <2>1, <2>2, <2>3, <2>4, <2>5 DEF OutboxNext
  <1>3. OutboxIInv => OutboxKeeps
    BY FlushedIsEmpty
  <1> QED BY <1>1, <1>2, <1>3, PTL DEF OutboxSpec

-----------------------------------------------------------------------------
(* The shadow scorer.                                                       *)

\* What the pool's counters count.
Requested == {s \in Scored : sender[s] \in {"counted", "queued", "dropped", "panicked"}}
Refused == {s \in Scored : sender[s] = "dropped"}
Found == {s \in Scored : row[s].state # "none"}
FoundFrom == [k \in Kinds |-> {s \in Found : Kind(Champion[s]) = k}]
FoundTo == [k \in Kinds |-> {s \in Found : row[s].decision = k}]

\* A task is in the channel, or with one worker, and is found out once.
TaskInOnePlace ==
  /\ NoRepeats(channelQ)
  /\ \A v, w \in ShadowWorkers : v # w /\ working[v] \in Scored => working[v] # working[w]
  /\ Holds(channelQ) \cap InHand = {} /\ Holds(channelQ) \cap Found = {}
  /\ \A s \in Scored : sender[s] = "queued" <=> s \in Holds(channelQ) \cup InHand \cup Found

\* The counters are exact.
CountersExact ==
  /\ counted["requests"] = Cardinality(Requested) /\ counted["dropped"] = Cardinality(Refused)
  /\ counted["success"] + counted["errors"] = Cardinality(Found)
  /\ counted["divergence"] <= Cardinality(Found)
  /\ \A k \in Kinds : /\ tally.champion[k] = Cardinality(FoundFrom[k])
                      /\ tally.challenger[k] = Cardinality(FoundTo[k])

\* A worker has left only when the closed channel was empty.
PoolOrder ==
  /\ (\E w \in ShadowWorkers : working[w] = Exited) => pool.channel = "closed" /\ channelQ = <<>>
  /\ pool.result = "graceful" => \A w \in ShadowWorkers : working[w] = Exited

ShadowIInv == ShadowTypeOK /\ TaskInOnePlace /\ CountersExact /\ PoolOrder

LEMMA ScoredSets ==
  ASSUME NEW S \in SUBSET Scored
  PROVE  /\ IsFiniteSet(S) /\ Cardinality(S) \in Nat /\ Cardinality(S) <= Cardinality(Scored)
         /\ Cardinality(Scored) \in Nat
  BY ShadowAssumption, FS_Subset, FS_CardinalityType

LEMMA KindOf ==
  /\ \A s \in Scored : Kind(Champion[s]) \in Kinds /\ Challenger[s] \in Kinds
  /\ "REVIEW" \in Kinds
  BY ShadowAssumption DEF Kind, Kinds

LEMMA InHandIs == InHand = {s \in Scored : \E w \in ShadowWorkers : working[w] = s}
  BY DEF InHand

LEMMA ShadowQueueType ==
  ASSUME ShadowTypeOK
  PROVE  /\ channelQ \in Seq(Scored) /\ Len(channelQ) \in Nat /\ Len(channelQ) <= ShadowQueue
         /\ Holds(channelQ) \in SUBSET Scored /\ InHand \in SUBSET Scored
         /\ Uncounted \in SUBSET Scored /\ Found \in SUBSET Scored
  <1>1. channelQ \in Seq(Scored) /\ Len(channelQ) <= ShadowQueue
    BY DEF ShadowTypeOK
  <1>2. InHand \in SUBSET Scored
    BY InHandIs
  <1> QED BY <1>1, <1>2 DEF Holds, Uncounted, Found

\* A sequence without repetitions is as long as what it holds is large.
LEMMA HeldCardinality ==
  ASSUME NEW S, IsFiniteSet(S), NEW q \in Seq(S), NoRepeats(q)
  PROVE  Cardinality(Holds(q)) = Len(q) /\ Len(q) \in Nat
  <1>1. Len(q) \in Nat /\ IsFiniteSet(1 .. Len(q)) /\ Cardinality(1 .. Len(q)) = Len(q)
    <2>1. Len(q) \in Nat /\ Len(q) \in Int /\ 1 \in Int
      OBVIOUS
    <2>2. /\ IsFiniteSet(1 .. Len(q))
          /\ Cardinality(1 .. Len(q)) = IF 1 > Len(q) THEN 0 ELSE Len(q) - 1 + 1
      BY ONLY <2>1, FS_Interval
    <2> QED BY <2>1, <2>2
  <1> DEFINE f == [i \in 1 .. Len(q) |-> q[i]]
  <1>2. f \in Bijection(1 .. Len(q), Holds(q))
    <2>1. f \in [1 .. Len(q) -> Holds(q)]
      BY DEF Holds
    <2>2. \A i, j \in 1 .. Len(q) : f[i] = f[j] => i = j
      BY DEF NoRepeats
    <2>3. \A x \in Holds(q) : \E i \in 1 .. Len(q) : f[i] = x
      BY DEF Holds
    <2> HIDE DEF f
    <2> QED BY <2>1, <2>2, <2>3 DEF Bijection, Injection, IsInjective, Surjection
  <1> HIDE DEF f
  <1> QED BY <1>1, <1>2, FS_Bijection DEF ExistsBijection

\* A finite set and what one subset of it leaves.
LEMMA SplitCardinality ==
  ASSUME NEW S, IsFiniteSet(S), NEW A \in SUBSET S
  PROVE  /\ Cardinality(S) = Cardinality(A) + Cardinality(S \ A)
         /\ Cardinality(S) \in Nat /\ Cardinality(A) \in Nat /\ Cardinality(S \ A) \in Nat
  <1>1. IsFiniteSet(A) /\ IsFiniteSet(S \ A)
    BY FS_Subset
  <1>2. Cardinality(A \cup (S \ A)) = Cardinality(A) + Cardinality(S \ A) - Cardinality(A \cap (S \ A))
    BY <1>1, FS_Union
  <1>3. A \cup (S \ A) = S /\ A \cap (S \ A) = {}
    OBVIOUS
  <1>4. Cardinality(S) \in Nat /\ Cardinality(A) \in Nat /\ Cardinality(S \ A) \in Nat
        /\ Cardinality({}) = 0
    BY <1>1, FS_CardinalityType, FS_EmptySet
  <1>5. Cardinality(S) = Cardinality(A) + Cardinality(S \ A) - 0
    BY <1>2, <1>3, <1>4
  <1> DEFINE s == Cardinality(S)
             a == Cardinality(A)
             b == Cardinality(S \ A)
  <1>6. s = a + b - 0 /\ s \in Nat /\ a \in Nat /\ b \in Nat
    BY <1>4, <1>5
  <1> HIDE DEF s, a, b
  <1>7. s = a + b
    BY <1>6
  <1> QED BY <1>4, <1>7 DEF s, a, b

\* The requests are those in the channel, in hand, dropped, found out, or before the send.
LEMMA BalanceHolds == ShadowIInv => ShadowBalance
  <1> SUFFICES ASSUME ShadowIInv
               PROVE  ShadowBalance
    OBVIOUS
  <1> DEFINE Q == Holds(channelQ)
             Before == {s \in Scored : sender[s] \in {"counted", "panicked"}}
             R1 == Requested \ Q
             R2 == R1 \ Uncounted
             R3 == R2 \ Refused
             R4 == R3 \ Found
  <1>1. ShadowTypeOK /\ TaskInOnePlace /\ CountersExact
    BY DEF ShadowIInv
  <1>2. /\ Q \subseteq Requested /\ Uncounted \subseteq R1 /\ Refused \subseteq R2 /\ Found \subseteq R3
        /\ R4 = Before
    <2>1. /\ Q \cap InHand = {} /\ Q \cap Found = {} /\ Q \subseteq Scored
          /\ InHand \subseteq Scored /\ Found \subseteq Scored
          /\ Uncounted = InHand \ Found
      BY <1>1, ShadowQueueType DEF TaskInOnePlace, Uncounted, Found
    <2>2. \A s \in Scored : sender[s] = "queued" <=> s \in Q \cup Uncounted \cup Found
      BY <1>1, <2>1 DEF TaskInOnePlace
    <2> HIDE DEF Q
    <2>3. Q \subseteq Requested /\ Uncounted \subseteq R1
      BY <2>1, <2>2 DEF Requested
    <2>4. Refused \subseteq R2
      BY <2>1, <2>2 DEF Requested, Refused
    <2>5. Found \subseteq R3
      BY <2>1, <2>2 DEF Requested, Refused
    <2>6. R4 = Before
      BY <2>1, <2>2 DEF Requested, Refused
    <2> QED BY <2>3, <2>4, <2>5, <2>6
  <1>3. IsFiniteSet(Requested)
    BY ScoredSets DEF Requested
  <1>4. Cardinality(Q) = Len(channelQ)
    BY <1>1, ShadowAssumption, ShadowQueueType, HeldCardinality DEF TaskInOnePlace
  <1> HIDE DEF Q, Before, R1, R2, R3, R4
  <1>5. IsFiniteSet(R1) /\ IsFiniteSet(R2) /\ IsFiniteSet(R3)
    BY <1>3, FS_Subset DEF R1, R2, R3
  <1>6. /\ Cardinality(Requested) = Cardinality(Q) + Cardinality(R1)
        /\ Cardinality(Q) \in Nat /\ Cardinality(R1) \in Nat
    BY <1>2, <1>3, SplitCardinality DEF R1
  <1>7. /\ Cardinality(R1) = Cardinality(Uncounted) + Cardinality(R2)
        /\ Cardinality(Uncounted) \in Nat /\ Cardinality(R2) \in Nat
    BY <1>2, <1>5, SplitCardinality DEF R2
  <1>8. /\ Cardinality(R2) = Cardinality(Refused) + Cardinality(R3)
        /\ Cardinality(Refused) \in Nat /\ Cardinality(R3) \in Nat
    BY <1>2, <1>5, SplitCardinality DEF R3
  <1>9. /\ Cardinality(R3) = Cardinality(Found) + Cardinality(Before)
        /\ Cardinality(Found) \in Nat /\ Cardinality(Before) \in Nat
    BY <1>2, <1>5, SplitCardinality DEF R4
  <1>10. In({"counted", "panicked"}) = Cardinality(Before)
    BY DEF In, Before
  <1>11. /\ counted["requests"] = Cardinality(Requested) /\ counted["dropped"] = Cardinality(Refused)
         /\ counted["success"] + counted["errors"] = Cardinality(Found)
         /\ counted["success"] \in Nat /\ counted["errors"] \in Nat
    <2>1. counted \in [Counters -> 0 .. Cardinality(Scored)] /\ Cardinality(Scored) \in Nat
      BY <1>1, ScoredSets DEF ShadowTypeOK
    <2>2. counted["success"] \in 0 .. Cardinality(Scored) /\ counted["errors"] \in 0 .. Cardinality(Scored)
      BY <2>1 DEF Counters
    <2> QED BY <1>1, <2>1, <2>2 DEF CountersExact
  <1>12. counted["requests"] =
           Cardinality(Q) + (Cardinality(Uncounted) + (Cardinality(Refused)
             + (Cardinality(Found) + Cardinality(Before))))
    BY <1>6, <1>7, <1>8, <1>9, <1>11
  <1>13. counted["requests"] =
           Len(channelQ) + Cardinality(Uncounted) + counted["dropped"] + counted["success"]
             + counted["errors"] + Cardinality(Before)
    <2> DEFINE u == Cardinality(Uncounted)
               b == Cardinality(Before)
               q == Len(channelQ)
               x == counted["success"]
               y == counted["errors"]
               r == counted["dropped"]
               n == counted["requests"]
    <2>1. /\ u \in Nat /\ b \in Nat /\ q \in Nat /\ x \in Nat /\ y \in Nat /\ r \in Nat
          /\ n = q + (u + (r + ((x + y) + b)))
      BY <1>4, <1>6, <1>7, <1>8, <1>9, <1>11, <1>12
    <2> HIDE DEF u, b, q, x, y, r, n
    <2>2. n = q + u + r + x + y + b
      BY <2>1
    <2> QED BY <2>2 DEF u, b, q, x, y, r, n
  <1> QED BY <1>10, <1>13 DEF ShadowBalance

\* What a kind gains on one side and loses on the other can be read from the rows, up to the
\* rows that are missing.
LEMMA RowsExplain == ShadowIInv => RowsExplainTally
  <1> SUFFICES ASSUME ShadowIInv
               PROVE  RowsExplainTally
    OBVIOUS
  <1> DEFINE stored == {s \in Scored : row[s].state = "stored"}
             absent == {s \in Scored : row[s].state \in {"counted", "lost"}}
             missing == Cardinality(absent)
  <1>1. ShadowTypeOK /\ CountersExact
    BY DEF ShadowIInv
  <1>2. Found = stored \cup absent /\ stored \cap absent = {} /\ absent \subseteq Scored
    BY <1>1 DEF Found, ShadowTypeOK
  <1>3. IsFiniteSet(absent) /\ missing \in Nat
    BY <1>2, ScoredSets
  <1>4. ASSUME NEW k \in Kinds
        PROVE  LET gained == Cardinality({s \in stored : Direction(s).to = k /\ Direction(s).from # k})
                   left == Cardinality({s \in stored : Direction(s).from = k /\ Direction(s).to # k})
                   surplus == tally.challenger[k] + left
                   expected == tally.champion[k] + gained
               IN surplus <= expected + missing /\ expected <= surplus + missing
    <2> DEFINE both == {s \in Found : Direction(s).from = k /\ Direction(s).to = k}
               onlyTo == {s \in Found : Direction(s).to = k /\ Direction(s).from # k}
               onlyFrom == {s \in Found : Direction(s).from = k /\ Direction(s).to # k}
               gainedSet == {s \in stored : Direction(s).to = k /\ Direction(s).from # k}
               leftSet == {s \in stored : Direction(s).from = k /\ Direction(s).to # k}
    <2>1. \A s \in Scored : Direction(s).from = Kind(Champion[s]) /\ Direction(s).to = row[s].decision
      BY DEF Direction
    <2>2. /\ both \subseteq FoundTo[k] /\ FoundTo[k] \ both = onlyTo
          /\ both \subseteq FoundFrom[k] /\ FoundFrom[k] \ both = onlyFrom
      BY <2>1 DEF FoundTo, FoundFrom, Found
    <2>3. /\ gainedSet \subseteq onlyTo /\ onlyTo \ gainedSet \subseteq absent
          /\ leftSet \subseteq onlyFrom /\ onlyFrom \ leftSet \subseteq absent
      BY <1>2
    <2>4. IsFiniteSet(FoundTo[k]) /\ IsFiniteSet(FoundFrom[k])
      <3>1. FoundTo[k] \in SUBSET Scored /\ FoundFrom[k] \in SUBSET Scored
        BY DEF FoundTo, FoundFrom, Found
      <3> QED BY <3>1, ScoredSets
    <2> HIDE DEF both, onlyTo, onlyFrom, gainedSet, leftSet, stored, absent
    <2>5. IsFiniteSet(onlyTo) /\ IsFiniteSet(onlyFrom)
      BY <2>2, <2>4, FS_Subset
    <2>6. /\ Cardinality(FoundTo[k]) = Cardinality(both) + Cardinality(onlyTo)
          /\ Cardinality(FoundFrom[k]) = Cardinality(both) + Cardinality(onlyFrom)
          /\ Cardinality(both) \in Nat
      BY <2>2, <2>4, SplitCardinality
    <2>7. /\ Cardinality(onlyTo) = Cardinality(gainedSet) + Cardinality(onlyTo \ gainedSet)
          /\ Cardinality(onlyFrom) = Cardinality(leftSet) + Cardinality(onlyFrom \ leftSet)
          /\ Cardinality(gainedSet) \in Nat /\ Cardinality(onlyTo \ gainedSet) \in Nat
          /\ Cardinality(leftSet) \in Nat /\ Cardinality(onlyFrom \ leftSet) \in Nat
      BY <2>3, <2>5, SplitCardinality
    <2>8. /\ Cardinality(onlyTo \ gainedSet) <= Cardinality(absent)
          /\ Cardinality(onlyFrom \ leftSet) <= Cardinality(absent)
      BY <1>3, <2>3, FS_Subset
    <2>9. /\ tally.challenger[k] = Cardinality(FoundTo[k]) /\ tally.champion[k] = Cardinality(FoundFrom[k])
      BY <1>1 DEF CountersExact
    <2> DEFINE b == Cardinality(both)
               g == Cardinality(gainedSet)
               l == Cardinality(leftSet)
               x == Cardinality(onlyTo \ gainedSet)
               y == Cardinality(onlyFrom \ leftSet)
               m == Cardinality(absent)
               to == tally.challenger[k]
               from == tally.champion[k]
    <2>10. /\ b \in Nat /\ g \in Nat /\ l \in Nat /\ x \in Nat /\ y \in Nat /\ m \in Nat
           /\ x <= m /\ y <= m /\ to = b + (g + x) /\ from = b + (l + y)
      BY <1>3, <2>6, <2>7, <2>8, <2>9
    <2> HIDE DEF b, g, l, x, y, m, to, from
    <2>11. to + l <= (from + g) + m /\ from + g <= (to + l) + m
      BY <2>10
    <2> QED BY <2>11 DEF b, g, l, x, y, m, to, from, gainedSet, leftSet, absent
  <1> QED BY <1>4 DEF RowsExplainTally

LEMMA ShadowSound == ShadowIInv => ShadowAccounts
  <1> SUFFICES ASSUME ShadowIInv
               PROVE  ShadowAccounts
    OBVIOUS
  <1>1. GracefulIsDone
    <2>1. pool.result = "graceful" => \A w \in ShadowWorkers : working[w] = Exited
      BY DEF ShadowIInv, PoolOrder
    <2>2. pool.result = "graceful" => channelQ = <<>>
      BY <2>1, ShadowAssumption DEF ShadowIInv, PoolOrder
    <2>3. pool.result = "graceful" => InHand = {}
      BY <2>1, ShadowAssumption, InHandIs
    <2> QED BY <2>2, <2>3 DEF GracefulIsDone
  <1> QED BY <1>1, BalanceHolds, RowsExplain DEF ShadowAccounts, ShadowIInv

LEMMA ShadowInitIInv == ShadowInit => ShadowIInv
  <1> SUFFICES ASSUME ShadowInit
               PROVE  ShadowIInv
    OBVIOUS
  <1>1. /\ channelQ = <<>> /\ Len(channelQ) = 0
        /\ \A s \in Scored : sender[s] = "idle" /\ row[s].state = "none"
        /\ \A w \in ShadowWorkers : working[w] = NoTask
        /\ \A c \in Counters : counted[c] = 0
        /\ \A k \in Kinds : tally.champion[k] = 0 /\ tally.challenger[k] = 0
        /\ pool.result = "none"
    BY DEF ShadowInit
  <1>2. /\ InHand = {} /\ Requested = {} /\ Refused = {} /\ Found = {} /\ Holds(channelQ) = {}
        /\ \A k \in Kinds : FoundFrom[k] = {} /\ FoundTo[k] = {}
    BY <1>1, ShadowAssumption, InHandIs DEF Requested, Refused, Found, FoundFrom, FoundTo, Holds
  <1>3. Cardinality(Scored) \in Nat /\ Cardinality({}) = 0
    BY ShadowAssumption, FS_CardinalityType, FS_EmptySet
  <1>4. ShadowTypeOK
    <2>1. /\ sender \in [Scored -> {"idle", "checked", "counted", "queued", "dropped", "refused",
                                    "panicked"}]
          /\ working \in [ShadowWorkers -> Scored \cup {NoTask, Exited}]
      BY DEF ShadowInit
    <2>2. channelQ \in Seq(Scored) /\ Len(channelQ) <= ShadowQueue
      BY <1>1, ShadowAssumption
    <2>3. pool \in [closed : BOOLEAN, channel : {"open", "closed"}, cancelled : BOOLEAN,
                    result : {"none", "graceful", "timed out"}]
      BY DEF ShadowInit
    <2>4. /\ counted \in [Counters -> 0 .. Cardinality(Scored)]
          /\ tally \in [{"champion", "challenger"} -> [Kinds -> 0 .. Cardinality(Scored)]]
      BY <1>3 DEF ShadowInit
    <2>5. row \in [Scored -> [state : {"none", "counted", "stored", "lost"}, decision : Kinds]]
      BY KindOf DEF ShadowInit
    <2> QED BY <2>1, <2>2, <2>3, <2>4, <2>5 DEF ShadowTypeOK
  <1>5. TaskInOnePlace
    BY <1>1, <1>2, ShadowAssumption DEF TaskInOnePlace, NoRepeats
  <1>6. CountersExact
    <2>1. /\ counted["requests"] = 0 /\ counted["dropped"] = 0 /\ counted["success"] = 0
          /\ counted["errors"] = 0 /\ counted["divergence"] = 0
      BY <1>1 DEF Counters
    <2>2. /\ Cardinality(Requested) = 0 /\ Cardinality(Refused) = 0 /\ Cardinality(Found) = 0
          /\ \A k \in Kinds : Cardinality(FoundFrom[k]) = 0 /\ Cardinality(FoundTo[k]) = 0
      BY <1>2, <1>3
    <2> QED BY <1>1, <2>1, <2>2 DEF CountersExact
  <1>7. PoolOrder
    BY <1>1 DEF PoolOrder, NoTask, Exited
  <1> QED BY <1>4, <1>5, <1>6, <1>7 DEF ShadowIInv

\* What the account is about follows from the variables it is made of.
LEMMA ShadowFrame ==
  /\ UNCHANGED <<channelQ, working>> => Holds(channelQ)' = Holds(channelQ) /\ InHand' = InHand
  /\ UNCHANGED row => Found' = Found /\ \A k \in Kinds : FoundFrom'[k] = FoundFrom[k]
                                                      /\ FoundTo'[k] = FoundTo[k]
  /\ UNCHANGED sender => Requested' = Requested /\ Refused' = Refused
  BY DEF Holds, InHand, Found, FoundFrom, FoundTo, Requested, Refused

LEMMA ShadowStutters ==
  ASSUME ShadowIInv, UNCHANGED <<sender, channelQ, working, counted, tally, row>>,
         pool' = pool \/ PoolOrder',
         pool' \in [closed : BOOLEAN, channel : {"open", "closed"}, cancelled : BOOLEAN,
                    result : {"none", "graceful", "timed out"}]
  PROVE  ShadowIInv'
  <1>1. ShadowTypeOK'
    BY DEF ShadowIInv, ShadowTypeOK
  <1>2. TaskInOnePlace'
    BY ShadowFrame DEF ShadowIInv, TaskInOnePlace
  <1>3. CountersExact'
    BY ShadowFrame DEF ShadowIInv, CountersExact
  <1>4. PoolOrder'
    BY DEF ShadowIInv, PoolOrder
  <1> QED BY <1>1, <1>2, <1>3, <1>4 DEF ShadowIInv

LEMMA PoolStepKeeps ==
  ASSUME ShadowIInv, MarkClosed \/ CloseChannel \/ EndClose \/ CloseTimesOut
  PROVE  ShadowIInv'
  <1>1. UNCHANGED <<sender, channelQ, working, counted, tally, row>>
    BY DEF MarkClosed, CloseChannel, EndClose, CloseTimesOut
  <1>2. pool \in [closed : BOOLEAN, channel : {"open", "closed"}, cancelled : BOOLEAN,
                  result : {"none", "graceful", "timed out"}]
    BY DEF ShadowIInv, ShadowTypeOK
  <1>3. /\ pool' \in [closed : BOOLEAN, channel : {"open", "closed"}, cancelled : BOOLEAN,
                      result : {"none", "graceful", "timed out"}]
        /\ pool'.channel \in {pool.channel, "closed"}
        /\ pool'.result = "graceful" => pool.result = "graceful"
                                        \/ \A w \in ShadowWorkers : working[w] = Exited
    BY <1>2 DEF MarkClosed, CloseChannel, EndClose, CloseTimesOut
  <1>4. PoolOrder'
    BY <1>1, <1>3 DEF ShadowIInv, PoolOrder
  <1> QED BY <1>1, <1>3, <1>4, ShadowStutters

LEMMA CheckOpenKeeps ==
  ASSUME ShadowIInv, NEW s \in Scored, CheckOpen(s)
  PROVE  ShadowIInv'
  <1>1. /\ UNCHANGED <<channelQ, working, pool, counted, tally, row>>
        /\ sender[s] = "idle" /\ sender'[s] \in {"refused", "checked"}
        /\ \A x \in Scored \ {s} : sender'[x] = sender[x]
        /\ sender' \in [Scored -> {"idle", "checked", "counted", "queued", "dropped", "refused",
                                   "panicked"}]
    BY DEF CheckOpen, Sender, ShadowIInv, ShadowTypeOK
  <1>2. Requested' = Requested /\ Refused' = Refused
    BY <1>1 DEF Requested, Refused
  <1>3. ShadowTypeOK' /\ PoolOrder'
    BY <1>1 DEF ShadowIInv, ShadowTypeOK, PoolOrder
  <1>4. CountersExact'
    BY <1>1, <1>2, ShadowFrame DEF ShadowIInv, CountersExact
  <1>5. TaskInOnePlace'
    BY <1>1, ShadowFrame DEF ShadowIInv, TaskInOnePlace
  <1> QED BY <1>3, <1>4, <1>5 DEF ShadowIInv

LEMMA CountRequestKeeps ==
  ASSUME ShadowIInv, NEW s \in Scored, CountRequest(s)
  PROVE  ShadowIInv'
  <1>1. /\ UNCHANGED <<channelQ, working, pool, tally, row>>
        /\ sender[s] = "checked" /\ sender'[s] = "counted"
        /\ \A x \in Scored \ {s} : sender'[x] = sender[x]
        /\ sender' \in [Scored -> {"idle", "checked", "counted", "queued", "dropped", "refused",
                                   "panicked"}]
        /\ counted' = [counted EXCEPT !["requests"] = @ + 1]
    BY DEF CountRequest, Sender, Counting, ShadowIInv, ShadowTypeOK
  <1>2. Requested' = Requested \cup {s} /\ s \notin Requested /\ Refused' = Refused
    BY <1>1 DEF Requested, Refused
  <1>3. Cardinality(Requested') = Cardinality(Requested) + 1
    <2>1. IsFiniteSet(Requested)
      BY ScoredSets DEF Requested
    <2> QED BY <1>2, <2>1, FS_AddElement
  <1>4. /\ counted'["requests"] = counted["requests"] + 1
        /\ \A c \in Counters \ {"requests"} : counted'[c] = counted[c]
        /\ counted' \in [Counters -> 0 .. Cardinality(Scored)]
    <2>1. counted \in [Counters -> 0 .. Cardinality(Scored)] /\ "requests" \in Counters
      BY DEF ShadowIInv, ShadowTypeOK, Counters
    <2>2. counted["requests"] + 1 \in 0 .. Cardinality(Scored)
      <3>1. /\ counted["requests"] + 1 = Cardinality(Requested') /\ Requested' \in SUBSET Scored
        BY <1>2, <1>3 DEF ShadowIInv, CountersExact, Requested
      <3> QED BY <3>1, ScoredSets
    <2> QED BY <1>1, <2>1, <2>2
  <1>5. CountersExact'
    BY <1>1, <1>2, <1>3, <1>4, ShadowFrame DEF ShadowIInv, CountersExact, Counters
  <1>6. TaskInOnePlace'
    BY <1>1, ShadowFrame DEF ShadowIInv, TaskInOnePlace
  <1>7. ShadowTypeOK' /\ PoolOrder'
    BY <1>1, <1>4 DEF ShadowIInv, ShadowTypeOK, PoolOrder
  <1> QED BY <1>5, <1>6, <1>7 DEF ShadowIInv

LEMMA SendTaskKeeps ==
  ASSUME ShadowIInv, NEW s \in Scored, SendTask(s)
  PROVE  ShadowIInv'
  <1>1. /\ UNCHANGED <<working, pool, tally, row>>
        /\ sender[s] = "counted"
        /\ \A x \in Scored \ {s} : sender'[x] = sender[x]
        /\ sender' \in [Scored -> {"idle", "checked", "counted", "queued", "dropped", "refused",
                                   "panicked"}]
        /\ sender'[s] \in {"queued", "dropped", "panicked"}
    BY ZenonT(60) DEF SendTask, Sender, ShadowIInv, ShadowTypeOK
  <1>2. Requested' = Requested
    BY <1>1 DEF Requested
  <1>3. s \notin Holds(channelQ) \cup InHand \cup Found
    BY <1>1 DEF ShadowIInv, TaskInOnePlace
  <1>4. InHand' = InHand /\ Found' = Found
    BY <1>1, ShadowFrame DEF InHand
  <1>5. CASE pool.channel = "closed"
    <2>1. sender'[s] = "panicked" /\ UNCHANGED <<channelQ, counted>>
      BY <1>5 DEF SendTask, Sender, ShadowIInv, ShadowTypeOK
    <2>2. Refused' = Refused
      BY <1>1, <2>1 DEF Refused
    <2>3. CountersExact'
      BY <1>1, <1>2, <2>1, <2>2, ShadowFrame DEF ShadowIInv, CountersExact
    <2>4. TaskInOnePlace'
      BY <1>1, <1>3, <2>1, ShadowFrame DEF ShadowIInv, TaskInOnePlace
    <2>5. ShadowTypeOK' /\ PoolOrder'
      BY <1>1, <2>1 DEF ShadowIInv, ShadowTypeOK, PoolOrder
    <2> QED BY <2>3, <2>4, <2>5 DEF ShadowIInv
  <1>6. CASE pool.channel # "closed" /\ Len(channelQ) < ShadowQueue
    <2>1. sender'[s] = "queued" /\ counted' = counted /\ channelQ' = Append(channelQ, s)
      BY <1>6 DEF SendTask, Sender, ShadowIInv, ShadowTypeOK
    <2>2. Refused' = Refused
      BY <1>1, <2>1 DEF Refused
    <2>3. /\ channelQ' \in Seq(Scored) /\ Len(channelQ') = Len(channelQ) + 1
          /\ Holds(channelQ)' = Holds(channelQ) \cup {s} /\ NoRepeats(channelQ)'
      <3>1. channelQ \in Seq(Scored) /\ NoRepeats(channelQ) /\ s \notin Holds(channelQ)
        BY <1>3, ShadowQueueType DEF ShadowIInv, TaskInOnePlace
      <3>2. /\ Append(channelQ, s) \in Seq(Scored) /\ Len(Append(channelQ, s)) = Len(channelQ) + 1
            /\ Holds(Append(channelQ, s)) = Holds(channelQ) \cup {s} /\ NoRepeats(Append(channelQ, s))
        BY <3>1, AppendHolds
      <3> QED BY <2>1, <3>2 DEF Holds, NoRepeats
    <2>4. CountersExact'
      BY <1>1, <1>2, <2>1, <2>2, ShadowFrame DEF ShadowIInv, CountersExact
    <2>5. TaskInOnePlace'
      <3>1. \A x \in Scored : sender'[x] = "queued" <=> x = s \/ sender[x] = "queued"
        BY <1>1, <2>1
      <3>2. (Holds(channelQ) \cap InHand)' = {} /\ (Holds(channelQ) \cap Found)' = {}
        BY <1>3, <1>4, <2>3 DEF ShadowIInv, TaskInOnePlace
      <3>3. \A x \in Scored : sender'[x] = "queued" <=> x \in (Holds(channelQ) \cup InHand \cup Found)'
        BY <1>4, <2>3, <3>1 DEF ShadowIInv, TaskInOnePlace
      <3>4. \A v, w \in ShadowWorkers : v # w /\ working'[v] \in Scored => working'[v] # working'[w]
        BY <1>1 DEF ShadowIInv, TaskInOnePlace
      <3> QED BY <2>3, <3>2, <3>3, <3>4 DEF TaskInOnePlace
    <2>6. Len(channelQ') <= ShadowQueue
      BY <1>6, <2>3, ShadowQueueType, ShadowAssumption DEF ShadowIInv
    <2>7. ShadowTypeOK'
      BY <1>1, <2>1, <2>3, <2>6 DEF ShadowIInv, ShadowTypeOK
    <2>8. PoolOrder'
      BY <1>1, <1>6 DEF ShadowIInv, PoolOrder
    <2> QED BY <2>4, <2>5, <2>7, <2>8 DEF ShadowIInv
  <1>7. CASE pool.channel # "closed" /\ ~(Len(channelQ) < ShadowQueue)
    <2>1. /\ sender'[s] = "dropped" /\ channelQ' = channelQ
          /\ counted' = [counted EXCEPT !["dropped"] = @ + 1]
      BY <1>7 DEF SendTask, Sender, Counting, ShadowIInv, ShadowTypeOK
    <2>2. Refused' = Refused \cup {s} /\ s \notin Refused
      BY <1>1, <2>1 DEF Refused
    <2>3. Cardinality(Refused') = Cardinality(Refused) + 1
      <3>1. IsFiniteSet(Refused)
        BY ScoredSets DEF Refused
      <3> QED BY <2>2, <3>1, FS_AddElement
    <2>4. /\ counted'["dropped"] = counted["dropped"] + 1
          /\ \A c \in Counters \ {"dropped"} : counted'[c] = counted[c]
          /\ counted' \in [Counters -> 0 .. Cardinality(Scored)]
      <3>1. counted \in [Counters -> 0 .. Cardinality(Scored)] /\ "dropped" \in Counters
        BY DEF ShadowIInv, ShadowTypeOK, Counters
      <3>2. counted["dropped"] + 1 \in 0 .. Cardinality(Scored)
        <4>1. counted["dropped"] + 1 = Cardinality(Refused') /\ Refused' \in SUBSET Scored
          BY <2>2, <2>3 DEF ShadowIInv, CountersExact, Refused
        <4> QED BY <4>1, ScoredSets
      <3> QED BY <2>1, <3>1, <3>2
    <2>5. CountersExact'
      BY <1>1, <1>2, <2>2, <2>3, <2>4, ShadowFrame DEF ShadowIInv, CountersExact, Counters
    <2>6. TaskInOnePlace'
      BY <1>1, <1>3, <2>1, ShadowFrame DEF ShadowIInv, TaskInOnePlace
    <2>7. ShadowTypeOK' /\ PoolOrder'
      BY <1>1, <2>1, <2>4 DEF ShadowIInv, ShadowTypeOK, PoolOrder
    <2> QED BY <2>5, <2>6, <2>7 DEF ShadowIInv
  <1> QED BY <1>5, <1>6, <1>7

LEMMA TakeTaskKeeps ==
  ASSUME ShadowIInv, NEW w \in ShadowWorkers, TakeTask(w)
  PROVE  ShadowIInv'
  <1> DEFINE h == Head(channelQ)
  <1>1. /\ UNCHANGED <<sender, pool, counted, tally, row>>
        /\ working[w] = NoTask /\ channelQ # <<>> /\ channelQ' = Tail(channelQ)
        /\ working' = [working EXCEPT ![w] = h]
    BY DEF TakeTask
  <1>2. /\ channelQ' \in Seq(Scored) /\ Len(channelQ') = Len(channelQ) - 1 /\ h \in Scored
        /\ h \in Holds(channelQ) /\ Holds(channelQ)' = Holds(channelQ) \ {h} /\ NoRepeats(channelQ)'
    <2>1. channelQ \in Seq(Scored) /\ NoRepeats(channelQ)
      BY ShadowQueueType DEF ShadowIInv, TaskInOnePlace
    <2>2. /\ Tail(channelQ) \in Seq(Scored) /\ Len(Tail(channelQ)) = Len(channelQ) - 1
          /\ h \in Scored /\ h \in Holds(channelQ)
          /\ Holds(Tail(channelQ)) = Holds(channelQ) \ {h} /\ NoRepeats(Tail(channelQ))
      BY <1>1, <2>1, TailHolds
    <2> QED BY ZenonT(60), <1>1, <2>2 DEF Holds, NoRepeats
  <1> HIDE DEF h
  <1>3. /\ working'[w] = h /\ \A v \in ShadowWorkers \ {w} : working'[v] = working[v]
        /\ working' \in [ShadowWorkers -> Scored \cup {NoTask, Exited}]
    BY <1>1, <1>2 DEF ShadowIInv, ShadowTypeOK
  <1>4. InHand' = InHand \cup {h} /\ h \notin InHand /\ h \notin Found
    <2>1. h \notin InHand /\ h \notin Found
      BY <1>2 DEF ShadowIInv, TaskInOnePlace
    <2>2. InHand' = {s \in Scored : \E v \in ShadowWorkers : working'[v] = s}
      BY DEF InHand
    <2> QED BY <1>1, <1>2, <1>3, <2>1, <2>2, InHandIs, ShadowAssumption
  <1>5. TaskInOnePlace'
    <2>1. (Holds(channelQ) \cup InHand)' = Holds(channelQ) \cup InHand /\ Found' = Found
      BY <1>1, <1>2, <1>4, ShadowFrame
    <2>2. (Holds(channelQ) \cap InHand)' = {} /\ (Holds(channelQ) \cap Found)' = {}
      BY <1>2, <1>4, <2>1 DEF ShadowIInv, TaskInOnePlace
    <2>3. \A v, u \in ShadowWorkers : v # u /\ working'[v] \in Scored => working'[v] # working'[u]
      <3>1. \A v \in ShadowWorkers : working[v] # h
        BY <1>2, <1>4, InHandIs
      <3> QED BY <1>3, <3>1 DEF ShadowIInv, TaskInOnePlace
    <2>4. \A x \in Scored : sender'[x] = "queued" <=> x \in (Holds(channelQ) \cup InHand \cup Found)'
      BY <1>1, <2>1 DEF ShadowIInv, TaskInOnePlace
    <2> QED BY <1>2, <2>2, <2>3, <2>4 DEF TaskInOnePlace
  <1>6. CountersExact'
    BY <1>1, ShadowFrame DEF ShadowIInv, CountersExact
  <1>7. ShadowTypeOK'
    <2>1. Len(channelQ') <= ShadowQueue
      BY <1>2, ShadowQueueType, ShadowAssumption DEF ShadowIInv
    <2> QED BY <1>1, <1>2, <1>3, <2>1 DEF ShadowIInv, ShadowTypeOK
  <1>8. PoolOrder'
    <2>1. \A v \in ShadowWorkers : working[v] # Exited
      BY <1>1 DEF ShadowIInv, PoolOrder
    <2>2. pool.result # "graceful"
      BY <2>1 DEF ShadowIInv, PoolOrder
    <2>3. h # Exited
      BY <1>2, ShadowAssumption
    <2> QED BY <1>1, <1>3, <2>1, <2>2, <2>3 DEF PoolOrder
  <1> QED BY <1>5, <1>6, <1>7, <1>8 DEF ShadowIInv

LEMMA ExitWorkerKeeps ==
  ASSUME ShadowIInv, NEW w \in ShadowWorkers, ExitWorker(w)
  PROVE  ShadowIInv'
  <1>1. /\ UNCHANGED <<sender, channelQ, pool, counted, tally, row>>
        /\ working[w] = NoTask /\ channelQ = <<>> /\ pool.channel = "closed"
        /\ working'[w] = Exited /\ \A v \in ShadowWorkers \ {w} : working'[v] = working[v]
        /\ working' \in [ShadowWorkers -> Scored \cup {NoTask, Exited}]
    BY DEF ExitWorker, ShadowIInv, ShadowTypeOK
  <1>2. InHand' = InHand
    <2>1. InHand' = {s \in Scored : \E v \in ShadowWorkers : working'[v] = s}
      BY DEF InHand
    <2> QED BY <1>1, <2>1, InHandIs, ShadowAssumption
  <1>3. TaskInOnePlace'
    <2>1. \A v, u \in ShadowWorkers : v # u /\ working'[v] \in Scored => working'[v] # working'[u]
      BY <1>1, ShadowAssumption DEF ShadowIInv, TaskInOnePlace
    <2>2. Holds(channelQ)' = Holds(channelQ) /\ NoRepeats(channelQ)' = NoRepeats(channelQ)
          /\ Found' = Found
      BY <1>1, ShadowFrame DEF Holds, NoRepeats
    <2> QED BY <1>1, <1>2, <2>1, <2>2 DEF ShadowIInv, TaskInOnePlace
  <1>4. CountersExact'
    BY <1>1, ShadowFrame DEF ShadowIInv, CountersExact
  <1>5. ShadowTypeOK'
    BY <1>1 DEF ShadowIInv, ShadowTypeOK
  <1>6. PoolOrder'
    BY <1>1 DEF ShadowIInv, PoolOrder
  <1> QED BY <1>3, <1>4, <1>5, <1>6 DEF ShadowIInv

\* The counters of one model, when one of its kinds is counted.
LEMMA TallyCounts ==
  ASSUME NEW N, NEW t \in [{"champion", "challenger"} -> [Kinds -> N]], NEW k \in Kinds, NEW j \in Kinds
  PROVE  LET u == [t EXCEPT !.champion[k] = @ + 1, !.challenger[j] = @ + 1]
         IN /\ u.champion = [t.champion EXCEPT ![k] = @ + 1]
            /\ u.challenger = [t.challenger EXCEPT ![j] = @ + 1]
            /\ u = [m \in {"champion", "challenger"} |->
                      IF m = "champion" THEN u.champion ELSE u.challenger]
  <1> DEFINE v == [t EXCEPT !.champion[k] = @ + 1]
             u == [v EXCEPT !.challenger[j] = @ + 1]
  <1>1. /\ v \in [{"champion", "challenger"} -> [Kinds -> N] \cup {v.champion}]
        /\ v.champion = [t.champion EXCEPT ![k] = @ + 1] /\ v.challenger = t.challenger
    OBVIOUS
  <1>2. DOMAIN v = {"champion", "challenger"}
    OBVIOUS
  <1> HIDE DEF v
  <1>3. /\ u.challenger = [t.challenger EXCEPT ![j] = @ + 1] /\ u.champion = v.champion
        /\ u = [m \in {"champion", "challenger"} |->
                  IF m = "champion" THEN u.champion ELSE u.challenger]
    BY <1>1, <1>2
  <1> QED BY <1>1, <1>3 DEF v

LEMMA CountOutcomeKeeps ==
  ASSUME ShadowIInv, NEW w \in ShadowWorkers, NEW ok \in BOOLEAN, CountOutcome(w, ok)
  PROVE  ShadowIInv'
  <1> DEFINE s == working[w]
             found == IF ok THEN Challenger[s] ELSE "REVIEW"
             from == Kind(Champion[s])
             limit == 0 .. Cardinality(Scored)
  <1>1. /\ UNCHANGED <<sender, channelQ, working, pool>>
        /\ s \in Scored /\ row[s].state = "none"
        /\ row' = [row EXCEPT ![s] = [state |-> "counted", decision |-> found]]
        /\ tally' = [tally EXCEPT !.champion[from] = @ + 1, !.challenger[found] = @ + 1]
        /\ counted' = [counted EXCEPT ![IF ok THEN "success" ELSE "errors"] = @ + 1,
                                      !.divergence = IF Champion[s] = found THEN @ ELSE @ + 1]
    BY DEF CountOutcome
  <1>2. found \in Kinds /\ from \in Kinds
    BY <1>1, KindOf
  <1>3. s \in InHand /\ s \notin Found /\ s \notin Holds(channelQ)
    BY <1>1, InHandIs DEF Found, ShadowIInv, TaskInOnePlace
  <1>t. /\ row \in [Scored -> [state : {"none", "counted", "stored", "lost"}, decision : Kinds]]
        /\ counted \in [Counters -> limit]
        /\ tally \in [{"champion", "challenger"} -> [Kinds -> limit]]
    BY DEF ShadowIInv, ShadowTypeOK
  <1>q. DOMAIN counted = Counters
    BY <1>t
  <1>n. Cardinality(Scored) \in Nat
    BY ScoredSets
  <1>4. ok = TRUE \/ ok = FALSE
    OBVIOUS
  <1>5. from = Kind(Champion[s])
    OBVIOUS
  <1> HIDE DEF s, found, from
  <1>6. /\ row' \in [Scored -> [state : {"none", "counted", "stored", "lost"}, decision : Kinds]]
        /\ row'[s].state = "counted" /\ row'[s].decision = found
        /\ \A x \in Scored \ {s} : row'[x] = row[x]
    BY <1>1, <1>2, <1>t
  <1>7. Found' = Found \cup {s}
    BY <1>1, <1>6 DEF Found
  <1>8. /\ FoundFrom'[from] = FoundFrom[from] \cup {s} /\ s \notin FoundFrom[from]
        /\ \A k \in Kinds \ {from} : FoundFrom'[k] = FoundFrom[k]
    <2>1. \A k \in Kinds : FoundFrom'[k] = {x \in Found' : Kind(Champion[x]) = k}
                            /\ FoundFrom[k] = {x \in Found : Kind(Champion[x]) = k}
      BY DEF FoundFrom
    <2>3. FoundFrom'[from] = FoundFrom[from] \cup {s}
      BY <1>2, <1>5, <1>7, <2>1
    <2>4. s \notin FoundFrom[from]
      BY <1>2, <1>3, <2>1
    <2>5. \A k \in Kinds \ {from} : FoundFrom'[k] = FoundFrom[k]
      <3>1. ASSUME NEW k \in Kinds \ {from}
            PROVE  \A x : x \in FoundFrom'[k] <=> x \in FoundFrom[k]
        BY <1>5, <1>7, <2>1
      <3> QED BY <2>1, <3>1
    <2> QED BY <2>3, <2>4, <2>5
  <1>9. /\ FoundTo'[found] = FoundTo[found] \cup {s} /\ s \notin FoundTo[found]
        /\ \A k \in Kinds \ {found} : FoundTo'[k] = FoundTo[k]
    <2>1. \A k \in Kinds : FoundTo'[k] = {x \in Found' : row'[x].decision = k}
                            /\ FoundTo[k] = {x \in Found : row[x].decision = k}
      BY DEF FoundTo
    <2>2. \A x \in Found : x \in Scored \ {s} /\ row'[x] = row[x]
      BY <1>3, <1>6 DEF Found
    <2>3. FoundTo'[found] = FoundTo[found] \cup {s}
      BY <1>2, <1>6, <1>7, <2>1, <2>2
    <2>4. s \notin FoundTo[found]
      BY <1>2, <1>3, <2>1
    <2>5. \A k \in Kinds \ {found} : FoundTo'[k] = FoundTo[k]
      <3>1. ASSUME NEW k \in Kinds \ {found}
            PROVE  \A x : x \in FoundTo'[k] <=> x \in FoundTo[k]
        BY <1>6, <1>7, <2>1, <2>2
      <3> QED BY <2>1, <3>1
    <2> QED BY <2>3, <2>4, <2>5
  <1>10. /\ Cardinality(Found') = Cardinality(Found) + 1
         /\ Cardinality(FoundFrom'[from]) = Cardinality(FoundFrom[from]) + 1
         /\ Cardinality(FoundTo'[found]) = Cardinality(FoundTo[found]) + 1
         /\ Cardinality(Found) \in Nat
    <2>1. IsFiniteSet(Found) /\ Cardinality(Found) \in Nat
      BY ScoredSets DEF Found
    <2>2. IsFiniteSet(FoundFrom[from]) /\ IsFiniteSet(FoundTo[found])
      <3>1. FoundFrom[from] \in SUBSET Scored /\ FoundTo[found] \in SUBSET Scored
        BY <1>2 DEF Found, FoundFrom, FoundTo
      <3> QED BY <3>1, ScoredSets
    <2> QED BY <1>3, <1>7, <1>8, <1>9, <2>1, <2>2, FS_AddElement
  <1>11. /\ Found' \in SUBSET Scored
         /\ \A k \in Kinds : FoundFrom'[k] \in SUBSET Scored /\ FoundTo'[k] \in SUBSET Scored
    BY DEF Found, FoundFrom, FoundTo
  <1>12. /\ tally'.champion = [tally.champion EXCEPT ![from] = @ + 1]
         /\ tally'.challenger = [tally.challenger EXCEPT ![found] = @ + 1]
         /\ tally' = [m \in {"champion", "challenger"} |->
                        IF m = "champion" THEN tally'.champion ELSE tally'.challenger]
    <2> HIDE DEF limit
    <2> QED BY ZenonT(60), <1>1, <1>2, <1>t, TallyCounts
  <1>13. \A k \in Kinds : /\ tally'.champion[k] = Cardinality(FoundFrom'[k])
                          /\ tally'.challenger[k] = Cardinality(FoundTo'[k])
    <2>1. \A k \in Kinds : /\ tally.champion[k] = Cardinality(FoundFrom[k])
                           /\ tally.challenger[k] = Cardinality(FoundTo[k])
      BY DEF ShadowIInv, CountersExact
    <2>2. tally.champion \in [Kinds -> limit] /\ tally.challenger \in [Kinds -> limit]
      BY <1>t
    <2> HIDE DEF limit
    <2>3. /\ tally'.champion[from] = tally.champion[from] + 1
          /\ \A k \in Kinds \ {from} : tally'.champion[k] = tally.champion[k]
      BY <1>2, <1>12, <2>2
    <2>4. /\ tally'.challenger[found] = tally.challenger[found] + 1
          /\ \A k \in Kinds \ {found} : tally'.challenger[k] = tally.challenger[k]
      BY <1>2, <1>12, <2>2
    <2>5. ASSUME NEW k \in Kinds
          PROVE  tally'.champion[k] = Cardinality(FoundFrom'[k])
      <3>1. CASE k = from
        <4>1. tally'.champion[from] = Cardinality(FoundFrom[from]) + 1
          BY <1>2, <2>1, <2>3
        <4> QED BY <1>10, <3>1, <4>1
      <3>2. CASE k # from
        <4>1. FoundFrom'[k] = FoundFrom[k]
          BY <1>8, <3>2
        <4> QED BY <2>1, <2>3, <3>2, <4>1
      <3> QED BY <3>1, <3>2
    <2>6. ASSUME NEW k \in Kinds
          PROVE  tally'.challenger[k] = Cardinality(FoundTo'[k])
      <3>1. CASE k = found
        <4>1. tally'.challenger[found] = Cardinality(FoundTo[found]) + 1
          BY <1>2, <2>1, <2>4
        <4> QED BY <1>10, <3>1, <4>1
      <3>2. CASE k # found
        <4>1. FoundTo'[k] = FoundTo[k]
          BY <1>9, <3>2
        <4> QED BY <2>1, <2>4, <3>2, <4>1
      <3> QED BY <3>1, <3>2
    <2> QED BY <2>5, <2>6
  <1>14. tally' \in [{"champion", "challenger"} -> [Kinds -> limit]]
    <2>1. \A k \in Kinds : tally'.champion[k] \in limit /\ tally'.challenger[k] \in limit
      BY <1>11, <1>13, <1>n, ScoredSets
    <2>2. tally.champion \in [Kinds -> limit] /\ tally.challenger \in [Kinds -> limit]
      BY <1>t
    <2> HIDE DEF limit
    <2>3. tally'.champion \in [Kinds -> limit]
      BY <1>12, <2>1, <2>2
    <2>4. tally'.challenger \in [Kinds -> limit]
      BY <1>12, <2>1, <2>2
    <2> QED BY <1>12, <2>3, <2>4
  <1>15. /\ counted["requests"] \in limit /\ counted["dropped"] \in limit
         /\ counted["success"] \in limit /\ counted["errors"] \in limit
         /\ counted["divergence"] \in limit
    BY <1>t DEF Counters
  <1>16. /\ counted'["requests"] = counted["requests"] /\ counted'["dropped"] = counted["dropped"]
         /\ counted'["success"] = IF ok THEN counted["success"] + 1 ELSE counted["success"]
         /\ counted'["errors"] = IF ok THEN counted["errors"] ELSE counted["errors"] + 1
         /\ counted'["divergence"] \in {counted["divergence"], counted["divergence"] + 1}
         /\ DOMAIN counted' = Counters
         /\ counted' = [c \in Counters |-> counted'[c]]
    <2>1. CASE ok
      BY <1>1, <1>q, <2>1 DEF Counters
    <2>2. CASE ~ok
      BY <1>1, <1>q, <2>2 DEF Counters
    <2> QED BY <2>1, <2>2
  <1>17. /\ counted'["success"] + counted'["errors"] = Cardinality(Found')
         /\ counted'["divergence"] <= Cardinality(Found')
    BY <1>10, <1>15, <1>16, <1>n DEF ShadowIInv, CountersExact
  <1>18. counted' \in [Counters -> limit]
    <2>1. Cardinality(Found') \in Nat /\ Cardinality(Found') <= Cardinality(Scored)
      BY <1>11, ScoredSets
    <2>2. /\ counted'["requests"] \in limit /\ counted'["dropped"] \in limit
          /\ counted'["success"] \in limit /\ counted'["errors"] \in limit
          /\ counted'["divergence"] \in limit
      BY <1>15, <1>16, <1>17, <1>n, <2>1
    <2>3. \A c \in Counters : counted'[c] \in limit
      BY <2>2 DEF Counters
    <2> QED BY <1>16, <2>3
  <1>19. CountersExact'
    <2>1. Requested' = Requested /\ Refused' = Refused
      BY <1>1, ShadowFrame
    <2> QED BY <1>13, <1>16, <1>17, <2>1 DEF ShadowIInv, CountersExact
  <1>20. TaskInOnePlace'
    <2>1. Holds(channelQ)' = Holds(channelQ) /\ InHand' = InHand
      BY <1>1, ShadowFrame
    <2>2. (Holds(channelQ) \cap Found)' = {}
      BY <1>3, <1>7, <2>1 DEF ShadowIInv, TaskInOnePlace
    <2> QED BY <1>1, <1>3, <1>7, <2>1, <2>2 DEF ShadowIInv, TaskInOnePlace
  <1>21. ShadowTypeOK'
    BY <1>1, <1>6, <1>14, <1>18 DEF ShadowIInv, ShadowTypeOK
  <1>22. PoolOrder'
    BY <1>1 DEF ShadowIInv, PoolOrder
  <1> QED BY <1>19, <1>20, <1>21, <1>22 DEF ShadowIInv

LEMMA StoreRowKeeps ==
  ASSUME ShadowIInv, NEW w \in ShadowWorkers, NEW ok \in BOOLEAN, StoreRow(w, ok)
  PROVE  ShadowIInv'
  <1> DEFINE s == working[w]
  <1>1. /\ UNCHANGED <<sender, channelQ, pool, counted, tally>>
        /\ s \in Scored /\ row[s].state = "counted"
        /\ row' = [row EXCEPT ![s].state = IF ok THEN "stored" ELSE "lost"]
        /\ working' = [working EXCEPT ![w] = NoTask]
    BY DEF StoreRow
  <1>2. /\ row' \in [Scored -> [state : {"none", "counted", "stored", "lost"}, decision : Kinds]]
        /\ row'[s].state \in {"stored", "lost"} /\ row'[s].decision = row[s].decision
        /\ \A x \in Scored \ {s} : row'[x] = row[x]
    <2> DEFINE end == IF ok THEN "stored" ELSE "lost"
    <2>1. end \in {"stored", "lost"} /\ row' = [row EXCEPT ![s].state = end] /\ s \in Scored
      BY <1>1
    <2>2. row \in [Scored -> [state : {"none", "counted", "stored", "lost"}, decision : Kinds]]
      BY DEF ShadowIInv, ShadowTypeOK
    <2> HIDE DEF s, end
    <2> QED BY <2>1, <2>2
  <1>3. /\ working'[w] = NoTask /\ \A v \in ShadowWorkers \ {w} : working'[v] = working[v]
        /\ working' \in [ShadowWorkers -> Scored \cup {NoTask, Exited}]
    BY <1>1 DEF ShadowIInv, ShadowTypeOK
  <1>4. s \in InHand /\ \A v \in ShadowWorkers \ {w} : working[v] # s
    BY <1>1, InHandIs DEF ShadowIInv, TaskInOnePlace
  <1>5. working[w] = s
    OBVIOUS
  <1> HIDE DEF s
  <1>6. Found' = Found /\ s \in Found
    BY <1>1, <1>2 DEF Found
  <1>7. \A k \in Kinds : FoundFrom'[k] = FoundFrom[k] /\ FoundTo'[k] = FoundTo[k]
    BY <1>2, <1>6 DEF FoundFrom, FoundTo, Found
  <1>8. InHand' = InHand \ {s}
    <2>1. InHand' = {x \in Scored : \E v \in ShadowWorkers : working'[v] = x}
      BY DEF InHand
    <2> QED BY <1>3, <1>4, <1>5, <2>1, InHandIs, ShadowAssumption
  <1>9. TaskInOnePlace'
    <2>1. Holds(channelQ)' = Holds(channelQ) /\ NoRepeats(channelQ)' = NoRepeats(channelQ)
      BY <1>1 DEF Holds, NoRepeats
    <2>2. \A v, u \in ShadowWorkers : v # u /\ working'[v] \in Scored => working'[v] # working'[u]
      BY <1>3, ShadowAssumption DEF ShadowIInv, TaskInOnePlace
    <2> QED BY <1>1, <1>6, <1>8, <2>1, <2>2 DEF ShadowIInv, TaskInOnePlace
  <1>10. CountersExact'
    BY <1>1, <1>6, <1>7, ShadowFrame DEF ShadowIInv, CountersExact
  <1>11. ShadowTypeOK'
    BY <1>1, <1>2, <1>3 DEF ShadowIInv, ShadowTypeOK
  <1>12. PoolOrder'
    <2>1. working[w] # Exited
      BY <1>1, <1>5, ShadowAssumption
    <2>2. NoTask # Exited
      BY DEF NoTask, Exited
    <2> QED BY <1>1, <1>3, <2>1, <2>2 DEF ShadowIInv, PoolOrder
  <1> QED BY <1>9, <1>10, <1>11, <1>12 DEF ShadowIInv

(* Every task the shadow pool counted is accounted for, a shutdown that     *)
(* reports to be graceful left none behind, and the rows the workers stored *)
(* explain the counters of decisions, up to the rows that were lost:        *)
(* Enqueue, the workers and Close, in every order they can run.             *)
THEOREM ShadowIsSound == ShadowSpec => []ShadowAccounts
  <1>1. ShadowInit => ShadowIInv
    BY ShadowInitIInv
  <1>2. ShadowIInv /\ [ShadowNext]_shadowVars => ShadowIInv'
    <2> SUFFICES ASSUME ShadowIInv, [ShadowNext]_shadowVars
                 PROVE  ShadowIInv'
      OBVIOUS
    <2>1. ASSUME NEW s \in Scored, CheckOpen(s) \/ CountRequest(s) \/ SendTask(s)
          PROVE  ShadowIInv'
      BY <2>1, CheckOpenKeeps, CountRequestKeeps, SendTaskKeeps
    <2>2. ASSUME NEW w \in ShadowWorkers, WorkerMoves(w)
          PROVE  ShadowIInv'
      BY <2>2, TakeTaskKeeps, ExitWorkerKeeps, CountOutcomeKeeps, StoreRowKeeps DEF WorkerMoves
    <2>3. CASE MarkClosed \/ CloseChannel \/ EndClose \/ CloseTimesOut
      BY <2>3, PoolStepKeeps
    <2>4. CASE UNCHANGED shadowVars
      <3>1. UNCHANGED <<sender, channelQ, working, pool, counted, tally, row>>
        BY <2>4 DEF shadowVars
      <3>2. pool' \in [closed : BOOLEAN, channel : {"open", "closed"}, cancelled : BOOLEAN,
                       result : {"none", "graceful", "timed out"}]
        BY <3>1 DEF ShadowIInv, ShadowTypeOK
      <3> QED BY <3>1, <3>2, ShadowStutters
    <2> QED BY <2>1, <2>2, <2>3, <2>4 DEF ShadowNext
  <1>3. ShadowIInv => ShadowAccounts
    BY ShadowSound
  <1> QED BY <1>1, <1>2, <1>3, PTL DEF ShadowSpec
===============================================================================
