----------------------------- MODULE Idempotency ------------------------------
(***************************************************************************)
(* The idempotency middleware (riskengine/idempotency.go) on several pods,  *)
(* for the requests of one tenant that carry one X-Idempotency-Key. A pod   *)
(* keeps a record of the key in memory (layer 1), PostgreSQL keeps a row    *)
(* for all pods (layer 2).                                                  *)
(*                                                                          *)
(* Two locks matter: s.mu over a pod's map of records, and rec.mu in each   *)
(* record, which the request that created the record holds until it has a   *)
(* response. A duplicate waits for rec.mu while it holds s.mu.              *)
(* Every statement on the row is a step of its own.                         *)
(***************************************************************************)
EXTENDS Naturals, FiniteSets

CONSTANTS
  Requests,   \* HTTP requests with the key; a retry is another request
  Pods,
  PodOf,      \* PodOf[r]: the pod that serves r
  Payloads,   \* method, path and body: what the request hash tells apart
  PayloadsOf, \* PayloadsOf[r]: those that r may carry
  NoPayload,  \* the empty hash
  NoRequest,
  MaxFaults   \* bound on crashes, failed statements and lost heartbeats

ASSUME IdempotencyAssumption ==
  /\ PodOf \in [Requests -> Pods]
  /\ PayloadsOf \in [Requests -> SUBSET Payloads]
  /\ NoPayload \notin Payloads
  /\ NoRequest \notin Requests
  /\ MaxFaults \in Nat

VARIABLES
  store,    \* store[p]: the request whose record s.records holds on pod p
  record,   \* record[r]: the record that r created
  row,      \* the row of the key in idempotency_records
  expired,  \* the row's expires_at has passed
  req,      \* the control point and the locals of each request
  faults,   \* faults so far
  started,  \* history: requests that called the downstream handler
  excused,  \* history: one of them took over the key of another, or did not wait for it
  crossed,  \* history: the row it did so with was that of another payload, or absent
  evicted   \* history: pods that dropped the record of a request still at work

shared == <<store, record, row, expired>>
histories == <<started, excused, crossed, evicted>>
vars == <<shared, req, faults, histories>>

\* Control points at which a request holds the rec.mu of its own record.
Undecided ==
  {"fetching", "reclaiming", "waiting",
   "claiming", "refetching", "reclaimingAgain", "waitingAgain"}

Executing == {"executing", "panicked"}

Final == {"executed", "replayed", "conflicted", "panicked", "lost"}

PCs == {"new", "arriving", "blocked", "dropping", "persisting"} \cup Undecided \cup Executing \cup Final

(* old: the row's lease was over when the request arrived, and nobody has   *)
(* renewed it since. got: whose response the request replayed.              *)
Request ==
  [pc : PCs, payload : Payloads \cup {NoPayload}, old : BOOLEAN, got : Requests \cup {NoRequest}]

\* The response of a record or a row is named by the request that executed.
Record == [locked : BOOLEAN, response : Requests \cup {NoRequest}]

EmptyRecord == [locked |-> FALSE, response |-> NoRequest]

\* stale: updated_at is StaleInFlightLeaseDuration ago.
Row ==
  [state : {"absent", "inFlight", "completed"}, payload : Payloads \cup {NoPayload},
   stale : BOOLEAN, response : Requests \cup {NoRequest}]

NoRow == [state |-> "absent", payload |-> NoPayload, stale |-> FALSE, response |-> NoRequest]

TypeOK ==
  /\ store \in [Pods -> Requests \cup {NoRequest}]
  /\ record \in [Requests -> Record]
  /\ row \in Row
  /\ expired \in BOOLEAN
  /\ req \in [Requests -> Request]
  /\ faults \in 0 .. MaxFaults
  /\ started \subseteq Requests
  /\ excused \in BOOLEAN
  /\ crossed \in BOOLEAN
  /\ evicted \subseteq Pods

Init ==
  /\ store = [p \in Pods |-> NoRequest]
  /\ record = [r \in Requests |-> EmptyRecord]
  /\ row = NoRow /\ expired = FALSE
  /\ req = [r \in Requests |-> [pc |-> "new", payload |-> NoPayload, old |-> FALSE,
                                got |-> NoRequest]]
  /\ faults = 0
  /\ started = {} /\ excused = FALSE /\ crossed = FALSE /\ evicted = {}

-----------------------------------------------------------------------------
(* Layer 1: the pod's memory.                                               *)

GoTo(r, pc) == req' = [req EXCEPT ![r] = [@ EXCEPT !.pc = pc]]

\* s.mu is held by a duplicate that waits for a record.
StoreLocked(p) == \E q \in Requests : PodOf[q] = p /\ req[q].pc = "blocked"

\* The middleware up to s.mu.Lock; the clock is read here and never again.
Arrive(r, payload) ==
  /\ req[r].pc = "new"
  /\ req' = [req EXCEPT ![r] = [@ EXCEPT !.pc = "arriving", !.payload = payload,
                                         !.old = row.stale]]
  /\ UNCHANGED <<shared, faults, histories>>

\* Mutant: the hash of the record is not compared.
LookUpByKey(r) ==
  LET p == PodOf[r]
      owner == store[p]
  IN /\ req[r].pc = "arriving" /\ ~StoreLocked(p)
     /\ \/ /\ owner # NoRequest
           /\ GoTo(r, "blocked")
           /\ UNCHANGED <<store, record>>
        \/ /\ owner = NoRequest
           /\ store' = [store EXCEPT ![p] = r]
           /\ record' = [record EXCEPT ![r] = [EmptyRecord EXCEPT !.locked = TRUE]]
           /\ GoTo(r, "fetching")
     /\ UNCHANGED <<row, expired, faults, histories>>

\* Mutant: the lookup and the insertion of the record are not one critical section.
LookUpAlone(r) ==
  LET p == PodOf[r]
  IN /\ req[r].pc = "arriving" /\ ~StoreLocked(p)
     /\ store' = [store EXCEPT ![p] = r]
     /\ record' = [record EXCEPT ![r] = [EmptyRecord EXCEPT !.locked = TRUE]]
     /\ GoTo(r, "fetching")
     /\ UNCHANGED <<row, expired, faults, histories>>

(* Under s.mu: a record of another payload is a conflict, one of the same   *)
(* payload is waited for, and the first request registers its own, locked.  *)
LookUp(r) ==
  LET p == PodOf[r]
      owner == store[p]
  IN /\ req[r].pc = "arriving" /\ ~StoreLocked(p)
     /\ \/ /\ owner # NoRequest
           /\ GoTo(r, IF req[owner].payload = req[r].payload THEN "blocked" ELSE "conflicted")
           /\ UNCHANGED <<store, record>>
        \/ /\ owner = NoRequest
           /\ store' = [store EXCEPT ![p] = r]
           /\ record' = [record EXCEPT ![r] = [EmptyRecord EXCEPT !.locked = TRUE]]
           /\ GoTo(r, "fetching")
     /\ UNCHANGED <<row, expired, faults, histories>>

Replay(r, response) == req' = [req EXCEPT ![r] = [@ EXCEPT !.pc = "replayed", !.got = response]]

(* rec.mu is free: whatever the record holds is the answer. One whose owner *)
(* ran into a conflict in the database holds nothing.                       *)
ReplayRecord(r) ==
  LET owner == store[PodOf[r]]
  IN /\ req[r].pc = "blocked" /\ ~record[owner].locked
     /\ Replay(r, record[owner].response)
     /\ UNCHANGED <<shared, faults, histories>>

(* The map is full and drops the record, or the record's TTL has passed.    *)
(* That its owner may still be at work does not matter.                     *)
Evict(p) ==
  /\ store[p] # NoRequest /\ ~StoreLocked(p)
  /\ store' = [store EXCEPT ![p] = NoRequest]
  /\ evicted' = IF req[store[p]].pc \in Undecided \cup Executing \cup {"dropping"}
                THEN evicted \cup {p} ELSE evicted
  /\ UNCHANGED <<record, row, expired, req, faults, started, excused, crossed>>

-----------------------------------------------------------------------------
(* Layer 2: the row.                                                        *)

\* The record of r gets a response, or none, and rec.mu is released.
Release(r, response) == record' = [record EXCEPT ![r] = [locked |-> FALSE, response |-> response]]

\* The row answers r: a conflict if its hash is another one, its response if it has one.
RowConflicts(r) ==
  /\ row.payload # req[r].payload
  /\ Release(r, NoRequest)
  /\ GoTo(r, "dropping")

RowReplays(r) ==
  /\ row.payload = req[r].payload /\ row.state = "completed"
  /\ Release(r, row.response)
  /\ Replay(r, row.response)

Fault == faults < MaxFaults /\ faults' = faults + 1

\* fetchDBRecord: a row that has expired counts as none.
Fetch(r) ==
  /\ req[r].pc = "fetching"
  /\ \/ /\ row.state = "absent" \/ expired
        /\ GoTo(r, "claiming") /\ UNCHANGED record
     \/ /\ row.state # "absent" /\ ~expired
        /\ \/ RowConflicts(r)
           \/ RowReplays(r)
           \/ /\ row.payload = req[r].payload /\ row.state = "inFlight"
              /\ GoTo(r, IF req[r].old THEN "reclaiming" ELSE "waiting") /\ UNCHANGED record
  /\ UNCHANGED <<store, row, expired, faults, histories>>

FetchFails(r) ==
  /\ req[r].pc = "fetching"
  /\ Fault
  /\ GoTo(r, "claiming")
  /\ UNCHANGED <<shared, histories>>

\* Mutant: the INSERT overwrites what is there.
ClaimOverwriting(r) ==
  /\ req[r].pc = "claiming"
  /\ row' = [NoRow EXCEPT !.state = "inFlight", !.payload = req[r].payload]
  /\ started' = started \cup {r}
  /\ GoTo(r, "executing")
  /\ UNCHANGED <<store, record, expired, faults, excused, crossed, evicted>>

\* claimDBInFlight: INSERT ... ON CONFLICT DO NOTHING.
Claim(r) ==
  /\ req[r].pc = "claiming"
  /\ IF row.state = "absent"
       THEN /\ row' = [NoRow EXCEPT !.state = "inFlight", !.payload = req[r].payload]
            /\ started' = started \cup {r}
            /\ GoTo(r, "executing")
       ELSE /\ GoTo(r, "refetching")
            /\ UNCHANGED <<row, started>>
  /\ UNCHANGED <<store, record, expired, faults, excused, crossed, evicted>>

\* An error counts as a lost race, whether the row was inserted or not.
ClaimFails(r) ==
  /\ req[r].pc = "claiming"
  /\ Fault
  /\ row' \in {row} \cup IF row.state = "absent"
                         THEN {[NoRow EXCEPT !.state = "inFlight", !.payload = req[r].payload]}
                         ELSE {}
  /\ GoTo(r, "refetching")
  /\ UNCHANGED <<store, record, expired, histories>>

\* After a lost race neither the hash nor expires_at is looked at before the lease.
Refetch(r) ==
  /\ req[r].pc = "refetching"
  /\ GoTo(r, IF row.state = "inFlight" /\ req[r].old THEN "reclaimingAgain" ELSE "waitingAgain")
  /\ UNCHANGED <<shared, faults, histories>>

\* Mutant: the UPDATE does not ask for a row that is in flight.
ReclaimAnything(r) ==
  /\ req[r].pc \in {"reclaiming", "reclaimingAgain"}
  /\ row' = [NoRow EXCEPT !.state = "inFlight", !.payload = req[r].payload]
  /\ started' = started \cup {r} /\ excused' = TRUE
  /\ crossed' = (crossed \/ row.payload # req[r].payload)
  /\ req' = [q \in Requests |-> [req[q] EXCEPT !.old = FALSE,
                                               !.pc = IF q = r THEN "executing" ELSE @]]
  /\ UNCHANGED <<store, record, expired, faults, evicted>>

(* reclaimStaleDBInFlight: a lease that is over is taken over, and the row's *)
(* hash with it.                                                            *)
Reclaim(r) ==
  /\ req[r].pc \in {"reclaiming", "reclaimingAgain"}
  /\ IF row.state = "inFlight" /\ row.stale
       THEN /\ row' = [row EXCEPT !.payload = req[r].payload, !.stale = FALSE]
            /\ started' = started \cup {r} /\ excused' = TRUE
            /\ crossed' = (crossed \/ row.payload # req[r].payload)
            /\ req' = [q \in Requests |-> [req[q] EXCEPT !.old = FALSE,
                                                         !.pc = IF q = r THEN "executing" ELSE @]]
       ELSE /\ GoTo(r, IF req[r].pc = "reclaiming" THEN "waiting" ELSE "waitingAgain")
            /\ UNCHANGED <<row, started, excused, crossed>>
  /\ UNCHANGED <<store, record, expired, faults, evicted>>

\* waitForDBCompletion finds an answer ...
Poll(r) ==
  /\ req[r].pc \in {"waiting", "waitingAgain"}
  /\ row.state # "absent"
  /\ RowConflicts(r) \/ RowReplays(r)
  /\ UNCHANGED <<store, row, expired, faults, histories>>

(* ... or its 3 seconds are over, or the client is gone. The first time the *)
(* request goes on to the claim, the second time it executes.               *)
GiveUp(r) ==
  \/ /\ req[r].pc = "waiting"
     /\ GoTo(r, "claiming")
     /\ UNCHANGED <<shared, faults, histories>>
  \/ /\ req[r].pc = "waitingAgain"
     /\ GoTo(r, "executing")
     /\ started' = started \cup {r} /\ excused' = TRUE
     /\ crossed' = (crossed \/ row.payload # req[r].payload)
     /\ UNCHANGED <<shared, faults, evicted>>

\* A conflict in the database: whatever record is there by now is dropped.
Drop(r) ==
  /\ req[r].pc = "dropping" /\ ~StoreLocked(PodOf[r])
  /\ store' = [store EXCEPT ![PodOf[r]] = NoRequest]
  /\ GoTo(r, "conflicted")
  /\ UNCHANGED <<record, row, expired, faults, histories>>

-----------------------------------------------------------------------------
(* Execution.                                                               *)

\* Mutant: the record is not unlocked when the handler has returned.
FinishKeepingLock(r) ==
  /\ req[r].pc = "executing"
  /\ record' = [record EXCEPT ![r] = [locked |-> TRUE, response |-> r]]
  /\ GoTo(r, "persisting")
  /\ UNCHANGED <<store, row, expired, faults, histories>>

\* The handler returns: the heartbeat ends and the record is released, then the row is written.
Finish(r) ==
  /\ req[r].pc = "executing"
  /\ Release(r, r)
  /\ GoTo(r, "persisting")
  /\ UNCHANGED <<store, row, expired, faults, histories>>

(* The handler panics: nothing is deferred, so the record stays locked and  *)
(* the heartbeat goes on for as long as the pod lives.                      *)
Panic(r) ==
  /\ req[r].pc = "executing"
  /\ Fault
  /\ GoTo(r, "panicked")
  /\ UNCHANGED <<shared, histories>>

(* persistDBCompleted: an upsert that inserts an empty hash and updates     *)
(* whatever row it finds, completed ones too.                               *)
Persist(r) ==
  /\ req[r].pc = "persisting"
  /\ row' = [row EXCEPT !.state = "completed", !.stale = FALSE, !.response = r]
  /\ GoTo(r, "executed")
  /\ UNCHANGED <<store, record, expired, faults, histories>>

PersistFails(r) ==
  /\ req[r].pc = "persisting"
  /\ Fault
  /\ GoTo(r, "executed")
  /\ UNCHANGED <<shared, histories>>

\* The heartbeat of any execution renews the lease of the row, whoever has it.
Heartbeat ==
  /\ row.state = "inFlight" /\ row.stale
  /\ \E q \in Requests : req[q].pc \in Executing
  /\ row' = [row EXCEPT !.stale = FALSE]
  /\ req' = [q \in Requests |-> [req[q] EXCEPT !.old = FALSE]]
  /\ UNCHANGED <<store, record, expired, faults, histories>>

\* 10 seconds without a heartbeat.
Lapse ==
  /\ row.state = "inFlight" /\ ~row.stale
  /\ row' = [row EXCEPT !.stale = TRUE]
  /\ \/ (\A q \in Requests : req[q].pc \notin Executing) /\ UNCHANGED faults
     \/ (\E q \in Requests : req[q].pc \in Executing) /\ Fault
  /\ UNCHANGED <<store, record, expired, req, histories>>

\* 15 minutes after the row was inserted; no request takes that long.
Expire ==
  /\ row.state # "absent" /\ ~expired
  /\ \A q \in Requests : req[q].pc \in Final \cup {"new"}
  /\ expired' = TRUE
  /\ UNCHANGED <<store, record, row, req, faults, histories>>

\* The pod dies with its memory and the requests that it serves.
Crash(p) ==
  /\ Fault
  /\ store' = [store EXCEPT ![p] = NoRequest]
  /\ record' = [r \in Requests |-> IF PodOf[r] = p THEN EmptyRecord ELSE record[r]]
  /\ req' = [r \in Requests |->
               IF PodOf[r] = p /\ req[r].pc \notin (Final \ {"panicked"}) \cup {"new"}
               THEN [req[r] EXCEPT !.pc = "lost"] ELSE req[r]]
  /\ evicted' = evicted \ {p}
  /\ UNCHANGED <<row, expired, started, excused, crossed>>

-----------------------------------------------------------------------------

\* What a request that has arrived does by itself, up to its answer and the row.
Proceed(r) ==
  \/ LookUp(r)
  \/ ReplayRecord(r)
  \/ Fetch(r)
  \/ Claim(r)
  \/ Refetch(r)
  \/ Reclaim(r)
  \/ Poll(r)
  \/ GiveUp(r)
  \/ Drop(r)
  \/ Finish(r)
  \/ Persist(r)

Fails(r) ==
  \/ FetchFails(r)
  \/ ClaimFails(r)
  \/ Panic(r)
  \/ PersistFails(r)

Next ==
  \/ \E r \in Requests : \E payload \in PayloadsOf[r] : Arrive(r, payload)
  \/ \E r \in Requests : Proceed(r) \/ Fails(r)
  \/ \E p \in Pods : Evict(p) \/ Crash(p)
  \/ Heartbeat
  \/ Lapse
  \/ Expire

(* A handler ends (the API bounds a request to 60 seconds), a statement     *)
(* returns, a lock that is free is granted.                                 *)
Fairness == \A r \in Requests : WF_vars(Proceed(r))

Spec == Init /\ [][Next]_vars /\ Fairness

-----------------------------------------------------------------------------
(* Properties.                                                              *)

(* On one pod at most one request at a time is past the pod's record and    *)
(* may reach the database or the handler, unless the map dropped the record *)
(* of one that was: the pod's memory coalesces duplicates.                  *)
PodCoalesces ==
  \A q, r \in Requests :
    /\ q # r /\ PodOf[q] = PodOf[r]
    /\ {req[q].pc, req[r].pc} \subseteq Undecided \cup Executing
    => PodOf[r] \in evicted

(* Of all requests on all pods one calls the handler, as long as nobody     *)
(* takes over a lease or gives up waiting: neither crashes nor evictions,   *)
(* failed statements or the row's expiry lead to a second execution alone.  *)
OnceUnlessExcused == \A q, r \in started : q = r \/ excused

(* A replayed response is the response to the same payload, or empty,       *)
(* unless a request executed on a row that carried another payload or that  *)
(* was not there.                                                           *)
ReplaysMatch ==
  \A r \in Requests :
    req[r].pc = "replayed" /\ req[r].got # NoRequest =>
      req[req[r].got].payload = req[r].payload \/ crossed

(* A completed row is never reopened, its hash never changes, and its       *)
(* response only where a second execution was excused.                      *)
CompletedStays ==
  [][row.state = "completed" =>
       /\ row'.state = "completed" /\ row'.payload = row.payload
       /\ row'.response = row.response \/ excused]_vars

(* Every request is answered, on a pod that neither crashes nor has a       *)
(* handler that panicked: no lock is waited for in a circle, and no wait    *)
(* for another pod is endless.                                              *)
Answered ==
  \A r \in Requests :
    req[r].pc = "arriving" ~>
      \/ req[r].pc \in Final
      \/ \E q \in Requests : PodOf[q] = PodOf[r] /\ req[q].pc = "panicked"

===============================================================================
