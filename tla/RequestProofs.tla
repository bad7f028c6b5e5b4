----------------------------- MODULE RequestProofs ------------------------------
(***************************************************************************)
(* What a request relies on, for any number of pods, requests, payloads and *)
(* faults: the pod's memory coalesces duplicates, a second execution needs  *)
(* an excuse, and what is recorded and replayed fits the payload. And what  *)
(* its payment is told of the fraud graph, for any accounts, devices,       *)
(* payments, limits and hours.                                              *)
(***************************************************************************)
EXTENDS Idempotency, EntityGraph, FiniteSetTheorems, WellFoundedInduction, TLAPS

\* Control points at which a request relies on its record in the store.
Working == Undecided \cup Executing \cup {"dropping"}

\* Control points from the call of the handler to the write of the row.
Serving == Executing \cup {"persisting"}

\* A response is empty, or that of an execution of the same payload.
Fits(response, payload) ==
  response # NoRequest => response \in started /\ (req[response].payload = payload \/ crossed)

RowOK ==
  /\ row.state = "absent" =>
       row.payload = NoPayload /\ row.response = NoRequest /\ (started = {} \/ excused)
  /\ row.state = "completed" => row.response # NoRequest
  /\ Fits(row.response, row.payload)

StoreOK(p) == store[p] # NoRequest => PodOf[store[p]] = p /\ req[store[p]].pc # "new"

\* A duplicate waits for the record of a request with its payload.
BlockedOK(r) ==
  req[r].pc = "blocked" =>
    store[PodOf[r]] # NoRequest /\ req[store[PodOf[r]]].payload = req[r].payload

HolderOK(r) == req[r].pc \in Working => PodOf[r] \in evicted \/ store[PodOf[r]] = r

ServiceOK(r) ==
  req[r].pc \in Serving => r \in started /\ (row.payload = req[r].payload \/ crossed)

RequestOK(r) ==
  /\ req[r].pc # "new" => req[r].payload \in Payloads
  /\ req[r].pc = "new" => r \notin started /\ record[r].response = NoRequest /\ req[r].got = NoRequest
  /\ BlockedOK(r)
  /\ HolderOK(r)
  /\ ServiceOK(r)
  /\ Fits(record[r].response, req[r].payload)
  /\ Fits(req[r].got, req[r].payload)

IInv ==
  /\ TypeOK
  /\ RowOK
  /\ \A p \in Pods : StoreOK(p)
  /\ \A r \in Requests : RequestOK(r)
  /\ OnceUnlessExcused

-----------------------------------------------------------------------------

LEMMA InitIInv == Init => IInv
  <1> SUFFICES ASSUME Init PROVE IInv
    OBVIOUS
  <1>1. TypeOK
    <2>1. store \in [Pods -> Requests \cup {NoRequest}] /\ row \in Row
      BY DEF Init, Row, NoRow
    <2>2. record \in [Requests -> Record]
      BY DEF Init, Record, EmptyRecord
    <2>3. req \in [Requests -> Request]
      BY DEF Init, Request, PCs
    <2>4. faults \in 0 .. MaxFaults
      BY IdempotencyAssumption DEF Init
    <2> QED BY <2>1, <2>2, <2>3, <2>4 DEF Init, TypeOK
  <1>2. RowOK /\ \A p \in Pods : StoreOK(p)
    BY DEF Init, RowOK, StoreOK, NoRow, Fits
  <1>3. ASSUME NEW r \in Requests PROVE RequestOK(r)
    BY DEF Init, RequestOK, BlockedOK, HolderOK, ServiceOK, Fits, EmptyRecord,
           Working, Undecided, Executing, Serving
  <1> QED BY <1>1, <1>2, <1>3 DEF IInv, OnceUnlessExcused, Init

(* A request moves on to another control point, and maybe its record with   *)
(* it; the row and what others see of it stay.                              *)
LEMMA RequestStep ==
  ASSUME IInv, NEW r \in Requests, NEW x \in Request, NEW m \in Record,
         faults' \in 0 .. MaxFaults,
         UNCHANGED <<store, row, expired, histories>>,
         req' = [req EXCEPT ![r] = x],
         record' = [record EXCEPT ![r] = m],
         req[r].pc # "new", x.pc # "new", x.payload = req[r].payload,
         x.pc = "blocked" => req[r].pc = "blocked",
         x.pc \in Working => req[r].pc \in Working,
         x.pc \in Serving => req[r].pc \in Serving,
         Fits(m.response, x.payload),
         Fits(x.got, x.payload)
  PROVE  IInv'
  <1>1. TypeOK'
    BY DEF IInv, TypeOK, histories
  <1>2. \A q \in Requests : req'[q].payload = req[q].payload
    BY DEF IInv, TypeOK
  <1>3. \A q \in Requests : req'[q].pc = "new" <=> req[q].pc = "new"
    BY DEF IInv, TypeOK
  <1>4. ASSUME NEW response \in Requests \cup {NoRequest}, NEW payload, Fits(response, payload)
        PROVE  Fits(response, payload)'
    BY <1>2, <1>4 DEF Fits, histories
  <1>5. RowOK'
    BY <1>4 DEF IInv, RowOK, TypeOK, Row, histories
  <1>6. ASSUME NEW p \in Pods PROVE StoreOK(p)'
    BY <1>3 DEF IInv, StoreOK, TypeOK
  <1>7. ASSUME NEW q \in Requests PROVE RequestOK(q)'
    <2>1. BlockedOK(q)'
      BY <1>2, IdempotencyAssumption DEF IInv, RequestOK, BlockedOK, TypeOK
    <2>2. HolderOK(q)'
      BY IdempotencyAssumption DEF IInv, RequestOK, HolderOK, TypeOK, histories
    <2>3. ServiceOK(q)'
      BY <1>2 DEF IInv, RequestOK, ServiceOK, TypeOK, histories
    <2>4. Fits(record[q].response, req[q].payload) /\ Fits(req[q].got, req[q].payload)
      BY DEF IInv, RequestOK
    <2>5. /\ record[q].response \in Requests \cup {NoRequest}
          /\ req[q].got \in Requests \cup {NoRequest}
          /\ m.response \in Requests \cup {NoRequest}
          /\ x.got \in Requests \cup {NoRequest}
      BY DEF IInv, TypeOK, Record, Request
    <2>6. (Fits(record[q].response, req[q].payload) /\ Fits(req[q].got, req[q].payload))'
      <3>1. CASE q = r
        <4>1. record'[q] = m /\ req'[q] = x
          BY <3>1 DEF IInv, TypeOK
        <4> QED BY <1>2, <2>5, <4>1 DEF Fits, histories
      <3>2. CASE q # r
        <4>1. record'[q] = record[q] /\ req'[q] = req[q]
          BY <3>2 DEF IInv, TypeOK
        <4> QED BY <1>2, <2>4, <2>5, <4>1 DEF Fits, histories
      <3> QED BY <3>1, <3>2
    <2> QED BY <1>2, <1>3, <2>1, <2>2, <2>3, <2>6 DEF IInv, RequestOK, histories
  <1> QED BY <1>1, <1>5, <1>6, <1>7 DEF IInv, OnceUnlessExcused, histories

\* The same, when the record stays as it is.
LEMMA MoveOn ==
  ASSUME IInv, NEW r \in Requests, NEW pc \in PCs,
         faults' \in 0 .. MaxFaults,
         UNCHANGED <<shared, histories>>,
         GoTo(r, pc),
         req[r].pc # "new", pc \notin {"new", "blocked"},
         pc \in Working => req[r].pc \in Working,
         pc \in Serving => req[r].pc \in Serving
  PROVE  IInv'
  <1> DEFINE x == [req[r] EXCEPT !.pc = pc]
             m == record[r]
  <1>1. req[r] \in Request /\ m \in Record
    BY DEF IInv, TypeOK
  <1>2. x \in Request /\ x.pc = pc /\ x.payload = req[r].payload /\ x.got = req[r].got
    BY <1>1 DEF Request
  <1>3. req' = [req EXCEPT ![r] = x]
    BY DEF GoTo
  <1>4. record' = [record EXCEPT ![r] = m] /\ UNCHANGED <<store, row, expired, histories>>
    BY DEF IInv, TypeOK, shared
  <1>5. Fits(m.response, x.payload) /\ Fits(x.got, x.payload)
    BY <1>2 DEF IInv, RequestOK
  <1> HIDE DEF x, m
  <1> QED BY <1>1, <1>2, <1>3, <1>4, <1>5, RequestStep

\* The row answers the request: a conflict, or its response.
LEMMA RowAnswers ==
  ASSUME IInv, NEW r \in Requests,
         req[r].pc \in Undecided,
         RowConflicts(r) \/ RowReplays(r),
         UNCHANGED <<store, row, expired, faults, histories>>
  PROVE  IInv'
  <1>0. req[r] \in Request /\ row \in Row /\ faults \in 0 .. MaxFaults
    BY DEF IInv, TypeOK
  <1>1. CASE RowConflicts(r)
    <2> DEFINE x == [req[r] EXCEPT !.pc = "dropping"]
               m == [locked |-> FALSE, response |-> NoRequest]
    <2>1. x \in Request /\ x.pc = "dropping" /\ x.payload = req[r].payload /\ x.got = req[r].got
      BY <1>0 DEF Request, PCs
    <2>2. m \in Record /\ m.response = NoRequest
      BY DEF Record
    <2>3. req' = [req EXCEPT ![r] = x] /\ record' = [record EXCEPT ![r] = m]
      BY <1>1 DEF RowConflicts, Release, GoTo
    <2>4. Fits(m.response, x.payload) /\ Fits(x.got, x.payload)
      BY <2>1, <2>2 DEF Fits, IInv, RequestOK
    <2>5. req[r].pc # "new" /\ req[r].pc \in Working /\ "dropping" \notin Serving
      BY DEF Undecided, Working, Serving, Executing
    <2> HIDE DEF x, m
    <2> QED BY <1>0, <2>1, <2>2, <2>3, <2>4, <2>5, RequestStep
  <1>2. CASE RowReplays(r)
    <2> DEFINE x == [req[r] EXCEPT !.pc = "replayed", !.got = row.response]
               m == [locked |-> FALSE, response |-> row.response]
    <2>1. /\ x \in Request /\ x.pc = "replayed" /\ x.payload = req[r].payload
          /\ x.got = row.response
      BY <1>0 DEF Request, PCs, Row, Final
    <2>2. m \in Record /\ m.response = row.response
      BY <1>0 DEF Record, Row
    <2>3. req' = [req EXCEPT ![r] = x] /\ record' = [record EXCEPT ![r] = m]
      BY <1>2 DEF RowReplays, Release, Replay
    <2>4. Fits(row.response, x.payload)
      BY <1>2, <2>1 DEF RowReplays, IInv, RowOK
    <2>5. req[r].pc # "new" /\ "replayed" \notin Serving /\ "replayed" \notin Working
      BY DEF Undecided, Working, Serving, Executing
    <2> HIDE DEF x, m
    <2> QED BY <1>0, <2>1, <2>2, <2>3, <2>4, <2>5, RequestStep
  <1> QED BY <1>1, <1>2

(* Steps of a request that leave the row as it is.                          *)
LEMMA QuietSteps ==
  ASSUME IInv, NEW r \in Requests,
         \/ ReplayRecord(r) \/ Fetch(r) \/ FetchFails(r) \/ Refetch(r) \/ Poll(r)
         \/ Finish(r) \/ Panic(r) \/ PersistFails(r)
  PROVE  IInv'
  <1>0. req[r] \in Request /\ faults \in 0 .. MaxFaults /\ RequestOK(r)
    BY DEF IInv, TypeOK
  <1>1. CASE ReplayRecord(r)
    <2> DEFINE owner == store[PodOf[r]]
               x == [req[r] EXCEPT !.pc = "replayed", !.got = record[owner].response]
               m == record[r]
    <2>1. owner \in Requests /\ req[owner].payload = req[r].payload
      BY <1>0, <1>1, IdempotencyAssumption
      DEF ReplayRecord, RequestOK, BlockedOK, IInv, TypeOK
    <2>2. record[owner] \in Record /\ m \in Record
      BY <2>1 DEF IInv, TypeOK
    <2>3. /\ x \in Request /\ x.pc = "replayed" /\ x.payload = req[r].payload
          /\ x.got = record[owner].response
      BY <1>0, <2>2 DEF Request, PCs, Final, Record
    <2>4. /\ req' = [req EXCEPT ![r] = x] /\ record' = [record EXCEPT ![r] = m]
          /\ UNCHANGED <<store, row, expired, faults, histories>>
      BY <1>1 DEF ReplayRecord, Replay, shared, IInv, TypeOK
    <2>5. Fits(m.response, x.payload) /\ Fits(x.got, x.payload)
      BY <1>0, <2>1, <2>3 DEF RequestOK, IInv
    <2>6. req[r].pc # "new" /\ "replayed" \notin Serving /\ "replayed" \notin Working
      BY <1>1 DEF ReplayRecord, Undecided, Working, Serving, Executing
    <2> HIDE DEF x, m, owner
    <2> QED BY <1>0, <2>2, <2>3, <2>4, <2>5, <2>6, RequestStep
  <1>2. CASE Fetch(r)
    <2>1. req[r].pc \in Undecided
      BY <1>2 DEF Fetch, Undecided
    <2>2. CASE RowConflicts(r) \/ RowReplays(r)
      BY <1>2, <2>1, <2>2, RowAnswers DEF Fetch
    <2>3. CASE ~(RowConflicts(r) \/ RowReplays(r))
      <3>1. PICK pc \in {"claiming", "reclaiming", "waiting"} : GoTo(r, pc) /\ UNCHANGED record
        BY <1>2, <2>3 DEF Fetch
      <3>2. pc \in PCs /\ pc \notin {"new", "blocked"} /\ pc \in Working /\ pc \notin Serving
        BY DEF PCs, Undecided, Working, Serving, Executing
      <3>3. req[r].pc \in Working /\ req[r].pc # "new"
        BY <2>1 DEF Working, Undecided
      <3> QED BY <1>0, <1>2, <3>1, <3>2, <3>3, MoveOn DEF Fetch, shared
    <2> QED BY <2>2, <2>3
  <1>3. CASE FetchFails(r)
    <2>1. "claiming" \in PCs \cap Working /\ "claiming" \notin Serving
      BY DEF PCs, Undecided, Working, Serving, Executing
    <2>2. faults' \in 0 .. MaxFaults
      BY <1>0, <1>3, IdempotencyAssumption DEF FetchFails, Fault
    <2>3. req[r].pc \in Working /\ req[r].pc # "new"
      BY <1>3 DEF FetchFails, Working, Undecided
    <2> QED BY <1>3, <2>1, <2>2, <2>3, MoveOn DEF FetchFails
  <1>4. CASE Refetch(r)
    <2>1. PICK pc \in {"reclaimingAgain", "waitingAgain"} : GoTo(r, pc)
      BY <1>4 DEF Refetch
    <2>2. pc \in PCs /\ pc \notin {"new", "blocked"} /\ pc \in Working /\ pc \notin Serving
      BY DEF PCs, Undecided, Working, Serving, Executing
    <2>3. req[r].pc \in Working /\ req[r].pc # "new"
      BY <1>4 DEF Refetch, Working, Undecided
    <2> QED BY <1>0, <1>4, <2>1, <2>2, <2>3, MoveOn DEF Refetch
  <1>5. CASE Poll(r)
    BY <1>5, RowAnswers DEF Poll, Undecided
  <1>6. CASE Finish(r)
    <2> DEFINE x == [req[r] EXCEPT !.pc = "persisting"]
               m == [locked |-> FALSE, response |-> r]
    <2>1. x \in Request /\ x.pc = "persisting" /\ x.payload = req[r].payload /\ x.got = req[r].got
      BY <1>0 DEF Request, PCs
    <2>2. m \in Record /\ m.response = r
      BY DEF Record
    <2>3. /\ req' = [req EXCEPT ![r] = x] /\ record' = [record EXCEPT ![r] = m]
          /\ UNCHANGED <<store, row, expired, faults, histories>>
      BY <1>6 DEF Finish, Release, GoTo
    <2>4. req[r].pc \in Serving /\ req[r].pc # "new" /\ "persisting" \notin Working
      BY <1>6 DEF Finish, Serving, Executing, Working, Undecided
    <2>5. Fits(m.response, x.payload) /\ Fits(x.got, x.payload)
      BY <1>0, <2>1, <2>2, <2>4 DEF Fits, RequestOK, ServiceOK
    <2> HIDE DEF x, m
    <2> QED BY <1>0, <2>1, <2>2, <2>3, <2>4, <2>5, RequestStep
  <1>7. CASE Panic(r)
    <2>1. "panicked" \in PCs /\ req[r].pc \in Working \cap Serving /\ req[r].pc # "new"
      BY <1>7 DEF Panic, PCs, Final, Working, Serving, Executing
    <2>2. faults' \in 0 .. MaxFaults
      BY <1>0, <1>7, IdempotencyAssumption DEF Panic, Fault
    <2> QED BY <1>7, <2>1, <2>2, MoveOn DEF Panic
  <1>8. CASE PersistFails(r)
    <2>1. "executed" \in PCs /\ "executed" \notin Working \cup Serving /\ req[r].pc # "new"
      BY <1>8 DEF PersistFails, PCs, Final, Working, Undecided, Serving, Executing
    <2>2. faults' \in 0 .. MaxFaults
      BY <1>0, <1>8, IdempotencyAssumption DEF PersistFails, Fault
    <2> QED BY <1>8, <2>1, <2>2, MoveOn DEF PersistFails
  <1> QED BY <1>1, <1>2, <1>3, <1>4, <1>5, <1>6, <1>7, <1>8

(* A step on the row. Requests may move, and histories grow; what is left   *)
(* to show is the row itself, those who serve, and the executions so far.   *)
LEMMA RowStep ==
  ASSUME IInv, TypeOK', RowOK', OnceUnlessExcused',
         UNCHANGED <<store, record, evicted>>,
         started \subseteq started', crossed => crossed',
         \A q \in Requests :
           /\ req'[q].payload = req[q].payload /\ req'[q].got = req[q].got
           /\ req'[q].pc = "new" <=> req[q].pc = "new"
           /\ req'[q].pc = "blocked" => req[q].pc = "blocked"
           /\ req'[q].pc \in Working => req[q].pc \in Working
           /\ q \in started' => req[q].pc # "new"
           /\ ServiceOK(q)'
  PROVE  IInv'
  <1>1. ASSUME NEW response \in Requests \cup {NoRequest}, NEW payload, Fits(response, payload)
        PROVE  response # NoRequest =>
                 response \in started' /\ (req'[response].payload = payload \/ crossed')
    BY <1>1 DEF Fits
  <1>2. ASSUME NEW p \in Pods PROVE StoreOK(p)'
    BY DEF IInv, StoreOK, TypeOK
  <1>3. ASSUME NEW q \in Requests PROVE RequestOK(q)'
    <2>1. BlockedOK(q)'
      BY IdempotencyAssumption DEF IInv, RequestOK, BlockedOK, TypeOK
    <2>2. HolderOK(q)'
      BY DEF IInv, RequestOK, HolderOK
    <2>3. /\ record[q].response \in Requests \cup {NoRequest}
          /\ req[q].got \in Requests \cup {NoRequest}
          /\ Fits(record[q].response, req[q].payload)
          /\ Fits(req[q].got, req[q].payload)
      BY DEF IInv, RequestOK, TypeOK, Record, Request
    <2>4. (Fits(record[q].response, req[q].payload) /\ Fits(req[q].got, req[q].payload))'
      BY <1>1, <2>3 DEF Fits
    <2> QED BY <2>1, <2>2, <2>4 DEF IInv, RequestOK
  <1> QED BY <1>2, <1>3 DEF IInv

\* A request that only moves, to another control point of its own.
LEMMA Moved ==
  ASSUME IInv, NEW r \in Requests, NEW pc \in PCs,
         GoTo(r, pc), req[r].pc # "new", pc \notin {"new", "blocked"},
         pc \in Working => req[r].pc \in Working
  PROVE  /\ req' \in [Requests -> Request]
         /\ \A q \in Requests :
              /\ req'[q].payload = req[q].payload /\ req'[q].got = req[q].got
              /\ req'[q].pc = "new" <=> req[q].pc = "new"
              /\ req'[q].pc = "blocked" => req[q].pc = "blocked"
              /\ req'[q].pc \in Working => req[q].pc \in Working
              /\ q # r => req'[q].pc = req[q].pc
         /\ req'[r].pc = pc
  BY DEF IInv, TypeOK, GoTo, Request

LEMMA ClaimStep ==
  ASSUME IInv, NEW r \in Requests, Claim(r) PROVE IInv'
  <1>0. /\ req[r] \in Request /\ faults \in 0 .. MaxFaults /\ RequestOK(r) /\ row \in Row
        /\ req[r].pc \in Working /\ req[r].pc # "new" /\ req[r].payload \in Payloads
    BY DEF Claim, IInv, TypeOK, RequestOK, Working, Undecided
  <1>1. CASE row.state = "absent"
    <2>1. /\ row' = [NoRow EXCEPT !.state = "inFlight", !.payload = req[r].payload]
          /\ started' = started \cup {r} /\ GoTo(r, "executing")
          /\ UNCHANGED <<store, record, expired, faults, excused, crossed, evicted>>
      BY <1>1 DEF Claim
    <2>2. "executing" \in PCs /\ "executing" \in Working \cap Serving
      BY DEF PCs, Executing, Working, Serving
    <2>3. /\ row' \in Row /\ row'.payload = req[r].payload /\ row'.state = "inFlight"
          /\ row'.response = NoRequest
      BY <1>0, <2>1 DEF NoRow, Row
    <2>4. /\ req' \in [Requests -> Request]
          /\ \A q \in Requests :
               /\ req'[q].payload = req[q].payload /\ req'[q].got = req[q].got
               /\ req'[q].pc = "new" <=> req[q].pc = "new"
               /\ req'[q].pc = "blocked" => req[q].pc = "blocked"
               /\ req'[q].pc \in Working => req[q].pc \in Working
               /\ q # r => req'[q].pc = req[q].pc
      BY <1>0, <2>1, <2>2, Moved
    <2>5. TypeOK'
      BY <2>1, <2>3, <2>4 DEF IInv, TypeOK
    <2>6. RowOK'
      BY <2>3 DEF RowOK, Fits
    <2>7. OnceUnlessExcused'
      BY <1>1, <2>1 DEF IInv, RowOK, OnceUnlessExcused
    <2>8. ASSUME NEW q \in Requests PROVE ServiceOK(q)'
      <3>1. CASE q = r
        BY <2>1, <2>3, <2>4, <3>1 DEF ServiceOK
      <3>2. CASE q # r
        \* A request that serves a row that is absent has crossed it.
        <4>1. req[q].pc \in Serving => q \in started /\ crossed
          <5>1. row.payload = NoPayload
            BY <1>1 DEF IInv, RowOK
          <5>2. req[q].pc \in Serving => req[q].payload \in Payloads
            BY DEF IInv, RequestOK, Serving, Executing
          <5> QED BY <5>1, <5>2, IdempotencyAssumption DEF IInv, RequestOK, ServiceOK
        <4> QED BY <2>1, <2>4, <3>2, <4>1 DEF ServiceOK
      <3> QED BY <3>1, <3>2
    <2>9. \A q \in Requests : q \in started' => req[q].pc # "new"
      BY <1>0, <2>1 DEF IInv, RequestOK
    <2> QED BY <2>1, <2>4, <2>5, <2>6, <2>7, <2>8, <2>9, RowStep
  <1>2. CASE row.state # "absent"
    <2>1. "refetching" \in PCs \cap Working /\ "refetching" \notin Serving
      BY DEF PCs, Undecided, Working, Serving, Executing
    <2>2. GoTo(r, "refetching") /\ UNCHANGED <<shared, faults, histories>>
      BY <1>2 DEF Claim, shared, histories
    <2> QED BY <1>0, <2>1, <2>2, MoveOn
  <1> QED BY <1>1, <1>2

LEMMA ClaimFailsStep ==
  ASSUME IInv, NEW r \in Requests, ClaimFails(r) PROVE IInv'
  <1>0. /\ req[r] \in Request /\ RequestOK(r) /\ row \in Row
        /\ req[r].pc \in Working /\ req[r].pc # "new" /\ req[r].payload \in Payloads
    BY DEF ClaimFails, IInv, TypeOK, RequestOK, Working, Undecided
  <1>1. "refetching" \in PCs \cap Working /\ "refetching" \notin Serving
    BY DEF PCs, Undecided, Working, Serving, Executing
  <1>2. faults' \in 0 .. MaxFaults
    BY IdempotencyAssumption DEF ClaimFails, Fault, IInv, TypeOK
  <1>3. CASE row' = row
    BY <1>0, <1>1, <1>2, <1>3, MoveOn DEF ClaimFails, shared
  <1>4. CASE row' # row
    <2>1. /\ row' = [NoRow EXCEPT !.state = "inFlight", !.payload = req[r].payload]
          /\ row.state = "absent" /\ GoTo(r, "refetching")
          /\ UNCHANGED <<store, record, expired, histories>>
      BY <1>4 DEF ClaimFails
    <2>2. /\ row' \in Row /\ row'.payload = req[r].payload /\ row'.state = "inFlight"
          /\ row'.response = NoRequest
      BY <1>0, <2>1 DEF NoRow, Row
    <2>3. /\ req' \in [Requests -> Request]
          /\ req'[r].pc = "refetching"
          /\ \A q \in Requests :
               /\ req'[q].payload = req[q].payload /\ req'[q].got = req[q].got
               /\ req'[q].pc = "new" <=> req[q].pc = "new"
               /\ req'[q].pc = "blocked" => req[q].pc = "blocked"
               /\ req'[q].pc \in Working => req[q].pc \in Working
               /\ q # r => req'[q].pc = req[q].pc
      BY <1>0, <1>1, <2>1, Moved
    <2>4. TypeOK'
      BY <1>2, <2>1, <2>2, <2>3 DEF IInv, TypeOK, histories
    <2>5. RowOK' /\ OnceUnlessExcused'
      BY <2>1, <2>2 DEF RowOK, Fits, IInv, OnceUnlessExcused, histories
    <2>6. ASSUME NEW q \in Requests PROVE ServiceOK(q)'
      <3>1. row.payload = NoPayload
        BY <2>1 DEF IInv, RowOK
      <3>2. req[q].pc \in Serving => req[q].payload \in Payloads
        BY DEF IInv, RequestOK, Serving, Executing
      <3>3. req[q].pc \in Serving => q \in started /\ crossed
        BY <3>1, <3>2, IdempotencyAssumption DEF IInv, RequestOK, ServiceOK
      <3> QED BY <1>1, <2>1, <2>3, <3>3 DEF ServiceOK, histories
    <2>7. \A q \in Requests : q \in started' => req[q].pc # "new"
      BY <2>1 DEF IInv, RequestOK, histories
    <2> QED BY <2>1, <2>3, <2>4, <2>5, <2>6, <2>7, RowStep DEF histories
  <1> QED BY <1>3, <1>4

LEMMA ReclaimStep ==
  ASSUME IInv, NEW r \in Requests, Reclaim(r) PROVE IInv'
  <1>0. /\ req[r] \in Request /\ faults \in 0 .. MaxFaults /\ RequestOK(r) /\ row \in Row
        /\ req[r].pc \in Working /\ req[r].pc # "new" /\ req[r].payload \in Payloads
    BY DEF Reclaim, IInv, TypeOK, RequestOK, Working, Undecided
  <1>1. CASE row.state = "inFlight" /\ row.stale
    <2>1. /\ row' = [row EXCEPT !.payload = req[r].payload, !.stale = FALSE]
          /\ started' = started \cup {r} /\ excused' = TRUE
          /\ crossed' = (crossed \/ row.payload # req[r].payload)
          /\ req' = [q \in Requests |-> [req[q] EXCEPT !.old = FALSE,
                                                       !.pc = IF q = r THEN "executing" ELSE @]]
          /\ UNCHANGED <<store, record, expired, faults, evicted>>
      BY <1>1 DEF Reclaim
    <2>2. "executing" \in PCs /\ "executing" \in Working \cap Serving
      BY DEF PCs, Executing, Working, Serving
    <2>3. /\ row' \in Row /\ row'.payload = req[r].payload /\ row'.state = "inFlight"
          /\ row'.response = row.response
      BY <1>0, <1>1, <2>1 DEF Row
    <2>4. /\ req' \in [Requests -> Request]
          /\ \A q \in Requests :
               /\ req'[q].payload = req[q].payload /\ req'[q].got = req[q].got
               /\ req'[q].pc = IF q = r THEN "executing" ELSE req[q].pc
      BY <2>1, <2>2 DEF IInv, TypeOK, Request
    <2>5. TypeOK'
      BY <2>1, <2>3, <2>4 DEF IInv, TypeOK
    <2>6. RowOK'
      <3>1. row.response \in Requests \cup {NoRequest} /\ Fits(row.response, row.payload)
        BY <1>0 DEF IInv, RowOK, Row
      <3>2. started \subseteq started'
        BY <2>1
      <3>3. (row.payload = req[r].payload \/ crossed') /\ (crossed => crossed')
        BY <2>1
      <3>4. Fits(row.response, row.payload)'
        BY <2>3, <2>4, <3>1, <3>2, <3>3 DEF Fits
      <3> QED BY <2>3, <3>4 DEF RowOK
    <2>7. OnceUnlessExcused'
      BY <2>1 DEF OnceUnlessExcused
    <2>8. ASSUME NEW q \in Requests PROVE ServiceOK(q)'
      BY <2>1, <2>3, <2>4 DEF ServiceOK, IInv, RequestOK
    <2>9. \A q \in Requests : q \in started' => req[q].pc # "new"
      BY <1>0, <2>1 DEF IInv, RequestOK
    <2>10. \A q \in Requests :
             /\ req'[q].pc = "new" <=> req[q].pc = "new"
             /\ req'[q].pc = "blocked" => req[q].pc = "blocked"
             /\ req'[q].pc \in Working => req[q].pc \in Working
      BY <1>0, <2>4
    <2>11. UNCHANGED <<store, record, evicted>> /\ started \subseteq started' /\ (crossed => crossed')
      BY <2>1
    <2> QED BY <2>4, <2>5, <2>6, <2>7, <2>8, <2>9, <2>10, <2>11, RowStep
  <1>2. CASE ~(row.state = "inFlight" /\ row.stale)
    <2>1. PICK pc \in {"waiting", "waitingAgain"} : GoTo(r, pc)
      BY <1>2 DEF Reclaim
    <2>2. pc \in PCs /\ pc \notin {"new", "blocked"} /\ pc \in Working /\ pc \notin Serving
      BY DEF PCs, Undecided, Working, Serving, Executing
    <2>3. UNCHANGED <<shared, faults, histories>>
      BY <1>2 DEF Reclaim, shared, histories
    <2> QED BY <1>0, <2>1, <2>2, <2>3, MoveOn
  <1> QED BY <1>1, <1>2

LEMMA GiveUpStep ==
  ASSUME IInv, NEW r \in Requests, GiveUp(r) PROVE IInv'
  <1>0. /\ req[r] \in Request /\ faults \in 0 .. MaxFaults /\ RequestOK(r) /\ row \in Row
        /\ req[r].pc \in Working /\ req[r].pc # "new"
    BY DEF GiveUp, IInv, TypeOK, RequestOK, Working, Undecided
  <1>1. CASE req[r].pc = "waiting"
    <2>1. "claiming" \in PCs \cap Working /\ "claiming" \notin Serving
      BY DEF PCs, Undecided, Working, Serving, Executing
    <2> QED BY <1>0, <1>1, <2>1, MoveOn DEF GiveUp
  <1>2. CASE req[r].pc # "waiting"
    <2>1. /\ GoTo(r, "executing") /\ started' = started \cup {r} /\ excused' = TRUE
          /\ crossed' = (crossed \/ row.payload # req[r].payload)
          /\ UNCHANGED <<store, record, row, expired, faults, evicted>>
      BY <1>2 DEF GiveUp, shared
    <2>2. "executing" \in PCs /\ "executing" \in Working \cap Serving
      BY DEF PCs, Executing, Working, Serving
    <2>3. /\ req' \in [Requests -> Request]
          /\ \A q \in Requests :
               /\ req'[q].payload = req[q].payload /\ req'[q].got = req[q].got
               /\ req'[q].pc = "new" <=> req[q].pc = "new"
               /\ req'[q].pc = "blocked" => req[q].pc = "blocked"
               /\ req'[q].pc \in Working => req[q].pc \in Working
               /\ q # r => req'[q].pc = req[q].pc
      BY <1>0, <2>1, <2>2, Moved
    <2>4. TypeOK'
      BY <2>1, <2>3 DEF IInv, TypeOK
    <2>5. RowOK'
      <3>1. row.response \in Requests \cup {NoRequest} /\ Fits(row.response, row.payload)
        BY <1>0 DEF IInv, RowOK, Row
      <3> QED BY <2>1, <2>3, <3>1 DEF RowOK, Fits, IInv
    <2>6. OnceUnlessExcused'
      BY <2>1 DEF OnceUnlessExcused
    <2>7. ASSUME NEW q \in Requests PROVE ServiceOK(q)'
      BY <2>1, <2>3 DEF ServiceOK, IInv, RequestOK
    <2>8. \A q \in Requests : q \in started' => req[q].pc # "new"
      BY <1>0, <2>1 DEF IInv, RequestOK
    <2> QED BY <2>1, <2>3, <2>4, <2>5, <2>6, <2>7, <2>8, RowStep
  <1> QED BY <1>1, <1>2

LEMMA PersistStep ==
  ASSUME IInv, NEW r \in Requests, Persist(r) PROVE IInv'
  <1>0. /\ req[r] \in Request /\ RequestOK(r) /\ row \in Row
        /\ req[r].pc \in Serving /\ req[r].pc # "new"
    BY DEF Persist, IInv, TypeOK, Serving
  <1>1. "executed" \in PCs /\ "executed" \notin Working \cup Serving
    BY DEF PCs, Final, Undecided, Working, Serving, Executing
  <1>2. /\ row' \in Row /\ row'.payload = row.payload /\ row'.state = "completed"
        /\ row'.response = r
    BY <1>0 DEF Persist, Row
  <1>3. /\ req' \in [Requests -> Request]
        /\ req'[r].pc = "executed"
        /\ \A q \in Requests :
             /\ req'[q].payload = req[q].payload /\ req'[q].got = req[q].got
             /\ req'[q].pc = "new" <=> req[q].pc = "new"
             /\ req'[q].pc = "blocked" => req[q].pc = "blocked"
             /\ req'[q].pc \in Working => req[q].pc \in Working
             /\ q # r => req'[q].pc = req[q].pc
    BY <1>0, <1>1, Moved DEF Persist
  <1>4. UNCHANGED <<store, record, expired, faults, started, excused, crossed, evicted>>
    BY DEF Persist, histories
  <1>5. TypeOK'
    BY <1>2, <1>3, <1>4 DEF IInv, TypeOK
  <1>6. RowOK'
    BY <1>0, <1>2, <1>3, <1>4, IdempotencyAssumption DEF RowOK, Fits, RequestOK, ServiceOK
  <1>7. OnceUnlessExcused'
    BY <1>4 DEF IInv, OnceUnlessExcused
  <1>8. ASSUME NEW q \in Requests PROVE ServiceOK(q)'
    BY <1>1, <1>2, <1>3, <1>4 DEF ServiceOK, IInv, RequestOK
  <1>9. \A q \in Requests : q \in started' => req[q].pc # "new"
    BY <1>4 DEF IInv, RequestOK
  <1> QED BY <1>3, <1>4, <1>5, <1>6, <1>7, <1>8, <1>9, RowStep

\* What time does to the row.
LEMMA ClockStep ==
  ASSUME IInv, Heartbeat \/ Lapse \/ Expire PROVE IInv'
  <1>1. /\ UNCHANGED <<store, record, started, excused, crossed, evicted>>
        /\ row' \in Row /\ row'.payload = row.payload /\ row'.response = row.response
        /\ row'.state = row.state
    <2>1. row \in Row /\ (row' = row \/ \E b \in BOOLEAN : row' = [row EXCEPT !.stale = b])
      BY DEF Heartbeat, Lapse, Expire, IInv, TypeOK
    <2>2. UNCHANGED <<store, record, histories>>
      BY DEF Heartbeat, Lapse, Expire
    <2> QED BY <2>1, <2>2 DEF Row, histories
  <1>2. /\ req' \in [Requests -> Request]
        /\ \A q \in Requests : /\ req'[q].payload = req[q].payload /\ req'[q].got = req[q].got
                               /\ req'[q].pc = req[q].pc
    <2>1. req \in [Requests -> Request]
      BY DEF IInv, TypeOK
    <2>2. req' = req \/ req' = [q \in Requests |-> [req[q] EXCEPT !.old = FALSE]]
      BY DEF Heartbeat, Lapse, Expire
    <2> QED BY ZenonT(60), <2>1, <2>2 DEF Request
  <1>3. faults' \in 0 .. MaxFaults /\ expired' \in BOOLEAN
    <2>1. faults \in 0 .. MaxFaults /\ expired \in BOOLEAN
      BY DEF IInv, TypeOK
    <2>2. faults' = faults \/ (faults < MaxFaults /\ faults' = faults + 1)
      <3>1. CASE Lapse
        BY <3>1 DEF Lapse, Fault
      <3>2. CASE Heartbeat \/ Expire
        BY <3>2 DEF Heartbeat, Expire
      <3> QED BY <3>1, <3>2
    <2>3. expired' \in BOOLEAN
      <3>1. CASE Expire
        BY <3>1 DEF Expire
      <3>2. CASE Heartbeat
        BY <2>1, <3>2 DEF Heartbeat
      <3>3. CASE Lapse
        BY <2>1, <3>3 DEF Lapse, Fault
      <3> QED BY <3>1, <3>2, <3>3
    <2> QED BY <2>1, <2>2, <2>3, IdempotencyAssumption
  <1>4. TypeOK'
    BY <1>1, <1>2, <1>3 DEF IInv, TypeOK
  <1>5. RowOK'
    <2>1. row.response \in Requests \cup {NoRequest}
      BY DEF IInv, TypeOK, Row
    <2> QED BY <1>1, <1>2, <2>1 DEF RowOK, Fits, IInv
  <1>6. OnceUnlessExcused'
    BY <1>1 DEF IInv, OnceUnlessExcused
  <1>7. ASSUME NEW q \in Requests PROVE ServiceOK(q)'
    BY <1>1, <1>2 DEF ServiceOK, IInv, RequestOK
  <1>8. \A q \in Requests : q \in started' => req[q].pc # "new"
    BY <1>1 DEF IInv, RequestOK
  <1> QED BY <1>1, <1>2, <1>4, <1>5, <1>6, <1>7, <1>8, RowStep

-----------------------------------------------------------------------------
(* Steps on the store.                                                      *)

LEMMA ArriveStep ==
  ASSUME IInv, NEW r \in Requests, NEW payload \in PayloadsOf[r], Arrive(r, payload)
  PROVE  IInv'
  <1>0. payload \in Payloads /\ "arriving" \in PCs /\ row.stale \in BOOLEAN
    BY IdempotencyAssumption DEF PCs, IInv, TypeOK, Row
  <1>1. /\ req' \in [Requests -> Request]
        /\ req[r].pc = "new"
        /\ req'[r].pc = "arriving" /\ req'[r].payload = payload /\ req'[r].got = req[r].got
        /\ \A q \in Requests : q # r => req'[q] = req[q]
    BY <1>0 DEF Arrive, IInv, TypeOK, Request
  <1>2. UNCHANGED <<store, record, row, expired, faults, started, excused, crossed, evicted>>
    BY DEF Arrive, shared, histories
  <1>3. TypeOK'
    BY <1>1, <1>2 DEF IInv, TypeOK
  <1>4. ASSUME NEW response \in Requests \cup {NoRequest}, NEW anyPayload,
               Fits(response, anyPayload)
        PROVE  Fits(response, anyPayload)'
    BY <1>1, <1>2, <1>4 DEF Fits, IInv, RequestOK
  <1>5. RowOK'
    <2>1. row.response \in Requests \cup {NoRequest}
      BY DEF IInv, TypeOK, Row
    <2>2. Fits(row.response, row.payload)'
      BY <1>2, <1>4, <2>1 DEF IInv, RowOK
    <2> QED BY <1>2, <2>2 DEF IInv, RowOK
  <1>6. ASSUME NEW p \in Pods PROVE StoreOK(p)'
    BY <1>1, <1>2 DEF IInv, TypeOK, StoreOK
  <1>7. ASSUME NEW q \in Requests PROVE RequestOK(q)'
    <2>1. /\ record[q].response \in Requests \cup {NoRequest}
          /\ req[q].got \in Requests \cup {NoRequest}
      BY DEF IInv, TypeOK, Record, Request
    <2>2. CASE q # r
      <3>1. BlockedOK(q)'
        BY <1>1, <1>2, <2>2, IdempotencyAssumption
        DEF IInv, RequestOK, BlockedOK, TypeOK, StoreOK
      <3>2. (HolderOK(q) /\ ServiceOK(q))'
        BY <1>1, <1>2, <2>2 DEF IInv, RequestOK, HolderOK, ServiceOK
      <3>3. (Fits(record[q].response, req[q].payload) /\ Fits(req[q].got, req[q].payload))'
        BY <1>1, <1>2, <1>4, <2>1, <2>2 DEF IInv, RequestOK
      <3> QED BY <1>1, <1>2, <2>2, <3>1, <3>2, <3>3 DEF IInv, RequestOK
    <2>3. CASE q = r
      <3>1. (BlockedOK(q) /\ HolderOK(q) /\ ServiceOK(q))'
        BY <1>1, <2>3
        DEF BlockedOK, HolderOK, ServiceOK, Working, Undecided, Serving, Executing
      <3>2. record[q].response = NoRequest /\ req[q].got = NoRequest
        BY <1>1, <2>3 DEF IInv, RequestOK
      <3> QED BY <1>0, <1>1, <1>2, <2>3, <3>1, <3>2 DEF IInv, RequestOK, Fits
    <2> QED BY <2>2, <2>3
  <1> QED BY <1>2, <1>3, <1>5, <1>6, <1>7 DEF IInv, OnceUnlessExcused

(* Nobody waits on a pod whose store is not locked.                         *)
LEMMA NobodyBlocked ==
  ASSUME NEW p \in Pods, ~StoreLocked(p), NEW q \in Requests, PodOf[q] = p
  PROVE  req[q].pc # "blocked"
  BY DEF StoreLocked

(* A step on one pod's store, while nobody waits there: histories of        *)
(* executions, the row, payloads and responses stay.                        *)
LEMMA StoreStep ==
  ASSUME IInv, NEW p \in Pods, NEW r \in Requests, PodOf[r] = p, req[r].pc # "new",
         TypeOK', ~StoreLocked(p),
         UNCHANGED <<row, expired, faults, started, excused, crossed>>,
         store' = [store EXCEPT ![p] = store'[p]],
         record' = [record EXCEPT ![r] = record'[r]],
         req' = [req EXCEPT ![r] = req'[r]],
         record'[r].response \in {NoRequest, record[r].response},
         req'[r].pc # "new", req'[r].payload = req[r].payload, req'[r].got = req[r].got,
         req'[r].pc \notin Serving,
         StoreOK(p)', BlockedOK(r)', HolderOK(r)',
         evicted \subseteq evicted', evicted' \subseteq evicted \cup {p},
         p \notin evicted' => \A q \in Requests :
                                q # r /\ PodOf[q] = p /\ req[q].pc \in Working => store'[p] = q
  PROVE  IInv'
  <1>1. /\ \A q \in Requests : /\ req'[q].payload = req[q].payload /\ req'[q].got = req[q].got
                               /\ req'[q].pc = "new" <=> req[q].pc = "new"
                               /\ q # r => req'[q] = req[q] /\ record'[q] = record[q]
                               /\ record'[q].response \in {NoRequest, record[q].response}
        /\ \A o \in Pods : o # p => store'[o] = store[o]
    BY DEF IInv, TypeOK
  <1>2. ASSUME NEW response \in Requests \cup {NoRequest}, NEW payload, Fits(response, payload)
        PROVE  Fits(response, payload)'
    BY <1>1, <1>2 DEF Fits
  <1>3. RowOK'
    <2>1. row.response \in Requests \cup {NoRequest}
      BY DEF IInv, TypeOK, Row
    <2>2. Fits(row.response, row.payload)'
      BY <1>2, <2>1 DEF IInv, RowOK
    <2> QED BY <2>2 DEF IInv, RowOK
  <1>4. ASSUME NEW o \in Pods PROVE StoreOK(o)'
    BY <1>1 DEF IInv, TypeOK, StoreOK
  <1>5. ASSUME NEW q \in Requests PROVE RequestOK(q)'
    <2>0. PodOf[q] \in Pods
      BY IdempotencyAssumption
    <2>1. BlockedOK(q)'
      <3>1. CASE q # r /\ PodOf[q] = p
        BY <1>1, <3>1, NobodyBlocked DEF BlockedOK
      <3>2. CASE q # r /\ PodOf[q] # p
        BY <1>1, <2>0, <3>2 DEF IInv, RequestOK, BlockedOK, TypeOK
      <3> QED BY <3>1, <3>2
    <2>2. HolderOK(q)'
      <3>1. CASE q # r /\ PodOf[q] = p
        BY <1>1, <3>1 DEF HolderOK
      <3>2. CASE q # r /\ PodOf[q] # p
        BY <1>1, <2>0, <3>2 DEF IInv, RequestOK, HolderOK
      <3> QED BY <3>1, <3>2
    <2>3. ServiceOK(q)'
      BY <1>1 DEF IInv, RequestOK, ServiceOK
    <2>4. /\ record[q].response \in Requests \cup {NoRequest}
          /\ req[q].got \in Requests \cup {NoRequest}
          /\ Fits(record[q].response, req[q].payload) /\ Fits(req[q].got, req[q].payload)
      BY DEF IInv, RequestOK, TypeOK, Record, Request
    <2>5. (Fits(record[q].response, req[q].payload) /\ Fits(req[q].got, req[q].payload))'
      <3>1. Fits(record[q].response, req[q].payload)' \/ record'[q].response = NoRequest
        BY <1>1, <1>2, <2>4
      <3>2. Fits(req[q].got, req[q].payload)'
        BY <1>1, <1>2, <2>4
      <3> QED BY <3>1, <3>2 DEF Fits
    <2> QED BY <1>1, <2>1, <2>2, <2>3, <2>5 DEF IInv, RequestOK
  <1> QED BY <1>3, <1>4, <1>5 DEF IInv, OnceUnlessExcused

LEMMA LookUpStep ==
  ASSUME IInv, NEW r \in Requests, LookUp(r) PROVE IInv'
  <1> DEFINE p == PodOf[r]
             owner == store[p]
  <1>0. /\ p \in Pods /\ ~StoreLocked(p) /\ req[r].pc = "arriving" /\ req[r].pc # "new"
        /\ req[r] \in Request /\ req[r].payload \in Payloads
        /\ UNCHANGED <<row, expired, faults, started, excused, crossed, evicted>>
    BY IdempotencyAssumption DEF LookUp, histories, IInv, TypeOK, RequestOK
  <1>1. CASE owner # NoRequest
    <2> DEFINE pc == IF req[owner].payload = req[r].payload THEN "blocked" ELSE "conflicted"
    <2>1. req' = [req EXCEPT ![r] = [req[r] EXCEPT !.pc = pc]] /\ UNCHANGED <<store, record>>
      BY <1>1 DEF LookUp, GoTo
    <2>2. pc \in {"blocked", "conflicted"} /\ pc \in PCs /\ pc \notin Working \cup Serving
      BY DEF PCs, Final, Working, Undecided, Executing, Serving
    <2>3. /\ req' \in [Requests -> Request] /\ req'[r].pc = pc
          /\ req'[r].payload = req[r].payload /\ req'[r].got = req[r].got
          /\ \A q \in Requests : q # r => req'[q] = req[q]
      BY <1>0, <2>1, <2>2 DEF IInv, TypeOK, Request
    <2>4. TypeOK'
      BY <1>0, <2>1, <2>3 DEF IInv, TypeOK
    <2>5. owner \in Requests
      BY <1>0, <1>1 DEF IInv, TypeOK
    <2>6. StoreOK(p)' /\ HolderOK(r)'
      BY <1>0, <2>1, <2>2, <2>3, <2>5 DEF IInv, StoreOK, HolderOK
    <2>7. BlockedOK(r)'
      <3>1. pc = "blocked" => req[owner].payload = req[r].payload
        OBVIOUS
      <3>2. store'[PodOf[r]] = owner /\ req'[owner].payload = req[owner].payload
        BY <2>1, <2>3, <2>5
      <3> HIDE DEF pc, owner, p
      <3> QED BY <1>1, <2>3, <3>1, <3>2 DEF BlockedOK
    <2>8. \A q \in Requests :
            q # r /\ PodOf[q] = p /\ req[q].pc \in Working /\ p \notin evicted' => store'[p] = q
      BY <1>0, <2>1 DEF IInv, RequestOK, HolderOK
    <2>9. /\ store' = [store EXCEPT ![p] = store'[p]] /\ record' = [record EXCEPT ![r] = record'[r]]
          /\ req' = [req EXCEPT ![r] = req'[r]]
          /\ record'[r].response \in {NoRequest, record[r].response}
      BY <2>1, <2>3 DEF IInv, TypeOK
    <2> HIDE DEF pc, p
    <2>10. PodOf[r] = p
      BY DEF p
    <2> QED BY <1>0, <2>2, <2>3, <2>4, <2>6, <2>7, <2>8, <2>9, <2>10, StoreStep
  <1>2. CASE owner = NoRequest
    <2>1. /\ store' = [store EXCEPT ![p] = r]
          /\ record' = [record EXCEPT ![r] = [EmptyRecord EXCEPT !.locked = TRUE]]
          /\ req' = [req EXCEPT ![r] = [req[r] EXCEPT !.pc = "fetching"]]
      BY <1>2 DEF LookUp, GoTo
    <2>2. /\ "fetching" \in PCs /\ "fetching" \notin Serving
          /\ [EmptyRecord EXCEPT !.locked = TRUE] \in Record
          /\ [EmptyRecord EXCEPT !.locked = TRUE].response = NoRequest
      BY DEF PCs, Undecided, Serving, Executing, Record, EmptyRecord
    <2>3. /\ req' \in [Requests -> Request] /\ req'[r].pc = "fetching"
          /\ req'[r].payload = req[r].payload /\ req'[r].got = req[r].got
          /\ \A q \in Requests : q # r => req'[q] = req[q]
      BY <1>0, <2>1, <2>2 DEF IInv, TypeOK, Request
    <2>4. record' \in [Requests -> Record] /\ store' \in [Pods -> Requests \cup {NoRequest}]
      BY <2>1, <2>2 DEF IInv, TypeOK
    <2>5. TypeOK'
      BY <1>0, <2>3, <2>4 DEF IInv, TypeOK
    <2>6. store'[p] = r /\ StoreOK(p)' /\ HolderOK(r)' /\ BlockedOK(r)'
      BY <1>0, <2>1, <2>3 DEF IInv, TypeOK, StoreOK, HolderOK, BlockedOK
    <2>7. \A q \in Requests :
            q # r /\ PodOf[q] = p /\ req[q].pc \in Working /\ p \notin evicted' => store'[p] = q
      BY <1>0, <1>2, IdempotencyAssumption DEF IInv, RequestOK, HolderOK
    <2>8. /\ store' = [store EXCEPT ![p] = store'[p]] /\ record' = [record EXCEPT ![r] = record'[r]]
          /\ req' = [req EXCEPT ![r] = req'[r]]
          /\ record'[r].response = NoRequest
      BY <2>1, <2>2, <2>3 DEF IInv, TypeOK
    <2> HIDE DEF p
    <2>9. PodOf[r] = p
      BY DEF p
    <2> QED BY <1>0, <2>2, <2>3, <2>5, <2>6, <2>7, <2>8, <2>9, StoreStep
  <1> QED BY <1>1, <1>2

LEMMA DropStep ==
  ASSUME IInv, NEW r \in Requests, Drop(r) PROVE IInv'
  <1> DEFINE p == PodOf[r]
  <1>0. /\ p \in Pods /\ ~StoreLocked(p) /\ req[r].pc = "dropping" /\ req[r].pc # "new"
        /\ req[r].pc \in Working
        /\ req[r] \in Request
        /\ store' = [store EXCEPT ![p] = NoRequest]
        /\ req' = [req EXCEPT ![r] = [req[r] EXCEPT !.pc = "conflicted"]]
        /\ UNCHANGED <<record, row, expired, faults, started, excused, crossed, evicted>>
    BY IdempotencyAssumption DEF Drop, GoTo, histories, IInv, TypeOK, Working
  <1>1. "conflicted" \in PCs /\ "conflicted" \notin Working \cup Serving
    BY DEF PCs, Final, Working, Undecided, Executing, Serving
  <1>2. /\ req' \in [Requests -> Request] /\ req'[r].pc = "conflicted"
        /\ req'[r].payload = req[r].payload /\ req'[r].got = req[r].got
    BY <1>0, <1>1 DEF IInv, TypeOK, Request
  <1>3. TypeOK'
    BY <1>0, <1>2 DEF IInv, TypeOK
  <1>4. StoreOK(p)' /\ HolderOK(r)' /\ BlockedOK(r)'
    BY <1>0, <1>1, <1>2 DEF IInv, TypeOK, StoreOK, HolderOK, BlockedOK
  \* Unless the record was evicted, r is the only one that relies on it.
  <1>5. \A q \in Requests :
          q # r /\ PodOf[q] = p /\ req[q].pc \in Working /\ p \notin evicted' => store'[p] = q
    BY <1>0 DEF IInv, RequestOK, HolderOK
  <1>6. /\ store' = [store EXCEPT ![p] = store'[p]] /\ record' = [record EXCEPT ![r] = record'[r]]
        /\ req' = [req EXCEPT ![r] = req'[r]]
        /\ record'[r].response = record[r].response
    BY <1>0, <1>2 DEF IInv, TypeOK
  <1> HIDE DEF p
  <1>7. PodOf[r] = p
    BY DEF p
  <1> QED BY <1>0, <1>1, <1>2, <1>3, <1>4, <1>5, <1>6, <1>7, StoreStep

LEMMA EvictStep ==
  ASSUME IInv, NEW p \in Pods, Evict(p) PROVE IInv'
  <1> DEFINE r == store[p]
  <1>0. /\ r \in Requests /\ PodOf[r] = p /\ req[r].pc # "new" /\ ~StoreLocked(p)
        /\ store' = [store EXCEPT ![p] = NoRequest]
        /\ evicted' = IF req[r].pc \in Undecided \cup Executing \cup {"dropping"}
                      THEN evicted \cup {p} ELSE evicted
        /\ UNCHANGED <<record, row, expired, req, faults, started, excused, crossed>>
    BY DEF Evict, IInv, TypeOK, StoreOK
  <1>1. TypeOK'
    BY <1>0 DEF IInv, TypeOK
  <1>2. ASSUME NEW o \in Pods PROVE StoreOK(o)'
    BY <1>0 DEF IInv, TypeOK, StoreOK
  <1>3. RowOK'
    BY <1>0 DEF IInv, RowOK, Fits
  <1>4. ASSUME NEW q \in Requests PROVE RequestOK(q)'
    <2>0. PodOf[q] \in Pods
      BY IdempotencyAssumption
    <2>1. BlockedOK(q)'
      <3>1. CASE PodOf[q] = p
        BY <1>0, <3>1, NobodyBlocked DEF BlockedOK
      <3>2. CASE PodOf[q] # p
        BY <1>0, <2>0, <3>2 DEF IInv, TypeOK, RequestOK, BlockedOK
      <3> QED BY <3>1, <3>2
    <2>2. HolderOK(q)'
      <3>1. CASE PodOf[q] = p
        \* Whoever relies on the record of p is its owner, and p is evicted now.
        BY <1>0, <3>1 DEF IInv, TypeOK, RequestOK, HolderOK, Working
      <3>2. CASE PodOf[q] # p
        BY <1>0, <2>0, <3>2 DEF IInv, TypeOK, RequestOK, HolderOK
      <3> QED BY <3>1, <3>2
    <2>3. (/\ ServiceOK(q)
           /\ Fits(record[q].response, req[q].payload)
           /\ Fits(req[q].got, req[q].payload))'
      BY <1>0 DEF IInv, RequestOK, ServiceOK, Fits
    <2> QED BY <1>0, <2>1, <2>2, <2>3 DEF IInv, RequestOK
  <1> QED BY <1>0, <1>1, <1>2, <1>3, <1>4 DEF IInv, OnceUnlessExcused

LEMMA CrashStep ==
  ASSUME IInv, NEW p \in Pods, Crash(p) PROVE IInv'
  <1> DEFINE dies(q) == PodOf[q] = p /\ req[q].pc \notin (Final \ {"panicked"}) \cup {"new"}
  <1>0. "lost" \in PCs /\ "lost" \notin Working \cup Serving
    BY DEF PCs, Final, Working, Undecided, Executing, Serving
  <1>1. /\ store' = [store EXCEPT ![p] = NoRequest]
        /\ evicted' = evicted \ {p}
        /\ faults' \in 0 .. MaxFaults
        /\ UNCHANGED <<row, expired, started, excused, crossed>>
    BY IdempotencyAssumption DEF Crash, Fault, IInv, TypeOK
  <1>2. \A q \in Requests : /\ req'[q].payload = req[q].payload /\ req'[q].got = req[q].got
                            /\ req'[q].pc = IF dies(q) THEN "lost" ELSE req[q].pc
    BY DEF Crash, IInv, TypeOK, Request
  <1>3. req' \in [Requests -> Request]
    BY <1>0 DEF Crash, IInv, TypeOK, Request
  <1>4. /\ record' \in [Requests -> Record]
        /\ \A q \in Requests : record'[q].response \in {NoRequest, record[q].response}
    BY DEF Crash, IInv, TypeOK, Record, EmptyRecord
  <1>5. TypeOK'
    BY <1>1, <1>3, <1>4 DEF IInv, TypeOK
  <1>6. \A q \in Requests : PodOf[q] = p => req'[q].pc \notin Working \cup Serving \cup {"blocked"}
    BY <1>0, <1>2 DEF Final, Working, Undecided, Executing, Serving
  <1>7. \A q \in Requests : /\ req'[q].pc = "new" <=> req[q].pc = "new"
                            /\ PodOf[q] # p => req'[q].pc = req[q].pc
    BY <1>2
  <1> HIDE DEF dies
  <1>8. ASSUME NEW response \in Requests \cup {NoRequest}, NEW payload, Fits(response, payload)
        PROVE  Fits(response, payload)'
    BY <1>1, <1>2, <1>8 DEF Fits
  <1>9. RowOK'
    <2>1. row.response \in Requests \cup {NoRequest}
      BY DEF IInv, TypeOK, Row
    <2>2. Fits(row.response, row.payload)'
      BY <1>1, <1>8, <2>1 DEF IInv, RowOK
    <2> QED BY <1>1, <2>2 DEF IInv, RowOK
  <1>10. ASSUME NEW o \in Pods PROVE StoreOK(o)'
    BY <1>1, <1>7 DEF IInv, TypeOK, StoreOK
  <1>11. ASSUME NEW q \in Requests PROVE RequestOK(q)'
    <2>0. PodOf[q] \in Pods /\ RequestOK(q)
      BY IdempotencyAssumption DEF IInv
    <2>1. (BlockedOK(q) /\ HolderOK(q) /\ ServiceOK(q))'
      <3>1. CASE PodOf[q] = p
        BY <1>6, <3>1 DEF BlockedOK, HolderOK, ServiceOK
      <3>2. CASE PodOf[q] # p
        <4>1. store'[PodOf[q]] = store[PodOf[q]] /\ store[PodOf[q]] \in Requests \cup {NoRequest}
          BY <1>1, <2>0, <3>2 DEF IInv, TypeOK
        <4>2. BlockedOK(q)'
          BY <1>2, <1>7, <2>0, <3>2, <4>1 DEF RequestOK, BlockedOK
        <4>3. HolderOK(q)'
          BY <1>1, <1>7, <2>0, <3>2, <4>1 DEF RequestOK, HolderOK
        <4>4. ServiceOK(q)'
          BY <1>1, <1>2, <1>7, <2>0, <3>2 DEF RequestOK, ServiceOK
        <4> QED BY <4>2, <4>3, <4>4
      <3> QED BY <3>1, <3>2
    <2>2. /\ record[q].response \in Requests \cup {NoRequest}
          /\ req[q].got \in Requests \cup {NoRequest}
      BY DEF IInv, TypeOK, Record, Request
    <2>3. Fits(record[q].response, req[q].payload)' \/ record'[q].response = NoRequest
      BY <1>2, <1>4, <1>8, <2>0, <2>2 DEF RequestOK
    <2>4. Fits(req[q].got, req[q].payload)'
      BY <1>2, <1>8, <2>0, <2>2 DEF RequestOK
    <2>5. (req[q].pc # "new" => req[q].payload \in Payloads)'
      BY <1>2, <1>7, <2>0 DEF RequestOK
    <2>6. (req[q].pc = "new" => q \notin started /\ record[q].response = NoRequest
                                /\ req[q].got = NoRequest)'
      BY <1>1, <1>2, <1>4, <1>7, <2>0 DEF RequestOK
    <2> QED BY <2>1, <2>3, <2>4, <2>5, <2>6 DEF RequestOK, Fits
  <1> QED BY <1>1, <1>5, <1>9, <1>10, <1>11 DEF IInv, OnceUnlessExcused

-----------------------------------------------------------------------------

LEMMA NextIInv == IInv /\ [Next]_vars => IInv'
  <1> SUFFICES ASSUME IInv, [Next]_vars PROVE IInv'
    OBVIOUS
  <1>1. CASE UNCHANGED vars
    BY <1>1
    DEF vars, shared, histories, IInv, TypeOK, RowOK, StoreOK, RequestOK, BlockedOK, HolderOK,
        ServiceOK, Fits, OnceUnlessExcused
  <1>2. ASSUME NEW r \in Requests, NEW payload \in PayloadsOf[r], Arrive(r, payload) PROVE IInv'
    BY <1>2, ArriveStep
  <1>3. ASSUME NEW r \in Requests, Proceed(r) PROVE IInv'
    BY <1>3, QuietSteps, LookUpStep, ClaimStep, ReclaimStep, GiveUpStep, DropStep, PersistStep
    DEF Proceed
  <1>4. ASSUME NEW r \in Requests, Fails(r) PROVE IInv'
    BY <1>4, QuietSteps, ClaimFailsStep DEF Fails
  <1>5. ASSUME NEW p \in Pods, Evict(p) \/ Crash(p) PROVE IInv'
    BY <1>5, EvictStep, CrashStep
  <1>6. CASE Heartbeat \/ Lapse \/ Expire
    BY <1>6, ClockStep
  <1> QED BY <1>1, <1>2, <1>3, <1>4, <1>5, <1>6 DEF Next

(* The inductive invariant of the middleware holds always.                  *)
THEOREM Invariance == Spec => []IInv
  BY InitIInv, NextIInv, PTL DEF Spec

(* Requests that share a pod are coalesced by its memory (LookUp under      *)
(* s.mu), unless the record of one at work was evicted.                     *)
THEOREM PodsCoalesce == Spec => []PodCoalesces
  <1>1. IInv => PodCoalesces
    BY DEF IInv, RequestOK, HolderOK, PodCoalesces, Working
  <1> QED BY <1>1, Invariance, PTL

(* The handler is called a second time only after a lease was taken over    *)
(* or a wait given up (claimDBInFlight, reclaimStaleDBInFlight), whatever   *)
(* crashes, fails, expires or is evicted.                                   *)
THEOREM SecondExecutionIsExcused == Spec => []OnceUnlessExcused
  <1>1. IInv => OnceUnlessExcused
    BY DEF IInv
  <1> QED BY <1>1, Invariance, PTL

(* A replayed response fits the payload of the request that gets it.        *)
THEOREM ReplaysFit == Spec => []ReplaysMatch
  <1>1. IInv => ReplaysMatch
    BY DEF IInv, RequestOK, Fits, ReplaysMatch
  <1> QED BY <1>1, Invariance, PTL

(* A completed row stays as it is (persistDBCompleted,                      *)
(* reclaimStaleDBInFlight), except after an excused execution.              *)
THEOREM CompletedIsFinal == Spec => CompletedStays
  <1> DEFINE Stays == row.state = "completed" =>
                        /\ row'.state = "completed" /\ row'.payload = row.payload
                        /\ row'.response = row.response \/ excused
  <1>1. IInv /\ [Next]_vars => [Stays]_vars
    <2> SUFFICES ASSUME IInv, [Next]_vars, row.state = "completed", row' # row
                 PROVE  /\ row'.state = "completed" /\ row'.payload = row.payload
                        /\ row'.response = row.response \/ excused
      BY DEF vars, shared
    <2>1. PICK r \in Requests : Persist(r)
      BY DEF Next, vars, shared, Arrive, Proceed, Fails, LookUp, ReplayRecord, Fetch, FetchFails,
             Claim, ClaimFails, Refetch, Reclaim, Poll, GiveUp, Drop, Finish, Panic, PersistFails,
             Evict, Crash, Heartbeat, Lapse, Expire
    <2>2. row' = [row EXCEPT !.state = "completed", !.stale = FALSE, !.response = r]
      BY <2>1 DEF Persist
    <2>3. row \in Row /\ row.response \in started /\ r \in started
      BY <2>1 DEF IInv, TypeOK, RowOK, Fits, Persist, RequestOK, ServiceOK, Serving
    <2>4. r = row.response \/ excused
      BY <2>3 DEF IInv, OnceUnlessExcused
    <2> QED BY <2>2, <2>3, <2>4 DEF Row
  <1> QED BY <1>1, Invariance, PTL DEF Spec, CompletedStays

-----------------------------------------------------------------------------
(* The fraud graph, for any accounts, devices, payments and limits.         *)

(* Induction over the natural numbers, as it is used below.                 *)
LEMMA NoneIsLeast ==
  ASSUME NEW Bad \in SUBSET Nat, \A m \in Bad : \E n \in Bad : n < m
  PROVE  Bad = {}
  <1> SUFFICES ASSUME Bad # {} PROVE FALSE
    OBVIOUS
  <1>1. PICK m \in Bad : \A n \in Bad : ~(<<n, m>> \in OpToRel(<, Nat))
    BY NatLessThanWellFounded, WFMin
  <1>2. \A n \in Bad : ~(n < m)
    BY <1>1 DEF OpToRel
  <1> QED BY <1>2

\* What holds of zero, and of each number with the one before, holds up to a bound.
LEMMA UpTo ==
  ASSUME NEW n \in Nat, NEW Good \in SUBSET (0 .. n), 0 \in Good,
         \A i \in 1 .. n : i - 1 \in Good => i \in Good
  PROVE  \A i \in 0 .. n : i \in Good
  <1> DEFINE Bad == (0 .. n) \ Good
  <1>1. ASSUME NEW m \in Bad PROVE \E k \in Bad : k < m
    <2>1. m \in 1 .. n /\ m - 1 \in 0 .. n /\ m - 1 < m
      OBVIOUS
    <2>2. m - 1 \in Bad
      BY <2>1
    <2> QED BY <2>1, <2>2
  <1>2. Bad \in SUBSET Nat
    OBVIOUS
  <1> HIDE DEF Bad
  <1>3. Bad = {}
    BY <1>1, <1>2, NoneIsLeast
  <1> QED BY <1>3 DEF Bad

\* An array of n values is a sequence.
LEMMA ArrayIsSequence ==
  ASSUME NEW S, NEW n \in Nat, NEW f \in [1 .. n -> S]
  PROVE  f \in Seq(S) /\ Len(f) = n
  OBVIOUS

\* The functions that the operators of the graph define step by step.

\* The prefixes of the list that Those makes.
LEMMA ThoseSteps ==
  ASSUME NEW ls, Len(ls) \in Nat, NEW S
  PROVE  \E f : /\ f[0] = <<>>
                /\ \A i \in 1 .. Len(ls) : f[i] = IF ls[i] \in S THEN Append(f[i - 1], ls[i]) ELSE f[i - 1]
                /\ Those(ls, S) = f[Len(ls)]
  <1> DEFINE Made(f, m) ==
        f = [i \in 0 .. m |-> IF i = 0 THEN <<>>
                              ELSE IF ls[i] \in S THEN Append(f[i - 1], ls[i]) ELSE f[i - 1]]
             Bad == {m \in Nat : ~\E f : Made(f, m)}
  <1>1. ASSUME NEW m \in Bad PROVE \E k \in Bad : k < m
    <2> SUFFICES ASSUME ~\E k \in Bad : k < m PROVE FALSE
      OBVIOUS
    <2>1. m # 0
      <3> SUFFICES ASSUME m = 0 PROVE FALSE
        OBVIOUS
      <3> DEFINE g == [i \in 0 .. 0 |-> <<>>]
      <3>1. Made(g, 0)
        OBVIOUS
      <3> QED BY <3>1
    <2>2. m \in Nat /\ m - 1 \in Nat /\ m - 1 < m
      BY <2>1
    <2>3. PICK f : Made(f, m - 1)
      BY <2>2
    <2>4. \A i \in 0 .. m - 1 : f[i] = IF i = 0 THEN <<>>
                                       ELSE IF ls[i] \in S THEN Append(f[i - 1], ls[i]) ELSE f[i - 1]
      BY <2>3
    <2> DEFINE g == [i \in 0 .. m |-> IF i = m
                                      THEN IF ls[m] \in S THEN Append(f[m - 1], ls[m]) ELSE f[m - 1]
                                      ELSE f[i]]
    <2>5. \A i \in 0 .. m : g[i] = IF i = 0 THEN <<>>
                                   ELSE IF ls[i] \in S THEN Append(g[i - 1], ls[i]) ELSE g[i - 1]
      BY <2>1, <2>2, <2>4
    <2>6. Made(g, m)
      BY <2>5
    <2> QED BY <2>6
  <1>2. \E f : Made(f, Len(ls))
    <2>1. Bad \in SUBSET Nat
      OBVIOUS
    <2>2. Bad = {}
      <3> HIDE DEF Bad
      <3> QED BY <1>1, <2>1, NoneIsLeast
    <2> QED BY <2>2
  <1> DEFINE f == CHOOSE f : Made(f, Len(ls))
  <1>3. Made(f, Len(ls))
    BY <1>2
  <1>4. Those(ls, S) = f[Len(ls)]
    BY DEF Those
  <1> HIDE DEF f
  <1>5. /\ f[0] = <<>>
        /\ \A i \in 1 .. Len(ls) : f[i] = IF ls[i] \in S THEN Append(f[i - 1], ls[i]) ELSE f[i - 1]
    <2>1. \A i \in 0 .. Len(ls) : f[i] = IF i = 0 THEN <<>>
                                         ELSE IF ls[i] \in S THEN Append(f[i - 1], ls[i]) ELSE f[i - 1]
      BY <1>3
    <2>2. 0 \in 0 .. Len(ls) /\ \A i \in 1 .. Len(ls) : i \in 0 .. Len(ls) /\ i # 0
      OBVIOUS
    <2> QED BY <2>1, <2>2
  <1> QED BY <1>4, <1>5

\* The prefixes of the list that Seeded makes.
LEMMA SeededSteps ==
  ASSUME NEW who, Len(who) \in Nat, NEW device
  PROVE  \E f : /\ f[0] = <<>>
                /\ \A i \in 1 .. Len(who) : f[i] = f[i - 1] \o Relations(who[i], who[i], device)
                /\ Seeded(who, device) = f[Len(who)]
  <1> DEFINE Made(f, m) == f = [i \in 0 .. m |-> IF i = 0 THEN <<>> ELSE f[i - 1] \o Relations(who[i], who[i], device)]
             Bad == {m \in Nat : ~\E f : Made(f, m)}
  <1>1. ASSUME NEW m \in Bad PROVE \E k \in Bad : k < m
    <2> SUFFICES ASSUME ~\E k \in Bad : k < m PROVE FALSE
      OBVIOUS
    <2>1. m # 0
      <3> SUFFICES ASSUME m = 0 PROVE FALSE
        OBVIOUS
      <3> DEFINE g == [i \in 0 .. 0 |-> <<>>]
      <3>1. Made(g, 0)
        OBVIOUS
      <3> QED BY <3>1
    <2>2. m \in Nat /\ m - 1 \in Nat /\ m - 1 < m
      BY <2>1
    <2>3. PICK f : Made(f, m - 1)
      BY <2>2
    <2>4. \A i \in 0 .. m - 1 : f[i] = IF i = 0 THEN <<>> ELSE f[i - 1] \o Relations(who[i], who[i], device)
      BY <2>3
    <2> DEFINE g == [i \in 0 .. m |-> IF i = m THEN f[m - 1] \o Relations(who[m], who[m], device) ELSE f[i]]
    <2>5. \A i \in 0 .. m : g[i] = IF i = 0 THEN <<>> ELSE g[i - 1] \o Relations(who[i], who[i], device)
      BY <2>1, <2>2, <2>4
    <2>6. Made(g, m)
      BY <2>5
    <2> QED BY <2>6
  <1>2. \E f : Made(f, Len(who))
    <2>1. Bad \in SUBSET Nat
      OBVIOUS
    <2>2. Bad = {}
      <3> HIDE DEF Bad
      <3> QED BY <1>1, <2>1, NoneIsLeast
    <2> QED BY <2>2
  <1> DEFINE f == CHOOSE f : Made(f, Len(who))
  <1>3. Made(f, Len(who))
    BY <1>2
  <1>4. Seeded(who, device) = f[Len(who)]
    BY DEF Seeded
  <1> HIDE DEF f
  <1>5. /\ f[0] = <<>>
        /\ \A i \in 1 .. Len(who) : f[i] = f[i - 1] \o Relations(who[i], who[i], device)
    <2>1. \A i \in 0 .. Len(who) : f[i] = IF i = 0 THEN <<>> ELSE f[i - 1] \o Relations(who[i], who[i], device)
      BY <1>3
    <2>2. 0 \in 0 .. Len(who) /\ \A i \in 1 .. Len(who) : i \in 0 .. Len(who) /\ i # 0
      OBVIOUS
    <2> QED BY <2>1, <2>2
  <1> QED BY <1>4, <1>5

\* The states of a search that has followed the first links of a node.
Followed(f, top, base, n, ls) == f = [i \in 0 .. top |-> IF i = 0 THEN base ELSE Follow(f[i - 1], n, ls[i])]

OneByOne(f, top, base, n, ls) == f[0] = base /\ \A i \in 1 .. top : f[i] = Follow(f[i - 1], n, ls[i])

\* There is one function that follows a list of links one by one, and it does.
LEMMA FollowSteps ==
  ASSUME NEW top \in Nat, NEW base, NEW n, NEW ls
  PROVE  \E f : Followed(f, top, base, n, ls)
  <1> DEFINE Made(f, m) == f = [i \in 0 .. m |-> IF i = 0 THEN base ELSE Follow(f[i - 1], n, ls[i])]
             Bad == {m \in Nat : ~\E f : Made(f, m)}
  <1>1. ASSUME NEW m \in Bad PROVE \E k \in Bad : k < m
    <2> SUFFICES ASSUME ~\E k \in Bad : k < m PROVE FALSE
      OBVIOUS
    <2>1. m # 0
      <3> SUFFICES ASSUME m = 0 PROVE FALSE
        OBVIOUS
      <3> DEFINE g == [i \in 0 .. 0 |-> base]
      <3>1. Made(g, 0)
        OBVIOUS
      <3> QED BY <3>1
    <2>2. m \in Nat /\ m - 1 \in Nat /\ m - 1 < m
      BY <2>1
    <2>3. PICK f : Made(f, m - 1)
      BY <2>2
    <2>4. \A i \in 0 .. m - 1 : f[i] = IF i = 0 THEN base ELSE Follow(f[i - 1], n, ls[i])
      BY <2>3
    <2> DEFINE g == [i \in 0 .. m |-> IF i = m THEN Follow(f[m - 1], n, ls[m]) ELSE f[i]]
    <2>5. \A i \in 0 .. m : g[i] = IF i = 0 THEN base ELSE Follow(g[i - 1], n, ls[i])
      BY <2>1, <2>2, <2>4
    <2>6. Made(g, m)
      BY <2>5
    <2> QED BY <2>6
  <1>2. Bad \in SUBSET Nat
    OBVIOUS
  <1>3. Bad = {}
    <2> HIDE DEF Bad
    <2> QED BY <1>1, <1>2, NoneIsLeast
  <1> QED BY <1>3 DEF Followed

\* A function made step by step has its first value, and each from the one before.
LEMMA FollowValues ==
  ASSUME NEW m \in Nat, NEW base, NEW n, NEW ls, NEW f, Followed(f, m, base, n, ls)
  PROVE  OneByOne(f, m, base, n, ls)
  <1>1. \A i \in 0 .. m : f[i] = IF i = 0 THEN base ELSE Follow(f[i - 1], n, ls[i])
    BY DEF Followed
  <1>2. 0 \in 0 .. m /\ \A i \in 1 .. m : i \in 0 .. m /\ i # 0
    OBVIOUS
  <1> QED BY <1>1, <1>2 DEF OneByOne

\* The states of a search that looks at the links of a node.
NeighbourRun(f, b, n, ls) ==
  /\ f[0] = [b EXCEPT !.new = 0]
  /\ \A i \in 1 .. Len(ls) : f[i] = Follow(f[i - 1], n, ls[i])
  /\ Neighbours(b, n) = f[Len(ls)]

\* Neighbours follows the links of the node, first those from it.
LEMMA NeighbourSteps ==
  ASSUME NEW b, NEW n, NEW ls, ls = out[n] \o in[n], Len(ls) \in Nat
  PROVE  \E f : NeighbourRun(f, b, n, ls)
  <1> DEFINE base == [b EXCEPT !.new = 0]
             m == Len(ls)
             f == CHOOSE f : Followed(f, m, base, n, ls)
  <1>1. Neighbours(b, n) = f[m]
    BY DEF Neighbours, Followed
  <1>2. m \in Nat
    OBVIOUS
  <1> HIDE DEF base, m
  <1>3. Followed(f, m, base, n, ls)
    BY <1>2, FollowSteps
  <1> HIDE DEF f
  <1>4. OneByOne(f, m, base, n, ls)
    BY <1>2, <1>3, FollowValues
  <1>5. NeighbourRun(f, b, n, ls)
    BY <1>1, <1>4 DEF base, m, OneByOne, NeighbourRun
  <1> QED BY <1>5

First(start) ==
  [order |-> <<start>>, depth |-> [x \in {start} |-> 0], edges |-> {}, new |-> 0, capped |-> FALSE]

\* A search expands the first node of the queue, the second, and so on.
LEMMA SearchSteps ==
  ASSUME NEW start, Cardinality(GraphNodes) \in Nat
  PROVE  \E f : /\ f[0] = First(start)
                /\ \A i \in 1 .. Cardinality(GraphNodes) : f[i] = Expand(f[i - 1], i)
                /\ Search(start) = f[Cardinality(GraphNodes)]
  <1> DEFINE Made(f, m) == f = [i \in 0 .. m |-> IF i = 0 THEN First(start) ELSE Expand(f[i - 1], i)]
             Bad == {m \in Nat : ~\E f : Made(f, m)}
  <1>1. ASSUME NEW m \in Bad PROVE \E k \in Bad : k < m
    <2> SUFFICES ASSUME ~\E k \in Bad : k < m PROVE FALSE
      OBVIOUS
    <2>1. m # 0
      <3> SUFFICES ASSUME m = 0 PROVE FALSE
        OBVIOUS
      <3> DEFINE g == [i \in 0 .. 0 |-> First(start)]
      <3>1. Made(g, 0)
        OBVIOUS
      <3> QED BY <3>1
    <2>2. m \in Nat /\ m - 1 \in Nat /\ m - 1 < m
      BY <2>1
    <2>3. PICK f : Made(f, m - 1)
      BY <2>2
    <2>4. \A i \in 0 .. m - 1 : f[i] = IF i = 0 THEN First(start) ELSE Expand(f[i - 1], i)
      BY <2>3
    <2> DEFINE g == [i \in 0 .. m |-> IF i = m THEN Expand(f[m - 1], m) ELSE f[i]]
    <2>5. \A i \in 0 .. m : g[i] = IF i = 0 THEN First(start) ELSE Expand(g[i - 1], i)
      BY <2>1, <2>2, <2>4
    <2>6. Made(g, m)
      BY <2>5
    <2> QED BY <2>6
  <1>2. \E f : Made(f, Cardinality(GraphNodes))
    <2>1. Bad \in SUBSET Nat
      OBVIOUS
    <2>2. Bad = {}
      <3> HIDE DEF Bad
      <3> QED BY <1>1, <2>1, NoneIsLeast
    <2> QED BY <2>2
  <1> DEFINE f == CHOOSE f : Made(f, Cardinality(GraphNodes))
  <1>3. Made(f, Cardinality(GraphNodes))
    BY <1>2
  <1>4. Search(start) = f[Cardinality(GraphNodes)]
    BY DEF Search, First
  <1> HIDE DEF f
  <1>5. /\ f[0] = First(start)
        /\ \A i \in 1 .. Cardinality(GraphNodes) : f[i] = Expand(f[i - 1], i)
    <2>1. \A i \in 0 .. Cardinality(GraphNodes) : f[i] = IF i = 0 THEN First(start) ELSE Expand(f[i - 1], i)
      BY <1>3
    <2>2. 0 \in 0 .. Cardinality(GraphNodes) /\ \A i \in 1 .. Cardinality(GraphNodes) : i \in 0 .. Cardinality(GraphNodes) /\ i # 0
      OBVIOUS
    <2> QED BY <2>1, <2>2
  <1> QED BY <1>4, <1>5

\* Sequences of links.

LEMMA RangeOfAppend ==
  ASSUME NEW S, NEW s \in Seq(S), NEW x \in S
  PROVE  Append(s, x) \in Seq(S) /\ Range(Append(s, x)) = Range(s) \cup {x}
  <1>1. Len(s) \in Nat /\ DOMAIN s = 1 .. Len(s)
    OBVIOUS
  <1>2. /\ Append(s, x) \in Seq(S) /\ DOMAIN Append(s, x) = 1 .. Len(s) + 1
        /\ Append(s, x)[Len(s) + 1] = x
        /\ \A i \in 1 .. Len(s) : Append(s, x)[i] = s[i]
    OBVIOUS
  <1> DEFINE n == Len(s)
             t == Append(s, x)
  <1> HIDE DEF n, t
  <1>3. \A i \in 1 .. n + 1 : i = n + 1 \/ i \in 1 .. n
    BY <1>1 DEF n
  <1>4. n + 1 \in 1 .. n + 1 /\ \A i \in 1 .. n : i \in 1 .. n + 1
    BY <1>1 DEF n
  <1>5. DOMAIN s = 1 .. n /\ DOMAIN t = 1 .. n + 1 /\ t[n + 1] = x /\ \A i \in 1 .. n : t[i] = s[i]
    BY <1>1, <1>2 DEF n, t
  <1>6. Range(t) = Range(s) \cup {x}
    BY <1>3, <1>4, <1>5, Zenon DEF Range
  <1> QED BY <1>2, <1>6 DEF t

LEMMA RangeOfJoin ==
  ASSUME NEW S, NEW s \in Seq(S), NEW t \in Seq(S)
  PROVE  s \o t \in Seq(S) /\ Range(s \o t) = Range(s) \cup Range(t)
  <1> DEFINE m == Len(s)
             n == Len(t)
             u == s \o t
  <1>1. /\ m \in Nat /\ n \in Nat /\ DOMAIN s = 1 .. m /\ DOMAIN t = 1 .. n
        /\ u \in Seq(S) /\ DOMAIN u = 1 .. m + n
    OBVIOUS
  <1>2. \A i \in 1 .. m + n : u[i] = IF i <= m THEN s[i] ELSE t[i - m]
    OBVIOUS
  <1> HIDE DEF m, n, u
  <1>3. /\ \A i \in 1 .. m : i \in 1 .. m + n /\ i <= m
        /\ \A i \in 1 .. n : i + m \in 1 .. m + n /\ ~(i + m <= m) /\ (i + m) - m = i
        /\ \A i \in 1 .. m + n : (i <= m => i \in 1 .. m) /\ (~(i <= m) => i - m \in 1 .. n)
    BY <1>1
  <1>4. \A i \in 1 .. m : i \in 1 .. m + n /\ u[i] = s[i]
    BY <1>2, <1>3
  <1>5. \A i \in 1 .. n : i + m \in 1 .. m + n /\ u[i + m] = t[i]
    BY <1>2, <1>3
  <1>6. \A i \in 1 .. m + n : (i \in 1 .. m /\ u[i] = s[i]) \/ (i - m \in 1 .. n /\ u[i] = t[i - m])
    BY <1>2, <1>3
  <1>7. Range(u) = Range(s) \cup Range(t)
    <2>1. \A y \in Range(u) : y \in Range(s) \cup Range(t)
      BY <1>1, <1>6, Zenon DEF Range
    <2>2. \A y \in Range(s) : y \in Range(u)
      BY <1>1, <1>4, Zenon DEF Range
    <2>3. \A y \in Range(t) : y \in Range(u)
      BY <1>1, <1>5, Zenon DEF Range
    <2> QED BY <2>1, <2>2, <2>3
  <1> QED BY <1>1, <1>7 DEF u

\* What a sequence of a set has is in the set, and there is a place for each.
LEMMA RangeOfList ==
  ASSUME NEW S, NEW s \in Seq(S)
  PROVE  /\ Range(s) \subseteq S /\ Len(s) \in Nat /\ DOMAIN s = 1 .. Len(s)
         /\ \A i \in 1 .. Len(s) : s[i] \in Range(s)
         /\ \A x \in Range(s) : \E i \in 1 .. Len(s) : s[i] = x
  <1>1. Len(s) \in Nat /\ DOMAIN s = 1 .. Len(s) /\ \A i \in 1 .. Len(s) : s[i] \in S
    <2>1. Len(s) \in Nat /\ DOMAIN s = 1 .. Len(s)
      OBVIOUS
    <2>2. ASSUME NEW i \in 1 .. Len(s) PROVE s[i] \in S
      OBVIOUS
    <2> QED BY <2>1, <2>2
  <1>2. \A i \in 1 .. Len(s) : s[i] \in Range(s)
    BY <1>1, Zenon DEF Range
  <1>3. \A x \in Range(s) : \E i \in 1 .. Len(s) : s[i] = x
    BY <1>1, Zenon DEF Range
  <1>4. Range(s) \subseteq S
    BY <1>1, Zenon DEF Range
  <1> QED BY <1>1, <1>2, <1>3, <1>4

\* Those keeps the members of the set, and nothing else.
LEMMA ThoseKept ==
  ASSUME NEW L, NEW ls \in Seq(L), NEW S
  PROVE  Those(ls, S) \in Seq(L) /\ Range(Those(ls, S)) = {l \in Range(ls) : l \in S}
  <1> DEFINE n == Len(ls)
  <1>1. n \in Nat /\ DOMAIN ls = 1 .. n /\ \A i \in 1 .. n : ls[i] \in L
    OBVIOUS
  <1>2. PICK f : /\ f[0] = <<>>
                 /\ \A i \in 1 .. n : f[i] = IF ls[i] \in S THEN Append(f[i - 1], ls[i]) ELSE f[i - 1]
                 /\ Those(ls, S) = f[n]
    BY ThoseSteps
  <1> HIDE DEF n
  <1> DEFINE Kept(i) == {l \in L : l \in S /\ \E j \in 1 .. i : ls[j] = l}
             Good == {i \in 0 .. n : f[i] \in Seq(L) /\ Range(f[i]) = Kept(i)}
  <1>3. 0 \in Good
    <2>1. Range(<<>>) = {} /\ <<>> \in Seq(L)
      BY DEF Range
    <2>2. Kept(0) = {} /\ 0 \in 0 .. n
      BY <1>1
    <2> QED BY <1>2, <2>1, <2>2
  <1>4. ASSUME NEW i \in 1 .. n, i - 1 \in Good PROVE i \in Good
    <2>1. f[i - 1] \in Seq(L) /\ Range(f[i - 1]) = Kept(i - 1)
      BY <1>4
    <2>2. ls[i] \in L /\ i \in 0 .. n
      BY <1>1
    <2>3. \A j \in 1 .. i : j = i \/ j \in 1 .. i - 1
      BY <1>1
    <2>4. i \in 1 .. i /\ \A j \in 1 .. i - 1 : j \in 1 .. i
      BY <1>1
    <2>5. CASE ls[i] \in S
      <3>1. f[i] = Append(f[i - 1], ls[i])
        BY <1>2, <2>5
      <3>2. f[i] \in Seq(L) /\ Range(f[i]) = Range(f[i - 1]) \cup {ls[i]}
        BY <3>1, <2>1, <2>2, RangeOfAppend
      <3>3. Kept(i) = Kept(i - 1) \cup {ls[i]}
        BY <2>2, <2>3, <2>4, <2>5
      <3> QED BY <2>1, <2>2, <3>2, <3>3
    <2>6. CASE ls[i] \notin S
      <3>1. f[i] = f[i - 1]
        BY <1>2, <2>6
      <3>2. Kept(i) = Kept(i - 1)
        BY <2>3, <2>4, <2>6
      <3> QED BY <2>1, <2>2, <3>1, <3>2
    <2> QED BY <2>5, <2>6
  <1>5. n \in Good
    <2>1. Good \in SUBSET (0 .. n) /\ n \in 0 .. n
      BY <1>1
    <2> HIDE DEF Good
    <2>2. \A i \in 0 .. n : i \in Good
      BY <1>1, <1>3, <1>4, <2>1, UpTo
    <2> QED BY <2>1, <2>2
  <1>6. Kept(n) = {l \in Range(ls) : l \in S}
    BY <1>1 DEF Range
  <1> QED BY <1>2, <1>5, <1>6

\* A seeded graph has links between nodes of its accounts.
LEMMA SeededLinks ==
  ASSUME NEW L, NEW A, NEW who \in Seq(A), NEW device,
         \A a \in A : Relations(a, a, device) \in Seq(L)
  PROVE  Seeded(who, device) \in Seq(L)
  <1> DEFINE n == Len(who)
  <1>1. n \in Nat /\ \A i \in 1 .. n : who[i] \in A
    OBVIOUS
  <1>2. PICK f : /\ f[0] = <<>>
                 /\ \A i \in 1 .. n : f[i] = f[i - 1] \o Relations(who[i], who[i], device)
                 /\ Seeded(who, device) = f[n]
    BY <1>1, SeededSteps, Zenon
  <1> HIDE DEF n
  <1> DEFINE Good == {i \in 0 .. n : f[i] \in Seq(L)}
  <1>3. 0 \in Good
    <2>1. <<>> \in Seq(L) /\ 0 \in 0 .. n
      BY <1>1
    <2> QED BY <1>2, <2>1
  <1>4. ASSUME NEW i \in 1 .. n, i - 1 \in Good PROVE i \in Good
    <2>1. f[i - 1] \in Seq(L) /\ Relations(who[i], who[i], device) \in Seq(L) /\ i \in 0 .. n
      BY <1>1, <1>4
    <2>2. f[i - 1] \o Relations(who[i], who[i], device) \in Seq(L)
      BY <2>1, RangeOfJoin
    <2> QED BY <1>2, <2>1, <2>2
  <1>5. n \in Good
    <2>1. Good \in SUBSET (0 .. n) /\ n \in 0 .. n
      BY <1>1
    <2> HIDE DEF Good
    <2>2. \A i \in 0 .. n : i \in Good
      BY <1>1, <1>3, <1>4, <2>1, UpTo
    <2> QED BY <2>1, <2>2
  <1> QED BY <1>2, <1>5

\* There are finitely many nodes.
LEMMA NodesFinite ==
  IsFiniteSet(GraphNodes) /\ Cardinality(GraphNodes) \in Nat
  <1> DEFINE kinds == {"IP_ADDRESS", "MERCHANT", "CARD", "ACCOUNT", "USER", "DEVICE", "TRANSACTION"}
             names == (GraphAccounts \cup GraphDevices) \cup (GraphPayments \cup {"ip", "merch_default"})
  <1>1. IsFiniteSet(kinds)
    <2> DEFINE k3 == {"IP_ADDRESS", "MERCHANT", "CARD"}
               k4 == {"ACCOUNT", "USER", "DEVICE", "TRANSACTION"}
    <2>1. IsFiniteSet({"IP_ADDRESS"}) /\ IsFiniteSet({"ACCOUNT"})
      BY FS_Singleton
    <2>2. IsFiniteSet({"IP_ADDRESS"} \cup {"MERCHANT"}) /\ IsFiniteSet({"ACCOUNT"} \cup {"USER"})
      BY <2>1, FS_AddElement
    <2>3. /\ IsFiniteSet(({"IP_ADDRESS"} \cup {"MERCHANT"}) \cup {"CARD"})
          /\ IsFiniteSet(({"ACCOUNT"} \cup {"USER"}) \cup {"DEVICE"})
      BY <2>2, FS_AddElement
    <2>4. IsFiniteSet((({"ACCOUNT"} \cup {"USER"}) \cup {"DEVICE"}) \cup {"TRANSACTION"})
      BY <2>3, FS_AddElement
    <2>5. /\ k3 = ({"IP_ADDRESS"} \cup {"MERCHANT"}) \cup {"CARD"}
          /\ k4 = (({"ACCOUNT"} \cup {"USER"}) \cup {"DEVICE"}) \cup {"TRANSACTION"}
      OBVIOUS
    <2>6. kinds = k3 \cup k4
      OBVIOUS
    <2>7. IsFiniteSet(k3) /\ IsFiniteSet(k4)
      BY <2>3, <2>4, <2>5
    <2> HIDE DEF k3, k4
    <2> QED BY <2>6, <2>7, FS_Union
  <1>2. IsFiniteSet(names)
    <2>1. IsFiniteSet(GraphAccounts \cup GraphDevices)
      BY GraphAssumption, FS_Union
    <2>2. IsFiniteSet({"ip"} \cup {"merch_default"})
      BY FS_Singleton, FS_AddElement
    <2>3. {"ip"} \cup {"merch_default"} = {"ip", "merch_default"}
      OBVIOUS
    <2>4. IsFiniteSet(GraphPayments \cup {"ip", "merch_default"})
      BY <2>2, <2>3, GraphAssumption, FS_Union
    <2> QED BY <2>1, <2>4, FS_Union
  <1>3. GraphNodes \subseteq kinds \X names
    <2> SUFFICES ASSUME NEW x \in GraphNodes PROVE x \in kinds \X names
      OBVIOUS
    <2>1. \/ x \in {IP, Merchant} \/ (\E d \in GraphDevices : x = Device(d))
          \/ (\E a \in GraphAccounts : x \in {Account(a), User(a), Card(a)})
          \/ (\E p \in GraphPayments \cup GraphAccounts : x = Transaction(p))
      <3> DEFINE own == {{Account(a), User(a), Card(a)} : a \in GraphAccounts}
      <3>1. \/ x \in {IP, Merchant} \/ x \in {Device(d) : d \in GraphDevices} \/ x \in UNION own
            \/ x \in {Transaction(p) : p \in GraphPayments \cup GraphAccounts}
        BY Zenon DEF GraphNodes
      <3>2. ASSUME x \in UNION own PROVE \E a \in GraphAccounts : x \in {Account(a), User(a), Card(a)}
        BY <3>2, Zenon
      <3> HIDE DEF own
      <3> QED BY <3>1, <3>2, Zenon
    <2>2. CASE x \in {IP, Merchant}
      BY <2>2 DEF IP, Merchant
    <2>3. CASE \E d \in GraphDevices : x = Device(d)
      BY <2>3 DEF Device
    <2>4. CASE \E a \in GraphAccounts : x \in {Account(a), User(a), Card(a)}
      BY <2>4 DEF Account, User, Card
    <2>5. CASE \E p \in GraphPayments \cup GraphAccounts : x = Transaction(p)
      BY <2>5 DEF Transaction
    <2> QED BY <2>1, <2>2, <2>3, <2>4, <2>5
  <1> HIDE DEF kinds, names
  <1>4. IsFiniteSet(kinds \X names) /\ GraphNodes \in SUBSET (kinds \X names)
    BY <1>1, <1>2, <1>3, FS_Product
  <1> DEFINE all == kinds \X names
  <1>5. IsFiniteSet(all) /\ GraphNodes \in SUBSET all
    BY <1>4
  <1> HIDE DEF all
  <1>6. IsFiniteSet(GraphNodes)
    BY <1>5, FS_Subset
  <1> QED BY <1>6, FS_CardinalityType

-----------------------------------------------------------------------------
(* The traversal is a breadth-first search: what it has visited, in the     *)
(* order of the queue, with what it knows of each node.                     *)

GraphLinks == [from : GraphNodes, to : GraphNodes]

\* Each link is in the list of the node that it leaves and of the one that it enters.
Listed ==
  /\ DOMAIN since \subseteq GraphLinks
  /\ out \in [GraphNodes -> Seq(GraphLinks)] /\ in \in [GraphNodes -> Seq(GraphLinks)]
  /\ \A n \in GraphNodes : Range(out[n]) = {l \in DOMAIN since : l.from = n}
  /\ \A n \in GraphNodes : Range(in[n]) = {l \in DOMAIN since : l.to = n}

\* A node is around some if it is one of them or has a fresh link with one.
LEMMA AroundMember ==
  ASSUME NEW ns, NEW x
  PROVE  x \in Around(ns) <=> \/ x \in ns
                              \/ \E l \in DOMAIN since : /\ Fresh(l) /\ (l.from \in ns \/ l.to \in ns)
                                                         /\ (x = l.from \/ x = l.to)
  <1> DEFINE touching == {k \in DOMAIN since : Fresh(k) /\ {k.from, k.to} \cap ns # {}}
  <1>1. \A l \in DOMAIN since : l \in touching <=> Fresh(l) /\ (l.from \in ns \/ l.to \in ns)
    OBVIOUS
  <1>2. Around(ns) = ns \cup UNION {{l.from, l.to} : l \in touching}
    BY Zenon DEF Around
  <1>3. touching \subseteq DOMAIN since
    OBVIOUS
  <1> HIDE DEF touching
  <1>4. x \in Around(ns) <=> x \in ns \/ \E l \in touching : x = l.from \/ x = l.to
    BY <1>2
  <1> QED BY <1>1, <1>3, <1>4, Zenon

\* The nodes within so many links of a first one.
Hop(start, d) ==
  IF d = 0 THEN {start} ELSE IF d = 1 THEN Around({start})
  ELSE IF d = 2 THEN Around(Around({start})) ELSE Around(Around(Around({start})))

\* A fresh link leads one hop further.
LEMMA HopStep ==
  ASSUME NEW start, NEW d \in 0 .. 2, NEW n \in Hop(start, d),
         NEW l \in DOMAIN since, Fresh(l), n \in {l.from, l.to}
  PROVE  {l.from, l.to} \subseteq Hop(start, d + 1)
  <1>1. Hop(start, d + 1) = Around(Hop(start, d))
    <2>1. (d = 0 /\ d + 1 = 1) \/ (d = 1 /\ d + 1 = 2) \/ (d = 2 /\ d + 1 = 3)
      OBVIOUS
    <2> QED BY <2>1 DEF Hop
  <1>2. {l.from, l.to} \subseteq Around(Hop(start, d))
    BY AroundMember
  <1> QED BY <1>1, <1>2

LEMMA HopsGrow ==
  ASSUME NEW start, NEW d \in 0 .. 3
  PROVE  Hop(start, d) \subseteq Hop(start, 3)
  <1>1. \A ns : \A x \in ns : x \in Around(ns)
    BY AroundMember
  <1>2. d = 0 \/ d = 1 \/ d = 2 \/ d = 3
    OBVIOUS
  <1> QED BY <1>1, <1>2 DEF Hop

\* A search is a record of these fields.
IsSearch(c) ==
  c = [order |-> c.order, depth |-> c.depth, edges |-> c.edges, new |-> c.new, capped |-> c.capped]

\* What a search has visited: each node once, at the depth at which it is within reach, and the
\* nearer ones first.
Sane(c, start) ==
  /\ IsSearch(c)
  /\ c.order \in Seq(GraphNodes) /\ Len(c.order) >= 1 /\ c.order[1] = start
  /\ \A i, j \in 1 .. Len(c.order) : c.order[i] = c.order[j] => i = j
  /\ DOMAIN c.depth = Range(c.order) /\ c.depth[start] = 0
  /\ \A x \in DOMAIN c.depth : c.depth[x] \in 0 .. 3 /\ x \in Hop(start, c.depth[x])
  /\ \A i, j \in 1 .. Len(c.order) : i <= j => c.depth[c.order[i]] <= c.depth[c.order[j]]
  /\ IsFiniteSet(c.edges) /\ c.new \in Nat /\ c.capped \in BOOLEAN

\* A search that has gone on from another.
Grows(b, c) ==
  /\ Len(b.order) <= Len(c.order) /\ \A i \in 1 .. Len(b.order) : c.order[i] = b.order[i]
  /\ \A x \in DOMAIN b.depth : x \in DOMAIN c.depth /\ c.depth[x] = b.depth[x]
  /\ b.capped = TRUE => c.capped = TRUE

Within(c, d) == \A x \in DOMAIN c.depth : c.depth[x] <= d

\* What following a link comes to: nothing at a limit or for a link that is not fresh, one more
\* edge, or one more node.
Follows(c, n, l, m, d) ==
  \/ d.capped = TRUE /\ d.order = c.order /\ d.depth = c.depth /\ d.edges = c.edges /\ d.new = c.new
  \/ ~Fresh(l) /\ d = c
  \/ /\ m \in DOMAIN c.depth
     /\ d.capped = c.capped /\ d.order = c.order /\ d.depth = c.depth /\ d.new = c.new
     /\ d.edges = c.edges \cup {l}
  \/ /\ Fresh(l) /\ m \notin DOMAIN c.depth
     /\ d.capped = c.capped /\ d.order = Append(c.order, m) /\ d.new = c.new + 1
     /\ d.edges = c.edges \cup {l}
     /\ d.depth = [x \in DOMAIN c.depth \cup {m} |-> IF x = m THEN c.depth[n] + 1 ELSE c.depth[x]]

\* What following a link does to the state of a search.
LEMMA FollowCases ==
  ASSUME NEW c, IsSearch(c), NEW n, NEW l, NEW m, m = OtherEnd(l, n), NEW d, d = Follow(c, n, l)
  PROVE  IsSearch(d) /\ Follows(c, n, l, m, d)
  <1> DEFINE depths == [x \in DOMAIN c.depth \cup {m} |-> IF x = m THEN c.depth[n] + 1 ELSE c.depth[x]]
             longer == Append(c.order, m)
             more == c.edges \cup {l}
             next == c.new + 1
             seen == m \in DOMAIN c.depth
             full == c.new >= FanOut \/ Len(c.order) >= NodeLimit
  <1>1. d = IF full THEN [c EXCEPT !.capped = TRUE]
            ELSE IF ~Fresh(l) THEN c
            ELSE IF seen THEN [c EXCEPT !.edges = more]
            ELSE [c EXCEPT !.edges = more, !.order = longer, !.new = next, !.depth = depths]
    BY DEF Follow
  <1> HIDE DEF depths, longer, more, next, full, seen
  <1>2. CASE full
    <2>1. d = [c EXCEPT !.capped = TRUE]
      BY <1>1, <1>2
    <2>2. d = [order |-> c.order, depth |-> c.depth, edges |-> c.edges, new |-> c.new, capped |-> TRUE]
      BY <2>1 DEF IsSearch
    <2> QED BY <2>2 DEF IsSearch, Follows
  <1>3. CASE ~full /\ ~Fresh(l)
    BY <1>1, <1>3 DEF Follows
  <1>4. CASE ~full /\ Fresh(l) /\ seen
    <2>1. d = [c EXCEPT !.edges = more]
      BY <1>1, <1>4
    <2>2. d = [order |-> c.order, depth |-> c.depth, edges |-> more, new |-> c.new, capped |-> c.capped]
      BY <2>1 DEF IsSearch
    <2> QED BY <1>4, <2>2 DEF IsSearch, more, seen, Follows
  <1>5. CASE ~full /\ Fresh(l) /\ ~seen
    <2>1. d = [c EXCEPT !.edges = more, !.order = longer, !.new = next, !.depth = depths]
      BY <1>1, <1>5
    <2>2. d = [order |-> longer, depth |-> depths, edges |-> more, new |-> next, capped |-> c.capped]
      BY <2>1 DEF IsSearch
    <2>3. /\ IsSearch(d) /\ d.order = longer /\ d.depth = depths /\ d.edges = more /\ d.new = next
          /\ d.capped = c.capped
      BY <2>2 DEF IsSearch
    <2> QED BY <1>5, <2>3 DEF more, longer, next, depths, seen, Follows
  <1> QED BY <1>2, <1>3, <1>4, <1>5

\* Following one link of a node at less than three hops.
FollowedWell(start, c, n, l, d) ==
  /\ Sane(d, start) /\ Grows(c, d) /\ Within(d, d.depth[n] + 1)
  /\ d.capped = TRUE \/ (Fresh(l) => OtherEnd(l, n) \in DOMAIN d.depth)

\* Following a link keeps a search sane, and takes nothing from it.
LEMMA FollowKeeps ==
  ASSUME Listed, NEW start, NEW c, Sane(c, start), NEW n \in DOMAIN c.depth, c.depth[n] < 3,
         Within(c, c.depth[n] + 1), NEW l \in DOMAIN since, n \in {l.from, l.to}, NEW d, d = Follow(c, n, l)
  PROVE  FollowedWell(start, c, n, l, d)
  <1> DEFINE m == OtherEnd(l, n)
  <1>1. m \in {l.from, l.to} /\ m \in GraphNodes /\ l.from \in GraphNodes /\ l.to \in GraphNodes
    BY DEF OtherEnd, Listed, GraphLinks
  <1> HIDE DEF m
  <1>2. IsSearch(c)
    BY DEF Sane
  <1>3. Len(c.order) \in Nat /\ DOMAIN c.order = 1 .. Len(c.order)
    BY DEF Sane
  <1>4. c.depth[n] \in 0 .. 2
    BY DEF Sane
  <1>5. CASE /\ d.order = c.order /\ d.depth = c.depth /\ IsFiniteSet(d.edges) /\ d.new = c.new
             /\ d.capped \in BOOLEAN /\ (c.capped = TRUE => d.capped = TRUE) /\ IsSearch(d)
             /\ (d.capped = TRUE \/ ~Fresh(l) \/ m \in DOMAIN c.depth)
    <2>1. Sane(d, start)
      BY <1>5 DEF Sane
    <2>2. Grows(c, d)
      BY <1>3, <1>5 DEF Grows
    <2>3. Within(d, d.depth[n] + 1)
      BY <1>5 DEF Within
    <2>4. d.capped = TRUE \/ (Fresh(l) => m \in DOMAIN d.depth)
      BY <1>5, Zenon
    <2> QED BY <2>1, <2>2, <2>3, <2>4 DEF FollowedWell, m
  <1>6. CASE /\ Fresh(l) /\ m \notin DOMAIN c.depth /\ IsSearch(d)
             /\ d.capped = c.capped /\ d.order = Append(c.order, m) /\ d.new = c.new + 1
             /\ d.edges = c.edges \cup {l}
             /\ d.depth = [x \in DOMAIN c.depth \cup {m} |-> IF x = m THEN c.depth[n] + 1 ELSE c.depth[x]]
    <2> DEFINE k == Len(c.order)
               t == c.depth[n] + 1
    <2>1. /\ k \in Nat /\ k >= 1 /\ t \in 1 .. 3 /\ DOMAIN c.order = 1 .. k
          /\ \A i \in 1 .. k : c.order[i] \in DOMAIN c.depth
      <3>1. \A i \in 1 .. k : c.order[i] \in Range(c.order)
        BY <1>3, RangeOfList DEF Sane
      <3> QED BY <1>3, <1>4, <3>1 DEF Sane
    <2>2. /\ d.order \in Seq(GraphNodes) /\ Len(d.order) = k + 1 /\ d.order[k + 1] = m
          /\ \A i \in 1 .. k : d.order[i] = c.order[i]
      <3>1. c.order \in Seq(GraphNodes)
        BY DEF Sane
      <3> QED BY <1>1, <1>6, <3>1
    <2>3. /\ DOMAIN d.depth = DOMAIN c.depth \cup {m} /\ d.depth[m] = t
          /\ \A x \in DOMAIN c.depth : d.depth[x] = c.depth[x]
      BY <1>6
    <2>4. Range(d.order) = DOMAIN d.depth
      <3>1. c.order \in Seq(GraphNodes) /\ Range(c.order) = DOMAIN c.depth
        BY DEF Sane
      <3> QED BY <1>1, <1>6, <2>3, <3>1, RangeOfAppend
    <2> HIDE DEF k, t
    <2>5. \A i \in 1 .. k + 1 : i = k + 1 \/ (i \in 1 .. k /\ i < k + 1)
      BY <2>1
    <2>6. \A i, j \in 1 .. k + 1 : d.order[i] = d.order[j] => i = j
      <3>1. \A i, j \in 1 .. k : c.order[i] = c.order[j] => i = j
        BY DEF Sane, k
      <3>2. \A i \in 1 .. k : d.order[i] # m
        BY <1>6, <2>1, <2>2
      <3> QED BY <2>2, <2>5, <3>1, <3>2, Zenon
    <2>7. \A x \in DOMAIN d.depth : d.depth[x] \in 0 .. 3 /\ x \in Hop(start, d.depth[x])
      <3>1. \A x \in DOMAIN c.depth : c.depth[x] \in 0 .. 3 /\ x \in Hop(start, c.depth[x])
        BY DEF Sane
      <3>2. m \in Hop(start, t)
        BY <1>1, <1>4, <1>6, <3>1, HopStep DEF t
      <3>3. t \in 0 .. 3
        BY <2>1
      <3> QED BY <2>3, <3>1, <3>2, <3>3
    <2>8. \A i \in 1 .. k : d.depth[d.order[i]] <= t
      <3>1. \A x \in DOMAIN c.depth : c.depth[x] <= t
        BY DEF Within, t
      <3> QED BY <2>1, <2>2, <2>3, <3>1
    <2>9. \A i, j \in 1 .. k + 1 : i <= j => d.depth[d.order[i]] <= d.depth[d.order[j]]
      <3>1. \A i, j \in 1 .. k : i <= j => c.depth[c.order[i]] <= c.depth[c.order[j]]
        BY DEF Sane, k
      <3>2. \A i, j \in 1 .. k : i <= j => d.depth[d.order[i]] <= d.depth[d.order[j]]
        BY <2>1, <2>2, <2>3, <3>1
      <3>3. d.depth[d.order[k + 1]] = t /\ t <= t
        BY <2>1, <2>2, <2>3
      <3> SUFFICES ASSUME NEW i \in 1 .. k + 1, NEW j \in 1 .. k + 1, i <= j
                   PROVE  d.depth[d.order[i]] <= d.depth[d.order[j]]
        OBVIOUS
      <3>4. CASE j = k + 1
        BY <2>5, <2>8, <3>3, <3>4
      <3>5. CASE j \in 1 .. k
        <4>1. i \in 1 .. k
          BY <2>1, <3>5
        <4> QED BY <3>2, <3>5, <4>1
      <3> QED BY <2>5, <3>4, <3>5
    <2>10. d.order[1] = start /\ d.depth[start] = 0
      <3>1. c.order[1] = start /\ c.depth[start] = 0 /\ start \in DOMAIN c.depth
        BY <2>1 DEF Sane
      <3>2. 1 \in 1 .. k
        BY <2>1
      <3> QED BY <2>2, <2>3, <3>1, <3>2
    <2>11. IsFiniteSet(d.edges) /\ d.new \in Nat /\ d.capped \in BOOLEAN
      <3>1. IsFiniteSet(c.edges) /\ c.new \in Nat /\ c.capped \in BOOLEAN
        BY DEF Sane
      <3>2. IsFiniteSet(c.edges \cup {l})
        BY <3>1, FS_AddElement
      <3> QED BY <1>6, <3>1, <3>2
    <2>12. Sane(d, start)
      <3>1. k + 1 >= 1
        BY <2>1
      <3>2. Len(d.order) >= 1
        BY <2>2, <3>1
      <3>3. /\ \A i, j \in 1 .. Len(d.order) : d.order[i] = d.order[j] => i = j
            /\ \A i, j \in 1 .. Len(d.order) : i <= j => d.depth[d.order[i]] <= d.depth[d.order[j]]
        BY <2>2, <2>6, <2>9, Zenon
      <3>4. IsSearch(d) /\ d.order \in Seq(GraphNodes) /\ DOMAIN d.depth = Range(d.order)
        BY <1>6, <2>2, <2>4
      <3> QED BY <2>7, <2>10, <2>11, <3>2, <3>3, <3>4, Zenon DEF Sane
    <2>13. Grows(c, d)
      <3>1. k <= k + 1
        BY <2>1
      <3> QED BY <1>6, <2>2, <2>3, <3>1 DEF Grows, k
    <2>14. Within(d, d.depth[n] + 1)
      <3>1. d.depth[n] + 1 = t
        BY <2>3 DEF t
      <3>2. \A x \in DOMAIN c.depth : c.depth[x] <= t
        BY DEF Within, t
      <3>3. t <= t
        BY <2>1
      <3> QED BY <2>3, <3>1, <3>2, <3>3 DEF Within
    <2>15. m \in DOMAIN d.depth
      BY <2>3
    <2> QED BY <2>12, <2>13, <2>14, <2>15 DEF FollowedWell, m
  <1> DEFINE Same == /\ d.order = c.order /\ d.depth = c.depth /\ IsFiniteSet(d.edges) /\ d.new = c.new
                     /\ d.capped \in BOOLEAN /\ (c.capped = TRUE => d.capped = TRUE) /\ IsSearch(d)
                     /\ (d.capped = TRUE \/ ~Fresh(l) \/ m \in DOMAIN c.depth)
  <1>7. IsSearch(d) /\ IsFiniteSet(c.edges) /\ IsFiniteSet(c.edges \cup {l}) /\ c.capped \in BOOLEAN
    <2>1. IsFiniteSet(c.edges) /\ c.capped \in BOOLEAN
      BY DEF Sane
    <2>2. IsFiniteSet(c.edges \cup {l})
      BY <2>1, FS_AddElement
    <2>3. IsSearch(d)
      BY <1>2, FollowCases
    <2> QED BY <2>1, <2>2, <2>3
  <1>8. \/ d.capped = TRUE /\ d.order = c.order /\ d.depth = c.depth /\ d.edges = c.edges /\ d.new = c.new
        \/ ~Fresh(l) /\ d = c
        \/ /\ m \in DOMAIN c.depth
           /\ d.capped = c.capped /\ d.order = c.order /\ d.depth = c.depth /\ d.new = c.new
           /\ d.edges = c.edges \cup {l}
        \/ /\ Fresh(l) /\ m \notin DOMAIN c.depth
           /\ d.capped = c.capped /\ d.order = Append(c.order, m) /\ d.new = c.new + 1
           /\ d.edges = c.edges \cup {l}
           /\ d.depth = [x \in DOMAIN c.depth \cup {m} |-> IF x = m THEN c.depth[n] + 1 ELSE c.depth[x]]
    <2>1. Follows(c, n, l, m, d)
      BY <1>2, FollowCases DEF m
    <2> QED BY <2>1 DEF Follows
  <1>9. CASE d.capped = TRUE /\ d.order = c.order /\ d.depth = c.depth /\ d.edges = c.edges /\ d.new = c.new
    BY <1>5, <1>7, <1>9
  <1>10. CASE ~Fresh(l) /\ d = c
    BY <1>5, <1>7, <1>10
  <1>11. CASE /\ m \in DOMAIN c.depth
              /\ d.capped = c.capped /\ d.order = c.order /\ d.depth = c.depth /\ d.new = c.new
              /\ d.edges = c.edges \cup {l}
    BY <1>5, <1>7, <1>11
  <1> QED BY <1>6, <1>7, <1>8, <1>9, <1>10, <1>11

LEMMA GrowsOn ==
  ASSUME NEW a, NEW b, NEW c, Grows(a, b), Grows(b, c),
         Len(a.order) \in Nat, Len(b.order) \in Nat, Len(c.order) \in Nat
  PROVE  Grows(a, c)
  <1>1. Len(a.order) <= Len(c.order) /\ \A i \in 1 .. Len(a.order) : i \in 1 .. Len(b.order)
    BY DEF Grows
  <1>2. \A i \in 1 .. Len(a.order) : c.order[i] = a.order[i]
    BY <1>1, Zenon DEF Grows
  <1>3. \A x \in DOMAIN a.depth : x \in DOMAIN c.depth /\ c.depth[x] = a.depth[x]
    BY Zenon DEF Grows
  <1>4. a.capped = TRUE => c.capped = TRUE
    BY Zenon DEF Grows
  <1> QED BY <1>1, <1>2, <1>3, <1>4, Zenon DEF Grows

\* The queue of a sane search has nodes of the graph, once each, and is no longer than the graph.
LEMMA SaneOrder ==
  ASSUME NEW start, NEW c, Sane(c, start)
  PROVE  /\ Len(c.order) \in Nat /\ c.order \in Seq(GraphNodes) /\ DOMAIN c.order = 1 .. Len(c.order)
         /\ \A i \in 1 .. Len(c.order) : c.order[i] \in DOMAIN c.depth /\ c.order[i] \in GraphNodes
         /\ \A x \in DOMAIN c.depth : x \in GraphNodes /\ \E i \in 1 .. Len(c.order) : c.order[i] = x
  <1>1. c.order \in Seq(GraphNodes) /\ DOMAIN c.depth = Range(c.order)
    BY DEF Sane
  <1> DEFINE s == c.order
             r == Range(s)
  <1>2. s \in Seq(GraphNodes) /\ r = Range(s)
    BY <1>1
  <1> HIDE DEF s, r
  <1>3. /\ r \subseteq GraphNodes /\ Len(s) \in Nat /\ DOMAIN s = 1 .. Len(s)
        /\ \A i \in 1 .. Len(s) : s[i] \in r
        /\ \A x \in r : \E i \in 1 .. Len(s) : s[i] = x
    BY <1>2, RangeOfList
  <1>4. DOMAIN c.depth = r
    BY <1>1 DEF s, r
  <1>5. \A i \in 1 .. Len(s) : s[i] \in GraphNodes
    BY <1>3
  <1> QED BY <1>1, <1>3, <1>4, <1>5, Zenon DEF s

\* The links of a node, in one list.
LEMMA LinksOfNode ==
  ASSUME Listed, NEW n \in GraphNodes
  PROVE  /\ out[n] \o in[n] \in Seq(GraphLinks)
         /\ Range(out[n] \o in[n]) = {l \in DOMAIN since : l.from = n \/ l.to = n}
  <1>1. /\ out[n] \in Seq(GraphLinks) /\ in[n] \in Seq(GraphLinks)
        /\ Range(out[n]) = {l \in DOMAIN since : l.from = n} /\ Range(in[n]) = {l \in DOMAIN since : l.to = n}
    BY DEF Listed
  <1> DEFINE s == out[n]
             t == in[n]
  <1>2. s \in Seq(GraphLinks) /\ t \in Seq(GraphLinks)
    BY <1>1
  <1> HIDE DEF s, t
  <1>3. s \o t \in Seq(GraphLinks) /\ Range(s \o t) = Range(s) \cup Range(t)
    BY <1>2, RangeOfJoin
  <1> QED BY <1>1, <1>3 DEF s, t

\* Looking at all the links of a node at less than three hops.
Expanded(start, b, n, d) ==
  /\ Sane(d, start) /\ Grows(b, d) /\ Within(d, d.depth[n] + 1)
  /\ \/ d.capped = TRUE
     \/ \A l \in DOMAIN since : Fresh(l) /\ n \in {l.from, l.to} => {l.from, l.to} \subseteq DOMAIN d.depth

\* Expanding a node keeps the search sane, and visits all its neighbours over fresh links unless a limit was met.
LEMMA NeighboursKeep ==
  ASSUME Listed, NEW start, NEW b, Sane(b, start), NEW n \in DOMAIN b.depth, b.depth[n] < 3,
         Within(b, b.depth[n] + 1)
  PROVE  Expanded(start, b, n, Neighbours(b, n))
  <1> DEFINE ls == out[n] \o in[n]
             top == Len(ls)
  <1>1. /\ n \in GraphNodes /\ Len(b.order) \in Nat
    BY SaneOrder
  <1>2. ls \in Seq(GraphLinks) /\ Range(ls) = {l \in DOMAIN since : l.from = n \/ l.to = n}
    BY <1>1, LinksOfNode
  <1>3. /\ top \in Nat /\ \A j \in 1 .. top : ls[j] \in DOMAIN since /\ n \in {ls[j].from, ls[j].to}
        /\ \A l \in DOMAIN since : n \in {l.from, l.to} => \E j \in 1 .. top : ls[j] = l
    <2> HIDE DEF ls
    <2>1. /\ Len(ls) \in Nat /\ \A j \in 1 .. Len(ls) : ls[j] \in Range(ls)
          /\ \A x \in Range(ls) : \E j \in 1 .. Len(ls) : ls[j] = x
      BY <1>2, RangeOfList
    <2> QED BY <1>2, <2>1
  <1>4. PICK f : /\ f[0] = [b EXCEPT !.new = 0]
                 /\ \A i \in 1 .. top : f[i] = Follow(f[i - 1], n, ls[i])
                 /\ Neighbours(b, n) = f[top]
    <2>1. ls = out[n] \o in[n] /\ Len(ls) \in Nat
      BY <1>3
    <2> HIDE DEF ls
    <2>2. PICK f : NeighbourRun(f, b, n, ls)
      BY <2>1, NeighbourSteps
    <2> QED BY <2>2 DEF NeighbourRun
  <1> HIDE DEF ls, top
  <1> DEFINE t == b.depth[n] + 1
             Visited(i) == \/ f[i].capped = TRUE
                           \/ \A j \in 1 .. i : Fresh(ls[j]) => OtherEnd(ls[j], n) \in DOMAIN f[i].depth
             Good == {i \in 0 .. top : Sane(f[i], start) /\ Grows(b, f[i]) /\ Within(f[i], t) /\ Visited(i)}
  <1>5. 0 \in Good
    <2>1. IsSearch(b)
      BY DEF Sane
    <2>2. f[0] = [order |-> b.order, depth |-> b.depth, edges |-> b.edges, new |-> 0, capped |-> b.capped]
      BY <1>4, <2>1 DEF IsSearch
    <2> DEFINE c == f[0]
    <2>3. /\ IsSearch(c) /\ c.order = b.order /\ c.depth = b.depth /\ c.edges = b.edges /\ c.new = 0
          /\ c.capped = b.capped
      BY <2>2 DEF IsSearch
    <2> HIDE DEF c
    <2>4. Sane(c, start)
      BY <2>3 DEF Sane
    <2>5. Grows(b, c)
      BY <1>1, <2>3 DEF Grows
    <2>6. Within(c, t)
      BY <2>3 DEF Within
    <2>7. 0 \in 0 .. top /\ \A j \in 1 .. 0 : FALSE
      BY <1>3
    <2> QED BY <2>4, <2>5, <2>6, <2>7 DEF c
  <1>6. ASSUME NEW i \in 1 .. top, i - 1 \in Good PROVE i \in Good
    <2> DEFINE c == f[i - 1]
               d == f[i]
               l == ls[i]
    <2>1. Sane(c, start) /\ Grows(b, c) /\ Within(c, t) /\ Visited(i - 1)
      BY <1>6
    <2>2. d = Follow(c, n, l) /\ l \in DOMAIN since /\ n \in {l.from, l.to}
      BY <1>3, <1>4
    <2>3. n \in DOMAIN c.depth /\ c.depth[n] = b.depth[n]
      BY <2>1 DEF Grows
    <2>4. i \in 0 .. top /\ \A j \in 1 .. i : j = i \/ j \in 1 .. i - 1
      BY <1>3
    <2>5. Visited(i - 1) <=> \/ c.capped = TRUE
                             \/ \A j \in 1 .. i - 1 : Fresh(ls[j]) => OtherEnd(ls[j], n) \in DOMAIN c.depth
      OBVIOUS
    <2>6. Visited(i) <=> \/ d.capped = TRUE
                         \/ \A j \in 1 .. i : Fresh(ls[j]) => OtherEnd(ls[j], n) \in DOMAIN d.depth
      OBVIOUS
    <2> HIDE DEF c, d, Visited
    <2>7. FollowedWell(start, c, n, l, d)
      <3>1. c.depth[n] < 3 /\ Within(c, c.depth[n] + 1)
        BY <2>1, <2>3
      <3> HIDE DEF l, t
      <3> QED BY <2>1, <2>2, <2>3, <3>1, FollowKeeps
    <2>8. /\ Sane(d, start) /\ Grows(c, d) /\ Within(d, d.depth[n] + 1)
          /\ d.capped = TRUE \/ (Fresh(l) => OtherEnd(l, n) \in DOMAIN d.depth)
      BY <2>7 DEF FollowedWell
    <2>9. Grows(b, d)
      <3>1. Len(c.order) \in Nat /\ Len(d.order) \in Nat
        BY <2>1, <2>8, SaneOrder
      <3> QED BY <1>1, <2>1, <2>8, <3>1, GrowsOn
    <2>10. Within(d, t)
      <3>1. d.depth[n] = b.depth[n]
        BY <2>9 DEF Grows
      <3> QED BY <2>8, <3>1
    <2>11. Visited(i)
      <3>1. \A x \in DOMAIN c.depth : x \in DOMAIN d.depth
        BY <2>8 DEF Grows
      <3>2. c.capped = TRUE => d.capped = TRUE
        BY <2>8 DEF Grows
      <3> QED BY <2>1, <2>4, <2>5, <2>6, <2>8, <3>1, <3>2, Zenon
    <2> QED BY <2>4, <2>8, <2>9, <2>10, <2>11 DEF d
  <1>7. top \in Good
    <2>1. Good \in SUBSET (0 .. top) /\ top \in 0 .. top
      BY <1>3
    <2> HIDE DEF Good
    <2>2. \A i \in 0 .. top : i \in Good
      BY <1>3, <1>5, <1>6, <2>1, UpTo
    <2> QED BY <2>1, <2>2
  <1> DEFINE d == f[top]
  <1>8. /\ Sane(d, start) /\ Grows(b, d) /\ Within(d, t)
        /\ d.capped = TRUE \/ \A j \in 1 .. top : Fresh(ls[j]) => OtherEnd(ls[j], n) \in DOMAIN d.depth
    BY <1>7
  <1> HIDE DEF d
  <1>9. n \in DOMAIN d.depth /\ d.depth[n] = b.depth[n]
    BY <1>8 DEF Grows
  <1>10. \/ d.capped = TRUE
         \/ \A l \in DOMAIN since : Fresh(l) /\ n \in {l.from, l.to} => {l.from, l.to} \subseteq DOMAIN d.depth
    <2> SUFFICES ASSUME d.capped # TRUE, NEW l \in DOMAIN since, Fresh(l), n \in {l.from, l.to}
                 PROVE  {l.from, l.to} \subseteq DOMAIN d.depth
      BY Zenon
    <2>1. PICK j \in 1 .. top : ls[j] = l
      BY <1>3
    <2>2. OtherEnd(l, n) \in DOMAIN d.depth
      BY <1>8, <2>1
    <2>3. {l.from, l.to} = {n, OtherEnd(l, n)}
      BY DEF OtherEnd
    <2> QED BY <1>9, <2>2, <2>3
  <1>11. Within(d, d.depth[n] + 1)
    BY <1>8, <1>9
  <1>12. Neighbours(b, n) = d
    BY <1>4 DEF d
  <1> QED BY <1>8, <1>10, <1>11, <1>12, Zenon DEF Expanded

\* All that is next to a node is visited, one hop farther at most.
Open(c, n) ==
  \A l \in DOMAIN since : Fresh(l) /\ n \in {l.from, l.to} =>
    \A m \in {l.from, l.to} : m \in DOMAIN c.depth /\ c.depth[m] <= c.depth[n] + 1

\* The first nodes of the queue have been expanded, and no later one is nearer than what they found.
Explored(c, k) ==
  /\ \A j \in 1 .. Len(c.order) : j > k => Within(c, c.depth[c.order[j]] + 1)
  /\ \/ c.capped = TRUE
     \/ \A j \in 1 .. Len(c.order) : j <= k /\ c.depth[c.order[j]] < 3 => Open(c, c.order[j])

\* A search that has not begun is sane.
LEMMA FirstSane ==
  ASSUME NEW start \in GraphNodes
  PROVE  Sane(First(start), start) /\ Explored(First(start), 0)
  <1> DEFINE c == First(start)
  <1>1. /\ IsSearch(c) /\ c.order = <<start>> /\ c.depth = [x \in {start} |-> 0] /\ c.edges = {}
        /\ c.new = 0 /\ c.capped = FALSE
    BY DEF First, IsSearch
  <1> HIDE DEF c
  <1>2. /\ c.order \in Seq(GraphNodes) /\ Len(c.order) = 1 /\ c.order[1] = start /\ DOMAIN c.order = 1 .. 1
    BY <1>1
  <1>3. 1 .. 1 = {1}
    OBVIOUS
  <1>4. Range(c.order) = {start}
    BY <1>2, <1>3 DEF Range
  <1>5. DOMAIN c.depth = {start} /\ c.depth[start] = 0
    BY <1>1
  <1>6. start \in Hop(start, 0)
    BY DEF Hop
  <1>7. \A i \in 1 .. Len(c.order) : i = 1
    BY <1>2
  <1>8. \A x \in DOMAIN c.depth : c.depth[x] \in 0 .. 3 /\ x \in Hop(start, c.depth[x])
    BY <1>5, <1>6
  <1>9. \A i, j \in 1 .. Len(c.order) : i <= j => c.depth[c.order[i]] <= c.depth[c.order[j]]
    BY <1>2, <1>5, <1>7
  <1>10. Sane(c, start)
    <2>1. IsFiniteSet(c.edges) /\ c.new \in Nat /\ c.capped \in BOOLEAN /\ Len(c.order) >= 1
      <3>1. IsFiniteSet({})
        BY FS_EmptySet
      <3>2. IsFiniteSet(c.edges)
        BY <1>1, <3>1
      <3>3. c.new \in Nat
        BY <1>1
      <3>4. c.capped \in BOOLEAN
        BY <1>1, Zenon
      <3> QED BY <1>2, <3>2, <3>3, <3>4
    <2>2. \A i, j \in 1 .. Len(c.order) : c.order[i] = c.order[j] => i = j
      BY <1>7, Zenon
    <2> QED BY <1>1, <1>2, <1>4, <1>5, <1>8, <1>9, <2>1, <2>2, Zenon DEF Sane
  <1>11. Explored(c, 0)
    <2>1. Within(c, c.depth[start] + 1)
      BY <1>5 DEF Within
    <2>2. \A j \in 1 .. Len(c.order) : c.order[j] = start /\ ~(j <= 0)
      BY <1>2, <1>7
    <2> QED BY <2>1, <2>2, Zenon DEF Explored
  <1> QED BY <1>10, <1>11 DEF c

\* The k-th round keeps what the rounds before it have made.
LEMMA ExpandKeeps ==
  ASSUME Listed, NEW start, NEW b, Sane(b, start), NEW k \in Nat, k >= 1, Explored(b, k - 1)
  PROVE  Sane(Expand(b, k), start) /\ Explored(Expand(b, k), k)
  <1> DEFINE n == b.order[k]
             d == Expand(b, k)
  <1>1. /\ Len(b.order) \in Nat
        /\ \A i \in 1 .. Len(b.order) : b.order[i] \in DOMAIN b.depth /\ b.depth[b.order[i]] \in 0 .. 3
    BY SaneOrder DEF Sane
  <1>2. CASE k > Len(b.order)
    <2>1. d = b
      BY <1>2 DEF Expand
    <2>2. \A j \in 1 .. Len(b.order) : ~(j > k) /\ j <= k - 1
      BY <1>1, <1>2
    <2>3. Explored(b, k)
      BY <2>2, Zenon DEF Explored
    <2> QED BY <2>1, <2>3
  <1>3. CASE ~(k > Len(b.order)) /\ b.depth[n] >= 3
    <2>1. d = b
      BY <1>3 DEF Expand
    <2>2. \A j \in 1 .. Len(b.order) : /\ j > k => j > k - 1
                                       /\ j <= k /\ b.depth[b.order[j]] < 3 => j <= k - 1
      <3> SUFFICES ASSUME NEW j \in 1 .. Len(b.order)
                   PROVE  (j > k => j > k - 1) /\ (j <= k /\ b.depth[b.order[j]] < 3 => j <= k - 1)
        OBVIOUS
      <3>1. j = k => ~(b.depth[b.order[j]] < 3)
        BY <1>1, <1>3
      <3> QED BY <1>1, <3>1
    <2>3. Explored(b, k)
      BY <2>2, Zenon DEF Explored
    <2> QED BY <2>1, <2>3
  <1>4. CASE ~(k > Len(b.order)) /\ ~(b.depth[n] >= 3)
    <2>1. d = Neighbours(b, n)
      BY <1>4 DEF Expand
    <2>2. k \in 1 .. Len(b.order) /\ k > k - 1
      BY <1>1, <1>4
    <2>3. n \in DOMAIN b.depth /\ b.depth[n] < 3 /\ b.depth[n] \in 0 .. 3
      BY <1>1, <1>4, <2>2
    <2>4. Within(b, b.depth[n] + 1)
      BY <2>2 DEF Explored
    <2> HIDE DEF n, d
    <2>5. Expanded(start, b, n, d)
      BY <2>1, <2>3, <2>4, NeighboursKeep
    <2>6. /\ Sane(d, start) /\ Grows(b, d) /\ Within(d, d.depth[n] + 1)
          /\ \/ d.capped = TRUE
             \/ \A l \in DOMAIN since : Fresh(l) /\ n \in {l.from, l.to} => {l.from, l.to} \subseteq DOMAIN d.depth
      BY <2>5 DEF Expanded
    <2>7. /\ Len(d.order) \in Nat /\ k \in 1 .. Len(d.order) /\ d.order[k] = n
          /\ \A j \in 1 .. Len(d.order) : d.order[j] \in DOMAIN d.depth
      <3>1. Len(d.order) \in Nat /\ \A j \in 1 .. Len(d.order) : d.order[j] \in DOMAIN d.depth
        BY <2>6, SaneOrder
      <3>2. Len(b.order) <= Len(d.order) /\ d.order[k] = b.order[k]
        BY <2>2, <2>6 DEF Grows
      <3> QED BY <1>1, <2>2, <3>1, <3>2 DEF n
    <2>8. \A j \in 1 .. Len(d.order) : j > k => Within(d, d.depth[d.order[j]] + 1)
      <3> SUFFICES ASSUME NEW j \in 1 .. Len(d.order), j > k, NEW x \in DOMAIN d.depth
                   PROVE  d.depth[x] <= d.depth[d.order[j]] + 1
        BY DEF Within
      <3>1. d.depth[n] <= d.depth[d.order[j]]
        <4>1. \A i, h \in 1 .. Len(d.order) : i <= h => d.depth[d.order[i]] <= d.depth[d.order[h]]
          BY <2>6 DEF Sane
        <4>2. k <= j
          BY <2>7
        <4> QED BY <2>7, <4>1, <4>2
      <3>2. d.depth[x] <= d.depth[n] + 1
        BY <2>6 DEF Within
      <3>3. d.depth[x] \in 0 .. 3 /\ d.depth[n] \in 0 .. 3 /\ d.depth[d.order[j]] \in 0 .. 3
        <4>1. \A y \in DOMAIN d.depth : d.depth[y] \in 0 .. 3
          BY <2>6 DEF Sane
        <4> QED BY <2>7, <4>1
      <3> QED BY <3>1, <3>2, <3>3
    <2>9. ASSUME d.capped # TRUE, NEW j \in 1 .. Len(d.order), j <= k, d.depth[d.order[j]] < 3
          PROVE  Open(d, d.order[j])
      <3>1. CASE j = k
        <4>1. \A l \in DOMAIN since : Fresh(l) /\ n \in {l.from, l.to} =>
                \A m \in {l.from, l.to} : m \in DOMAIN d.depth
          BY <2>6, <2>9
        <4>2. \A m \in DOMAIN d.depth : d.depth[m] <= d.depth[n] + 1
          BY <2>6 DEF Within
        <4> QED BY <2>7, <3>1, <4>1, <4>2, Zenon DEF Open
      <3>2. CASE j # k
        <4>1. j \in 1 .. Len(b.order) /\ j <= k - 1
          BY <1>1, <2>2, <2>9, <3>2
        <4> DEFINE y == b.order[j]
        <4>2. y \in DOMAIN b.depth /\ d.order[j] = y /\ y \in DOMAIN d.depth /\ d.depth[y] = b.depth[y]
          BY <1>1, <2>6, <4>1 DEF Grows
        <4>3. b.capped # TRUE
          BY <2>6, <2>9 DEF Grows
        <4>4. Open(b, y)
          <5>1. b.depth[y] < 3
            BY <2>9, <4>2
          <5> QED BY <4>1, <4>3, <5>1 DEF Explored
        <4>5. \A m \in DOMAIN b.depth : m \in DOMAIN d.depth /\ d.depth[m] = b.depth[m]
          BY <2>6 DEF Grows
        <4> HIDE DEF y
        <4>6. Open(d, y)
          BY <4>2, <4>4, <4>5, Zenon DEF Open
        <4> QED BY <4>2, <4>6
      <3> QED BY <3>1, <3>2
    <2>10. Explored(d, k)
      BY <2>8, <2>9, Zenon DEF Explored
    <2> QED BY <2>6, <2>10 DEF d
  <1> QED BY <1>2, <1>3, <1>4, Zenon

\* A search ends with all that is visited expanded, because there are no more nodes than steps.
LEMMA SearchEnds ==
  ASSUME Listed, NEW start \in GraphNodes
  PROVE  /\ Sane(Search(start), start)
         /\ \/ Search(start).capped = TRUE
            \/ \A x \in DOMAIN Search(start).depth : Search(start).depth[x] < 3 => Open(Search(start), x)
  <1> DEFINE top == Cardinality(GraphNodes)
  <1>1. top \in Nat
    BY NodesFinite
  <1>2. PICK f : /\ f[0] = First(start)
                 /\ \A i \in 1 .. top : f[i] = Expand(f[i - 1], i)
                 /\ Search(start) = f[top]
    BY <1>1, SearchSteps
  <1> HIDE DEF top
  <1> DEFINE Good == {i \in 0 .. top : Sane(f[i], start) /\ Explored(f[i], i)}
  <1>3. 0 \in Good
    <2>1. 0 \in 0 .. top
      BY <1>1
    <2> QED BY <1>2, <2>1, FirstSane
  <1>4. ASSUME NEW i \in 1 .. top, i - 1 \in Good PROVE i \in Good
    <2>1. i \in Nat /\ i >= 1 /\ i \in 0 .. top
      BY <1>1
    <2>2. Sane(f[i - 1], start) /\ Explored(f[i - 1], i - 1)
      BY <1>4
    <2> DEFINE b == f[i - 1]
    <2>3. Sane(b, start) /\ Explored(b, i - 1) /\ f[i] = Expand(b, i)
      BY <1>2, <2>2
    <2> HIDE DEF b
    <2>4. Sane(Expand(b, i), start) /\ Explored(Expand(b, i), i)
      BY <2>1, <2>3, ExpandKeeps
    <2> QED BY <2>1, <2>3, <2>4
  <1>5. top \in Good
    <2>1. Good \in SUBSET (0 .. top) /\ top \in 0 .. top
      BY <1>1
    <2> HIDE DEF Good
    <2>2. \A i \in 0 .. top : i \in Good
      BY <1>1, <1>3, <1>4, <2>1, UpTo
    <2> QED BY <2>1, <2>2
  <1> DEFINE c == f[top]
             s == c.order
             m == Len(s)
  <1>6. Sane(c, start) /\ Explored(c, top) /\ Search(start) = c
    BY <1>2, <1>5
  <1> HIDE DEF c
  <1>7. m \in Nat /\ s \in Seq(GraphNodes) /\ \A x \in DOMAIN c.depth : \E i \in 1 .. m : s[i] = x
    BY <1>6, SaneOrder
  <1>8. m <= top
    <2>1. s \in [1 .. m -> GraphNodes] /\ \A i, j \in 1 .. m : s[i] = s[j] => i = j
      BY <1>6, <1>7 DEF Sane
    <2> HIDE DEF s, m
    <2>2. s \in Injection(1 .. m, GraphNodes)
      BY <2>1 DEF Injection, IsInjective
    <2> DEFINE places == 1 .. m
    <2>3. IsFiniteSet(places) /\ Cardinality(places) = m
      <3>1. 1 \in Int /\ m \in Int
        BY <1>7
      <3>2. Cardinality(1 .. m) = IF 1 > m THEN 0 ELSE m - 1 + 1
        BY <3>1, FS_Interval
      <3>3. IsFiniteSet(1 .. m)
        BY <3>1, FS_Interval
      <3> QED BY <1>7, <3>2, <3>3
    <2>4. s \in Injection(places, GraphNodes) /\ IsFiniteSet(GraphNodes)
      BY <2>2, NodesFinite
    <2> HIDE DEF places
    <2>5. Cardinality(places) <= Cardinality(GraphNodes)
      BY <2>4, FS_Injection
    <2> QED BY <2>3, <2>5 DEF top
  <1>9. \/ c.capped = TRUE
        \/ \A x \in DOMAIN c.depth : c.depth[x] < 3 => Open(c, x)
    <2>1. \A j \in 1 .. m : j <= top
      BY <1>1, <1>7, <1>8
    <2> QED BY <1>6, <1>7, <2>1, Zenon DEF Explored, m, s
  <1> QED BY <1>6, <1>9

\* Where every expanded node has its neighbours visited, what is around visited nodes is visited.
LEMMA AroundReached ==
  ASSUME NEW c, NEW ns, NEW d \in 0 .. 2, \A x \in DOMAIN c.depth : c.depth[x] \in 0 .. 3,
         \A x \in DOMAIN c.depth : c.depth[x] < 3 => Open(c, x),
         \A x \in ns : x \in DOMAIN c.depth /\ c.depth[x] <= d
  PROVE  \A x \in Around(ns) : x \in DOMAIN c.depth /\ c.depth[x] <= d + 1
  <1> SUFFICES ASSUME NEW x \in Around(ns) PROVE x \in DOMAIN c.depth /\ c.depth[x] <= d + 1
    OBVIOUS
  <1>1. CASE x \in ns
    BY <1>1
  <1>2. CASE \E l \in DOMAIN since : Fresh(l) /\ (l.from \in ns \/ l.to \in ns) /\ (x = l.from \/ x = l.to)
    <2>1. PICK l \in DOMAIN since : Fresh(l) /\ (l.from \in ns \/ l.to \in ns) /\ (x = l.from \/ x = l.to)
      BY <1>2
    <2>2. PICK n \in ns : n \in {l.from, l.to}
      BY <2>1
    <2>3. n \in DOMAIN c.depth /\ c.depth[n] <= d /\ c.depth[n] \in 0 .. 3
      OBVIOUS
    <2>4. Open(c, n)
      BY <2>3
    <2>5. x \in DOMAIN c.depth /\ c.depth[x] <= c.depth[n] + 1
      BY <2>1, <2>2, <2>4 DEF Open
    <2>6. c.depth[x] \in 0 .. 3
      BY <2>5
    <2> QED BY <2>3, <2>5, <2>6
  <1> QED BY <1>1, <1>2, AroundMember

\* The three-hop neighbourhood over fresh links.
Near(n) == Around(Around(Around({n})))

\* A traversal reaches the neighbourhood, unless a limit cut it off.
LEMMA SearchReaches ==
  ASSUME Listed, NEW start \in GraphNodes
  PROVE  /\ DOMAIN Search(start).depth \subseteq Near(start) \cap GraphNodes
         /\ start \in DOMAIN Search(start).depth
         /\ Search(start).capped = TRUE \/ DOMAIN Search(start).depth = Near(start)
         /\ Search(start).capped \in BOOLEAN /\ Cardinality(Search(start).edges) \in Nat
  <1> DEFINE c == Search(start)
  <1>1. /\ Sane(c, start)
        /\ c.capped = TRUE \/ \A x \in DOMAIN c.depth : c.depth[x] < 3 => Open(c, x)
    BY SearchEnds
  <1> HIDE DEF c
  <1>2. /\ \A x \in DOMAIN c.depth : c.depth[x] \in 0 .. 3 /\ x \in Hop(start, c.depth[x])
        /\ c.depth[start] = 0 /\ c.capped \in BOOLEAN /\ IsFiniteSet(c.edges)
    BY <1>1 DEF Sane
  <1>3. start \in DOMAIN c.depth /\ \A x \in DOMAIN c.depth : x \in GraphNodes
    <2>1. /\ \A i \in 1 .. Len(c.order) : c.order[i] \in DOMAIN c.depth
          /\ \A x \in DOMAIN c.depth : x \in GraphNodes
      BY <1>1, SaneOrder
    <2>2. Len(c.order) \in Nat /\ Len(c.order) >= 1 /\ c.order[1] = start
      BY <1>1, SaneOrder DEF Sane
    <2>3. 1 \in 1 .. Len(c.order)
      BY <2>2
    <2> QED BY <2>1, <2>2, <2>3
  <1>4. \A x \in DOMAIN c.depth : x \in Near(start)
    <2> SUFFICES ASSUME NEW x \in DOMAIN c.depth PROVE x \in Near(start)
      OBVIOUS
    <2>1. x \in Hop(start, 3)
      BY <1>2, HopsGrow
    <2> QED BY <2>1 DEF Hop, Near
  <1>5. ASSUME c.capped # TRUE PROVE \A x \in Near(start) : x \in DOMAIN c.depth
    <2>1. \A x \in DOMAIN c.depth : c.depth[x] < 3 => Open(c, x)
      BY <1>1, <1>5
    <2>2. \A x \in DOMAIN c.depth : c.depth[x] \in 0 .. 3
      BY <1>2
    <2>3. \A x \in {start} : x \in DOMAIN c.depth /\ c.depth[x] <= 0
      BY <1>2, <1>3
    <2> DEFINE n1 == Around({start})
               n2 == Around(n1)
               n3 == Around(n2)
    <2> 0 \in 0 .. 2 /\ 1 \in 0 .. 2 /\ 2 \in 0 .. 2
      OBVIOUS
    <2>4. \A x \in n1 : x \in DOMAIN c.depth /\ c.depth[x] <= 0 + 1
      BY <2>1, <2>2, <2>3, AroundReached, Zenon
    <2>5. \A x \in n1 : x \in DOMAIN c.depth /\ c.depth[x] <= 1
      BY <2>4
    <2> HIDE DEF n1
    <2>6. \A x \in n2 : x \in DOMAIN c.depth /\ c.depth[x] <= 1 + 1
      BY <2>1, <2>2, <2>5, AroundReached, Zenon
    <2>7. \A x \in n2 : x \in DOMAIN c.depth /\ c.depth[x] <= 2
      BY <2>6
    <2> HIDE DEF n2
    <2>8. \A x \in n3 : x \in DOMAIN c.depth /\ c.depth[x] <= 2 + 1
      BY <2>1, <2>2, <2>7, AroundReached, Zenon
    <2> HIDE DEF n3
    <2>9. Near(start) = n3
      BY DEF Near, n1, n2, n3
    <2> QED BY <2>8, <2>9
  <1>6. Cardinality(c.edges) \in Nat
    BY <1>2, FS_CardinalityType
  <1> QED BY <1>2, <1>3, <1>4, <1>5, <1>6 DEF c

\* What an account has in the graph are nodes.
LEMMA NodesOfAccount ==
  ASSUME NEW a \in GraphAccounts
  PROVE  Account(a) \in GraphNodes /\ User(a) \in GraphNodes /\ Card(a) \in GraphNodes
  <1> DEFINE own == {{Account(b), User(b), Card(b)} : b \in GraphAccounts}
  <1>1. {Account(a), User(a), Card(a)} \in own
    OBVIOUS
  <1>2. UNION own \subseteq GraphNodes
    BY Zenon DEF GraphNodes
  <1> HIDE DEF own
  <1> QED BY <1>1, <1>2

\* What a payment is told.
LEMMA EvidenceOf ==
  ASSUME Listed, NEW start \in GraphNodes, start \in DOMAIN known, NEW e, e = Traversal(start)
  PROVE  /\ e = [reached |-> e.reached, edges |-> e.edges, bad |-> e.bad, at |-> e.at, capped |-> e.capped]
         /\ e.reached \subseteq Near(start) \cap GraphNodes /\ start \in e.reached
         /\ e.capped \in BOOLEAN /\ (e.capped = TRUE \/ e.reached = Near(start))
         /\ e.edges \in Nat /\ e.at = hour /\ e.bad = {n \in e.reached \cap DOMAIN known : known[n]}
  <1> DEFINE c == Search(start)
             reached == DOMAIN c.depth
             edges == Cardinality(c.edges)
             capped == c.capped
             bad == {n \in reached \cap DOMAIN known : known[n]}
  <1>1. e = [reached |-> reached, edges |-> edges, at |-> hour, capped |-> capped, bad |-> bad]
    BY DEF Traversal
  <1>2. /\ reached \subseteq Near(start) \cap GraphNodes /\ start \in reached
        /\ capped = TRUE \/ reached = Near(start)
        /\ capped \in BOOLEAN /\ edges \in Nat
    BY SearchReaches
  <1>3. bad = {n \in reached \cap DOMAIN known : known[n]}
    OBVIOUS
  <1> HIDE DEF c, reached, edges, capped, bad
  <1>4. /\ e.reached = reached /\ e.edges = edges /\ e.at = hour /\ e.capped = capped /\ e.bad = bad
        /\ e = [reached |-> e.reached, edges |-> e.edges, bad |-> e.bad, at |-> e.at, capped |-> e.capped]
    BY <1>1
  <1> QED BY <1>2, <1>3, <1>4, Zenon

\* The property of the run about what a traversal reaches.
LEMMA ReachesNeighbourhood ==
  Listed => ReachIsNeighbourhood
  <1> SUFFICES ASSUME Listed, NEW a \in GraphAccounts, Account(a) \in DOMAIN known
               PROVE  /\ Traversal(Account(a)).reached \subseteq Around(Around(Around({Account(a)})))
                      /\ \/ Traversal(Account(a)).capped
                         \/ Traversal(Account(a)).reached = Around(Around(Around({Account(a)})))
    BY DEF ReachIsNeighbourhood
  <1>1. Account(a) \in GraphNodes
    BY NodesOfAccount
  <1> DEFINE e == Traversal(Account(a))
  <1>2. e.reached \subseteq Near(Account(a)) /\ (e.capped = TRUE \/ e.reached = Near(Account(a)))
    BY <1>1, EvidenceOf
  <1> HIDE DEF e
  <1>3. e.reached \subseteq Near(Account(a)) /\ (e.capped \/ e.reached = Near(Account(a)))
    BY <1>2
  <1> QED BY <1>3 DEF Near, e

-----------------------------------------------------------------------------
(* What a payment names, and the links that it adds.                        *)

LEMMA JoinedThree ==
  ASSUME NEW S, NEW r \in Seq(S), NEW s \in Seq(S), NEW t \in Seq(S)
  PROVE  Range(r \o s \o t) = Range(r) \cup Range(s) \cup Range(t)
  <1>1. r \o s \in Seq(S) /\ Range(r \o s) = Range(r) \cup Range(s)
    BY RangeOfJoin
  <1> DEFINE u == r \o s
  <1>2. u \in Seq(S)
    BY <1>1
  <1> HIDE DEF u
  <1>3. Range(u \o t) = Range(u) \cup Range(t)
    BY <1>2, RangeOfJoin
  <1> QED BY <1>1, <1>3 DEF u

\* What a payment names are nodes.
LEMMA NodesOfPayment ==
  ASSUME NEW p \in GraphPayments \cup GraphAccounts, NEW a \in GraphAccounts,
         NEW d \in GraphDevices \cup {NoDevice}
  PROVE  /\ {Transaction(p), User(a), Account(a), Card(a), IP, Merchant} \subseteq GraphNodes
         /\ d # NoDevice => Device(d) \in GraphNodes
  <1>1. {User(a), Account(a), Card(a)} \subseteq GraphNodes
    BY NodesOfAccount
  <1>2. Transaction(p) \in GraphNodes
    <2> DEFINE ts == {Transaction(q) : q \in GraphPayments \cup GraphAccounts}
    <2>1. Transaction(p) \in ts
      OBVIOUS
    <2>2. \A x \in ts : x \in GraphNodes
      BY Zenon DEF GraphNodes
    <2> QED BY <2>1, <2>2
  <1>3. {IP, Merchant} \subseteq GraphNodes
    <2>1. \A x \in {IP, Merchant} : x \in GraphNodes
      BY Zenon DEF GraphNodes
    <2> QED BY <2>1
  <1>4. d # NoDevice => Device(d) \in GraphNodes
    <2> DEFINE ds == {Device(e) : e \in GraphDevices}
    <2>1. d # NoDevice => Device(d) \in ds
      OBVIOUS
    <2>2. \A x \in ds : x \in GraphNodes
      BY Zenon DEF GraphNodes
    <2> QED BY <2>1, <2>2
  <1> QED BY <1>1, <1>2, <1>3, <1>4

\* What a payment names, as a set.
LEMMA EntitiesOf ==
  ASSUME NEW p, NEW a, NEW d
  PROVE  Range(Entities(p, a, d)) = {Transaction(p), User(a), Account(a), Card(a), IP, Merchant}
                                    \cup IF d = NoDevice THEN {} ELSE {Device(d)}
  <1> DEFINE r == <<Transaction(p), User(a), Account(a), Card(a)>>
             s == IF d = NoDevice THEN <<>> ELSE <<Device(d)>>
             t == <<IP, Merchant>>
             S == {Transaction(p), User(a), Account(a), Card(a), IP, Merchant, Device(d)}
  <1>1. r \in Seq(S) /\ s \in Seq(S) /\ t \in Seq(S)
    <2>1. \A x, y, z, w \in S : <<x, y, z, w>> \in Seq(S)
      <3> HIDE DEF S
      <3> QED OBVIOUS
    <2>2. \A x, y \in S : <<x, y>> \in Seq(S) /\ <<x>> \in Seq(S) /\ <<>> \in Seq(S)
      <3> HIDE DEF S
      <3> QED OBVIOUS
    <2>3. {Transaction(p), User(a), Account(a), Card(a), IP, Merchant, Device(d)} \subseteq S
      OBVIOUS
    <2> HIDE DEF S
    <2> QED BY <2>1, <2>2, <2>3
  <1>2. Range(r) = {Transaction(p), User(a), Account(a), Card(a)}
    <2>1. DOMAIN r = {1, 2, 3, 4} /\ r[1] = Transaction(p) /\ r[2] = User(a) /\ r[3] = Account(a) /\ r[4] = Card(a)
      OBVIOUS
    <2> HIDE DEF r
    <2> QED BY <2>1 DEF Range
  <1>3. Range(t) = {IP, Merchant}
    <2>1. DOMAIN t = {1, 2} /\ t[1] = IP /\ t[2] = Merchant
      OBVIOUS
    <2> HIDE DEF t
    <2> QED BY <2>1 DEF Range
  <1>4. Range(s) = IF d = NoDevice THEN {} ELSE {Device(d)}
    <2>1. IF d = NoDevice THEN DOMAIN s = {} ELSE DOMAIN s = {1} /\ s[1] = Device(d)
      OBVIOUS
    <2> HIDE DEF s
    <2> QED BY <2>1 DEF Range
  <1>5. Entities(p, a, d) = r \o s \o t
    BY DEF Entities
  <1> HIDE DEF r, s, t, S
  <1>6. Range(r \o s \o t) = Range(r) \cup Range(s) \cup Range(t)
    BY <1>1, JoinedThree
  <1> QED BY <1>2, <1>3, <1>4, <1>5, <1>6

\* Short sequences, one after another.
LEMMA JoinTwoThree ==
  ASSUME NEW a, NEW b, NEW c, NEW d, NEW e
  PROVE <<a, b>> \o <<c, d, e>> = <<a, b, c, d, e>>
  <1> DEFINE u == <<a, b>> \o <<c, d, e>>
             S == {a, b, c, d, e}
  <1>1. \A x, y, z \in S : <<x, y>> \in Seq(S) /\ <<x, y, z>> \in Seq(S)
    <2> HIDE DEF S
    <2> QED OBVIOUS
  <1>2. u \in Seq(S)
    <2>1. <<a, b>> \in Seq(S) /\ <<c, d, e>> \in Seq(S)
      BY <1>1
    <2> HIDE DEF S
    <2> QED BY <2>1
  <1>3. Len(u) = 5 /\ u[1] = a /\ u[2] = b /\ u[3] = c /\ u[4] = d /\ u[5] = e
    OBVIOUS
  <1> HIDE DEF u, S
  <1>4. u = <<u[1], u[2], u[3], u[4], u[5]>>
    BY <1>2, <1>3
  <1> QED BY <1>3, <1>4 DEF u

LEMMA JoinTwoTwo ==
  ASSUME NEW a, NEW b, NEW c, NEW d
  PROVE <<a, b>> \o <<c, d>> = <<a, b, c, d>>
  <1> DEFINE u == <<a, b>> \o <<c, d>>
             S == {a, b, c, d}
  <1>1. \A x, y \in S : <<x, y>> \in Seq(S)
    <2> HIDE DEF S
    <2> QED OBVIOUS
  <1>2. u \in Seq(S)
    <2>1. <<a, b>> \in Seq(S) /\ <<c, d>> \in Seq(S)
      BY <1>1
    <2> HIDE DEF S
    <2> QED BY <2>1
  <1>3. Len(u) = 4 /\ u[1] = a /\ u[2] = b /\ u[3] = c /\ u[4] = d
    OBVIOUS
  <1> HIDE DEF u, S
  <1>4. u = <<u[1], u[2], u[3], u[4]>>
    BY <1>2, <1>3
  <1> QED BY <1>3, <1>4 DEF u

LEMMA JoinFourThree ==
  ASSUME NEW a, NEW b, NEW c, NEW d, NEW e, NEW f, NEW g
  PROVE <<a, b, c, d>> \o <<e, f, g>> = <<a, b, c, d, e, f, g>>
  <1> DEFINE u == <<a, b, c, d>> \o <<e, f, g>>
             S == {a, b, c, d, e, f, g}
  <1>1. \A x, y, z, w \in S : <<x, y, z, w>> \in Seq(S) /\ <<x, y, z>> \in Seq(S)
    <2> HIDE DEF S
    <2> QED OBVIOUS
  <1>2. u \in Seq(S)
    <2>1. <<a, b, c, d>> \in Seq(S) /\ <<e, f, g>> \in Seq(S)
      BY <1>1
    <2> HIDE DEF S
    <2> QED BY <2>1
  <1>3. /\ Len(u) = 7 /\ u[1] = a /\ u[2] = b /\ u[3] = c /\ u[4] = d
        /\ u[5] = e /\ u[6] = f /\ u[7] = g
    OBVIOUS
  <1> HIDE DEF u, S
  <1>4. u = <<u[1], u[2], u[3], u[4], u[5], u[6], u[7]>>
    BY <1>2, <1>3
  <1> QED BY <1>3, <1>4 DEF u

\* The links in the order in which they are added, with and without a device.
LEMMA RelationsListed ==
  ASSUME NEW p, NEW a, NEW d
  PROVE  /\ d = NoDevice =>
              Relations(p, a, d) = <<Link(User(a), Account(a)), Link(Account(a), Card(a)), Link(User(a), IP),
                                     Link(Transaction(p), Merchant), Link(Account(a), Transaction(p))>>
         /\ d # NoDevice =>
              Relations(p, a, d) = <<Link(User(a), Account(a)), Link(Account(a), Card(a)),
                                     Link(User(a), Device(d)), Link(Account(a), Device(d)), Link(User(a), IP),
                                     Link(Transaction(p), Merchant), Link(Account(a), Transaction(p))>>
  <1> DEFINE l1 == Link(User(a), Account(a))
             l2 == Link(Account(a), Card(a))
             l3 == Link(User(a), Device(d))
             l4 == Link(Account(a), Device(d))
             l5 == Link(User(a), IP)
             l6 == Link(Transaction(p), Merchant)
             l7 == Link(Account(a), Transaction(p))
  <1>1. Relations(p, a, d) = <<l1, l2>> \o (IF d = NoDevice THEN <<>> ELSE <<l3, l4>>) \o <<l5, l6, l7>>
    BY DEF Relations
  <1> HIDE DEF l1, l2, l3, l4, l5, l6, l7
  <1>2. <<l1, l2>> \o <<>> \o <<l5, l6, l7>> = <<l1, l2, l5, l6, l7>>
    <2>1. <<l1, l2>> \o <<>> = <<l1, l2>>
      OBVIOUS
    <2>2. <<l1, l2>> \o <<l5, l6, l7>> = <<l1, l2, l5, l6, l7>>
      BY JoinTwoThree
    <2> QED BY <2>1, <2>2
  <1>3. <<l1, l2>> \o <<l3, l4>> \o <<l5, l6, l7>> = <<l1, l2, l3, l4, l5, l6, l7>>
    <2>1. <<l1, l2>> \o <<l3, l4>> = <<l1, l2, l3, l4>>
      BY JoinTwoTwo
    <2>2. <<l1, l2, l3, l4>> \o <<l5, l6, l7>> = <<l1, l2, l3, l4, l5, l6, l7>>
      BY JoinFourThree
    <2> QED BY <2>1, <2>2
  <1>4. d = NoDevice => Relations(p, a, d) = <<l1, l2, l5, l6, l7>>
    BY <1>1, <1>2
  <1>5. d # NoDevice => Relations(p, a, d) = <<l1, l2, l3, l4, l5, l6, l7>>
    BY <1>1, <1>3
  <1> QED BY <1>4, <1>5 DEF l1, l2, l3, l4, l5, l6, l7

\* Nodes of different kinds, or of different identifiers, are different.
LEMMA NodesDiffer ==
  ASSUME NEW a, NEW b
  PROVE  /\ Account(a) # User(b) /\ Account(a) # Card(b) /\ Account(a) # Device(b) /\ Account(a) # Transaction(b)
         /\ Account(a) # IP /\ Account(a) # Merchant /\ Device(a) # Card(b) /\ Device(a) # Transaction(b)
         /\ Device(a) # IP /\ Device(a) # Merchant /\ Device(a) # User(b)
         /\ (Account(a) = Account(b) => a = b) /\ (Device(a) = Device(b) => a = b)
  BY DEF Account, User, Card, Device, Transaction, IP, Merchant

\* A link has the ends that it is made of, and no others.
LEMMA LinkEnds ==
  ASSUME NEW x, NEW y, NEW l, l = Link(x, y)
  PROVE  /\ l.from = x /\ l.to = y /\ (x \in GraphNodes /\ y \in GraphNodes => l \in GraphLinks)
         /\ \A u, v : l = Link(u, v) => u = x /\ v = y
  <1>1. l = [from |-> x, to |-> y]
    BY DEF Link
  <1>2. l.from = x /\ l.to = y
    BY <1>1
  <1>3. \A u, v : l = Link(u, v) => u = x /\ v = y
    <2> SUFFICES ASSUME NEW u, NEW v, l = Link(u, v) PROVE u = x /\ v = y
      OBVIOUS
    <2>1. l.from = u /\ l.to = v
      BY DEF Link
    <2> QED BY <1>2, <2>1
  <1>4. x \in GraphNodes /\ y \in GraphNodes => l \in GraphLinks
    BY <1>1 DEF GraphLinks
  <1> QED BY <1>2, <1>3, <1>4

\* The links of a payment are between what it names, and one of them is of its account and its device.
RelationsFit(p, a, d) ==
  LET r == Relations(p, a, d)
  IN /\ Len(r) = (IF d = NoDevice THEN 5 ELSE 7) /\ DOMAIN r = 1 .. Len(r)
     /\ \A i \in 1 .. Len(r) : /\ r[i] \in GraphLinks
                               /\ {r[i].from, r[i].to} \subseteq Range(Entities(p, a, d))
                               /\ \A b, e : r[i] = Link(Account(b), Device(e)) => b = a /\ e = d
     /\ d # NoDevice => r[4] = Link(Account(a), Device(d))

\* So it is with the links of every payment.
LEMMA RelationsFacts ==
  ASSUME NEW p \in GraphPayments \cup GraphAccounts, NEW a \in GraphAccounts,
         NEW d \in GraphDevices \cup {NoDevice}
  PROVE  RelationsFit(p, a, d) /\ Range(Entities(p, a, d)) \subseteq GraphNodes
  <1> DEFINE e == Range(Entities(p, a, d))
             Suits(l) == /\ l \in GraphLinks /\ {l.from, l.to} \subseteq e
                        /\ \A b, c : l = Link(Account(b), Device(c)) => b = a /\ c = d
             r == Relations(p, a, d)
  <1>1. /\ {Transaction(p), User(a), Account(a), Card(a), IP, Merchant} \subseteq e
        /\ d # NoDevice => Device(d) \in e
        /\ e \subseteq GraphNodes
    BY EntitiesOf, NodesOfPayment
  <1> HIDE DEF e
  <1>2. ASSUME NEW x \in e, NEW y \in e,
               \A b, c : x = Account(b) /\ y = Device(c) => b = a /\ c = d
        PROVE  Suits(Link(x, y))
    <2> DEFINE l == Link(x, y)
    <2>1. l.from = x /\ l.to = y /\ l \in GraphLinks /\ \A u, v : l = Link(u, v) => u = x /\ v = y
      <3>1. x \in GraphNodes /\ y \in GraphNodes
        BY <1>1
      <3> QED BY <3>1, LinkEnds
    <2> HIDE DEF l
    <2>2. \A b, c : l = Link(Account(b), Device(c)) => b = a /\ c = d
      <3> SUFFICES ASSUME NEW b, NEW c, l = Link(Account(b), Device(c)) PROVE b = a /\ c = d
        OBVIOUS
      <3>1. Account(b) = x /\ Device(c) = y
        BY <2>1
      <3> QED BY <1>2, <3>1
    <2> QED BY <2>1, <2>2 DEF l
  <1>3. /\ Suits(Link(User(a), Account(a))) /\ Suits(Link(Account(a), Card(a))) /\ Suits(Link(User(a), IP))
        /\ Suits(Link(Transaction(p), Merchant)) /\ Suits(Link(Account(a), Transaction(p)))
    <2> HIDE DEF Suits
    <2>1. /\ \A b, c : ~(User(a) = Account(b)) /\ ~(Card(a) = Device(c))
          /\ \A b, c : ~(Transaction(p) = Device(c)) /\ ~(IP = Device(c)) /\ ~(Merchant = Device(c))
      BY NodesDiffer
    <2> QED BY <1>1, <1>2, <2>1
  <1>4. d # NoDevice => Suits(Link(User(a), Device(d))) /\ Suits(Link(Account(a), Device(d)))
    <2> HIDE DEF Suits
    <2>1. /\ \A b : ~(User(a) = Account(b))
          /\ \A b, c : Account(a) = Account(b) /\ Device(d) = Device(c) => b = a /\ c = d
      BY NodesDiffer
    <2> QED BY <1>1, <1>2, <2>1
  <1> HIDE DEF Suits
  <1>5. CASE d = NoDevice
    <2> DEFINE l1 == Link(User(a), Account(a))
               l2 == Link(Account(a), Card(a))
               l5 == Link(User(a), IP)
               l6 == Link(Transaction(p), Merchant)
               l7 == Link(Account(a), Transaction(p))
    <2>1. r = <<l1, l2, l5, l6, l7>>
      BY <1>5, RelationsListed
    <2>2. Suits(l1) /\ Suits(l2) /\ Suits(l5) /\ Suits(l6) /\ Suits(l7)
      BY <1>3
    <2> HIDE DEF r, l1, l2, l5, l6, l7
    <2>3. /\ Len(r) = 5 /\ DOMAIN r = 1 .. 5
          /\ r[1] = l1 /\ r[2] = l2 /\ r[3] = l5 /\ r[4] = l6 /\ r[5] = l7
      BY <2>1
    <2>4. \A i \in 1 .. 5 : i = 1 \/ i = 2 \/ i = 3 \/ i = 4 \/ i = 5
      OBVIOUS
    <2>5. \A i \in 1 .. Len(r) : Suits(r[i])
      BY <2>2, <2>3, <2>4, Zenon
    <2> QED BY <1>1, <1>5, <2>3, <2>5, Zenon DEF RelationsFit, r, Suits, e
  <1>6. CASE d # NoDevice
    <2> DEFINE l1 == Link(User(a), Account(a))
               l2 == Link(Account(a), Card(a))
               l3 == Link(User(a), Device(d))
               l4 == Link(Account(a), Device(d))
               l5 == Link(User(a), IP)
               l6 == Link(Transaction(p), Merchant)
               l7 == Link(Account(a), Transaction(p))
    <2>1. r = <<l1, l2, l3, l4, l5, l6, l7>>
      BY <1>6, RelationsListed
    <2>2. Suits(l1) /\ Suits(l2) /\ Suits(l3) /\ Suits(l4) /\ Suits(l5) /\ Suits(l6) /\ Suits(l7)
      BY <1>3, <1>4, <1>6
    <2> HIDE DEF r, l1, l2, l3, l4, l5, l6, l7
    <2>3. /\ Len(r) = 7 /\ DOMAIN r = 1 .. 7 /\ r[1] = l1 /\ r[2] = l2 /\ r[3] = l3 /\ r[4] = l4
          /\ r[5] = l5 /\ r[6] = l6 /\ r[7] = l7
      BY <2>1
    <2>4. \A i \in 1 .. 7 : i = 1 \/ i = 2 \/ i = 3 \/ i = 4 \/ i = 5 \/ i = 6 \/ i = 7
      OBVIOUS
    <2>5. \A i \in 1 .. Len(r) : Suits(r[i])
      BY <2>2, <2>3, <2>4, Zenon
    <2> QED BY <1>1, <1>6, <2>3, <2>5, Zenon DEF RelationsFit, r, Suits, e, l4
  <1> QED BY <1>5, <1>6

-----------------------------------------------------------------------------
(* The drawing, and the charge.                                             *)

\* A node is joined to some if it is one of them or has a link with one.
LEMMA JoiningMember ==
  ASSUME NEW ns, NEW ls, NEW x
  PROVE  x \in Joining(ns, ls) <=> \/ x \in ns
                                   \/ \E l \in ls : (l.from \in ns \/ l.to \in ns) /\ (x = l.from \/ x = l.to)
  <1> DEFINE touching == {k \in ls : {k.from, k.to} \cap ns # {}}
  <1>1. \A l \in ls : l \in touching <=> l.from \in ns \/ l.to \in ns
    OBVIOUS
  <1>2. Joining(ns, ls) = ns \cup UNION {{l.from, l.to} : l \in touching}
    BY Zenon DEF Joining
  <1>3. touching \subseteq ls
    OBVIOUS
  <1> HIDE DEF touching
  <1>4. x \in Joining(ns, ls) <=> x \in ns \/ \E l \in touching : x = l.from \/ x = l.to
    BY <1>2
  <1> QED BY <1>1, <1>3, <1>4, Zenon

LEMMA JoiningGrows ==
  ASSUME NEW ns, NEW ms, NEW ls, NEW ks, ns \subseteq ms, ls \subseteq ks
  PROVE  Joining(ns, ls) \subseteq Joining(ms, ks)
  <1> SUFFICES ASSUME NEW x \in Joining(ns, ls) PROVE x \in Joining(ms, ks)
    OBVIOUS
  <1>1. \/ x \in ns
        \/ \E l \in ls : (l.from \in ns \/ l.to \in ns) /\ (x = l.from \/ x = l.to)
    BY JoiningMember
  <1>2. \/ x \in ms
        \/ \E l \in ks : (l.from \in ms \/ l.to \in ms) /\ (x = l.from \/ x = l.to)
    BY <1>1
  <1> QED BY <1>2, JoiningMember

\* What is within three links of a node, fresh or not.
Wide(n, ls) == Joining(Joining(Joining({n}, ls), ls), ls)

\* More links lead to no fewer nodes.
LEMMA WideGrows ==
  ASSUME NEW n, NEW ls, NEW ks, ls \subseteq ks
  PROVE  Wide(n, ls) \subseteq Wide(n, ks)
  <1>1. Joining({n}, ls) \subseteq Joining({n}, ks)
    BY JoiningGrows
  <1>2. Joining(Joining({n}, ls), ls) \subseteq Joining(Joining({n}, ks), ks)
    BY <1>1, JoiningGrows
  <1>3. Joining(Joining(Joining({n}, ls), ls), ls) \subseteq Joining(Joining(Joining({n}, ks), ks), ks)
    BY <1>2, JoiningGrows
  <1> QED BY <1>3 DEF Wide

\* What is near over fresh links is within three links.
LEMMA NearIsWide ==
  ASSUME NEW n
  PROVE  Near(n) \subseteq Wide(n, DOMAIN since)
  <1>1. ASSUME NEW ns, NEW ms, ns \subseteq ms PROVE Around(ns) \subseteq Joining(ms, DOMAIN since)
    <2> SUFFICES ASSUME NEW x \in Around(ns) PROVE x \in Joining(ms, DOMAIN since)
      OBVIOUS
    <2>1. \/ x \in ns
          \/ \E l \in DOMAIN since : /\ Fresh(l) /\ (l.from \in ns \/ l.to \in ns)
                                     /\ (x = l.from \/ x = l.to)
      BY AroundMember
    <2>2. \/ x \in ms
          \/ \E l \in DOMAIN since : (l.from \in ms \/ l.to \in ms) /\ (x = l.from \/ x = l.to)
      BY <1>1, <2>1
    <2> QED BY <2>2, JoiningMember
  <1> DEFINE ls == DOMAIN since
  <1>2. Around({n}) \subseteq Joining({n}, ls)
    BY <1>1
  <1>3. Around(Around({n})) \subseteq Joining(Joining({n}, ls), ls)
    BY <1>1, <1>2
  <1>4. Around(Around(Around({n}))) \subseteq Joining(Joining(Joining({n}, ls), ls), ls)
    BY <1>1, <1>3
  <1> QED BY <1>4 DEF Near, Wide

\* The third ring of a drawing is what is within three links.
LEMMA ThirdRing ==
  ASSUME NEW d
  PROVE  Ring(d, 3) = Wide(d.root, d.links)
  <1> DEFINE r0 == {d.root}
             r1 == Joining(r0, d.links)
             r2 == Joining(r1, d.links)
             r3 == Joining(r2, d.links)
             Made(f) == f = [i \in 0 .. 3 |-> IF i = 0 THEN {d.root} ELSE Joining(f[i - 1], d.links)]
             g == [i \in 0 .. 3 |-> IF i = 0 THEN r0 ELSE IF i = 1 THEN r1 ELSE IF i = 2 THEN r2 ELSE r3]
             f == CHOOSE f : Made(f)
  <1>1. Ring(d, 3) = f[3]
    BY DEF Ring
  <1>2. Made(g)
    <2>1. \A i \in 0 .. 3 : i = 0 \/ i = 1 \/ i = 2 \/ i = 3
      OBVIOUS
    <2>2. g[0] = r0 /\ g[1] = r1 /\ g[2] = r2 /\ g[3] = r3
      <3> HIDE DEF r0, r1, r2, r3
      <3> QED OBVIOUS
    <2>3. g[1] = Joining(g[0], d.links) /\ g[2] = Joining(g[1], d.links) /\ g[3] = Joining(g[2], d.links)
      <3> HIDE DEF g
      <3> QED BY <2>2
    <2>4. g = [i \in 0 .. 3 |-> g[i]]
      <3> HIDE DEF r0, r1, r2, r3
      <3> QED OBVIOUS
    <2> HIDE DEF g, r1, r2, r3
    <2>5. \A i \in 0 .. 3 : g[i] = IF i = 0 THEN {d.root} ELSE Joining(g[i - 1], d.links)
      <3>1. 1 - 1 = 0 /\ 2 - 1 = 1 /\ 3 - 1 = 2
        OBVIOUS
      <3>2. g[1] = Joining(g[1 - 1], d.links) /\ g[2] = Joining(g[2 - 1], d.links)
            /\ g[3] = Joining(g[3 - 1], d.links)
        BY <2>3, <3>1
      <3>3. g[0] = {d.root}
        BY <2>2
      <3> QED BY <2>1, <3>2, <3>3
    <2> QED BY <2>4, <2>5
  <1>3. Made(f)
    <2> HIDE DEF Made, g
    <2> QED BY <1>2
  <1> HIDE DEF f
  <1>4. \A i \in 0 .. 3 : f[i] = IF i = 0 THEN {d.root} ELSE Joining(f[i - 1], d.links)
    BY <1>3
  <1>5. /\ 0 \in 0 .. 3 /\ 1 \in 0 .. 3 /\ 2 \in 0 .. 3 /\ 3 \in 0 .. 3
        /\ 1 - 1 = 0 /\ 2 - 1 = 1 /\ 3 - 1 = 2 /\ 1 # 0 /\ 2 # 0 /\ 3 # 0
    OBVIOUS
  <1> HIDE DEF Made
  <1>6. f[0] = r0 /\ f[1] = Joining(f[0], d.links) /\ f[2] = Joining(f[1], d.links) /\ f[3] = Joining(f[2], d.links)
    <2>1. f[0] = {d.root}
      BY <1>4, <1>5
    <2>2. f[1] = Joining(f[1 - 1], d.links)
      BY <1>4, <1>5
    <2>3. f[2] = Joining(f[2 - 1], d.links)
      BY <1>4, <1>5
    <2>4. f[3] = Joining(f[3 - 1], d.links)
      BY <1>4, <1>5
    <2> QED BY <1>5, <2>1, <2>2, <2>3, <2>4
  <1> QED BY <1>1, <1>6 DEF Wide

\* More of everything never charges less.
LEMMA RiskGrows ==
  ASSUME NEW a \in Nat, NEW d \in Nat, NEW e \in Nat, NEW b \in Nat,
         NEW n \in Nat, NEW k \in {0, 8}, NEW c \in Nat
  PROVE  GraphRisk(a, d, e, b) <= GraphRisk(a + n, d, e + k, b + c)
  <1> DEFINE Top(R) == CHOOSE r \in R \cup {0} : \A s \in R : s <= r
             Degree(i, m) == 2 * i + 2 * d + m \div 4
             Why(i, m, j) == (IF j > 0 THEN {85} ELSE {}) \cup (IF j >= 3 THEN {90} ELSE {})
                             \cup (IF i >= 3 THEN {40 + 4 * i} ELSE {})
                             \cup (IF Degree(i, m) >= 6 /\ i >= 2 THEN {55} ELSE {})
             Capped(x) == IF x > 95 THEN 95 ELSE x
  <1>1. \A i, m, j : GraphRisk(i, d, m, j) = Capped(Top(Why(i, m, j)))
    BY ZenonT(60) DEF GraphRisk
  <1>2. ASSUME NEW i \in Nat, NEW m \in Nat, NEW j \in Nat
        PROVE  /\ \E r \in Why(i, m, j) \cup {0} : \A s \in Why(i, m, j) : s <= r
               /\ Why(i, m, j) \subseteq Nat
    <2> DEFINE p1 == j > 0
               p2 == j >= 3
               p3 == i >= 3
               p4 == Degree(i, m) >= 6 /\ i >= 2
               v == 40 + 4 * i
    <2>1. v \in Nat
      OBVIOUS
    <2> HIDE DEF p1, p2, p3, p4, v
    <2>2. Why(i, m, j) = (IF p1 THEN {85} ELSE {}) \cup (IF p2 THEN {90} ELSE {})
                         \cup (IF p3 THEN {v} ELSE {}) \cup (IF p4 THEN {55} ELSE {})
      BY DEF p1, p2, p3, p4, v
    <2> HIDE DEF Why
    <2> QED BY <2>1, <2>2
  <1>3. ASSUME NEW R \in SUBSET Nat, \E r \in R \cup {0} : \A s \in R : s <= r
        PROVE  Top(R) \in R \cup {0} /\ \A s \in R : s <= Top(R)
    BY <1>3
  <1> DEFINE R1 == Why(a, e, b)
             R2 == Why(a + n, e + k, b + c)
  <1>4. R1 \in SUBSET Nat /\ Top(R1) \in R1 \cup {0} /\ \A s \in R1 : s <= Top(R1)
    <2>1. R1 \in SUBSET Nat /\ \E r \in R1 \cup {0} : \A s \in R1 : s <= r
      <3> HIDE DEF Why
      <3> QED BY <1>2
    <2> HIDE DEF R1, Top
    <2> QED BY <1>3, <2>1
  <1>5. R2 \in SUBSET Nat /\ Top(R2) \in R2 \cup {0} /\ \A s \in R2 : s <= Top(R2)
    <2>1. a + n \in Nat /\ e + k \in Nat /\ b + c \in Nat
      OBVIOUS
    <2>2. R2 \in SUBSET Nat /\ \E r \in R2 \cup {0} : \A s \in R2 : s <= r
      <3> DEFINE i == a + n
                 m == e + k
                 j == b + c
      <3>1. i \in Nat /\ m \in Nat /\ j \in Nat
        BY <2>1
      <3> HIDE DEF i, m, j, Why
      <3> QED BY <1>2, <3>1 DEF i, m, j
    <2> HIDE DEF R2, Top
    <2> QED BY <1>3, <2>2
  <1>6. \A r \in R1 : \E s \in R2 : r <= s
    <2>1. /\ b > 0 => b + c > 0
          /\ b >= 3 => b + c >= 3
          /\ a >= 3 => a + n >= 3 /\ 40 + 4 * a <= 40 + 4 * (a + n)
      OBVIOUS
    <2>2. Degree(a, e) <= Degree(a + n, e + k)
      <3>1. e \div 4 <= (e + k) \div 4 /\ e \div 4 \in Nat /\ (e + k) \div 4 \in Nat
        <4>1. e \div 4 \in Nat /\ (e + 8) \div 4 = e \div 4 + 2
          OBVIOUS
        <4>2. e + 0 = e
          OBVIOUS
        <4> QED BY <4>1, <4>2
      <3> DEFINE x == e \div 4
                 y == (e + k) \div 4
      <3>2. x <= y /\ x \in Nat /\ y \in Nat
        BY <3>1
      <3> HIDE DEF x, y
      <3>3. 2 * a + 2 * d + x <= 2 * (a + n) + 2 * d + y
        BY <3>2
      <3> QED BY <3>3 DEF x, y
    <2>3. Degree(a, e) >= 6 /\ a >= 2 => Degree(a + n, e + k) >= 6 /\ a + n >= 2
      <3>1. e \div 4 \in Nat /\ (e + k) \div 4 \in Nat
        OBVIOUS
      <3> DEFINE x == Degree(a, e)
                 y == Degree(a + n, e + k)
      <3>2. x \in Nat /\ y \in Nat /\ x <= y
        BY <2>2, <3>1
      <3> HIDE DEF x, y
      <3>3. x >= 6 /\ a >= 2 => y >= 6 /\ a + n >= 2
        BY <3>2
      <3> QED BY <3>3 DEF x, y
    <2> DEFINE v == 40 + 4 * a
               w == 40 + 4 * (a + n)
               p1 == b > 0
               p2 == b >= 3
               p3 == a >= 3
               p4 == Degree(a, e) >= 6 /\ a >= 2
               q1 == b + c > 0
               q2 == b + c >= 3
               q3 == a + n >= 3
               q4 == Degree(a + n, e + k) >= 6 /\ a + n >= 2
    <2>4. R1 = (IF p1 THEN {85} ELSE {}) \cup (IF p2 THEN {90} ELSE {})
               \cup (IF p3 THEN {v} ELSE {}) \cup (IF p4 THEN {55} ELSE {})
      OBVIOUS
    <2>5. R2 = (IF q1 THEN {85} ELSE {}) \cup (IF q2 THEN {90} ELSE {})
               \cup (IF q3 THEN {w} ELSE {}) \cup (IF q4 THEN {55} ELSE {})
      OBVIOUS
    <2>6. (p1 => q1) /\ (p2 => q2) /\ (p3 => q3 /\ v <= w) /\ (p4 => q4)
      BY <2>1, <2>3
    <2> HIDE DEF p1, p2, p3, p4, q1, q2, q3, q4, v, w, R1, R2
    <2>7. \A r \in R1 : (p1 /\ r = 85) \/ (p2 /\ r = 90) \/ (p3 /\ r = v) \/ (p4 /\ r = 55)
      BY <2>4
    <2>8. (q1 => 85 \in R2) /\ (q2 => 90 \in R2) /\ (q3 => w \in R2) /\ (q4 => 55 \in R2)
      BY <2>5
    <2>9. 85 <= 85 /\ 90 <= 90 /\ 55 <= 55
      OBVIOUS
    <2> QED BY <2>6, <2>7, <2>8, <2>9
  <1>7. Top(R1) \in Nat /\ Top(R2) \in Nat /\ Top(R1) <= Top(R2)
    <2> DEFINE x == Top(R1)
               y == Top(R2)
    <2>1. R1 \in SUBSET Nat /\ x \in R1 \cup {0}
      BY <1>4
    <2>2. R2 \in SUBSET Nat /\ y \in R2 \cup {0} /\ \A s \in R2 : s <= y
      BY <1>5
    <2> HIDE DEF x, y, R1, R2
    <2>3. x \in Nat /\ y \in Nat
      BY <2>1, <2>2
    <2>4. CASE x \in R1
      <3>1. PICK s \in R2 : x <= s
        BY <1>6, <2>4
      <3>2. s \in Nat /\ s <= y
        BY <2>2
      <3> QED BY <2>3, <3>1, <3>2 DEF x, y
    <2>5. CASE x = 0
      <3>1. x <= y
        BY <2>3, <2>5
      <3> QED BY <2>3, <3>1 DEF x, y
    <2> QED BY <2>1, <2>4, <2>5
  <1>8. Capped(Top(R1)) <= Capped(Top(R2))
    <2> DEFINE x == Top(R1)
               y == Top(R2)
    <2>1. x \in Nat /\ y \in Nat /\ x <= y
      BY <1>7
    <2> HIDE DEF x, y
    <2>2. Capped(x) <= Capped(y)
      BY <2>1
    <2> QED BY <2>2 DEF x, y
  <1> HIDE DEF Capped, Top, Why
  <1> QED BY <1>1, <1>8

-----------------------------------------------------------------------------
(* What holds in every state of the graph.                                  *)

\* The types, and the two lists of links in which each link is.
GraphEvidence ==
  [reached : SUBSET GraphNodes, edges : Nat, bad : SUBSET GraphNodes, at : 0 .. MaxGraphHour, capped : BOOLEAN]
GraphPayment ==
  [pc : {"arrived", "adding", "added", "evaluated"}, account : GraphAccounts,
   device : GraphDevices \cup {NoDevice}, linksDone : 0 .. 7, began : 0 .. MaxGraphHour,
   evidence : GraphEvidence]

GraphTyped ==
  /\ payment \in [GraphPayments -> GraphPayment]
  /\ DOMAIN known \subseteq GraphNodes /\ \A n \in DOMAIN known : known[n] \in BOOLEAN
  /\ Listed
  /\ hour \in 0 .. MaxGraphHour
  /\ \A l \in DOMAIN since : since[l] \in Nat /\ since[l] <= hour
  /\ \A p \in GraphPayments : payment[p].began <= hour
  /\ drawing = [pc |-> drawing.pc, root |-> drawing.root, nodes |-> drawing.nodes, links |-> drawing.links,
                added |-> drawing.added, evaluated |-> drawing.evaluated]
  /\ drawing.pc \in {"none", "nodes", "drawn"} /\ drawing.root \in GraphNodes
  /\ DOMAIN drawing.nodes \subseteq DOMAIN known /\ drawing.links \subseteq DOMAIN since
  /\ drawing.evaluated \subseteq drawing.added /\ drawing.added \subseteq GraphPayments

RelationsLeft(p) == Len(Relations(p, payment[p].account, payment[p].device)) - payment[p].linksDone

\* A payment adds its links one by one, and is looked at with the last.
Ingesting ==
  \A p \in GraphPayments :
    /\ payment[p].pc = "arrived" => payment[p].linksDone = 0
    /\ payment[p].pc = "adding" => RelationsLeft(p) > 0
    /\ payment[p].pc \in {"added", "evaluated"} => RelationsLeft(p) = 0
    /\ payment[p].pc # "evaluated" => payment[p].evidence = NoEvidence

\* What a payment under way names is known, and known for nothing bad.
NamedClean ==
  \A p \in GraphPayments : payment[p].pc # "arrived" =>
    \A n \in Names(p) : n \in DOMAIN known /\ known[n] = FALSE

EndsKnown == \A l \in DOMAIN since : l.from \in DOMAIN known /\ l.to \in DOMAIN known

\* The link of its account and its device is as old as a payment of the two.
Dated ==
  \A p \in GraphPayments :
    LET l == Link(Account(payment[p].account), Device(payment[p].device))
    IN payment[p].device # NoDevice /\ payment[p].linksDone >= 4 =>
         /\ l \in DOMAIN since
         /\ \E r \in GraphPayments :
              /\ payment[r].pc # "arrived" /\ payment[r].account = payment[p].account
              /\ payment[r].device = payment[p].device /\ since[l] = payment[r].began

\* What a payment is charged with is still in the graph, and still bad unless another named it.
EvidenceStands ==
  \A p \in GraphPayments : payment[p].pc = "evaluated" =>
    LET e == payment[p].evidence
    IN /\ e.reached \subseteq Wide(Account(payment[p].account), DOMAIN since) /\ e.reached \subseteq DOMAIN known
       /\ e.bad \subseteq e.reached /\ \A n \in Names(p) : n \notin e.bad
       /\ \A n \in e.bad : \/ known[n] = TRUE
                           \/ \E q \in GraphPayments \ {p} : payment[q].pc # "arrived" /\ n \in Names(q)

\* The nodes that a drawing missed are of payments that arrived after it.
DrawingMissed ==
  /\ drawing.pc = "nodes" =>
       \A n \in DOMAIN known \ DOMAIN drawing.nodes :
         \E p \in GraphPayments \ drawing.added : n \in Names(p)
  /\ drawing.pc = "drawn" =>
       \A l \in drawing.links : \A n \in {l.from, l.to} \ DOMAIN drawing.nodes :
         \E p \in GraphPayments \ drawing.added : n \in Names(p)

\* What a drawing has of the payments that were evaluated before it.
DrawingHas ==
  /\ \A p \in drawing.added : payment[p].pc # "arrived"
  /\ \A p \in drawing.evaluated :
       LET e == payment[p].evidence
       IN /\ payment[p].pc = "evaluated" /\ e.reached \subseteq DOMAIN drawing.nodes
          /\ \A n \in e.bad : drawing.nodes[n] = TRUE \/ \E q \in drawing.added \ {p} : n \in Names(q)
          /\ drawing.pc = "drawn" =>
               e.reached \subseteq Wide(Account(payment[p].account), drawing.links)

(* The inductive invariant of the graph.                                    *)
GraphIInv ==
  /\ GraphTyped /\ Ingesting /\ NamedClean /\ EndsKnown /\ Dated /\ EvidenceStands
  /\ DrawingMissed /\ DrawingHas /\ OneSeesOther

\* A list of the members of a finite set.
LEMMA SetListed ==
  ASSUME NEW S, IsFiniteSet(S)
  PROVE  SetToSeq(S) \in Seq(S)
  <1> DEFINE n == Cardinality(S)
  <1>1. n \in Nat /\ ExistsBijection(1 .. n, S)
    BY FS_CardinalityType
  <1>2. \E g \in [1 .. n -> S] : IsInjective(g)
    BY <1>1 DEF ExistsBijection, Bijection, Injection
  <1>3. SetToSeq(S) \in [1 .. n -> S]
    BY <1>2 DEF SetToSeq
  <1> HIDE DEF n
  <1> QED BY <1>1, <1>3, ArrayIsSequence

\* The links of a list, by the node that they leave and by the one that they enter.
LEMMA ListSplit ==
  ASSUME NEW ls \in Seq(GraphLinks)
  PROVE  /\ LinksFrom(ls) \in [GraphNodes -> Seq(GraphLinks)]
         /\ LinksTo(ls) \in [GraphNodes -> Seq(GraphLinks)]
         /\ \A n \in GraphNodes : /\ Range(LinksFrom(ls)[n]) = {l \in Range(ls) : l.from = n}
                                  /\ Range(LinksTo(ls)[n]) = {l \in Range(ls) : l.to = n}
  <1>1. ASSUME NEW S
        PROVE  Those(ls, S) \in Seq(GraphLinks) /\ Range(Those(ls, S)) = {l \in Range(ls) : l \in S}
    BY ThoseKept
  <1>2. \A n \in GraphNodes :
          /\ Those(ls, {l \in Range(ls) : l.from = n}) \in Seq(GraphLinks)
          /\ Range(Those(ls, {l \in Range(ls) : l.from = n})) = {l \in Range(ls) : l.from = n}
    <2> TAKE n \in GraphNodes
    <2> DEFINE S == {l \in Range(ls) : l.from = n}
    <2>1. {l \in Range(ls) : l \in S} = S
      OBVIOUS
    <2> HIDE DEF S
    <2>2. Those(ls, S) \in Seq(GraphLinks) /\ Range(Those(ls, S)) = S
      BY <1>1, <2>1
    <2> QED BY <2>2 DEF S
  <1>3. \A n \in GraphNodes :
          /\ Those(ls, {l \in Range(ls) : l.to = n}) \in Seq(GraphLinks)
          /\ Range(Those(ls, {l \in Range(ls) : l.to = n})) = {l \in Range(ls) : l.to = n}
    <2> TAKE n \in GraphNodes
    <2> DEFINE S == {l \in Range(ls) : l.to = n}
    <2>1. {l \in Range(ls) : l \in S} = S
      OBVIOUS
    <2> HIDE DEF S
    <2>2. Those(ls, S) \in Seq(GraphLinks) /\ Range(Those(ls, S)) = S
      BY <1>1, <2>1
    <2> QED BY <2>2 DEF S
  <1> DEFINE F(n) == Those(ls, {l \in Range(ls) : l.from = n})
             T(n) == Those(ls, {l \in Range(ls) : l.to = n})
  <1>4. LinksFrom(ls) = [n \in GraphNodes |-> F(n)] /\ LinksTo(ls) = [n \in GraphNodes |-> T(n)]
    BY DEF LinksFrom, LinksTo
  <1>5. \A n \in GraphNodes : /\ F(n) \in Seq(GraphLinks) /\ Range(F(n)) = {l \in Range(ls) : l.from = n}
                              /\ T(n) \in Seq(GraphLinks) /\ Range(T(n)) = {l \in Range(ls) : l.to = n}
    BY <1>2, <1>3
  <1> HIDE DEF F, T
  <1>6. \A n \in GraphNodes : LinksFrom(ls)[n] = F(n) /\ LinksTo(ls)[n] = T(n)
    BY <1>4
  <1>7. LinksFrom(ls) \in [GraphNodes -> Seq(GraphLinks)] /\ LinksTo(ls) \in [GraphNodes -> Seq(GraphLinks)]
    BY <1>4, <1>5
  <1> QED BY <1>5, <1>6, <1>7

\* What the devices of earlier payments leave in the graph.
LEMMA SeedTyped ==
  ASSUME NEW before \in SUBSET GraphAccounts, NEW d \in GraphDevices, NEW ls, ls = Seeded(SetToSeq(before), d)
  PROVE  /\ ls \in Seq(GraphLinks)
         /\ \A l \in Range(ls) : \E a \in before : {l.from, l.to} \subseteq Range(Entities(a, a, d))
         /\ \A a \in before : Range(Entities(a, a, d)) \subseteq GraphNodes
  <1> DEFINE L == {l \in GraphLinks : \E a \in before : {l.from, l.to} \subseteq Range(Entities(a, a, d))}
  <1>1. ASSUME NEW a \in before
        PROVE  Relations(a, a, d) \in Seq(L) /\ Range(Entities(a, a, d)) \subseteq GraphNodes
    <2> DEFINE r == Relations(a, a, d)
    <2>1. RelationsFit(a, a, d) /\ Range(Entities(a, a, d)) \subseteq GraphNodes
      BY RelationsFacts
    <2>2. /\ Len(r) \in Nat
          /\ \A i \in 1 .. Len(r) : r[i] \in GraphLinks /\ {r[i].from, r[i].to} \subseteq Range(Entities(a, a, d))
      BY <2>1 DEF RelationsFit
    <2>3. \A i \in 1 .. Len(r) : r[i] \in L
      BY <2>2
    <2>4. r = [i \in 1 .. Len(r) |-> r[i]]
      <3>1. d # NoDevice
        BY GraphAssumption
      <3>2. r = <<Link(User(a), Account(a)), Link(Account(a), Card(a)),
                  Link(User(a), Device(d)), Link(Account(a), Device(d)), Link(User(a), IP),
                  Link(Transaction(a), Merchant), Link(Account(a), Transaction(a))>>
        BY <3>1, RelationsListed
      <3> DEFINE l1 == Link(User(a), Account(a))
                 l2 == Link(Account(a), Card(a))
                 l3 == Link(User(a), Device(d))
                 l4 == Link(Account(a), Device(d))
                 l5 == Link(User(a), IP)
                 l6 == Link(Transaction(a), Merchant)
                 l7 == Link(Account(a), Transaction(a))
      <3>3. r = <<l1, l2, l3, l4, l5, l6, l7>>
        BY <3>2
      <3> HIDE DEF r, l1, l2, l3, l4, l5, l6, l7
      <3> QED BY <3>3
    <2> HIDE DEF r, L
    <2>5. r \in [1 .. Len(r) -> L]
      BY <2>3, <2>4
    <2>6. r \in Seq(L)
      BY <2>2, <2>5, ArrayIsSequence
    <2> QED BY <2>1, <2>6 DEF r
  <1>2. SetToSeq(before) \in Seq(before)
    <2>1. IsFiniteSet(before)
      BY GraphAssumption, FS_Subset
    <2> QED BY <2>1, SetListed
  <1> HIDE DEF L
  <1>3. ls \in Seq(L)
    BY <1>1, <1>2, SeededLinks
  <1>4. Range(ls) \subseteq L
    BY <1>3, RangeOfList
  <1>5. ls \in Seq(GraphLinks)
    <2>1. L \subseteq GraphLinks
      BY DEF L
    <2> QED BY <1>3, <2>1
  <1> QED BY <1>1, <1>4, <1>5 DEF L

\* It holds of an empty graph, and of one that was seeded.
LEMMA GraphStarts ==
  GraphInit => GraphIInv
  <1> SUFFICES ASSUME GraphInit PROVE GraphIInv
    OBVIOUS
  <1> DEFINE first == CHOOSE p \in GraphPayments : TRUE
             common == CHOOSE d \in GraphDevices : TRUE
             Arrived(a, d) == [pc |-> "arrived", account |-> a, device |-> d, linksDone |-> 0,
                               began |-> 0, evidence |-> NoEvidence]
             Seeds(before, fraud) ==
               /\ known = [n \in UNION {Range(Entities(a, a, common)) : a \in before} |-> fraud /\ n # Merchant]
               /\ out = LinksFrom(Seeded(SetToSeq(before), common))
               /\ in = LinksTo(Seeded(SetToSeq(before), common))
               /\ since = [l \in Range(Seeded(SetToSeq(before), common)) |-> 0]
  <1>1. /\ payment \in [GraphPayments -> {Arrived(a, d) : a \in GraphAccounts, d \in GraphDevices \cup {NoDevice}}]
        /\ payment[first].account = CHOOSE a \in GraphAccounts : TRUE
        /\ hour = 0
        /\ drawing = [pc |-> "none", root |-> Account(payment[first].account), nodes |-> <<>>, links |-> {},
                      added |-> {}, evaluated |-> {}]
        /\ \E before \in SUBSET GraphAccounts, fraud \in BOOLEAN : Seeds(before, fraud)
    BY DEF GraphInit
  <1>2. common \in GraphDevices
    BY GraphAssumption
  <1>3. PICK before \in SUBSET GraphAccounts, fraud \in BOOLEAN : Seeds(before, fraud)
    <2> HIDE DEF Seeds, Arrived, first, common
    <2> QED BY <1>1
  <1> HIDE DEF common
  <1> DEFINE ls == Seeded(SetToSeq(before), common)
             Named(a) == Range(Entities(a, a, common))
             names == UNION {Named(a) : a \in before}
  <1>4. /\ ls \in Seq(GraphLinks)
        /\ \A l \in Range(ls) : \E a \in before : {l.from, l.to} \subseteq Named(a)
        /\ \A a \in before : Named(a) \subseteq GraphNodes
    BY <1>2, SeedTyped
  <1>5. known = [n \in names |-> fraud /\ n # Merchant] /\ out = LinksFrom(ls) /\ in = LinksTo(ls)
        /\ since = [l \in Range(ls) |-> 0]
    BY <1>3
  <1> HIDE DEF ls, Named
  <1>6. \A x : x \in names <=> \E a \in before : x \in Named(a)
    OBVIOUS
  <1> HIDE DEF names
  <1>7. DOMAIN known = names /\ \A n \in names : known[n] \in BOOLEAN
    <2> DEFINE bad(n) == fraud /\ n # Merchant
    <2>1. known = [n \in names |-> bad(n)] /\ \A n : bad(n) \in BOOLEAN
      BY <1>5
    <2> HIDE DEF bad
    <2> QED BY <2>1
  <1>8. DOMAIN since = Range(ls) /\ \A l \in DOMAIN since : since[l] = 0
    BY <1>5
  <1>9. Range(ls) \subseteq GraphLinks
    BY <1>4, RangeOfList
  <1>10. Listed
    BY <1>4, <1>5, <1>8, <1>9, ListSplit DEF Listed
  <1>11. ASSUME NEW p \in GraphPayments
         PROVE  /\ payment[p] \in GraphPayment /\ payment[p].pc = "arrived" /\ payment[p].linksDone = 0
                /\ payment[p].began = 0 /\ payment[p].evidence = NoEvidence
    <2>1. PICK a \in GraphAccounts, d \in GraphDevices \cup {NoDevice} : payment[p] = Arrived(a, d)
      BY <1>1
    <2>2. NoEvidence \in GraphEvidence /\ 0 \in 0 .. MaxGraphHour /\ 0 \in 0 .. 7
      <3>1. MaxGraphHour \in Nat
        BY GraphAssumption
      <3>2. 0 \in 0 .. MaxGraphHour /\ 0 \in Nat
        BY <3>1
      <3> QED BY <3>2 DEF NoEvidence, GraphEvidence
    <2> HIDE DEF Arrived
    <2>3. /\ payment[p].pc = "arrived" /\ payment[p].linksDone = 0
          /\ payment[p].began = 0 /\ payment[p].evidence = NoEvidence
      BY <2>1 DEF Arrived
    <2>4. payment[p] \in GraphPayment
      BY <2>1, <2>2 DEF Arrived, GraphPayment
    <2> QED BY <2>3, <2>4
  <1>12. /\ drawing = [pc |-> drawing.pc, root |-> drawing.root, nodes |-> drawing.nodes, links |-> drawing.links,
                       added |-> drawing.added, evaluated |-> drawing.evaluated]
         /\ drawing.pc = "none" /\ drawing.root = Account(payment[first].account) /\ drawing.nodes = <<>>
         /\ drawing.links = {} /\ drawing.added = {} /\ drawing.evaluated = {}
    <2> HIDE DEF first
    <2> QED BY <1>1
  <1>13. drawing.root \in GraphNodes
    <2>1. first \in GraphPayments
      BY GraphAssumption
    <2>2. payment[first].account \in GraphAccounts
      BY <1>11, <2>1 DEF GraphPayment
    <2> QED BY <1>12, <2>2, NodesOfAccount
  <1>14. GraphTyped
    <2>1. payment \in [GraphPayments -> GraphPayment]
      BY <1>1, <1>11
    <2>2. DOMAIN known \subseteq GraphNodes
      BY <1>4, <1>6, <1>7
    <2>3. hour \in 0 .. MaxGraphHour
      BY <1>1, GraphAssumption
    <2>4. \A l \in DOMAIN since : since[l] \in Nat /\ since[l] <= hour
      BY <1>1, <1>8
    <2>5. \A p \in GraphPayments : payment[p].began <= hour
      BY <1>1, <1>11
    <2>6. DOMAIN drawing.nodes = {}
      BY <1>12
    <2> QED BY <1>7, <1>10, <1>12, <1>13, <2>1, <2>2, <2>3, <2>4, <2>5, <2>6 DEF GraphTyped
  <1>15. Ingesting
    BY <1>11 DEF Ingesting
  <1>16. NamedClean
    BY <1>11 DEF NamedClean
  <1>17. EndsKnown
    <2>1. \A l \in Range(ls) : {l.from, l.to} \subseteq names
      BY <1>4, <1>6
    <2> QED BY <1>7, <1>8, <2>1 DEF EndsKnown
  <1>18. Dated
    BY <1>11 DEF Dated
  <1>19. EvidenceStands
    BY <1>11 DEF EvidenceStands
  <1>20. DrawingMissed /\ DrawingHas
    BY <1>12 DEF DrawingMissed, DrawingHas
  <1>21. OneSeesOther
    BY <1>11 DEF OneSeesOther
  <1> QED BY <1>14, <1>15, <1>16, <1>17, <1>18, <1>19, <1>20, <1>21 DEF GraphIInv

-----------------------------------------------------------------------------
(* The steps: what each of them does to the payments, and what none undoes. *)

\* A step of one payment: the others stay as they are, and it keeps what it names.
OnlyPayment(p) ==
  /\ payment' \in [GraphPayments -> GraphPayment]
  /\ \A q \in GraphPayments \ {p} : payment'[q] = payment[q]
  /\ payment'[p].account = payment[p].account /\ payment'[p].device = payment[p].device

\* What each step does to its payment.
LEMMA AddNodesPayment ==
  ASSUME GraphTyped, NEW p \in GraphPayments, AddNodes(p)
  PROVE  /\ OnlyPayment(p)
         /\ payment[p].pc = "arrived" /\ payment'[p].pc = "adding" /\ payment'[p].began = hour
         /\ payment'[p].linksDone = payment[p].linksDone /\ payment'[p].evidence = payment[p].evidence
  <1> DEFINE r == payment[p]
             s == payment'[p]
  <1>1. payment \in [GraphPayments -> GraphPayment] /\ r \in GraphPayment /\ hour \in 0 .. MaxGraphHour
    BY DEF GraphTyped
  <1>2. payment' = [payment EXCEPT ![p] = [r EXCEPT !.pc = "adding", !.began = hour]] /\ r.pc = "arrived"
    BY DEF AddNodes
  <1>3. s = [r EXCEPT !.pc = "adding", !.began = hour] /\ \A q \in GraphPayments \ {p} : payment'[q] = payment[q]
    BY <1>1, <1>2
  <1> HIDE DEF r, s
  <1>4. /\ s.account = r.account /\ s.device = r.device /\ s.linksDone = r.linksDone
        /\ s.evidence = r.evidence /\ s.pc = "adding" /\ s.began = hour
    BY <1>1, <1>3 DEF GraphPayment
  <1>5. s \in GraphPayment
    BY <1>1, <1>3 DEF GraphPayment
  <1>6. payment' \in [GraphPayments -> GraphPayment]
    BY <1>1, <1>2, <1>3, <1>5
  <1> QED BY <1>2, <1>3, <1>4, <1>6 DEF OnlyPayment, r, s

LEMMA AddEdgePayment ==
  ASSUME GraphTyped, Ingesting, NEW p \in GraphPayments, AddEdge(p)
  PROVE  /\ OnlyPayment(p)
         /\ payment[p].pc = "adding" /\ payment'[p].began = payment[p].began
         /\ payment'[p].linksDone = payment[p].linksDone + 1 /\ payment'[p].evidence = payment[p].evidence
         /\ payment[p].linksDone + 1 \in 1 .. Len(Relations(p, payment[p].account, payment[p].device))
         /\ payment'[p].pc = IF payment[p].linksDone + 1 = Len(Relations(p, payment[p].account, payment[p].device))
                             THEN "added" ELSE "adding"
  <1> DEFINE r == payment[p]
             s == payment'[p]
             n == Len(Relations(p, r.account, r.device))
             last == r.linksDone + 1 = n
             to == IF last THEN "added" ELSE r.pc
             k == r.linksDone + 1
  <1>1. payment \in [GraphPayments -> GraphPayment] /\ r \in GraphPayment
    BY DEF GraphTyped
  <1>2. r.pc = "adding" /\ payment' = [payment EXCEPT ![p] = [r EXCEPT !.linksDone = k, !.pc = to]]
    BY DEF AddEdge
  <1>3. n \in {5, 7}
    <2>1. r.account \in GraphAccounts /\ r.device \in GraphDevices \cup {NoDevice}
      BY <1>1 DEF GraphPayment
    <2>2. RelationsFit(p, r.account, r.device)
      BY <2>1, RelationsFacts
    <2> QED BY <2>2 DEF RelationsFit
  <1>4. r.linksDone \in 0 .. 7 /\ n - r.linksDone > 0
    BY <1>1, <1>2 DEF GraphPayment, Ingesting, RelationsLeft
  <1>5. k \in 1 .. n /\ k \in 0 .. 7
    <2> DEFINE i == r.linksDone
    <2>1. i \in 0 .. 7 /\ n - i > 0
      BY <1>4
    <2> HIDE DEF n, i
    <2>2. i + 1 \in 1 .. n /\ i + 1 \in 0 .. 7
      BY <1>3, <2>1
    <2> QED BY <2>2 DEF i
  <1>6. to \in {"arrived", "adding", "added", "evaluated"} /\ to = IF last THEN "added" ELSE "adding"
    BY <1>2
  <1>7. s = [r EXCEPT !.linksDone = k, !.pc = to] /\ \A q \in GraphPayments \ {p} : payment'[q] = payment[q]
    <2> HIDE DEF k, to
    <2> QED BY <1>1, <1>2
  <1> HIDE DEF s, k, to
  <1>8. /\ s.account = r.account /\ s.device = r.device /\ s.linksDone = k
        /\ s.evidence = r.evidence /\ s.pc = to /\ s.began = r.began
    <2> HIDE DEF r
    <2> QED BY <1>1, <1>7 DEF GraphPayment
  <1>9. s \in GraphPayment
    <2> HIDE DEF r
    <2> QED BY <1>1, <1>5, <1>6, <1>7 DEF GraphPayment
  <1>10. payment' \in [GraphPayments -> GraphPayment]
    <2>1. payment' = [payment EXCEPT ![p] = s]
      BY <1>2, <1>7
    <2> QED BY <1>1, <1>9, <2>1
  <1> QED BY <1>2, <1>5, <1>6, <1>7, <1>8, <1>10 DEF OnlyPayment, s, k

LEMMA EvaluatePayment ==
  ASSUME GraphTyped, NamedClean, NEW p \in GraphPayments, EvaluateGraph(p)
  PROVE  /\ OnlyPayment(p)
         /\ payment[p].pc = "added" /\ payment'[p].pc = "evaluated" /\ payment'[p].began = payment[p].began
         /\ payment'[p].linksDone = payment[p].linksDone
         /\ payment'[p].evidence = Traversal(Account(payment[p].account))
         /\ Account(payment[p].account) \in GraphNodes \cap DOMAIN known
  <1> DEFINE r == payment[p]
             s == payment'[p]
             e == Traversal(Account(r.account))
  <1>1. payment \in [GraphPayments -> GraphPayment] /\ r \in GraphPayment /\ Listed /\ hour \in 0 .. MaxGraphHour
    BY DEF GraphTyped
  <1>2. payment' = [payment EXCEPT ![p] = [r EXCEPT !.pc = "evaluated", !.evidence = e]] /\ r.pc = "added"
    BY DEF EvaluateGraph
  <1>3. r.account \in GraphAccounts /\ Account(r.account) \in GraphNodes
    BY <1>1, NodesOfAccount DEF GraphPayment
  <1>4. Account(r.account) \in DOMAIN known
    <2>1. Account(r.account) \in Names(p)
      BY EntitiesOf DEF Names
    <2> QED BY <1>2, <2>1 DEF NamedClean
  <1>5. e \in GraphEvidence
    <2> HIDE DEF e, r
    <2>1. /\ e = [reached |-> e.reached, edges |-> e.edges, bad |-> e.bad, at |-> e.at, capped |-> e.capped]
          /\ e.reached \subseteq GraphNodes /\ e.capped \in BOOLEAN /\ e.edges \in Nat
          /\ e.bad = {n \in e.reached \cap DOMAIN known : known[n]} /\ e.at = hour
      BY <1>1, <1>3, <1>4, EvidenceOf DEF e
    <2>2. e.bad \subseteq GraphNodes
      BY <2>1
    <2> DEFINE rr == e.reached
               ee == e.edges
               bb == e.bad
               aa == e.at
               cc == e.capped
    <2>3. rr \in SUBSET GraphNodes /\ ee \in Nat /\ bb \in SUBSET GraphNodes /\ aa \in 0 .. MaxGraphHour /\ cc \in BOOLEAN
      BY <1>1, <2>1, <2>2
    <2>4. e = [reached |-> rr, edges |-> ee, bad |-> bb, at |-> aa, capped |-> cc]
      BY <2>1
    <2> HIDE DEF rr, ee, bb, aa, cc
    <2> QED BY <2>3, <2>4 DEF GraphEvidence
  <1> HIDE DEF e
  <1>6. s = [r EXCEPT !.pc = "evaluated", !.evidence = e] /\ \A q \in GraphPayments \ {p} : payment'[q] = payment[q]
    BY <1>1, <1>2
  <1> HIDE DEF r, s
  <1>7. /\ s.account = r.account /\ s.device = r.device /\ s.linksDone = r.linksDone
        /\ s.evidence = e /\ s.pc = "evaluated" /\ s.began = r.began
    BY <1>1, <1>6 DEF GraphPayment
  <1>8. s \in GraphPayment
    BY <1>1, <1>5, <1>6 DEF GraphPayment
  <1>9. payment' \in [GraphPayments -> GraphPayment]
    BY <1>1, <1>2, <1>6, <1>8
  <1> QED BY <1>2, <1>3, <1>4, <1>6, <1>7, <1>9 DEF OnlyPayment, r, s, e

\* The link that a payment adds.
AddsLink(p, l) ==
  /\ l \in GraphLinks /\ l.from \in Names(p) /\ l.to \in Names(p)
  /\ \A b, e : l = Link(Account(b), Device(e)) => b = payment[p].account /\ e = payment[p].device
  /\ payment[p].device # NoDevice /\ payment[p].linksDone + 1 = 4 =>
       l = Link(Account(payment[p].account), Device(payment[p].device))
  /\ since' = [x \in DOMAIN since \cup {l} |-> IF x = l THEN payment[p].began ELSE since[x]]
  /\ IF l \in DOMAIN since THEN out' = out /\ in' = in
     ELSE /\ out' = [out EXCEPT ![l.from] = Append(out[l.from], l)]
          /\ in' = [in EXCEPT ![l.to] = Append(in[l.to], l)]
  /\ known' = known /\ hour' = hour /\ drawing' = drawing

\* Every step of AddEdge adds such a link.
LEMMA AddEdgeAdds ==
  ASSUME GraphTyped, Ingesting, NEW p \in GraphPayments, AddEdge(p)
  PROVE  \E l : AddsLink(p, l)
  <1> DEFINE a == payment[p].account
             d == payment[p].device
             r == Relations(p, a, d)
             k == payment[p].linksDone + 1
             l == r[k]
  <1>1. a \in GraphAccounts /\ d \in GraphDevices \cup {NoDevice}
    BY DEF GraphTyped, GraphPayment
  <1>2. RelationsFit(p, a, d)
    BY <1>1, RelationsFacts
  <1>3. k \in 1 .. Len(r)
    BY AddEdgePayment
  <1>4. /\ IF l \in DOMAIN since THEN UNCHANGED <<out, in>>
           ELSE out' = [out EXCEPT ![l.from] = Append(@, l)] /\ in' = [in EXCEPT ![l.to] = Append(@, l)]
        /\ since' = [x \in DOMAIN since \cup {l} |-> IF x = l THEN payment[p].began ELSE since[x]]
        /\ UNCHANGED <<known, hour, drawing>>
    BY DEF AddEdge
  <1>5. /\ l \in GraphLinks /\ {l.from, l.to} \subseteq Range(Entities(p, a, d))
        /\ \A b, e : l = Link(Account(b), Device(e)) => b = a /\ e = d
        /\ d # NoDevice => r[4] = Link(Account(a), Device(d))
    <2> HIDE DEF k
    <2> QED BY <1>2, <1>3 DEF RelationsFit
  <1>6. k = 4 => l = r[4]
    OBVIOUS
  <1> HIDE DEF l
  <1>7. d # NoDevice /\ k = 4 => l = Link(Account(a), Device(d))
    BY <1>5, <1>6
  <1>8. AddsLink(p, l)
    BY <1>4, <1>5, <1>7 DEF AddsLink, Names
  <1> QED BY <1>8

\* A link that was added is in the list of either end.
LEMMA LinkTyped ==
  ASSUME GraphTyped, NEW p \in GraphPayments, NEW l, AddsLink(p, l)
  PROVE  /\ DOMAIN since' = DOMAIN since \cup {l} /\ since'[l] = payment[p].began
         /\ \A x \in DOMAIN since : x # l => since'[x] = since[x]
         /\ Listed'
  <1>1. /\ DOMAIN since' = DOMAIN since \cup {l} /\ since'[l] = payment[p].began
        /\ \A x \in DOMAIN since : x # l => since'[x] = since[x]
    BY DEF AddsLink
  <1>2. Listed /\ l \in GraphLinks /\ l.from \in GraphNodes /\ l.to \in GraphNodes
    BY DEF GraphTyped, AddsLink, GraphLinks
  <1>3. /\ out \in [GraphNodes -> Seq(GraphLinks)] /\ in \in [GraphNodes -> Seq(GraphLinks)]
        /\ \A n \in GraphNodes : Range(out[n]) = {x \in DOMAIN since : x.from = n}
        /\ \A n \in GraphNodes : Range(in[n]) = {x \in DOMAIN since : x.to = n}
        /\ DOMAIN since \subseteq GraphLinks
    BY <1>2 DEF Listed
  <1>4. CASE l \in DOMAIN since
    <2>1. out' = out /\ in' = in /\ DOMAIN since' = DOMAIN since
      BY <1>1, <1>4 DEF AddsLink
    <2>2. Listed'
      BY <1>3, <2>1 DEF Listed
    <2> QED BY <1>1, <2>2
  <1>5. CASE l \notin DOMAIN since
    <2>1. out' = [out EXCEPT ![l.from] = Append(out[l.from], l)] /\ in' = [in EXCEPT ![l.to] = Append(in[l.to], l)]
      BY <1>5 DEF AddsLink
    <2> DEFINE s == Append(out[l.from], l)
               t == Append(in[l.to], l)
    <2>2. /\ s \in Seq(GraphLinks) /\ Range(s) = Range(out[l.from]) \cup {l}
          /\ t \in Seq(GraphLinks) /\ Range(t) = Range(in[l.to]) \cup {l}
      <3>1. out[l.from] \in Seq(GraphLinks) /\ in[l.to] \in Seq(GraphLinks)
        BY <1>2, <1>3
      <3> QED BY <1>2, <3>1, RangeOfAppend
    <2> HIDE DEF s, t
    <2>3. out' = [out EXCEPT ![l.from] = s] /\ in' = [in EXCEPT ![l.to] = t]
      BY <2>1 DEF s, t
    <2>4. out' \in [GraphNodes -> Seq(GraphLinks)] /\ in' \in [GraphNodes -> Seq(GraphLinks)]
      BY <1>2, <1>3, <2>2, <2>3
    <2>5. /\ \A n \in GraphNodes : out'[n] = IF n = l.from THEN s ELSE out[n]
          /\ \A n \in GraphNodes : in'[n] = IF n = l.to THEN t ELSE in[n]
      BY <1>2, <1>3, <2>3
    <2>6. \A n \in GraphNodes : Range(out'[n]) = {x \in DOMAIN since' : x.from = n}
      <3> TAKE n \in GraphNodes
      <3>1. CASE n = l.from
        <4>1. Range(out'[n]) = {x \in DOMAIN since : x.from = n} \cup {l}
          BY <1>2, <1>3, <2>2, <2>5, <3>1
        <4> QED BY <1>1, <3>1, <4>1
      <3>2. CASE n # l.from
        <4>1. Range(out'[n]) = {x \in DOMAIN since : x.from = n}
          BY <1>3, <2>5, <3>2
        <4> QED BY <1>1, <3>2, <4>1
      <3> QED BY <3>1, <3>2
    <2>7. \A n \in GraphNodes : Range(in'[n]) = {x \in DOMAIN since' : x.to = n}
      <3> TAKE n \in GraphNodes
      <3>1. CASE n = l.to
        <4>1. Range(in'[n]) = {x \in DOMAIN since : x.to = n} \cup {l}
          BY <1>2, <1>3, <2>2, <2>5, <3>1
        <4> QED BY <1>1, <3>1, <4>1
      <3>2. CASE n # l.to
        <4>1. Range(in'[n]) = {x \in DOMAIN since : x.to = n}
          BY <1>3, <2>5, <3>2
        <4> QED BY <1>1, <3>2, <4>1
      <3> QED BY <3>1, <3>2
    <2>8. DOMAIN since' \subseteq GraphLinks
      BY <1>1, <1>2, <1>3
    <2>9. Listed'
      BY <2>4, <2>6, <2>7, <2>8 DEF Listed
    <2> QED BY <1>1, <2>9
  <1> QED BY <1>4, <1>5

\* The marks and the nodes after a payment has added its entities.
LEMMA AddNodesKnown ==
  ASSUME GraphTyped, NEW p \in GraphPayments, AddNodes(p)
  PROVE  /\ DOMAIN known' = DOMAIN known \cup Names(p)
         /\ \A n \in DOMAIN known' : known'[n] = IF n \in Names(p) THEN FALSE ELSE known[n]
         /\ Names(p) \subseteq GraphNodes
         /\ out' = out /\ in' = in /\ since' = since /\ hour' = hour /\ drawing' = drawing
  <1>1. /\ known' = [x \in DOMAIN known \cup Names(p) |-> IF x \in Names(p) THEN FALSE ELSE known[x]]
        /\ out' = out /\ in' = in /\ since' = since /\ hour' = hour /\ drawing' = drawing
    BY DEF AddNodes, Names
  <1>2. Names(p) \subseteq GraphNodes
    <2>1. payment[p].account \in GraphAccounts /\ payment[p].device \in GraphDevices \cup {NoDevice}
      BY DEF GraphTyped, GraphPayment
    <2> QED BY <2>1, RelationsFacts DEF Names
  <1> DEFINE v(x) == IF x \in Names(p) THEN FALSE ELSE known[x]
  <1>3. known' = [x \in DOMAIN known \cup Names(p) |-> v(x)]
    BY <1>1
  <1> HIDE DEF v
  <1>4. DOMAIN known' = DOMAIN known \cup Names(p) /\ \A n \in DOMAIN known' : known'[n] = v(n)
    BY <1>3
  <1> QED BY <1>1, <1>2, <1>4 DEF v

\* The drawing, as its two steps leave it.
LEMMA DrawNodesAfter ==
  ASSUME GraphTyped, DrawNodes
  PROVE  /\ drawing.pc = "none" /\ drawing'.pc = "nodes" /\ drawing'.root = drawing.root
         /\ drawing'.nodes = known /\ drawing'.links = drawing.links
         /\ drawing'.added = {p \in GraphPayments : payment[p].pc # "arrived"}
         /\ drawing'.evaluated = {p \in GraphPayments : payment[p].pc = "evaluated"}
         /\ drawing' = [pc |-> drawing'.pc, root |-> drawing'.root, nodes |-> drawing'.nodes,
                        links |-> drawing'.links, added |-> drawing'.added, evaluated |-> drawing'.evaluated]
         /\ payment' = payment /\ known' = known /\ out' = out /\ in' = in /\ since' = since /\ hour' = hour
  <1> DEFINE a == {p \in GraphPayments : payment[p].pc # "arrived"}
             e == {p \in GraphPayments : payment[p].pc = "evaluated"}
  <1>1. /\ drawing' = [drawing EXCEPT !.pc = "nodes", !.nodes = known, !.added = a, !.evaluated = e]
        /\ drawing.pc = "none"
        /\ payment' = payment /\ known' = known /\ out' = out /\ in' = in /\ since' = since /\ hour' = hour
    BY DEF DrawNodes
  <1> HIDE DEF a, e
  <1>2. drawing = [pc |-> drawing.pc, root |-> drawing.root, nodes |-> drawing.nodes, links |-> drawing.links,
                   added |-> drawing.added, evaluated |-> drawing.evaluated]
    BY DEF GraphTyped
  <1>3. drawing' = [pc |-> "nodes", root |-> drawing.root, nodes |-> known, links |-> drawing.links,
                    added |-> a, evaluated |-> e]
    BY <1>1, <1>2
  <1>4. /\ drawing'.pc = "nodes" /\ drawing'.root = drawing.root /\ drawing'.nodes = known
        /\ drawing'.links = drawing.links /\ drawing'.added = a /\ drawing'.evaluated = e
    BY <1>3
  <1> QED BY <1>1, <1>3, <1>4 DEF a, e

LEMMA DrawLinksAfter ==
  ASSUME GraphTyped, DrawLinks
  PROVE  /\ drawing.pc = "nodes" /\ drawing'.pc = "drawn" /\ drawing'.root = drawing.root
         /\ drawing'.nodes = drawing.nodes /\ drawing'.links = DOMAIN since
         /\ drawing'.added = drawing.added /\ drawing'.evaluated = drawing.evaluated
         /\ drawing' = [pc |-> drawing'.pc, root |-> drawing'.root, nodes |-> drawing'.nodes,
                        links |-> drawing'.links, added |-> drawing'.added, evaluated |-> drawing'.evaluated]
         /\ payment' = payment /\ known' = known /\ out' = out /\ in' = in /\ since' = since /\ hour' = hour
  <1>1. /\ drawing' = [drawing EXCEPT !.pc = "drawn", !.links = DOMAIN since] /\ drawing.pc = "nodes"
        /\ payment' = payment /\ known' = known /\ out' = out /\ in' = in /\ since' = since /\ hour' = hour
    BY DEF DrawLinks
  <1>2. drawing = [pc |-> drawing.pc, root |-> drawing.root, nodes |-> drawing.nodes, links |-> drawing.links,
                   added |-> drawing.added, evaluated |-> drawing.evaluated]
    BY DEF GraphTyped
  <1>3. drawing' = [pc |-> "drawn", root |-> drawing.root, nodes |-> drawing.nodes, links |-> DOMAIN since,
                    added |-> drawing.added, evaluated |-> drawing.evaluated]
    BY <1>1, <1>2
  <1>4. /\ drawing'.pc = "drawn" /\ drawing'.root = drawing.root /\ drawing'.nodes = drawing.nodes
        /\ drawing'.links = DOMAIN since /\ drawing'.added = drawing.added /\ drawing'.evaluated = drawing.evaluated
    BY <1>3
  <1> QED BY <1>1, <1>3, <1>4

LEMMA HourAfter ==
  ASSUME GraphTyped, GraphHourPasses
  PROVE  /\ hour' \in 0 .. MaxGraphHour /\ hour < hour'
         /\ payment' = payment /\ known' = known /\ out' = out /\ in' = in /\ since' = since /\ drawing' = drawing
  <1>1. hour \in 0 .. MaxGraphHour /\ MaxGraphHour \in Nat
    BY GraphAssumption DEF GraphTyped
  <1>2. /\ hour' = hour + 1 /\ hour < MaxGraphHour
        /\ payment' = payment /\ known' = known /\ out' = out /\ in' = in /\ since' = since /\ drawing' = drawing
    BY DEF GraphHourPasses
  <1> QED BY <1>1, <1>2

\* The graph grows, and a payment keeps what it names and what it was told.
GraphMoves ==
  /\ \A q \in GraphPayments : payment'[q].account = payment[q].account /\ payment'[q].device = payment[q].device
  /\ \A q \in GraphPayments : payment[q].pc # "arrived" =>
       payment'[q].pc # "arrived" /\ payment'[q].began = payment[q].began
  /\ \A q \in GraphPayments : payment[q].pc = "evaluated" => payment'[q] = payment[q]
  /\ DOMAIN since \subseteq DOMAIN since' /\ DOMAIN known \subseteq DOMAIN known'

LEMMA EachMoves ==
  ASSUME GraphTyped, Ingesting, NamedClean, GraphNext
  PROVE  GraphMoves
  <1>1. CASE DrawNodes \/ DrawLinks \/ GraphHourPasses
    <2>1. payment' = payment /\ known' = known /\ since' = since
      BY <1>1, DrawNodesAfter, DrawLinksAfter, HourAfter
    <2> QED BY <2>1, Zenon DEF GraphMoves
  <1>2. ASSUME NEW p \in GraphPayments, AddNodes(p) PROVE GraphMoves
    <2>1. OnlyPayment(p) /\ payment[p].pc = "arrived"
      BY <1>2, AddNodesPayment
    <2>2. since' = since /\ DOMAIN known \subseteq DOMAIN known'
      BY <1>2, AddNodesKnown
    <2> QED BY <2>1, <2>2 DEF GraphMoves, OnlyPayment
  <1>3. ASSUME NEW p \in GraphPayments, AddEdge(p) PROVE GraphMoves
    <2>1. /\ OnlyPayment(p) /\ payment[p].pc = "adding" /\ payment'[p].began = payment[p].began
          /\ payment'[p].pc # "arrived"
      BY <1>3, AddEdgePayment
    <2>2. PICK l : AddsLink(p, l)
      BY <1>3, AddEdgeAdds
    <2>3. DOMAIN since \subseteq DOMAIN since' /\ known' = known
      <3>1. DOMAIN since' = DOMAIN since \cup {l}
        BY <2>2, LinkTyped
      <3>2. known' = known
        BY <2>2 DEF AddsLink
      <3> QED BY <3>1, <3>2
    <2> QED BY <2>1, <2>3 DEF GraphMoves, OnlyPayment
  <1>4. ASSUME NEW p \in GraphPayments, EvaluateGraph(p) PROVE GraphMoves
    <2>1. /\ OnlyPayment(p) /\ payment[p].pc = "added" /\ payment'[p].began = payment[p].began
          /\ payment'[p].pc # "arrived"
      BY <1>4, EvaluatePayment
    <2>2. since' = since /\ known' = known
      BY <1>4 DEF EvaluateGraph
    <2> QED BY <2>1, <2>2 DEF GraphMoves, OnlyPayment
  <1> QED BY <1>1, <1>2, <1>3, <1>4 DEF GraphNext

\* A payment names what it named.
LEMMA NamesStay ==
  ASSUME GraphMoves, NEW q \in GraphPayments
  PROVE  Names(q)' = Names(q)
  <1>1. payment'[q].account = payment[q].account /\ payment'[q].device = payment[q].device
    BY DEF GraphMoves
  <1> QED BY <1>1 DEF Names

LEMMA TypedStep ==
  ASSUME GraphTyped, Ingesting, NamedClean, GraphNext
  PROVE  GraphTyped'
  <1> DEFINE Drawing(d, k, s) ==
               /\ d = [pc |-> d.pc, root |-> d.root, nodes |-> d.nodes, links |-> d.links,
                       added |-> d.added, evaluated |-> d.evaluated]
               /\ d.pc \in {"none", "nodes", "drawn"} /\ d.root \in GraphNodes
               /\ DOMAIN d.nodes \subseteq k /\ d.links \subseteq s
               /\ d.evaluated \subseteq d.added /\ d.added \subseteq GraphPayments
  <1>1. /\ payment \in [GraphPayments -> GraphPayment] /\ DOMAIN known \subseteq GraphNodes
        /\ \A n \in DOMAIN known : known[n] \in BOOLEAN
        /\ Listed /\ hour \in 0 .. MaxGraphHour
        /\ \A l \in DOMAIN since : since[l] \in Nat /\ since[l] <= hour
        /\ \A p \in GraphPayments : payment[p].began <= hour
        /\ Drawing(drawing, DOMAIN known, DOMAIN since)
    BY DEF GraphTyped
  <1>2. ASSUME /\ payment' \in [GraphPayments -> GraphPayment] /\ DOMAIN known' \subseteq GraphNodes
               /\ \A n \in DOMAIN known' : known'[n] \in BOOLEAN
               /\ Listed' /\ hour' \in 0 .. MaxGraphHour
               /\ \A l \in DOMAIN since' : since'[l] \in Nat /\ since'[l] <= hour'
               /\ \A p \in GraphPayments : payment'[p].began <= hour'
               /\ Drawing(drawing', DOMAIN known', DOMAIN since')
        PROVE  GraphTyped'
    BY <1>2 DEF GraphTyped
  <1>3. ASSUME out' = out, in' = in, since' = since PROVE Listed'
    BY <1>1, <1>3 DEF Listed
  <1>4. \A s, t, u, v, d : Drawing(d, s, u) /\ s \subseteq t /\ u \subseteq v => Drawing(d, t, v)
    OBVIOUS
  <1>5. CASE DrawNodes
    <2>1. Drawing(drawing', DOMAIN known, DOMAIN since)
      <3>1. /\ drawing.pc = "none" /\ drawing'.pc = "nodes" /\ drawing'.root = drawing.root
            /\ drawing'.nodes = known /\ drawing'.links = drawing.links
            /\ drawing'.added = {p \in GraphPayments : payment[p].pc # "arrived"}
            /\ drawing'.evaluated = {p \in GraphPayments : payment[p].pc = "evaluated"}
            /\ drawing' = [pc |-> drawing'.pc, root |-> drawing'.root, nodes |-> drawing'.nodes,
                           links |-> drawing'.links, added |-> drawing'.added, evaluated |-> drawing'.evaluated]
        BY <1>5, DrawNodesAfter
      <3>2. drawing.root \in GraphNodes /\ drawing.links \subseteq DOMAIN since
        BY <1>1
      <3>3. drawing'.evaluated \subseteq drawing'.added /\ drawing'.added \subseteq GraphPayments
        BY <3>1
      <3> QED BY <3>1, <3>2, <3>3
    <2>2. payment' = payment /\ known' = known /\ out' = out /\ in' = in /\ since' = since /\ hour' = hour
      BY <1>5, DrawNodesAfter
    <2> HIDE DEF Drawing
    <2> QED BY <1>1, <1>2, <1>3, <2>1, <2>2
  <1>6. CASE DrawLinks
    <2>1. Drawing(drawing', DOMAIN known, DOMAIN since)
      <3>1. /\ drawing'.pc = "drawn" /\ drawing'.root = drawing.root
            /\ drawing'.nodes = drawing.nodes /\ drawing'.links = DOMAIN since
            /\ drawing'.added = drawing.added /\ drawing'.evaluated = drawing.evaluated
            /\ drawing' = [pc |-> drawing'.pc, root |-> drawing'.root, nodes |-> drawing'.nodes,
                           links |-> drawing'.links, added |-> drawing'.added, evaluated |-> drawing'.evaluated]
        BY <1>6, DrawLinksAfter
      <3> QED BY <1>1, <3>1
    <2>2. payment' = payment /\ known' = known /\ out' = out /\ in' = in /\ since' = since /\ hour' = hour
      BY <1>6, DrawLinksAfter
    <2> HIDE DEF Drawing
    <2> QED BY <1>1, <1>2, <1>3, <2>1, <2>2
  <1>7. CASE GraphHourPasses
    <2>1. /\ payment' = payment /\ known' = known /\ out' = out /\ in' = in /\ since' = since /\ drawing' = drawing
          /\ hour' \in 0 .. MaxGraphHour /\ hour < hour'
      BY <1>7, HourAfter
    <2>2. \A l \in DOMAIN since : since[l] \in Nat /\ since[l] <= hour'
      BY <1>1, <2>1
    <2>3. \A p \in GraphPayments : payment[p].began <= hour'
      <3>1. \A p \in GraphPayments : payment[p].began \in Nat
        BY <1>1 DEF GraphPayment
      <3> QED BY <1>1, <2>1, <3>1
    <2> HIDE DEF Drawing
    <2> QED BY <1>1, <1>2, <1>3, <2>1, <2>2, <2>3
  <1> HIDE DEF Drawing
  <1>8. ASSUME NEW p \in GraphPayments, AddNodes(p) PROVE GraphTyped'
    <2>1. /\ OnlyPayment(p) /\ payment'[p].began = hour
      BY <1>8, AddNodesPayment
    <2>2. /\ DOMAIN known' = DOMAIN known \cup Names(p) /\ Names(p) \subseteq GraphNodes
          /\ \A n \in DOMAIN known' : known'[n] = IF n \in Names(p) THEN FALSE ELSE known[n]
          /\ out' = out /\ in' = in /\ since' = since /\ hour' = hour /\ drawing' = drawing
      BY <1>8, AddNodesKnown
    <2>3. \A n \in DOMAIN known' : known'[n] \in BOOLEAN
      <3> TAKE n \in DOMAIN known'
      <3>1. CASE n \in Names(p)
        <4>1. known'[n] = FALSE
          BY <2>2, <3>1
        <4> QED BY <4>1, Zenon
      <3>2. CASE n \notin Names(p)
        <4>1. n \in DOMAIN known /\ known'[n] = known[n]
          BY <2>2, <3>2
        <4> QED BY <1>1, <4>1, Zenon
      <3> QED BY <3>1, <3>2
    <2>4. \A q \in GraphPayments : payment'[q].began <= hour
      <3>1. hour <= hour
        BY <1>1
      <3> QED BY <1>1, <2>1, <3>1 DEF OnlyPayment
    <2>5. Drawing(drawing', DOMAIN known', DOMAIN since')
      BY <1>1, <1>4, <2>2
    <2>6. payment' \in [GraphPayments -> GraphPayment] /\ DOMAIN known' \subseteq GraphNodes
      BY <1>1, <2>1, <2>2 DEF OnlyPayment
    <2> QED BY <1>1, <1>2, <1>3, <2>2, <2>3, <2>4, <2>5, <2>6
  <1>9. ASSUME NEW p \in GraphPayments, AddEdge(p) PROVE GraphTyped'
    <2>1. OnlyPayment(p) /\ payment'[p].began = payment[p].began
      BY <1>9, AddEdgePayment
    <2>2. PICK l : AddsLink(p, l)
      BY <1>9, AddEdgeAdds
    <2>3. /\ DOMAIN since' = DOMAIN since \cup {l} /\ since'[l] = payment[p].began
          /\ \A x \in DOMAIN since : x # l => since'[x] = since[x]
          /\ Listed'
      BY <2>2, LinkTyped
    <2>4. known' = known /\ hour' = hour /\ drawing' = drawing
      BY <2>2 DEF AddsLink
    <2>5. \A x \in DOMAIN since' : since'[x] \in Nat /\ since'[x] <= hour'
      <3>1. payment[p].began \in Nat /\ payment[p].began <= hour
        BY <1>1 DEF GraphPayment
      <3> QED BY <1>1, <2>3, <2>4, <3>1
    <2>6. \A q \in GraphPayments : payment'[q].began <= hour
      BY <1>1, <2>1 DEF OnlyPayment
    <2>7. Drawing(drawing', DOMAIN known', DOMAIN since')
      BY <1>1, <1>4, <2>3, <2>4
    <2>8. payment' \in [GraphPayments -> GraphPayment]
      BY <2>1 DEF OnlyPayment
    <2> QED BY <1>1, <1>2, <2>3, <2>4, <2>5, <2>6, <2>7, <2>8
  <1>10. ASSUME NEW p \in GraphPayments, EvaluateGraph(p) PROVE GraphTyped'
    <2>1. OnlyPayment(p) /\ payment'[p].began = payment[p].began
      BY <1>10, EvaluatePayment
    <2>2. known' = known /\ out' = out /\ in' = in /\ since' = since /\ hour' = hour /\ drawing' = drawing
      BY <1>10 DEF EvaluateGraph
    <2>3. \A q \in GraphPayments : payment'[q].began <= hour
      BY <1>1, <2>1 DEF OnlyPayment
    <2>4. payment' \in [GraphPayments -> GraphPayment]
      BY <2>1 DEF OnlyPayment
    <2> QED BY <1>1, <1>2, <1>3, <2>2, <2>3, <2>4
  <1> QED BY <1>5, <1>6, <1>7, <1>8, <1>9, <1>10 DEF GraphNext

\* A payment has seven links to add, or five without a device.
LEMMA RelationsCount ==
  ASSUME GraphTyped, NEW p \in GraphPayments
  PROVE  /\ Len(Relations(p, payment[p].account, payment[p].device)) =
              (IF payment[p].device = NoDevice THEN 5 ELSE 7)
         /\ payment[p].linksDone \in 0 .. 7 /\ payment[p] \in GraphPayment
  <1>1. /\ payment[p] \in GraphPayment /\ payment[p].account \in GraphAccounts
        /\ payment[p].device \in GraphDevices \cup {NoDevice} /\ payment[p].linksDone \in 0 .. 7
    BY DEF GraphTyped, GraphPayment
  <1>2. RelationsFit(p, payment[p].account, payment[p].device)
    BY <1>1, RelationsFacts
  <1> QED BY <1>1, <1>2 DEF RelationsFit

LEMMA IngestingStep ==
  ASSUME GraphTyped, Ingesting, NamedClean, GraphNext
  PROVE  Ingesting'
  <1> DEFINE Fine(q) ==
        /\ payment'[q].pc = "arrived" => payment'[q].linksDone = 0
        /\ payment'[q].pc = "adding" => RelationsLeft(q)' > 0
        /\ payment'[q].pc \in {"added", "evaluated"} => RelationsLeft(q)' = 0
        /\ payment'[q].pc # "evaluated" => payment'[q].evidence = NoEvidence
  <1>1. (\A q \in GraphPayments : Fine(q)) => Ingesting'
    BY DEF Ingesting
  <1>2. ASSUME NEW q \in GraphPayments, payment'[q] = payment[q] PROVE Fine(q)
    <2>1. RelationsLeft(q)' = RelationsLeft(q)
      BY <1>2 DEF RelationsLeft
    <2> QED BY <1>2, <2>1 DEF Ingesting
  <1> HIDE DEF Fine
  <1>3. CASE DrawNodes \/ DrawLinks \/ GraphHourPasses
    <2>1. payment' = payment
      BY <1>3, DrawNodesAfter, DrawLinksAfter, HourAfter
    <2> QED BY <1>1, <1>2, <2>1
  <1>4. ASSUME NEW p \in GraphPayments, AddNodes(p) PROVE Ingesting'
    <2>1. /\ OnlyPayment(p) /\ payment[p].pc = "arrived" /\ payment'[p].pc = "adding"
          /\ payment'[p].linksDone = payment[p].linksDone /\ payment'[p].evidence = payment[p].evidence
      BY <1>4, AddNodesPayment
    <2>2. payment[p].linksDone = 0 /\ payment[p].evidence = NoEvidence
      BY <2>1 DEF Ingesting
    <2>3. RelationsLeft(p)' = Len(Relations(p, payment[p].account, payment[p].device)) - 0
      BY <2>1, <2>2 DEF RelationsLeft, OnlyPayment
    <2>4. RelationsLeft(p)' > 0
      BY <2>3, RelationsCount
    <2>5. Fine(p)
      BY <2>1, <2>2, <2>4 DEF Fine
    <2> QED BY <1>1, <1>2, <2>1, <2>5 DEF OnlyPayment
  <1>5. ASSUME NEW p \in GraphPayments, AddEdge(p) PROVE Ingesting'
    <2> DEFINE n == Len(Relations(p, payment[p].account, payment[p].device))
    <2>1. /\ OnlyPayment(p) /\ payment[p].pc = "adding"
          /\ payment'[p].linksDone = payment[p].linksDone + 1 /\ payment'[p].evidence = payment[p].evidence
          /\ payment[p].linksDone + 1 \in 1 .. n
          /\ payment'[p].pc = IF payment[p].linksDone + 1 = n THEN "added" ELSE "adding"
      BY <1>5, AddEdgePayment
    <2>2. n \in Nat /\ payment[p].linksDone \in Nat
      BY RelationsCount
    <2>3. RelationsLeft(p)' = n - (payment[p].linksDone + 1)
      BY <2>1 DEF RelationsLeft, OnlyPayment
    <2>4. payment[p].evidence = NoEvidence
      BY <2>1 DEF Ingesting
    <2> DEFINE k == payment[p].linksDone
    <2>5. /\ payment'[p].pc = (IF k + 1 = n THEN "added" ELSE "adding") /\ RelationsLeft(p)' = n - (k + 1)
          /\ k \in Nat /\ n \in Nat /\ k + 1 \in 1 .. n
      BY <2>1, <2>2, <2>3
    <2> HIDE DEF n, k
    <2>6. CASE k + 1 = n
      <3>1. payment'[p].pc = "added" /\ RelationsLeft(p)' = 0
        BY <2>5, <2>6
      <3> QED BY <1>1, <1>2, <2>1, <2>4, <3>1 DEF Fine, OnlyPayment
    <2>7. CASE k + 1 # n
      <3>1. payment'[p].pc = "adding" /\ RelationsLeft(p)' > 0
        BY <2>5, <2>7
      <3> QED BY <1>1, <1>2, <2>1, <2>4, <3>1 DEF Fine, OnlyPayment
    <2> QED BY <2>6, <2>7
  <1>6. ASSUME NEW p \in GraphPayments, EvaluateGraph(p) PROVE Ingesting'
    <2>1. /\ OnlyPayment(p) /\ payment[p].pc = "added" /\ payment'[p].pc = "evaluated"
          /\ payment'[p].linksDone = payment[p].linksDone
      BY <1>6, EvaluatePayment
    <2>2. RelationsLeft(p)' = RelationsLeft(p)
      BY <2>1 DEF RelationsLeft, OnlyPayment
    <2>3. RelationsLeft(p) = 0
      BY <2>1 DEF Ingesting
    <2>4. Fine(p)
      BY <2>1, <2>2, <2>3 DEF Fine
    <2> QED BY <1>1, <1>2, <2>1, <2>4 DEF OnlyPayment
  <1> QED BY <1>3, <1>4, <1>5, <1>6 DEF GraphNext

LEMMA NamedCleanStep ==
  ASSUME GraphTyped, Ingesting, NamedClean, GraphNext
  PROVE  NamedClean'
  <1>1. GraphMoves
    BY EachMoves
  <1>2. ASSUME NEW q \in GraphPayments, payment'[q].pc # "arrived", NEW n \in Names(q)',
               \A m \in DOMAIN known : known[m] = FALSE => known'[m] = FALSE,
               payment[q].pc # "arrived"
        PROVE  n \in DOMAIN known' /\ known'[n] = FALSE
    <2>1. n \in DOMAIN known /\ known[n] = FALSE
      BY <1>1, <1>2, NamesStay DEF NamedClean
    <2> QED BY <1>1, <1>2, <2>1 DEF GraphMoves
  <1>3. CASE DrawNodes \/ DrawLinks \/ GraphHourPasses
    <2>1. payment' = payment /\ known' = known
      BY <1>3, DrawNodesAfter, DrawLinksAfter, HourAfter
    <2> QED BY <1>2, <2>1 DEF NamedClean
  <1>4. ASSUME NEW p \in GraphPayments, AddNodes(p) PROVE NamedClean'
    <2>1. OnlyPayment(p)
      BY <1>4, AddNodesPayment
    <2>2. /\ DOMAIN known' = DOMAIN known \cup Names(p)
          /\ \A n \in DOMAIN known' : known'[n] = IF n \in Names(p) THEN FALSE ELSE known[n]
      BY <1>4, AddNodesKnown
    <2>3. \A m \in DOMAIN known : known[m] = FALSE => known'[m] = FALSE
      BY <2>2, Zenon
    <2>4. \A n \in Names(p)' : n \in DOMAIN known' /\ known'[n] = FALSE
      <3>1. Names(p)' = Names(p)
        BY <1>1, NamesStay
      <3> QED BY <2>2, <3>1, Zenon
    <2>5. \A q \in GraphPayments \ {p} : payment'[q].pc = payment[q].pc
      BY <2>1 DEF OnlyPayment
    <2> QED BY <1>2, <2>3, <2>4, <2>5 DEF NamedClean
  <1>5. ASSUME NEW p \in GraphPayments, AddEdge(p) PROVE NamedClean'
    <2>1. OnlyPayment(p) /\ payment[p].pc = "adding"
      BY <1>5, AddEdgePayment
    <2>2. known' = known
      <3>1. PICK l : AddsLink(p, l)
        BY <1>5, AddEdgeAdds
      <3> QED BY <3>1 DEF AddsLink
    <2>3. \A q \in GraphPayments : payment'[q].pc # "arrived" => payment[q].pc # "arrived"
      BY <2>1 DEF OnlyPayment
    <2> QED BY <1>2, <2>2, <2>3 DEF NamedClean
  <1>6. ASSUME NEW p \in GraphPayments, EvaluateGraph(p) PROVE NamedClean'
    <2>1. OnlyPayment(p) /\ payment[p].pc = "added"
      BY <1>6, EvaluatePayment
    <2>2. known' = known
      BY <1>6 DEF EvaluateGraph
    <2>3. \A q \in GraphPayments : payment'[q].pc # "arrived" => payment[q].pc # "arrived"
      BY <2>1 DEF OnlyPayment
    <2> QED BY <1>2, <2>2, <2>3 DEF NamedClean
  <1> QED BY <1>3, <1>4, <1>5, <1>6 DEF GraphNext

LEMMA EndsKnownStep ==
  ASSUME GraphTyped, Ingesting, NamedClean, EndsKnown, GraphNext
  PROVE  EndsKnown'
  <1>1. DOMAIN known \subseteq DOMAIN known'
    BY EachMoves DEF GraphMoves
  <1>2. CASE since' = since
    BY <1>1, <1>2 DEF EndsKnown
  <1>3. ASSUME NEW p \in GraphPayments, AddEdge(p) PROVE EndsKnown'
    <2>1. PICK l : AddsLink(p, l)
      BY <1>3, AddEdgeAdds
    <2>2. payment[p].pc = "adding"
      BY <1>3, AddEdgePayment
    <2>3. DOMAIN since' = DOMAIN since \cup {l}
      BY <2>1, LinkTyped
    <2>4. l.from \in DOMAIN known /\ l.to \in DOMAIN known
      BY <2>1, <2>2 DEF AddsLink, NamedClean
    <2> QED BY <1>1, <2>3, <2>4 DEF EndsKnown
  <1> QED BY <1>2, <1>3, DrawNodesAfter, DrawLinksAfter, HourAfter, AddNodesKnown DEF GraphNext, EvaluateGraph

LEMMA DatedStep ==
  ASSUME GraphTyped, Ingesting, NamedClean, Dated, GraphNext
  PROVE  Dated'
  <1> DEFINE TheLink(q) == Link(Account(payment[q].account), Device(payment[q].device))
             Cause(q, r) == /\ payment[r].pc # "arrived" /\ payment[r].account = payment[q].account
                            /\ payment[r].device = payment[q].device /\ since[TheLink(q)] = payment[r].began
             Due(q) == payment[q].device # NoDevice /\ payment[q].linksDone >= 4
  <1>1. \A q \in GraphPayments : Due(q) => TheLink(q) \in DOMAIN since /\ \E r \in GraphPayments : Cause(q, r)
    BY DEF Dated
  <1>2. (\A q \in GraphPayments :
           Due(q)' => TheLink(q)' \in DOMAIN since' /\ \E r \in GraphPayments : Cause(q, r)') => Dated'
    BY DEF Dated
  <1>3. GraphMoves
    BY EachMoves
  <1>4. \A q \in GraphPayments : TheLink(q)' = TheLink(q)
    BY <1>3 DEF GraphMoves
  <1>5. ASSUME NEW q \in GraphPayments, NEW r \in GraphPayments, Cause(q, r),
               since'[TheLink(q)] = since[TheLink(q)]
        PROVE  Cause(q, r)'
    BY <1>3, <1>4, <1>5 DEF GraphMoves
  <1>6. ASSUME since' = since, \A q \in GraphPayments : payment'[q].linksDone = payment[q].linksDone
        PROVE  Dated'
    <2> SUFFICES ASSUME NEW q \in GraphPayments, Due(q)'
                 PROVE  TheLink(q)' \in DOMAIN since' /\ \E r \in GraphPayments : Cause(q, r)'
      BY <1>2
    <2>1. Due(q)
      BY <1>3, <1>6 DEF GraphMoves
    <2> HIDE DEF Due, TheLink, Cause
    <2>2. PICK r \in GraphPayments : Cause(q, r)
      BY <1>1, <2>1
    <2>3. Cause(q, r)'
      BY <1>5, <1>6, <2>2
    <2> QED BY <1>1, <1>4, <1>6, <2>1, <2>3
  <1>7. CASE DrawNodes \/ DrawLinks \/ GraphHourPasses
    <2>1. payment' = payment /\ since' = since
      BY <1>7, DrawNodesAfter, DrawLinksAfter, HourAfter
    <2> QED BY <1>6, <2>1
  <1>8. ASSUME NEW p \in GraphPayments, AddNodes(p) PROVE Dated'
    <2>1. OnlyPayment(p) /\ payment'[p].linksDone = payment[p].linksDone /\ since' = since
      BY <1>8, AddNodesPayment, AddNodesKnown
    <2> QED BY <1>6, <2>1 DEF OnlyPayment
  <1>9. ASSUME NEW p \in GraphPayments, EvaluateGraph(p) PROVE Dated'
    <2>1. OnlyPayment(p) /\ payment'[p].linksDone = payment[p].linksDone
      BY <1>9, EvaluatePayment
    <2>2. since' = since
      BY <1>9 DEF EvaluateGraph
    <2> QED BY <1>6, <2>1, <2>2 DEF OnlyPayment
  <1>10. ASSUME NEW p \in GraphPayments, AddEdge(p) PROVE Dated'
    <2>1. /\ OnlyPayment(p) /\ payment[p].pc = "adding" /\ payment'[p].began = payment[p].began
          /\ payment'[p].linksDone = payment[p].linksDone + 1 /\ payment'[p].pc # "arrived"
      BY <1>10, AddEdgePayment
    <2>2. PICK l : AddsLink(p, l)
      BY <1>10, AddEdgeAdds
    <2>3. /\ DOMAIN since' = DOMAIN since \cup {l} /\ since'[l] = payment[p].began
          /\ \A x \in DOMAIN since : x # l => since'[x] = since[x]
      BY <2>2, LinkTyped
    <2>4. ASSUME NEW q \in GraphPayments, TheLink(q) = l
          PROVE  Cause(q, p)'
      <3>1. payment[q].account = payment[p].account /\ payment[q].device = payment[p].device
        BY <2>2, <2>4 DEF AddsLink
      <3>2. since'[TheLink(q)'] = payment'[p].began
        BY <1>4, <2>1, <2>3, <2>4
      <3>3. /\ payment'[q].account = payment[q].account /\ payment'[q].device = payment[q].device
            /\ payment'[p].account = payment[p].account /\ payment'[p].device = payment[p].device
        BY <1>3 DEF GraphMoves
      <3> QED BY <2>1, <3>1, <3>2, <3>3
    <2> SUFFICES ASSUME NEW q \in GraphPayments, Due(q)'
                 PROVE  TheLink(q)' \in DOMAIN since' /\ \E r \in GraphPayments : Cause(q, r)'
      BY <1>2
    <2>5. Due(q) \/ TheLink(q) = l
      <3>1. CASE q = p
        <4>1. payment[p].linksDone \in Nat /\ payment[p].linksDone + 1 >= 4 /\ payment[p].device # NoDevice
          BY <1>3, <2>1, <3>1, RelationsCount DEF GraphMoves
        <4>2. payment[p].linksDone >= 4 \/ payment[p].linksDone + 1 = 4
          BY <4>1
        <4> QED BY <2>2, <3>1, <4>1, <4>2 DEF AddsLink
      <3>2. CASE q # p
        <4>1. payment'[q] = payment[q]
          BY <2>1, <3>2 DEF OnlyPayment
        <4> QED BY <4>1
      <3> QED BY <3>1, <3>2
    <2> HIDE DEF Due, TheLink, Cause
    <2>6. CASE TheLink(q) = l
      BY <1>4, <2>3, <2>4, <2>6
    <2>7. CASE Due(q) /\ TheLink(q) # l
      <3>1. TheLink(q) \in DOMAIN since /\ since'[TheLink(q)] = since[TheLink(q)]
        BY <1>1, <2>3, <2>7
      <3>2. PICK r \in GraphPayments : Cause(q, r)
        BY <1>1, <2>7
      <3>3. Cause(q, r)'
        BY <1>5, <3>1, <3>2
      <3> QED BY <1>4, <2>3, <3>1, <3>3
    <2> QED BY <2>5, <2>6, <2>7
  <1> QED BY <1>7, <1>8, <1>9, <1>10 DEF GraphNext

\* A mark goes only when a payment that arrives names its node.
LEMMA MarksStay ==
  ASSUME GraphTyped, Ingesting, NamedClean, GraphNext
  PROVE  \A n \in DOMAIN known :
           \/ known'[n] = known[n]
           \/ \E q \in GraphPayments : payment[q].pc = "arrived" /\ payment'[q].pc # "arrived" /\ n \in Names(q)
  <1>1. CASE known' = known
    BY <1>1
  <1>2. ASSUME NEW p \in GraphPayments, AddNodes(p)
        PROVE  \A n \in DOMAIN known : known'[n] = known[n] \/ n \in Names(p)
    <2>1. /\ DOMAIN known' = DOMAIN known \cup Names(p)
          /\ \A n \in DOMAIN known' : known'[n] = IF n \in Names(p) THEN FALSE ELSE known[n]
      BY <1>2, AddNodesKnown
    <2> QED BY <2>1, Zenon
  <1>3. ASSUME NEW p \in GraphPayments, AddNodes(p)
        PROVE  payment[p].pc = "arrived" /\ payment'[p].pc # "arrived"
    BY <1>3, AddNodesPayment
  <1>4. ASSUME NEW p \in GraphPayments, AddEdge(p) PROVE known' = known
    <2>1. PICK l : AddsLink(p, l)
      BY <1>4, AddEdgeAdds
    <2> QED BY <2>1 DEF AddsLink
  <1> QED BY <1>1, <1>2, <1>3, <1>4, DrawNodesAfter, DrawLinksAfter, HourAfter DEF GraphNext, EvaluateGraph

\* The parts of a payment's evidence that stand in a graph.
EvidenceInGraph(p) ==
  LET e == payment[p].evidence
  IN /\ e.reached \subseteq Wide(Account(payment[p].account), DOMAIN since) /\ e.reached \subseteq DOMAIN known
     /\ e.bad \subseteq e.reached /\ \A n \in Names(p) : n \notin e.bad
     /\ \A n \in e.bad : \/ known[n] = TRUE
                         \/ \E q \in GraphPayments \ {p} : payment[q].pc # "arrived" /\ n \in Names(q)

\* Evidence that stands goes on standing.
LEMMA EvidenceKept ==
  ASSUME GraphTyped, Ingesting, NamedClean, GraphNext, NEW p \in GraphPayments,
         payment[p].pc = "evaluated", EvidenceInGraph(p)
  PROVE  EvidenceInGraph(p)'
  <1> DEFINE e == payment[p].evidence
             a == Account(payment[p].account)
  <1>1. GraphMoves
    BY EachMoves
  <1>2. payment'[p] = payment[p]
    BY <1>1 DEF GraphMoves
  <1>3. e' = e /\ a' = a /\ Names(p)' = Names(p)
    BY <1>1, <1>2, NamesStay
  <1>4. /\ e.reached \subseteq Wide(a, DOMAIN since) /\ e.reached \subseteq DOMAIN known
        /\ e.bad \subseteq e.reached /\ \A n \in Names(p) : n \notin e.bad
        /\ \A n \in e.bad : \/ known[n] = TRUE
                            \/ \E q \in GraphPayments \ {p} : payment[q].pc # "arrived" /\ n \in Names(q)
    BY DEF EvidenceInGraph
  <1>5. (/\ e'.reached \subseteq Wide(a', DOMAIN since') /\ e'.reached \subseteq DOMAIN known'
         /\ e'.bad \subseteq e'.reached /\ \A n \in Names(p)' : n \notin e'.bad
         /\ \A n \in e'.bad : \/ known'[n] = TRUE
                              \/ \E q \in GraphPayments \ {p} : payment'[q].pc # "arrived" /\ n \in Names(q)')
        => EvidenceInGraph(p)'
    BY Zenon DEF EvidenceInGraph
  <1> HIDE DEF e, a
  <1>6. Wide(a, DOMAIN since) \subseteq Wide(a, DOMAIN since') /\ DOMAIN known \subseteq DOMAIN known'
    <2>1. DOMAIN since \subseteq DOMAIN since' /\ DOMAIN known \subseteq DOMAIN known'
      BY <1>1 DEF GraphMoves
    <2> QED BY <2>1, WideGrows
  <1>7. \A n \in e.bad : \/ known'[n] = TRUE
                         \/ \E q \in GraphPayments \ {p} : payment'[q].pc # "arrived" /\ n \in Names(q)'
    <2> TAKE n \in e.bad
    <2>1. n \in DOMAIN known
      BY <1>4
    <2>2. \A q \in GraphPayments : /\ Names(q)' = Names(q)
                                   /\ payment[q].pc # "arrived" => payment'[q].pc # "arrived"
      BY <1>1, NamesStay DEF GraphMoves
    <2>3. CASE \E q \in GraphPayments \ {p} : payment[q].pc # "arrived" /\ n \in Names(q)
      BY <2>2, <2>3, Zenon
    <2>4. CASE known'[n] = known[n] /\ known[n] = TRUE
      BY <2>4
    <2>5. CASE \E q \in GraphPayments : payment[q].pc = "arrived" /\ payment'[q].pc # "arrived" /\ n \in Names(q)
      <3>1. PICK q \in GraphPayments : payment[q].pc = "arrived" /\ payment'[q].pc # "arrived" /\ n \in Names(q)
        BY <2>5
      <3>2. q # p
        BY <3>1
      <3> QED BY <2>2, <3>1, <3>2
    <2> QED BY <1>4, <2>1, <2>3, <2>4, <2>5, MarksStay, Zenon
  <1> QED BY <1>3, <1>4, <1>5, <1>6, <1>7

\* What is within reach of a node that is known is known.
LEMMA WideKnown ==
  ASSUME EndsKnown, NEW n \in DOMAIN known
  PROVE  Wide(n, DOMAIN since) \subseteq DOMAIN known
  <1>1. ASSUME NEW ns, ns \subseteq DOMAIN known PROVE Joining(ns, DOMAIN since) \subseteq DOMAIN known
    <2> SUFFICES ASSUME NEW x \in Joining(ns, DOMAIN since) PROVE x \in DOMAIN known
      OBVIOUS
    <2>1. x \in ns \/ \E l \in DOMAIN since : x = l.from \/ x = l.to
      BY JoiningMember
    <2> QED BY <1>1, <2>1 DEF EndsKnown
  <1> DEFINE ls == DOMAIN since
  <1>2. Joining({n}, ls) \subseteq DOMAIN known
    BY <1>1
  <1>3. Joining(Joining({n}, ls), ls) \subseteq DOMAIN known
    BY <1>1, <1>2
  <1>4. Joining(Joining(Joining({n}, ls), ls), ls) \subseteq DOMAIN known
    BY <1>1, <1>3
  <1> QED BY <1>4 DEF Wide

LEMMA EvidenceStandsStep ==
  ASSUME GraphTyped, Ingesting, NamedClean, EndsKnown, EvidenceStands, GraphNext
  PROVE  EvidenceStands'
  <1>1. \A p \in GraphPayments : payment[p].pc = "evaluated" => EvidenceInGraph(p)
    BY Zenon DEF EvidenceStands, EvidenceInGraph
  <1>2. (\A p \in GraphPayments : payment'[p].pc = "evaluated" => EvidenceInGraph(p)') => EvidenceStands'
    BY Zenon DEF EvidenceStands, EvidenceInGraph
  <1>3. \A p \in GraphPayments : payment[p].pc = "evaluated" => EvidenceInGraph(p)'
    BY <1>1, EvidenceKept
  <1>4. CASE \A p \in GraphPayments : payment'[p].pc = "evaluated" => payment[p].pc = "evaluated"
    BY <1>2, <1>3, <1>4
  <1>5. CASE DrawNodes \/ DrawLinks \/ GraphHourPasses
    <2>1. payment' = payment
      BY <1>5, DrawNodesAfter, DrawLinksAfter, HourAfter
    <2> QED BY <1>4, <2>1
  <1>6. ASSUME NEW p \in GraphPayments, AddNodes(p) PROVE EvidenceStands'
    <2>1. OnlyPayment(p) /\ payment'[p].pc = "adding"
      BY <1>6, AddNodesPayment
    <2> QED BY <1>4, <2>1 DEF OnlyPayment
  <1>7. ASSUME NEW p \in GraphPayments, AddEdge(p) PROVE EvidenceStands'
    <2>1. OnlyPayment(p) /\ payment'[p].pc # "evaluated"
      BY <1>7, AddEdgePayment
    <2> QED BY <1>4, <2>1 DEF OnlyPayment
  <1>8. ASSUME NEW p \in GraphPayments, EvaluateGraph(p) PROVE EvidenceStands'
    <2> DEFINE a == Account(payment[p].account)
               e == payment'[p].evidence
    <2>1. /\ OnlyPayment(p) /\ payment[p].pc = "added" /\ e = Traversal(a)
          /\ a \in GraphNodes /\ a \in DOMAIN known
      BY <1>8, EvaluatePayment
    <2>2. since' = since /\ known' = known
      BY <1>8 DEF EvaluateGraph
    <2>3. payment'[p].account = payment[p].account /\ Names(p)' = Names(p)
      BY <2>1, NamesStay, EachMoves DEF OnlyPayment
    <2> HIDE DEF a, e
    <2>4. e.reached \subseteq Near(a) /\ e.bad = {n \in e.reached \cap DOMAIN known : known[n]}
      BY <2>1, EvidenceOf DEF GraphTyped
    <2>5. Near(a) \subseteq Wide(a, DOMAIN since) /\ Wide(a, DOMAIN since) \subseteq DOMAIN known
      BY <2>1, NearIsWide, WideKnown
    <2>6. \A n \in e.bad : n \in e.reached /\ n \in DOMAIN known /\ known[n] = TRUE
      <3>1. \A n \in e.bad : n \in e.reached /\ n \in DOMAIN known /\ known[n]
        BY <2>4
      <3>2. \A n \in DOMAIN known : known[n] \in BOOLEAN
        BY DEF GraphTyped
      <3> QED BY <3>1, <3>2, Zenon
    <2>7. \A n \in Names(p) : n \notin e.bad
      <3>1. \A n \in Names(p) : known[n] = FALSE
        BY <2>1 DEF NamedClean
      <3> QED BY <2>6, <3>1, Zenon
    <2>8. e.reached \subseteq Wide(a, DOMAIN since) /\ e.reached \subseteq DOMAIN known
      BY <2>4, <2>5
    <2>9. EvidenceInGraph(p)'
      <3>1. (/\ e.reached \subseteq Wide(a', DOMAIN since') /\ e.reached \subseteq DOMAIN known'
             /\ e.bad \subseteq e.reached /\ \A n \in Names(p)' : n \notin e.bad
             /\ \A n \in e.bad : known'[n] = TRUE)
            => EvidenceInGraph(p)'
        BY Zenon DEF EvidenceInGraph, e, a
      <3>2. a' = a
        BY <2>3 DEF a
      <3> QED BY <2>2, <2>3, <2>6, <2>7, <2>8, <3>1, <3>2
    <2> QED BY <1>2, <1>3, <2>1, <2>9 DEF OnlyPayment
  <1> QED BY <1>5, <1>6, <1>7, <1>8 DEF GraphNext

\* A node of a payment that arrived after the nodes were drawn.
Newcomer(n) == \E p \in GraphPayments \ drawing.added : n \in Names(p)

LEMMA DrawingMissedStep ==
  ASSUME GraphTyped, Ingesting, NamedClean, EndsKnown, DrawingMissed, DrawingHas, GraphNext
  PROVE  DrawingMissed'
  <1>1. GraphMoves
    BY EachMoves
  <1>2. /\ drawing.pc = "nodes" => \A n \in DOMAIN known \ DOMAIN drawing.nodes : Newcomer(n)
        /\ drawing.pc = "drawn" =>
             \A l \in drawing.links : \A n \in {l.from, l.to} \ DOMAIN drawing.nodes : Newcomer(n)
    BY Zenon DEF DrawingMissed, Newcomer
  <1>3. (/\ drawing'.pc = "nodes" => \A n \in DOMAIN known' \ DOMAIN drawing'.nodes : Newcomer(n)'
         /\ drawing'.pc = "drawn" =>
              \A l \in drawing'.links : \A n \in {l.from, l.to} \ DOMAIN drawing'.nodes : Newcomer(n)')
        => DrawingMissed'
    BY Zenon DEF DrawingMissed, Newcomer
  <1>4. ASSUME drawing'.added = drawing.added, NEW n PROVE Newcomer(n)' <=> Newcomer(n)
    <2>1. \A q \in GraphPayments : Names(q)' = Names(q)
      BY <1>1, NamesStay
    <2> QED BY <1>4, <2>1, Zenon DEF Newcomer
  <1>5. CASE drawing' = drawing /\ known' = known
    BY <1>2, <1>3, <1>4, <1>5, Zenon
  <1>6. CASE DrawNodes
    BY <1>3, <1>6, DrawNodesAfter
  <1>7. CASE DrawLinks
    <2>1. /\ drawing.pc = "nodes" /\ drawing'.pc = "drawn" /\ drawing'.nodes = drawing.nodes
          /\ drawing'.links = DOMAIN since /\ drawing'.added = drawing.added
      BY <1>7, DrawLinksAfter
    <2>2. \A l \in DOMAIN since : \A n \in {l.from, l.to} \ DOMAIN drawing.nodes : Newcomer(n)'
      BY <1>2, <1>4, <2>1 DEF EndsKnown
    <2>3. drawing'.pc # "nodes"
      BY <2>1
    <2> QED BY <1>3, <2>1, <2>2, <2>3
  <1>8. ASSUME NEW p \in GraphPayments, AddNodes(p) PROVE DrawingMissed'
    <2>1. drawing' = drawing /\ DOMAIN known' = DOMAIN known \cup Names(p)
      BY <1>8, AddNodesKnown
    <2>2. p \notin drawing.added
      BY <1>8, AddNodesPayment DEF DrawingHas
    <2>3. \A n \in Names(p) : Newcomer(n)
      BY <2>2, Zenon DEF Newcomer
    <2>4. \A n \in DOMAIN known' \ DOMAIN drawing.nodes : drawing.pc = "nodes" => Newcomer(n)'
      BY <1>2, <1>4, <2>1, <2>3
    <2> QED BY <1>2, <1>3, <1>4, <2>1, <2>4
  <1>9. ASSUME NEW p \in GraphPayments, AddEdge(p) PROVE DrawingMissed'
    <2>1. PICK l : AddsLink(p, l)
      BY <1>9, AddEdgeAdds
    <2> QED BY <1>5, <2>1 DEF AddsLink
  <1> QED BY <1>5, <1>6, <1>7, <1>8, <1>9, HourAfter DEF GraphNext, EvaluateGraph

\* What the drawing has of the evidence of a payment.
EvidenceDrawn(p) ==
  LET e == payment[p].evidence
  IN /\ payment[p].pc = "evaluated" /\ e.reached \subseteq DOMAIN drawing.nodes
     /\ \A n \in e.bad : drawing.nodes[n] = TRUE \/ \E q \in drawing.added \ {p} : n \in Names(q)
     /\ drawing.pc = "drawn" => e.reached \subseteq Wide(Account(payment[p].account), drawing.links)

LEMMA DrawingHasStep ==
  ASSUME GraphTyped, Ingesting, NamedClean, EndsKnown, EvidenceStands, DrawingHas, GraphNext
  PROVE  DrawingHas'
  <1>1. GraphMoves
    BY EachMoves
  <1>2. \A p \in drawing.added : payment[p].pc # "arrived"
    BY DEF DrawingHas
  <1>3. \A p \in drawing.evaluated : EvidenceDrawn(p)
    BY Zenon DEF DrawingHas, EvidenceDrawn
  <1>4. (\A p \in drawing'.added : payment'[p].pc # "arrived") /\ (\A p \in drawing'.evaluated : EvidenceDrawn(p)')
        => DrawingHas'
    BY Zenon DEF DrawingHas, EvidenceDrawn
  <1>5. drawing.evaluated \subseteq drawing.added /\ drawing.added \subseteq GraphPayments
    BY DEF GraphTyped
  <1>6. \A q \in GraphPayments : Names(q)' = Names(q)
    BY <1>1, NamesStay
  <1>7. ASSUME drawing' = drawing PROVE DrawingHas'
    <2>1. \A p \in drawing.added : payment'[p].pc # "arrived"
      BY <1>1, <1>2, <1>5 DEF GraphMoves
    <2>2. ASSUME NEW p \in drawing.evaluated PROVE EvidenceDrawn(p)'
      <3>1. payment[p].pc = "evaluated"
        BY <1>3 DEF EvidenceDrawn
      <3>2. payment'[p] = payment[p]
        BY <1>1, <1>5, <3>1 DEF GraphMoves
      <3>3. \A n : (\E q \in drawing.added \ {p} : n \in Names(q)) => \E q \in drawing.added \ {p} : n \in Names(q)'
        BY <1>5, <1>6
      <3> QED BY <1>3, <1>7, <3>2, <3>3, Zenon DEF EvidenceDrawn
    <2> QED BY <1>4, <1>7, <2>1, <2>2
  <1>8. CASE DrawNodes
    <2>1. /\ drawing'.pc = "nodes" /\ drawing'.nodes = known /\ payment' = payment
          /\ drawing'.added = {p \in GraphPayments : payment[p].pc # "arrived"}
          /\ drawing'.evaluated = {p \in GraphPayments : payment[p].pc = "evaluated"}
      BY <1>8, DrawNodesAfter
    <2>2. ASSUME NEW p \in GraphPayments, payment[p].pc = "evaluated" PROVE EvidenceDrawn(p)'
      <3> DEFINE e == payment[p].evidence
      <3>1. /\ e.reached \subseteq DOMAIN known
            /\ \A n \in e.bad : \/ known[n] = TRUE
                                \/ \E q \in GraphPayments \ {p} : payment[q].pc # "arrived" /\ n \in Names(q)
        BY <2>2, Zenon DEF EvidenceStands
      <3>2. \A n \in e.bad : drawing'.nodes[n] = TRUE \/ \E q \in drawing'.added \ {p} : n \in Names(q)'
        <4> TAKE n \in e.bad
        <4>1. CASE known[n] = TRUE
          BY <2>1, <4>1, Zenon
        <4>2. CASE \E q \in GraphPayments \ {p} : payment[q].pc # "arrived" /\ n \in Names(q)
          <5>1. PICK q \in GraphPayments \ {p} : payment[q].pc # "arrived" /\ n \in Names(q)
            BY <4>2
          <5>2. q \in drawing'.added \ {p} /\ n \in Names(q)'
            BY <1>6, <2>1, <5>1
          <5> QED BY <5>2
        <4> QED BY <3>1, <4>1, <4>2
      <3>3. drawing'.pc # "drawn"
        BY <2>1
      <3>4. e' = e /\ payment'[p].pc = "evaluated"
        BY <2>1, <2>2
      <3>5. (/\ payment'[p].pc = "evaluated" /\ e'.reached \subseteq DOMAIN drawing'.nodes
             /\ \A n \in e'.bad : drawing'.nodes[n] = TRUE \/ \E q \in drawing'.added \ {p} : n \in Names(q)'
             /\ drawing'.pc # "drawn")
            => EvidenceDrawn(p)'
        BY Zenon DEF EvidenceDrawn
      <3> HIDE DEF e
      <3> QED BY <2>1, <3>1, <3>2, <3>3, <3>4, <3>5
    <2> QED BY <1>4, <2>1, <2>2
  <1>9. CASE DrawLinks
    <2>1. /\ drawing'.nodes = drawing.nodes /\ payment' = payment /\ drawing'.links = DOMAIN since
          /\ drawing'.added = drawing.added /\ drawing'.evaluated = drawing.evaluated
      BY <1>9, DrawLinksAfter
    <2>2. ASSUME NEW p \in drawing.evaluated PROVE EvidenceDrawn(p)'
      <3> DEFINE e == payment[p].evidence
                 a == Account(payment[p].account)
      <3>1. /\ payment[p].pc = "evaluated" /\ e.reached \subseteq DOMAIN drawing.nodes
            /\ \A n \in e.bad : drawing.nodes[n] = TRUE \/ \E q \in drawing.added \ {p} : n \in Names(q)
        BY <1>3, Zenon DEF EvidenceDrawn
      <3>2. e.reached \subseteq Wide(a, DOMAIN since)
        BY <1>5, <3>1, Zenon DEF EvidenceStands
      <3>3. (/\ payment'[p].pc = "evaluated" /\ e'.reached \subseteq DOMAIN drawing'.nodes
             /\ \A n \in e'.bad : drawing'.nodes[n] = TRUE \/ \E q \in drawing'.added \ {p} : n \in Names(q)'
             /\ e'.reached \subseteq Wide(a', drawing'.links))
            => EvidenceDrawn(p)'
        BY Zenon DEF EvidenceDrawn
      <3>4. e' = e /\ a' = a /\ payment'[p].pc = "evaluated"
        BY <2>1, <3>1
      <3>5. \A n : (\E q \in drawing.added \ {p} : n \in Names(q)) => \E q \in drawing.added \ {p} : n \in Names(q)'
        BY <1>5, <1>6
      <3> HIDE DEF e, a
      <3>6. \A n \in e.bad : drawing'.nodes[n] = TRUE \/ \E q \in drawing'.added \ {p} : n \in Names(q)'
        BY <2>1, <3>1, <3>5, Zenon
      <3> QED BY <2>1, <3>1, <3>2, <3>3, <3>4, <3>6
    <2> QED BY <1>2, <1>4, <2>1, <2>2
  <1>10. ASSUME NEW p \in GraphPayments, AddEdge(p) PROVE DrawingHas'
    <2>1. PICK l : AddsLink(p, l)
      BY <1>10, AddEdgeAdds
    <2> QED BY <1>7, <2>1 DEF AddsLink
  <1> QED BY <1>7, <1>8, <1>9, <1>10, HourAfter, AddNodesKnown DEF GraphNext, EvaluateGraph

\* Payments of two accounts on one device, looked at while every link of theirs to it is fresh.
Together(p, q) ==
  LET a == payment[p].account
      b == payment[q].account
      d == payment[p].device
  IN /\ payment[p].pc = "evaluated" /\ payment[q].pc = "evaluated"
     /\ a # b /\ payment[q].device = d /\ d # NoDevice
     /\ \A r \in GraphPayments :
          payment[r].pc # "arrived" /\ payment[r].account \in {a, b} /\ payment[r].device = d =>
            /\ payment[p].evidence.at <= payment[r].began + FreshFor
            /\ payment[q].evidence.at <= payment[r].began + FreshFor
Sees(p, q) == Account(payment[q].account) \in payment[p].evidence.reached \/ payment[p].evidence.capped

\* The later of the two sees the earlier: both links to the device are in the graph, and fresh.
LEMMA LaterSees ==
  ASSUME GraphTyped, Ingesting, NamedClean, Dated, GraphMoves, NEW p \in GraphPayments, NEW q \in GraphPayments,
         EvaluateGraph(p), payment[q].pc = "evaluated",
         Together(p, q)' \/ Together(q, p)'
  PROVE  Sees(p, q)'
  <1> DEFINE a == payment[p].account
             b == payment[q].account
             d == payment[p].device
             e == payment'[p].evidence
             l == Link(Account(a), Device(d))
             m == Link(Account(b), Device(d))
  <1>1. /\ payment[p].pc = "added" /\ e = Traversal(Account(a)) /\ payment'[p].began = payment[p].began
        /\ Account(a) \in GraphNodes /\ Account(a) \in DOMAIN known /\ OnlyPayment(p)
    BY EvaluatePayment
  <1>2. /\ \A r \in GraphPayments : payment'[r].account = payment[r].account /\ payment'[r].device = payment[r].device
        /\ \A r \in GraphPayments : payment[r].pc # "arrived" =>
             payment'[r].pc # "arrived" /\ payment'[r].began = payment[r].began
    BY DEF GraphMoves
  <1>3. payment[q].device = d /\ d # NoDevice
    BY <1>2 DEF Together
  <1>4. \A r \in GraphPayments :
          payment[r].pc # "arrived" /\ payment[r].account \in {a, b} /\ payment[r].device = d =>
            e.at <= payment[r].began + FreshFor
    BY <1>2, <1>3 DEF Together
  <1>5. payment[p].linksDone >= 4 /\ payment[q].linksDone >= 4
    <2>1. ASSUME NEW r \in GraphPayments, payment[r].pc \in {"added", "evaluated"}, payment[r].device = d
          PROVE  payment[r].linksDone >= 4
      <3> DEFINE k == payment[r].linksDone
      <3>1. Len(Relations(r, payment[r].account, payment[r].device)) = 7 /\ k \in 0 .. 7
        BY <1>3, <2>1, RelationsCount
      <3>2. 7 - k = 0
        BY <2>1, <3>1 DEF Ingesting, RelationsLeft
      <3> HIDE DEF k
      <3>3. k >= 4
        BY <3>1, <3>2
      <3> QED BY <3>3 DEF k
    <2> QED BY <1>1, <1>3, <2>1
  <1> HIDE DEF e
  <1>6. /\ e.reached \subseteq Near(Account(a)) /\ (e.capped = TRUE \/ e.reached = Near(Account(a))) /\ e.at = hour
    BY <1>1, EvidenceOf DEF GraphTyped
  <1>7. ASSUME NEW x \in GraphPayments, x = p \/ x = q
        PROVE  Link(Account(payment[x].account), Device(d)) \in DOMAIN since
               /\ Fresh(Link(Account(payment[x].account), Device(d)))
    <2> DEFINE k == Link(Account(payment[x].account), Device(d))
    <2>1. payment[x].device = d /\ payment[x].linksDone >= 4
      BY <1>3, <1>5, <1>7
    <2>2. /\ k \in DOMAIN since
          /\ \E r \in GraphPayments : /\ payment[r].pc # "arrived" /\ payment[r].account = payment[x].account
                                      /\ payment[r].device = d /\ since[k] = payment[r].began
      <3>1. LET n == Link(Account(payment[x].account), Device(payment[x].device))
            IN payment[x].device # NoDevice /\ payment[x].linksDone >= 4 =>
                 /\ n \in DOMAIN since
                 /\ \E r \in GraphPayments :
                      /\ payment[r].pc # "arrived" /\ payment[r].account = payment[x].account
                      /\ payment[r].device = payment[x].device /\ since[n] = payment[r].began
        BY Zenon DEF Dated
      <3> QED BY <1>3, <2>1, <3>1, Zenon
    <2>3. PICK r \in GraphPayments : /\ payment[r].pc # "arrived" /\ payment[r].account = payment[x].account
                                     /\ payment[r].device = d /\ since[k] = payment[r].began
      BY <2>2
    <2>4. e.at <= payment[r].began + FreshFor
      BY <1>4, <1>7, <2>3
    <2> HIDE DEF k
    <2>5. payment[r].began \in Nat /\ FreshFor \in Nat /\ hour \in Nat
      BY GraphAssumption DEF GraphTyped, GraphPayment
    <2>6. since[k] + FreshFor >= hour
      BY <1>6, <2>3, <2>4, <2>5
    <2> QED BY <2>2, <2>6 DEF Fresh, k
  <1>8. l \in DOMAIN since /\ Fresh(l) /\ l.from = Account(a) /\ l.to = Device(d)
    BY <1>7, LinkEnds
  <1>9. m \in DOMAIN since /\ Fresh(m) /\ m.from = Account(b) /\ m.to = Device(d)
    BY <1>7, LinkEnds
  <1> HIDE DEF l, m
  <1>10. Device(d) \in Around({Account(a)})
    BY <1>8, AroundMember
  <1>11. Account(b) \in Around(Around({Account(a)}))
    BY <1>9, <1>10, AroundMember
  <1>12. Account(b) \in Near(Account(a))
    BY <1>11, AroundMember DEF Near
  <1>13. Account(b) \in e.reached \/ e.capped
    BY <1>6, <1>12
  <1>14. payment'[q].account = b
    BY <1>2
  <1> QED BY <1>13, <1>14 DEF Sees, e

LEMMA OneSeesOtherStep ==
  ASSUME GraphTyped, Ingesting, NamedClean, Dated, OneSeesOther, GraphNext
  PROVE  OneSeesOther'
  <1>1. \A p, q \in GraphPayments : Together(p, q) => Sees(p, q) \/ Sees(q, p)
    BY Zenon DEF OneSeesOther, Together, Sees
  <1>2. (\A p, q \in GraphPayments : Together(p, q)' => Sees(p, q)' \/ Sees(q, p)') => OneSeesOther'
    BY Zenon DEF OneSeesOther, Together, Sees
  <1>3. GraphMoves
    BY EachMoves
  <1> SUFFICES ASSUME NEW p \in GraphPayments, NEW q \in GraphPayments, Together(p, q)'
               PROVE  Sees(p, q)' \/ Sees(q, p)'
    BY <1>2
  <1>4. payment'[p].pc = "evaluated" /\ payment'[q].pc = "evaluated" /\ p # q
    BY DEF Together
  <1>5. CASE payment[p].pc = "evaluated" /\ payment[q].pc = "evaluated"
    <2>1. payment'[p] = payment[p] /\ payment'[q] = payment[q]
      BY <1>3, <1>5 DEF GraphMoves
    <2>2. Together(p, q)
      BY <1>3, <2>1 DEF Together, GraphMoves
    <2>3. (Sees(p, q) => Sees(p, q)') /\ (Sees(q, p) => Sees(q, p)')
      BY <2>1 DEF Sees
    <2> QED BY <1>1, <2>2, <2>3
  <1>6. CASE payment' = payment
    BY <1>4, <1>5, <1>6
  <1>7. ASSUME NEW x \in GraphPayments, AddNodes(x) PROVE Sees(p, q)' \/ Sees(q, p)'
    <2>1. OnlyPayment(x) /\ payment'[x].pc = "adding"
      BY <1>7, AddNodesPayment
    <2> QED BY <1>4, <1>5, <2>1 DEF OnlyPayment
  <1>8. ASSUME NEW x \in GraphPayments, AddEdge(x) PROVE Sees(p, q)' \/ Sees(q, p)'
    <2>1. OnlyPayment(x) /\ payment'[x].pc # "evaluated"
      BY <1>8, AddEdgePayment
    <2> QED BY <1>4, <1>5, <2>1 DEF OnlyPayment
  <1>9. ASSUME NEW x \in GraphPayments, EvaluateGraph(x) PROVE Sees(p, q)' \/ Sees(q, p)'
    <2>1. OnlyPayment(x)
      BY <1>9, EvaluatePayment
    <2>2. CASE x = p
      <3>1. payment[q].pc = "evaluated"
        BY <1>4, <2>1, <2>2 DEF OnlyPayment
      <3> QED BY <1>3, <1>9, <2>2, <3>1, LaterSees
    <2>3. CASE x = q
      <3>1. payment[p].pc = "evaluated"
        BY <1>4, <2>1, <2>3 DEF OnlyPayment
      <3> QED BY <1>3, <1>9, <2>3, <3>1, LaterSees
    <2>4. CASE x # p /\ x # q
      BY <1>4, <1>5, <2>1, <2>4 DEF OnlyPayment
    <2> QED BY <2>2, <2>3, <2>4
  <1> QED BY <1>6, <1>7, <1>8, <1>9, DrawNodesAfter, DrawLinksAfter, HourAfter DEF GraphNext

\* A step of another component leaves it as it is.
LEMMA GraphStutters ==
  ASSUME GraphIInv, UNCHANGED graphVars
  PROVE  GraphIInv'
  <1>1. /\ payment' = payment /\ known' = known /\ out' = out /\ in' = in /\ since' = since /\ hour' = hour
        /\ drawing' = drawing
    BY DEF graphVars
  <1>2. GraphTyped'
    <2>1. Listed' <=> Listed
      BY <1>1 DEF Listed
    <2> QED BY <1>1, <2>1, Zenon DEF GraphIInv, GraphTyped
  <1>3. \A p : RelationsLeft(p)' = RelationsLeft(p) /\ Names(p)' = Names(p)
    BY <1>1 DEF RelationsLeft, Names
  <1>4. Ingesting'
    BY <1>1, <1>3, Zenon DEF GraphIInv, Ingesting
  <1>5. NamedClean' /\ EndsKnown'
    BY <1>1, <1>3, Zenon DEF GraphIInv, NamedClean, EndsKnown
  <1>6. Dated'
    BY <1>1, Zenon DEF GraphIInv, Dated
  <1>7. EvidenceStands'
    BY <1>1, <1>3, Zenon DEF GraphIInv, EvidenceStands
  <1>8. DrawingMissed' /\ DrawingHas'
    BY <1>1, <1>3, Zenon DEF GraphIInv, DrawingMissed, DrawingHas
  <1>9. OneSeesOther'
    BY <1>1, Zenon DEF GraphIInv, OneSeesOther
  <1> QED BY <1>2, <1>4, <1>5, <1>6, <1>7, <1>8, <1>9 DEF GraphIInv

\* The charge of every payment that was looked at, in its neighbourhood and in a larger one.
LEMMA ChargesGrow ==
  GraphTyped => EvidenceNeverClears
  <1> SUFFICES ASSUME GraphTyped, NEW p \in GraphPayments, NEW n \in 0 .. 3, NEW k \in {0, 8}, NEW b \in 0 .. 3
               PROVE  GraphRisk(Cardinality(OtherAccounts(p)) + 0, Cardinality(OtherDevices(p)),
                                payment[p].evidence.edges + 0, Cardinality(payment[p].evidence.bad) + 0)
                        <= GraphRisk(Cardinality(OtherAccounts(p)) + n, Cardinality(OtherDevices(p)),
                                     payment[p].evidence.edges + k, Cardinality(payment[p].evidence.bad) + b)
    BY Zenon DEF EvidenceNeverClears
  <1> DEFINE e == payment[p].evidence
             x == Cardinality(OtherAccounts(p))
             y == Cardinality(OtherDevices(p))
             z == Cardinality(e.bad)
             m == e.edges
  <1>1. e.reached \subseteq GraphNodes /\ e.bad \subseteq GraphNodes /\ m \in Nat
    BY DEF GraphTyped, GraphPayment, GraphEvidence
  <1>2. OtherAccounts(p) \subseteq GraphNodes /\ OtherDevices(p) \subseteq GraphNodes
    BY <1>1 DEF OtherAccounts, OtherDevices
  <1>3. x \in Nat /\ y \in Nat /\ z \in Nat
    BY <1>1, <1>2, NodesFinite, FS_Subset, FS_CardinalityType
  <1> HIDE DEF e, x, y, z, m
  <1>4. x + 0 = x /\ m + 0 = m /\ z + 0 = z /\ n \in Nat /\ b \in Nat
    BY <1>1, <1>3
  <1>5. GraphRisk(x, y, m, z) <= GraphRisk(x + n, y, m + k, z + b)
    BY <1>1, <1>3, <1>4, RiskGrows
  <1> QED BY <1>4, <1>5 DEF e, x, y, z, m

\* The property of the run about the drawing.
LEMMA DrawingShows ==
  GraphIInv => DrawingShowsEvidence
  <1> SUFFICES ASSUME GraphIInv, drawing.pc = "drawn" PROVE DrawingShowsEvidence
    BY DEF DrawingShowsEvidence
  <1>1. \A l \in drawing.links : \A n \in {l.from, l.to} \ DOMAIN drawing.nodes :
          \E p \in GraphPayments \ drawing.added : n \in Names(p)
    BY Zenon DEF GraphIInv, DrawingMissed
  <1>2. ASSUME NEW p \in drawing.evaluated, Account(payment[p].account) = drawing.root
        PROVE  /\ payment[p].evidence.reached \subseteq Ring(drawing, 3) \cap DOMAIN drawing.nodes
               /\ \A n \in payment[p].evidence.bad :
                    DrawnRisk(drawing, n) = "CONFIRMED_FRAUD" \/ \E q \in drawing.added \ {p} : n \in Names(q)
    <2>1. /\ payment[p].evidence.reached \subseteq DOMAIN drawing.nodes
          /\ \A n \in payment[p].evidence.bad :
               drawing.nodes[n] = TRUE \/ \E q \in drawing.added \ {p} : n \in Names(q)
          /\ payment[p].evidence.reached \subseteq Wide(drawing.root, drawing.links)
      BY <1>2, Zenon DEF GraphIInv, DrawingHas
    <2>2. Ring(drawing, 3) = Wide(drawing.root, drawing.links)
      BY ThirdRing
    <2>3. \A n : drawing.nodes[n] = TRUE => DrawnRisk(drawing, n) = "CONFIRMED_FRAUD"
      BY Zenon DEF DrawnRisk
    <2> QED BY <2>1, <2>2, <2>3
  <1> QED BY <1>1, <1>2 DEF DrawingShowsEvidence

\* The type invariant that the run checks.
LEMMA GraphTypedOK ==
  GraphTyped => GraphTypeOK
  <1> SUFFICES ASSUME GraphTyped PROVE GraphTypeOK
    OBVIOUS
  <1>1. payment \in [GraphPayments ->
          [pc : {"arrived", "adding", "added", "evaluated"}, account : GraphAccounts,
           device : GraphDevices \cup {NoDevice}, linksDone : 0 .. 7, began : 0 .. MaxGraphHour,
           evidence : [reached : SUBSET GraphNodes, edges : Nat, bad : SUBSET GraphNodes,
                       at : 0 .. MaxGraphHour, capped : BOOLEAN]]]
    BY Zenon DEF GraphTyped, GraphPayment, GraphEvidence
  <1>2. \A n \in GraphNodes : /\ Range(out[n]) = {l \in DOMAIN since : l.from = n}
                              /\ Range(in[n]) = {l \in DOMAIN since : l.to = n}
    BY DEF GraphTyped, Listed
  <1>3. /\ DOMAIN known \subseteq GraphNodes /\ \A n \in DOMAIN known : known[n] \in BOOLEAN
        /\ \A l \in DOMAIN since : since[l] <= hour
        /\ hour \in 0 .. MaxGraphHour
        /\ drawing.pc \in {"none", "nodes", "drawn"} /\ drawing.root \in GraphNodes
        /\ DOMAIN drawing.nodes \subseteq DOMAIN known /\ drawing.links \subseteq DOMAIN since
        /\ drawing.evaluated \subseteq drawing.added /\ drawing.added \subseteq GraphPayments
    BY Zenon DEF GraphTyped
  <1> QED BY <1>1, <1>2, <1>3, Zenon DEF GraphTypeOK

\* What the run checks follows.
LEMMA InvariantIsEnough ==
  GraphIInv => GraphSound
  <1> SUFFICES ASSUME GraphIInv PROVE GraphSound
    OBVIOUS
  <1>1. GraphTypeOK /\ EvidenceNeverClears
    BY GraphTypedOK, ChargesGrow DEF GraphIInv
  <1>2. ReachIsNeighbourhood
    BY ReachesNeighbourhood DEF GraphIInv, GraphTyped
  <1>3. OwnEntitiesNeverCount
    <2> SUFFICES ASSUME NEW p \in GraphPayments PROVE payment[p].evidence.bad \cap Names(p) = {}
      BY DEF OwnEntitiesNeverCount, Names
    <2>1. CASE payment[p].pc = "evaluated"
      <3>1. \A n \in Names(p) : n \notin payment[p].evidence.bad
        BY <2>1, Zenon DEF GraphIInv, EvidenceStands
      <3> QED BY <3>1
    <2>2. CASE payment[p].pc # "evaluated"
      <3>1. payment[p].evidence = NoEvidence
        BY <2>2 DEF GraphIInv, Ingesting
      <3>2. payment[p].evidence.bad = {}
        BY <3>1 DEF NoEvidence
      <3> QED BY <3>2
    <2> QED BY <2>1, <2>2
  <1> QED BY <1>1, <1>2, <1>3, DrawingShows DEF GraphIInv, GraphSound

(* Nothing that a payment or a drawing is told of the graph is wrong: what  *)
(* a traversal reaches is the neighbourhood, of two accounts on a device    *)
(* the later sees the earlier, no payment is held against itself, more      *)
(* evidence never charges less, and the drawing shows what was charged      *)
(* (Traverse3HopTemporal, EvaluateTenantEntityGraph,                        *)
(* ExportTenantFraudGraph).                                                 *)
THEOREM GraphIsSound == GraphSpec => []GraphSound
  <1>1. GraphInit => GraphIInv
    BY GraphStarts
  <1>2. GraphIInv /\ [GraphNext]_graphVars => GraphIInv'
    <2> SUFFICES ASSUME GraphIInv, [GraphNext]_graphVars PROVE GraphIInv'
      OBVIOUS
    <2>1. CASE UNCHANGED graphVars
      BY <2>1, GraphStutters
    <2>2. CASE GraphNext
      <3>1. /\ GraphTyped /\ Ingesting /\ NamedClean /\ EndsKnown /\ Dated /\ EvidenceStands
            /\ DrawingMissed /\ DrawingHas /\ OneSeesOther
        BY DEF GraphIInv
      <3>2. GraphTyped' /\ Ingesting' /\ NamedClean'
        BY <2>2, <3>1, TypedStep, IngestingStep, NamedCleanStep
      <3>3. EndsKnown' /\ Dated' /\ EvidenceStands'
        BY <2>2, <3>1, EndsKnownStep, DatedStep, EvidenceStandsStep
      <3>4. DrawingMissed' /\ DrawingHas' /\ OneSeesOther'
        BY <2>2, <3>1, DrawingMissedStep, DrawingHasStep, OneSeesOtherStep
      <3> QED BY <3>2, <3>3, <3>4 DEF GraphIInv
    <2> QED BY <2>1, <2>2
  <1>3. GraphIInv => GraphSound
    BY InvariantIsEnough
  <1> QED BY <1>1, <1>2, <1>3, PTL DEF GraphSpec

=================================================================================
