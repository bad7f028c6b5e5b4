------------------------------ MODULE AuditChain ------------------------------
(***************************************************************************)
(* The hash chain of decisions and its readers-writer lock                  *)
(* (governance/decision_audit.go). Evaluate appends to it before it         *)
(* answers; GET /audit/verify asks for its status. Go's RWMutex admits no   *)
(* new reader once a writer waits, and GetStatus takes the read lock twice. *)
(* A hash is the record that it is of, with the hash before it.             *)
(***************************************************************************)
EXTENDS Naturals, Sequences, FiniteSets, SequencesExt

CONSTANTS
  Appenders, \* decisions to append
  Auditors   \* calls of GetStatus

ASSUME TrailAssumption == Appenders \cap Auditors = {}

VARIABLES
  trailPc,  \* the control point of each call
  locals,   \* the hash an appender read
  trail,    \* records, each with its PreviousHash and RecordHash
  headHash, \* currentHash
  verdicts  \* what verification said to the auditors

trailVars == <<trailPc, locals, trail, headHash, verdicts>>

Genesis == <<>>
HashOf(prev, id) == Append(prev, id)
Hashes == SeqOf(Appenders, Cardinality(Appenders))

TrailTypeOK ==
  /\ trailPc \in [Appenders \cup Auditors ->
                    {"idle", "waiting", "holding", "verifying", "done"}]
  /\ locals \in [Appenders -> Hashes] /\ headHash \in Hashes
  /\ trail \in Seq([id : Appenders, prev : Hashes, hash : Hashes])
  /\ verdicts \subseteq BOOLEAN

TrailInit ==
  /\ trailPc = [c \in Appenders \cup Auditors |-> "idle"]
  /\ locals = [a \in Appenders |-> Genesis]
  /\ trail = <<>> /\ headHash = Genesis /\ verdicts = {}

To(c, pc) == trailPc' = [trailPc EXCEPT ![c] = pc]
Readers == {s \in Auditors : trailPc[s] \in {"holding", "verifying"}}
WriterAsks == \E a \in Appenders : trailPc[a] \in {"waiting", "holding"}
WriterHolds == \E a \in Appenders : trailPc[a] = "holding"

\* Lock: from here on new readers wait.
AskAppend(a) == trailPc[a] = "idle" /\ To(a, "waiting") /\ UNCHANGED <<locals, trail, headHash, verdicts>>

\* The readers have left, and no other writer is inside.
EnterAppend(a) ==
  /\ trailPc[a] = "waiting" /\ Readers = {} /\ ~WriterHolds
  /\ To(a, "holding") /\ locals' = [locals EXCEPT ![a] = headHash]
  /\ UNCHANGED <<trail, headHash, verdicts>>

\* Mutant: the lock is kept.
AppendDecisionLocked(a) ==
  LET hash == HashOf(locals[a], a)
  IN /\ trailPc[a] = "holding" /\ headHash # hash
     /\ trail' = Append(trail, [id |-> a, prev |-> locals[a], hash |-> hash])
     /\ headHash' = hash
     /\ UNCHANGED <<trailPc, locals, verdicts>>

AppendDecision(a) ==
  LET hash == HashOf(locals[a], a)
  IN /\ trailPc[a] = "holding"
     /\ trail' = Append(trail, [id |-> a, prev |-> locals[a], hash |-> hash])
     /\ headHash' = hash
     /\ To(a, "done") /\ UNCHANGED <<locals, verdicts>>

\* VerifyIntegrity.
Intact ==
  \A i \in DOMAIN trail :
    /\ trail[i].prev = (IF i = 1 THEN Genesis ELSE trail[i - 1].hash)
    /\ trail[i].hash = HashOf(trail[i].prev, trail[i].id)

\* GetStatus takes the read lock, VerifyIntegrity takes it once more.
BeginStatus(s) ==
  /\ trailPc[s] = "idle" /\ ~WriterAsks
  /\ To(s, "holding") /\ UNCHANGED <<locals, trail, headHash, verdicts>>
BeginVerify(s) ==
  /\ trailPc[s] = "holding" /\ ~WriterAsks
  /\ To(s, "verifying") /\ UNCHANGED <<locals, trail, headHash, verdicts>>
EndStatus(s) ==
  /\ trailPc[s] = "verifying"
  /\ verdicts' = verdicts \cup {Intact}
  /\ To(s, "done") /\ UNCHANGED <<locals, trail, headHash>>

AppendStep(a) == AskAppend(a) \/ EnterAppend(a) \/ AppendDecision(a)
StatusStep(s) == BeginStatus(s) \/ BeginVerify(s) \/ EndStatus(s)
TrailNext == (\E a \in Appenders : AppendStep(a)) \/ (\E s \in Auditors : StatusStep(s))
TrailSpec == TrailInit /\ [][TrailNext]_trailVars

-----------------------------------------------------------------------------

(* However appends and verifications interleave, the chain verifies, also   *)
(* for who asks in between, and its head is the hash of its last record.    *)
ChainVerifies ==
  /\ Intact /\ FALSE \notin verdicts
  /\ headHash = (IF trail = <<>> THEN Genesis ELSE Last(trail).hash)

(* An append returns unless a status call is inside: nothing else holds up  *)
(* the decisions.                                                           *)
AppendReturnsUnlessStatus ==
  \A a \in Appenders :
    trailPc[a] = "waiting" ~> trailPc[a] = "done" \/ Readers # {}

(* "GetStatus returns a verifiable integrity snapshot of the audit trail"   *)
(* (decision_audit.go:119): a status call that is inside returns.           *)
StatusReturns == \A s \in Auditors : trailPc[s] = "holding" ~> trailPc[s] = "done"

(* The chain verifies at all times, and only a status call holds up an      *)
(* append.                                                                  *)
TrailKept ==
  []TrailTypeOK /\ []ChainVerifies /\ AppendReturnsUnlessStatus

===============================================================================
