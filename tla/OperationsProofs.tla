---------------------------- MODULE OperationsProofs ----------------------------
(***************************************************************************)
(* Theorems about what watches the backend: the console of the operators,   *)
(* incidents and their alerts, drift, service levels, and the processes that*)
(* train the candidates.                                                    *)
(***************************************************************************)
EXTENDS OperationsSuite, FiniteSetTheorems, WellFoundedInduction, TLAPS

(* The console. *)

\* A clerk between the two looks at the job has one in hand.
ClerksHoldJobs == \A c \in Clerks : clerk[c].pc # "idle" => clerk[c].file \in Files

ConsoleIInv == ConsoleTypeOK /\ JobsFindable /\ GaugeTells /\ ClerksHoldJobs

Desks ==
  [phase : JobStates, active : Files \cup {NoFile}, last : Files \cup {NoFile}, on : SUBSET Controls]
ClerkRecords == [pc : {"idle", "cancelling", "rejecting"}, file : Files \cup {NoFile}, key : BOOLEAN]
AnswerRecords == [code : {0, 200, 202, 400, 401, 404, 409}, key : BOOLEAN]

LEMMA ConsoleTyped ==
  ASSUME ConsoleIInv
  PROVE  /\ desk \in Desks
         /\ past \in SUBSET Files /\ rollouts \in SUBSET Files /\ dropped \in SUBSET Files
         /\ work \in [Files -> {"none", "over"} \cup JobStates]
         /\ card \in [Files -> {"none", "listed", "validated", "shadowed"}]
         /\ clerk \in [Clerks -> ClerkRecords]
         /\ answer \in AnswerRecords
         /\ health \in [down : SUBSET Dependencies, known : SUBSET Dependencies, flips : 0 .. MaxFlips]
         /\ \A j \in 1 .. desk.last : desk.active = j \/ j \in past \/ j \in dropped
         /\ desk.phase \notin Startable <=> desk.active # NoFile
  BY DEF ConsoleIInv, ConsoleTypeOK, Desks, ClerkRecords, AnswerRecords, JobsFindable, JobFound, GaugeTells,
     RetrainingGauge

\* What follows from a desk whose changes are named.
DeskOK(d, p, dr) ==
  /\ d \in Desks /\ p \in SUBSET Files /\ dr \in SUBSET Files
  /\ \A j \in 1 .. d.last : d.active = j \/ j \in p \/ j \in dr
  /\ d.phase \notin Startable <=> d.active # NoFile

\* Ending a job files it, and whoever else had the slot is dropped.
LEMMA EndFileStep ==
  ASSUME ConsoleIInv, NEW j \in Files, NEW state \in {"FAILED", "REJECTED", "ROLLED_BACK", "PROMOTED"},
         EndFile(j, state)
  PROVE  DeskOK(desk', past', dropped')
  <1>1. desk \in Desks /\ past \in SUBSET Files /\ dropped \in SUBSET Files
        /\ \A i \in 1 .. desk.last : desk.active = i \/ i \in past \/ i \in dropped
    BY ConsoleTyped
  <1>2. state \in JobStates /\ state \in Startable
    BY DEF JobStates, Startable
  <1>3. /\ desk' \in Desks /\ desk'.phase = state /\ desk'.active = NoFile /\ desk'.last = desk.last
    BY <1>1, <1>2 DEF EndFile, Desks
  <1>4. past' = past \cup {j} /\ past' \in SUBSET Files
    BY <1>1 DEF EndFile
  <1>5. /\ dropped' \in SUBSET Files /\ dropped \subseteq dropped'
        /\ desk.active \in dropped' \cup {j, NoFile}
    BY <1>1 DEF EndFile, Desks
  <1>6. \A i \in 1 .. desk.last : i # NoFile
    BY DEF NoFile
  <1> QED BY <1>1, <1>2, <1>3, <1>4, <1>5, <1>6 DEF DeskOK

LEMMA ConsoleStep ==
  ASSUME ConsoleIInv, ConsoleNext
  PROVE  ConsoleIInv'
  <1>0. /\ desk \in Desks
        /\ past \in SUBSET Files /\ rollouts \in SUBSET Files /\ dropped \in SUBSET Files
        /\ work \in [Files -> {"none", "over"} \cup JobStates]
        /\ card \in [Files -> {"none", "listed", "validated", "shadowed"}]
        /\ clerk \in [Clerks -> ClerkRecords]
        /\ answer \in AnswerRecords
        /\ health \in [down : SUBSET Dependencies, known : SUBSET Dependencies, flips : 0 .. MaxFlips]
        /\ DeskOK(desk, past, dropped) /\ ClerksHoldJobs
    BY ConsoleTyped DEF DeskOK, ConsoleIInv
  <1>1. ASSUME DeskOK(desk', past', dropped'), rollouts' \in SUBSET Files,
               work' \in [Files -> {"none", "over"} \cup JobStates],
               card' \in [Files -> {"none", "listed", "validated", "shadowed"}],
               clerk' \in [Clerks -> ClerkRecords], ClerksHoldJobs', answer' \in AnswerRecords,
               health' \in [down : SUBSET Dependencies, known : SUBSET Dependencies, flips : 0 .. MaxFlips]
        PROVE  ConsoleIInv'
    <2>1. ConsoleTypeOK'
      BY <1>1 DEF ConsoleTypeOK, Desks, ClerkRecords, AnswerRecords, DeskOK
    <2>2. \A j \in 1 .. desk'.last : j # NoFile
      BY DEF NoFile
    <2>3. JobsFindable'
      BY <1>1, <2>2 DEF JobsFindable, JobFound, DeskOK
    <2>4. GaugeTells'
      BY <1>1 DEF GaugeTells, RetrainingGauge, DeskOK
    <2> QED BY <1>1, <2>1, <2>3, <2>4 DEF ConsoleIInv
  <1>2. MaxFiles \in Nat /\ MaxFlips \in Nat
    BY ConsoleAssumption
  <1>3. ASSUME UNCHANGED clerk PROVE clerk' \in [Clerks -> ClerkRecords] /\ ClerksHoldJobs'
    BY <1>0, <1>3 DEF ClerksHoldJobs
  <1>4. ASSUME NEW key \in BOOLEAN, NEW code \in {200, 202, 400, 404, 409}, Answers(code, key)
        PROVE  answer' \in AnswerRecords
    BY <1>4 DEF Answers, AnswerRecords
  <1>5. CASE Refuse
    <2>1. \A q \in Requests : Refusal(q) \in {0, 400, 401} /\ q.key \in BOOLEAN
      BY DEF Refusal, Requests
    <2>2. Refusals \subseteq AnswerRecords
      BY <2>1 DEF Refusals, AnswerRecords
    <2> QED BY <1>0, <1>1, <1>3, <1>5, <2>2 DEF Refuse
  <1>6. ASSUME NEW key \in BOOLEAN, TriggerRetraining(key) PROVE ConsoleIInv'
    <2>1. DeskOK(desk', past', dropped') /\ work' \in [Files -> {"none", "over"} \cup JobStates]
      <3>1. CASE UNCHANGED <<desk, work>>
        BY <1>0, <1>6, <3>1 DEF TriggerRetraining
      <3>2. CASE ~UNCHANGED <<desk, work>>
        <4>1. /\ desk.active = NoFile /\ desk.last < MaxFiles
              /\ desk' = [desk EXCEPT !.phase = "TRIGGERED", !.active = desk.last + 1, !.last = desk.last + 1]
              /\ work' = [work EXCEPT ![desk.last + 1] = "TRIGGERED"]
              /\ UNCHANGED <<past, dropped>>
          BY <1>6, <3>2 DEF TriggerRetraining
        <4>2. desk.last \in Nat /\ desk.last + 1 \in Files /\ "TRIGGERED" \in JobStates
              /\ "TRIGGERED" \notin Startable
          BY <1>0, <1>2, <4>1 DEF Desks, Files, NoFile, JobStates, Startable
        <4>3. /\ desk' \in Desks /\ desk'.phase = "TRIGGERED" /\ desk'.active = desk.last + 1
              /\ desk'.last = desk.last + 1
          BY <1>0, <4>1, <4>2 DEF Desks
        <4>4. \A j \in 1 .. desk.last : j # NoFile
          BY DEF NoFile
        <4>5. \A j \in 1 .. desk.last + 1 : j \in 1 .. desk.last \/ j = desk.last + 1
          BY <4>2
        <4>6. desk.last + 1 # NoFile
          BY <4>2 DEF NoFile
        <4>7. DeskOK(desk', past', dropped')
          BY <1>0, <4>1, <4>2, <4>3, <4>4, <4>5, <4>6 DEF DeskOK
        <4>8. work' \in [Files -> {"none", "over"} \cup JobStates]
          BY <1>0, <4>1, <4>2
        <4> QED BY <4>7, <4>8
      <3> QED BY <3>1, <3>2
    <2>2. answer' \in AnswerRecords
      BY <1>4, <1>6 DEF TriggerRetraining
    <2> QED BY <1>0, <1>1, <1>3, <1>6, <2>1, <2>2 DEF TriggerRetraining
  <1>7. ASSUME NEW key \in BOOLEAN, NEW v \in Files, Approve(v, key) PROVE ConsoleIInv'
    <2>1. DeskOK(desk', past', dropped') /\ rollouts' \in SUBSET Files
      <3>1. CASE UNCHANGED <<desk, rollouts>>
        BY <1>0, <1>7, <3>1 DEF Approve
      <3>2. CASE ~UNCHANGED <<desk, rollouts>>
        <4>1. /\ desk.phase = "AWAITING_APPROVAL" /\ desk' = [desk EXCEPT !.phase = "CANARY"]
              /\ rollouts' = rollouts \cup {desk.active} /\ UNCHANGED <<past, dropped>>
          BY <1>7, <3>2 DEF Approve
        <4>2. "AWAITING_APPROVAL" \notin Startable /\ "CANARY" \notin Startable /\ "CANARY" \in JobStates
          BY DEF Startable, JobStates
        <4>3. desk.active # NoFile /\ desk.active \in Files
          BY <1>0, <4>1, <4>2 DEF DeskOK, Desks
        <4>4. desk' \in Desks /\ desk'.phase = "CANARY" /\ desk'.active = desk.active /\ desk'.last = desk.last
          BY <1>0, <4>1, <4>2 DEF Desks
        <4> QED BY <1>0, <4>1, <4>2, <4>3, <4>4 DEF DeskOK
      <3> QED BY <3>1, <3>2
    <2>2. answer' \in AnswerRecords
      BY <1>4, <1>7 DEF Approve
    <2> QED BY <1>0, <1>1, <1>3, <1>7, <2>1, <2>2 DEF Approve
  <1>8. ASSUME NEW key \in BOOLEAN, NEW c \in Clerks, NEW pc \in {"cancelling", "rejecting"},
               NEW granted, granted => desk.active \in Files, Begin(c, pc, granted, key)
        PROVE  ConsoleIInv'
    <2>1. clerk' \in [Clerks -> ClerkRecords] /\ ClerksHoldJobs' /\ answer' \in AnswerRecords
      <3>1. CASE granted
        <4> DEFINE r == [pc |-> pc, file |-> desk.active, key |-> key]
        <4>1. clerk' = [clerk EXCEPT ![c] = r] /\ UNCHANGED answer
          BY <1>8, <3>1 DEF Begin
        <4>2. r \in ClerkRecords /\ r.file \in Files
          BY <1>8, <3>1 DEF ClerkRecords
        <4> HIDE DEF r
        <4> QED BY <1>0, <4>1, <4>2 DEF ClerksHoldJobs
      <3>2. CASE ~granted
        BY <1>3, <1>4, <1>8, <3>2 DEF Begin
      <3> QED BY <3>1, <3>2
    <2> QED BY <1>0, <1>1, <1>8, <2>1 DEF Begin
  <1>9. ASSUME NEW key \in BOOLEAN, NEW c \in Clerks, NEW j \in Files,
               BeginCancel(c, j, key) \/ BeginReject(c, j, key)
        PROVE  ConsoleIInv'
    <2>1. CASE BeginCancel(c, j, key)
      BY <1>8, <2>1 DEF BeginCancel
    <2>2. CASE BeginReject(c, j, key)
      <3>1. "AWAITING_APPROVAL" \notin Startable
        BY DEF Startable
      <3>2. desk.phase = "AWAITING_APPROVAL" => desk.active \in Files
        BY <1>0, <3>1 DEF DeskOK, Desks
      <3> QED BY <1>8, <2>2, <3>2 DEF BeginReject
    <2> QED BY <1>9, <2>1, <2>2
  <1>10. ASSUME NEW key \in BOOLEAN, NEW c \in Controls, NEW on \in BOOLEAN, Switch(c, on, key)
         PROVE  ConsoleIInv'
    <2>1. /\ desk' \in Desks /\ desk'.phase = desk.phase /\ desk'.active = desk.active
          /\ desk'.last = desk.last
      BY <1>0, <1>10 DEF Switch, Desks
    <2>2. DeskOK(desk', past', dropped')
      BY <1>0, <1>10, <2>1 DEF Switch, DeskOK
    <2>3. answer' \in AnswerRecords
      BY <1>4, <1>10 DEF Switch
    <2>4. health' \in [down : SUBSET Dependencies, known : SUBSET Dependencies, flips : 0 .. MaxFlips]
      BY <1>0, <1>2, <1>10 DEF Switch, Flips
    <2> QED BY <1>0, <1>1, <1>3, <1>10, <2>2, <2>3, <2>4 DEF Switch
  <1>11. ASSUME NEW j \in Files, WorkOn(j) PROVE ConsoleIInv'
    <2> DEFINE to == Following[work[j]]
    <2>1. to \in {"QUEUED", "TRAINING", "VALIDATING", "SHADOW_EVALUATION", "AWAITING_APPROVAL"}
      BY <1>11 DEF WorkOn, AtWork, Following
    <2>2. CardAfter(j) \in {"none", "listed", "validated", "shadowed"}
      BY <1>0 DEF CardAfter
    <2>3. card' \in [Files -> {"none", "listed", "validated", "shadowed"}]
      BY <1>0, <1>11, <2>2 DEF WorkOn
    <2>4. to \in JobStates /\ to \notin Startable
      BY <2>1 DEF JobStates, Startable
    <2>5. UNCHANGED <<rollouts, clerk, answer, health>>
      BY <1>11 DEF WorkOn
    <2>6. CASE CanTransition(desk.phase, to)
      <3>1. /\ desk' = [desk EXCEPT !.phase = to] /\ UNCHANGED <<past, dropped>>
            /\ work' = [work EXCEPT ![j] = IF to = "AWAITING_APPROVAL" THEN "over" ELSE to]
        BY <1>11, <2>6 DEF WorkOn
      <3>2. desk.phase \notin Startable
        BY <2>1, <2>6 DEF CanTransition, Startable
      <3> HIDE DEF to
      <3>3. desk' \in Desks /\ desk'.phase = to /\ desk'.active = desk.active /\ desk'.last = desk.last
        BY <1>0, <2>4, <3>1 DEF Desks
      <3>4. DeskOK(desk', past', dropped')
        BY <1>0, <2>4, <3>1, <3>2, <3>3 DEF DeskOK
      <3>5. work' \in [Files -> {"none", "over"} \cup JobStates]
        BY <1>0, <2>4, <3>1
      <3> QED BY <1>0, <1>1, <1>3, <2>3, <2>5, <3>4, <3>5
    <2>7. CASE ~CanTransition(desk.phase, to)
      <3>1. EndFile(j, "FAILED") /\ work' = [work EXCEPT ![j] = "over"]
        BY <1>11, <2>7 DEF WorkOn
      <3>2. DeskOK(desk', past', dropped')
        BY <3>1, EndFileStep
      <3>3. work' \in [Files -> {"none", "over"} \cup JobStates]
        BY <1>0, <3>1
      <3> QED BY <1>0, <1>1, <1>3, <2>3, <2>5, <3>2, <3>3
    <2> QED BY <2>6, <2>7
  <1>12. ASSUME NEW j \in Files, GiveUp(j) PROVE ConsoleIInv'
    <2>1. CardAfter(j) \in {"none", "listed", "validated", "shadowed"}
      BY <1>0 DEF CardAfter
    <2>2. card' \in [Files -> {"none", "listed", "validated", "shadowed"}]
      BY <1>0, <1>12, <2>1 DEF GiveUp
    <2>3. EndFile(j, "FAILED") \/ EndFile(j, "REJECTED")
      BY <1>12 DEF GiveUp
    <2>4. DeskOK(desk', past', dropped')
      BY <2>3, EndFileStep
    <2>5. work' \in [Files -> {"none", "over"} \cup JobStates]
      BY <1>0, <1>12 DEF GiveUp
    <2> QED BY <1>0, <1>1, <1>3, <1>12, <2>2, <2>4, <2>5 DEF GiveUp
  <1>13. ASSUME NEW j \in Files, EndRollout(j) PROVE ConsoleIInv'
    <2>1. EndFile(j, "ROLLED_BACK") \/ EndFile(j, "PROMOTED")
      BY <1>13 DEF EndRollout
    <2>2. DeskOK(desk', past', dropped')
      BY <2>1, EndFileStep
    <2> QED BY <1>0, <1>1, <1>3, <1>13, <2>2 DEF EndRollout
  <1>14. ASSUME NEW c \in Clerks, Finish(c) PROVE ConsoleIInv'
    <2>1. clerk[c].file \in Files /\ clerk[c].key \in BOOLEAN
      BY <1>0, <1>14 DEF Finish, ClerksHoldJobs, ClerkRecords
    <2>2. EndFile(clerk[c].file, "FAILED") \/ EndFile(clerk[c].file, "REJECTED")
      BY <1>14 DEF Finish
    <2>3. DeskOK(desk', past', dropped')
      BY <2>1, <2>2, EndFileStep
    <2>4. clerk' = [clerk EXCEPT ![c] = AtRest] /\ AtRest \in ClerkRecords /\ AtRest.pc = "idle"
      BY <1>14 DEF Finish, AtRest, ClerkRecords
    <2>5. clerk' \in [Clerks -> ClerkRecords] /\ ClerksHoldJobs'
      BY <1>0, <2>4 DEF ClerksHoldJobs
    <2>6. answer' \in AnswerRecords
      BY <1>4, <1>14, <2>1 DEF Finish
    <2> QED BY <1>0, <1>1, <1>14, <2>3, <2>5, <2>6 DEF Finish
  <1>15. ASSUME NEW e \in Open, NEW j \in Files, Read(e, j) PROVE ConsoleIInv'
    <2>1. answer' \in AnswerRecords
      BY ZenonT(60), <1>4, <1>15 DEF Read
    <2> QED BY <1>0, <1>1, <1>3, <1>15, <2>1 DEF Read
  <1>16. ASSUME NEW d \in Dependencies, DependencyChanges(d) \/ Probe(d) PROVE ConsoleIInv'
    <2>1. health' \in [down : SUBSET Dependencies, known : SUBSET Dependencies, flips : 0 .. MaxFlips]
      <3>1. CASE DependencyChanges(d)
        <4>1. /\ health.flips \in 0 .. MaxFlips /\ health.flips < MaxFlips /\ health.down \in SUBSET Dependencies
              /\ health' = [health EXCEPT !.flips = @ + 1, !.down = IF d \in @ THEN @ \ {d} ELSE @ \cup {d}]
          BY <1>0, <3>1 DEF DependencyChanges
        <4>2. health.flips + 1 \in 0 .. MaxFlips
          BY <1>2, <4>1
        <4>3. (IF d \in health.down THEN health.down \ {d} ELSE health.down \cup {d}) \in SUBSET Dependencies
          BY <4>1
        <4> QED BY <1>0, <4>1, <4>2, <4>3
      <3>2. CASE Probe(d)
        BY <1>0, <3>2 DEF Probe
      <3> QED BY <1>16, <3>1, <3>2
    <2> QED BY <1>0, <1>1, <1>3, <1>16, <2>1 DEF DependencyChanges, Probe
  <1> QED BY <1>5, <1>6, <1>7, <1>9, <1>10, <1>11, <1>12, <1>13, <1>14, <1>15, <1>16 DEF ConsoleNext

LEMMA ConsoleStart ==
  ASSUME ConsoleInit
  PROVE  ConsoleIInv
  <1>1. "IDLE" \in JobStates /\ "IDLE" \in Startable /\ MaxFlips \in Nat
    BY ConsoleAssumption DEF JobStates, Startable
  <1>2. ConsoleTypeOK
    BY <1>1 DEF ConsoleInit, ConsoleTypeOK, AtRest
  <1>3. JobsFindable
    BY DEF ConsoleInit, JobsFindable, NoFile
  <1>4. GaugeTells
    BY <1>1 DEF ConsoleInit, GaugeTells, RetrainingGauge
  <1>5. ClerksHoldJobs
    BY DEF ConsoleInit, ClerksHoldJobs, AtRest
  <1> QED BY <1>2, <1>3, <1>4, <1>5 DEF ConsoleIInv

LEMMA ConsoleKept ==
  ASSUME ConsoleIInv, [ConsoleNext]_consoleVars
  PROVE  ConsoleIInv'
  <1>1. CASE ConsoleNext
    BY <1>1, ConsoleStep
  <1>2. CASE UNCHANGED consoleVars
    <2>1. UNCHANGED <<desk, past, work, card, rollouts, dropped, clerk, answer, health>>
      BY <1>2 DEF consoleVars
    <2>2. ConsoleTypeOK'
      BY <2>1 DEF ConsoleIInv, ConsoleTypeOK
    <2>3. JobsFindable' /\ GaugeTells' /\ ClerksHoldJobs'
      BY <2>1 DEF ConsoleIInv, JobsFindable, JobFound, GaugeTells, RetrainingGauge, ClerksHoldJobs
    <2> QED BY <2>2, <2>3 DEF ConsoleIInv
  <1> QED BY <1>1, <1>2

LEMMA UnhealthyRefusesTraffic == UnhealthyIsNotReady
  BY DEF UnhealthyIsNotReady, Overall, Ready

\* RequireAdminAuth stands before every endpoint that changes something.
LEMMA OnlyKeysAreAdmitted ==
  ASSUME NEW e \in Guarded, NEW key \in BOOLEAN, Admitted(e, key)
  PROVE  key
  BY DEF Admitted, Refusal, NeedsKey

LEMMA AdministratorsStep ==
  ASSUME ConsoleIInv, ConsoleNext,
         desk.on' # desk.on \/ desk.last' # desk.last \/ ~(rollouts' \subseteq rollouts)
  PROVE  answer'.key /\ answer'.code \in {200, 202}
  <1>0. desk \in Desks
    BY ConsoleTyped
  <1>1. ASSUME NEW key \in BOOLEAN, TriggerRetraining(key) PROVE answer'.key /\ answer'.code \in {200, 202}
    <2>1. key
      BY <1>1, OnlyKeysAreAdmitted DEF TriggerRetraining, Guarded
    <2> QED BY <1>1, <2>1 DEF TriggerRetraining, Answers
  <1>2. ASSUME NEW key \in BOOLEAN, NEW v \in Files, Approve(v, key)
        PROVE  answer'.key /\ answer'.code \in {200, 202}
    <2>1. key
      BY <1>2, OnlyKeysAreAdmitted DEF Approve, Guarded
    <2> QED BY <1>2, <2>1 DEF Approve, Answers
  <1>3. ASSUME NEW key \in BOOLEAN, NEW c \in Controls, NEW on \in BOOLEAN, Switch(c, on, key)
        PROVE  answer'.key /\ answer'.code \in {200, 202}
    <2>1. key
      BY <1>3, OnlyKeysAreAdmitted DEF Switch, Guarded
    <2> QED BY <1>3, <2>1 DEF Switch, Answers
  <1>4. ASSUME NEW j \in Files, NEW state, EndFile(j, state) PROVE UNCHANGED <<desk.on, desk.last>>
    BY <1>0, <1>4 DEF EndFile, Desks
  <1>5. ASSUME NEW j \in Files, WorkOn(j) PROVE FALSE
    <2>1. UNCHANGED rollouts
      BY <1>5 DEF WorkOn
    <2>2. UNCHANGED <<desk.on, desk.last>>
      <3>1. CASE EndFile(j, "FAILED")
        BY <1>4, <3>1
      <3>2. CASE ~EndFile(j, "FAILED")
        <4>1. PICK to : desk' = [desk EXCEPT !.phase = to]
          BY <1>5, <3>2 DEF WorkOn
        <4> QED BY <1>0, <4>1 DEF Desks
      <3> QED BY <3>1, <3>2
    <2> QED BY <2>1, <2>2
  <1>6. ASSUME NEW j \in Files, GiveUp(j) PROVE FALSE
    BY <1>4, <1>6 DEF GiveUp
  <1>7. ASSUME NEW j \in Files, EndRollout(j) PROVE FALSE
    <2>1. UNCHANGED <<desk.on, desk.last>>
      BY <1>4, <1>7 DEF EndRollout
    <2> QED BY <1>7, <2>1 DEF EndRollout
  <1>8. ASSUME NEW c \in Clerks, Finish(c) PROVE FALSE
    <2>1. clerk[c].file \in Files
      BY <1>8 DEF Finish, ConsoleIInv, ClerksHoldJobs
    <2> QED BY <1>4, <1>8, <2>1 DEF Finish
  <1>9. ASSUME UNCHANGED <<desk, rollouts>> PROVE FALSE
    BY <1>9
  <1> QED BY ZenonT(60), <1>1, <1>2, <1>3, <1>5, <1>6, <1>7, <1>8, <1>9
      DEF ConsoleNext, Refuse, BeginCancel, BeginReject, Begin, Read, DependencyChanges, Probe

-----------------------------------------------------------------------------
(* Incidents and alerts. *)

IncidentRecords ==
  [id : Ids, key : Signals, severity : Severities, status : {"OPEN", "ACKNOWLEDGED", "RESOLVED"},
   count : 1 .. 3, age : 0 .. LongOpen, wasCritical : BOOLEAN]
Levels == Severities \cup {"ok", "between"}

\* An incident is numbered by its place, until the list is trimmed.
NumbersTellPlaces ==
  \A i \in DOMAIN incidents : incidents[i].id.number = IF i <= MaxHistory THEN i ELSE MaxHistory + 1

\* What is critical is remembered to have been, and goroutines run for such incidents only.
CriticalIsRemembered ==
  /\ \A i \in DOMAIN incidents : incidents[i].severity = "CRITICAL" => incidents[i].wasCritical
  /\ \A i \in remedies : i \in DOMAIN incidents /\ incidents[i].wasCritical

OpsIInv ==
  /\ OpsTypeOK /\ OneUnresolvedPerKey /\ OneAlertEach /\ RemedyHasCause
  /\ NumbersTellPlaces /\ CriticalIsRemembered

LEMMA SignalsKnown ==
  /\ Signals \subseteq {"postgres", "redis", "slo", "breaker", "drift", "retraining"}
  /\ IsFiniteSet(Signals)
  /\ \A s \in Signals : SignalLevels[s] \in SUBSET Levels /\ "ok" \in SignalLevels[s]
  <1>1. Signals \subseteq {"postgres", "redis", "slo", "breaker", "drift", "retraining"}
    BY OperationsAssumption DEF SignalLevels
  <1> DEFINE six == {"postgres", "redis", "slo", "breaker", "drift", "retraining"}
  <1>2. IsFiniteSet(six)
    <2>1. IsFiniteSet({"postgres", "redis", "slo"})
      <3>1. IsFiniteSet({"postgres"}) /\ IsFiniteSet({"postgres"} \cup {"redis"})
        BY FS_Singleton, FS_AddElement
      <3>2. IsFiniteSet(({"postgres"} \cup {"redis"}) \cup {"slo"})
        BY <3>1, FS_AddElement
      <3>3. ({"postgres"} \cup {"redis"}) \cup {"slo"} = {"postgres", "redis", "slo"}
        OBVIOUS
      <3> QED BY <3>2, <3>3
    <2>2. IsFiniteSet({"breaker", "drift", "retraining"})
      <3>1. IsFiniteSet({"breaker"}) /\ IsFiniteSet({"breaker"} \cup {"drift"})
        BY FS_Singleton, FS_AddElement
      <3>2. IsFiniteSet(({"breaker"} \cup {"drift"}) \cup {"retraining"})
        BY <3>1, FS_AddElement
      <3>3. ({"breaker"} \cup {"drift"}) \cup {"retraining"} = {"breaker", "drift", "retraining"}
        OBVIOUS
      <3> QED BY <3>2, <3>3
    <2>3. six = {"postgres", "redis", "slo"} \cup {"breaker", "drift", "retraining"}
      OBVIOUS
    <2> QED BY <2>1, <2>2, <2>3, FS_Union
  <1>3. IsFiniteSet(Signals)
    <2> HIDE DEF six
    <2>1. Signals \in SUBSET six
      BY <1>1 DEF six
    <2> QED BY <1>2, <2>1, FS_Subset
  <1>4. \A s \in six : SignalLevels[s] \in SUBSET Levels /\ "ok" \in SignalLevels[s]
    BY DEF SignalLevels, Levels, Severities
  <1> QED BY <1>1, <1>3, <1>4

\* SetToSeq lists a finite set: every member, once.
LEMMA ListsOnce ==
  ASSUME NEW S, IsFiniteSet(S)
  PROVE  /\ Len(SetToSeq(S)) \in Nat /\ DOMAIN SetToSeq(S) = 1 .. Len(SetToSeq(S))
         /\ \A k \in 1 .. Len(SetToSeq(S)) : SetToSeq(S)[k] \in S
         /\ \A j, k \in 1 .. Len(SetToSeq(S)) : SetToSeq(S)[j] = SetToSeq(S)[k] => j = k
         /\ \A s \in S : \E k \in 1 .. Len(SetToSeq(S)) : SetToSeq(S)[k] = s
  <1> DEFINE n == Cardinality(S)
             f == SetToSeq(S)
  <1>1. n \in Nat /\ ExistsBijection(1 .. n, S)
    BY FS_CardinalityType
  <1>2. \E g \in [1 .. n -> S] : IsInjective(g)
    BY <1>1 DEF ExistsBijection, Bijection, Injection
  <1>3. f \in [1 .. n -> S] /\ IsInjective(f)
    BY <1>2 DEF SetToSeq
  <1>4. IsFiniteSet(1 .. n) /\ Cardinality(1 .. n) = n
    <2>1. n \in Int /\ 1 \in Int
      BY <1>1
    <2> HIDE DEF n
    <2>2. IsFiniteSet(1 .. n) /\ Cardinality(1 .. n) = IF 1 > n THEN 0 ELSE n - 1 + 1
      BY <2>1, FS_Interval
    <2> QED BY <1>1, <2>1, <2>2
  <1> HIDE DEF f
  <1>5. f \in Injection(1 .. n, S)
    BY <1>3 DEF Injection
  <1>6. f \in Surjection(1 .. n, S)
    BY <1>4, <1>5, FS_Injection
  <1>7. \A s \in S : \E k \in 1 .. n : f[k] = s
    BY <1>6 DEF Surjection
  <1>8. Len(f) = n /\ DOMAIN f = 1 .. n
    BY <1>1, <1>3
  <1>9. \A j, k \in 1 .. n : f[j] = f[k] => j = k
    BY <1>3, <1>8 DEF IsInjective
  <1>10. \A k \in 1 .. n : f[k] \in S
    BY <1>3
  <1> HIDE DEF n
  <1>11. /\ Len(f) \in Nat /\ DOMAIN f = 1 .. Len(f)
         /\ \A k \in 1 .. Len(f) : f[k] \in S
         /\ \A j, k \in 1 .. Len(f) : f[j] = f[k] => j = k
         /\ \A s \in S : \E k \in 1 .. Len(f) : f[k] = s
    BY <1>1, <1>7, <1>8, <1>9, <1>10
  <1> QED BY <1>11 DEF f

LEMMA OpsTyped ==
  ASSUME OpsIInv
  PROVE  /\ signal \in [Signals -> Levels] /\ \A s \in Signals : signal[s] \in SignalLevels[s]
         /\ loop \in [pc : {"idle", "assessed", "budgeted"}, seen : [Signals -> Levels]]
         /\ incidents \in Seq(IncidentRecords) /\ Len(incidents) \in 0 .. MaxIncidents
         /\ DOMAIN incidents = 1 .. Len(incidents)
         /\ current \in [Signals -> 0 .. Len(incidents)]
         /\ frozen \in BOOLEAN
         /\ frozenBy \in {"nobody", "OPERATOR", "ERROR_BUDGET_POLICY", "AUTO_REMEDIATION"}
         /\ remedies \in SUBSET (1 .. MaxIncidents)
         /\ alerts \in [queued : 0 .. AlertQueueSize, sent : Nat, dropped : Nat]
         /\ MaxIncidents \in Nat /\ MaxHistory \in Nat /\ AlertQueueSize \in Nat /\ LongOpen \in Nat
  <1>1. MaxIncidents \in Nat /\ MaxHistory \in Nat /\ AlertQueueSize \in Nat /\ LongOpen \in Nat
    BY OperationsAssumption
  <1>2. incidents \in Seq(IncidentRecords) /\ Len(incidents) <= MaxIncidents
    BY DEF OpsIInv, OpsTypeOK, IncidentRecords
  <1>3. Len(incidents) \in Nat /\ DOMAIN incidents = 1 .. Len(incidents)
    BY <1>2
  <1> QED BY <1>1, <1>2, <1>3 DEF OpsIInv, OpsTypeOK, Levels

LEMMA OpsStart ==
  ASSUME OpsInit
  PROVE  OpsIInv
  <1>1. \A s \in Signals : "ok" \in SignalLevels[s]
    BY SignalsKnown
  <1>2. {MaxHistory, LongOpen, AlertQueueSize, MaxIncidents, MaxChanges} \subseteq Nat
    BY OperationsAssumption
  <1>3. incidents = <<>> /\ Len(incidents) = 0 /\ DOMAIN incidents = {}
    BY DEF OpsInit
  <1>4. OpsTypeOK
    <2>1. signal \in [Signals -> Severities \cup {"ok", "between"}]
          /\ \A s \in Signals : signal[s] \in SignalLevels[s]
      BY <1>1 DEF OpsInit
    <2>2. loop \in [pc : {"idle", "assessed", "budgeted"}, seen : [Signals -> Severities \cup {"ok", "between"}]]
      BY <2>1 DEF OpsInit
    <2>3. current \in [Signals -> 0 .. Len(incidents)]
      BY <1>3 DEF OpsInit, None
    <2>4. remedies \in SUBSET (1 .. MaxIncidents) /\ Len(incidents) <= MaxIncidents
      BY <1>2, <1>3 DEF OpsInit
    <2>5. alerts \in [queued : 0 .. AlertQueueSize, sent : Nat, dropped : Nat]
      BY <1>2 DEF OpsInit
    <2>6. frozen \in BOOLEAN /\ frozenBy \in {"nobody", "OPERATOR", "ERROR_BUDGET_POLICY", "AUTO_REMEDIATION"}
      BY DEF OpsInit
    <2>7. incidents \in Seq(IncidentRecords)
      BY <1>3
    <2> QED BY <2>1, <2>2, <2>3, <2>4, <2>5, <2>6, <2>7 DEF OpsTypeOK, IncidentRecords
  <1> QED BY <1>3, <1>4 DEF OpsInit, OpsIInv, OneUnresolvedPerKey, OneAlertEach, RemedyHasCause,
             NumbersTellPlaces, CriticalIsRemembered

\* What may become of an incident.
Later(inc, next) ==
  /\ next \in IncidentRecords /\ next.id = inc.id /\ next.key = inc.key
  /\ inc.status = "RESOLVED" => next.status = "RESOLVED"
  /\ inc.status = "ACKNOWLEDGED" => next.status # "OPEN"
  /\ Worth(inc.severity) <= Worth(next.severity)
  /\ inc.wasCritical => next.wasCritical
  /\ (inc.severity = "CRITICAL" => inc.wasCritical) => (next.severity = "CRITICAL" => next.wasCritical)

LEMMA WorthOrders ==
  /\ Worth("WARNING") = 1 /\ Worth("HIGH") = 2 /\ Worth("CRITICAL") = 3
  /\ \A s \in Severities : Worth(s) \in 1 .. 3
  BY DEF Worth, Severities

LEMMA LaterKeeps ==
  ASSUME NEW inc \in IncidentRecords
  PROVE  /\ Later(inc, inc) /\ Later(inc, Older(inc))
         /\ Later(inc, [inc EXCEPT !.status = "RESOLVED"])
         /\ inc.status # "RESOLVED" => Later(inc, [inc EXCEPT !.status = "ACKNOWLEDGED"])
  <1>1. /\ inc.severity \in Severities /\ inc.status \in {"OPEN", "ACKNOWLEDGED", "RESOLVED"}
        /\ inc.age \in 0 .. LongOpen /\ LongOpen \in Nat
    BY OperationsAssumption DEF IncidentRecords
  <1>2. Worth(inc.severity) <= Worth(inc.severity)
    BY <1>1, WorthOrders
  <1>3. Later(inc, inc)
    BY <1>2 DEF Later
  <1>4. Later(inc, Older(inc))
    <2> DEFINE a == IF inc.age < LongOpen THEN inc.age + 1 ELSE inc.age
    <2>1. Older(inc) = [inc EXCEPT !.age = a]
      BY DEF Older
    <2>2. a \in 0 .. LongOpen
      BY <1>1
    <2> HIDE DEF a
    <2>3. Older(inc) \in IncidentRecords
      BY <2>1, <2>2 DEF IncidentRecords
    <2>4. /\ Older(inc).id = inc.id /\ Older(inc).key = inc.key /\ Older(inc).status = inc.status
          /\ Older(inc).severity = inc.severity /\ Older(inc).wasCritical = inc.wasCritical
      BY <2>1 DEF IncidentRecords
    <2> QED BY <1>2, <2>3, <2>4 DEF Later
  <1>5. ASSUME NEW st \in {"ACKNOWLEDGED", "RESOLVED"}, inc.status = "RESOLVED" => st = "RESOLVED"
        PROVE  Later(inc, [inc EXCEPT !.status = st])
    <2> DEFINE r == [inc EXCEPT !.status = st]
    <2>1. r \in IncidentRecords
      BY DEF IncidentRecords
    <2>2. /\ r.id = inc.id /\ r.key = inc.key /\ r.status = st
          /\ r.severity = inc.severity /\ r.wasCritical = inc.wasCritical
      BY DEF IncidentRecords
    <2> HIDE DEF r
    <2>3. Later(inc, r)
      BY <1>2, <1>5, <2>1, <2>2 DEF Later
    <2> QED BY <2>3 DEF r
  <1> QED BY <1>3, <1>4, <1>5

\* An incident that is raised again is at least as severe as before.
LEMMA LaterEscalates ==
  ASSUME NEW inc \in IncidentRecords, NEW raised \in Severities
  PROVE  Later(inc, Updated(inc, raised))
  <1> DEFINE e == Escalated(inc, raised)
             c == IF inc.count < 3 THEN inc.count + 1 ELSE 3
             w == inc.wasCritical \/ e = "CRITICAL"
             r == [inc EXCEPT !.severity = e, !.count = c, !.wasCritical = w]
  <1>1. /\ inc.severity \in {"WARNING", "HIGH", "CRITICAL"} /\ inc.count \in 1 .. 3
        /\ inc.age \in 0 .. LongOpen /\ LongOpen \in Nat /\ inc.wasCritical \in BOOLEAN
    BY OperationsAssumption DEF IncidentRecords, Severities
  <1>2. e \in {inc.severity, "HIGH", "CRITICAL"} /\ (inc.severity = "CRITICAL" => e = "CRITICAL")
    BY <1>1 DEF Escalated
  <1>3. e \in Severities /\ Worth(inc.severity) <= Worth(e)
    BY <1>1, <1>2, WorthOrders DEF Severities
  <1>4. Updated(inc, raised) = r
    BY DEF Updated
  <1>5. c \in 1 .. 3 /\ w \in BOOLEAN
    BY <1>1
  <1>6. (inc.wasCritical => w) /\ (e = "CRITICAL" => w)
    OBVIOUS
  <1> HIDE DEF e, c, w
  <1>7. r \in IncidentRecords
    BY <1>3, <1>5 DEF IncidentRecords
  <1>8. /\ r.id = inc.id /\ r.key = inc.key /\ r.status = inc.status
        /\ r.severity = e /\ r.wasCritical = w
    BY DEF IncidentRecords
  <1> HIDE DEF r
  <1>9. Later(inc, r)
    BY <1>3, <1>6, <1>7, <1>8 DEF Later
  <1> QED BY <1>4, <1>9

LEMMA LaterComposes ==
  ASSUME NEW a \in IncidentRecords, NEW b, NEW c, Later(a, b), Later(b, c)
  PROVE  Later(a, c)
  <1>1. b \in IncidentRecords /\ c \in IncidentRecords
    BY DEF Later
  <1>2. a.severity \in Severities /\ b.severity \in Severities /\ c.severity \in Severities
    BY <1>1 DEF IncidentRecords
  <1>3. Worth(a.severity) \in Int /\ Worth(b.severity) \in Int /\ Worth(c.severity) \in Int
    BY <1>2, WorthOrders
  <1>4. /\ Worth(a.severity) <= Worth(b.severity) /\ Worth(b.severity) <= Worth(c.severity)
    BY DEF Later
  <1>5. Worth(a.severity) <= Worth(c.severity)
    BY <1>3, <1>4
  <1>6. /\ a.status \in {"OPEN", "ACKNOWLEDGED", "RESOLVED"} /\ b.status \in {"OPEN", "ACKNOWLEDGED", "RESOLVED"}
        /\ c.status \in {"OPEN", "ACKNOWLEDGED", "RESOLVED"}
    BY <1>1 DEF IncidentRecords
  <1>7. /\ a.status = "ACKNOWLEDGED" => b.status # "OPEN"
        /\ b.status = "ACKNOWLEDGED" => c.status # "OPEN"
        /\ b.status = "RESOLVED" => c.status = "RESOLVED"
        /\ a.status = "RESOLVED" => b.status = "RESOLVED"
    BY DEF Later
  <1>8. (a.status = "ACKNOWLEDGED" => c.status # "OPEN") /\ (a.status = "RESOLVED" => c.status = "RESOLVED")
    BY <1>6, <1>7
  <1> QED BY <1>1, <1>5, <1>8 DEF Later

\* The list of incidents grows at its end, and its incidents get later.
Grown ==
  /\ incidents' \in Seq(IncidentRecords) /\ Len(incidents') <= MaxIncidents
  /\ Len(incidents) <= Len(incidents')
  /\ \A i \in 1 .. Len(incidents) : Later(incidents[i], incidents'[i])
  /\ \A i \in Len(incidents) + 1 .. Len(incidents') :
       /\ incidents'[i].id.number = IF i <= MaxHistory THEN i ELSE MaxHistory + 1
       /\ incidents'[i].severity = "CRITICAL" => incidents'[i].wasCritical

LEMMA GrownKeeps ==
  ASSUME OpsIInv, Grown
  PROVE  /\ DOMAIN incidents' = 1 .. Len(incidents') /\ Len(incidents') \in 0 .. MaxIncidents
         /\ NumbersTellPlaces'
         /\ \A i \in DOMAIN incidents' : incidents'[i].severity = "CRITICAL" => incidents'[i].wasCritical
         /\ \A i \in DOMAIN incidents : incidents[i].wasCritical => i \in DOMAIN incidents' /\ incidents'[i].wasCritical
         /\ UNCHANGED frozenBy => RemedyHasCause'
  <1>1. /\ Len(incidents) \in Nat /\ DOMAIN incidents = 1 .. Len(incidents) /\ MaxIncidents \in Nat
        /\ \A i \in 1 .. Len(incidents) : incidents[i] \in IncidentRecords
    BY OpsTyped
  <1>2. Len(incidents') \in Nat /\ DOMAIN incidents' = 1 .. Len(incidents')
    BY DEF Grown
  <1>3. \A i \in 1 .. Len(incidents') : i \in 1 .. Len(incidents) \/ i \in Len(incidents) + 1 .. Len(incidents')
    BY <1>1, <1>2
  <1>4. 1 .. Len(incidents) \subseteq 1 .. Len(incidents')
    BY <1>1, <1>2 DEF Grown
  <1>5. \A i \in 1 .. Len(incidents) : incidents[i].wasCritical => incidents'[i].wasCritical
    BY DEF Grown, Later
  <1>6. \A i \in 1 .. Len(incidents) : incidents[i].severity = "CRITICAL" => incidents[i].wasCritical
    BY <1>1 DEF OpsIInv, CriticalIsRemembered
  <1>7. \A i \in 1 .. Len(incidents) : incidents'[i].severity = "CRITICAL" => incidents'[i].wasCritical
    BY <1>6 DEF Grown, Later
  <1>8. \A i \in DOMAIN incidents' : incidents'[i].severity = "CRITICAL" => incidents'[i].wasCritical
    BY <1>2, <1>3, <1>7 DEF Grown
  <1>9. \A i \in 1 .. Len(incidents) : incidents'[i].id.number = IF i <= MaxHistory THEN i ELSE MaxHistory + 1
    <2>1. \A i \in 1 .. Len(incidents) : incidents'[i].id = incidents[i].id
      BY DEF Grown, Later
    <2> QED BY <1>1, <2>1 DEF OpsIInv, NumbersTellPlaces
  <1>10. NumbersTellPlaces'
    BY <1>2, <1>3, <1>9 DEF NumbersTellPlaces, Grown
  <1>11. UNCHANGED frozenBy => RemedyHasCause'
    <2> SUFFICES ASSUME UNCHANGED frozenBy, frozenBy = "AUTO_REMEDIATION"
                 PROVE  \E i \in DOMAIN incidents' : incidents'[i].wasCritical
      BY DEF RemedyHasCause
    <2>1. PICK i \in DOMAIN incidents : incidents[i].wasCritical
      BY DEF OpsIInv, RemedyHasCause
    <2> QED BY <1>1, <1>2, <1>4, <1>5, <2>1
  <1>12. Len(incidents') \in 0 .. MaxIncidents
    BY <1>1, <1>2 DEF Grown
  <1> QED BY <1>1, <1>2, <1>4, <1>5, <1>8, <1>10, <1>11, <1>12

LEMMA OpsAssembled ==
  ASSUME OpsIInv, Grown,
         signal' \in [Signals -> Levels], \A s \in Signals : signal'[s] \in SignalLevels[s],
         loop' \in [pc : {"idle", "assessed", "budgeted"}, seen : [Signals -> Levels]],
         current' \in [Signals -> 0 .. Len(incidents')], frozen' \in BOOLEAN,
         frozenBy' \in {"nobody", "OPERATOR", "ERROR_BUDGET_POLICY", "AUTO_REMEDIATION"},
         remedies' \in SUBSET (1 .. MaxIncidents),
         \A i \in remedies' : i \in DOMAIN incidents' /\ incidents'[i].wasCritical,
         alerts' \in [queued : 0 .. AlertQueueSize, sent : Nat, dropped : Nat],
         OneUnresolvedPerKey', OneAlertEach', RemedyHasCause'
  PROVE  OpsIInv'
  <1>1. OpsTypeOK'
    BY DEF OpsTypeOK, Levels, Grown, IncidentRecords
  <1> QED BY <1>1, GrownKeeps DEF OpsIInv, CriticalIsRemembered

\* What follows when the list keeps its length and nothing else about it changes.
LEMMA OpsListKept ==
  ASSUME OpsIInv, Grown, Len(incidents') = Len(incidents), UNCHANGED <<current, remedies>>
  PROVE  /\ current' \in [Signals -> 0 .. Len(incidents')] /\ OneUnresolvedPerKey'
         /\ remedies' \in SUBSET (1 .. MaxIncidents)
         /\ \A i \in remedies' : i \in DOMAIN incidents' /\ incidents'[i].wasCritical
  <1>1. /\ Len(incidents) \in Nat /\ DOMAIN incidents = 1 .. Len(incidents)
        /\ current \in [Signals -> 0 .. Len(incidents)] /\ remedies \in SUBSET (1 .. MaxIncidents)
    BY OpsTyped
  <1>2. DOMAIN incidents' = 1 .. Len(incidents)
    BY GrownKeeps
  <1>3. \A i \in 1 .. Len(incidents) :
           /\ incidents'[i].key = incidents[i].key
           /\ incidents'[i].status # "RESOLVED" => incidents[i].status # "RESOLVED"
    BY DEF Grown, Later
  <1>4. OneUnresolvedPerKey'
    BY <1>1, <1>2, <1>3 DEF OneUnresolvedPerKey, OpsIInv
  <1>5. \A i \in remedies' : i \in DOMAIN incidents' /\ incidents'[i].wasCritical
    BY GrownKeeps DEF OpsIInv, CriticalIsRemembered
  <1> QED BY <1>1, <1>4, <1>5

LEMMA UnchangedIsGrown ==
  ASSUME OpsIInv, UNCHANGED incidents
  PROVE  Grown
  <1>1. /\ Len(incidents) \in Nat /\ Len(incidents) <= MaxIncidents /\ incidents \in Seq(IncidentRecords)
        /\ \A i \in 1 .. Len(incidents) : incidents[i] \in IncidentRecords
    BY OpsTyped
  <1>2. Len(incidents) + 1 .. Len(incidents) = {}
    BY <1>1
  <1>3. \A i \in 1 .. Len(incidents) : Later(incidents[i], incidents'[i])
    BY <1>1, LaterKeeps
  <1>4. incidents' = incidents /\ Len(incidents') = Len(incidents)
    OBVIOUS
  <1>5. \A i \in Len(incidents) + 1 .. Len(incidents') : FALSE
    BY <1>2, <1>4
  <1> QED BY <1>1, <1>3, <1>4, <1>5 DEF Grown

LEMMA FunctionsAreLists ==
  ASSUME NEW T, NEW m \in Nat, NEW g \in [1 .. m -> T]
  PROVE  g \in Seq(T) /\ Len(g) = m
  OBVIOUS

LEMMA StatusIsGrown ==
  ASSUME OpsIInv, NEW f, NEW st \in {"ACKNOWLEDGED", "RESOLVED"},
         st = "ACKNOWLEDGED" => incidents[f].status # "RESOLVED",
         incidents' = [incidents EXCEPT ![f].status = st]
  PROVE  Grown /\ Len(incidents') = Len(incidents)
  <1>1. /\ Len(incidents) \in Nat /\ DOMAIN incidents = 1 .. Len(incidents)
        /\ Len(incidents) <= MaxIncidents /\ incidents \in Seq(IncidentRecords)
        /\ \A i \in 1 .. Len(incidents) : incidents[i] \in IncidentRecords
    BY OpsTyped
  <1>2. /\ DOMAIN incidents' = 1 .. Len(incidents)
        /\ \A i \in 1 .. Len(incidents) :
             incidents'[i] = IF i = f THEN [incidents[i] EXCEPT !.status = st] ELSE incidents[i]
    BY <1>1
  <1>3. ASSUME NEW i \in 1 .. Len(incidents) PROVE Later(incidents[i], incidents'[i])
    <2>1. CASE i = f
      <3>1. incidents'[i] = [incidents[i] EXCEPT !.status = st]
        BY <1>2, <2>1
      <3>2. incidents[i] \in IncidentRecords /\ (st = "ACKNOWLEDGED" => incidents[i].status # "RESOLVED")
        BY <1>1, <2>1
      <3>3. CASE st = "ACKNOWLEDGED"
        BY ZenonT(60), <3>1, <3>2, <3>3, LaterKeeps
      <3>4. CASE st = "RESOLVED"
        BY <3>1, <3>2, <3>4, LaterKeeps
      <3> QED BY <3>3, <3>4
    <2>2. CASE i # f
      BY <1>1, <1>2, <2>2, LaterKeeps
    <2> QED BY <2>1, <2>2
  <1>4. \A i \in 1 .. Len(incidents) : incidents'[i] \in IncidentRecords
    BY <1>3 DEF Later
  <1>5. incidents' = [i \in 1 .. Len(incidents) |-> incidents'[i]]
    <2>1. incidents' = [i \in DOMAIN incidents' |-> incidents'[i]]
      OBVIOUS
    <2> QED BY <1>2, <2>1
  <1>6. incidents' \in Seq(IncidentRecords) /\ Len(incidents') = Len(incidents)
    <2>1. incidents' \in [1 .. Len(incidents) -> IncidentRecords]
      BY <1>4, <1>5
    <2> QED BY <1>1, <2>1, FunctionsAreLists
  <1>7. \A i \in Len(incidents) + 1 .. Len(incidents') : FALSE
    BY <1>1, <1>6
  <1> QED BY <1>1, <1>3, <1>6, <1>7 DEF Grown

LEMMA EvaluateStep ==
  ASSUME OpsIInv, EvaluateIncidents
  PROVE  OpsIInv' /\ Grown
  <1> DEFINE S == {s \in Signals : Raised(s)}
             new == SetToSeq(S)
             n == Len(incidents)
             Touch(i) ==
               LET inc == Older(incidents[i])
                   s == inc.key
               IN IF current[s] # i \/ ~Unresolved(s) \/ Raised(s) THEN inc
                  ELSE IF Seen[s] \in Severities THEN Updated(inc, Seen[s])
                  ELSE IF Seen[s] = "ok" THEN [inc EXCEPT !.status = "RESOLVED"] ELSE inc
             touched == [i \in 1 .. n |-> Touch(i)]
             opened == [k \in 1 .. Len(new) |-> Opened(new[k], Seen[new[k]], n + 1, n + k)]
             room == AlertQueueSize - alerts.queued
             fit == IF Len(new) <= room THEN Len(new) ELSE room
  <1>0. /\ incidents \in Seq(IncidentRecords) /\ n \in 0 .. MaxIncidents /\ DOMAIN incidents = 1 .. n
        /\ \A i \in 1 .. n : incidents[i] \in IncidentRecords
        /\ current \in [Signals -> 0 .. n] /\ MaxIncidents \in Nat /\ MaxHistory \in Nat
        /\ AlertQueueSize \in Nat /\ LongOpen \in Nat
    BY OpsTyped
  <1>1. /\ n + Len(new) <= MaxIncidents /\ incidents' = touched \o opened
        /\ current' = [s \in Signals |-> IF Raised(s) THEN n + CHOOSE k \in 1 .. Len(new) : new[k] = s
                                         ELSE current[s]]
        /\ remedies' = remedies \cup
             {i \in DOMAIN incidents' : /\ current'[incidents'[i].key] = i
                                        /\ Seen[incidents'[i].key] \in Severities
                                        /\ NeedsRemedy(incidents'[i])}
        /\ alerts' = [alerts EXCEPT !.queued = @ + fit, !.dropped = @ + Len(new) - fit]
        /\ loop' = [loop EXCEPT !.pc = "idle"]
        /\ UNCHANGED <<signal, frozen, frozenBy>>
    BY DEF EvaluateIncidents
  <1>2. /\ Len(new) \in Nat /\ DOMAIN new = 1 .. Len(new) /\ \A k \in 1 .. Len(new) : new[k] \in S
        /\ \A j, k \in 1 .. Len(new) : new[j] = new[k] => j = k
        /\ \A s \in S : \E k \in 1 .. Len(new) : new[k] = s
    <2>1. IsFiniteSet(S)
      <3>1. IsFiniteSet(Signals) /\ S \in SUBSET Signals
        BY SignalsKnown
      <3> HIDE DEF S
      <3> QED BY <3>1, FS_Subset
    <2> HIDE DEF S
    <2> QED BY <2>1, ListsOnce
  <1> HIDE DEF new, touched, opened, room, fit, n
  <1>3. /\ \A k \in 1 .. Len(new) : new[k] \in Signals /\ Seen[new[k]] \in Severities /\ Raised(new[k])
        /\ \A s \in Signals : Raised(s) => \E k \in 1 .. Len(new) : new[k] = s
    BY <1>2 DEF Raised
  <1>4. \A i \in 1 .. n : Later(incidents[i], Touch(i))
    <2> SUFFICES ASSUME NEW i \in 1 .. n PROVE Later(incidents[i], Touch(i))
      OBVIOUS
    <2> DEFINE inc == Older(incidents[i])
    <2>1. incidents[i] \in IncidentRecords /\ Later(incidents[i], inc) /\ inc \in IncidentRecords
      BY <1>0, LaterKeeps DEF Later
    <2>2. Touch(i) = inc \/ (Seen[inc.key] \in Severities /\ Touch(i) = Updated(inc, Seen[inc.key]))
          \/ Touch(i) = [inc EXCEPT !.status = "RESOLVED"]
      OBVIOUS
    <2> HIDE DEF inc, Touch
    <2>3. Later(inc, Touch(i))
      BY <2>1, <2>2, LaterKeeps, LaterEscalates
    <2> QED BY <2>1, <2>3, LaterComposes
  <1>5. \A k \in 1 .. Len(new) :
          /\ opened[k] \in IncidentRecords /\ opened[k].key = new[k]
          /\ opened[k].id.number = IF n + k <= MaxHistory THEN n + k ELSE MaxHistory + 1
          /\ opened[k].severity = "CRITICAL" => opened[k].wasCritical
    <2> SUFFICES ASSUME NEW k \in 1 .. Len(new)
                 PROVE  /\ opened[k] \in IncidentRecords /\ opened[k].key = new[k]
                        /\ opened[k].id.number = IF n + k <= MaxHistory THEN n + k ELSE MaxHistory + 1
                        /\ opened[k].severity = "CRITICAL" => opened[k].wasCritical
      OBVIOUS
    <2> DEFINE number == 1 + (IF (n + k) - 1 < MaxHistory THEN (n + k) - 1 ELSE MaxHistory)
               id == [pass |-> n + 1, number |-> number]
               w == Seen[new[k]] = "CRITICAL"
    <2>1. opened[k] = [id |-> id, key |-> new[k], severity |-> Seen[new[k]], status |-> "OPEN",
                       count |-> 1, age |-> 0, wasCritical |-> w]
      <3>1. opened[k] = Opened(new[k], Seen[new[k]], n + 1, n + k)
        BY DEF opened
      <3> QED BY <3>1 DEF Opened
    <2>2. /\ n + 1 \in 1 .. MaxIncidents /\ number \in 1 .. MaxHistory + 1
          /\ number = IF n + k <= MaxHistory THEN n + k ELSE MaxHistory + 1
      BY SMTT(30), <1>0, <1>1, <1>2
    <2> HIDE DEF number
    <2>3. id \in Ids /\ id.number = number
      BY <2>2 DEF Ids
    <2>4. w \in BOOLEAN /\ (Seen[new[k]] = "CRITICAL" => w)
      OBVIOUS
    <2>5. new[k] \in Signals /\ Seen[new[k]] \in Severities /\ 0 \in 0 .. LongOpen /\ 1 \in 1 .. 3
      BY <1>0, <1>3
    <2> HIDE DEF id, w
    <2>6. opened[k] \in IncidentRecords
      BY <2>1, <2>3, <2>4, <2>5 DEF IncidentRecords
    <2>7. /\ opened[k].id = id /\ opened[k].key = new[k] /\ opened[k].severity = Seen[new[k]]
          /\ opened[k].wasCritical = w
      BY <2>1
    <2> QED BY <2>2, <2>3, <2>4, <2>6, <2>7
  <1>6. /\ Len(incidents') = n + Len(new)
        /\ \A i \in 1 .. n : incidents'[i] = Touch(i)
        /\ \A k \in 1 .. Len(new) : incidents'[n + k] = opened[k]
        /\ incidents' \in Seq(IncidentRecords)
    <2>1. touched \in Seq(IncidentRecords) /\ Len(touched) = n /\ \A i \in 1 .. n : touched[i] = Touch(i)
      <3>1. \A i \in 1 .. n : Touch(i) \in IncidentRecords
        BY <1>4 DEF Later
      <3> HIDE DEF Touch
      <3> QED BY <1>0, <3>1 DEF touched
    <2>2. opened \in Seq(IncidentRecords) /\ Len(opened) = Len(new)
      <3>1. \A k \in 1 .. Len(new) : opened[k] \in IncidentRecords
        BY <1>5
      <3>2. opened = [k \in 1 .. Len(new) |-> opened[k]]
        BY DEF opened
      <3> QED BY <1>2, <3>1, <3>2
    <2> HIDE DEF Touch
    <2>3. n \in Nat /\ Len(new) \in Nat
      BY <1>0, <1>2
    <2>4. touched \o opened \in Seq(IncidentRecords) /\ Len(touched \o opened) = n + Len(new)
      BY <2>1, <2>2, <2>3
    <2>5. \A i \in 1 .. n : (touched \o opened)[i] = touched[i]
      BY <2>1, <2>2, <2>3
    <2>6. \A k \in 1 .. Len(new) : (touched \o opened)[n + k] = opened[k]
      BY <2>1, <2>2, <2>3
    <2> QED BY <1>1, <2>1, <2>4, <2>5, <2>6
  <1>7. \A i \in n + 1 .. Len(incidents') : \E k \in 1 .. Len(new) : i = n + k
    <2> SUFFICES ASSUME NEW i \in n + 1 .. Len(incidents') PROVE i - n \in 1 .. Len(new) /\ i = n + (i - n)
      OBVIOUS
    <2> QED BY <1>0, <1>2, <1>6
  <1> HIDE DEF Touch
  <1>8. Grown
    <2>1. \A i \in n + 1 .. Len(incidents') :
            /\ incidents'[i].id.number = IF i <= MaxHistory THEN i ELSE MaxHistory + 1
            /\ incidents'[i].severity = "CRITICAL" => incidents'[i].wasCritical
      BY <1>5, <1>6, <1>7
    <2>2. Len(incidents') <= MaxIncidents /\ n <= Len(incidents')
      BY <1>0, <1>1, <1>2, <1>6
    <2> QED BY <1>4, <1>6, <2>1, <2>2 DEF Grown, n
  <1>9. DOMAIN incidents' = 1 .. n + Len(new)
    BY <1>6, <1>8, GrownKeeps
  <1>10. \A k \in 1 .. Len(new) : current'[new[k]] = n + k
    <2> SUFFICES ASSUME NEW k \in 1 .. Len(new) PROVE current'[new[k]] = n + k
      OBVIOUS
    <2>1. (CHOOSE j \in 1 .. Len(new) : new[j] = new[k]) = k
      BY <1>2
    <2> QED BY <1>1, <1>3, <2>1
  <1>11. \A s \in Signals : ~Raised(s) => current'[s] = current[s]
    BY <1>1
  <1>12. current' \in [Signals -> 0 .. Len(incidents')]
    <2>1. \A s \in Signals : current'[s] \in 0 .. Len(incidents')
      <3> SUFFICES ASSUME NEW s \in Signals PROVE current'[s] \in 0 .. Len(incidents')
        OBVIOUS
      <3>1. CASE Raised(s)
        <4>1. PICK k \in 1 .. Len(new) : new[k] = s
          BY <1>3, <3>1
        <4> QED BY <1>0, <1>2, <1>6, <1>10, <4>1
      <3>2. CASE ~Raised(s)
        BY <1>0, <1>2, <1>6, <1>11, <3>2
      <3> QED BY <3>1, <3>2
    <2>2. current' = [s \in Signals |-> current'[s]]
      BY <1>1
    <2> QED BY <2>1, <2>2
  <1>13. OneUnresolvedPerKey'
    <2> SUFFICES ASSUME NEW i \in 1 .. n + Len(new), incidents'[i].status # "RESOLVED"
                 PROVE  current'[incidents'[i].key] = i
      BY <1>9 DEF OneUnresolvedPerKey
    <2>1. CASE i \in 1 .. n
      <3>1. incidents'[i].key = incidents[i].key /\ incidents[i].status # "RESOLVED"
        BY <1>4, <1>6, <2>1 DEF Later
      <3>2. current[incidents[i].key] = i /\ incidents[i].key \in Signals
        BY <1>0, <2>1, <3>1 DEF OpsIInv, OneUnresolvedPerKey, IncidentRecords
      <3>3. i # None
        BY <2>1 DEF None
      <3>4. ~Raised(incidents[i].key)
        BY <3>1, <3>2, <3>3 DEF Raised, Unresolved
      <3> QED BY <1>11, <3>1, <3>2, <3>4
    <2>2. CASE i \notin 1 .. n
      <3>1. i \in n + 1 .. Len(incidents')
        BY <1>0, <1>2, <1>6, <2>2
      <3>2. PICK k \in 1 .. Len(new) : i = n + k
        BY <1>7, <3>1
      <3> QED BY <1>5, <1>6, <1>10, <3>2
    <2> QED BY <2>1, <2>2
  <1>14. remedies' \in SUBSET (1 .. MaxIncidents)
         /\ \A i \in remedies' : i \in DOMAIN incidents' /\ incidents'[i].wasCritical
    <2>1. DOMAIN incidents' \subseteq 1 .. MaxIncidents
      BY <1>0, <1>1, <1>2, <1>9
    <2>2. \A i \in remedies : i \in DOMAIN incidents' /\ incidents'[i].wasCritical
      BY <1>8, GrownKeeps DEF OpsIInv, CriticalIsRemembered
    <2>3. \A i \in DOMAIN incidents' : NeedsRemedy(incidents'[i]) => incidents'[i].wasCritical
      BY <1>8, GrownKeeps DEF NeedsRemedy
    <2> QED BY <1>1, <2>1, <2>2, <2>3
  <1>15. alerts' \in [queued : 0 .. AlertQueueSize, sent : Nat, dropped : Nat] /\ OneAlertEach'
    <2>1. /\ alerts \in [queued : 0 .. AlertQueueSize, sent : Nat, dropped : Nat]
          /\ n = alerts.queued + alerts.sent + alerts.dropped
      BY OpsTyped DEF OpsIInv, OneAlertEach, n
    <2>2. fit \in Nat /\ alerts.queued + fit \in 0 .. AlertQueueSize /\ Len(new) - fit \in Nat
      <3> DEFINE extra == Len(new)
                 q == alerts.queued
      <3>1. extra \in Nat /\ q \in 0 .. AlertQueueSize /\ AlertQueueSize \in Nat
        BY <1>0, <1>2, <2>1
      <3>2. fit = IF extra <= AlertQueueSize - q THEN extra ELSE AlertQueueSize - q
        BY DEF fit, room
      <3> HIDE DEF extra, q
      <3>3. fit \in Nat /\ q + fit \in 0 .. AlertQueueSize /\ extra - fit \in Nat
        BY <3>1, <3>2
      <3> QED BY <3>3 DEF extra, q
    <2>3. /\ alerts' \in [queued : 0 .. AlertQueueSize, sent : Nat, dropped : Nat]
          /\ alerts'.queued = alerts.queued + fit /\ alerts'.sent = alerts.sent
          /\ alerts'.dropped = alerts.dropped + Len(new) - fit
      <3> DEFINE q == alerts.queued + fit
                 d == alerts.dropped + Len(new) - fit
      <3>1. alerts' = [alerts EXCEPT !.queued = q, !.dropped = d]
        BY <1>1
      <3>2. q \in 0 .. AlertQueueSize
        BY <2>2
      <3>3. d \in Nat /\ d = alerts.dropped + Len(new) - fit /\ q = alerts.queued + fit
        BY <1>2, <2>1, <2>2
      <3> HIDE DEF q, d
      <3> QED BY <2>1, <3>1, <3>2, <3>3
    <2>4. n + Len(new) = alerts'.queued + alerts'.sent + alerts'.dropped
      BY SMTT(30), <1>0, <1>2, <2>1, <2>2, <2>3
    <2> QED BY <1>6, <2>3, <2>4 DEF OneAlertEach
  <1>16. RemedyHasCause'
    BY <1>1, <1>8, GrownKeeps
  <1>17. /\ signal' \in [Signals -> Levels] /\ \A s \in Signals : signal'[s] \in SignalLevels[s]
         /\ loop' \in [pc : {"idle", "assessed", "budgeted"}, seen : [Signals -> Levels]]
         /\ frozen' \in BOOLEAN
         /\ frozenBy' \in {"nobody", "OPERATOR", "ERROR_BUDGET_POLICY", "AUTO_REMEDIATION"}
    BY <1>1, OpsTyped
  <1> QED BY <1>8, <1>12, <1>13, <1>14, <1>15, <1>16, <1>17, OpsAssembled

LEMMA OpsStep ==
  ASSUME OpsIInv, OpsNext
  PROVE  OpsIInv' /\ Grown
  <1>0. /\ signal \in [Signals -> Levels] /\ \A s \in Signals : signal[s] \in SignalLevels[s]
        /\ loop \in [pc : {"idle", "assessed", "budgeted"}, seen : [Signals -> Levels]]
        /\ frozen \in BOOLEAN
        /\ frozenBy \in {"nobody", "OPERATOR", "ERROR_BUDGET_POLICY", "AUTO_REMEDIATION"}
        /\ alerts \in [queued : 0 .. AlertQueueSize, sent : Nat, dropped : Nat] /\ AlertQueueSize \in Nat
        /\ remedies \in SUBSET (1 .. MaxIncidents) /\ Len(incidents) \in Nat
        /\ OneAlertEach /\ RemedyHasCause /\ CriticalIsRemembered
    BY OpsTyped DEF OpsIInv
  <1>1. ASSUME UNCHANGED incidents
        PROVE  /\ Grown
               /\ UNCHANGED frozenBy => RemedyHasCause'
               /\ UNCHANGED <<current, remedies>> =>
                    /\ current' \in [Signals -> 0 .. Len(incidents')] /\ OneUnresolvedPerKey'
                    /\ remedies' \in SUBSET (1 .. MaxIncidents)
                    /\ \A i \in remedies' : i \in DOMAIN incidents' /\ incidents'[i].wasCritical
               /\ UNCHANGED alerts => OneAlertEach'
    <2>1. Grown
      BY <1>1, UnchangedIsGrown
    <2>2. UNCHANGED alerts => OneAlertEach'
      BY <1>0, <1>1 DEF OneAlertEach
    <2> QED BY <1>1, <2>1, <2>2, GrownKeeps, OpsListKept
  <1>2. ASSUME NEW s \in Signals, NEW l \in SignalLevels[s], ChangeSignal(s, l) PROVE OpsIInv' /\ Grown
    <2>1. /\ signal' = [signal EXCEPT ![s] = l]
          /\ UNCHANGED <<loop, incidents, current, frozen, frozenBy, remedies, alerts>>
      BY <1>2 DEF ChangeSignal
    <2>2. l \in Levels
      BY SignalsKnown
    <2>3. signal' \in [Signals -> Levels] /\ \A t \in Signals : signal'[t] \in SignalLevels[t]
      BY <1>0, <2>1, <2>2
    <2> QED BY <1>0, <1>1, <2>1, <2>3, OpsAssembled
  <1>3. ASSUME Assess PROVE OpsIInv' /\ Grown
    <2>1. /\ loop' = [pc |-> "assessed", seen |-> signal]
          /\ UNCHANGED <<signal, incidents, current, frozen, frozenBy, remedies, alerts>>
      BY <1>3 DEF Assess
    <2>2. loop' \in [pc : {"idle", "assessed", "budgeted"}, seen : [Signals -> Levels]]
      BY <1>0, <2>1
    <2> QED BY <1>0, <1>1, <2>1, <2>2, OpsAssembled
  <1>4. ASSUME ApplyBudget PROVE OpsIInv' /\ Grown
    <2>1. /\ loop' = [loop EXCEPT !.pc = "budgeted"]
          /\ UNCHANGED <<signal, incidents, current, remedies, alerts>>
          /\ \/ frozen' = TRUE /\ frozenBy' = "ERROR_BUDGET_POLICY"
             \/ UNCHANGED <<frozen, frozenBy>>
      BY <1>4 DEF ApplyBudget
    <2>2. loop' \in [pc : {"idle", "assessed", "budgeted"}, seen : [Signals -> Levels]]
      BY <1>0, <2>1
    <2>3. /\ frozen' \in BOOLEAN
          /\ frozenBy' \in {"nobody", "OPERATOR", "ERROR_BUDGET_POLICY", "AUTO_REMEDIATION"}
      BY <1>0, <2>1
    <2>4. RemedyHasCause'
      <3>1. CASE frozenBy' = "ERROR_BUDGET_POLICY"
        BY <3>1 DEF RemedyHasCause
      <3>2. CASE UNCHANGED frozenBy
        BY <1>1, <2>1, <3>2
      <3> QED BY <2>1, <3>1, <3>2
    <2> QED BY <1>0, <1>1, <2>1, <2>2, <2>3, <2>4, OpsAssembled
  <1>5. ASSUME NEW i \in 1 .. MaxIncidents, Remediate(i) PROVE OpsIInv' /\ Grown
    <2>1. /\ i \in remedies /\ remedies' = remedies \ {i} /\ frozen' = TRUE /\ frozenBy' = "AUTO_REMEDIATION"
          /\ UNCHANGED <<signal, loop, incidents, current, alerts>>
      BY <1>5 DEF Remediate
    <2>2. i \in DOMAIN incidents /\ incidents[i].wasCritical
      BY <1>0, <2>1 DEF CriticalIsRemembered
    <2>3. RemedyHasCause'
      BY <2>1, <2>2 DEF RemedyHasCause
    <2>4. /\ remedies' \in SUBSET (1 .. MaxIncidents)
          /\ \A j \in remedies' : j \in DOMAIN incidents' /\ incidents'[j].wasCritical
      BY <1>0, <2>1 DEF CriticalIsRemembered
    <2>5. current' \in [Signals -> 0 .. Len(incidents')] /\ OneUnresolvedPerKey'
      <3>1. current \in [Signals -> 0 .. Len(incidents)]
        BY OpsTyped
      <3> QED BY <2>1, <3>1 DEF OneUnresolvedPerKey, OpsIInv
    <2>6. frozen' \in BOOLEAN
          /\ frozenBy' \in {"nobody", "OPERATOR", "ERROR_BUDGET_POLICY", "AUTO_REMEDIATION"}
      BY <2>1
    <2> QED BY <1>0, <1>1, <2>1, <2>3, <2>4, <2>5, <2>6, OpsAssembled
  <1>6. ASSUME SendAlert PROVE OpsIInv' /\ Grown
    <2>1. /\ alerts.queued > 0 /\ alerts' = [alerts EXCEPT !.queued = @ - 1, !.sent = @ + 1]
          /\ UNCHANGED <<signal, loop, incidents, current, frozen, frozenBy, remedies>>
      BY <1>6 DEF SendAlert
    <2>2. /\ alerts' \in [queued : 0 .. AlertQueueSize, sent : Nat, dropped : Nat]
          /\ alerts'.queued = alerts.queued - 1 /\ alerts'.sent = alerts.sent + 1
          /\ alerts'.dropped = alerts.dropped
      <3> DEFINE q == alerts.queued - 1
                 t == alerts.sent + 1
      <3>1. alerts' = [alerts EXCEPT !.queued = q, !.sent = t]
        BY <2>1
      <3>2. q \in 0 .. AlertQueueSize /\ t \in Nat
        BY <1>0, <2>1
      <3> HIDE DEF q, t
      <3>3. /\ alerts' \in [queued : 0 .. AlertQueueSize, sent : Nat, dropped : Nat]
            /\ alerts'.queued = q /\ alerts'.sent = t /\ alerts'.dropped = alerts.dropped
        BY <1>0, <3>1, <3>2
      <3> QED BY <3>3 DEF q, t
    <2>3. OneAlertEach'
      <3>1. /\ Len(incidents') = Len(incidents) /\ alerts.queued \in Nat /\ alerts.sent \in Nat
            /\ alerts.dropped \in Nat /\ Len(incidents) = alerts.queued + alerts.sent + alerts.dropped
        BY <1>0, <2>1 DEF OneAlertEach
      <3> QED BY SMTT(30), <2>2, <3>1 DEF OneAlertEach
    <2> QED BY <1>0, <1>1, <2>1, <2>2, <2>3, OpsAssembled
  <1>7. ASSUME NEW f, NEW st \in {"ACKNOWLEDGED", "RESOLVED"},
               st = "ACKNOWLEDGED" => incidents[f].status # "RESOLVED",
               incidents' = [incidents EXCEPT ![f].status = st],
               UNCHANGED <<signal, loop, current, frozen, frozenBy, remedies, alerts>>
        PROVE  OpsIInv' /\ Grown
    <2>1. Grown /\ Len(incidents') = Len(incidents)
      BY <1>7, StatusIsGrown
    <2>2. OneAlertEach'
      BY <1>0, <1>7, <2>1 DEF OneAlertEach
    <2>3. RemedyHasCause'
      BY <1>7, <2>1, GrownKeeps
    <2> QED BY <1>0, <1>7, <2>1, <2>2, <2>3, OpsListKept, OpsAssembled
  <1>8. ASSUME NEW i \in DOMAIN incidents, Acknowledge(i) \/ Resolve(i) PROVE OpsIInv' /\ Grown
    <2>1. CASE Acknowledge(i)
      BY <1>7, <2>1 DEF Acknowledge
    <2>2. CASE Resolve(i)
      <3>1. /\ incidents' = [incidents EXCEPT ![FirstWith(incidents[i].id)].status = "RESOLVED"]
            /\ UNCHANGED <<signal, loop, current, frozen, frozenBy, remedies, alerts>>
        BY <2>2 DEF Resolve
      <3> QED BY <1>7, <3>1
    <2> QED BY <1>8, <2>1, <2>2
  <1>9. ASSUME NEW on \in BOOLEAN, OperatorFreezes(on) PROVE OpsIInv' /\ Grown
    <2>1. /\ frozen' = on /\ frozenBy' = "OPERATOR"
          /\ UNCHANGED <<signal, loop, incidents, current, remedies, alerts>>
      BY <1>9 DEF OperatorFreezes
    <2>2. RemedyHasCause'
      BY <2>1 DEF RemedyHasCause
    <2>3. frozen' \in BOOLEAN
          /\ frozenBy' \in {"nobody", "OPERATOR", "ERROR_BUDGET_POLICY", "AUTO_REMEDIATION"}
      BY <2>1
    <2> QED BY <1>0, <1>1, <2>1, <2>2, <2>3, OpsAssembled
  <1> QED BY <1>2, <1>3, <1>4, <1>5, <1>6, <1>8, <1>9, EvaluateStep DEF OpsNext

LEMMA OpsKept ==
  ASSUME OpsIInv, [OpsNext]_opsVars
  PROVE  OpsIInv'
  <1>1. CASE OpsNext
    BY <1>1, OpsStep
  <1>2. CASE UNCHANGED opsVars
    <2>1. UNCHANGED <<signal, changes, loop, incidents, current, frozen, frozenBy, remedies, alerts>>
      BY <1>2 DEF opsVars
    <2>2. OpsTypeOK'
      BY <2>1 DEF OpsIInv, OpsTypeOK
    <2>3. OneUnresolvedPerKey' /\ OneAlertEach' /\ RemedyHasCause'
      BY <2>1 DEF OpsIInv, OneUnresolvedPerKey, OneAlertEach, RemedyHasCause
    <2>4. NumbersTellPlaces' /\ CriticalIsRemembered'
      BY <2>1 DEF OpsIInv, NumbersTellPlaces, CriticalIsRemembered
    <2> QED BY <2>2, <2>3, <2>4 DEF OpsIInv
  <1> QED BY <1>1, <1>2

LEMMA OpsSound ==
  ASSUME OpsIInv
  PROVE  IncidentsAgree
  <1>1. DOMAIN incidents = 1 .. Len(incidents) /\ Len(incidents) \in Nat /\ MaxHistory \in Nat
    BY OpsTyped
  <1>2. IdsDistinctUntilTrimmed
    <2> SUFFICES ASSUME NEW i \in 1 .. Len(incidents), NEW j \in 1 .. Len(incidents),
                        i # j, incidents[i].id = incidents[j].id
                 PROVE  i > MaxHistory /\ j > MaxHistory
      BY <1>1 DEF IdsDistinctUntilTrimmed
    <2>1. (IF i <= MaxHistory THEN i ELSE MaxHistory + 1) = (IF j <= MaxHistory THEN j ELSE MaxHistory + 1)
      BY <1>1 DEF OpsIInv, NumbersTellPlaces
    <2> QED BY <1>1, <2>1
  <1> QED BY <1>2 DEF OpsIInv, IncidentsAgree

-----------------------------------------------------------------------------

LEMMA SuiteRuns ==
  ASSUME SuiteNext
  PROVE  [OpsNext]_opsVars /\ [ConsoleNext]_consoleVars
  BY DEF SuiteNext

(* For every set of signals and of operators, and every length of the list  *)
(* and of the queue: an operator is told the truth. Incidents, their ids,   *)
(* their alerts and the remediation of incident_engine.go, alert_manager.go *)
(* and main.go agree, whatever operators resolve in between, and a job that *)
(* was accepted is found by its id as long as nobody ended another one in   *)
(* its place.                                                               *)
THEOREM OperatorsAreTold == SuiteSpec => []OperatorsInformed
  <1>1. SuiteInit => ConsoleIInv /\ OpsIInv
    BY ConsoleStart, OpsStart DEF SuiteInit
  <1>2. ConsoleIInv /\ OpsIInv /\ [SuiteNext]_suiteVars => ConsoleIInv' /\ OpsIInv'
    <2> SUFFICES ASSUME ConsoleIInv, OpsIInv, [SuiteNext]_suiteVars PROVE ConsoleIInv' /\ OpsIInv'
      OBVIOUS
    <2>1. [OpsNext]_opsVars /\ [ConsoleNext]_consoleVars
      <3>1. CASE SuiteNext
        BY <3>1, SuiteRuns
      <3>2. CASE UNCHANGED suiteVars
        BY <3>2 DEF suiteVars
      <3> QED BY <3>1, <3>2
    <2> QED BY <2>1, ConsoleKept, OpsKept
  <1>3. ConsoleIInv /\ OpsIInv => OperatorsInformed
    BY OpsSound, UnhealthyRefusesTraffic DEF ConsoleIInv, OperatorsInformed
  <1> QED BY <1>1, <1>2, <1>3, PTL DEF SuiteSpec

(* An incident that stays unresolved never loses severity or its            *)
(* acknowledgement, and a resolved one is never taken back: Evaluate,       *)
(* AcknowledgeIncident and ResolveIncident of incident_engine.go.           *)
THEOREM IncidentsNeverImprove == SuiteSpec => IncidentsOnlyWorsen
  <1>1. SuiteInit => OpsIInv
    BY OpsStart DEF SuiteInit
  <1>2. OpsIInv /\ [SuiteNext]_suiteVars => OpsIInv'
    BY SuiteRuns, OpsKept DEF suiteVars
  <1>3. OpsIInv /\ [SuiteNext]_suiteVars =>
          [\A i \in DOMAIN incidents :
             /\ Worth(incidents[i].severity) <= Worth(incidents'[i].severity)
             /\ incidents[i].status = "ACKNOWLEDGED" => incidents'[i].status # "OPEN"
             /\ incidents[i].status = "RESOLVED" => incidents'[i].status = "RESOLVED"]_opsVars
    <2> SUFFICES ASSUME OpsIInv, [SuiteNext]_suiteVars, opsVars' # opsVars
                 PROVE  \A i \in DOMAIN incidents :
                          /\ Worth(incidents[i].severity) <= Worth(incidents'[i].severity)
                          /\ incidents[i].status = "ACKNOWLEDGED" => incidents'[i].status # "OPEN"
                          /\ incidents[i].status = "RESOLVED" => incidents'[i].status = "RESOLVED"
      OBVIOUS
    <2>1. OpsNext
      BY SuiteRuns DEF suiteVars
    <2>2. Grown /\ DOMAIN incidents = 1 .. Len(incidents)
      BY <2>1, OpsStep, OpsTyped
    <2> QED BY <2>2 DEF Grown, Later
  <1> QED BY <1>1, <1>2, <1>3, PTL DEF SuiteSpec, IncidentsOnlyWorsen

(* From outside, nothing but a request with the administrator's key, and    *)
(* one that is told so, starts a job or a rollout or turns a control:       *)
(* RequireAdminAuth, the handlers of cmd/api and the goroutines of          *)
(* retraining_coordinator.go.                                               *)
THEOREM AdministratorsOnly == SuiteSpec => OnlyAdministratorsChange
  <1>1. SuiteInit => ConsoleIInv
    BY ConsoleStart DEF SuiteInit
  <1>2. ConsoleIInv /\ [SuiteNext]_suiteVars => ConsoleIInv'
    BY SuiteRuns, ConsoleKept DEF suiteVars
  <1>3. ConsoleIInv /\ [SuiteNext]_suiteVars =>
          [desk.on' # desk.on \/ desk.last' # desk.last \/ ~(rollouts' \subseteq rollouts)
             => answer'.key /\ answer'.code \in {200, 202}]_consoleVars
    <2> SUFFICES ASSUME ConsoleIInv, [SuiteNext]_suiteVars, consoleVars' # consoleVars
                 PROVE  desk.on' # desk.on \/ desk.last' # desk.last \/ ~(rollouts' \subseteq rollouts)
                          => answer'.key /\ answer'.code \in {200, 202}
      OBVIOUS
    <2>1. ConsoleNext
      BY SuiteRuns DEF suiteVars
    <2> QED BY <2>1, AdministratorsStep
  <1> QED BY <1>1, <1>2, <1>3, PTL DEF SuiteSpec, OnlyAdministratorsChange

-----------------------------------------------------------------------------
(* Drift. *)

LEMMA Wraps ==
  ASSUME NEW R \in Nat, 0 < R, NEW x \in 0 .. 2 * R - 1
  PROVE  x % R = IF x < R THEN x ELSE x - R
  OBVIOUS

\* The place in the ring of the i-th of the vectors it holds.
PlaceOf(next, count, i) ==
  LET x == ((next + RingSize) - count) + i - 1 IN IF x < RingSize THEN x ELSE x - RingSize

\* The ring is full or holds all there was, and its i-th vector is the i-th of the last ones.
RingHolds ==
  /\ ring.count = IF Len(pushed) < RingSize THEN Len(pushed) ELSE RingSize
  /\ \A i \in 1 .. ring.count :
       ring.buffer[PlaceOf(ring.next, ring.count, i)] = pushed[Len(pushed) - ring.count + i]

DriftIInv == DriftTypeOK /\ RingHolds /\ StatusIsLatest

RingRecords ==
  [buffer : [0 .. RingSize - 1 -> BOOLEAN], next : 0 .. RingSize - 1, count : 0 .. RingSize]

LEMMA RingShows ==
  ASSUME DriftIInv
  PROVE  RingIsRecent
  <1>1. /\ RingSize \in Nat /\ 0 < RingSize /\ ring \in RingRecords
        /\ pushed \in Seq(BOOLEAN) /\ Len(pushed) \in Nat
    BY DriftAssumption DEF DriftIInv, DriftTypeOK, RingRecords
  <1>2. /\ ring.next \in 0 .. RingSize - 1 /\ ring.count \in 0 .. RingSize /\ ring.count <= Len(pushed)
    BY <1>1 DEF RingRecords, DriftIInv, RingHolds
  <1> DEFINE n == ring.count
             m == Len(pushed)
             part == SubSeq(pushed, 1 + m - n, m)
  <1>3. \A i \in 1 .. n :
          ((ring.next + RingSize) - n) + i - 1 \in 0 .. 2 * RingSize - 1
    BY SMTT(30), <1>1, <1>2
  <1>4. \A i \in 1 .. n : (((ring.next + RingSize) - n) + i - 1) % RingSize = PlaceOf(ring.next, n, i)
    BY <1>1, <1>3, Wraps DEF PlaceOf
  <1>5. Snapshot = [i \in 1 .. n |-> pushed[m - n + i]]
    BY <1>4 DEF Snapshot, DriftIInv, RingHolds
  <1>6. part = [i \in 1 .. n |-> pushed[m - n + i]]
    <2>1. 1 + m - n \in 1 .. m + 1
      BY <1>1, <1>2
    <2>2. /\ Len(part) = n /\ part \in Seq(BOOLEAN)
          /\ \A i \in 1 .. n : part[i] = pushed[m - n + i]
      <3> DEFINE a == 1 + m - n
      <3>1. a \in 1 .. m + 1 /\ m \in Nat /\ a + n = m + 1 /\ pushed \in Seq(BOOLEAN) /\ n \in Nat
        BY <1>1, <1>2, <2>1
      <3>2. part = SubSeq(pushed, a, m)
        OBVIOUS
      <3> HIDE DEF a
      <3>3. Len(SubSeq(pushed, a, m)) = n /\ SubSeq(pushed, a, m) \in Seq(BOOLEAN)
        BY <3>1
      <3>4. \A i \in 1 .. n : SubSeq(pushed, a, m)[i] = pushed[(a + i) - 1]
        BY <3>1
      <3>5. \A i \in 1 .. n : (a + i) - 1 = m - n + i
        BY <3>1
      <3> QED BY <3>2, <3>3, <3>4, <3>5
    <2> HIDE DEF part
    <2>3. part = [i \in 1 .. Len(part) |-> part[i]]
      BY <2>2
    <2> QED BY <2>2, <2>3
  <1> QED BY <1>5, <1>6 DEF RingIsRecent

\* A push leaves every vector but one where it is; when the ring is full each gets the next lower rank.
NextPlace(x) == IF x + 1 < RingSize THEN x + 1 ELSE 0
SamePlace(x, y, n, i) ==
  /\ PlaceOf(y, n + 1, i) = PlaceOf(x, n, i)
  /\ PlaceOf(y, n + 1, i) \in 0 .. RingSize - 1 /\ PlaceOf(y, n + 1, i) # x

LEMMA PlaceStays ==
  ASSUME RingSize \in Nat, 0 < RingSize, NEW x \in 0 .. RingSize - 1, NEW n \in 0 .. RingSize - 1,
         NEW i \in 1 .. n, NEW y, y = NextPlace(x)
  PROVE  SamePlace(x, y, n, i)
  <1>1. CASE y = x + 1 /\ x + 1 < RingSize
    <2>1. ((y + RingSize) - (n + 1)) + i - 1 = ((x + RingSize) - n) + i - 1
      BY <1>1
    <2> QED BY <1>1, <2>1 DEF PlaceOf, SamePlace
  <1>2. CASE y = 0 /\ x = RingSize - 1
    <2>1. /\ ((y + RingSize) - (n + 1)) + i - 1 = ((x + RingSize) - n) + i - 1 - RingSize
          /\ ((x + RingSize) - n) + i - 1 >= RingSize
          /\ ((y + RingSize) - (n + 1)) + i - 1 < RingSize
      BY <1>2
    <2> QED BY <1>2, <2>1 DEF PlaceOf, SamePlace
  <1> QED BY <1>1, <1>2 DEF NextPlace

LEMMA PlaceShifts ==
  ASSUME RingSize \in Nat, 0 < RingSize, NEW x \in 0 .. RingSize - 1,
         NEW i \in 1 .. RingSize - 1, NEW y, y = IF x + 1 < RingSize THEN x + 1 ELSE 0
  PROVE  /\ PlaceOf(y, RingSize, i) = PlaceOf(x, RingSize, i + 1)
         /\ PlaceOf(y, RingSize, i) \in 0 .. RingSize - 1 /\ PlaceOf(y, RingSize, i) # x
  <1>1. ((x + RingSize) - RingSize) + (i + 1) - 1 = x + i
    OBVIOUS
  <1>2. CASE y = x + 1 /\ x + 1 < RingSize
    <2>1. ((y + RingSize) - RingSize) + i - 1 = x + i
      BY <1>2
    <2> QED BY <1>1, <1>2, <2>1 DEF PlaceOf
  <1>3. CASE y = 0 /\ x = RingSize - 1
    <2>1. ((y + RingSize) - RingSize) + i - 1 = i - 1
      BY <1>3
    <2> QED BY <1>1, <1>3, <2>1 DEF PlaceOf
  <1> QED BY <1>2, <1>3

LEMMA PushKeeps ==
  ASSUME DriftIInv, NEW v \in BOOLEAN, PushVector(v)
  PROVE  ring' \in RingRecords /\ pushed' \in Seq(BOOLEAN) /\ Len(pushed') <= MaxPushes /\ RingHolds'
         /\ Len(pushed') = Len(pushed) + 1
  <1> DEFINE n == ring.count
             m == Len(pushed)
             x == ring.next
  <1>1. /\ RingSize \in Nat /\ 0 < RingSize /\ MaxPushes \in Nat
        /\ ring \in RingRecords /\ pushed \in Seq(BOOLEAN) /\ m \in Nat
    BY DriftAssumption DEF DriftIInv, DriftTypeOK, RingRecords
  <1>2. /\ x \in 0 .. RingSize - 1 /\ n \in 0 .. RingSize
        /\ ring.buffer \in [0 .. RingSize - 1 -> BOOLEAN]
        /\ n = IF m < RingSize THEN m ELSE RingSize
        /\ \A i \in 1 .. n : ring.buffer[PlaceOf(x, n, i)] = pushed[m - n + i]
    BY <1>1 DEF RingRecords, DriftIInv, RingHolds
  <1>3. /\ m < MaxPushes /\ pushed' = Append(pushed, v)
        /\ ring' = [buffer |-> [ring.buffer EXCEPT ![x] = v], next |-> (x + 1) % RingSize,
                    count |-> IF n < RingSize THEN n + 1 ELSE n]
    BY DEF PushVector
  <1>4. (x + 1) % RingSize = IF x + 1 < RingSize THEN x + 1 ELSE 0
    <2>1. x + 1 \in 0 .. 2 * RingSize - 1
      BY <1>1, <1>2
    <2>2. (x + 1) % RingSize = IF x + 1 < RingSize THEN x + 1 ELSE (x + 1) - RingSize
      BY <1>1, <2>1, Wraps
    <2> QED BY <1>1, <1>2, <2>2
  <1>5. /\ ring'.next = IF x + 1 < RingSize THEN x + 1 ELSE 0
        /\ ring'.count = IF n < RingSize THEN n + 1 ELSE n
        /\ ring'.buffer = [ring.buffer EXCEPT ![x] = v]
    BY <1>3, <1>4
  <1>6. /\ pushed' \in Seq(BOOLEAN) /\ Len(pushed') = m + 1 /\ Len(pushed') <= MaxPushes
        /\ pushed'[m + 1] = v /\ \A i \in 1 .. m : pushed'[i] = pushed[i]
    BY <1>1, <1>3
  <1>7. ring' \in RingRecords
    <2>1. ring'.buffer \in [0 .. RingSize - 1 -> BOOLEAN]
      BY <1>2, <1>5
    <2>2. ring'.next \in 0 .. RingSize - 1 /\ ring'.count \in 0 .. RingSize
      BY <1>1, <1>2, <1>5
    <2>3. ring' = [buffer |-> ring'.buffer, next |-> ring'.next, count |-> ring'.count]
      BY <1>3
    <2> QED BY <2>1, <2>2, <2>3 DEF RingRecords
  <1> DEFINE c == ring'.count
             y == ring'.next
  <1>8. c = IF m + 1 < RingSize THEN m + 1 ELSE RingSize
    BY <1>1, <1>2, <1>5
  <1>9. c \in 1 .. RingSize /\ y \in 0 .. RingSize - 1
    BY <1>1, <1>2, <1>5
  <1>10. PlaceOf(y, c, c) = x
    BY <1>1, <1>2, <1>5, <1>9 DEF PlaceOf
  <1>11. ASSUME NEW i \in 1 .. c - 1
         PROVE  /\ i + 1 - (c - n) \in 1 .. n
                /\ PlaceOf(y, c, i) = PlaceOf(x, n, i + 1 - (c - n))
                /\ PlaceOf(y, c, i) \in 0 .. RingSize - 1 /\ PlaceOf(y, c, i) # x
    <2> DEFINE j == i + 1 - (c - n)
    <2>1. j \in 1 .. n /\ i \in 1 .. n /\ j = IF n < RingSize THEN i ELSE i + 1
      BY <1>1, <1>2, <1>5, <1>9, <1>11
    <2>5. CASE n < RingSize
      <3>1. c = n + 1 /\ j = i
        BY <1>1, <1>5, <2>1, <2>5
      <3>2. /\ PlaceOf(y, n + 1, i) = PlaceOf(x, n, i)
            /\ PlaceOf(y, n + 1, i) \in 0 .. RingSize - 1 /\ PlaceOf(y, n + 1, i) # x
        <4>1. /\ RingSize \in Nat /\ 0 < RingSize /\ x \in 0 .. RingSize - 1
              /\ n \in 0 .. RingSize - 1 /\ i \in 1 .. n
              /\ y = NextPlace(x)
          BY <1>1, <1>2, <1>5, <2>1, <2>5 DEF NextPlace
        <4> HIDE DEF n, x, y
        <4>2. SamePlace(x, y, n, i)
          BY <4>1, PlaceStays
        <4> QED BY <4>2 DEF SamePlace
      <3> QED BY <2>1, <3>1, <3>2
    <2>6. CASE n = RingSize
      <3>1. c = n /\ j = i + 1 /\ i \in 1 .. RingSize - 1
        BY <1>1, <1>5, <1>9, <1>11, <2>1, <2>6
      <3>2. /\ PlaceOf(y, RingSize, i) = PlaceOf(x, RingSize, i + 1)
            /\ PlaceOf(y, RingSize, i) \in 0 .. RingSize - 1 /\ PlaceOf(y, RingSize, i) # x
        BY <1>1, <1>2, <1>5, <3>1, PlaceShifts
      <3> QED BY <2>1, <2>6, <3>1, <3>2
    <2> QED BY <1>1, <1>2, <2>5, <2>6
  <1>12. ASSUME NEW i \in 1 .. c
         PROVE  ring'.buffer[PlaceOf(y, c, i)] = pushed'[(m + 1) - c + i]
    <2>1. CASE i = c
      <3>1. (m + 1) - c + i = m + 1
        BY <1>1, <1>9, <2>1
      <3>2. ring'.buffer[x] = v
        BY <1>2, <1>5
      <3> QED BY <1>6, <1>10, <2>1, <3>1, <3>2
    <2>2. CASE i # c
      <3> DEFINE j == i + 1 - (c - n)
      <3>1. i \in 1 .. c - 1
        BY <1>9, <2>2
      <3>2. /\ j \in 1 .. n /\ PlaceOf(y, c, i) = PlaceOf(x, n, j)
            /\ PlaceOf(y, c, i) \in 0 .. RingSize - 1 /\ PlaceOf(y, c, i) # x
        BY <1>11, <3>1
      <3>3. ring'.buffer[PlaceOf(y, c, i)] = ring.buffer[PlaceOf(x, n, j)]
        BY <1>2, <1>5, <3>2
      <3>4. ring.buffer[PlaceOf(x, n, j)] = pushed[m - n + j]
        BY <1>2, <3>2
      <3>5. m - n + j = (m + 1) - c + i /\ m - n + j \in 1 .. m
        BY SMTT(30), <1>1, <1>2, <1>9, <3>1, <3>2
      <3> QED BY <1>6, <3>3, <3>4, <3>5
    <2> QED BY <2>1, <2>2
  <1>13. RingHolds'
    <2>1. \A i \in 1 .. ring'.count :
            ring'.buffer[PlaceOf(ring'.next, ring'.count, i)] = pushed'[Len(pushed') - ring'.count + i]
      BY <1>6, <1>12
    <2> QED BY <1>6, <1>8, <2>1 DEF RingHolds, PlaceOf
  <1> QED BY <1>6, <1>7, <1>13

EvaluatorRecords == [pc : {"idle", "measured", "updated"}, m : Measurements]

LEMMA DriftTyped ==
  ASSUME DriftIInv
  PROVE  /\ ring \in RingRecords /\ pushed \in Seq(BOOLEAN) /\ Len(pushed) \in 0 .. MaxPushes
         /\ evaluator \in [Evaluators -> EvaluatorRecords]
         /\ drift.status \in DriftLevels /\ drift.latest \in Measurements
         /\ drift.history \in Seq(Measurements) /\ Len(drift.history) <= MaxDriftHistory
         /\ told \subseteq Measurements /\ RingHolds /\ StatusIsLatest
         /\ RingSize \in Nat /\ MinSamples \in Nat /\ MaxPushes \in Nat /\ MaxDriftHistory \in Nat
         /\ 0 < MaxDriftHistory
  <1>1. /\ RingSize \in Nat /\ MinSamples \in Nat /\ MaxPushes \in Nat /\ MaxDriftHistory \in Nat
        /\ 0 < MaxDriftHistory
    BY DriftAssumption
  <1>2. Len(pushed) \in 0 .. MaxPushes
    BY <1>1 DEF DriftIInv, DriftTypeOK
  <1> QED BY <1>1, <1>2 DEF DriftIInv, DriftTypeOK, RingRecords, EvaluatorRecords

LEMMA DriftAssembled ==
  ASSUME ring' \in RingRecords, pushed' \in Seq(BOOLEAN), Len(pushed') <= MaxPushes,
         evaluator' \in [Evaluators -> EvaluatorRecords],
         drift'.status \in DriftLevels, drift'.latest \in Measurements,
         drift'.history \in Seq(Measurements), Len(drift'.history) <= MaxDriftHistory,
         told' \subseteq Measurements, RingHolds', StatusIsLatest'
  PROVE  DriftIInv'
  BY DEF DriftIInv, DriftTypeOK, RingRecords, EvaluatorRecords

LEMMA DriftStep ==
  ASSUME DriftIInv, DriftNext
  PROVE  DriftIInv'
  <1>0. /\ ring \in RingRecords /\ pushed \in Seq(BOOLEAN) /\ Len(pushed) \in 0 .. MaxPushes
        /\ evaluator \in [Evaluators -> EvaluatorRecords]
        /\ drift.status \in DriftLevels /\ drift.latest \in Measurements
        /\ drift.history \in Seq(Measurements) /\ Len(drift.history) <= MaxDriftHistory
        /\ told \subseteq Measurements /\ RingHolds /\ StatusIsLatest
        /\ RingSize \in Nat /\ MinSamples \in Nat /\ MaxPushes \in Nat /\ MaxDriftHistory \in Nat
        /\ 0 < MaxDriftHistory
    BY DriftTyped
  <1>1. ASSUME UNCHANGED <<ring, pushed>>
        PROVE  ring' \in RingRecords /\ pushed' \in Seq(BOOLEAN) /\ Len(pushed') <= MaxPushes /\ RingHolds'
    <2>1. RingHolds
      BY <1>0
    <2>2. RingHolds'
      BY <1>1, <2>1 DEF RingHolds
    <2>3. ring' \in RingRecords
      BY <1>0, <1>1 DEF RingRecords
    <2> QED BY <1>0, <1>1, <2>2, <2>3
  <1>2. ASSUME UNCHANGED drift
        PROVE  /\ drift'.status \in DriftLevels /\ drift'.latest \in Measurements
               /\ drift'.history \in Seq(Measurements) /\ Len(drift'.history) <= MaxDriftHistory
               /\ StatusIsLatest'
    BY <1>0, <1>2 DEF StatusIsLatest
  <1>3. ASSUME NEW v \in BOOLEAN, PushVector(v) PROVE DriftIInv'
    <2>1. UNCHANGED <<evaluator, drift, told>>
      BY <1>3 DEF PushVector
    <2> QED BY <1>0, <1>2, <1>3, <2>1, PushKeeps, DriftAssembled
  <1>4. ASSUME NEW e \in Evaluators, Measure(e) PROVE DriftIInv'
    <2> DEFINE status == IF ring.count = 0 THEN "HEALTHY" ELSE Measured(Snapshot)
               m == [at |-> Len(pushed), status |-> status, enough |-> ring.count >= MinSamples]
               r == [pc |-> "measured", m |-> m]
    <2>1. evaluator' = [evaluator EXCEPT ![e] = r] /\ UNCHANGED <<ring, pushed, drift, told>>
      BY <1>4 DEF Measure
    <2>2. status \in DriftLevels
      BY DEF Measured, ModelStatus, DriftLevels
    <2>3. (ring.count >= MinSamples) \in BOOLEAN
      BY <1>0 DEF RingRecords
    <2> HIDE DEF status
    <2>4. m \in Measurements
      BY <1>0, <2>2, <2>3 DEF Measurements
    <2> HIDE DEF m
    <2>5. r \in EvaluatorRecords
      BY <2>4 DEF EvaluatorRecords
    <2> HIDE DEF r
    <2>6. evaluator' \in [Evaluators -> EvaluatorRecords]
      BY <1>0, <2>1, <2>5
    <2> QED BY <1>0, <1>1, <1>2, <2>1, <2>6, DriftAssembled
  <1>5. ASSUME NEW e \in Evaluators, NEW p \in {"idle", "measured", "updated"},
               evaluator' = [evaluator EXCEPT ![e].pc = p]
        PROVE  evaluator' \in [Evaluators -> EvaluatorRecords]
    BY <1>0, <1>5 DEF EvaluatorRecords
  <1>6. ASSUME NEW e \in Evaluators, UpdateState(e) PROVE DriftIInv'
    <2> DEFINE m == evaluator[e].m
               kept == IF Len(drift.history) >= MaxDriftHistory THEN Tail(drift.history) ELSE drift.history
    <2>1. /\ drift' = [status |-> m.status, latest |-> m, history |-> Append(kept, m)]
          /\ evaluator' = [evaluator EXCEPT ![e].pc = IF evaluator[e].m.enough THEN "updated" ELSE "idle"]
          /\ UNCHANGED <<ring, pushed, told>>
      BY <1>6 DEF UpdateState
    <2>2. m \in Measurements /\ m.status \in DriftLevels
      BY <1>0 DEF EvaluatorRecords, Measurements
    <2>3. kept \in Seq(Measurements) /\ Len(kept) < MaxDriftHistory
      BY <1>0
    <2> HIDE DEF m, kept
    <2>4. /\ Append(kept, m) \in Seq(Measurements) /\ Len(Append(kept, m)) <= MaxDriftHistory
          /\ Append(kept, m)[Len(Append(kept, m))] = m
      BY <1>0, <2>2, <2>3
    <2>5. drift'.status = m.status /\ drift'.latest = m /\ drift'.history = Append(kept, m)
      BY <2>1
    <2>6. StatusIsLatest'
      BY <2>4, <2>5 DEF StatusIsLatest, Last
    <2>7. evaluator' \in [Evaluators -> EvaluatorRecords]
      BY <1>5, <2>1
    <2> QED BY <1>0, <1>1, <2>1, <2>2, <2>4, <2>5, <2>6, <2>7, DriftAssembled
  <1>7. ASSUME NEW e \in Evaluators, Tell(e) PROVE DriftIInv'
    <2>1. told' \subseteq Measurements
      BY <1>0, <1>7 DEF Tell, EvaluatorRecords
    <2>2. evaluator' \in [Evaluators -> EvaluatorRecords] /\ UNCHANGED <<ring, pushed, drift>>
      BY <1>5, <1>7 DEF Tell
    <2> QED BY <1>0, <1>1, <1>2, <2>1, <2>2, DriftAssembled
  <1> QED BY <1>3, <1>4, <1>6, <1>7 DEF DriftNext

LEMMA DriftStart ==
  ASSUME DriftInit
  PROVE  DriftIInv
  <1>1. RingSize \in Nat /\ 0 < RingSize /\ MaxPushes \in Nat /\ MaxDriftHistory \in Nat
    BY DriftAssumption
  <1>2. NoMeasurement \in Measurements
    BY <1>1 DEF NoMeasurement, Measurements, DriftLevels
  <1>3. ring \in RingRecords /\ ring.count = 0
    <2>1. 0 \in 0 .. RingSize - 1 /\ 0 \in 0 .. RingSize
      BY <1>1
    <2> QED BY <2>1 DEF DriftInit, RingRecords
  <1>4. pushed = <<>> /\ pushed \in Seq(BOOLEAN) /\ Len(pushed) = 0
    BY DEF DriftInit
  <1>5. evaluator \in [Evaluators -> EvaluatorRecords]
    BY <1>2 DEF DriftInit, EvaluatorRecords
  <1>6. /\ drift.status \in DriftLevels /\ drift.latest \in Measurements
        /\ drift.history \in Seq(Measurements) /\ Len(drift.history) <= MaxDriftHistory
        /\ StatusIsLatest
    <2>1. drift.history = <<>> /\ drift.latest = NoMeasurement /\ drift.status = "HEALTHY"
      BY DEF DriftInit
    <2>2. NoMeasurement.status = "HEALTHY" /\ Len(drift.history) = 0
      BY <2>1 DEF NoMeasurement
    <2> QED BY <1>1, <1>2, <2>1, <2>2 DEF StatusIsLatest, DriftLevels
  <1>7. RingHolds
    BY <1>1, <1>3, <1>4 DEF RingHolds
  <1>8. told \subseteq Measurements
    BY DEF DriftInit
  <1> QED BY <1>1, <1>3, <1>4, <1>5, <1>6, <1>7, <1>8
          DEF DriftIInv, DriftTypeOK, RingRecords, EvaluatorRecords

LEMMA DriftKept ==
  ASSUME DriftIInv, [DriftNext]_driftVars
  PROVE  DriftIInv'
  <1>1. CASE DriftNext
    BY <1>1, DriftStep
  <1>2. CASE UNCHANGED driftVars
    <2>1. UNCHANGED <<ring, pushed, evaluator, drift, told>>
      BY <1>2 DEF driftVars
    <2>2. RingHolds' /\ StatusIsLatest'
      BY <2>1 DEF DriftIInv, RingHolds, StatusIsLatest
    <2> QED BY <2>1, <2>2, DriftTyped, DriftAssembled
  <1> QED BY <1>1, <1>2

(* For every capacity and every number of evaluators: drift is measured of  *)
(* the latest vectors, in their order, whether the ring of                  *)
(* drift_collector.go has wrapped around or not, and the status that        *)
(* drift_detector.go shows is that of the latest measurement, with which    *)
(* its history ends.                                                        *)
THEOREM DriftSeesTheLatest == SuiteSpec => [](DriftTypeOK /\ RingIsRecent /\ StatusIsLatest)
  <1>1. SuiteInit => DriftIInv
    BY DriftStart DEF SuiteInit
  <1>2. DriftIInv /\ [SuiteNext]_suiteVars => DriftIInv'
    <2> SUFFICES ASSUME DriftIInv, [SuiteNext]_suiteVars PROVE DriftIInv'
      OBVIOUS
    <2>1. [DriftNext]_driftVars
      BY DEF SuiteNext, suiteVars
    <2> QED BY <2>1, DriftKept
  <1>3. DriftIInv => DriftTypeOK /\ RingIsRecent /\ StatusIsLatest
    BY RingShows DEF DriftIInv
  <1> QED BY <1>1, <1>2, <1>3, PTL DEF SuiteSpec

-----------------------------------------------------------------------------
(* Service levels. *)

\* What is measured: one level of the definitions, and sorted samples.
LevelTyped ==
  /\ level.slo \in DOMAIN Definitions /\ level.value \in Int
  /\ level.window \in Seq(Int)
  /\ \A i, j \in 1 .. Len(level.window) : i <= j => level.window[i] <= level.window[j]

LEMMA LevelStart ==
  ASSUME SuiteInit
  PROVE  LevelTyped
  <1>1. LevelValues \subseteq Int /\ SampleValues \subseteq Int /\ MaxSamples \in Nat
    BY SuiteAssumption
  <1>2. "availability" \in DOMAIN Definitions /\ One \in Int
    BY DEF Definitions, One
  <1>3. ASSUME NEW w \in Windows
        PROVE  w \in Seq(Int) /\ \A i, j \in 1 .. Len(w) : i <= j => w[i] <= w[j]
    <2>1. PICK n \in 0 .. MaxSamples : /\ w \in [1 .. n -> SampleValues]
                                       /\ \A i, j \in 1 .. n : i <= j => w[i] <= w[j]
      BY <1>3 DEF Windows
    <2>2. n \in Nat
      BY <1>1
    <2>3. w \in [1 .. n -> Int]
      BY <1>1, <2>1
    <2> QED BY <2>1, <2>2, <2>3, FunctionsAreLists
  <1>4. <<>> \in Seq(Int) /\ \A i, j \in 1 .. Len(<<>>) : FALSE
    OBVIOUS
  <1>5. CASE level \in [slo : DOMAIN Definitions, value : LevelValues, window : {<<>>}]
    BY <1>1, <1>4, <1>5 DEF LevelTyped
  <1>6. CASE level \in [slo : {"availability"}, value : {One}, window : Windows]
    <2>1. level.slo = "availability" /\ level.value = One /\ level.window \in Windows
      BY <1>6
    <2> QED BY <1>2, <1>3, <2>1 DEF LevelTyped
  <1>7. CASE level = [slo |-> "availability", value |-> One, window |-> <<>>]
    <2>1. level.slo = "availability" /\ level.value = One /\ level.window = <<>>
      BY <1>7
    <2> QED BY <1>2, <1>4, <2>1 DEF LevelTyped
  <1> QED BY <1>5, <1>6, <1>7 DEF SuiteInit, LevelInit

LEMMA AtLeastQuotient ==
  ASSUME NEW n \in Int, NEW d \in Nat, 0 < d, n >= 2500 * d
  PROVE  n \div d >= 2500
  OBVIOUS

\* What remains of a budget: nothing when it is spent, a quarter when three quarters are not exceeded.
LEMMA BudgetRemains ==
  ASSUME NEW budget \in Nat, 0 < budget, budget <= 20000, NEW spent \in Int, NEW left,
         left = IF spent <= 0 THEN 10000
                ELSE IF spent >= budget THEN 0 ELSE Rounded(10000 * (budget - spent), budget)
  PROVE  /\ left \in Nat
         /\ left = 0 => spent >= budget
         /\ spent >= budget => left = 0
         /\ 4 * spent <= 3 * budget => left >= 2500
  <1>1. spent >= budget => left = 0
    OBVIOUS
  <1>2. CASE spent <= 0
    BY <1>1, <1>2
  <1>3. CASE 0 < spent /\ spent < budget
    <2> DEFINE n == 2 * (10000 * (budget - spent)) + budget
               d == 2 * budget
    <2>1. /\ n \in Int /\ d \in Nat /\ 0 < d /\ n >= 1 * d
          /\ 4 * spent <= 3 * budget => n >= 2500 * d
      BY <1>3
    <2>2. left = n \div d
      BY <1>3 DEF Rounded
    <2> HIDE DEF n, d
    <2>3. n \div d >= 1 /\ n \div d \in Int
      BY <2>1
    <2>4. 4 * spent <= 3 * budget => n \div d >= 2500
      BY <2>1, AtLeastQuotient
    <2> QED BY <1>3, <2>2, <2>3, <2>4
  <1>4. CASE spent >= budget
    BY <1>1, <1>4
  <1> QED BY <1>2, <1>3, <1>4

\* A level whose warning leaves a quarter of its budget, and whose breach has spent it.
LeavesQuarter(slo) ==
  /\ slo.upper \in BOOLEAN /\ slo.target \in Int /\ slo.warning \in Int /\ slo.breach \in Int
  /\ slo.upper => /\ 0 < slo.target /\ slo.target <= slo.breach /\ slo.target <= 20000
                  /\ 4 * slo.warning <= 3 * slo.target
  /\ ~slo.upper => /\ slo.target < 100000 /\ slo.breach <= slo.target /\ slo.target >= 80000
                   /\ 4 * (100000 - slo.warning) <= 3 * (100000 - slo.target)

\* What the status of a level tells of its budget, and the budget of its status.
StatusAndBudget(slo, v) ==
  /\ Remaining(slo, v) \in Nat
  /\ StatusOf(slo, v) = "BREACHED" => Remaining(slo, v) = 0
  /\ StatusOf(slo, v) = "HEALTHY" => Remaining(slo, v) >= 2500
  /\ Remaining(slo, v) = 0 /\ slo.breach = slo.target
       => \/ StatusOf(slo, v) = "BREACHED"
          \/ StatusOf(slo, v) = "WARNING" /\ v = slo.target

LEMMA StatusTellsBudget ==
  ASSUME NEW slo, NEW v \in Int, LeavesQuarter(slo)
  PROVE  StatusAndBudget(slo, v)
  <1> DEFINE budget == IF slo.upper THEN slo.target ELSE One - slo.target
             spent == IF slo.upper THEN v ELSE One - v
             left == IF spent <= 0 THEN 10000
                     ELSE IF spent >= budget THEN 0 ELSE Rounded(10000 * (budget - spent), budget)
  <1>1. spent \in Int /\ budget \in Nat /\ 0 < budget /\ budget <= 20000
    BY SMT DEF One, LeavesQuarter
  <1>2. Remaining(slo, v) = left
    BY SMT DEF Remaining
  <1>3. StatusOf(slo, v) = "BREACHED" => spent >= budget
    BY SMT DEF StatusOf, LeavesQuarter, One
  <1>4. StatusOf(slo, v) = "HEALTHY" => 4 * spent <= 3 * budget
    BY SMT DEF StatusOf, LeavesQuarter, One
  <1>5. ASSUME spent >= budget, slo.breach = slo.target
        PROVE  \/ StatusOf(slo, v) = "BREACHED"
               \/ StatusOf(slo, v) = "WARNING" /\ v = slo.target
    <2>1. CASE slo.upper
      <3>1. v >= slo.target /\ slo.target > slo.warning /\ slo.target \in Int /\ slo.warning \in Int
        BY <1>5, <2>1, SMT DEF LeavesQuarter
      <3> QED BY <1>5, <2>1, <3>1, SMT DEF StatusOf
    <2>2. CASE ~slo.upper
      <3>1. v <= slo.target /\ slo.target < slo.warning /\ slo.target \in Int /\ slo.warning \in Int
        BY <1>5, <2>2, SMT DEF LeavesQuarter, One
      <3> QED BY <1>5, <2>2, <3>1, SMT DEF StatusOf
    <2> QED BY <2>1, <2>2
  <1> HIDE DEF spent, budget
  <1>6. left = IF spent <= 0 THEN 10000
               ELSE IF spent >= budget THEN 0 ELSE Rounded(10000 * (budget - spent), budget)
    OBVIOUS
  <1> HIDE DEF left
  <1>7. /\ left \in Nat
        /\ left = 0 => spent >= budget
        /\ spent >= budget => left = 0
        /\ 4 * spent <= 3 * budget => left >= 2500
    BY <1>1, <1>6, BudgetRemains, SMT
  <1> QED BY <1>2, <1>3, <1>4, <1>5, <1>7, SMT DEF StatusAndBudget

\* But for drift, a level is breached right behind its target.
BreachAtTarget(l) == l # "drift" => Definitions[l].breach = Definitions[l].target

LEMMA LevelsLeaveQuarter ==
  ASSUME NEW l \in DOMAIN Definitions
  PROVE  LeavesQuarter(Definitions[l]) /\ BreachAtTarget(l)
  <1>1. l \in {"availability", "p95_latency", "p99_latency", "error_rate", "fallback_rate",
                       "divergence", "drift", "retraining", "rollback_rate", "dependencies"}
    BY SMT DEF Definitions
  <1>2. CASE l = "availability"
    <2>1. Definitions[l] = [upper |-> FALSE, target |-> 99900, warning |-> 99950, breach |-> 99900]
      BY <1>2, SMT DEF Definitions, Slo
    <2> QED BY <2>1, SMT DEF LeavesQuarter, BreachAtTarget
  <1>3. CASE l = "p95_latency"
    <2>1. Definitions[l] = [upper |-> TRUE, target |-> 100, warning |-> 75, breach |-> 100]
      BY <1>3, SMT DEF Definitions, Slo
    <2> QED BY <2>1, SMT DEF LeavesQuarter, BreachAtTarget
  <1>4. CASE l = "p99_latency"
    <2>1. Definitions[l] = [upper |-> TRUE, target |-> 250, warning |-> 150, breach |-> 250]
      BY <1>4, SMT DEF Definitions, Slo
    <2> QED BY <2>1, SMT DEF LeavesQuarter, BreachAtTarget
  <1>5. CASE l = "error_rate"
    <2>1. Definitions[l] = [upper |-> TRUE, target |-> 500, warning |-> 200, breach |-> 500]
      BY <1>5, SMT DEF Definitions, Slo
    <2> QED BY <2>1, SMT DEF LeavesQuarter, BreachAtTarget
  <1>6. CASE l = "fallback_rate"
    <2>1. Definitions[l] = [upper |-> TRUE, target |-> 1000, warning |-> 500, breach |-> 1000]
      BY <1>6, SMT DEF Definitions, Slo
    <2> QED BY <2>1, SMT DEF LeavesQuarter, BreachAtTarget
  <1>7. CASE l = "divergence"
    <2>1. Definitions[l] = [upper |-> TRUE, target |-> 5000, warning |-> 3000, breach |-> 5000]
      BY <1>7, SMT DEF Definitions, Slo
    <2> QED BY <2>1, SMT DEF LeavesQuarter, BreachAtTarget
  <1>8. CASE l = "drift"
    <2>1. Definitions[l] = [upper |-> TRUE, target |-> 20000, warning |-> 10000, breach |-> 25000]
      BY <1>8, SMT DEF Definitions, Slo
    <2>2. BreachAtTarget(l)
      BY <1>8, SMT DEF BreachAtTarget
    <2> QED BY <2>1, <2>2, SMT DEF LeavesQuarter
  <1>9. CASE l = "retraining"
    <2>1. Definitions[l] = [upper |-> FALSE, target |-> 95000, warning |-> 98000, breach |-> 95000]
      BY <1>9, SMT DEF Definitions, Slo
    <2> QED BY <2>1, SMT DEF LeavesQuarter, BreachAtTarget
  <1>10. CASE l = "rollback_rate"
    <2>1. Definitions[l] = [upper |-> TRUE, target |-> 5000, warning |-> 2000, breach |-> 5000]
      BY <1>10, SMT DEF Definitions, Slo
    <2> QED BY <2>1, SMT DEF LeavesQuarter, BreachAtTarget
  <1>11. CASE l = "dependencies"
    <2>1. Definitions[l] = [upper |-> FALSE, target |-> 99500, warning |-> 99800, breach |-> 99500]
      BY <1>11, SMT DEF Definitions, Slo
    <2> QED BY <2>1, SMT DEF LeavesQuarter, BreachAtTarget
  <1> QED BY <1>1, <1>2, <1>3, <1>4, <1>5, <1>6, <1>7, <1>8, <1>9, <1>10, <1>11, SMT

LEMMA BudgetFollowsStatus ==
  ASSUME LevelTyped
  PROVE  BudgetMatchesStatus
  <1> DEFINE slo == Definitions[level.slo]
             left == Remaining(slo, level.value)
  <1>1. level.value \in Int /\ LeavesQuarter(slo)
    BY LevelsLeaveQuarter DEF LevelTyped
  <1> HIDE DEF slo
  <1>2. StatusAndBudget(slo, level.value)
    BY <1>1, StatusTellsBudget
  <1>3. /\ left \in Nat
        /\ StatusOf(slo, level.value) = "BREACHED" => left = 0
        /\ StatusOf(slo, level.value) = "HEALTHY" => left >= 2500
    BY <1>2 DEF StatusAndBudget
  <1> HIDE DEF left
  <1>4. /\ StatusOf(slo, level.value) = "BREACHED" => Policy(left) = "EMERGENCY_MODEL_FREEZE"
        /\ StatusOf(slo, level.value) = "HEALTHY" => Policy(left) = "BUDGET_HEALTHY"
    BY <1>3, SMT DEF Policy
  <1> QED BY <1>4 DEF slo, left, BudgetMatchesStatus

LEMMA SmallerOfTwo ==
  ASSUME NEW a \in Int, NEW b \in Int
  PROVE  Min({a, b}) = IF a <= b THEN a ELSE b
  BY DEF Min

LEMMA LargerOfTwo ==
  ASSUME NEW a \in Int, NEW b \in Int
  PROVE  Max({a, b}) = IF a >= b THEN a ELSE b
  BY DEF Max

\* The place of a percentile among n samples: the least that p per cent of them do not exceed.
PlaceOfPercentile(n, p) == Min({n, Max({1, (p * n + 99) \div 100})})
IsRank(r, n, p) == r \in 1 .. n /\ 100 * r >= p * n /\ 100 * (r - 1) < p * n

LEMMA RankReaches ==
  ASSUME NEW n \in Nat, 0 < n, NEW p \in {50, 95, 99}
  PROVE  IsRank(PlaceOfPercentile(n, p), n, p)
  <1> DEFINE q == (p * n + 99) \div 100
  <1>1. q \in Nat /\ 100 * q >= p * n /\ 100 * q < p * n + 100 /\ p * n \in Nat /\ p * n <= 100 * n /\ 0 < p * n
    <2>1. CASE p = 50
      BY <2>1
    <2>2. CASE p = 95
      BY <2>2
    <2>3. CASE p = 99
      BY <2>3
    <2> QED BY <2>1, <2>2, <2>3
  <1> HIDE DEF q
  <1>2. Max({1, q}) = IF 1 >= q THEN 1 ELSE q
    BY <1>1, LargerOfTwo
  <1> DEFINE m == Max({1, q})
  <1>3. m \in Int
    BY <1>1, <1>2
  <1>4. m \in Nat /\ 1 <= m /\ 100 * m >= p * n /\ 100 * (m - 1) < p * n
    <2> DEFINE t == p * n
    <2>1. t \in Nat /\ 0 < t /\ 100 * q >= t /\ 100 * q < t + 100
      BY <1>1
    <2> HIDE DEF t
    <2>2. m \in Nat /\ 1 <= m /\ 100 * m >= t /\ 100 * (m - 1) < t
      BY <1>1, <1>2, <2>1
    <2> QED BY <2>2 DEF t
  <1> HIDE DEF m
  <1>5. Min({n, m}) = IF n <= m THEN n ELSE m
    BY <1>3, SmallerOfTwo
  <1> DEFINE r == Min({n, m})
  <1>6. r \in 1 .. n /\ 100 * r >= p * n /\ 100 * (r - 1) < p * n
    <2> DEFINE t == p * n
    <2>1. t \in Nat /\ 0 < t /\ t <= 100 * n /\ 100 * m >= t /\ 100 * (m - 1) < t
      BY <1>1, <1>4
    <2> HIDE DEF t
    <2>2. r \in 1 .. n /\ 100 * r >= t /\ 100 * (r - 1) < t
      BY <1>4, <1>5, <2>1
    <2> QED BY <2>2 DEF t
  <1> QED BY <1>6 DEF m, q, IsRank, PlaceOfPercentile

LEMMA PercentileIsTheRank ==
  ASSUME LevelTyped
  PROVE  PercentileIsRank
  <1> DEFINE s == level.window
             n == Len(s)
             Below(v) == {i \in DOMAIN s : s[i] <= v}
  <1>1. s \in Seq(Int) /\ n \in Nat /\ DOMAIN s = 1 .. n
        /\ \A i, j \in 1 .. n : i <= j => s[i] <= s[j]
    BY DEF LevelTyped
  <1> HIDE DEF s
  <1>2. SUFFICES ASSUME NEW p \in {50, 95, 99}, s # <<>>
                 PROVE  /\ 100 * Cardinality(Below(Percentile(s, p))) >= p * n
                        /\ \A i \in DOMAIN s : s[i] < Percentile(s, p) =>
                             100 * Cardinality(Below(s[i])) < p * n
    BY DEF PercentileIsRank, s
  <1> DEFINE r == PlaceOfPercentile(n, p)
  <1>3. 0 < n
    BY <1>1, <1>2
  <1> HIDE DEF n, r
  <1>4. r \in 1 .. n /\ 100 * r >= p * n /\ 100 * (r - 1) < p * n
    <2>1. n \in Nat /\ p \in {50, 95, 99}
      BY <1>1, <1>2
    <2>2. IsRank(r, n, p)
      BY <1>3, <2>1, RankReaches DEF r
    <2> QED BY <2>2 DEF IsRank
  <1>5. Percentile(s, p) = s[r]
    BY <1>2 DEF Percentile, n, r, PlaceOfPercentile
  <1>6. p * n \in Nat
    BY <1>1
  <1>7. \A v \in Int : IsFiniteSet(Below(v)) /\ Cardinality(Below(v)) \in Nat
    <2> SUFFICES ASSUME NEW v \in Int PROVE IsFiniteSet(Below(v)) /\ Cardinality(Below(v)) \in Nat
      OBVIOUS
    <2>1. IsFiniteSet(1 .. n) /\ Below(v) \in SUBSET (1 .. n)
      BY <1>1, FS_Interval
    <2> HIDE DEF Below
    <2> QED BY <2>1, FS_Subset, FS_CardinalityType
  <1>8. 100 * Cardinality(Below(s[r])) >= p * n
    <2>1. s[r] \in Int
      BY <1>1, <1>4
    <2>2. 1 .. r \in SUBSET Below(s[r])
      BY <1>1, <1>4
    <2>3. IsFiniteSet(Below(s[r])) /\ Cardinality(Below(s[r])) \in Nat
      BY <1>7, <2>1
    <2> DEFINE B == Below(s[r])
    <2> HIDE DEF Below, B
    <2>4. Cardinality(1 .. r) <= Cardinality(B)
      BY <2>2, <2>3, FS_Subset DEF B
    <2>5. Cardinality(1 .. r) = r
      BY <1>1, <1>4, FS_Interval
    <2> QED BY <1>1, <1>4, <1>6, <2>3, <2>4, <2>5 DEF B
  <1>9. ASSUME NEW i \in DOMAIN s, s[i] < s[r] PROVE 100 * Cardinality(Below(s[i])) < p * n
    <2>1. s[i] \in Int /\ Cardinality(Below(s[i])) \in Nat
      <3>1. s[i] \in Int
        BY <1>1, <1>9
      <3> HIDE DEF Below
      <3> QED BY <1>7, <3>1
    <2>2. Below(s[i]) \in SUBSET (1 .. r - 1)
      <3> SUFFICES ASSUME NEW j \in 1 .. n, s[j] <= s[i] PROVE j \in 1 .. r - 1
        BY <1>1
      <3>1. s[j] \in Int /\ s[r] \in Int /\ ~(s[r] <= s[j])
        BY <1>1, <1>4, <1>9, <2>1
      <3>2. ~(r <= j)
        BY <1>1, <1>4, <3>1
      <3> QED BY <1>1, <1>4, <3>2
    <2>3. r - 1 \in Nat /\ IsFiniteSet(1 .. r - 1) /\ Cardinality(1 .. r - 1) = r - 1
      <3> DEFINE k == r - 1
      <3>1. k \in Nat
        BY <1>1, <1>4
      <3> HIDE DEF k
      <3>2. IsFiniteSet(1 .. k) /\ Cardinality(1 .. k) = k
        BY <3>1, FS_Interval
      <3> QED BY <3>1, <3>2 DEF k
    <2> DEFINE B == Below(s[i])
               T == 1 .. r - 1
    <2> HIDE DEF Below, B, T
    <2>4. Cardinality(B) <= Cardinality(T)
      BY <2>2, <2>3, FS_Subset DEF B, T
    <2>5. Cardinality(Below(s[i])) <= r - 1
      BY <2>3, <2>4 DEF B, T
    <2> QED BY <1>1, <1>4, <1>6, <2>1, <2>3, <2>5
  <1> QED BY <1>5, <1>8, <1>9

LEMMA GatesFollowBreaker ==
  ASSUME NEW m, NEW limits, m.total \in Nat
  PROVE  /\ GateStatus(TRUE, "HEALTHY", m, limits) = "FAILED" => Breached(m, limits)
         /\ Breached(m, limits) /\ GateStatus(TRUE, "HEALTHY", m, limits) = "HEALTHY"
              => m.total < 20 /\ ~Failing(m, limits)
         /\ GateStatus(FALSE, "ROLLED_BACK", m, limits) = "FAILED"
  BY SMT DEF GateStatus, Breached

LEMMA GatesTellBreaches == GatesShowBreaches
  <1> SUFFICES \A total \in {0, 9, 10, 19, 20, 100, 199, 200}, fallbacks \in 0 .. 2,
                  failures \in 0 .. 1, e \in {0, 50} :
                 LET limits == GateLimits([errors |-> e, fallbacks |-> 0, p95 |-> 0, p99 |-> -1])
                     m == CanarySnapshot(total, fallbacks, failures, level.window)
                     gates == GateStatus(TRUE, "HEALTHY", m, limits)
                 IN fallbacks + failures <= total =>
                      /\ gates = "FAILED" => Breached(m, limits)
                      /\ Breached(m, limits) /\ gates = "HEALTHY" => total < 20 /\ ~Failing(m, limits)
                      /\ GateStatus(FALSE, "ROLLED_BACK", m, limits) = "FAILED"
    BY Zenon DEF GatesShowBreaches
  <1> TAKE total \in {0, 9, 10, 19, 20, 100, 199, 200}, fallbacks \in 0 .. 2, failures \in 0 .. 1, e \in {0, 50}
  <1> DEFINE limits == GateLimits([errors |-> e, fallbacks |-> 0, p95 |-> 0, p99 |-> -1])
             m == CanarySnapshot(total, fallbacks, failures, level.window)
  <1>1. m.total = total /\ total \in Nat
    BY SMT DEF CanarySnapshot
  <1> HIDE DEF limits, m
  <1>2. /\ GateStatus(TRUE, "HEALTHY", m, limits) = "FAILED" => Breached(m, limits)
        /\ Breached(m, limits) /\ GateStatus(TRUE, "HEALTHY", m, limits) = "HEALTHY"
              => m.total < 20 /\ ~Failing(m, limits)
        /\ GateStatus(FALSE, "ROLLED_BACK", m, limits) = "FAILED"
    BY <1>1, GatesFollowBreaker
  <1>3. /\ GateStatus(TRUE, "HEALTHY", m, limits) = "FAILED" => Breached(m, limits)
        /\ Breached(m, limits) /\ GateStatus(TRUE, "HEALTHY", m, limits) = "HEALTHY"
              => total < 20 /\ ~Failing(m, limits)
        /\ GateStatus(FALSE, "ROLLED_BACK", m, limits) = "FAILED"
    BY <1>1, <1>2
  <1> QED BY <1>3 DEF limits, m

(* For every value of every level, and every sorted window of samples: the  *)
(* error budget policy freezes on what slo_engine.go calls breached and     *)
(* never holds back on what it calls healthy; the percentiles are the least *)
(* samples of their rank; and a gate of canary_router.go that has failed is *)
(* a breach of its breaker.                                                 *)
THEOREM ScalesAgree == SuiteSpec => [](BudgetMatchesStatus /\ PercentileIsRank /\ GatesShowBreaches)
  <1>1. SuiteInit => LevelTyped
    BY LevelStart
  <1>2. LevelTyped /\ [SuiteNext]_suiteVars => LevelTyped'
    BY DEF SuiteNext, suiteVars, LevelTyped
  <1>3. LevelTyped => BudgetMatchesStatus /\ PercentileIsRank /\ GatesShowBreaches
    BY BudgetFollowsStatus, PercentileIsTheRank, GatesTellBreaches
  <1> QED BY <1>1, <1>2, <1>3, PTL DEF SuiteSpec

-----------------------------------------------------------------------------
(* The file that every training writes.                                     *)

\* A training that is alone has no other process beside it.
AloneMeansAlone ==
  \A j, k \in TrainJobs : trainer[j].alone /\ UnderWay(j) /\ UnderWay(k) => j = k

\* What it has written is still there when its goroutine reads it.
FileIsItsOwn ==
  \A j \in TrainJobs : trainer[j].alone /\ trainer[j].process \in {"written", "done"} => onnxFile = j

\* A training that has succeeded is over: nothing it does can change the file any more.
SucceededIsOver ==
  \A j \in TrainJobs : trainer[j].state = "SUCCEEDED" => trainer[j].process = "over"

TrainingIInv ==
  TrainingTypeOK /\ AloneMeansAlone /\ FileIsItsOwn /\ SucceededIsOver /\ ChecksumOfOwnTraining

Trainings ==
  [state : {"none", "RUNNING"} \cup Final, context : {"live", "cancelled", "expired"},
   process : {"none", "running", "written", "over"} \cup Exits,
   checksum : TrainJobs \cup {NoModel, Invented}, alone : BOOLEAN]

\* A step of j's training that changes no other, and from which j's part follows.
LEMMA OneTraining ==
  ASSUME TrainingIInv, NEW j \in TrainJobs, NEW t \in Trainings,
         trainer' = [trainer EXCEPT ![j] = t],
         onnxFile' \in TrainJobs \cup {NoModel},
         heard' \in [TrainJobs -> {"nothing", "RUNNING"} \cup Final],
         onnxFile' = onnxFile \/ trainer[j].process = "running",
         t.alone = trainer[j].alone,
         t.process \notin {"none", "over"} => UnderWay(j),
         t.alone /\ t.process \in {"written", "done"} => onnxFile' = j,
         t.state = "SUCCEEDED" => t.process = "over" /\ (t.alone => t.checksum \in {j, Invented})
  PROVE  TrainingIInv'
  <1>1. /\ trainer \in [TrainJobs -> Trainings]
        /\ trainer'[j] = t /\ \A k \in TrainJobs \ {j} : trainer'[k] = trainer[k]
    BY DEF TrainingIInv, TrainingTypeOK, Trainings
  <1>2. TrainingTypeOK'
    BY <1>1 DEF TrainingTypeOK, Trainings
  <1>3. AloneMeansAlone'
    BY <1>1 DEF TrainingIInv, AloneMeansAlone, UnderWay
  <1>4. FileIsItsOwn'
    BY <1>1 DEF TrainingIInv, AloneMeansAlone, FileIsItsOwn, UnderWay
  <1>5. SucceededIsOver' /\ ChecksumOfOwnTraining'
    BY <1>1 DEF TrainingIInv, SucceededIsOver, ChecksumOfOwnTraining
  <1> QED BY <1>2, <1>3, <1>4, <1>5 DEF TrainingIInv

LEMMA TrainingStep ==
  ASSUME TrainingIInv, [TrainingNext]_trainingVars
  PROVE  TrainingIInv'
  <1>0. /\ trainer \in [TrainJobs -> Trainings]
        /\ onnxFile \in TrainJobs \cup {NoModel}
        /\ heard \in [TrainJobs -> {"nothing", "RUNNING"} \cup Final]
    BY DEF TrainingIInv, TrainingTypeOK, Trainings
  <1>1. ASSUME NEW j \in TrainJobs, NEW s \in SampleCounts, StartTraining(j, s)
        PROVE  TrainingIInv'
    <2>0. onnxFile' = onnxFile /\ heard' \in [TrainJobs -> {"nothing", "RUNNING"} \cup Final]
      BY <1>0, <1>1 DEF StartTraining, Final
    <2>1. CASE UNCHANGED trainer
      BY <1>0, <2>0, <2>1 DEF TrainingIInv, TrainingTypeOK, AloneMeansAlone, FileIsItsOwn,
         SucceededIsOver, ChecksumOfOwnTraining, UnderWay
    <2>2. CASE ~UNCHANGED trainer
      <3> DEFINE new == [Untrained EXCEPT !.state = "RUNNING", !.process = "running",
                                          !.alone = \A i \in TrainJobs : ~UnderWay(i)]
                 old == [k \in TrainJobs |-> [trainer[k] EXCEPT !.alone = @ /\ ~UnderWay(k)]]
      <3>1. trainer' = [k \in TrainJobs |-> IF k = j THEN new ELSE old[k]]
        BY <1>1, <2>2 DEF StartTraining
      <3>2. /\ new \in Trainings /\ new.state = "RUNNING" /\ new.process = "running"
            /\ new.alone <=> \A i \in TrainJobs : ~UnderWay(i)
        BY DEF Untrained, Trainings
      <3>3. \A k \in TrainJobs :
              /\ old[k] \in Trainings
              /\ old[k].alone <=> (trainer[k].alone /\ ~UnderWay(k))
              /\ old[k].process = trainer[k].process /\ old[k].state = trainer[k].state
              /\ old[k].checksum = trainer[k].checksum
        BY <1>0 DEF Trainings
      <3> HIDE DEF new, old
      <3>4. /\ trainer'[j] = new
            /\ \A k \in TrainJobs \ {j} : trainer'[k] = old[k]
        BY <3>1
      <3>5. TrainingTypeOK'
        <4>1. trainer' \in [TrainJobs -> Trainings]
          BY <3>1, <3>2, <3>3
        <4> QED BY <1>0, <2>0, <4>1 DEF TrainingTypeOK, Trainings
      <3>6. AloneMeansAlone'
        BY <3>2, <3>3, <3>4 DEF AloneMeansAlone, UnderWay
      <3>7. FileIsItsOwn'
        BY <2>0, <3>2, <3>3, <3>4 DEF TrainingIInv, FileIsItsOwn, UnderWay
      <3>8. SucceededIsOver' /\ ChecksumOfOwnTraining'
        BY <3>2, <3>3, <3>4 DEF TrainingIInv, SucceededIsOver, ChecksumOfOwnTraining
      <3> QED BY <3>5, <3>6, <3>7, <3>8 DEF TrainingIInv
    <2> QED BY <2>1, <2>2
  <1>2. ASSUME NEW j \in TrainJobs, WriteArtifact(j)
        PROVE  TrainingIInv'
    <2> DEFINE t == [trainer[j] EXCEPT !.process = "written"]
    <2>1. /\ t \in Trainings /\ t.process = "written" /\ t.alone = trainer[j].alone
          /\ t.state = trainer[j].state
      BY <1>0 DEF Trainings
    <2>2. /\ trainer' = [trainer EXCEPT ![j] = t] /\ onnxFile' = j /\ heard' = heard
          /\ trainer[j].process = "running"
      BY <1>2 DEF WriteArtifact
    <2>3. UnderWay(j) /\ t.state # "SUCCEEDED"
      BY <2>1, <2>2 DEF TrainingIInv, SucceededIsOver, UnderWay
    <2> HIDE DEF t
    <2> QED BY <1>0, <2>1, <2>2, <2>3, OneTraining
  <1>3. ASSUME NEW j \in TrainJobs, Expire(j)
        PROVE  TrainingIInv'
    <2> DEFINE t == [trainer[j] EXCEPT !.context = "expired"]
    <2>1. /\ t \in Trainings /\ t.process = trainer[j].process /\ t.alone = trainer[j].alone
          /\ t.state = trainer[j].state
      BY <1>0 DEF Trainings
    <2>2. /\ trainer' = [trainer EXCEPT ![j] = t] /\ UNCHANGED <<onnxFile, heard>>
          /\ trainer[j].process \in {"running", "written"}
      BY <1>3 DEF Expire
    <2>3. /\ UnderWay(j) /\ t.state # "SUCCEEDED"
          /\ t.alone /\ t.process \in {"written", "done"} => onnxFile = j
      BY <2>1, <2>2 DEF TrainingIInv, SucceededIsOver, FileIsItsOwn, UnderWay
    <2> HIDE DEF t
    <2> QED BY <1>0, <2>1, <2>2, <2>3, OneTraining
  <1>4. ASSUME NEW j \in TrainJobs, CancelTraining(j)
        PROVE  TrainingIInv'
    <2> DEFINE t == [trainer[j] EXCEPT !.state = "CANCELLED",
                                       !.context = IF @ = "live" THEN "cancelled" ELSE @]
    <2>1. /\ t \in Trainings /\ t.process = trainer[j].process /\ t.alone = trainer[j].alone
          /\ t.state = "CANCELLED"
      BY <1>0 DEF Trainings, Final
    <2>2. /\ trainer' = [trainer EXCEPT ![j] = t] /\ onnxFile' = onnxFile
          /\ heard' = [heard EXCEPT ![j] = "CANCELLED"]
      BY <1>4 DEF CancelTraining
    <2>3. /\ t.process \notin {"none", "over"} => UnderWay(j)
          /\ t.alone /\ t.process \in {"written", "done"} => onnxFile = j
          /\ heard' \in [TrainJobs -> {"nothing", "RUNNING"} \cup Final]
      BY <1>0, <2>1, <2>2 DEF TrainingIInv, FileIsItsOwn, UnderWay, Final
    <2> HIDE DEF t
    <2> QED BY <1>0, <2>1, <2>2, <2>3, OneTraining
  <1>5. ASSUME NEW j \in TrainJobs, Conclude(j)
        PROVE  TrainingIInv'
    <2>1. PICK state \in {"CANCELLED", "FAILED", "SUCCEEDED"}, sum \in TrainJobs \cup {NoModel, Invented} :
            /\ trainer' = [trainer EXCEPT ![j].process = "over", ![j].state = state,
                                          ![j].checksum = sum]
            /\ sum = CASE state # "SUCCEEDED" -> NoModel
                       [] trainer[j].process = "done" -> onnxFile
                       [] OTHER -> Invented
      BY <1>0, <1>5 DEF Conclude
    <2>2. UNCHANGED <<onnxFile, heard>> /\ trainer[j].process \in Exits
      BY <1>5 DEF Conclude
    <2> DEFINE t == [trainer[j] EXCEPT !.process = "over", !.state = state, !.checksum = sum]
    <2>3. sum \in TrainJobs \cup {NoModel, Invented}
      BY <2>1
    <2>4. /\ t \in Trainings /\ t.process = "over" /\ t.alone = trainer[j].alone
          /\ t.state = state /\ t.checksum = sum
      BY <1>0, <2>3 DEF Trainings, Final
    <2>5. trainer' = [trainer EXCEPT ![j] = t]
      <3>1. trainer' = [trainer EXCEPT ![j].process = "over", ![j].state = state,
                                       ![j].checksum = sum]
        BY <2>1
      <3> QED BY <1>0, <3>1
    <2>6. t.state = "SUCCEEDED" => (t.alone => t.checksum \in {j, Invented})
      BY <2>1, <2>4 DEF TrainingIInv, FileIsItsOwn
    <2> HIDE DEF t
    <2> QED BY <1>0, <2>2, <2>4, <2>5, <2>6, OneTraining
  <1>6. ASSUME NEW j \in TrainJobs, Poll(j)
        PROVE  TrainingIInv'
    BY <1>0, <1>6 DEF Poll, TrainingIInv, TrainingTypeOK, AloneMeansAlone, FileIsItsOwn,
       SucceededIsOver, ChecksumOfOwnTraining, UnderWay
  <1>7. ASSUME NEW j \in TrainJobs, NEW e \in Exits, EndProcess(j, e)
        PROVE  TrainingIInv'
    <2> DEFINE t == [trainer[j] EXCEPT !.process = e]
    <2>1. /\ t \in Trainings /\ t.process = e /\ t.alone = trainer[j].alone
          /\ t.state = trainer[j].state
      BY <1>0 DEF Trainings
    <2>2. /\ trainer' = [trainer EXCEPT ![j] = t] /\ UNCHANGED <<onnxFile, heard>>
          /\ trainer[j].process \in {"running", "written"}
          /\ e = "done" => trainer[j].process = "written"
      BY <1>7 DEF EndProcess
    <2>3. /\ UnderWay(j) /\ t.state # "SUCCEEDED"
          /\ t.alone /\ t.process \in {"written", "done"} => onnxFile = j
      BY <2>1, <2>2 DEF TrainingIInv, SucceededIsOver, FileIsItsOwn, UnderWay, Exits
    <2> HIDE DEF t
    <2> QED BY <1>0, <2>1, <2>2, <2>3, OneTraining
  <1>8. CASE UNCHANGED trainingVars
    BY <1>8 DEF trainingVars, TrainingIInv, TrainingTypeOK, AloneMeansAlone, FileIsItsOwn,
       SucceededIsOver, ChecksumOfOwnTraining, UnderWay
  <1> QED BY <1>1, <1>2, <1>3, <1>4, <1>5, <1>6, <1>7, <1>8 DEF TrainingNext

(* However many trainings are started, cancelled, timed out or left running *)
(* after their cancellation, one that no other process overlapped is never  *)
(* registered with the model of another (training_runner.go,                *)
(* executeProcess).                                                         *)
THEOREM ChecksumIsItsOwn == TrainingSpec => []ChecksumOfOwnTraining
  <1>1. TrainingInit => TrainingIInv
    BY DEF TrainingInit, Untrained, TrainingIInv, TrainingTypeOK, AloneMeansAlone, FileIsItsOwn,
       SucceededIsOver, ChecksumOfOwnTraining, UnderWay
  <1>2. TrainingIInv /\ [TrainingNext]_trainingVars => TrainingIInv'
    BY TrainingStep
  <1>3. TrainingIInv => ChecksumOfOwnTraining
    BY DEF TrainingIInv
  <1> QED BY <1>1, <1>2, <1>3, PTL DEF TrainingSpec

LEMMA TrainingStart ==
  ASSUME TrainingInit
  PROVE  TrainingIInv
  BY DEF TrainingInit, Untrained, TrainingIInv, TrainingTypeOK, AloneMeansAlone, FileIsItsOwn,
     SucceededIsOver, ChecksumOfOwnTraining, UnderWay

-----------------------------------------------------------------------------
(* The ring of evaluations. *)

\* Where the k-th of n evaluations is, when the next one goes to place `next`.
Slot(next, n, k) ==
  LET x == (next + Reservoir) - (n - k) - 1 IN IF x < Reservoir THEN x ELSE x - Reservoir

\* The ring is full or holds all there was, and each of the latest evaluations is in its place.
ReservoirHolds ==
  /\ samples.count = IF Len(history) < Reservoir THEN Len(history) ELSE Reservoir
  /\ Len(history) < Reservoir => samples.next = Len(history)
  /\ \A k \in Kept : samples.buffer[Slot(samples.next, Len(history), k)] = history[k]

SamplesIInv == SamplesTypeOK /\ ReservoirHolds

LEMMA SlotStays ==
  ASSUME Reservoir \in Nat, 0 < Reservoir, NEW x \in 0 .. Reservoir - 1, NEW n \in Nat, NEW k \in 1 .. n,
         k > (n + 1) - Reservoir, NEW y, y = IF x + 1 < Reservoir THEN x + 1 ELSE 0
  PROVE  /\ Slot(y, n + 1, k) = Slot(x, n, k)
         /\ Slot(x, n, k) \in 0 .. Reservoir - 1 /\ Slot(x, n, k) # x
  <1>1. CASE y = x + 1 /\ x + 1 < Reservoir
    <2>1. (y + Reservoir) - ((n + 1) - k) - 1 = (x + Reservoir) - (n - k) - 1
      BY <1>1
    <2> QED BY <1>1, <2>1 DEF Slot
  <1>2. CASE y = 0 /\ x = Reservoir - 1
    <2>1. /\ (y + Reservoir) - ((n + 1) - k) - 1 = (x + Reservoir) - (n - k) - 1 - Reservoir
          /\ (x + Reservoir) - (n - k) - 1 >= Reservoir
          /\ (y + Reservoir) - ((n + 1) - k) - 1 < Reservoir
      BY <1>2
    <2> QED BY <1>2, <2>1 DEF Slot
  <1> QED BY <1>1, <1>2

LEMMA LatestSlot ==
  ASSUME Reservoir \in Nat, 0 < Reservoir, NEW x \in 0 .. Reservoir - 1, NEW n \in Nat,
         NEW y, y = IF x + 1 < Reservoir THEN x + 1 ELSE 0
  PROVE  Slot(y, n + 1, n + 1) = x
  BY DEF Slot

LEMMA SamplesTyped ==
  ASSUME SamplesIInv
  PROVE  /\ Reservoir \in Nat /\ 0 < Reservoir /\ MaxEvaluations \in Nat /\ MaxProbes \in Nat /\ MaxMinute \in Nat
         /\ WindowLength \in Nat /\ SlowLatency \in Nat
         /\ samples.buffer \in [0 .. Reservoir - 1 -> Evaluations]
         /\ samples.next \in 0 .. Reservoir - 1 /\ samples.count \in 0 .. Reservoir
         /\ history \in Seq(Evaluations) /\ Len(history) \in Nat /\ Len(history) <= MaxEvaluations
         /\ DOMAIN history = 1 .. Len(history)
         /\ minute \in Nat /\ minute \in 0 .. MaxMinute
         /\ probes.total \in 0 .. MaxProbes /\ probes.healthy \in 0 .. probes.total
  BY ServiceLevelAssumption DEF SamplesIInv, SamplesTypeOK

LEMMA EvaluationKept ==
  ASSUME SamplesIInv, NEW latency \in {1, SlowLatency}, NEW degraded \in BOOLEAN,
         RecordEvaluation(latency, degraded)
  PROVE  SamplesIInv'
  <1> DEFINE n == Len(history)
             x == samples.next
             sample == [at |-> minute, latency |-> latency, degraded |-> degraded]
  <1>1. /\ Reservoir \in Nat /\ 0 < Reservoir /\ MaxEvaluations \in Nat
        /\ samples.buffer \in [0 .. Reservoir - 1 -> Evaluations]
        /\ x \in 0 .. Reservoir - 1 /\ samples.count \in 0 .. Reservoir
        /\ history \in Seq(Evaluations) /\ n \in Nat /\ DOMAIN history = 1 .. n
    BY SamplesTyped
  <1>2. sample \in Evaluations
    BY DEF SamplesIInv, SamplesTypeOK, Evaluations
  <1>3. /\ n < MaxEvaluations /\ history' = Append(history, sample)
        /\ samples' = [buffer |-> [samples.buffer EXCEPT ![x] = sample], next |-> (x + 1) % Reservoir,
                       count |-> Min({Reservoir, samples.count + 1})]
        /\ UNCHANGED <<probes, minute>>
    BY DEF RecordEvaluation
  <1> HIDE DEF sample
  <1>4. (x + 1) % Reservoir = IF x + 1 < Reservoir THEN x + 1 ELSE 0
    <2>1. x + 1 \in 0 .. 2 * Reservoir - 1
      BY <1>1
    <2>2. (x + 1) % Reservoir = IF x + 1 < Reservoir THEN x + 1 ELSE (x + 1) - Reservoir
      BY <1>1, <2>1, Wraps
    <2> QED BY <1>1, <2>2
  <1>5. Min({Reservoir, samples.count + 1}) = IF Reservoir <= samples.count + 1 THEN Reservoir ELSE samples.count + 1
    BY <1>1, SmallerOfTwo
  <1>6. /\ samples'.next = IF x + 1 < Reservoir THEN x + 1 ELSE 0
        /\ samples'.count = IF Reservoir <= samples.count + 1 THEN Reservoir ELSE samples.count + 1
        /\ samples'.buffer = [samples.buffer EXCEPT ![x] = sample]
    BY <1>3, <1>4, <1>5
  <1>7. /\ history' \in Seq(Evaluations) /\ Len(history') = n + 1 /\ DOMAIN history' = 1 .. n + 1
        /\ history'[n + 1] = sample /\ \A k \in 1 .. n : history'[k] = history[k]
    BY <1>1, <1>2, <1>3
  <1>8. /\ samples'.buffer \in [0 .. Reservoir - 1 -> Evaluations]
        /\ samples'.buffer[x] = sample
        /\ \A i \in 0 .. Reservoir - 1 : i # x => samples'.buffer[i] = samples.buffer[i]
    BY <1>1, <1>2, <1>6
  <1>9. SamplesTypeOK'
    <2>1. samples'.next \in 0 .. Reservoir - 1 /\ samples'.count \in 0 .. Reservoir
      BY <1>1, <1>6
    <2>2. history' \in Seq(Evaluations) /\ Len(history') <= MaxEvaluations
      BY <1>1, <1>3, <1>7
    <2>3. probes' = probes /\ minute' = minute
      BY <1>3
    <2> QED BY <1>8, <2>1, <2>2, <2>3 DEF SamplesIInv, SamplesTypeOK, Evaluations
  <1>10. /\ samples'.count = IF n + 1 < Reservoir THEN n + 1 ELSE Reservoir
         /\ n + 1 < Reservoir => samples'.next = n + 1
    BY <1>1, <1>6 DEF SamplesIInv, ReservoirHolds
  <1> DEFINE y == samples'.next
  <1>11. ASSUME NEW k \in 1 .. n + 1, k > (n + 1) - Reservoir
         PROVE  samples'.buffer[Slot(y, n + 1, k)] = history'[k]
    <2> HIDE DEF n, x, y
    <2>1. CASE k = n + 1
      <3>1. Slot(y, n + 1, n + 1) = x
        BY <1>1, <1>6, LatestSlot DEF y
      <3> QED BY <1>7, <1>8, <2>1, <3>1
    <2>2. CASE k # n + 1
      <3>1. k \in 1 .. n /\ k > n - Reservoir
        BY <1>1, <1>11, <2>2
      <3>2. /\ Slot(y, n + 1, k) = Slot(x, n, k)
            /\ Slot(x, n, k) \in 0 .. Reservoir - 1 /\ Slot(x, n, k) # x
        <4>1. /\ Reservoir \in Nat /\ 0 < Reservoir /\ x \in 0 .. Reservoir - 1 /\ n \in Nat /\ k \in 1 .. n
              /\ k > (n + 1) - Reservoir /\ y = IF x + 1 < Reservoir THEN x + 1 ELSE 0
          BY <1>1, <1>6, <1>11, <3>1 DEF y
        <4> QED BY <4>1, SlotStays
      <3>3. samples.buffer[Slot(x, n, k)] = history[k]
        <4>1. k \in Kept
          BY <1>1, <3>1 DEF Kept, n
        <4> QED BY <4>1 DEF SamplesIInv, ReservoirHolds, n, x
      <3> QED BY <1>7, <1>8, <3>1, <3>2, <3>3
    <2> QED BY <2>1, <2>2
  <1>12. ReservoirHolds'
    <2>1. Kept' = {k \in 1 .. n + 1 : k > (n + 1) - Reservoir}
      BY <1>7 DEF Kept
    <2>2. \A k \in Kept' : samples'.buffer[Slot(samples'.next, Len(history'), k)] = history'[k]
      BY <1>7, <1>11, <2>1
    <2> QED BY <1>7, <1>10, <2>2 DEF ReservoirHolds, Slot
  <1> QED BY <1>9, <1>12 DEF SamplesIInv

LEMMA SamplesStep ==
  ASSUME SamplesIInv, [SamplesNext]_levelVars
  PROVE  SamplesIInv'
  <1>1. CASE \E latency \in {1, SlowLatency}, degraded \in BOOLEAN : RecordEvaluation(latency, degraded)
    BY <1>1, EvaluationKept
  <1>2. ASSUME NEW healthy \in BOOLEAN, RecordDependencyCheck(healthy)
        PROVE  SamplesIInv'
    <2>1. /\ probes.total < MaxProbes /\ probes'.total = probes.total + 1
          /\ probes'.healthy = probes.healthy + IF healthy THEN 1 ELSE 0
          /\ samples' = samples /\ history' = history /\ minute' = minute
      BY <1>2 DEF RecordDependencyCheck
    <2>2. probes.total \in 0 .. MaxProbes /\ probes.healthy \in 0 .. probes.total /\ MaxProbes \in Nat
      BY SamplesTyped
    <2>3. probes'.total \in 0 .. MaxProbes /\ probes'.healthy \in 0 .. probes'.total
      <3>1. probes'.healthy = probes.healthy \/ probes'.healthy = probes.healthy + 1
        BY <2>1, <2>2
      <3> QED BY <2>1, <2>2, <3>1
    <2> QED BY <2>1, <2>3 DEF SamplesIInv, SamplesTypeOK, ReservoirHolds, Kept, Slot, Evaluations
  <1>3. CASE MinutePasses
    <2>1. minute < MaxMinute /\ minute' = minute + 1 /\ samples' = samples /\ history' = history /\ probes' = probes
      BY <1>3 DEF MinutePasses
    <2>2. minute' \in 0 .. MaxMinute
      BY <2>1, SamplesTyped
    <2> QED BY <2>1, <2>2 DEF SamplesIInv, SamplesTypeOK, ReservoirHolds, Kept, Slot, Evaluations
  <1>4. CASE UNCHANGED levelVars
    <2>1. samples' = samples /\ history' = history /\ probes' = probes /\ minute' = minute
      BY <1>4 DEF levelVars
    <2> QED BY <2>1 DEF SamplesIInv, SamplesTypeOK, ReservoirHolds, Kept, Slot, Evaluations
  <1> QED BY <1>1, <1>2, <1>3, <1>4 DEF SamplesNext

LEMMA SamplesStart ==
  ASSUME SamplesInit
  PROVE  SamplesIInv
  <1>1. /\ Reservoir \in Nat /\ 0 < Reservoir /\ MaxEvaluations \in Nat /\ MaxProbes \in Nat /\ MaxMinute \in Nat
    BY ServiceLevelAssumption
  <1>2. [at |-> 0, latency |-> 1, degraded |-> FALSE] \in Evaluations
    BY <1>1 DEF Evaluations
  <1>3. /\ samples.buffer = [i \in 0 .. Reservoir - 1 |-> [at |-> 0, latency |-> 1, degraded |-> FALSE]]
        /\ samples.next = 0 /\ samples.count = 0 /\ history = <<>>
        /\ probes.total = 0 /\ probes.healthy = 0 /\ minute = 0
    BY DEF SamplesInit
  <1>4. history \in Seq(Evaluations) /\ Len(history) = 0 /\ Kept = {}
    BY <1>3 DEF Kept
  <1>5. SamplesTypeOK
    BY <1>1, <1>2, <1>3, <1>4 DEF SamplesTypeOK
  <1>6. ReservoirHolds
    BY <1>1, <1>3, <1>4 DEF ReservoirHolds
  <1> QED BY <1>5, <1>6 DEF SamplesIInv

\* The slots of the evaluations that are kept are the filled places of the ring, one each.
SlotOf(k) == Slot(samples.next, Len(history), k)
Filled == 0 .. samples.count - 1

LEMMA SlotsMatch ==
  ASSUME SamplesIInv
  PROVE  /\ \A k \in Kept : SlotOf(k) \in Filled
         /\ \A k, l \in Kept : SlotOf(k) = SlotOf(l) => k = l
         /\ \A i \in Filled : \E k \in Kept : SlotOf(k) = i
  <1> DEFINE n == Len(history)
             x == samples.next
  <1>1. /\ Reservoir \in Nat /\ 0 < Reservoir /\ n \in Nat /\ x \in 0 .. Reservoir - 1
        /\ Kept = {k \in 1 .. n : k > n - Reservoir}
    BY SamplesTyped DEF Kept
  <1>2. /\ Filled = 0 .. (IF n < Reservoir THEN n ELSE Reservoir) - 1
        /\ n < Reservoir => x = n
    BY DEF Filled, SamplesIInv, ReservoirHolds
  <1>3. \A k : SlotOf(k) = LET z == (x + Reservoir) - (n - k) - 1 IN IF z < Reservoir THEN z ELSE z - Reservoir
    BY DEF SlotOf, Slot
  <1> HIDE DEF n, x
  <1>4. ASSUME NEW k \in Kept PROVE SlotOf(k) \in Filled
    BY <1>1, <1>2, <1>3
  <1>5. ASSUME NEW k \in Kept, NEW l \in Kept, SlotOf(k) = SlotOf(l) PROVE k = l
    BY <1>1, <1>3, <1>5
  <1>6. ASSUME NEW i \in Filled PROVE \E k \in Kept : SlotOf(k) = i
    <2>1. CASE i < x
      <3> DEFINE k == (i - x) + n + 1
      <3>1. k \in Kept
        BY <1>1, <1>2, <2>1
      <3>2. SlotOf(k) = i
        BY <1>1, <1>2, <1>3, <2>1
      <3> QED BY <3>1, <3>2
    <2>2. CASE ~(i < x)
      <3> DEFINE k == ((i - x) - Reservoir) + n + 1
      <3>1. k \in Kept
        BY <1>1, <1>2, <2>2
      <3>2. SlotOf(k) = i
        BY <1>1, <1>2, <1>3, <2>2
      <3> QED BY <3>1, <3>2
    <2> QED BY <2>1, <2>2
  <1> QED BY <1>4, <1>5, <1>6

LEMMA KeptFinite ==
  ASSUME SamplesIInv
  PROVE  IsFiniteSet(Kept)
  <1>1. Len(history) \in Nat /\ Len(history) \in Int /\ 1 \in Int /\ Kept \in SUBSET (1 .. Len(history))
    BY SamplesTyped DEF Kept
  <1>2. IsFiniteSet(1 .. Len(history))
    BY <1>1, FS_Interval
  <1> QED BY <1>1, <1>2, FS_Subset

\* Evaluations are counted in the ring as they are in the history.
LEMMA SlotsCount ==
  ASSUME SamplesIInv, NEW A \in SUBSET Kept, NEW B \in SUBSET Filled,
         \A k \in Kept : k \in A <=> SlotOf(k) \in B
  PROVE  IsFiniteSet(A) /\ Cardinality(A) \in Nat /\ Cardinality(B) = Cardinality(A)
  <1> DEFINE f == [k \in A |-> SlotOf(k)]
  <1>1. IsFiniteSet(A) /\ Cardinality(A) \in Nat
    BY KeptFinite, FS_Subset, FS_CardinalityType
  <1>2. f \in Bijection(A, B)
    <2>1. f \in [A -> B]
      OBVIOUS
    <2>2. \A k, l \in A : f[k] = f[l] => k = l
      BY SlotsMatch
    <2>3. \A i \in B : \E k \in A : f[k] = i
      <3> SUFFICES ASSUME NEW i \in B PROVE \E k \in A : f[k] = i
        OBVIOUS
      <3>1. PICK k \in Kept : SlotOf(k) = i
        BY SlotsMatch
      <3> QED BY <3>1
    <2> HIDE DEF f
    <2> QED BY <2>1, <2>2, <2>3 DEF Bijection, Injection, IsInjective, Surjection
  <1> HIDE DEF f
  <1> QED BY <1>1, <1>2, FS_Bijection DEF ExistsBijection

\* How many of the latest evaluations are young, and of these degraded or slow.
Degraded == {k \in Young : history[k].degraded}
Slowed == {k \in Young : history[k].latency = SlowLatency}

LEMMA RingCounts ==
  ASSUME SamplesIInv
  PROVE  /\ Cardinality(Counted) = Cardinality(Young)
         /\ Cardinality({i \in Counted : samples.buffer[i].degraded}) = Cardinality(Degraded)
         /\ Cardinality({i \in Counted : samples.buffer[i].latency = SlowLatency}) = Cardinality(Slowed)
         /\ Cardinality(Young) \in Nat /\ Cardinality(Degraded) \in Nat /\ Cardinality(Slowed) \in Nat
         /\ Cardinality(Degraded) <= Cardinality(Young) /\ Cardinality(Slowed) <= Cardinality(Young)
         /\ Cardinality(Young) = 0 <=> Young = {}
         /\ Cardinality(Degraded) = 0 <=> Degraded = {}
  <1> DEFINE D == {i \in Counted : samples.buffer[i].degraded}
             S == {i \in Counted : samples.buffer[i].latency = SlowLatency}
  <1>1. \A k \in Kept : SlotOf(k) \in Filled /\ samples.buffer[SlotOf(k)] = history[k]
    BY SlotsMatch DEF SamplesIInv, ReservoirHolds, SlotOf
  <1>2. Young \in SUBSET Kept /\ Degraded \in SUBSET Young /\ Slowed \in SUBSET Young
    BY DEF Young, Degraded, Slowed
  <1>3. Counted \in SUBSET Filled /\ D \in SUBSET Counted /\ S \in SUBSET Counted
    BY DEF Counted, Filled
  <1>4. \A k \in Kept : k \in Young <=> SlotOf(k) \in Counted
    BY <1>1 DEF Young, Counted, Filled
  <1>5. \A k \in Kept : k \in Degraded <=> SlotOf(k) \in D
    BY <1>1, <1>4, Zenon DEF Degraded
  <1>6. \A k \in Kept : k \in Slowed <=> SlotOf(k) \in S
    BY <1>1, <1>4, Zenon DEF Slowed
  <1>7. IsFiniteSet(Young) /\ Cardinality(Young) \in Nat /\ Cardinality(Counted) = Cardinality(Young)
    BY <1>2, <1>3, <1>4, SlotsCount
  <1> HIDE DEF D, S
  <1>8. IsFiniteSet(Degraded) /\ Cardinality(Degraded) \in Nat /\ Cardinality(D) = Cardinality(Degraded)
    <2>1. Degraded \in SUBSET Kept /\ D \in SUBSET Filled
      BY <1>2, <1>3
    <2> QED BY <1>5, <2>1, SlotsCount
  <1>9. Cardinality(Slowed) \in Nat /\ Cardinality(S) = Cardinality(Slowed)
    <2>1. Slowed \in SUBSET Kept /\ S \in SUBSET Filled
      BY <1>2, <1>3
    <2> QED BY <1>6, <2>1, SlotsCount
  <1>10. Cardinality(Degraded) <= Cardinality(Young) /\ Cardinality(Slowed) <= Cardinality(Young)
    BY <1>2, <1>7, FS_Subset
  <1>11. (Cardinality(Young) = 0 <=> Young = {}) /\ (Cardinality(Degraded) = 0 <=> Degraded = {})
    BY <1>7, <1>8, FS_EmptySet
  <1> QED BY <1>7, <1>8, <1>9, <1>10, <1>11 DEF D, S

LEMMA RingTells ==
  ASSUME SamplesIInv
  PROVE  LevelsAreRecent
  <1> DEFINE n == Len(history)
             count == samples.count
             x == samples.next
  <1>1. /\ Reservoir \in Nat /\ 0 < Reservoir /\ n \in Nat /\ x \in 0 .. Reservoir - 1 /\ count \in 0 .. Reservoir
        /\ DOMAIN history = 1 .. n
    BY SamplesTyped
  <1>2. count = IF n < Reservoir THEN n ELSE Reservoir
    BY DEF SamplesIInv, ReservoirHolds
  <1>3. count = Min({Reservoir, n})
    BY <1>1, <1>2, SmallerOfTwo
  <1>4. ASSUME NEW i \in 1 .. count
        PROVE  samples.buffer[((x + Reservoir) - count + i - 1) % Reservoir] = history[n - count + i]
    <2> DEFINE k == n - count + i
               z == (x + Reservoir) - count + i - 1
    <2>0. k \in 1 .. n /\ k > n - Reservoir
      <3> HIDE DEF n, count, x
      <3> QED BY <1>1, <1>2
    <2>1. k \in Kept
      BY <1>1, <2>0 DEF Kept
    <2>2. samples.buffer[Slot(x, n, k)] = history[k]
      BY <2>1 DEF SamplesIInv, ReservoirHolds
    <2>3. z \in 0 .. 2 * Reservoir - 1 /\ (x + Reservoir) - (n - k) - 1 = z
      <3> HIDE DEF n, count, x
      <3> QED BY <1>1
    <2>4. Slot(x, n, k) = IF z < Reservoir THEN z ELSE z - Reservoir
      BY <2>3 DEF Slot
    <2> HIDE DEF z
    <2>5. z % Reservoir = IF z < Reservoir THEN z ELSE z - Reservoir
      BY <1>1, <2>3, Wraps
    <2> QED BY <2>2, <2>4, <2>5 DEF z
  <1>5. /\ Cardinality(Counted) = Cardinality(Young)
        /\ Values.fallback_rate = Share(Cardinality(Degraded), Cardinality(Young), 0)
    BY RingCounts DEF Values
  <1> QED BY <1>3, <1>4, <1>5 DEF LevelsAreRecent, Degraded

-----------------------------------------------------------------------------
(* What freezes the models. *)

LEMMA LeastOf ==
  ASSUME NEW S \in SUBSET Nat, S # {}
  PROVE  Min(S) \in S /\ \A x \in S : Min(S) <= x
  <1>1. PICK m \in S : \A n \in S : ~(<<n, m>> \in OpToRel(<, Nat))
    BY NatLessThanWellFounded, WFMin
  <1>2. \A n \in S : ~(n < m)
    BY <1>1 DEF OpToRel
  <1>3. \A n \in S : m <= n
    BY <1>2
  <1> QED BY <1>3 DEF Min

\* A quotient in hundred-thousandths, of what is left when m of n are missing.
LEMMA ShareTells ==
  ASSUME NEW n \in Nat, NEW m \in Nat, m <= n
  PROVE  /\ Share(n - m, n, One) \in Int /\ Share(m, n, 0) \in Int
         /\ 1000 * m > n => Share(n - m, n, One) < 99900
         /\ 200 * m > n => Share(n - m, n, One) < 99500
         /\ m = 0 => Share(n - m, n, One) = One /\ Share(m, n, 0) = 0
  <1>1. CASE n = 0
    BY <1>1, SMT DEF Share, One
  <1>2. CASE n # 0
    <2> DEFINE a == 100000 * (n - m)
               b == 100000 * m
    <2>1. /\ a \in Int /\ b \in Int /\ n \in Nat /\ 0 < n
          /\ 1000 * m > n => a < 99900 * n
          /\ 200 * m > n => a < 99500 * n
          /\ m = 0 => a = 100000 * n /\ b = 0
      BY <1>2, SMT
    <2>2. Share(n - m, n, One) = a \div n /\ Share(m, n, 0) = b \div n
      BY <1>2, SMT DEF Share, One
    <2> HIDE DEF a, b
    <2>3. a \div n \in Int /\ b \div n \in Int
      BY <2>1, SMT
    <2>4. a < 99900 * n => a \div n < 99900
      BY <2>1, SMT
    <2>5. a < 99500 * n => a \div n < 99500
      BY <2>1, SMT
    <2>6. a = 100000 * n => a \div n = 100000
      BY <2>1, SMT
    <2>7. b = 0 => b \div n = 0
      BY <2>1, SMT
    <2> QED BY <2>1, <2>2, <2>3, <2>4, <2>5, <2>6, <2>7, SMT DEF One
  <1> QED BY <1>1, <1>2

LEMMA PercentileOfFew ==
  ASSUME NEW n \in Nat, NEW f \in [1 .. n -> Int], NEW p \in {50, 95, 99}
  PROVE  /\ Percentile(f, p) \in Int
         /\ (\A k \in 1 .. n : f[k] <= 1) => Percentile(f, p) <= 1
  <1>1. f \in Seq(Int) /\ Len(f) = n
    BY FunctionsAreLists
  <1>2. CASE n = 0
    <2>1. f = <<>>
      BY <1>1, <1>2
    <2> QED BY <2>1 DEF Percentile
  <1>3. CASE n # 0
    <2> DEFINE r == PlaceOfPercentile(n, p)
    <2>1. f # <<>>
      BY <1>1, <1>3
    <2>2. Percentile(f, p) = f[r]
      BY <1>1, <2>1 DEF Percentile, PlaceOfPercentile
    <2>3. r \in 1 .. n
      <3>1. IsRank(r, n, p)
        BY <1>3, RankReaches
      <3> HIDE DEF r
      <3> QED BY <3>1 DEF IsRank
    <2> HIDE DEF r
    <2> QED BY <2>2, <2>3
  <1> QED BY <1>2, <1>3

\* The values of the levels, of so many evaluations, degraded and slow ones.
SortedLatencies(all, slow) == [k \in 1 .. all |-> IF k <= all - slow THEN 1 ELSE SlowLatency]

LEMMA ValuesAre ==
  ASSUME SamplesIInv
  PROVE  LET all == Cardinality(Young)
             degraded == Cardinality(Degraded)
             sorted == SortedLatencies(all, Cardinality(Slowed))
         IN Values = [availability |-> Share(all - degraded, all, One),
                      p95_latency |-> Percentile(sorted, 95), p99_latency |-> Percentile(sorted, 99),
                      error_rate |-> 0, fallback_rate |-> Share(degraded, all, 0),
                      divergence |-> 0, drift |-> 0, retraining |-> One, rollback_rate |-> 0,
                      dependencies |-> Share(probes.healthy, probes.total, One)]
  BY RingCounts, Zenon DEF Values, SortedLatencies

LEMMA LevelNames ==
  DOMAIN Definitions = {"availability", "p95_latency", "p99_latency", "error_rate", "fallback_rate",
                        "divergence", "drift", "retraining", "rollback_rate", "dependencies"}
  BY SMT DEF Definitions

\* Values are numbers; they are those of no failure when nothing has failed.
LEMMA ValuesTell ==
  ASSUME SamplesIInv
  PROVE  /\ \A l \in DOMAIN Definitions : Values[l] \in Int
         /\ Values["drift"] = 0
         /\ 1000 * Cardinality(Degraded) > Cardinality(Young) => Values["availability"] < 99900
         /\ 200 * (probes.total - probes.healthy) > probes.total => Values["dependencies"] < 99500
         /\ Degraded = {} => Values["availability"] = One /\ Values["fallback_rate"] = 0
         /\ (\A k \in Young : history[k].latency <= 1)
              => Values["p95_latency"] <= 1 /\ Values["p99_latency"] <= 1
         /\ probes.total - probes.healthy = 0 => Values["dependencies"] = One
         /\ \A l \in {"error_rate", "divergence", "drift", "rollback_rate"} : Values[l] = 0
         /\ Values["retraining"] = One
  <1> DEFINE all == Cardinality(Young)
             degraded == Cardinality(Degraded)
             slow == Cardinality(Slowed)
             sorted == SortedLatencies(all, slow)
             total == probes.total
             failed == probes.total - probes.healthy
             availability == Share(all - degraded, all, One)
             fallbacks == Share(degraded, all, 0)
             p95 == Percentile(sorted, 95)
             p99 == Percentile(sorted, 99)
             dependencies == Share(probes.healthy, probes.total, One)
  <1>1. all \in Nat /\ degraded \in Nat /\ slow \in Nat /\ degraded <= all /\ slow <= all
        /\ (degraded = 0 <=> Degraded = {})
    BY RingCounts
  <1>2. Values = [availability |-> availability, p95_latency |-> p95, p99_latency |-> p99,
                  error_rate |-> 0, fallback_rate |-> fallbacks,
                  divergence |-> 0, drift |-> 0, retraining |-> One, rollback_rate |-> 0,
                  dependencies |-> dependencies]
    BY ValuesAre
  <1>3. total \in Nat /\ failed \in Nat /\ failed <= total /\ probes.healthy = total - failed
    <2>1. probes.total \in 0 .. MaxProbes /\ probes.healthy \in 0 .. probes.total /\ MaxProbes \in Nat
      BY SamplesTyped
    <2> QED BY <2>1
  <1>4. SlowLatency \in Nat
    BY SamplesTyped
  <1> HIDE DEF all, degraded, slow
  <1>5. sorted \in [1 .. all -> Int]
    BY <1>1, <1>4 DEF SortedLatencies
  <1>6. (\A k \in Young : history[k].latency <= 1) => \A k \in 1 .. all : sorted[k] <= 1
    <2> SUFFICES ASSUME \A k \in Young : history[k].latency <= 1, NEW k \in 1 .. all PROVE sorted[k] <= 1
      OBVIOUS
    <2>1. CASE k <= all - slow
      BY <2>1 DEF SortedLatencies
    <2>2. CASE ~(k <= all - slow)
      <3>1. slow # 0
        BY <1>1, <2>2
      <3>2. Slowed # {}
        BY <3>1, FS_EmptySet DEF slow
      <3>3. SlowLatency <= 1
        BY <3>2 DEF Slowed
      <3> QED BY <2>2, <3>3 DEF SortedLatencies
    <2> QED BY <2>1, <2>2
  <1> HIDE DEF sorted
  <1>7. /\ p95 \in Int /\ p99 \in Int
        /\ (\A k \in Young : history[k].latency <= 1) => p95 <= 1 /\ p99 <= 1
    BY <1>1, <1>5, <1>6, PercentileOfFew
  <1>8. /\ availability \in Int /\ fallbacks \in Int
        /\ 1000 * degraded > all => availability < 99900
        /\ degraded = 0 => availability = One /\ fallbacks = 0
    BY <1>1, ShareTells
  <1> HIDE DEF total, failed
  <1>9. dependencies = Share(total - failed, total, One)
    BY <1>3 DEF total
  <1>10. /\ dependencies \in Int
         /\ 200 * failed > total => dependencies < 99500
         /\ failed = 0 => dependencies = One
    BY <1>3, <1>9, ShareTells
  <1> HIDE DEF availability, fallbacks, p95, p99, dependencies
  <1>11. /\ Values["availability"] = availability /\ Values["p95_latency"] = p95 /\ Values["p99_latency"] = p99
         /\ Values["error_rate"] = 0 /\ Values["fallback_rate"] = fallbacks /\ Values["divergence"] = 0
         /\ Values["drift"] = 0 /\ Values["retraining"] = One /\ Values["rollback_rate"] = 0
         /\ Values["dependencies"] = dependencies
    BY <1>2, SMT
  <1>12. \A l \in DOMAIN Definitions : Values[l] \in Int
    <2>1. One \in Int
      BY SMT DEF One
    <2>2. ASSUME NEW l \in DOMAIN Definitions PROVE Values[l] \in Int
      BY <1>7, <1>8, <1>10, <1>11, <2>1, <2>2, LevelNames, SMT
    <2> QED BY <2>2
  <1> QED BY <1>1, <1>7, <1>8, <1>10, <1>11, <1>12, SMT DEF all, degraded, total, failed

LEMMA DefinitionsAre ==
  /\ Definitions["availability"] = [upper |-> FALSE, target |-> 99900, warning |-> 99950, breach |-> 99900]
  /\ Definitions["p95_latency"] = [upper |-> TRUE, target |-> 100, warning |-> 75, breach |-> 100]
  /\ Definitions["p99_latency"] = [upper |-> TRUE, target |-> 250, warning |-> 150, breach |-> 250]
  /\ Definitions["error_rate"] = [upper |-> TRUE, target |-> 500, warning |-> 200, breach |-> 500]
  /\ Definitions["fallback_rate"] = [upper |-> TRUE, target |-> 1000, warning |-> 500, breach |-> 1000]
  /\ Definitions["divergence"] = [upper |-> TRUE, target |-> 5000, warning |-> 3000, breach |-> 5000]
  /\ Definitions["drift"] = [upper |-> TRUE, target |-> 20000, warning |-> 10000, breach |-> 25000]
  /\ Definitions["retraining"] = [upper |-> FALSE, target |-> 95000, warning |-> 98000, breach |-> 95000]
  /\ Definitions["rollback_rate"] = [upper |-> TRUE, target |-> 5000, warning |-> 2000, breach |-> 5000]
  /\ Definitions["dependencies"] = [upper |-> FALSE, target |-> 99500, warning |-> 99800, breach |-> 99500]
  BY SMT DEF Definitions, Slo

LEMMA HighIsHealthy ==
  ASSUME NEW slo, slo.upper = FALSE, slo.breach \in Int, slo.warning \in Int,
         slo.breach <= One, slo.warning <= One
  PROVE  StatusOf(slo, One) = "HEALTHY"
  BY SMT DEF StatusOf, One

LEMMA LowIsHealthy ==
  ASSUME NEW slo, slo.upper = TRUE, slo.breach \in Int, slo.warning \in Int,
         slo.breach >= 1, slo.warning >= 1, NEW v \in Int, v <= 1
  PROVE  StatusOf(slo, v) = "HEALTHY"
  BY SMT DEF StatusOf

\* When nothing has failed or was slow, every level is healthy.
LEMMA NothingFailed ==
  ASSUME SamplesIInv, Degraded = {}, \A k \in Young : history[k].latency <= 1,
         probes.total - probes.healthy = 0, NEW l \in DOMAIN Definitions
  PROVE  StatusOf(Definitions[l], Values[l]) = "HEALTHY"
  <1>1. /\ Values["availability"] = One /\ Values["dependencies"] = One /\ Values["retraining"] = One
        /\ \A k \in {"p95_latency", "p99_latency", "error_rate", "fallback_rate", "divergence", "drift",
                     "rollback_rate"} : Values[k] <= 1
    BY ValuesTell, SMT
  <1>2. CASE l \in {"availability", "dependencies", "retraining"}
    <2> DEFINE slo == Definitions[l]
    <2>1. /\ slo.upper = FALSE /\ slo.breach \in Int /\ slo.warning \in Int
          /\ slo.breach <= One /\ slo.warning <= One
      BY <1>2, DefinitionsAre, SMT DEF One
    <2> HIDE DEF slo
    <2>2. StatusOf(slo, One) = "HEALTHY"
      BY <2>1, HighIsHealthy, Zenon
    <2>3. Values[l] = One
      BY <1>1, <1>2
    <2> QED BY <2>2, <2>3 DEF slo
  <1>3. CASE l \in {"p95_latency", "p99_latency", "error_rate", "fallback_rate", "divergence", "drift",
                    "rollback_rate"}
    <2> DEFINE slo == Definitions[l]
               v == Values[l]
    <2>1. /\ slo.upper = TRUE /\ slo.breach \in Int /\ slo.warning \in Int
          /\ slo.breach >= 1 /\ slo.warning >= 1
      BY <1>3, DefinitionsAre, SMT
    <2>2. v \in Int /\ v <= 1
      BY <1>1, <1>3, ValuesTell
    <2> HIDE DEF slo, v
    <2>3. StatusOf(slo, v) = "HEALTHY"
      BY <2>1, <2>2, LowIsHealthy
    <2> QED BY <2>3 DEF slo, v
  <1> QED BY <1>2, <1>3, LevelNames

LEMMA BreachIsFrozen ==
  ASSUME NEW m \in Nat
  PROVE  /\ Policy(m) = "EMERGENCY_MODEL_FREEZE" <=> m = 0
         /\ m >= 2500 => Policy(m) = "BUDGET_HEALTHY"
  BY SMT DEF Policy

LEMMA FreezeExplained ==
  ASSUME SamplesIInv
  PROVE  FreezeHasCause
  <1> DEFINE Left(l) == Remaining(Definitions[l], Values[l])
             Status(l) == StatusOf(Definitions[l], Values[l])
             S == {Left(l) : l \in DOMAIN Definitions}
             m == Min(S)
             Reached(l) == Values[l] = Definitions[l].target
  <1>1. ASSUME NEW l \in DOMAIN Definitions
        PROVE  /\ Left(l) \in Nat
               /\ Status(l) = "BREACHED" => Left(l) = 0
               /\ Status(l) = "HEALTHY" => Left(l) >= 2500
               /\ Left(l) = 0 => Status(l) = "BREACHED" \/ (Status(l) = "WARNING" /\ Reached(l))
    <2> DEFINE slo == Definitions[l]
               v == Values[l]
    <2>1. v \in Int /\ LeavesQuarter(slo) /\ BreachAtTarget(l)
      BY ValuesTell, LevelsLeaveQuarter
    <2>2. l = "drift" => v = 0
      BY ValuesTell
    <2>3. l = "drift" => Left(l) # 0
      <3> SUFFICES ASSUME l = "drift" PROVE Left(l) # 0
        OBVIOUS
      <3>1. Definitions[l] = [upper |-> TRUE, target |-> 20000, warning |-> 10000, breach |-> 25000] /\ Values[l] = 0
        BY <2>2, DefinitionsAre
      <3> QED BY <3>1, SMT DEF Remaining
    <2> HIDE DEF slo, v
    <2>4. StatusAndBudget(slo, v)
      BY <2>1, StatusTellsBudget
    <2>5. /\ Remaining(slo, v) \in Nat
          /\ StatusOf(slo, v) = "BREACHED" => Remaining(slo, v) = 0
          /\ StatusOf(slo, v) = "HEALTHY" => Remaining(slo, v) >= 2500
          /\ Remaining(slo, v) = 0 /\ slo.breach = slo.target
               => StatusOf(slo, v) = "BREACHED" \/ (StatusOf(slo, v) = "WARNING" /\ v = slo.target)
      BY <2>4 DEF StatusAndBudget
    <2>6. Remaining(slo, v) = 0 => slo.breach = slo.target
      BY <2>1, <2>3 DEF BreachAtTarget, slo, v
    <2> QED BY <2>5, <2>6 DEF slo, v
  <1> HIDE DEF Left, Status, Reached
  <1>2. S \in SUBSET Nat /\ S # {}
    <2>1. "drift" \in DOMAIN Definitions
      BY LevelNames
    <2> QED BY <1>1, <2>1
  <1> DEFINE Worst == OverallStatus
             Action == BudgetAction
  <1>3. Action = Policy(m)
    BY DEF BudgetAction, Left
  <1>4. /\ Worst = "BREACHED" <=> \E l \in DOMAIN Definitions : Status(l) = "BREACHED"
        /\ (\E l \in DOMAIN Definitions : Status(l) = "WARNING") => Worst \in {"BREACHED", "WARNING"}
    <2>1. Statuses = {Status(l) : l \in DOMAIN Definitions}
      BY DEF Statuses, Status
    <2> QED BY <2>1 DEF OverallStatus
  <1> HIDE DEF S, Worst, Action
  <1>5. m \in S /\ \A x \in S : m <= x
    BY <1>2, LeastOf
  <1>6. m \in Nat
    BY <1>2, <1>5
  <1> HIDE DEF m
  <1>7. (Action = "EMERGENCY_MODEL_FREEZE" <=> m = 0) /\ (m >= 2500 => Action = "BUDGET_HEALTHY")
    BY <1>3, <1>6, BreachIsFrozen
  <1>8. Worst = "BREACHED" => Action = "EMERGENCY_MODEL_FREEZE"
    <2> SUFFICES ASSUME Worst = "BREACHED" PROVE m = 0
      BY <1>7
    <2>1. PICK l \in DOMAIN Definitions : Status(l) = "BREACHED"
      BY <1>4
    <2>2. Left(l) = 0 /\ Left(l) \in S
      BY <1>1, <2>1 DEF S
    <2> QED BY <1>5, <1>6, <2>2
  <1>9. ASSUME Action = "EMERGENCY_MODEL_FREEZE"
        PROVE  \/ Worst = "BREACHED"
               \/ Worst = "WARNING" /\ \E l \in DOMAIN Definitions : Values[l] = Definitions[l].target
    <2>1. m = 0
      BY <1>7, <1>9
    <2>2. PICK l \in DOMAIN Definitions : Left(l) = 0
      BY <1>5, <2>1 DEF S
    <2>3. Status(l) = "BREACHED" \/ (Status(l) = "WARNING" /\ Reached(l))
      BY <1>1, <2>2
    <2> QED BY <1>4, <2>3 DEF Reached
  <1>10. 1000 * Cardinality(Degraded) > Cardinality(Young) => Worst = "BREACHED"
    <2> SUFFICES ASSUME Values["availability"] < 99900 PROVE Worst = "BREACHED"
      BY ValuesTell
    <2>1. "availability" \in DOMAIN Definitions
      BY LevelNames
    <2>2. Status("availability") = "BREACHED"
      BY DefinitionsAre, SMT DEF Status, StatusOf
    <2> QED BY <1>4, <2>1, <2>2
  <1>11. 200 * (probes.total - probes.healthy) > probes.total => Worst = "BREACHED"
    <2> SUFFICES ASSUME Values["dependencies"] < 99500 PROVE Worst = "BREACHED"
      BY ValuesTell
    <2>1. "dependencies" \in DOMAIN Definitions
      BY LevelNames
    <2>2. Status("dependencies") = "BREACHED"
      BY DefinitionsAre, SMT DEF Status, StatusOf
    <2> QED BY <1>4, <2>1, <2>2
  <1>12. ASSUME Degraded = {}, ~(\E k \in Young : history[k].latency > 1), probes.total - probes.healthy = 0
         PROVE  Action = "BUDGET_HEALTHY"
    <2>1. \A k \in Young : history[k].latency <= 1
      <3> SUFFICES ASSUME NEW k \in Young PROVE history[k].latency <= 1
        OBVIOUS
      <3>1. history[k] \in Evaluations /\ SlowLatency \in Nat
        BY SamplesTyped DEF Young, Kept
      <3>2. history[k].latency \in Int
        BY <3>1 DEF Evaluations
      <3> QED BY <1>12, <3>2
    <2>2. PICK l \in DOMAIN Definitions : Left(l) = m
      BY <1>5 DEF S
    <2>3. Status(l) = "HEALTHY"
      BY <1>12, <2>1, NothingFailed DEF Status
    <2> QED BY <1>1, <1>7, <2>2, <2>3
  <1> QED BY <1>8, <1>9, <1>10, <1>11, <1>12 DEF FreezeHasCause, Degraded, Worst, Action

-----------------------------------------------------------------------------
(* The bins of a histogram. *)

\* What a finite set counts, part by part.
PartsOf(S, A, B) == IsFiniteSet(S) /\ A \in SUBSET S /\ B \in SUBSET S /\ A \cap B = {}

LEMMA PartsCount ==
  ASSUME NEW S, NEW A, NEW B, PartsOf(S, A, B)
  PROVE  /\ Cardinality(A) \in Nat /\ Cardinality(B) \in Nat
         /\ Cardinality(A \cup B) = Cardinality(A) + Cardinality(B)
  <1>0. IsFiniteSet(S) /\ A \in SUBSET S /\ B \in SUBSET S /\ A \cap B = {}
    BY DEF PartsOf
  <1>1. IsFiniteSet(A) /\ IsFiniteSet(B)
    BY <1>0, FS_Subset
  <1>2. Cardinality(A \cup B) = Cardinality(A) + Cardinality(B) - Cardinality(A \cap B)
    BY <1>1, FS_Union
  <1>3. Cardinality(A \cap B) = 0
    BY <1>0, FS_EmptySet
  <1>4. Cardinality(A) \in Nat /\ Cardinality(B) \in Nat
    BY <1>1, FS_CardinalityType
  <1> QED BY <1>2, <1>3, <1>4

LEMMA TwoBinsHold ==
  ASSUME NEW h, h[1] \in Nat, h[2] \in Nat
  PROVE  HeldUpTo(h, 2)[1] = h[1] /\ HeldUpTo(h, 2)[2] = h[1] + h[2]
  <1> DEFINE held == HeldUpTo(h, 2)
             Sums(f) == f = [b \in 0 .. 2 |-> IF b = 0 THEN 0 ELSE f[b - 1] + h[b]]
             g == [b \in 0 .. 2 |-> IF b = 0 THEN 0 ELSE IF b = 1 THEN h[1] ELSE h[1] + h[2]]
  <1>1. held = CHOOSE f : Sums(f)
    BY DEF HeldUpTo
  <1>2. Sums(g)
    OBVIOUS
  <1>3. Sums(held)
    <2> HIDE DEF g, Sums, held
    <2> QED BY <1>1, <1>2
  <1> HIDE DEF held
  <1>4. \A b \in 0 .. 2 : held[b] = IF b = 0 THEN 0 ELSE held[b - 1] + h[b]
    BY <1>3
  <1> QED BY <1>4 DEF held

LEMMA ThreeBinsHold ==
  ASSUME NEW h, h[1] \in Nat, h[2] \in Nat, h[3] \in Nat
  PROVE  /\ HeldUpTo(h, 3)[1] = h[1] /\ HeldUpTo(h, 3)[2] = h[1] + h[2]
         /\ HeldUpTo(h, 3)[3] = h[1] + h[2] + h[3]
  <1> DEFINE held == HeldUpTo(h, 3)
             Sums(f) == f = [b \in 0 .. 3 |-> IF b = 0 THEN 0 ELSE f[b - 1] + h[b]]
             g == [b \in 0 .. 3 |-> IF b = 0 THEN 0 ELSE IF b = 1 THEN h[1]
                                    ELSE IF b = 2 THEN h[1] + h[2] ELSE h[1] + h[2] + h[3]]
  <1>1. held = CHOOSE f : Sums(f)
    BY DEF HeldUpTo
  <1>2. Sums(g)
    OBVIOUS
  <1>3. Sums(held)
    <2> HIDE DEF g, Sums, held
    <2> QED BY <1>1, <1>2
  <1> HIDE DEF held
  <1>4. \A b \in 0 .. 3 : held[b] = IF b = 0 THEN 0 ELSE held[b - 1] + h[b]
    BY <1>3
  <1> QED BY <1>4 DEF held

LEMMA BinOfThree ==
  ASSUME NEW a \in Int, NEW b \in Int, NEW c \in Int, a < b, b < c, NEW v \in Int
  PROVE  BinOf(<<a, b, c>>, v) = IF v < b THEN 1 ELSE 2
  <1> DEFINE edges == <<a, b, c>>
             Around == {k \in 1 .. 2 : edges[k] <= v /\ v < edges[k + 1]}
  <1>1. edges[1] = a /\ edges[2] = b /\ edges[3] = c /\ Len(edges) = 3
    OBVIOUS
  <1>2. BinOf(edges, v) = IF v <= a THEN 1 ELSE IF v >= c THEN 2 ELSE Min(Around)
    BY <1>1 DEF BinOf
  <1> HIDE DEF edges
  <1>3. a < v /\ v < c => Around = IF v < b THEN {1} ELSE {2}
    BY <1>1
  <1> HIDE DEF Around
  <1>4. Min({1}) = 1 /\ Min({2}) = 2
    BY DEF Min
  <1> QED BY <1>2, <1>3, <1>4 DEF edges

LEMMA BinOfFour ==
  ASSUME NEW a \in Int, NEW b \in Int, NEW c \in Int, NEW d \in Int, a < b, b < c, c < d, NEW v \in Int
  PROVE  BinOf(<<a, b, c, d>>, v) = IF v < b THEN 1 ELSE IF v < c THEN 2 ELSE 3
  <1> DEFINE edges == <<a, b, c, d>>
             Around == {k \in 1 .. 3 : edges[k] <= v /\ v < edges[k + 1]}
  <1>1. edges[1] = a /\ edges[2] = b /\ edges[3] = c /\ edges[4] = d /\ Len(edges) = 4
    OBVIOUS
  <1>2. BinOf(edges, v) = IF v <= a THEN 1 ELSE IF v >= d THEN 3 ELSE Min(Around)
    BY <1>1 DEF BinOf
  <1> HIDE DEF edges
  <1>3. a < v /\ v < d => Around = IF v < b THEN {1} ELSE IF v < c THEN {2} ELSE {3}
    BY <1>1
  <1> HIDE DEF Around
  <1>4. Min({1}) = 1 /\ Min({2}) = 2 /\ Min({3}) = 3
    BY DEF Min
  <1> QED BY <1>2, <1>3, <1>4 DEF edges

\* Every value is in one bin of three edges, or of four.
BinsOf(edges, s) ==
  LET last == Len(edges) - 1
      held == HeldUpTo(Histogram(edges, s), last)
  IN /\ held[last] = Len(s)
     /\ \A b \in 1 .. last - 1 : held[b] = Cardinality({i \in DOMAIN s : s[i] < edges[b + 1]})

LEMMA ThreeEdges ==
  ASSUME NEW s \in Seq(Int), NEW a \in Int, NEW b \in Int, NEW c \in Int, a < b, b < c
  PROVE  BinsOf(<<a, b, c>>, s)
  <1> DEFINE edges == <<a, b, c>>
             h == Histogram(edges, s)
             n == Len(s)
             Low == {i \in 1 .. n : s[i] < b}
             High == {i \in 1 .. n : ~(s[i] < b)}
             All == 1 .. n
             Bin(k) == {i \in DOMAIN s : BinOf(edges, s[i]) = k}
             UpToEdge(k) == {i \in DOMAIN s : s[i] < edges[k + 1]}
  <1>1. edges[2] = b /\ Len(edges) = 3 /\ n \in Nat /\ DOMAIN s = 1 .. n
        /\ \A i \in 1 .. n : s[i] \in Int
    OBVIOUS
  <1>2. \A i \in 1 .. n : BinOf(edges, s[i]) = IF s[i] < b THEN 1 ELSE 2
    BY <1>1, BinOfThree
  <1> HIDE DEF edges, n
  <1>3. Bin(1) = Low /\ Bin(2) = High /\ UpToEdge(1) = Low
    BY <1>1, <1>2
  <1>4. h[1] = Cardinality(Low) /\ h[2] = Cardinality(High)
    <2>1. h = [k \in 1 .. 2 |-> Cardinality(Bin(k))]
      BY <1>1 DEF Histogram
    <2> HIDE DEF Low, High, h, Bin
    <2> QED BY <1>3, <2>1
  <1>5. /\ Cardinality(Low) \in Nat /\ Cardinality(High) \in Nat
        /\ Cardinality(Low) + Cardinality(High) = n
    <2>1. Low \in SUBSET All /\ High \in SUBSET All /\ Low \cap High = {} /\ Low \cup High = All
      OBVIOUS
    <2>2. IsFiniteSet(All) /\ Cardinality(All) = n
      BY <1>1, FS_Interval
    <2> HIDE DEF Low, High, All
    <2>3. /\ Cardinality(Low) \in Nat /\ Cardinality(High) \in Nat
          /\ Cardinality(Low \cup High) = Cardinality(Low) + Cardinality(High)
      <3>1. PartsOf(All, Low, High)
        BY <2>1, <2>2 DEF PartsOf
      <3> QED BY <3>1, PartsCount
    <2> QED BY <2>1, <2>2, <2>3
  <1> HIDE DEF h
  <1>6. HeldUpTo(h, 2)[1] = Cardinality(Low) /\ HeldUpTo(h, 2)[2] = n
    <2> HIDE DEF Low, High
    <2>1. h[1] \in Nat /\ h[2] \in Nat
      BY <1>4, <1>5
    <2>2. HeldUpTo(h, 2)[1] = h[1] /\ HeldUpTo(h, 2)[2] = h[1] + h[2]
      BY <2>1, TwoBinsHold
    <2> QED BY <1>4, <1>5, <2>2
  <1>7. \A k \in 1 .. 1 : HeldUpTo(h, 2)[k] = Cardinality(UpToEdge(k))
    <2> HIDE DEF Low, UpToEdge
    <2> QED BY <1>3, <1>6
  <1>8. Len(edges) - 1 = 2 /\ 2 - 1 = 1
    BY <1>1
  <1> QED BY <1>6, <1>7, <1>8 DEF BinsOf, h, edges, n

LEMMA FourEdges ==
  ASSUME NEW s \in Seq(Int), NEW a \in Int, NEW b \in Int, NEW c \in Int, NEW d \in Int, a < b, b < c, c < d
  PROVE  BinsOf(<<a, b, c, d>>, s)
  <1> DEFINE edges == <<a, b, c, d>>
             h == Histogram(edges, s)
             n == Len(s)
             Low == {i \in 1 .. n : s[i] < b}
             Middle == {i \in 1 .. n : ~(s[i] < b) /\ s[i] < c}
             High == {i \in 1 .. n : ~(s[i] < c)}
             NotHigh == {i \in 1 .. n : s[i] < c}
             All == 1 .. n
             Bin(k) == {i \in DOMAIN s : BinOf(edges, s[i]) = k}
             UpToEdge(k) == {i \in DOMAIN s : s[i] < edges[k + 1]}
  <1>1. edges[2] = b /\ edges[3] = c /\ Len(edges) = 4 /\ n \in Nat /\ DOMAIN s = 1 .. n
        /\ \A i \in 1 .. n : s[i] \in Int
    OBVIOUS
  <1>2. \A i \in 1 .. n : BinOf(edges, s[i]) = IF s[i] < b THEN 1 ELSE IF s[i] < c THEN 2 ELSE 3
    BY <1>1, BinOfFour
  <1> HIDE DEF edges, n
  <1>3. Bin(1) = Low /\ Bin(2) = Middle /\ Bin(3) = High
    BY <1>1, <1>2
  <1>4. h[1] = Cardinality(Low) /\ h[2] = Cardinality(Middle) /\ h[3] = Cardinality(High)
    <2>1. h = [k \in 1 .. 3 |-> Cardinality(Bin(k))]
      BY <1>1 DEF Histogram
    <2> HIDE DEF Low, Middle, High, h, Bin
    <2> QED BY <1>3, <2>1
  <1>5. /\ Cardinality(Low) \in Nat /\ Cardinality(Middle) \in Nat /\ Cardinality(High) \in Nat
        /\ Cardinality(Low) + Cardinality(Middle) = Cardinality(NotHigh)
        /\ Cardinality(Low) + Cardinality(Middle) + Cardinality(High) = n
    <2>1. /\ Low \in SUBSET All /\ Middle \in SUBSET All /\ High \in SUBSET All
          /\ NotHigh \in SUBSET All
          /\ NotHigh \cap High = {} /\ NotHigh \cup High = All
      OBVIOUS
    <2>2. Low \cap Middle = {} /\ Low \cup Middle = NotHigh
      BY <1>1
    <2>3. IsFiniteSet(All) /\ Cardinality(All) = n
      BY <1>1, FS_Interval
    <2> HIDE DEF Low, Middle, High, NotHigh, All
    <2>4. /\ Cardinality(Low) \in Nat /\ Cardinality(Middle) \in Nat
          /\ Cardinality(Low \cup Middle) = Cardinality(Low) + Cardinality(Middle)
      <3>1. PartsOf(All, Low, Middle)
        BY <2>1, <2>2, <2>3 DEF PartsOf
      <3> QED BY <3>1, PartsCount
    <2>5. /\ Cardinality(High) \in Nat
          /\ Cardinality(NotHigh \cup High) = Cardinality(NotHigh) + Cardinality(High)
      <3>1. PartsOf(All, NotHigh, High)
        BY <2>1, <2>3 DEF PartsOf
      <3> QED BY <3>1, PartsCount
    <2> QED BY <2>1, <2>2, <2>3, <2>4, <2>5
  <1> HIDE DEF h
  <1>6. /\ HeldUpTo(h, 3)[1] = Cardinality(Low) /\ HeldUpTo(h, 3)[2] = Cardinality(NotHigh)
        /\ HeldUpTo(h, 3)[3] = n
    <2> HIDE DEF Low, Middle, High, NotHigh
    <2>1. h[1] \in Nat /\ h[2] \in Nat /\ h[3] \in Nat
      BY <1>4, <1>5
    <2>2. /\ HeldUpTo(h, 3)[1] = h[1] /\ HeldUpTo(h, 3)[2] = h[1] + h[2]
          /\ HeldUpTo(h, 3)[3] = h[1] + h[2] + h[3]
      BY <2>1, ThreeBinsHold
    <2> QED BY <1>4, <1>5, <2>2
  <1>7. \A k \in 1 .. 2 : HeldUpTo(h, 3)[k] = Cardinality(UpToEdge(k))
    <2>1. UpToEdge(1) = Low /\ UpToEdge(2) = NotHigh
      BY <1>1
    <2> HIDE DEF Low, NotHigh, UpToEdge
    <2> QED BY <1>6, <2>1
  <1>8. Len(edges) - 1 = 3 /\ 3 - 1 = 2
    BY <1>1
  <1> QED BY <1>6, <1>7, <1>8 DEF BinsOf, h, edges, n

\* The place that drift takes is that of the percentile or the next one.
RankOrNext(n, p) ==
  LET rank == Max({1, (p * n + 99) \div 100})
  IN (p * n) \div 100 + 1 \in {rank, rank + 1}

LEMMA DriftRank ==
  ASSUME NEW n \in Nat, 0 < n, NEW p \in {1, 5, 25, 50, 75, 95, 99}
  PROVE  RankOrNext(n, p)
  <1> DEFINE t == p * n
             q == (t + 99) \div 100
             d == t \div 100
  <1>1. t \in Nat /\ 0 < t
    BY SMT
  <1> HIDE DEF t
  <1>2. q \in Nat /\ 1 <= q /\ d \in Nat /\ d + 1 \in {q, q + 1}
    BY <1>1, SMT
  <1> HIDE DEF q, d
  <1>3. Max({1, q}) = q
    <2>1. Max({1, q}) = IF 1 >= q THEN 1 ELSE q
      BY <1>2, LargerOfTwo
    <2> QED BY <1>2, <2>1
  <1>4. d + 1 \in {Max({1, q}), Max({1, q}) + 1}
    BY <1>2, <1>3
  <1> QED BY <1>4 DEF t, q, d, RankOrNext

LEMMA BinsAreWhole ==
  ASSUME LevelTyped
  PROVE  BinsAccount
  <1> DEFINE s == level.window
             n == Len(s)
             rank(p) == Max({1, (p * n + 99) \div 100})
             place(p) == (p * n) \div 100 + 1
  <1>1. s \in Seq(Int) /\ n \in Nat
    BY DEF LevelTyped
  <1>2. BinsOf(<<1, 15, 16>>, s) /\ BinsOf(<<2, 15, 16, 20>>, s) /\ BinsOf(<<0, 1, 2>>, s)
    <2> HIDE DEF s
    <2>1. BinsOf(<<1, 15, 16>>, s)
      BY <1>1, ThreeEdges
    <2>2. BinsOf(<<2, 15, 16, 20>>, s)
      BY <1>1, FourEdges
    <2>3. BinsOf(<<0, 1, 2>>, s)
      BY <1>1, ThreeEdges
    <2> QED BY <2>1, <2>2, <2>3
  <1>3. ASSUME s # <<>>, NEW p \in {1, 5, 25, 50, 75, 95, 99}
        PROVE  DriftPercentile(s, p) \in {Percentile(s, p), s[Min({n, rank(p) + 1})]}
    <2>1. 0 < n
      <3> HIDE DEF s
      <3> QED BY <1>1, <1>3
    <2>2. place(p) \in {rank(p), rank(p) + 1}
      <3> HIDE DEF s, n
      <3>1. RankOrNext(n, p)
        BY <1>1, <2>1, DriftRank
      <3> QED BY <3>1 DEF RankOrNext
    <2>3. Percentile(s, p) = s[Min({n, rank(p)})]
      BY <1>3 DEF Percentile
    <2>4. DriftPercentile(s, p) = s[Min({n, place(p)})]
      BY DEF DriftPercentile
    <2> HIDE DEF rank, place, n, s
    <2> QED BY <2>2, <2>3, <2>4
  <1>4. \A edges \in {<<1, 15, 16>>, <<2, 15, 16, 20>>, <<0, 1, 2>>} : BinsOf(edges, s)
    <2> HIDE DEF s
    <2> QED BY <1>2, Zenon
  <1>5. \A edges \in {<<1, 15, 16>>, <<2, 15, 16, 20>>, <<0, 1, 2>>} :
          LET last == Len(edges) - 1
              held == HeldUpTo(Histogram(edges, s), last)
          IN /\ held[last] = Len(s)
             /\ \A b \in 1 .. last - 1 : held[b] = Cardinality({i \in DOMAIN s : s[i] < edges[b + 1]})
    BY <1>4, Zenon DEF BinsOf
  <1> QED BY <1>3, <1>5, Zenon DEF BinsAccount

-----------------------------------------------------------------------------

SuiteIInv == DriftIInv /\ TrainingIInv /\ SamplesIInv /\ LevelTyped

LEMMA SuiteKept ==
  ASSUME SuiteIInv, [SuiteNext]_suiteVars
  PROVE  SuiteIInv'
  <1>1. /\ [DriftNext]_driftVars /\ [TrainingNext]_trainingVars /\ [SamplesNext]_levelVars
        /\ level' = level
    BY DEF SuiteNext, suiteVars
  <1>2. DriftIInv'
    BY <1>1, DriftKept DEF SuiteIInv
  <1>3. TrainingIInv'
    BY <1>1, TrainingStep DEF SuiteIInv
  <1>4. SamplesIInv'
    BY <1>1, SamplesStep DEF SuiteIInv
  <1>5. LevelTyped'
    BY <1>1 DEF SuiteIInv, LevelTyped
  <1> QED BY <1>2, <1>3, <1>4, <1>5 DEF SuiteIInv

(* For every size of the ring of evaluations, every window and latency,     *)
(* every number of vectors, trainings, samples and probes: what is measured *)
(* is what happened lately, and every scale tells the same of it. The levels*)
(* of slo_engine.go count exactly the young ones of the latest evaluations; *)
(* error_budget_policy.go freezes the models when a level is breached, and  *)
(* else only when one is just at its target; the bins of                    *)
(* drift_calculator.go hold every value once.                               *)
THEOREM MeasurementsAreSound == SuiteSpec => []MeasurementsAgree
  <1>1. SuiteInit => SuiteIInv
    BY DriftStart, TrainingStart, SamplesStart, LevelStart DEF SuiteInit, SuiteIInv
  <1>2. SuiteIInv /\ [SuiteNext]_suiteVars => SuiteIInv'
    BY SuiteKept
  <1>3. SuiteIInv => MeasurementsAgree
    <2> SUFFICES ASSUME SuiteIInv PROVE MeasurementsAgree
      OBVIOUS
    <2>1. DriftTypeOK /\ RingIsRecent /\ StatusIsLatest
      BY RingShows DEF SuiteIInv, DriftIInv
    <2>2. BudgetMatchesStatus /\ PercentileIsRank /\ GatesShowBreaches /\ BinsAccount
      BY BudgetFollowsStatus, PercentileIsTheRank, GatesTellBreaches, BinsAreWhole DEF SuiteIInv
    <2>3. SamplesTypeOK /\ LevelsAreRecent /\ FreezeHasCause
      BY RingTells, FreezeExplained DEF SuiteIInv, SamplesIInv
    <2>4. TrainingTypeOK
      BY DEF SuiteIInv, TrainingIInv
    <2> QED BY <2>1, <2>2, <2>3, <2>4 DEF MeasurementsAgree
  <1> QED BY <1>1, <1>2, <1>3, PTL DEF SuiteSpec
===============================================================================
