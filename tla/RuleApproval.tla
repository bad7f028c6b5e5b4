----------------------------- MODULE RuleApproval -----------------------------
(***************************************************************************)
(* The maker-checker workflow of a fraud rule (rules/service.go). Every     *)
(* operation reads the rule's row with one statement and, when its checks   *)
(* pass, writes the row with another one that asks for nothing but the      *)
(* rule's id: calls of several analysts interleave between the two.         *)
(* Rows do not influence each other, so the model has one.                  *)
(***************************************************************************)
EXTENDS Integers

CONSTANTS
  Analysts,  \* actors, creators and approvers alike
  NoOne,     \* approved_by NULL, and the actor of an unauthenticated call
  Calls,     \* API calls that may be under way at once
  MaxEdits   \* bound on the edits of a run

ASSUME ApprovalAssumption == NoOne \notin Analysts /\ MaxEdits \in Nat

VARIABLES
  rule,      \* the row
  call,      \* the control point and the locals of each call
  edits,     \* edits begun so far; the k-th one brings definition k
  written,   \* history: edits written so far
  reviewed,  \* history: the definitions that an approval has read
  stale      \* history: a call overwrote a row that was not the one it had read

approvalVars == <<rule, call, edits, written, reviewed, stale>>

Statuses == {"DRAFT", "PENDING_APPROVAL", "SHADOW", "ACTIVE", "ARCHIVED"}

\* Statuses that take an approval.
Approved == {"SHADOW", "ACTIVE"}

(* dsl_ast is the number of the edit that brought it. *)
Rule ==
  [status : Statuses, version : Nat, dsl : 0 .. MaxEdits, createdBy : Analysts,
   approvedBy : Analysts \cup {NoOne}]

\* What CreateRule inserts.
CreatedRule(a) ==
  [status |-> "DRAFT", version |-> 1, dsl |-> 0, createdBy |-> a, approvedBy |-> NoOne]

Call ==
  [pc : {"idle", "editing", "moving"}, seen : Rule, dsl : 0 .. MaxEdits, target : Statuses,
   actor : Analysts \cup {NoOne}]

IdleCall(r) == [pc |-> "idle", seen |-> r, dsl |-> 0, target |-> "DRAFT", actor |-> NoOne]

ApprovalTypeOK ==
  /\ rule \in Rule
  /\ call \in [Calls -> Call]
  /\ edits \in 0 .. MaxEdits
  /\ written \in Nat
  /\ reviewed \subseteq 0 .. MaxEdits
  /\ stale \in BOOLEAN

ApprovalInit ==
  /\ \E a \in Analysts :
       /\ rule = CreatedRule(a)
       /\ call = [c \in Calls |-> IdleCall(CreatedRule(a))]
  /\ edits = 0 /\ written = 0
  /\ reviewed = {}
  /\ stale = FALSE

-----------------------------------------------------------------------------

\* An idle call forgets what it saw, up to the creator, who never changes.
Return(c) == call' = [call EXCEPT ![c] = IdleCall(CreatedRule(rule.createdBy))]

Overwrites(c) == stale' = (stale \/ rule # call[c].seen)

(* UpdateRule, first half. An edit without a definition keeps the one that  *)
(* it reads here.                                                           *)
ReadToEdit(c, newDsl) ==
  /\ call[c].pc = "idle"
  /\ edits < MaxEdits
  /\ edits' = edits + 1
  /\ call' = [call EXCEPT ![c] = [@ EXCEPT !.pc = "editing", !.seen = rule,
                                           !.dsl = IF newDsl THEN edits' ELSE rule.dsl]]
  /\ UNCHANGED <<rule, written, reviewed, stale>>

\* Mutant: only the statuses that the comment names revert to DRAFT.
WriteEditInShadow(c) ==
  /\ call[c].pc = "editing"
  /\ rule' = [rule EXCEPT !.dsl = call[c].dsl, !.version = call[c].seen.version + 1,
                          !.status = IF call[c].seen.status \in {"ACTIVE", "PENDING_APPROVAL"}
                                       THEN "DRAFT" ELSE call[c].seen.status]
  /\ written' = written + 1
  /\ Overwrites(c)
  /\ Return(c)
  /\ UNCHANGED <<edits, reviewed>>

(* UpdateRule, second half: whatever the status was, it becomes DRAFT, and  *)
(* the version follows the one that was read. Creator and approver stay.    *)
WriteEdit(c) ==
  /\ call[c].pc = "editing"
  /\ rule' = [rule EXCEPT !.dsl = call[c].dsl, !.status = "DRAFT",
                          !.version = call[c].seen.version + 1]
  /\ written' = written + 1
  /\ Overwrites(c)
  /\ Return(c)
  /\ UNCHANGED <<edits, reviewed>>

-----------------------------------------------------------------------------

(* The checks of TransitionStatus: a draft is submitted, a submitted rule   *)
(* is approved by somebody who did not create it; back to DRAFT and to the  *)
(* archive lead from everywhere.                                            *)
MayMove(r, target, actor) ==
  /\ target = "PENDING_APPROVAL" => r.status = "DRAFT"
  /\ target \in Approved => /\ r.status \in {"PENDING_APPROVAL", "SHADOW"}
                            /\ actor \notin {NoOne, r.createdBy}

(* TransitionStatus, first half; a refused one returns an error.            *)
ReadToMove(c, target, actor) ==
  /\ call[c].pc = "idle"
  /\ MayMove(rule, target, actor)
  /\ call' = [call EXCEPT ![c] = [@ EXCEPT !.pc = "moving", !.seen = rule,
                                           !.target = target, !.actor = actor]]
  /\ reviewed' = IF target \in Approved THEN reviewed \cup {rule.dsl} ELSE reviewed
  /\ UNCHANGED <<rule, edits, written, stale>>

\* The approver that a transition leaves in the row.
ApproverOf(m) ==
  CASE m.target \in Approved  -> m.actor
    [] m.target = "ARCHIVED"  -> m.seen.approvedBy
    [] OTHER                  -> NoOne

(* TransitionStatus, second half.                                           *)
WriteMove(c) ==
  /\ call[c].pc = "moving"
  /\ rule' = [rule EXCEPT !.status = call[c].target, !.approvedBy = ApproverOf(call[c])]
  /\ Overwrites(c)
  /\ Return(c)
  /\ UNCHANGED <<edits, written, reviewed>>

ApprovalNext ==
  \E c \in Calls :
    \/ \E newDsl \in BOOLEAN : ReadToEdit(c, newDsl)
    \/ WriteEdit(c)
    \/ \E target \in Statuses, actor \in Analysts \cup {NoOne} : ReadToMove(c, target, actor)
    \/ WriteMove(c)

ApprovalSpec == ApprovalInit /\ [][ApprovalNext]_approvalVars

-----------------------------------------------------------------------------
(* Properties.                                                              *)

(* Dual control survives every interleaving of reads and writes: a rule     *)
(* that is in shadow or active names an approver who is not its creator,    *)
(* even though status and approver come from one call and the creator from  *)
(* another.                                                                 *)
DualControl == rule.status \in Approved => rule.approvedBy \notin {NoOne, rule.createdBy}

(* A definition is in force without any approval having read it only if     *)
(* some call overwrote a row that it had not read: with a conditional       *)
(* UPDATE, four-eyes review of the definition would hold as it stands.      *)
ReviewedUnlessStale == rule.status \in Approved => rule.dsl \in reviewed \/ stale

(* The same for edits: one is lost, or a version number used twice, only    *)
(* through a stale write.                                                   *)
VersionCountsEdits == rule.version = written + 1 \/ stale

(* Maker and checker are two people, and what is in force was reviewed, up  *)
(* to a write of a row that had changed since it was read.                  *)
ApprovalSound ==
  ApprovalTypeOK /\ DualControl /\ ReviewedUnlessStale /\ VersionCountsEdits

===============================================================================
