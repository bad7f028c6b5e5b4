------------------------------ MODULE MCDecisions ------------------------------
(***************************************************************************)
(* The path of a decision, from features to evidence. As in Services, a     *)
(* behaviour runs one part, and the others stay in their initial state.     *)
(***************************************************************************)
EXTENDS RiskDecision, DecisionFlow, FeatureStores, FeatureScores, RuleLanguage, TLC

VARIABLE part

decisionsVars == <<part, asked, flowVars, storesVars, burst, reputation, raw, signals, trial,
                   incoming>>

Parts == {"decision", "flow", "stores", "scores", "signals", "rules", "context"}

DecisionsInit ==
  /\ part \in Parts
  /\ IF part = "decision" THEN DecisionInit ELSE asked = {}
  /\ FlowInit /\ StoresInit
  /\ IF part = "scores" THEN ScoresInit ELSE ScoresNone
  /\ IF part = "signals" THEN SignalsInit ELSE SignalsNone
  /\ IF part = "rules" THEN LanguageInit ELSE trial = {}
  /\ IF part = "context" THEN ContextInit ELSE incoming = {}

DecisionsNext ==
  /\ \/ part = "flow" /\ FlowNext
     \/ part = "stores" /\ StoresNext
  /\ IF part = "flow" THEN TRUE ELSE UNCHANGED flowVars
  /\ IF part = "stores" THEN TRUE ELSE UNCHANGED storesVars
  /\ UNCHANGED <<part, asked, burst, reputation, raw, signals, trial, incoming>>

DecisionsSpec == DecisionsInit /\ [][DecisionsNext]_decisionsVars

-----------------------------------------------------------------------------
(* A small instance for TLC.                                                *)

\* Calls are alike, and so are accounts; no temporal property is checked here.
Symmetry == Permutations(Evaluations) \cup Permutations(Buyers)

Row(a, st, at) == [action |-> a, status |-> st, updated |-> at, matches |-> TRUE]
MCRawNumbers == {-1, 0, 7, 1500, 2000000000}
MCRuleTables ==
  {{}, {Row("REVIEW", "ACTIVE", 1)}, {Row("ALLOW", "ACTIVE", 2), Row("DECLINE", "ACTIVE", 1)},
   {Row("REVIEW", "ACTIVE", 3), Row("DECLINE", "ACTIVE", 1), Row("ALLOW", "SHADOW", 2)},
   {[Row("ALLOW", "ACTIVE", 2) EXCEPT !.matches = FALSE], Row("DECLINE", "DRAFT", 1)}}
===============================================================================
