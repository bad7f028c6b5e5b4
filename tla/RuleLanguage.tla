----------------------------- MODULE RuleLanguage -----------------------------
(***************************************************************************)
(* How a rule's condition is evaluated against the context of a request     *)
(* (rules/ast.go): combinators that stop at the first child that decides    *)
(* or fails, and comparisons of values of different kinds. A request that a *)
(* condition fails on is treated as if the rule did not match. The second   *)
(* half is the context itself: what the feature stores answer, the names    *)
(* that rules know the answers by (riskengine/orchestrator.go), and how a   *)
(* name is resolved.                                                        *)
(***************************************************************************)
EXTENDS Integers, Sequences, SequencesExt

CONSTANT Numbers   \* numbers that occur in contexts and rules

ASSUME LanguageAssumption == Numbers \subseteq Int

Missing == [kind |-> "missing", n |-> 0]
Null == [kind |-> "null", n |-> 0]
Text == [kind |-> "text", n |-> 0]
NotANumber == [kind |-> "NaN", n |-> 0]   \* the text "NaN", which parses as a float
Values == {Null, Text, NotANumber} \cup [kind : {"number"}, n : Numbers]

Operators == {"==", "EQ", "!=", "NEQ", ">", "GT", "<=", "LTE", "IN", "NOT_IN"}
Leaf(op, value) == [combinator |-> "leaf", op |-> op, value |-> value, rules |-> <<>>]
Node(combinator, rules) ==
  [combinator |-> combinator, op |-> "none", value |-> Null, rules |-> rules]

Numeric(v) == v.kind \in {"number", "NaN"}

\* Two numbers are compared as floats, of which NaN equals none; others by their text.
AreEqual(a, b) ==
  IF a = Null \/ b = Null THEN a = b
  ELSE IF Numeric(a) /\ Numeric(b) THEN a = b /\ a # NotANumber
  ELSE a = b

Truth(b) == IF b THEN "match" ELSE "no"

\* A value that is not a list is compared as if it were the only item.
ContainedIn(actual, value) == value # Null /\ AreEqual(actual, value)

Compare(actual, op, value) ==
  CASE op \in {"==", "EQ"}  -> Truth(AreEqual(actual, value))
    [] op \in {"!=", "NEQ"} -> Truth(~AreEqual(actual, value))
    [] op = "IN"            -> Truth(ContainedIn(actual, value))
    [] op = "NOT_IN"        -> Truth(~ContainedIn(actual, value))
    [] OTHER ->
         IF ~(Numeric(actual) /\ Numeric(value)) THEN "error"
         ELSE IF NotANumber \in {actual, value} THEN "no"
         ELSE Truth((op \in {">", "GT"}) = (actual.n > value.n))

\* Only the signs are looked for, not their names.
WhereMissing(op, value) ==
  Truth((op = "==" /\ value = Null) \/ (op = "!=" /\ value # Null))

EvaluateLeaf(node, context) ==
  IF context = Missing THEN WhereMissing(node.op, node.value)
  ELSE Compare(context, node.op, node.value)

\* The results of a child that end the evaluation of AND and of OR.
Decides(combinator, result) ==
  IF combinator = "AND" THEN result # "match" ELSE result # "no"

\* Mutant: the last child decides.
CombinedLast(combinator, results) ==
  IF results = <<>> THEN Truth(combinator = "AND") ELSE results[Len(results)]

Combined(combinator, results) ==
  LET deciding == {i \in DOMAIN results : Decides(combinator, results[i])}
  IN IF deciding = {} THEN Truth(combinator = "AND")
     ELSE results[CHOOSE i \in deciding : \A j \in deciding : i <= j]

Negated(result) ==
  CASE result = "match" -> "no" [] result = "no" -> "match" [] result = "error" -> "error"

\* A combinator is evaluated over its children's results; a child after the
\* deciding one is not evaluated in the code, which has no effects.
RECURSIVE EvaluateNode(_, _)
EvaluateNode(node, context) ==
  LET results == [i \in DOMAIN node.rules |-> EvaluateNode(node.rules[i], context)]
  IN CASE node.combinator = "leaf"          -> EvaluateLeaf(node, context)
       [] node.combinator \in {"AND", "OR"} -> Combined(node.combinator, results)
       [] node.combinator = "NOT" ->
            IF results = <<>> THEN "match" ELSE Negated(results[1])
       [] OTHER -> "error"

-----------------------------------------------------------------------------

VARIABLE trial   \* two leaves and the field's value in the context: a set of one, or none

LanguageInit ==
  trial \in {{[a |-> Leaf(o, v), b |-> Leaf(q, w), context |-> c]} :
               o \in Operators, v \in Values, q \in {"==", ">", "NOT_IN"},
               w \in Values, c \in Values \cup {Missing}}

(* The law of De Morgan holds of conditions that fail, too: NOT may be      *)
(* pushed inside without changing which requests match.                     *)
DeMorgan ==
  \A t \in trial :
    /\ EvaluateNode(Node("NOT", <<Node("AND", <<t.a, t.b>>)>>), t.context)
         = EvaluateNode(Node("OR", <<Node("NOT", <<t.a>>), Node("NOT", <<t.b>>)>>), t.context)
    /\ EvaluateNode(Node("NOT", <<Node("OR", <<t.a, t.b>>)>>), t.context)
         = EvaluateNode(Node("AND", <<Node("NOT", <<t.a>>), Node("NOT", <<t.b>>)>>), t.context)

(* The order of children matters only for whether a failure is seen: it     *)
(* never turns a match into a definite no.                                  *)
OrderOnlyHidesErrors ==
  \A t \in trial, c \in {"AND", "OR"} :
    LET ab == EvaluateNode(Node(c, <<t.a, t.b>>), t.context)
        ba == EvaluateNode(Node(c, <<t.b, t.a>>), t.context)
    IN ab = ba \/ "error" \in {ab, ba}

Opposite(op) ==
  CASE op \in {"==", "EQ"} -> "!=" [] op \in {"!=", "NEQ"} -> "==" [] op \in {">", "GT"} -> "<="
    [] op \in {"<=", "LTE"} -> ">" [] op = "IN" -> "NOT_IN" [] op = "NOT_IN" -> "IN"

(* A condition and the negation of its opposite are the same, except where  *)
(* the field is missing and the operator is not == or !=, or an order is    *)
(* asked of NaN: there both say no.                                         *)
OppositesUnlessMissing ==
  \A t \in trial :
    LET straight == EvaluateNode(t.a, t.context)
        turned == EvaluateNode(Node("NOT", <<Leaf(Opposite(t.a.op), t.a.value)>>), t.context)
    IN \/ straight = turned
       \/ t.context = Missing /\ t.a.op \notin {"==", "!="}
       \/ NotANumber \in {t.context, t.a.value}

-----------------------------------------------------------------------------
(* The context of a request. *)

\* The stores of a device, and the counts of addresses and tokens, which need no device.
DeviceStores == {"device", "account", "token", "velocity", "reputation"}
Stores == DeviceStores \cup {"address"}
Silent == -1   \* the store did not answer

Requests ==
  [fingerprint : {"VALID", "MISSING", "INVALID"}, answers : [Stores -> {Silent, 0, 2}]]

VARIABLE incoming   \* the request in hand: a set of one, or none

Asked(q, store) == store = "address" \/ q.fingerprint = "VALID"
Unavailable(q) == {store \in DeviceStores : Asked(q, store) /\ q.answers[store] = Silent}

DegradedFlag(q) == Unavailable(q) # {}

\* A store that is not asked or does not answer counts nothing.
Reading(q, store) ==
  IF Asked(q, store) /\ q.answers[store] # Silent THEN q.answers[store] ELSE 0

Number(n) == [kind |-> "number", n |-> n]
Boolean(b) == [kind |-> "bool", n |-> IF b THEN 1 ELSE 0]
Group(fields) == [kind |-> "group", fields |-> fields]
TypedMap == [kind |-> "typed", n |-> 0]   \* a map of floats, which names do not lead into

\* One field of each group; a key may have dots.
EvalContext(q) ==
  LET count(store) == Number(Reading(q, store))
  IN   (<<"velocity", "ip", "1hr">> :> count("address"))
    @@ (<<"features">> :> Group([ipTxnCount1h |-> count("address")]))
    @@ (<<"device_features">> :> Group([device_tx_count_1h |-> count("device")]))
    @@ (<<"account_device_features">> :> Group([device_unique_accounts_24h |-> count("account")]))
    @@ (<<"payment_token_features">> :> Group([device_unique_tokens_1h |-> count("token")]))
    @@ (<<"device_velocity_features">> :> Group([device_tx_count_1h |-> count("velocity")]))
    @@ (<<"device_reputation_features">> :>
          Group([device_fraud_transactions |-> count("reputation")]))
    @@ (<<"ml_feature_contract">> :> Group([canonical_25 |-> TypedMap]))
    @@ (<<"device_feature_store">> :> Group([degraded |-> Boolean(DegradedFlag(q))]))

Member(v, part) ==
  IF v.kind = "group" /\ part \in (DOMAIN v.fields) THEN v.fields[part] ELSE Missing

\* The whole name as a key first, then part by part.
ResolveField(context, name) ==
  IF name \in DOMAIN context THEN context[name]
  ELSE IF <<Head(name)>> \in DOMAIN context
    THEN FoldLeft(Member, context[<<Head(name)>>], Tail(name))
  ELSE Missing

\* The answer says more than the context: a broken fingerprint degrades it.
DegradedAnswer(q) == q.fingerprint = "INVALID" \/ Unavailable(q) # {}
StoreCodes(q) == Unavailable(q)   \* a reason code for each

ContextInit == incoming \in {{q} : q \in Requests}

\* The names of what the stores count.
NamesOf ==
  [address    |-> {<<"velocity", "ip", "1hr">>, <<"features", "ipTxnCount1h">>},
   device     |-> {<<"device_features", "device_tx_count_1h">>},
   account    |-> {<<"account_device_features", "device_unique_accounts_24h">>},
   token      |-> {<<"payment_token_features", "device_unique_tokens_1h">>},
   velocity   |-> {<<"device_velocity_features", "device_tx_count_1h">>},
   reputation |-> {<<"device_reputation_features", "device_fraud_transactions">>}]

(* A rule that asks for device_feature_store.degraded is not fooled by a    *)
(* zero: each name gives what its store answered, whichever of two names it *)
(* is, or zero with the flag up. The exceptions are requests without a      *)
(* valid fingerprint, and the store of addresses, whose silence nothing     *)
(* tells; the answer names every silent store but that one.                 *)
ZerosExplained ==
  \A q \in incoming, store \in Stores : \A name \in NamesOf[store] :
    LET context == EvalContext(q)
        flag == ResolveField(context, <<"device_feature_store", "degraded">>)
    IN \/ ResolveField(context, name) = Number(q.answers[store])
       \/ /\ EvaluateLeaf(Leaf("==", Number(0)), ResolveField(context, name)) = "match"
          /\ \/ EvaluateLeaf(Leaf("==", Boolean(TRUE)), flag) = "match"
                /\ DegradedAnswer(q) /\ store \in StoreCodes(q) \cup {"address"}
             \/ q.fingerprint # "VALID" \/ store = "address"

(* The features as the models get them are out of a rule's reach: such a    *)
(* name is missing, as a misspelt one is, and only != finds it.             *)
ModelFeaturesHidden ==
  \A q \in incoming, op \in Operators, v \in Values :
    LET field == ResolveField(EvalContext(q), <<"ml_feature_contract", "canonical_25", "amount">>)
    IN EvaluateLeaf(Leaf(op, v), field) = "match" =>
         (op = "!=" /\ v # Null) \/ (op = "==" /\ v = Null)

(* A condition may be rewritten by the laws of logic as far as failures and *)
(* missing fields allow, and a rule can tell a zero from a silence.         *)
ConditionsLawful ==
  /\ DeMorgan /\ OrderOnlyHidesErrors /\ OppositesUnlessMissing
  /\ ZerosExplained /\ ModelFeaturesHidden

===============================================================================
