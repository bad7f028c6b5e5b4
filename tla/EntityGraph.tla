------------------------------ MODULE EntityGraph ------------------------------
(***************************************************************************)
(* The fraud graph of one tenant (graph/graph_adapter.go and                *)
(* graph/graph_engine.go), as the orchestrator uses it: a payment first     *)
(* adds its entities and their links, one critical section each, and then   *)
(* asks what is within three hops of its account.                           *)
(***************************************************************************)
EXTENDS Naturals, Sequences, SequencesExt, FiniteSets

CONSTANTS
  GraphAccounts, GraphDevices,
  GraphPayments,  \* payments under way at once
  FanOut,         \* new neighbours of a node: 50
  NodeLimit,      \* nodes of a traversal: 500
  FreshFor,       \* hours a link counts: 72
  MaxGraphHour    \* bound on the clock

NoDevice == "none"   \* a payment without a valid device identity

ASSUME GraphAssumption ==
  /\ {FanOut, NodeLimit, FreshFor, MaxGraphHour} \subseteq Nat
  /\ IsFiniteSet(GraphAccounts) /\ IsFiniteSet(GraphDevices) /\ IsFiniteSet(GraphPayments)
  /\ GraphAccounts # {} /\ GraphDevices # {} /\ GraphPayments # {} /\ NoDevice \notin GraphDevices

VARIABLES
  payment,  \* what each payment names, what it has left to add, and what it saw
  known,    \* s.nodes: the nodes, with their mark as known bad
  out, in,  \* s.outEdges and s.inEdges: the links of each node, in the order in which they came
  since,    \* CreatedAt of each of them
  hour,
  drawing   \* the export of the graph for the console (ExportTenantFraudGraph)

graphVars == <<payment, known, out, in, since, hour, drawing>>

IP == <<"IP_ADDRESS", "ip">>
Merchant == <<"MERCHANT", "merch_default">>
Card(a) == <<"CARD", a>>
Account(a) == <<"ACCOUNT", a>>
User(a) == <<"USER", a>>
Device(d) == <<"DEVICE", d>>
Transaction(p) == <<"TRANSACTION", p>>
GraphNodes ==
  {IP, Merchant} \cup {Device(d) : d \in GraphDevices}
  \cup {Transaction(p) : p \in GraphPayments \cup GraphAccounts}
  \cup UNION {{Account(a), User(a), Card(a)} : a \in GraphAccounts}
Link(from, to) == [from |-> from, to |-> to]
NoEvidence == [reached |-> {}, edges |-> 0, bad |-> {}, at |-> 0, capped |-> FALSE]

(* IngestTenantTransactionLinks: what it adds, in order. The user is the    *)
(* account, and an entity without an identifier is left out.                *)
Entities(p, a, d) ==
  <<Transaction(p), User(a), Account(a), Card(a)>> \o (IF d = NoDevice THEN <<>> ELSE <<Device(d)>>)
  \o <<IP, Merchant>>
Relations(p, a, d) ==
  <<Link(User(a), Account(a)), Link(Account(a), Card(a))>>
  \o (IF d = NoDevice THEN <<>> ELSE <<Link(User(a), Device(d)), Link(Account(a), Device(d))>>)
  \o <<Link(User(a), IP), Link(Transaction(p), Merchant), Link(Account(a), Transaction(p))>>

GraphTypeOK ==
  /\ payment \in [GraphPayments ->
       [pc : {"arrived", "adding", "added", "evaluated"}, account : GraphAccounts,
        device : GraphDevices \cup {NoDevice}, linksDone : 0 .. 7,
        began : 0 .. MaxGraphHour,
        evidence : [reached : SUBSET GraphNodes, edges : Nat, bad : SUBSET GraphNodes,
                    at : 0 .. MaxGraphHour, capped : BOOLEAN]]]
  /\ DOMAIN known \subseteq GraphNodes /\ \A n \in DOMAIN known : known[n] \in BOOLEAN
  /\ \A n \in GraphNodes : /\ Range(out[n]) = {l \in DOMAIN since : l.from = n}
                           /\ Range(in[n]) = {l \in DOMAIN since : l.to = n}
  /\ \A l \in DOMAIN since : since[l] <= hour
  /\ hour \in 0 .. MaxGraphHour
  /\ drawing.pc \in {"none", "nodes", "drawn"} /\ drawing.root \in GraphNodes
  /\ DOMAIN drawing.nodes \subseteq DOMAIN known /\ drawing.links \subseteq DOMAIN since
  /\ drawing.evaluated \subseteq drawing.added /\ drawing.added \subseteq GraphPayments

\* The links of a sequence that are in a set, in the order of the sequence.
Those(ls, S) ==
  LET upTo[i \in 0 .. Len(ls)] ==
        IF i = 0 THEN <<>> ELSE IF ls[i] \in S THEN Append(upTo[i - 1], ls[i]) ELSE upTo[i - 1]
  IN upTo[Len(ls)]
LinksFrom(ls) == [n \in GraphNodes |-> Those(ls, {l \in Range(ls) : l.from = n})]
LinksTo(ls) == [n \in GraphNodes |-> Those(ls, {l \in Range(ls) : l.to = n})]

\* The links of the accounts that have used a device, account by account.
Seeded(accounts, device) ==
  LET upTo[i \in 0 .. Len(accounts)] ==
        IF i = 0 THEN <<>> ELSE upTo[i - 1] \o Relations(accounts[i], accounts[i], device)
  IN upTo[Len(accounts)]

(* An empty graph, or one in which some accounts have used a device, that   *)
(* may be marked as those of SeedDefaultDemoGraph are. That device, and the *)
(* account of the first payment, are any two, by symmetry.                  *)
GraphInit ==
  LET first == CHOOSE p \in GraphPayments : TRUE
      common == CHOOSE d \in GraphDevices : TRUE
  IN /\ payment \in [GraphPayments ->
          {[pc |-> "arrived", account |-> a, device |-> d, linksDone |-> 0,
            began |-> 0, evidence |-> NoEvidence] :
           a \in GraphAccounts, d \in GraphDevices \cup {NoDevice}}]
     /\ payment[first].account = CHOOSE a \in GraphAccounts : TRUE
     /\ hour = 0
     /\ \E before \in SUBSET GraphAccounts, fraud \in BOOLEAN :
          LET ls == Seeded(SetToSeq(before), common)
          IN /\ known = [n \in UNION {Range(Entities(a, a, common)) : a \in before} |->
                           fraud /\ n # Merchant]
             /\ out = LinksFrom(ls)
             /\ in = LinksTo(ls)
             /\ since = [l \in Range(ls) |-> 0]
     /\ drawing = [pc |-> "none", root |-> Account(payment[first].account), nodes |-> <<>>, links |-> {},
                   added |-> {}, evaluated |-> {}]

-----------------------------------------------------------------------------
(* Ingestion. *)

(* AddNode for each entity: a new node is written over the one of that      *)
(* name, its mark included. Payments only ever take marks away, so that the *)
(* order of their seven critical sections does not matter.                  *)
AddNodes(p) ==
  LET e == Range(Entities(p, payment[p].account, payment[p].device))
  IN /\ payment[p].pc = "arrived"
     /\ known' = [x \in DOMAIN known \cup e |-> IF x \in e THEN FALSE ELSE known[x]]
     /\ payment' = [payment EXCEPT ![p].pc = "adding", ![p].began = hour]
     /\ UNCHANGED <<out, in, since, hour, drawing>>

(* AddEdge. A link that is added again gets the new time; its second place  *)
(* in the lists changes nothing, because its ends are visited by then.      *)
AddEdge(p) ==
  LET r == Relations(p, payment[p].account, payment[p].device)
      l == r[payment[p].linksDone + 1]
      last == payment[p].linksDone + 1 = Len(r)
  IN /\ payment[p].pc = "adding"
     /\ IF l \in DOMAIN since THEN UNCHANGED <<out, in>>
        ELSE out' = [out EXCEPT ![l.from] = Append(@, l)] /\ in' = [in EXCEPT ![l.to] = Append(@, l)]
     /\ since' = [x \in DOMAIN since \cup {l} |-> IF x = l THEN payment[p].began ELSE since[x]]
     /\ payment' = [payment EXCEPT ![p].linksDone = @ + 1, ![p].pc = IF last THEN "added" ELSE @]
     /\ UNCHANGED <<known, hour, drawing>>

-----------------------------------------------------------------------------
(* Traverse3HopTemporal: the nodes in the order in which they are reached,  *)
(* which is that of the queue. Links from a node come before links to it.   *)

Fresh(l) == since[l] + FreshFor >= hour
OtherEnd(l, n) == IF l.from = n THEN l.to ELSE l.from

\* A link of the node n.
Follow(c, n, l) ==
  LET m == OtherEnd(l, n)
  IN IF c.new >= FanOut \/ Len(c.order) >= NodeLimit THEN [c EXCEPT !.capped = TRUE]
     ELSE IF ~Fresh(l) THEN c
     ELSE IF m \in DOMAIN c.depth THEN [c EXCEPT !.edges = @ \cup {l}]
     ELSE [c EXCEPT !.edges = @ \cup {l}, !.order = Append(@, m), !.new = @ + 1,
                    !.depth = [x \in DOMAIN c.depth \cup {m} |->
                                 IF x = m THEN c.depth[n] + 1 ELSE c.depth[x]]]

Neighbours(b, n) ==
  LET ls == out[n] \o in[n]
      upTo[i \in 0 .. Len(ls)] == IF i = 0 THEN [b EXCEPT !.new = 0] ELSE Follow(upTo[i - 1], n, ls[i])
  IN upTo[Len(ls)]

\* The k-th node of the queue.
Expand(b, k) ==
  IF k > Len(b.order) THEN b
  ELSE IF b.depth[b.order[k]] >= 3 THEN b ELSE Neighbours(b, b.order[k])

Search(start) ==
  LET first == [order |-> <<start>>, depth |-> [x \in {start} |-> 0], edges |-> {}, new |-> 0,
                capped |-> FALSE]
      upTo[k \in 0 .. Cardinality(GraphNodes)] == IF k = 0 THEN first ELSE Expand(upTo[k - 1], k)
  IN upTo[Cardinality(GraphNodes)]

Traversal(start) ==
  LET b == Search(start)
      reached == DOMAIN b.depth
  IN IF start \notin DOMAIN known THEN NoEvidence
     ELSE [reached |-> reached, edges |-> Cardinality(b.edges), at |-> hour, capped |-> b.capped,
           bad |-> {n \in reached \cap DOMAIN known : known[n]}]

\* Mutant: it looks while its links are being added.
EvaluateGraphEarly(p) ==
  /\ payment[p].pc \in {"adding", "added"}
  /\ payment' = [payment EXCEPT ![p].pc = "evaluated",
                                ![p].evidence = Traversal(Account(payment[p].account))]
  /\ UNCHANGED <<known, out, in, since, hour, drawing>>

\* EvaluateTenantEntityGraph, after the orchestrator's ingestion.
EvaluateGraph(p) ==
  /\ payment[p].pc = "added"
  /\ payment' = [payment EXCEPT ![p].pc = "evaluated",
                                ![p].evidence = Traversal(Account(payment[p].account))]
  /\ UNCHANGED <<known, out, in, since, hour, drawing>>

GraphHourPasses ==
  /\ hour < MaxGraphHour /\ hour' = hour + 1
  /\ UNCHANGED <<payment, known, out, in, since, drawing>>

-----------------------------------------------------------------------------
(* The drawing of the neighbourhood of an account, once, after a decision on*)
(* it: the nodes are read in one critical section and the links in another. *)
(* An empty graph is filled with the demonstration's first, which is how the*)
(* marks of GraphInit arise.                                                *)
DrawNodes ==
  /\ drawing.pc = "none"
  /\ \E p \in GraphPayments : payment[p].pc = "evaluated" /\ Account(payment[p].account) = drawing.root
  /\ drawing' = [drawing EXCEPT !.pc = "nodes", !.nodes = known,
                                !.added = {p \in GraphPayments : payment[p].pc # "arrived"},
                                !.evaluated = {p \in GraphPayments : payment[p].pc = "evaluated"}]
  /\ UNCHANGED <<payment, known, out, in, since, hour>>

DrawLinks ==
  /\ drawing.pc = "nodes"
  /\ drawing' = [drawing EXCEPT !.pc = "drawn", !.links = DOMAIN since]
  /\ UNCHANGED <<payment, known, out, in, since, hour>>

\* The hop at which a node is drawn: the third also for what is farther or not connected.
Joining(ns, links) == ns \cup UNION {{l.from, l.to} : l \in {k \in links : {k.from, k.to} \cap ns # {}}}
Ring(d, k) ==
  LET ring[i \in 0 .. 3] == IF i = 0 THEN {d.root} ELSE Joining(ring[i - 1], d.links)
  IN ring[k]
DrawnAt(d, n) == CHOOSE k \in 0 .. 3 : (k = 3 \/ n \in Ring(d, k)) /\ \A i \in 0 .. k - 1 : n \notin Ring(d, i)

\* Neither the demonstration nor a payment gives a node a score of its own.
DrawnRisk(d, n) ==
  IF d.nodes[n] THEN "CONFIRMED_FRAUD" ELSE IF DrawnAt(d, n) = 1 THEN "WATCH" ELSE "CLEAN"

GraphNext ==
  \/ DrawNodes \/ DrawLinks
  \/ \E p \in GraphPayments : AddNodes(p) \/ AddEdge(p) \/ EvaluateGraph(p)
  \/ GraphHourPasses

GraphSpec == GraphInit /\ [][GraphNext]_graphVars

\* Accounts and devices of the evidence that are not the payment's own.
OtherAccounts(p) == {n \in payment[p].evidence.reached : n[1] = "ACCOUNT"} \ {Account(payment[p].account)}
OtherDevices(p) == {n \in payment[p].evidence.reached : n[1] = "DEVICE"} \ {Device(payment[p].device)}

(* GraphRiskContribution, in hundredths, of what a traversal reached: other *)
(* accounts, other devices, edges, and nodes known to be bad.               *)
GraphRisk(accounts, devices, edges, bad) ==
  LET degree == 2 * accounts + 2 * devices + edges \div 4
      reasons == (IF bad > 0 THEN {85} ELSE {}) \cup (IF bad >= 3 THEN {90} ELSE {})
                 \cup (IF accounts >= 3 THEN {40 + 4 * accounts} ELSE {})
                 \cup (IF degree >= 6 /\ accounts >= 2 THEN {55} ELSE {})
      worst == CHOOSE r \in reasons \cup {0} : \A s \in reasons : s <= r
  IN IF worst > 95 THEN 95 ELSE worst

-----------------------------------------------------------------------------

(* What a traversal reaches is the three-hop neighbourhood over fresh       *)
(* links, and less only when a limit cut it off.                            *)
Around(ns) ==
  ns \cup UNION {{l.from, l.to} : l \in {k \in DOMAIN since : Fresh(k) /\ {k.from, k.to} \cap ns # {}}}
ReachIsNeighbourhood ==
  \A a \in GraphAccounts :
    LET e == Traversal(Account(a))
        near == Around(Around(Around({Account(a)})))
    IN Account(a) \in DOMAIN known => e.reached \subseteq near /\ (e.capped \/ e.reached = near)

(* Payments of two accounts on one device, evaluated while the links of     *)
(* neither are old: at least one of them sees the other account, because    *)
(* each adds its links before it looks. A link is as old as the payment that*)
(* added it last, which may have begun before these two.                    *)
OneSeesOther ==
  \A p, q \in GraphPayments :
    LET a == payment[p].account
        b == payment[q].account
        d == payment[p].device
    IN (/\ payment[p].pc = "evaluated" /\ payment[q].pc = "evaluated"
        /\ a # b /\ payment[q].device = d /\ d # NoDevice
        /\ \A r \in GraphPayments :
             payment[r].pc # "arrived" /\ payment[r].account \in {a, b} /\ payment[r].device = d =>
               /\ payment[p].evidence.at <= payment[r].began + FreshFor
               /\ payment[q].evidence.at <= payment[r].began + FreshFor)
       => \/ Account(b) \in payment[p].evidence.reached \/ payment[p].evidence.capped
          \/ Account(a) \in payment[q].evidence.reached \/ payment[q].evidence.capped

(* A payment is never held against itself by what it names: its own         *)
(* ingestion has taken the marks of its account, device, card and address   *)
(* away before it is evaluated.                                             *)
OwnEntitiesNeverCount ==
  \A p \in GraphPayments :
    payment[p].evidence.bad \cap Range(Entities(p, payment[p].account, payment[p].device)) = {}

(* More in the neighbourhood of a payment never lowers what the graph       *)
(* charges it with.                                                         *)
EvidenceNeverClears ==
  \A p \in GraphPayments : payment[p].pc = "evaluated" =>
    LET e == payment[p].evidence
        Charge(n, k, b) == GraphRisk(Cardinality(OtherAccounts(p)) + n, Cardinality(OtherDevices(p)),
                                     e.edges + k, Cardinality(e.bad) + b)
    IN \A n \in 0 .. 3, k \in {0, 8}, b \in 0 .. 3 : Charge(0, 0, 0) <= Charge(n, k, b)

(* An analyst who draws the neighbourhood of an account after a payment of  *)
(* it was evaluated sees on the rings all that the evaluation reached, and  *)
(* as confirmed fraud what it was charged with, unless another payment has  *)
(* named that since. A link is drawn without one of its ends only if the end*)
(* is of a payment that arrived while the drawing was made.                 *)
Names(p) == Range(Entities(p, payment[p].account, payment[p].device))
DrawingShowsEvidence ==
  drawing.pc = "drawn" =>
    /\ \A l \in drawing.links : \A n \in {l.from, l.to} \ DOMAIN drawing.nodes :
         \E p \in GraphPayments \ drawing.added : n \in Names(p)
    /\ \A p \in drawing.evaluated : Account(payment[p].account) = drawing.root =>
         /\ payment[p].evidence.reached \subseteq Ring(drawing, 3) \cap DOMAIN drawing.nodes
         /\ \A n \in payment[p].evidence.bad :
              DrawnRisk(drawing, n) = "CONFIRMED_FRAUD" \/ \E q \in drawing.added \ {p} : n \in Names(q)

(* The graph is a sound neighbourhood of the payments in the table.         *)
GraphSound ==
  /\ GraphTypeOK /\ ReachIsNeighbourhood /\ OneSeesOther /\ OwnEntitiesNeverCount
  /\ EvidenceNeverClears /\ DrawingShowsEvidence

================================================================================
