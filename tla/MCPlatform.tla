------------------------------ MODULE MCPlatform ------------------------------
(***************************************************************************)
(* Components around the scoring path that share no state with each other: *)
(* a behaviour runs one of them, chosen at the start, as in Services.       *)
(***************************************************************************)
EXTENDS RuleApproval, EntityGraph, ThreatContext, BotDefense, TLC

VARIABLE part

platformVars ==
  <<part, approvalVars, graphVars, threatVars, botVars, cadenceVars>>

PlatformParts == {"approval", "graph", "threat", "bots", "cadence"}

\* The graph starts from many states, and from one of them where it does not run.
PlatformInit ==
  /\ part \in PlatformParts
  /\ ApprovalInit /\ ThreatInit /\ BotInit /\ CadenceInit
  /\ GraphInit
  /\ part # "graph" =>
       /\ since = <<>>
       /\ \A p, q \in GraphPayments : payment[p] = payment[q] /\ payment[p].device = NoDevice

StandsStill(p, v) == IF part = p THEN TRUE ELSE UNCHANGED v

PlatformNext ==
  /\ \/ part = "approval" /\ ApprovalNext
     \/ part = "graph" /\ GraphNext
     \/ part = "threat" /\ ThreatNext
     \/ part = "bots" /\ BotNext
     \/ part = "cadence" /\ CadenceNext
  /\ UNCHANGED part
  /\ StandsStill("approval", approvalVars)
  /\ StandsStill("graph", graphVars)
  /\ StandsStill("threat", threatVars)
  /\ StandsStill("bots", botVars)
  /\ StandsStill("cadence", cadenceVars)

PlatformSpec == PlatformInit /\ [][PlatformNext]_platformVars

-----------------------------------------------------------------------------
(* A small instance for TLC.                                                *)

CONSTANTS q1, q2, q3

\* Requests, analysts and their calls are alike; no temporal property is checked here.
MCSymmetry == Permutations({q1, q2}) \cup Permutations(Analysts) \cup Permutations(Calls)

(* One request that is sent once more, with the same nonce and time, up to     *)
(* three ticks later, and one of another account on the same device.           *)
Visit(n, age, who, small, timing) ==
  [nonce |-> n, age |-> age, account |-> who, device |-> "dev", card |-> who,
   micro |-> small, pace |-> timing]
MCVisits ==
  [r \in BotRequests |->
     IF r = q3 THEN {Visit("n2", 0, "acc2", TRUE, {"burst"})}
     ELSE {Visit("n1", age, "acc1", FALSE, {}) : age \in {-1, 1, 3}}]
MCBurst == [layer \in {"dev", "acc", "card"} |-> IF layer = "dev" THEN 2 ELSE 1]
===============================================================================
