------------------------------ MODULE ThreatContext ------------------------------
(***************************************************************************)
(* Threat intelligence (graph/threat_intelligence.go) as the orchestrator   *)
(* asks it: customers pay from addresses of the built-in subnets, an        *)
(* operator adds addresses to the feed, and each payment is compared with   *)
(* where the customer is taken to have been before. Scores are hundredths.  *)
(***************************************************************************)
EXTENDS Integers, Sequences, SequencesExt, FiniteSets, FiniteSetsExt

CONSTANTS
  Customers,
  Reported,     \* addresses that operators report
  FeedScores,   \* scores they give them
  MaxPayments   \* bound on the payments of one customer

(* The built-in subnets, one of which is only a block, and what lies outside *)
(* of them: an address of each, and one more that is listed from the start.  *)
Subnets == {"bengaluru", "new delhi", "san francisco", "limassol", "london", "tor", "elsewhere"}
Addresses == Subnets \cup {"listed proxy"}

\* Operators give scores on the scale of the report; nothing checks it.
ASSUME ThreatAssumption ==
  Reported \subseteq Addresses /\ FeedScores \subseteq 0 .. 100 /\ MaxPayments \in Nat

VARIABLES
  feed,   \* t.maliciousIPs: the addresses that are listed one by one
  trips   \* of each customer, the payments so far: address, device and report

threatVars == <<feed, trips>>

Located == Subnets \ {"tor", "elsewhere"}
ProxySubnets == {"limassol", "london"}
ListedBlocks == {"limassol", "london", "tor"}
SubnetOf(ip) == IF ip = "listed proxy" THEN "limassol" ELSE ip
BaselineFeed == [ip \in {"listed proxy"} |-> 95]

\* Device fingerprints: listed, merely named like an emulator, or neither.
DeviceScore == [listed |-> 95, emulatorName |-> 75, plain |-> 0]
Fingerprints == DOMAIN DeviceScore

\* CalculateHaversineDistanceKm from the anchor to the places of the subnets, rounded to hundreds.
KmFromBengaluru ==
  [s \in Located |-> CASE s = "bengaluru" -> 0 [] s = "new delhi" -> 1700 [] s = "limassol" -> 5200
                      [] s = "london" -> 8000 [] OTHER -> 14000]

\* CalculateImpliedSpeedKmh over so many minutes.
Speed(km, minutes) == IF km = 0 \/ minutes <= 0 THEN 0 ELSE (km * 60) \div minutes

-----------------------------------------------------------------------------

\* Mutant: an address that is listed one by one is not looked up in the blocks.
ScoresExact(ip, s) ==
  IF ip \in DOMAIN feed THEN {feed[ip]} ELSE {85 : x \in {s} \cap ListedBlocks}
\* The scores that the address gives: its own one in the feed, and that of a listed block.
Scores(ip, s) ==
  {feed[x] : x \in {ip} \cap DOMAIN feed} \cup {85 : x \in {s} \cap ListedBlocks}

\* EvaluateThreatContext, with the distance and the minutes to the previous location.
EvaluateThreatContext(ip, device, km, minutes) ==
  LET s == SubnetOf(ip)
      impossible == km > 300 /\ Speed(km, minutes) > 900
  IN [proxy |-> s \in ProxySubnets,
      malicious |-> Scores(ip, s) # {},
      compromised |-> DeviceScore[device] > 0,
      impossible |-> impossible,
      score |-> Max({DeviceScore[device]} \cup {35 : x \in {s} \cap ProxySubnets} \cup Scores(ip, s)
                    \cup (IF impossible THEN {88} ELSE {}))]

Reports == [proxy : BOOLEAN, malicious : BOOLEAN, compromised : BOOLEAN, impossible : BOOLEAN, score : 0 .. 100]
ThreatTypeOK ==
  /\ DOMAIN feed \subseteq Addresses /\ \A ip \in DOMAIN feed : feed[ip] \in FeedScores \cup {95}
  /\ trips \in [Customers -> Seq([from : Addresses, device : Fingerprints, report : Reports])]
  /\ \A c \in Customers : Len(trips[c]) <= MaxPayments

ThreatInit == feed = BaselineFeed /\ trips = [c \in Customers |-> <<>>]

AddMaliciousIP(ip, score) ==
  /\ feed' = [x \in DOMAIN feed \cup {ip} |-> IF x = ip THEN score ELSE feed[x]]
  /\ UNCHANGED trips

(* The orchestrator takes every customer to have been in Bengaluru twelve   *)
(* minutes ago. An address of no known place has no distance.               *)
Pay(c, ip, device) ==
  LET s == SubnetOf(ip)
      km == IF s \in Located THEN KmFromBengaluru[s] ELSE 0
  IN /\ Len(trips[c]) < MaxPayments
     /\ trips' = [trips EXCEPT ![c] =
          Append(@, [from |-> ip, device |-> device,
                     report |-> EvaluateThreatContext(ip, device, km, 12)])]
     /\ UNCHANGED feed

ThreatNext ==
  \/ \E ip \in Reported, score \in FeedScores : AddMaliciousIP(ip, score)
  \/ \E c \in Customers, ip \in Addresses, device \in Fingerprints : Pay(c, ip, device)

ThreatSpec == ThreatInit /\ [][ThreatNext]_threatVars

-----------------------------------------------------------------------------

(* Nothing an operator adds to the feed makes an address of a listed block  *)
(* look better than the block.                                              *)
ListedBlockFloor ==
  \A c \in Customers : \A i \in DOMAIN trips[c] :
    SubnetOf(trips[c][i].from) \in ListedBlocks => trips[c][i].report.score >= 85

(* A claim of docs/components/06-threat-intelligence.md, line 10: impossible *)
(* travel is between successive sessions of the user. A customer whose      *)
(* payments all come from one address has not travelled.                    *)
StationaryIsPossible ==
  \A c \in Customers : \A i \in DOMAIN trips[c] :
    trips[c][i].report.impossible => \E j \in 1 .. i - 1 : trips[c][j].from # trips[c][i].from

(* The feed keeps what it ships with, and every report is within its scale. *)
FeedsHold ==
  ThreatTypeOK /\ ListedBlockFloor

================================================================================
