------------------------------- MODULE BotDefense -------------------------------
(***************************************************************************)
(* Automated attack detection (bot_defense/): every evaluation goes through *)
(* four detectors, each with its own lock and its own history, and requests *)
(* of one client interleave between them. A tick of the clock is five       *)
(* minutes, after which every bucket is full again; the scores are          *)
(* hundredths.                                                              *)
(***************************************************************************)
EXTENDS Integers, Sequences, SequencesExt, FiniteSets, FiniteSetsExt

CONSTANTS
  BotRequests,
  VisitsOf,      \* what each request may be: [nonce, age, account, device, card, micro, pace]
  Burst,         \* capacity of a bucket, for each layer
  NonceKept,     \* ticks a nonce is remembered: 3
  DriftAllowed,  \* ticks a request's time may differ from the server's: 1
  MaxNonces,     \* nonces at which expired ones are dropped
  AccountFanOut, \* accounts on a device that are too many: 4
  ProbedCards,   \* cards on a device that are too many: 3
  MeshWindow,    \* ticks a relation counts: 3
  MaxBotTime     \* bound on the clock

\* As the code has it, a nonce is remembered longer than its request can be late and early.
ASSUME BotAssumption ==
  /\ {NonceKept, DriftAllowed, MaxNonces, AccountFanOut, ProbedCards, MeshWindow, MaxBotTime}
       \subseteq Nat
  /\ 2 * DriftAllowed <= NonceKept
  /\ IsFiniteSet(BotRequests) /\ Burst \in [{"dev", "acc", "card"} -> Nat]
  /\ \A r \in BotRequests : \A v \in VisitsOf[r] : v.age \in Int

VARIABLES
  request,  \* of each request: where it is, what it says, and the signals it got
  nonces,   \* seenNonces, with the time
  clientBuckets,  \* tokens left, of the keys asked for since they were last full
  seenOn,   \* DeviceToAccounts and DeviceToCards, with the time
  botTime

botVars == <<request, nonces, clientBuckets, seenOn, botTime>>

Visits == UNION {VisitsOf[r] : r \in BotRequests}
NoVisit == [nonce |-> "none", age |-> 0, account |-> "none", device |-> "none", card |-> "none",
            micro |-> FALSE, pace |-> {}]
NoSignals == [replay |-> FALSE, limited |-> {}, accounts |-> 0, probing |-> FALSE]
Keys(v) == {<<"dev", v.device>>, <<"acc", v.account>>, <<"card", v.card>>}

BotTypeOK ==
  /\ request \in [BotRequests ->
       [pc : {"idle", "limits", "mesh", "done"}, visit : Visits \cup {NoVisit},
        stamp : Int, asked : 0 .. MaxBotTime, score : 0 .. 99,
        signals : [replay : BOOLEAN, limited : SUBSET {"dev", "acc", "card"},
                   accounts : 0 .. Cardinality(BotRequests), probing : BOOLEAN]]]
  /\ \A n \in DOMAIN nonces : nonces[n] <= botTime
  /\ \A k \in DOMAIN clientBuckets : clientBuckets[k] \in 0 .. Burst[k[1]]
  /\ \A x \in DOMAIN seenOn : seenOn[x] <= botTime
  /\ botTime \in 0 .. MaxBotTime

BotInit ==
  /\ request = [r \in BotRequests |-> [pc |-> "idle", visit |-> NoVisit, stamp |-> 0, asked |-> 0,
                                       score |-> 0, signals |-> NoSignals]]
  /\ nonces = <<>> /\ clientBuckets = <<>> /\ seenOn = <<>>
  /\ botTime = 0

-----------------------------------------------------------------------------
(* ReplayProtector.ValidateReplay. A nonce that is still remembered keeps   *)
(* its time; only expired ones are dropped.                                 *)

Forgettable(n) == botTime - nonces[n] > NonceKept

\* Mutant: a full cache is emptied.
AfterFullCleared ==
  IF Cardinality(DOMAIN nonces) < MaxNonces THEN nonces ELSE <<>>
AfterFull ==
  IF Cardinality(DOMAIN nonces) < MaxNonces THEN nonces
  ELSE [n \in {m \in DOMAIN nonces : ~Forgettable(m)} |-> nonces[n]]

ValidateReplay(r, v) ==
  LET stamp == botTime - v.age
      repeated == v.nonce \in DOMAIN nonces /\ ~Forgettable(v.nonce)
  IN /\ request[r].pc = "idle"
     /\ request' = [request EXCEPT ![r].pc = "limits", ![r].visit = v, ![r].stamp = stamp,
          ![r].signals.replay = repeated \/ botTime - stamp > DriftAllowed \/ stamp - botTime > DriftAllowed]
     /\ nonces' = IF repeated THEN nonces
                  ELSE [n \in DOMAIN AfterFull \cup {v.nonce} |->
                          IF n = v.nonce THEN botTime ELSE AfterFull[n]]
     /\ UNCHANGED <<clientBuckets, seenOn, botTime>>

-----------------------------------------------------------------------------
(* LayeredLimiter.EvaluateLimits: a token from every layer, whatever the    *)
(* others say.                                                              *)

Tokens(k) == IF k \in DOMAIN clientBuckets THEN clientBuckets[k] ELSE Burst[k[1]]

EvaluateLimits(r) ==
  LET keys == Keys(request[r].visit)
      empty == {k \in keys : Tokens(k) = 0}
  IN /\ request[r].pc = "limits"
     /\ request' = [request EXCEPT ![r].pc = "mesh", ![r].asked = botTime,
                                   ![r].signals.limited = {k[1] : k \in empty}]
     /\ clientBuckets' = [k \in DOMAIN clientBuckets \cup keys |->
          IF k \in keys \ empty THEN Tokens(k) - 1 ELSE Tokens(k)]
     /\ UNCHANGED <<nonces, seenOn, botTime>>

-----------------------------------------------------------------------------
(* Evaluate: the score and the level.                                       *)

Score(v, s) ==
  LET sum == 4 + (IF s.replay THEN 50 ELSE 0)
               + (IF "loop" \in v.pace THEN 35 ELSE 0) + (IF "burst" \in v.pace THEN 25 ELSE 0)
               + (IF "headless" \in v.pace THEN 30 ELSE 0)
               + (IF s.probing THEN 45 ELSE 0)
               + (IF s.accounts >= AccountFanOut THEN 35 ELSE 0)
               + (IF s.limited \cap {"dev", "acc"} # {} THEN 30 ELSE 0)
               + (IF "card" \in s.limited THEN 35 ELSE 0)
  IN IF sum > 99 THEN 98 ELSE sum

(* CoordinatedAttackDetector.AnalyzeCoordinatedRisk: the request is entered *)
(* and then counted. The score follows from the signals.                    *)
Within(x) == botTime - seenOn[x] <= MeshWindow
AnalyzeCoordinatedRisk(r) ==
  LET v == request[r].visit
      now == {<<v.device, "account", v.account>>, <<v.device, "card", v.card>>}
      On(kind) == {x \in DOMAIN seenOn : x[1] = v.device /\ x[2] = kind /\ Within(x)}
                  \cup {x \in now : x[2] = kind}
      cards == Cardinality(On("card"))
      signals == [request[r].signals EXCEPT !.accounts = Cardinality(On("account")),
                   !.probing = cards >= ProbedCards \/ (cards >= 2 /\ v.micro)]
  IN /\ request[r].pc = "mesh"
     /\ request' = [request EXCEPT ![r].pc = "done", ![r].signals = signals,
                                   ![r].score = Score(v, signals)]
     /\ seenOn' = [x \in DOMAIN seenOn \cup now |-> IF x \in now THEN botTime ELSE seenOn[x]]
     /\ UNCHANGED <<nonces, clientBuckets, botTime>>

BotTick ==
  /\ botTime < MaxBotTime /\ botTime' = botTime + 1
  /\ clientBuckets' = <<>>
  /\ UNCHANGED <<request, nonces, seenOn>>

BotNext ==
  \/ \E r \in BotRequests : (\E v \in VisitsOf[r] : ValidateReplay(r, v)) \/ EvaluateLimits(r) \/ AnalyzeCoordinatedRisk(r)
  \/ BotTick

BotSpec == BotInit /\ [][BotNext]_botVars

-----------------------------------------------------------------------------

(* A request that is sent again, with the nonce and the time it had, is     *)
(* seen as a replay at least once of the two, however much later: when its  *)
(* nonce is forgotten its time is too far off.                              *)
ReplayCaught ==
  \A r, s \in BotRequests :
    (/\ r # s /\ request[r].pc # "idle" /\ request[s].pc # "idle"
     /\ request[r].visit.nonce = request[s].visit.nonce /\ request[r].stamp = request[s].stamp)
    => request[r].signals.replay \/ request[s].signals.replay

-----------------------------------------------------------------------------
(* The timing of one client (cadence_analyzer.go): the last intervals       *)
(* between its requests, in units of fifty milliseconds, and what is made   *)
(* of them.                                                                 *)

CONSTANTS
  Intervals,   \* intervals at which the client calls
  MaxGaps      \* intervals that are kept: 11

ASSUME CadenceAssumption == Intervals \subseteq Nat /\ MaxGaps \in Nat \ {0}

VARIABLES
  gaps,   \* the intervals between tracker.timestamps
  pace    \* what AnalyzeCadence made of them

cadenceVars == <<gaps, pace>>

Sum(ds) ==
  LET upTo[i \in 0 .. Len(ds)] == IF i = 0 THEN 0 ELSE upTo[i - 1] + ds[i]
  IN upTo[Len(ds)]
MeanBelow(ds, m) == Sum(ds) < m * Len(ds)

\* The deviation is below fifteen hundredths of the mean: n * sum of squares < 1.0225 * sum ^ 2.
Even(ds) ==
  Sum(ds) > 0 /\ 400 * Len(ds) * Sum([i \in DOMAIN ds |-> ds[i] * ds[i]]) < 409 * Sum(ds) * Sum(ds)

IsDeterministicCadence(ds) == Len(ds) >= 3 /\ MeanBelow(ds, 100) /\ Even(ds)
IsBurstPacing(ds) == Cardinality({i \in DOMAIN ds : ds[i] < 4}) >= 3

CadenceTypeOK == gaps \in BoundedSeq(Intervals, MaxGaps) /\ pace \subseteq {"deterministic", "burst"}

CadenceInit == gaps = <<>> /\ pace = {}

(* AnalyzeCadence: the interval since the request before (none, when a      *)
(* timestamp goes back) enters the window, and the oldest one leaves it.    *)
AnalyzeCadence(d) ==
  LET all == Append(gaps, d)
      now == IF Len(all) > MaxGaps THEN Tail(all) ELSE all
  IN /\ gaps' = now
     /\ pace' = {p \in {"deterministic"} : IsDeterministicCadence(now)}
                \cup {p \in {"burst"} : IsBurstPacing(now)}

CadenceNext == \E d \in Intervals : AnalyzeCadence(d)

CadenceSpec == CadenceInit /\ [][CadenceNext]_cadenceVars

(* A client that calls at equal intervals of less than five seconds is      *)
(* noticed when its window holds nothing else, whatever it did before.      *)
SteadyIsSeen ==
  \A d \in Intervals : (d < 100 /\ Len(gaps) >= 3 /\ Range(gaps) = {d}) => pace # {}

(* What bots repeat is noticed: a request by its nonce or its time, a       *)
(* rhythm by its intervals.                                                 *)
BotsNoticed ==
  BotTypeOK /\ ReplayCaught /\ CadenceTypeOK /\ SteadyIsSeen

================================================================================
