----------------------------- MODULE FeatureScores -----------------------------
(***************************************************************************)
(* What the feature stores make of their counts (features/device_velocity,  *)
(* device_reputation), the vectors for the models that are built from them  *)
(* (riskengine/ml_features.go), the levels of alarm that the stores of      *)
(* accounts and of payment tokens give their counts                         *)
(* (features/account_device.go, payment_token.go), and the reason codes     *)
(* that an answer explains its signals with (riskengine/orchestrator.go,    *)
(* before step 3). Rates are rounded as the code rounds; scores are in      *)
(* thousandths.                                                             *)
(***************************************************************************)
EXTENDS Integers, FiniteSets, Sequences, FiniteSetsExt, SequencesExt

CONSTANTS
  BurstCounts,   \* counts of payments tried in each window
  BurstAmounts,  \* sums tried in five minutes
  OutcomeCounts, \* counts of outcomes tried
  TenureDays,
  RawNumbers     \* what stores return for a feature, but for NaN and the infinities

ASSUME ScoresAssumption ==
  /\ BurstCounts \cup BurstAmounts \cup OutcomeCounts \cup TenureDays \subseteq Nat
  /\ RawNumbers \subseteq Int

VARIABLES burst, reputation, raw   \* the device in hand: sets with one member, or none

Rounded(n, d) == (2 * n + d) \div (2 * d)

-----------------------------------------------------------------------------
(* Device velocity. *)

Bursts ==
  {b \in [s10 : BurstCounts, m1 : BurstCounts, m5 : BurstCounts, h1 : BurstCounts,
          amount : BurstAmounts] :
     b.s10 <= b.m1 /\ b.m1 <= b.m5 /\ b.m5 <= b.h1 /\ (b.m5 = 0 => b.amount = 0)}

\* TxAcceleration5m1h in hundredths: five minutes against a twelfth of the hour.
Acceleration(b) == IF b.h1 = 0 THEN 0 ELSE Rounded(1200 * b.m5, b.h1)

Reaches(b, t) ==
  b.s10 >= t.s10 \/ b.m1 >= t.m1 \/ b.m5 >= t.m5 \/ b.amount >= t.amount
    \/ Acceleration(b) >= t.acceleration

NoLimit == 1000000
Thresholds ==
  << [s10 |-> 2, m1 |-> 4, m5 |-> 8, amount |-> 50000, acceleration |-> NoLimit],
     [s10 |-> 4, m1 |-> 8, m5 |-> 15, amount |-> 200000, acceleration |-> 400],
     [s10 |-> 8, m1 |-> 15, m5 |-> 30, amount |-> 500000, acceleration |-> 800] >>

\* NORMAL, LOW_SIGNAL, SUSPICIOUS and HIGH_SIGNAL are 0 to 3.
BurstSignal(b) == Max({0} \cup {i \in DOMAIN Thresholds : Reaches(b, Thresholds[i])})

-----------------------------------------------------------------------------
(* Device reputation: 0 is trusted, 1000 is fraud. *)

Reputations ==
  {r \in [success : OutcomeCounts, failure : OutcomeCounts, dispute : OutcomeCounts,
          recentDispute : OutcomeCounts, fraud : OutcomeCounts, recentFraud : OutcomeCounts,
          tenure : TenureDays] : r.recentDispute <= r.dispute /\ r.recentFraud <= r.fraud}

Total(r) == r.success + r.failure
Disputed(r) == Rounded(10000 * r.dispute, Max({1, Total(r)})) >= 1000

Atmost(n, limit) == Min({n, limit})

\* Mutant: successes are added.
ReputationScoreCounting(r) ==
  Max({0, Atmost(500 + Atmost(30 * r.success, 300) - Atmost(5 * r.tenure, 150)
    + (IF r.fraud > 0 THEN 500 ELSE 0) + (IF r.recentFraud > 0 THEN 300 ELSE 0)
    + Atmost(250 * r.dispute, 500) + Atmost(100 * r.recentDispute, 200)
    + Atmost(50 * r.failure, 200)
    + (IF Total(r) >= 3 /\ Disputed(r) THEN 200 ELSE 0), 1000)})

\* A chargeback counts as a dispute, too.
ReputationScore(r) ==
  Max({0, Atmost(500 - Atmost(30 * r.success, 300) - Atmost(5 * r.tenure, 150)
    + (IF r.fraud > 0 THEN 500 ELSE 0) + (IF r.recentFraud > 0 THEN 300 ELSE 0)
    + Atmost(250 * r.dispute, 500) + Atmost(100 * r.recentDispute, 200)
    + Atmost(50 * r.failure, 200)
    + (IF Total(r) >= 3 /\ Disputed(r) THEN 200 ELSE 0), 1000)})

-----------------------------------------------------------------------------
(* The model's features in their order: lower bound, upper bound, default,  *)
(* in thousandths where the code has fractions; the lower bound of the     *)
(* amount is a hundredth, 0 here.                                           *)

Fraction(d) == <<0, 1000, d>>
Count(max) == <<0, max, 0>>

LegacyFeatures ==
  << <<"amount", <<0, 1000000000, 100>> >>, <<"ip_velocity_1h", Count(100000)>>,
     <<"ip_velocity_24h", Count(500000)>>, <<"token_velocity_24h", Count(100000)>>,
     <<"device_seen_before", Fraction(0)>>, <<"transaction_hour", <<0, 23, 12>> >>,
     <<"transaction_day", Count(6)>>, <<"product_cd_encoded", Count(100)>>,
     <<"card_type_encoded", Count(100)>>, <<"card_category_encoded", Count(100)>>,
     <<"email_domain_risk", Fraction(35)>>, <<"dist1_missing", Fraction(1000)>>,
     <<"device_type_mobile", Fraction(0)>>, <<"device_info_missing", Fraction(0)>>,
     <<"amount_to_mean_ratio", <<0, 1000000, 1000>> >> >>

BehaviouralFeatures ==
  << <<"device_tx_count_5m", Count(10000)>>,
     <<"device_tx_count_1h", Count(50000)>>, <<"device_amount_sum_24h", Count(1000000000)>>,
     <<"tx_acceleration_5m_1h", <<0, 1000000, 0>> >>,
     <<"device_amount_concentration_5m_1h", Fraction(0)>>,
     <<"device_unique_tokens_1h", Count(1000)>>, <<"token_unique_devices_1h", Count(1000)>>,
     <<"device_reputation_score", Fraction(500)>>, <<"device_fraud_rate", Fraction(0)>>,
     <<"device_dispute_rate", Fraction(0)>> >>

Definitions == LegacyFeatures \o BehaviouralFeatures

Low(i) == Definitions[i][2][1]
High(i) == Definitions[i][2][2]
Default(i) == Definitions[i][2][3]

NaN == "NaN"
RawValues ==
  [kind : {NaN, "+Inf", "-Inf"}, value : {0}] \cup [kind : {"number"}, value : RawNumbers]

SanitizeFeatureValue(x, i) ==
  CASE x.kind = NaN      -> Default(i)
    [] x.kind = "+Inf"   -> High(i)
    [] x.kind = "-Inf"   -> Low(i)
    [] x.kind = "number" -> Max({Low(i), Atmost(x.value, High(i))})

BuildVector(xs) == [i \in DOMAIN Definitions |-> SanitizeFeatureValue(xs[i], i)]
LegacyVector(v) == SubSeq(v, 1, 15)

-----------------------------------------------------------------------------

ScoresNone == burst = {} /\ reputation = {} /\ raw = {}

ScoresInit ==
  \/ burst \in {{b} : b \in Bursts} /\ reputation = {} /\ raw = {}
  \/ burst = {} /\ reputation \in {{r} : r \in Reputations} /\ raw = {}
  \/ burst = {} /\ reputation = {} /\ raw \in {{x, y} : x \in RawValues, y \in RawValues}

(* One more payment in the last five minutes, of any age and amount, never  *)
(* gets a device a milder signal, although the acceleration is a ratio.     *)
BurstNeverMilder ==
  \A b \in burst : \A s10, m1 \in {0, 1} : \A a \in BurstAmounts :
    s10 <= m1 =>
      BurstSignal(b) <= BurstSignal([s10 |-> b.s10 + s10, m1 |-> b.m1 + m1, m5 |-> b.m5 + 1,
                                     h1 |-> b.h1 + 1, amount |-> b.amount + a])

(* A fraud or a dispute, recent or old, never makes a device more trusted,  *)
(* whatever else is known of it.                                            *)
BadNewsNeverHelps ==
  \A r \in reputation : \A new \in {0, 1} :
    /\ ReputationScore(r) <=
         ReputationScore([r EXCEPT !.fraud = @ + 1, !.recentFraud = @ + new])
    /\ ReputationScore(r) <=
         ReputationScore([r EXCEPT !.dispute = @ + 1, !.recentDispute = @ + new])

(* A success makes a device less trusted only where it is its third payment *)
(* and there were disputes: below three the rate of disputes is not looked  *)
(* at. A failure makes it more trusted only where it dilutes that rate.     *)
TrustUnlessRateBites ==
  \A r \in reputation :
    LET s == [r EXCEPT !.success = @ + 1]
        f == [r EXCEPT !.failure = @ + 1]
    IN /\ ReputationScore(s) > ReputationScore(r) => Total(s) = 3 /\ r.dispute > 0
       /\ ReputationScore(f) < ReputationScore(r) => Disputed(r) /\ ~Disputed(f)

(* Whatever the stores return, NaN and the infinities included, the models  *)
(* get a number within the bounds of the feature, and clamping never swaps  *)
(* two values; the legacy model gets the same values as the candidate.      *)
VectorInBounds ==
  \A x, y \in raw :
    LET v == BuildVector([i \in DOMAIN Definitions |-> x])
        o == BuildVector([i \in DOMAIN Definitions |-> y])
    IN /\ \A i \in DOMAIN Definitions :
            /\ Low(i) <= v[i] /\ v[i] <= High(i)
            /\ x.kind = "number" /\ y.kind = "number" /\ x.value <= y.value => v[i] <= o[i]
       /\ Len(LegacyVector(v)) = 15 /\ \A i \in 1 .. 15 : LegacyVector(v)[i] = v[i]

-----------------------------------------------------------------------------
(* Levels of alarm. *)

CONSTANT SignalCounts   \* counts tried

ASSUME SignalAssumption == SignalCounts \subseteq Nat

VARIABLE signals   \* the counts in hand: a set with one member, or none

\* Per device: accounts and switches between them; of the account: devices.
AccountSignals ==
  {a \in [accounts24h : SignalCounts, switches1h : SignalCounts, switches24h : SignalCounts,
          devices24h : SignalCounts] :
     /\ a.switches1h <= a.switches24h
     /\ (a.accounts24h = 0) => a.switches24h = 0}

\* Per device: tokens and payments with them; of the token: devices.
TokenSignals ==
  {t \in [tokens5m : SignalCounts, tokens1h : SignalCounts, tokens24h : SignalCounts,
          payments1h : SignalCounts, devices1h : SignalCounts, devices24h : SignalCounts] :
     /\ t.tokens5m <= t.tokens1h /\ t.tokens1h <= t.tokens24h /\ t.tokens1h <= t.payments1h
     /\ t.devices1h <= t.devices24h}

\* The level of the highest rung that is reached; a rung is a disjunction of limits.
Highest(rungs, c) ==
  Max({0} \cup {i \in DOMAIN rungs : \E f \in DOMAIN rungs[i] : c[f] >= rungs[i][f]})

MultiAccountRungs ==
  << [accounts24h |-> 2, devices24h |-> 2], [accounts24h |-> 5, switches1h |-> 3],
     [accounts24h |-> 10, switches1h |-> 5] >>
MultiAccountSignal(a) == Highest(MultiAccountRungs, a)

CardTestingRungs ==
  << [tokens5m |-> 3], [tokens5m |-> 5, tokens1h |-> 8],
     [tokens5m |-> 10, tokens1h |-> 15, payments1h |-> 20] >>
CardTestingSignal(t) == Highest(CardTestingRungs, t)

\* There is no low level: SUSPICIOUS is 1 here and HIGH_SIGNAL 2.
FanOutRungs == << [devices1h |-> 3, devices24h |-> 5], [devices1h |-> 5, devices24h |-> 10] >>
TokenFanOutSignal(t) == Highest(FanOutRungs, t)

-----------------------------------------------------------------------------
(* Reason codes, by the store that they are about. *)

Raised(tests) == {code \in DOMAIN tests : tests[code]}

AccountCodes(a) ==
  Raised([DEVICE_MULTI_ACCOUNT_ACTIVITY |-> a.accounts24h >= 3,
          DEVICE_ACCOUNT_SWITCH_BURST   |-> a.switches1h >= 3 \/ a.switches24h >= 5,
          ACCOUNT_MULTI_DEVICE_ACTIVITY |-> a.devices24h >= 3,
          ACCOUNT_DEVICE_FANOUT         |-> a.devices24h >= 5])

TokenCodes(t) ==
  Raised([CARD_TESTING_DEVICE_TOKEN_BURST |-> CardTestingSignal(t) >= 2,
          DEVICE_HIGH_TOKEN_DIVERSITY     |-> t.tokens24h >= 3,
          DEVICE_RAPID_TOKEN_ROTATION     |-> t.tokens5m >= 3,
          TOKEN_MULTI_DEVICE_ACTIVITY     |-> t.devices24h >= 3,
          TOKEN_DEVICE_FANOUT             |-> TokenFanOutSignal(t) >= 1])

VelocityCodes(b) ==
  Raised([DEVICE_TX_BURST_10S          |-> b.s10 >= 4,
          DEVICE_TX_BURST_1M           |-> b.m1 >= 8,
          DEVICE_TX_BURST_5M           |-> b.m5 >= 15,
          DEVICE_AMOUNT_BURST_5M       |-> b.amount >= 200000,
          DEVICE_VELOCITY_ACCELERATION |-> Acceleration(b) >= 400,
          DEVICE_EXTREME_VELOCITY      |-> BurstSignal(b) = 3])

TrustCode == "DEVICE_LONG_TRUSTED_HISTORY"

ReputationCodes(r) ==
  Raised([DEVICE_FRAUD_HISTORY         |-> r.fraud >= 1,
          DEVICE_RECENT_FRAUD_ACTIVITY |-> r.recentFraud >= 1,
          DEVICE_BAD_REPUTATION        |-> ReputationScore(r) >= 750,
          DEVICE_HIGH_DISPUTE_RATE     |-> Disputed(r) /\ Total(r) >= 3,
          DEVICE_RECENT_DISPUTE_BURST  |-> r.recentDispute >= 2,
          DEVICE_DISPUTE_HISTORY       |-> r.dispute >= 1 /\ r.recentDispute < 2,
          DEVICE_LONG_TRUSTED_HISTORY  |->
            /\ r.tenure >= 14 /\ r.success >= 5 /\ r.dispute = 0 /\ r.fraud = 0
            /\ ReputationScore(r) <= 200])

-----------------------------------------------------------------------------

SignalsInit == signals \in {{x} : x \in AccountSignals \cup TokenSignals}
SignalsNone == signals = {}

\* One device is looked at: the answers are functions of the counts.
ScoresSpec ==
  /\ \/ ScoresInit /\ SignalsNone
     \/ ScoresNone /\ SignalsInit
  /\ [][FALSE]_<<burst, reputation, raw, signals>>

\* A device's account signals, or its token signals, in hand.
AccountsInHand == signals \cap AccountSignals
TokensInHand == signals \cap TokenSignals

(* No alarm goes unexplained: where a store says SUSPICIOUS or worse, the   *)
(* answer has a code of that store, although levels and codes have limits   *)
(* of their own, in two packages.                                           *)
AlarmsExplained ==
  /\ \A a \in AccountsInHand : MultiAccountSignal(a) >= 2 => AccountCodes(a) # {}
  /\ \A t \in TokensInHand :
       CardTestingSignal(t) >= 2 \/ TokenFanOutSignal(t) >= 1 => TokenCodes(t) # {}
  /\ \A b \in burst :
       BurstSignal(b) >= 2 => VelocityCodes(b) \ {"DEVICE_EXTREME_VELOCITY"} # {}

(* An answer never calls the history of a device trusted and bad at once.   *)
TrustedMeansClean ==
  \A r \in reputation : TrustCode \in ReputationCodes(r) => ReputationCodes(r) = {TrustCode}

(* Scores move with the evidence, stay in their bounds, and are explained.  *)
ScoresSound ==
  /\ BurstNeverMilder /\ BadNewsNeverHelps /\ TrustUnlessRateBites /\ VectorInBounds
  /\ AlarmsExplained /\ TrustedMeansClean

===============================================================================
