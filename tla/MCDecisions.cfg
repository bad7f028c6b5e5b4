SPECIFICATION DecisionsSpec
CONSTANTS
  e1 = e1
  e2 = e2
  e3 = e3
  p1 = p1
  b1 = b1
  b2 = b2
  Scores = {5, 20, 70}
  Accounts = {0, 3}
  Amounts = {3000, 10000, 150000}
  Numbers = {1, 2}
  RuleTables <- MCRuleTables
  CostBase = 500
  RateLTV = 5
  ReviewFee = 100
  ResidualReviewRate = 5
  ChallengeFee = 2
  ChallengeFrictionRate = 2
  FraudMultiplier = 1
  Evaluations = {e1, e2, e3}
  Payments = {p1}
  ChannelSize = 1
  MaxDisputes = 1
  MaxFlowFaults = 1
  Scorings = {e1, e2, e3}
  Buyers = {b1, b2}
  Windows = {1, 2}
  Surplus = 2
  MaxSkew = 1
  MaxHour = 4
  MaxStoreFaults = 2
  BurstCounts = {0, 1, 2, 3, 7, 8, 15}
  BurstAmounts = {0, 49999, 300000}
  OutcomeCounts = {0, 1, 2, 3, 9}
  SignalCounts = {0, 1, 2, 3, 5, 8, 20}
  TenureDays = {0, 20}
  RawNumbers <- MCRawNumbers
INVARIANTS
  
  RecordsAgree
  
  ConditionsLawful
  
SYMMETRY Symmetry
CHECK_DEADLOCK FALSE
