SPECIFICATION PlatformSpec
CONSTANTS
  q1 = q1
  q2 = q2
  q3 = q3
  a1 = a1
  a2 = a2
  c1 = c1
  c2 = c2
  p1 = p1
  p2 = p2
  Analysts = {a1, a2}
  NoOne = NoOne
  Calls = {c1, c2}
  MaxEdits = 2
  GraphAccounts = {"anil", "bela"}
  GraphDevices = {"phone"}
  GraphPayments = {p1, p2}
  FanOut = 5
  NodeLimit = 14
  FreshFor = 0
  MaxGraphHour = 1
  Customers = {"carla"}
  FeedScores = {10}
  Reported = {"tor", "limassol", "elsewhere", "listed proxy"}
  MaxPayments = 2
  BotRequests = {q1, q2, q3}
  VisitsOf <- MCVisits
  Burst <- MCBurst
  NonceKept = 2
  DriftAllowed = 1
  MaxNonces = 1
  AccountFanOut = 2
  ProbedCards = 2
  MeshWindow = 2
  MaxBotTime = 3
  MaxGaps = 4
  Intervals = {0, 2, 20, 23, 98, 400}
INVARIANTS
  ApprovalSound
  
  FeedsHold
  
SYMMETRY MCSymmetry
CHECK_DEADLOCK FALSE
