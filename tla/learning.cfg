SPECIFICATION Spec
CONSTANTS
  Parts = {"gate", "drift", "bandit"}
  Kinds = {"wide", "thin"}
  PlanOf <- MCPlans
  DefaultUnwind = 12
  MinEV = 1
  MinFill = 15
  Confidence = 1
  TrustAt = 3
  ColdRate = 60
  FloorRate = 5
  Prior = 55
  CalibrateAt = 2
  DeadZone = 1
  Odds <- MCOdds
  MostScore = 2
  MostSamples = 3
  RecentErrors = 1
  Slips = {0, 2}
  DriftConfidence = 2
  DriftFloor = 15
  Errors = {10, 90}
  MaxBuckets = 3
  MinWindow = 4
  Hoeffding = 45
  Threshold = 90
  Alpha = 1
  MinPage = 3
  MinDrift = 6
  Cooldown = 3
  MaxObserved = 10
  Arms = {"safe", "tight"}
  Market <- MCMarket
  MaxOutcomes = 3
  MaxCrashes = 1
INVARIANTS
  WindowIsTheLatest
PROPERTIES
  GateLeavesColdStart
CHECK_DEADLOCK FALSE
