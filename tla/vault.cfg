SPECIFICATION Spec
CONSTANTS
  VaultUnits = {"journal", "grading", "cycle", "gate", "baskets", "folds"}
  Scribes = {hud, shell}
  Theses = {up, down}
  Verdicts = {"right"}
  MaxCalls = 3
  MaxLines = 3
  MaxSecond = 1
  MaxTampers = 1
  DayPrices = {8, 9, 11, 12}
  EntryPrice = 10
  StopMove = 2
  HorizonDays = 2
  Tolerance = 1
  Ttl = 1
  LastDay = 4
  Runners = {r1, r2}
  Horizons = {1, 2}
  MaxMade = 2
  MaxDay = 2
  Stated = {55, 65, 80, 90}
  CriticalSq <- MCCriticalSq
  MinSamples = 4
  MaxOverconfidence = 1000
  HaircutSpan = 2000
  LeastHaircut = 5
  KellyPercent = 25
  MaxPosition = 500
  MinPlatt = 3
  MinIsotonic = 5
  PlattShifts <- MCShifts
  Moves <- MCMoves
  MaxResolved = 7
  Events <- MCEvents
  FeeModels <- MCFees
  Unmodelled <- MCUnmodelled
  Similar <- MCSimilar
  Budget = 20000
  MinEdge = 50000
  MinContracts = 5
  MaxBooks = 4
  MaxGroups = 3
  TargetCloses = {1, 2}
  CurveCloses <- MCCurve
  Horizon = 2
  Step = 2
  Lookback = 4
  PriceTolerance = 1
  StaleAfter = 2
  Folds = 2
  MinTrain = 1
  MinObservations = 3
  LeastMinority = 1
  Reports <- MCReports
  Correlations <- MCCorrelations
  WinMargin = 5
  LeastEdge = 5
  MostBlend = 600
  LastTradingDay = 7
SYMMETRY VaultSymmetry
INVARIANTS
  IntactMeansAsMade
  VerdictIsWhatBecame
  CallsFormOneLine
  PoolsAreTheFit
  LockedPaysWhatItSays
  FoldsKnowNoFuture
CHECK_DEADLOCK FALSE
