SPECIFICATION Spec
CONSTANTS
  SearchUnits = {"graph", "search", "planning"}
  CapNum = 1
  CapDen = 2
  Symbols <- MCSymbols
  GraphBooks <- MCGraphBooks
  GraphBase = "U"
  RefNotional = 40
  GraphMaxAge = 1
  FeeNum = 1
  FeeDen = 10
  LotStep = 1
  MinNotional = 2
  DragNum = 1
  DragDen = 2
  LegsForBudget = 3
  Pairs <- MCPairs
  Moods <- MCMoods
  StartAssets <- MCStart
  MinLength = 3
  MaxLength = 4
  MaxTemplates = 5
  CrossVenue = FALSE
  MinEdge = 1
  MaxPerScan = 3
  CycleCooldown = 2
  MaxConcurrent = 1
  Opportunities <- MCOpportunities
  PlanBooks <- MCPlanBooks
  Specs <- MCSpecs
  Amounts = {0, 150, 400, 900}
  Fractions <- MCFractions
  NotionalBuffer = 115
  TakerTicks = 2
  MakerTicks = 1
  MakerMinSpread = 4
  Ladder <- MCLadder
  FeeScale = 1000
  Discount = 50
  PlanModes = {"TTT", "MTT", "TMT", "auto"}
  MaxVolume = 1000
INVARIANTS
  RoundTripsLose
  ProjectionIsALowerBound
  OffersAreReal
  NothingIsMissed
PROPERTIES
  OffersAreSpaced
CHECK_DEADLOCK FALSE
