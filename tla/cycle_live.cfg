\* Post-only outer legs on OKX, calls that fail or time out while the order is out there, and
\* the engine stopping.
SPECIFICATION FairSpec
CONSTANTS
    Legs = 3
    StartLots = 2
    MakerLegs <- OuterLegsMaker
    MaxRequeues = 1
    MaxAttempts = 2
    MaxHops = 3
    OtherAssets = 1
    BuyHops <- SomeBuys
    Grain = 2
    QuoteDust = 1
    Adapter = "okx"
    ThinBooks = TRUE
    LostAnswers = TRUE
    Stoppable = TRUE
INVARIANTS
  OneOrderPerLeg
PROPERTIES
  OnlyARequeueIsLate
  EveryCycleEnds
\* The one cycle of the model ends.
CHECK_DEADLOCK FALSE
