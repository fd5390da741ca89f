\* IOC legs on thin books, answered truthfully by the simulator.
SPECIFICATION Spec
CONSTANTS
    Legs = 3
    StartLots = 6
    MakerLegs <- NoMakerLeg
    MaxRequeues = 0
    MaxAttempts = 2
    MaxHops = 3
    OtherAssets = 1
    BuyHops <- SomeBuys
    Grain = 2
    QuoteDust = 0
    Adapter = "simulated"
    ThinBooks = TRUE
    LostAnswers = FALSE
    Stoppable = FALSE
INVARIANTS
  TypeOK
  
  AbortMovesNothing
  ReportedEndIsHeld
  ClosedCyclesReconcile
\* The one cycle of the model ends.
CHECK_DEADLOCK FALSE
