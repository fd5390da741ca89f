\* The budget runs out with a leg filled.
SPECIFICATION Spec
CONSTANTS
    Legs = 3
    StartLots = 3
    MakerLegs <- NoMakerLeg
    MaxRequeues = 1
    MaxAttempts = 2
    MaxHops = 3
    OtherAssets = 1
    BuyHops <- SomeBuys
    Grain = 2
    QuoteDust = 1
    Adapter = "simulated"
    ThinBooks = FALSE
    LostAnswers = FALSE
    Stoppable = FALSE
INVARIANTS
    ExpiryStartsClosing
\* The one cycle of the model ends.
CHECK_DEADLOCK FALSE
