\* Orders that fill whole and calls that are answered, stopped anywhere: the outcomes are honest.
SPECIFICATION Spec
CONSTANTS
    Legs = 3
    StartLots = 6
    MakerLegs <- FirstLegMaker
    MaxRequeues = 1
    MaxAttempts = 2
    MaxHops = 3
    OtherAssets = 1
    BuyHops <- SomeBuys
    Grain = 2
    QuoteDust = 2
    Adapter = "okx"
    ThinBooks = FALSE
    LostAnswers = FALSE
    Stoppable = TRUE
PROPERTIES
    KeepsPromise
\* The one cycle of the model ends.
CHECK_DEADLOCK FALSE
