\* Cycles, checks and the operator's commands.
SPECIFICATION Spec
CONSTANTS
    Capital = 10
    Legs = 3
    MaxConcurrent = 2
    MaxDailyLossPct = 20
    MaxDrawdownPct = 20
    MaxLosses = 2
    MaxOrders = 9
    MaxCycles = 2
    MaxAssetPct = 9
    Price = 1
    CycleLoss = 1
    CycleGain = 1
    ExtraOrders = 0
    TopEquity = 11
INVARIANTS
    HaltStopsAllButOne
    StuckHalts
    SlotsAreReturned
    LossesAreBounded
    StreakIsBounded
\* Engine.stop ends the model.
CHECK_DEADLOCK FALSE
