SPECIFICATION MCSpec
CONSTANTS
    Closes = {1, 2}
    LossStreak = 1
    PauseLen = 1
    Window = 2
    MaxTime = 2
    MaxFinals = 3
    Outcomes <- MCOutcomes
    Limit <- MCLimit
    Symbols = {s1, s2}
    NoSymbol = none
    MaxHalts = 3
    PnlCloses = {1}
    Lanes = {"main", "tactical"}
    MaxCrashes = 1
    Plans = {1, 2}
    PlanSymbols = {s1}
    NoPlan = none
    SymbolOf <- MCSymbolOf
    SideOf <- MCSideOf
    MaxActive = 2
    MaxFaults = 1
    MaxStops = 1
 
PROPERTIES PausePromised HaltsHeal ClosesAnswered SidecarDrains
CHECK_DEADLOCK FALSE
