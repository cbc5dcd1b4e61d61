SPECIFICATION Spec
CONSTANTS
    c1 = c1
    c2 = c2
    c3 = c3
    Closes = {c1, c2, c3}
    LossStreak = 2
    PauseLen = 1
    Window = 2
    MaxTime = 1
    MaxFinals = 4
    MaxHalts = 0
    MaxCrashes = 1
    MaxCuts = 0
    Outcomes <- MCOutcomes
    Limit <- MCLimit
CONSTRAINT NotRefused
SYMMETRY Interchangeable
INVARIANT LossesPaidOnce
PROPERTIES ImplementsLossGuard
CHECK_DEADLOCK FALSE
