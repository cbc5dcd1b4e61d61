SPECIFICATION Spec
CONSTANTS
    c1 = c1
    c2 = c2
    c3 = c3
    Closes = {c1, c2, c3}
    LossStreak = 2
    PauseLen = 1
    Window = 2
    MaxTime = 2
    MaxFinals = 3
    MaxHalts = 1
    MaxCrashes = 1
    MaxCuts = 1
    Outcomes <- MCOutcomes
    Limit <- MCLimit
CONSTRAINT NotRefused
SYMMETRY Interchangeable
INVARIANTS RestoreExact AdmissionWithinLimits
CHECK_DEADLOCK FALSE
