SPECIFICATION MCSpec
CONSTANTS
    s1 = s1
    Symbols = {s1}
    LossLimit = 2
    DrawdownAt = 1
    MaxOpens = 2
    MaxFaults = 1
INVARIANT PositionsTracked
PROPERTIES DangerActed NothingSilent
CHECK_DEADLOCK FALSE
