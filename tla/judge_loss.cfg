SPECIFICATION MCSpec
CONSTANTS
    s1 = s1
    s2 = s2
    Symbols = {s1, s2}
    MainCap = 1
    ExtraCap = 1
    MaxEntries = 2
    MaxCloses = 1
    MaxQueue = 1
    TacticalTrack = TRUE
    Atrs = {0, 600, 1500, 4000}
    StopLevels = {0, 1600, 2400, 4800, 5600}
    TargetLevels <- PlanTargets
    Walls = {0, 600, 3950}
    Margins = {200, 1000}
    Scores = {30, 50, 75, 90}
    Saturation = TRUE
    Downweight = FALSE
    Strengths = {60, 95}
    Rsis = {15, 33, 73}
    Frames = {15, 50}
    Flows = {0, 35000}
INVARIANT LossBounded
CHECK_DEADLOCK FALSE
