SPECIFICATION Spec
CONSTANTS
    Intents = {i1, i2}
    Lots = 2
    MaxFaults = 1
    MaxCrashes = 1
    MaxConcurrent = 1
    NoIntent = NoIntent
INVARIANTS
    
    SettledExactly
SYMMETRY Interchangeable
CONSTRAINT AloneOrOneFills
ACTION_CONSTRAINT PairFillsWhole
