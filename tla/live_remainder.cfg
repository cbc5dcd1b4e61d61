SPECIFICATION Spec
CONSTANTS
    Intents = {i1}
    Lots = 2
    MaxFaults = 1
    MaxCrashes = 0
    MaxConcurrent = 1
    NoIntent = NoIntent
INVARIANT SlotCoversExposure
