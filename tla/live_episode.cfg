SPECIFICATION Spec
CONSTANTS
    Intents = {i1, i2}
    Lots = 1
    MaxFaults = 2
    MaxCrashes = 1
    MaxConcurrent = 2
    NoIntent = NoIntent
CONSTRAINT OneUnderWay
SYMMETRY Interchangeable
INVARIANTS
    TypeOK
    EntryOnce
    ClaimExclusive
    SlotCoversExposure
    FreedMeansSpent
    ProtectedHasGuard
PROPERTIES
    AdmissionSound
