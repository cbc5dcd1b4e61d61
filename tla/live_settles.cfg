SPECIFICATION TroubledSpec
CONSTANTS
    Intents = {i1}
    Lots = 1
    MaxFaults = 1
    MaxCrashes = 1
    MaxConcurrent = 1
    NoIntent = NoIntent
PROPERTIES
    
    PnlDelivered
