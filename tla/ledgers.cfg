SPECIFICATION MCSpec
CONSTANTS
    Sides = {"long"}
    Tokens = {t1, t2}
    NoToken = NoToken
    MaxBar = 2
    MaxEpochs = 2
    MaxCrashes = 1
    Stores = {s1, s2}
    NoStore = NoStore
    MaxAppends = 4
    MaxFailures = 2
    MaxStoreCrashes = 2
    Messages = {m1, m2}
    NoMessage = NoMessage
    Payloads = {p1, p2}
    BadPayload = BadPayload
    MaxLog = 6
    Initial = 8
    Margin = 2
    MaxOpens = 2
    MaxRestarts = 1
    SoftLimit = 1
    HardLimit = 2
    DlqMax = 2
    MaxMessages = 4
SYMMETRY Interchangeable
INVARIANTS GrantedOnce RegistryDurable LedgerHonest ReceiptsHonest BooksBalance 
PROPERTY RenewalJustified
CHECK_DEADLOCK FALSE
