SPECIFICATION MCSpec
CONSTANTS
    Lot = 2
    Cap = 3
    MaxActs = 2
    MaxFaults = 1
    LadderPrices = {940, 1015, 1100, 1290, 1310}
    LadderPlans <- MCPlans
    LadderAtr = 20
    MaxAdds = 1
    MaxSlips = 1
INVARIANTS RecordHonest StopsAgree
PROPERTIES SyncRepairs StopHolds
CHECK_DEADLOCK FALSE
