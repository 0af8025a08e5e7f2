SPECIFICATION FairSpec
CONSTANTS
    None = None
    Hours = 3
    Week = 2
    Workers = {w1}
    Handlers = {h1}
    Starts = {0, 1}
    Ends = {2, 3}
    DaySets = {{}, {0}}
    Env = {"request", "schedule"}
    MaxDay = 1
    MaxEvents = 2
INVARIANTS
    TypeOK
    NextCheckInTime
CHECK_DEADLOCK FALSE
