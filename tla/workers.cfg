SPECIFICATION FairSpec
CONSTANTS
    None = None
    Hours = 1
    Week = 1
    Workers = {w1}
    Handlers = {h1, h2}
    Starts = {None}
    Ends = {None}
    DaySets = {{}}
    Env = {"request", "leave", "kill", "task", "remove", "ack"}
    MaxDay = 0
    MaxEvents = 2
INVARIANTS
    RequestKept
PROPERTIES
    SleeperGetsNoTask
    RequestAnswered
CHECK_DEADLOCK FALSE
