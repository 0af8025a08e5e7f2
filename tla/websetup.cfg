SPECIFICATION FairSpec
CONSTANTS
    None = None
    Tabs = {p1}
    Variables = {v1}
    Ids = {m1, m2}
    Env = {"refuse", "lost", "restart", "reset", "back"}
    MaxSetting = 1
    MaxEvents = 3
INVARIANTS
    TypeOK
    
PROPERTIES
    CallsEnd
CHECK_DEADLOCK FALSE
