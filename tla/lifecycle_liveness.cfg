SPECIFICATION FairSpec
CONSTANTS
    None = None
    Tasks = {t1}
    Workers = {w1}
    Requests = {r1,r2}
    Env = {"silence", "overlap", "cancel"}
    Reports = {"active"}
    FromServer = {"canceled"}
PROPERTIES
    
    CancelAnswered
    SilentWorkerReleased
CHECK_DEADLOCK FALSE
