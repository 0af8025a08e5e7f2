SPECIFICATION FairSpec
CONSTANTS
    None = None
    Tasks = {t1, t2}
    Workers = {w1, w2, w3}
    Requests = {r1, r2}
    BlacklistThreshold = 2
    TaskFailAfterSoftFailCount = 2
    Env = {"pardon","forget","timeout"}
INVARIANTS
    TypeOK
    RetriesLimited
PROPERTIES
    JustlyFailed
    TaskEnds
CHECK_DEADLOCK FALSE
