SPECIFICATION Spec
CONSTANTS
    None = None
    Tasks = {t1, t2}
    Workers = {w1, w2}
    Requests = {r1, r2}
    Env = {"cancel", "crash", "requeue"}
    Reports = {"active","failed"}
    FromServer = {"canceled"}
INVARIANTS
    TypeOK
    FromQueueUnheld
PROPERTIES
    LeaseSpec
CHECK_DEADLOCK FALSE
