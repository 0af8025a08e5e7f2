SPECIFICATION FairSpec
CONSTANTS
    Tasks = {t1, t2}
    Writers = {w1}
    MaxCount = 2
    MaxStamp = 2
    Accepts = "prefix"
    Overlap = TRUE
    Faults = {"log", "count", "find", "insert", "crash", "send", "answer", "remove"}
INVARIANTS
    TypeOK
    AppliedIsQueued
    ServerCaughtUp
PROPERTIES
    DeliverySpec
    AllDelivered
    
