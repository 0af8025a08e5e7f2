SPECIFICATION FairSpec
CONSTANTS
    None = None
    Tasks = {t1, t2}
    Kickers = {k1}
    MaxVersion = 2
    MayClose = TRUE
    Faults = {"get", "header", "upsert", "refetch"}
INVARIANTS
    TypeOK
    NothingSkipped
PROPERTIES
    KickIsFresh
    
    KickReturns
