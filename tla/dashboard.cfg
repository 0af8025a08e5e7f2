SPECIFICATION FairSpec
CONSTANTS
    Workers = {w1, w2}
    Requests = {p1, p2}
    Env = {"expire", "unreachable", "database", "login", "disable"}
    MaxVersion = 1
    MaxEvents = 3
INVARIANTS
    TypeOK
    PollingGoesOn
    SelectedExist
PROPERTIES
    ShowsLatest
    ImageFollows
