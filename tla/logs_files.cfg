SPECIFICATION Spec
CONSTANTS
    Logs = {l1, l2}
    Requesters = {r1}
    QueueSize = 1
    MaxTime = 7
    Faults = {"append", "copy", "upload", "close", "crash"}
SYMMETRY Symmetry
INVARIANTS
    TypeOK
    
    
