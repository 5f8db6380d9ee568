SPECIFICATION FairSpec
CONSTANTS
    p1 = p1
    p2 = p2
    None = None
    Processes <- TwoProcesses
    MaxRequests = 2
INVARIANTS
    TypeOK
    ReadyBeforeServing
    DrainedCleanly
PROPERTIES
    StopsEventually
