SPECIFICATION FairSpec
CONSTANTS
    w1 = w1
    w2 = w2
    r1 = r1
    r2 = r2
    None = None
    Workers <- TwoWorkers
    Readings <- TwoReadings
    MaxAttempts = 2
    Lease = 20
    MaxTime = 0
    MaxStops = 0
    MaxStatementErrors = 0
PROPERTIES
    ImplementsFairPromise
