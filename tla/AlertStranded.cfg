SPECIFICATION FairSpec
CONSTANTS
    w1 = w1
    w2 = w2
    r1 = r1
    r2 = r2
    None = None
    Workers <- OneWorker
    Readings <- OneReading
    MaxAttempts = 2
    Lease = 1
    MaxTime = 2
    MaxStops = 1
    MaxStatementErrors = 0
PROPERTIES
    EveryAlertSettles
