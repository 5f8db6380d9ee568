SPECIFICATION Spec
CONSTANTS
    w1 = w1
    w2 = w2
    r1 = r1
    r2 = r2
    None = None
    Workers <- TwoWorkers
    Readings <- OneReading
    MaxAttempts = 3
    Lease = 2
    MaxTime = 2
    MaxStops = 1
    MaxStatementErrors = 1
SYMMETRY Symmetry
INVARIANTS
    TypeOK
    HeldRowsAreFenced
    OutcomeIsWhatHappened
    OneIncidentPerReading
    SettledRowsTellTheTruth
    EveryClaimIsAnAttempt
PROPERTIES
    SettledByHolder
    ImplementsPromise
