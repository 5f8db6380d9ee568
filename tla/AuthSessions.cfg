SPECIFICATION Spec
CONSTANTS
    s1 = s1
    s2 = s2
    c1 = c1
    c2 = c2
    t1 = t1
    t2 = t2
    None = None
    Users <- TwoSupervisors
    Supervisors <- TwoSupervisors
    Clients <- TwoClients
    Tokens <- TwoTokens
    Threshold = 2
    LockDuration = 1
    SessionTTL = 1
    CleanupLimit = 1
    MaxTime = 1
    MaxFailures = 4
    MaxChanges = 2
SYMMETRY Symmetry
INVARIANTS
    TypeOK
    LiveSessionsAreCurrent
    GuessesAreBounded
PROPERTIES
    RetiredTokensStayOut
    CleanupSparesLiveSessions
    SomeoneInCharge
CHECK_DEADLOCK FALSE
