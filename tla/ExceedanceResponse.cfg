SPECIFICATION ResponseSpec
CONSTANTS
    s1 = s1
    north = north
    op = op
    lab = lab
    boss = boss
    ph = ph
    lead = lead
    k1 = k1
    d1 = d1
    b1 = b1
    None = None
    Plans <- OnePlan
    Stations <- OneStation
    Operators <- OneOperator
    Analysts <- OneAnalyst
    Supervisors <- OneSupervisor
    Tests <- TwoTests
    Windows <- OneWindow
    Instants <- OneInstant
    DayLength = 2
    Capacity = 3
    Resources <- OneResource
    Keys <- OneKey
    Permits <- OnePermit
    Lease = 1
    MaxTime = 1
    MaxGeneration = 1
    MaxVersion = 2
    MaxPermitVersion = 4
SYMMETRY TestSymmetry
INVARIANTS
    TypeOK
    CustodyUnbroken
    TestedOnOneReview
    ExceedancesAnswered
PROPERTIES
    PermitsWaitForRemediation
CHECK_DEADLOCK FALSE
