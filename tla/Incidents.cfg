SPECIFICATION Spec
CONSTANTS
    s1 = s1
    s2 = s2
    o1 = o1
    i1 = i1
    b1 = b1
    k1 = k1
    k2 = k2
    None = None
    Supervisors <- TwoSupervisors
    Operators <- OneOperator
    Incidents <- OneIncident
    Resources <- OneResource
    Keys <- TwoKeys
    Lease = 1
    MaxTime = 3
    MaxGeneration = 2
    MaxVersion = 3
SYMMETRY Symmetry
INVARIANTS
    TypeOK
    ResolvedActionsSucceeded
    ApproverOnRecord
PROPERTIES
    WritesByLatestClaimant
    NoLiveLeaseStolen
    ExpiredLeaseIsBarred
    SuccessIsFinal
