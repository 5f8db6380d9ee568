SPECIFICATION Spec
CONSTANTS
    s1 = s1
    s2 = s2
    o1 = o1
    i1 = i1
    b1 = b1
    k1 = k1
    k2 = k2
    None = None
    Supervisors <- OneSupervisor
    Operators <- NoOperators
    Incidents <- OneIncident
    Resources <- OneResource
    Keys <- OneKey
    Lease = 2
    MaxTime = 0
    MaxGeneration = 1
    MaxVersion = 2
INVARIANTS
    ResolvedContainmentComplete
