SPECIFICATION Spec
CONSTANTS
    p1 = p1
    k1 = k1
    k2 = k2
    k3 = k3
    None = None
    Permits <- OnePermit
    Keys <- TwoKeys
    Volumes <- OneVolume
    Instants <- HalfSeconds
    Limit = 1
    ValidFrom = 0
    ValidUntil = 8
    DayLength = 4
    Bits = 8
    MaxTime = 0
    MaxVersion = 2
    MaxExceedances = 0
INVARIANTS
    DailyLimitHolds
