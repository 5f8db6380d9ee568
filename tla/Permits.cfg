SPECIFICATION Spec
CONSTANTS
    p1 = p1
    k1 = k1
    k2 = k2
    k3 = k3
    None = None
    Permits <- OnePermit
    Keys <- ThreeKeys
    Volumes <- SafeVolumes
    Instants <- WholeSeconds
    Limit = 3
    ValidFrom = 1
    ValidUntil = 6
    DayLength = 4
    Bits = 8
    MaxTime = 1
    MaxVersion = 5
    MaxExceedances = 1
SYMMETRY Symmetry
INVARIANTS
    TypeOK
    DailyLimitHolds
    RefusalsAreJust
    SuspensionsAnnounced
