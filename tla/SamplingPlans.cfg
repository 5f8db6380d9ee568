SPECIFICATION Spec
CONSTANTS
    s1 = s1 s2 = s2 s3 = s3
    north = north south = south
    op = op
    None = None
    Plans <- ThreePlans
    Stations <- TwoStations
    Operators <- OneOperator
    Analysts <- Nobody
    Supervisors <- Nobody
    Tests <- NoTests
    Windows <- MixedWindows
    Instants <- WithinWindows
    DayLength = 4
    Capacity = 2
SYMMETRY PlanSymmetry
INVARIANTS
    CapacityHolds
    SequencesAreDense
CHECK_DEADLOCK FALSE
