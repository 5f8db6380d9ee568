SPECIFICATION Spec
CONSTANTS
    z1 = z1
    c1 = c1
    w1 = w1
    None = None
    Sources <- FourSources
    Zones <- OneZone
    Codes <- OneCode
    Walks <- OneWalk
    Limits <- OneOrTwo
    MaxVersion = 2
INVARIANTS
    TypeOK
    WalksAreComplete
CHECK_DEADLOCK FALSE
