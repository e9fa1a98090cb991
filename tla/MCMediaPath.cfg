SPECIFICATION Spec
CONSTANTS
    FullScale <- MCFullScale
    Config <- MCConfig
    Header = 3
    Block <- MCBlock
    Second = 1
    AudioMax = 2
    WireMax = 2
    MaxTime = 5
    MaxUnits = 9
    MaxOpenings = 2
INVARIANTS
    TypeOK
    
    StampClose
    
PROPERTIES
    Contiguous
CHECK_DEADLOCK FALSE
