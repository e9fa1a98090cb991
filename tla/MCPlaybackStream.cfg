SPECIFICATION Spec
CONSTANTS
    Format = {f1, f2}
    Frames = 4
    ChunkLen = 6
    Buffers = {8}
    DefaultBuffer = 10
    Elapsed = {3, 4, 5, 12}
    Gap = {0, 6}
    MiniSize = 1
    ShortSize = 2
    LongSize = 3
    SoftShort = 0
    SoftAge = 0
    HardLong = 2
    HardShort = 3
    HardMini = 4
    HardAge = 6
    HardMinAge = 0
    Fastest = 6
    Scale = 12
    Second = 12
    None = None
    MaxChunks = 2
    MaxAhead = 6
    MaxTime = 36
INVARIANTS
    PendingIsAhead
    CorrectsLastDrift
PROPERTIES
    StartsOnTime
    
SYMMETRY FormatSymmetry
CHECK_DEADLOCK FALSE
