SPECIFICATION Spec
CONSTANTS
    Chunk = 2
    Gap = 5
    ChannelSize = 1
    SendSize = {1, 6}
    None = None
    MaxGiven = 16
    MaxTime = 12
INVARIANTS
    TypeOK
    EverySampleAccounted
    BurstBounded
    StampedAheadAtMost
CHECK_DEADLOCK FALSE
