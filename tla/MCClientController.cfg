SPECIFICATION LiveSpec
CONSTANTS
    Codec <- MCCodec
    Supported <- MCSupported
    Settings <- MCSettings
    Latency = 1
    DefaultBuffer = 9
    QuickSyncs = 2
    None = None
    MaxConnections = 2
    MaxFrames = 2
    MaxChunks = 1
    MaxCommands = 2
INVARIANTS
    TypeOK
    AudioOfOnePipeline
    BufferFollowsSettings
PROPERTY
    StopHeard
CHECK_DEADLOCK FALSE
