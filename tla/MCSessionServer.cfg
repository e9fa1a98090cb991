SPECIFICATION Spec
CONSTANTS
    ClientId = {c1, c2}
    GroupId = {g1, g2}
    StreamId = {x, y}
    DefaultStream = x
    NoStream = NoStream
    Name = {""}
    NoName = ""
    Percent = {100}
    FullVolume = 100
    Latency = {0}
    Meta = {m0}
    NoMeta = m0
    Session = {s1, s2}
    None = None
    SettingsCap = 1
    SendAudioToMuted = FALSE
    MaxCommands = 2
SYMMETRY Symmetry
INVARIANTS
    TypeOK
    RoutingCurrent
    AudioFollowsAssignment
    
    SwitchedAudioMatchesCodec
CHECK_DEADLOCK FALSE
