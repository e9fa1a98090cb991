SPECIFICATION LiveSpec
CONSTANTS
    ClientId = {c1}
    GroupId = {g1, g2, g3}
    StreamId = {x, y}
    DefaultStream = x
    NoStream = NoStream
    Name = {""}
    NoName = ""
    Percent = {100}
    FullVolume = 100
    Latency = {0}
    Meta = {m0}
    NoMeta = m0
    Session = {s1}
    None = None
    SettingsCap = 1
    SendAudioToMuted = FALSE
    MaxCommands = 3
PROPERTIES
    
    RoutingHeard
    StateSpec
CHECK_DEADLOCK FALSE
