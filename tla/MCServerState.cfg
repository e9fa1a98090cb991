SPECIFICATION StateSpec
CONSTANTS
    ClientId = {c1, c2, c3}
    GroupId = {g1, g2, g3}
    StreamId = {x, y}
    DefaultStream = x
    NoStream = NoStream
    Name = {""}
    NoName = ""
    Percent = {100}
    FullVolume = 100
    Latency = {0}
    Meta = {m0}
    NoMeta = m0
SYMMETRY Symmetry
INVARIANTS
    StateTypeOK
    GroupsDivideClients
PROPERTIES
    LosesClientsOnlyWhenMisdirected
    UnlistedKeepListening
