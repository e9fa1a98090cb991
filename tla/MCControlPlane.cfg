SPECIFICATION Spec
CONSTANTS
    a = a
    w = w
    h = h
    c1 = c1
    s1 = s1
    Conn = {w, h}
    Kind <- MCKind
    Client = {c1}
    Setting = {s1}
    Value = {0, 1}
    Default = 0
    Method <- MCMethod
    Enabled = TRUE
    Task = Task
    None = None
    CommandMax = 2
    EventMax = 2
    SettingsMax = 1
    MaxRequests = 2
    MaxSteps = 2
    MaxRestarts = 1
INVARIANTS
    TypeOK
    
    LastTold
    
PROPERTIES
    ServiceSpec
CHECK_DEADLOCK FALSE
