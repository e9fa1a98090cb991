SPECIFICATION FairSpec
CONSTANTS
    a = a
    w = w
    h = h
    c1 = c1
    s1 = s1
    Conn = {a, h}
    Kind <- MCKind
    Client = {c1}
    Setting = {s1}
    Value = {0}
    Default = 0
    Method <- LiveMethod
    Enabled = FALSE
    Task = Task
    None = None
    CommandMax = 2
    EventMax = 2
    SettingsMax = 2
    MaxRequests = 2
    MaxSteps = 2
    MaxRestarts = 0
PROPERTIES
    RequestsAnswered
CHECK_DEADLOCK FALSE
