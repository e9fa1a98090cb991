SPECIFICATION FairSpec
CONSTANTS
    Start <- MCStart
    Access <- MCAccess
    Volume <- MCVolume
    Mac = "m1"
    Server = "server"
    ServiceName = "_snapcast._tcp"
    None = None
    MaxDelay = 2
    EventMax = 2
    MaxCrashes = 1
    MaxVolumes = 2
INVARIANTS
    TypeOK
    JustlyTreated
    

    
CHECK_DEADLOCK FALSE
