SPECIFICATION FairSpec
CONSTANTS
    Handles = {h1}
    NoHandle = NoHandle
    WbsAlt = 0
    Transfers = 7
    MaxIncoming = 1
    MaxPending = 3
    HostBurst = 1
    AclCredits = 1
    Chatter = {}
    MaxWire = 1
INVARIANT
    RoomForSco
PROPERTIES
    BackpressureDrains
    StopEnds
