SPECIFICATION Spec
CONSTANTS
    Handles = {h1, h2}
    NoHandle = NoHandle
    WbsAlt = 1
    Transfers = 6
    MaxIncoming = 2
    MaxPending = 3
    HostBurst = 2
    AclCredits = 0
    Chatter = {4}
    MaxWire = 1
SYMMETRY Symmetry
INVARIANTS
    ScoSendConnected
    ReportedConfigured
    AudioAnnounced
    ReceiversArmed
    LinkAgrees
