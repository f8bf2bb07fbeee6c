SPECIFICATION FairSpec
CONSTANTS
    Peers = {p1}
    Owners = {o1, o2}
    NoOne = NoOne
    MaxToken = 2
    MaxInbox = 1
    Remote = TRUE
INVARIANTS
    ListenerOwned
PROPERTIES
    HeldUntilTerminal
    OwnerDecides
    LeaseContract
    AbandonedFreed
