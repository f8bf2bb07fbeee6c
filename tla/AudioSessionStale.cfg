SPECIFICATION Spec
CONSTANTS
    Peers = {p1}
    Owners = {o1}
    NoOne = NoOne
    MaxToken = 1
    MaxInbox = 2
    Remote = TRUE
PROPERTY StoppingExcludes
