SPECIFICATION Spec
CONSTANTS
  Clients = {c1, c2}
  Bus = bus
  Local = service
  Paths = {p1}
  MaxId = 3
  MaxCalls = 2
PROPERTY OnlyTheirOwner GoneForgotten
CHECK_DEADLOCK FALSE
