SPECIFICATION Spec
CONSTANTS
  QueueLimit = 6
  Target = 2
  Prime = 2
  QueueSize = 7
  SockCap = 3
  Chunks = {2, 4}
  PosT = 1
  MaxBytes = 10
INVARIANT OutMatchesIn
PROPERTY OnlyFaultsFail MicrophoneDrained
CHECK_DEADLOCK FALSE
