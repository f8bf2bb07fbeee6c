SPECIFICATION FairSpec
CONSTANTS
  Devices = {"d1"}
  Codecs = {"sbc"}
  DiscoverT = 1
  IdleT = 2
  RetryT = 1
  CallT = 1
  StartT = 1
  PcmT = 1
  BackoffT = 1
  ReleaseT = 1
  MaxFaults = 1
  FaultKinds = {"device", "caps", "daemon", "drop", "config", "deny", "silent", "start", "late", "reply", "pipewire", "term"}
INVARIANTS NothingLeaks ProfileHonest
PROPERTIES NoChurn Recovers LossNoticed CallConnects
