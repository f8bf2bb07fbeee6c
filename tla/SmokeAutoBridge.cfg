SPECIFICATION SmokeSpec
CONSTANTS
  Devices = {"d1", "d2"}
  Codecs = {"sbc", "aac", "aptx", "aptx-hd", "ldac"}
  DiscoverT = 20
  IdleT = 40
  RetryT = 200
  CallT = 60
  StartT = 200
  PcmT = 40
  BackoffT = 40
  ReleaseT = 4
  MaxFaults = 0
  FaultKinds = {}
  Cases = {"profiles", "hifi-profiles", "no-sco-pcm", "capture-backlog", "peak-meter", "jitter-speaker", "jitter-hfp-only", "speaker", "mono", "sbc", "cvsd", "msbc", "aac", "delayed", "hfp-only", "denied", "lifecycle", "defaults"}
  HangCases = {"hfp-only", "denied", "lifecycle", "peak-meter", "profiles"}
  Lag = 10
INVARIANT SmokePasses
PROPERTY ScriptEnds
CHECK_DEADLOCK FALSE
