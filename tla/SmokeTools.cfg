SPECIFICATION ToolSpec
CONSTANTS
  Kinds = {"hci", "hci-self-check", "aac", "audio", "bridge"}
  Cycles = 2
  MaxFaults = 1
  MaxStubborn = 1
INVARIANT PassIsReal NoFalseAlarm NothingLeft KdePassIsReal KdeNothingLeaks
PROPERTY ScriptsEnd
CHECK_DEADLOCK FALSE
