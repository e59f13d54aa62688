SPECIFICATION PollingSpec
CONSTANTS
  MaxVersion = 3
  MaxFetches = 2
  MaxCuts = 1
INVARIANTS
  ViewTypeOK
  ViewNotOlderThanSetting
PROPERTIES
  ViewCatchesUp
CHECK_DEADLOCK FALSE
