SPECIFICATION RealtimeSpec
CONSTANTS
  MaxVersion = 1
  MaxFetches = 1
  MaxCuts = 0
PROPERTIES
  ClosedIsShown
CHECK_DEADLOCK FALSE
