SPECIFICATION ViewSpec
CONSTANTS
  MaxVersion = 3
  MaxFetches = 1
  MaxCuts = 0
PROPERTIES
  HiddenStaysHidden
CHECK_DEADLOCK FALSE
