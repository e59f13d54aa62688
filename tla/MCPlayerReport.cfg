SPECIFICATION SessionSpec
CONSTANTS
  Browsers = {b1, b2}
  NoBrowser = NoBrowser
  Tab = b1
  LeaseTime = 1
  MaxNow = 1
  MaxGeneration = 1
  TitleCount = 2
  Video <- MCDistinct
  Outcomes = {"ended"}
  MaxPolls = 1
  MaxCalls = 1
  MaxSkips = 1
  MaxLosses = 0
PROPERTIES
  ReportEndsItsTitle
CHECK_DEADLOCK FALSE
