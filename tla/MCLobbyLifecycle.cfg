SPECIFICATION LifecycleSpec
CONSTANTS
  LobbyCount = 2
  Closes = {k1, k2}
  Target <- MCSameLobby
  Limit = 1
INVARIANTS
  LifecycleTypeOK
  NoCommandOnEndedLobby
  OneCloseSucceeds
  ClosedMeansPurged
  OnlyUnseenLeaseSurvives
PROPERTIES
  EndsOnce
  EndedLobbyIsPurged
  DueLobbyEnds
