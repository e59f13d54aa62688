SPECIFICATION QueueSpec
CONSTANTS
  a = a
  b = b
  Participants = {a, b}
  Creator = a
  Commands = {c1, c2, c3}
  CommandTypes = {"queue.add", "queue.remove", "queue.reorder", "playback.skip"}
  Fingerprints <- MCFingerprints
  ExpiresAt = 1
  MaxNow = 1
  MaxVersion = 2
  Items = {i1, i2}
  NoItem = NoItem
  Tracks = {good, alien}
  AuthorizedTracks = {good}
  Orders <- MCOrders
  Capacity = 2
  Stride = 2
  PlaybackTypes = {"playback.skip"}
  PlaybackPayloads = {NoItem}
SYMMETRY MCSymmetry
INVARIANTS
  QueueTypeOK
  AnswersMatchReceipts
PROPERTIES
  ViewChangesMoveVersion
  EffectsSpendACommand
  ClosedLobbyIsFrozen
  BlindQueueIsFifo
