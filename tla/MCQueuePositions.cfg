SPECIFICATION QueueSpec
CONSTANTS
  a = a
  b = b
  Participants = {a}
  Creator = a
  Commands = {c1, c2, c3, c4}
  CommandTypes = {"queue.add", "queue.remove", "queue.reorder", "playback.skip"}
  Fingerprints <- MCFingerprints
  ExpiresAt = 1
  MaxNow = 0
  MaxVersion = 0
  Items = {i1, i2, i3, i4}
  NoItem = NoItem
  Tracks = {good}
  AuthorizedTracks = {good}
  Orders <- MCOrders
  Capacity = 3
  Stride = 3
  PlaybackTypes = {"playback.skip"}
  PlaybackPayloads = {NoItem}
SYMMETRY MCSymmetry
INVARIANTS
  UniquePositions
  PositionsBounded
  QueueBounded
  AppliedOrderIsTheQueue
PROPERTIES
  WritesNeverCollide
  ItemsFollowLifecycle
