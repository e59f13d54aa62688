SPECIFICATION PlaybackSpec
CONSTANTS
  a = a
  d1 = d1
  d2 = d2
  i1 = i1
  i2 = i2
  Participants = {a}
  Creator = a
  Commands = {c1, c2, c3, c4}
  CommandTypes <- MCCommandTypes
  Fingerprints <- MCFingerprints
  ExpiresAt = 1
  MaxNow = 1
  MaxVersion = 0
  Items = {i1, i2}
  NoItem = NoItem
  Tracks = {good}
  AuthorizedTracks = {good}
  Orders = {}
  Capacity = 2
  Stride = 2
  PlaybackTypes <- MCPlaybackTypes
  PlaybackPayloads <- MCPayloads
  Devices = {d1, d2}
  NoBrowser = NoBrowser
  LeaseTime = 1
  MaxGeneration = 2
  ProviderOf <- MCYoutubeOnly
  NoCommand = NoCommand
  Faults = {"restart"}
VIEW MCView
SYMMETRY MCSymmetry
INVARIANTS
  ControlReachesProvider
