SPECIFICATION Spec
CONSTANTS
  youtube = youtube
  fake = fake
  third = third
  unlent = unlent
  mute = mute
  k1 = k1
  k2 = k2
  t1 = t1
  t2 = t2
  odd = odd
  Sources <- MCSources
  Consented <- MCConsented
  Searchable <- MCSearchable
  TwoRequests <- MCTwoRequests
  Keys <- MCKeys
  Tracks <- MCTracks
  Malformed <- MCMalformed
  Pages <- MCPages
  MaxVariants = 3
  MaxQueries = 2
INVARIANTS
  SearchTypeOK
  ShownAnswersLastQuery
  EachSourceAccounted
  FirstSourceDescribes
  OneFailureIsIsolated
PROPERTIES
  SearchEnds
CHECK_DEADLOCK FALSE
