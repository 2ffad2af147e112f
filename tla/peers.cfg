SPECIFICATION FairSpec
CONSTANTS
  p1 = p1
  m1 = m1
  d = d
  Peer = {p1}
  MdnsFetch = {m1}
  DhtFetch = d
  LanTTL = 1
  DhtTTL = 2
  Delay = 1
  MaxAge = 4
INVARIANTS
  TypeOK
  EntriesWereTrue
  TargetsAreRecent
PROPERTIES
  NobodyElsesPeer
  GoneIsForgotten
