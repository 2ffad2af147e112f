SPECIFICATION FairSpec
CONSTANTS
  NoEvent = NoEvent
  d1 = d1
  d2 = d2
  l1 = l1
  l2 = l2
  Deployment = {d1, d2}
  Load = {l1, l2}
  MaxRev = 1
INVARIANTS
  TypeOK
  FrozenShowsEnd
PROPERTY PageSettles
