SPECIFICATION FairSpec
CONSTANTS
  NoEvent = NoEvent
  d1 = d1
  d2 = d2
  l1 = l1
  l2 = l2
  Deployment = {d1}
  Load = {l1}
  MaxRev = 1
PROPERTY ResumedCatchesUp
