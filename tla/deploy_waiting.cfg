SPECIFICATION Spec
CONSTANTS
  n1 = n1
  n2 = n2
  n3 = n3
  r1 = r1
  r2 = r2
  Node = {n1, n2}
  Request = {r1}
  Source <- OneSource
  Target <- OneTarget
  Bundle <- OneBundle
  Project <- OneProject
  LogLimit = 2
  MaxSecond = 1
  MaxLines = 1
  MaxFaults = 1
CHECK_DEADLOCK FALSE
INVARIANT SentMeansWaiting
