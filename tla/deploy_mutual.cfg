SPECIFICATION Spec
CONSTANTS
  n1 = n1
  n2 = n2
  n3 = n3
  r1 = r1
  r2 = r2
  Node = {n1, n2}
  Request = {r1, r2}
  Source <- MutualSource
  Target <- MutualTarget
  Bundle <- MutualBundle
  Project <- MutualProject
  LogLimit = 1
  MaxSecond = 1
  MaxLines = 0
  MaxFaults = 0
CHECK_DEADLOCK FALSE
INVARIANTS
  IInv
PROPERTY EntriesOnlyAdvance
