SPECIFICATION Spec
CONSTANTS
  n1 = n1
  n2 = n2
  n3 = n3
  r1 = r1
  r2 = r2
  Node = {n1, n2}
  Request = {r1, r2}
  Source <- TwiceSource
  Target <- TwiceTarget
  Bundle <- TwiceBundle
  Project <- TwiceProject
  LogLimit = 2
  MaxSecond = 2
  MaxLines = 0
  MaxFaults = 0
CHECK_DEADLOCK FALSE
SYMMETRY TwiceSymmetry
INVARIANTS
  OneEventPerKey
  TerminalIsTrue
