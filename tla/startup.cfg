SPECIFICATION Spec
CONSTANTS
  Process = {p1, p2}
  p1 = p1
  p2 = p2
  None = None
  Cut = Cut
  Config <- MCConfig
  PeersIn <- MCPeersIn
  MaxStarts = 2
  MaxFaults = 1
INVARIANTS
  TypeOK
  ShellPrevails
  OneIdentityPerFile
  CutExplained
  PeersDialledOnce
PROPERTY KeyFilesStay
CHECK_DEADLOCK FALSE
