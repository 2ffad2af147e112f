SPECIFICATION Spec
CONSTANTS
  Deployment = {d1, d2}
  d1 = d1
  d2 = d2
  Normal <- MCNormal
  Case <- MCCase
  Content <- MCContent
  Blank = {"my app"}
  ComposeName = "docker-compose.yml"
  DefaultProject = "deploy"
  Override = ".runtime-override.compose.yaml"
  None = "none"
  Output <- MCOutput
  Length <- MCLength
  ReturnLimit = 4
  MaxFaults = 1
INVARIANTS
  TypeOK
  UnpackedIsArchive
  
  CommandsFindFiles
  EntryListsItsFiles
  OrphansExplained
  OnlyOthersBlock
  AllOrNothingReturned
CHECK_DEADLOCK FALSE
