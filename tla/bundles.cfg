SPECIFICATION Spec
CONSTANTS
  Upload = {u1, u2}
  Deployment = {d1}
  u1 = u1
  u2 = u2
  d1 = d1
  long = long
  short = short
  twin = twin
  other = other
  broken = broken
  Nothing = Nothing
  Name <- Names
  SafeName <- Cleaned
  File <- MCFile
  Files <- MCFiles
  NameOf <- MCNameOf
  Size <- MCSize
  Decodable <- MCDecodable
  MaxRemoved = 1
  MaxFaults = 1
INVARIANTS
  TypeOK
  SentIsOneUpload
  UploadStoresBeginning
CHECK_DEADLOCK FALSE
