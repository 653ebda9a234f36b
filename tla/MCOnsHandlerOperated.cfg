SPECIFICATION ClientSpec
CONSTANTS
  Nil = Nil
  Address = {sudo, alice, bob}
  Code = {c1}
  Sudo = sudo
  Service = {s1}
  CodeState = {1, 2}
  MaxRecords = 2
CONSTRAINTS
  SudoIsNoManager
  OneKind
VIEW Footprint
INVARIANTS
  IndexMeansWhatWasSeen
  RegisteredIsRemovable
PROPERTIES
  OthersRecordsKept
  OnlySudoActivates
  RecordsOnlyByAppointed
  ServedIffCached
SYMMETRY Interchangeable
