SPECIFICATION HandlerLivesSpec
CONSTANTS
  Nil = Nil
  Address = {sudo, alice}
  Code = {c1}
  Sudo = sudo
  Service = {s1}
  CodeState = {1}
  MaxRecords = 1
CONSTRAINTS
  SudoIsNoManager
  OneKind
INVARIANTS
  NoDuplicateManagers
  SuListWithinMap
  HandlerTypeOK
VIEW Footprint
PROPERTIES
  OnlySudoChangesRegistry
  RolesComeFromSudo
  CrashesOnlyAfterClear
  ForeignOwnershipIsPermanent
