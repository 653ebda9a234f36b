SPECIFICATION FirstSpec
CONSTANTS
  Address = {a1}
  Change <- SetsOnly
  MaxBlocks = 3
  MaxJobs = 3
INVARIANTS
  TypeOK
PROPERTIES
  CatchesUp
  ImplementsMirror
CHECK_DEADLOCK FALSE
