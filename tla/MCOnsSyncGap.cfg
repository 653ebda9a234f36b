SPECIFICATION ShutdownSpec
CONSTANTS
  Address = {a1}
  Change <- AnyChange
  MaxBlocks = 3
  MaxJobs = 2
INVARIANTS
  NoMoreDelta
CHECK_DEADLOCK FALSE
