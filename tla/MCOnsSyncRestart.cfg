SPECIFICATION Spec
CONSTANTS
  Address = {a1}
  Change <- AlwaysSet
  MaxBlocks = 3
  MaxJobs = 2
INVARIANTS
  ResumedIsMirrored
  SendersAreHeard
CHECK_DEADLOCK FALSE
