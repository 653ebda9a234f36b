SPECIFICATION WorkersSpec
CONSTANTS
  Nil = Nil
  Address = {sudo, alice}
  Code = {c1, c2}
  Sudo = sudo
  Worker = {w1, w2, w3}
INVARIANTS
  QuietCacheIsWhole
PROPERTIES
  UndisturbedAnswersAreRight
  GrantsWereGiven
  WorkersKeepRegistry
SYMMETRY Interchangeable
