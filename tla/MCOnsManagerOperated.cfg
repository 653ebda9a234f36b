SPECIFICATION OperatedSpec
CONSTANTS
  Nil = Nil
  Address = {sudo, alice, bob}
  Code = {c1, c2}
  Sudo = sudo
INVARIANTS
  CacheAllOrNothing
PROPERTIES
  ImplementsRegistry
  AppointingKeepsOthers
