SPECIFICATION OperatedSpec
CONSTANTS
  Nil = Nil
  Address = {sudo, alice}
  Code = {c1}
  Sudo = sudo
INVARIANTS
  SuManagersMayAppoint
