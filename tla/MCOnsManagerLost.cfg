SPECIFICATION UnloadedSpec
CONSTANTS
  Nil = Nil
  Address = {sudo, alice}
  Code = {c1, c2}
  Sudo = sudo
PROPERTIES
  AppointingKeepsOthers
