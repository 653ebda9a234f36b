SPECIFICATION ClientSpec
CONSTANTS
  Nil = Nil
  Address = {sudo, alice}
  Code = {c1}
  Sudo = sudo
  Service = {}
  CodeState = {1, 2}
  MaxRecords = 2
CONSTRAINT SudoIsNoManager
VIEW Footprint
PROPERTIES
  BadIndexIsRefused
