SPECIFICATION HandlerLivesSpec
CONSTANTS
  Nil = Nil
  Address = {sudo, alice}
  Code = {c1}
  Sudo = sudo
  Service = {s1}
  CodeState = {1}
  MaxRecords = 1
PROPERTIES
  ServiceProviderIsSigner
