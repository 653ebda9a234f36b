SPECIFICATION ReplicaSpec
CONSTANTS
  Nil = Nil
  alice = alice
  Address = {sudo, alice}
  Code = {c1, c2}
  Sudo = sudo
  Validator = {v1, v2}
  Transaction <- Transactions
  MaxBlock = 2
INVARIANTS
  ReplicasAgree
  
VIEW Footprint
SYMMETRY Interchangeable

  

CONSTRAINT
  SomebodySound
