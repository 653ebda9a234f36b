----------------------------- MODULE MCOnsSync -----------------------------
(* Instances of OnsSync for TLC.                                           *)
EXTENDS OnsSync

(* A deletion changes nothing in the mirror, so it is left out where only  *)
(* the handling of the blocks matters.                                     *)
SetsOnly == {change \in AnyChange : change.type # "DELETE"}

(* Every block sets the address: as much to lose as there can be.          *)
AlwaysSet == {change \in AnyChange : change.type = "SET"}
=============================================================================
