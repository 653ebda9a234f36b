----------------------- MODULE MCOnsManagerOperated -----------------------
(* TLC instance of OnsManagerOperated. *)
EXTENDS OnsManagerOperated
=============================================================================
