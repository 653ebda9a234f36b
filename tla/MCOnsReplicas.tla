--------------------------- MODULE MCOnsReplicas ---------------------------
(* TLC instance of OnsReplicas. *)
EXTENDS OnsReplicas

CONSTANT alice

\* Sudo stands for the manager who replaces another one.
Transactions ==
  [kind : {"add"}, code : Code, addr : Address]
    \cup [kind : {"remove"}, code : Code, addr : {Nil}]
    \cup [kind : {"addSu", "removeSu"}, code : {Nil}, addr : {alice}]
    \cup [kind : {"op"}, code : {Nil}, addr : {Nil}]
    \cup [kind : {"use"}, code : Code, addr : {alice}]

\* No guard reads txn, and no property reads its old value.
Footprint == <<mem, registry, registryHead, stage, worker, publisher, block, root, pos, parked, verdict,
               astray>>

\* While both processors are astray no property says anything of them: such
\* states are not followed.
SomebodySound == astray # Validator

Interchangeable == Permutations(Validator) \cup Permutations(Code)
=============================================================================
