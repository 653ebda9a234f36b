--------------------------- MODULE MCOnsClient ---------------------------
(* TLC instance of OnsClient. *)
EXTENDS OnsClient

\* Sudo gains nothing from being its own manager.
SudoIsNoManager ==
  /\ Sudo \notin Range(Entries(mem.su)) /\ \A c \in Code : mem.mgrMap[c] # Sudo
  /\ Sudo \notin Range(registry.su) /\ \A c \in Code : ManagerOf(registry)[c] # Sudo

\* Codes and service types do not touch each other: one kind at a time.
OneKind ==
  (\A c \in Code : codes[c] = Nil) \/ (\A s \in Service : services[s] = Nil)

\* No guard reads txn or outcome, and no property reads their old values.
Footprint == <<mem, registry, state, seen>>

Interchangeable == Permutations(Address \ {Sudo})
=============================================================================
