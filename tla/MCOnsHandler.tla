--------------------------- MODULE MCOnsHandler ---------------------------
(***************************************************************************)
(* TLC instance of OnsHandler, with the history that OnsManagerLives keeps *)
(* of every process.                                                       *)
(***************************************************************************)
EXTENDS OnsHandler, OnsManagerLives

HandlerLivesInit == HandlerInit /\ cleared = FALSE

HandlerLivesNext ==
  \/ (\E by \in Address, rpc \in Rpc : CodeTxn(by, rpc)) /\ Remembers
  \/ ApplyManagerTxn /\ Remembers
  \/ RestartProcessor /\ cleared' = FALSE
  \/ (Commit \/ Abort) /\ UNCHANGED cleared

HandlerLivesSpec == HandlerLivesInit /\ [][HandlerLivesNext]_<<handlerVars, cleared>>

\* Sudo gains nothing from being its own manager.
SudoIsNoManager ==
  /\ Sudo \notin Range(Entries(mem.su)) /\ \A c \in Code : mem.mgrMap[c] # Sudo
  /\ Sudo \notin Range(registry.su) /\ \A c \in Code : ManagerOf(registry)[c] # Sudo

\* No guard reads txn or outcome, and no property reads their old values.
Footprint == <<mem, registry, registryHead, state, head, cleared>>

\* Codes and service types do not touch each other: one kind at a time.
OneKind ==
  \/ \A c \in Code : codes[c] = Nil /\ codesHead[c] = Nil
  \/ \A t \in Service : services[t] = Nil /\ servicesHead[t] = Nil
=============================================================================
