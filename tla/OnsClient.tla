----------------------------- MODULE OnsClient -----------------------------
(***************************************************************************)
(* The command line client (src/ons_test/sawtooth-ons-test.go) and its     *)
(* query tool, composed with the handlers they send transactions to.       *)
(*                                                                         *)
(* A command signs one transaction and posts it.  It declares one address, *)
(* as input and as output: the list's for commands about managers, the     *)
(* code's or service type's for all others, whose permission check can     *)
(* then not read the list (Declared).  Other clients of the family may     *)
(* declare the list too.  The manager commands and the conditions of use   *)
(* are those of OnsManagerOperated.                                        *)
(***************************************************************************)
EXTENDS OnsHandler

VARIABLE seen   \* code, index and provider of a record somebody queried, or Nil

clientVars == <<handlerVars, seen>>

-----------------------------------------------------------------------------
(* Commands *)

\* MakeBatchList: Inputs and Outputs are the one address of the command.
Declared == [AllSucceed EXCEPT !.registry = FALSE]
Declarations == {Declared, AllSucceed}

\* The signer becomes the owner.
Register(by, c, rpc)   == RegisterGS1Code(by, c, by, rpc)
Deregister(by, c, rpc) == DeregisterGS1Code(by, c, rpc)
Add(by, c, rpc)        == AddRecord(by, c, rpc)
RemoveByIndex(by, c, rpc) == \E idx \in 0..MaxRecords : RemoveRecord(by, c, idx, rpc)
ChangeGState(by, c, rpc) == \E st \in CodeState : ChangeGS1CodeState(by, c, st, rpc)
ChangeRState(by, c, rpc) ==
  \E idx \in 0..MaxRecords, st \in RecordState : ChangeRecordState(by, c, idx, st, rpc)

\* What a file may become.  The address is a hash of the signer and of the
\* fields in the order in which Go ranges over a map: it differs from call to
\* call.
GenerateServiceType(by) == [address : Service, provider : {by}]

RegisterSvc(by, rpc) ==
  \E type \in GenerateServiceType(by) : RegisterServiceType(by, type.address, type.provider, rpc)
DeregisterSvc(by, rpc) == \E s \in Service : DeregisterServiceType(by, s, rpc)

CodeCommand(by, rpc) ==
  /\ \/ \E c \in Code :
          \/ Register(by, c, rpc) \/ Deregister(by, c, rpc)
          \/ Add(by, c, rpc) \/ RemoveByIndex(by, c, rpc)
          \/ ChangeGState(by, c, rpc) \/ ChangeRState(by, c, rpc)
     \/ RegisterSvc(by, rpc) \/ DeregisterSvc(by, rpc)
  /\ UNCHANGED head

ManagerCommand(by) ==
  /\ OperatedManagerTxn(by)
  /\ outcome' = txn'.result
  /\ UNCHANGED <<state, head>>

-----------------------------------------------------------------------------
(* Queries *)

\* GetRawData and QueryGS1CodeData: an absent code prints as one without
\* records.
RecordsShown(c) == IF codes[c] = Nil THEN <<>> ELSE codes[c].records

\* get: the tool reads the committed state.  That is the block's state of some
\* earlier moment, so reading codes at every moment covers it: what was executed
\* since the commit comes after the look.
Get(c) ==
  /\ \E i \in DOMAIN RecordsShown(c) :
       seen' = [code |-> c, index |-> i - 1, provider |-> RecordsShown(c)[i].provider]
  /\ UNCHANGED handlerVars

\* A record was taken off the code's list, or the code deregistered.
ListShrinks(c) == Len(RecordsShown(c)') < Len(RecordsShown(c))

\* A sighting is remembered until a removal may have shifted the list.
Outdated ==
  \/ seen = Nil /\ UNCHANGED seen
  \/ \E c \in Code :
       /\ seen # Nil /\ seen.code = c
       /\ seen' = IF ListShrinks(c) THEN Nil ELSE seen

-----------------------------------------------------------------------------
ClientInit == HandlerInit /\ seen = Nil

ClientNext ==
  \/ /\ \/ \E by \in Address, rpc \in Declarations : CodeCommand(by, rpc)
        \/ \E by \in Address : ManagerCommand(by)
        \/ RestartProcessor
     /\ Outdated
  \/ \E c \in Code : Get(c)

ClientSpec == ClientInit /\ [][ClientNext]_clientVars

-----------------------------------------------------------------------------
(* Properties *)

Appointed(by, c) == by # Sudo /\ (by \in Range(registry.su) \/ ManagerOf(registry)[c] = by)

\* The command `add' declares only the code, so whether an appointed manager is
\* served depends on the process that happens to be asked: it is served exactly
\* if some earlier transaction, which did declare the list, made the process
\* cache it (ons_test logs "first of all, load manager data for permission").
\* Neither a process that lists the manager without having cached the list nor
\* anything in between appointment and command makes a difference.
ServedIffCached ==
  [][\A by \in Address, c \in Code :
       /\ Appointed(by, c) /\ codes[c] # Nil
       /\ Add(by, c, Declared)
       => (outcome' = "ok" <=> mem.cached)]_clientVars

\* An index read off a query names the same provider's record however many
\* transactions of others come first, unless one of them removed a record of the
\* code: registrations, additions, activations and restarts shift nothing.  Sudo
\* activates records by such an index (ons_handler.go:303).
IndexMeansWhatWasSeen ==
  seen # Nil =>
    /\ seen.index < Len(RecordsShown(seen.code))
    /\ RecordsShown(seen.code)[seen.index + 1].provider = seen.provider

\* Whatever this client registered can be deregistered again: the signer is the
\* owner, and only sudo gets through the permission check of the registering
\* handlers and that of the deregistering ones.
RegisteredIsRemovable ==
  /\ \A c \in Code : codes[c] # Nil => codes[c].owner = Sudo
  /\ \A s \in Service : services[s] # Nil => services[s].provider = Sudo
=============================================================================
