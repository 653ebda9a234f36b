---------------------------- MODULE OnsHandler ----------------------------
(***************************************************************************)
(* The transactions of the ONS family (src/ons/ons_handler/ons_handler.go) *)
(* on GS1 codes, their service records and service types, composed with    *)
(* the manager list of OnsManager, which decides who may send them.        *)
(* Service records are addressed by their index in the code's list.        *)
(***************************************************************************)
EXTENDS OnsManagerOperated

GS1CODE_INACTIVE == 1

CONSTANTS
  Service,     \* addresses of service types
  CodeState,   \* GS1CodeState: 0..2 for GS1CODE_NONE, _INACTIVE, _ACTIVE
  MaxRecords   \* bound on the records of one code

ASSUME MaxRecordsAssumption == MaxRecords \in Nat
ASSUME CodeStateAssumption == GS1CODE_INACTIVE \in CodeState

VARIABLES
  codes, codesHead,        \* GS1CodeData by code: in the block, and committed
  services, servicesHead,  \* ServiceType by address: in the block, and committed
  outcome                  \* how the last transaction ended

state == <<codes, services>>
head == <<codesHead, servicesHead>>
handlerVars == <<vars, state, head, outcome>>

RECORD_INACTIVE == 0
RECORD_ACTIVE == 1
RecordState == {RECORD_INACTIVE, RECORD_ACTIVE}
Record == [provider : Address, state : RecordState]
GS1CodeData == [owner : Address, state : CodeState, records : Seq(Record)]
ServiceType == [provider : Address]

ASSUME NilDataAssumption == Nil \notin GS1CodeData /\ Nil \notin ServiceType

\* Which state accesses of a transaction succeed: reading the manager list,
\* reading the code or service type, writing it.  A client that declares only
\* the code's address as input makes the first one fail.  Nothing is accessed
\* after a failure, so one failure at a time covers them all.
AllSucceed == [registry |-> TRUE, read |-> TRUE, write |-> TRUE]
Rpc == {AllSucceed} \cup {[AllSucceed EXCEPT ![access] = FALSE] : access \in DOMAIN AllSucceed}

-----------------------------------------------------------------------------
(* ons_state.go and ons_service.go *)

Ends(result) == outcome' = result /\ UNCHANGED state

SaveGS1Code(c, data, rpc) ==
  \/ /\ rpc.write
     /\ codes' = [codes EXCEPT ![c] = data]
     /\ outcome' = "ok" /\ UNCHANGED services
  \/ ~rpc.write /\ Ends("internal")

DeleteGS1Code(c, rpc) == SaveGS1Code(c, Nil, rpc)

SaveServiceType(s, data, rpc) ==
  \/ /\ rpc.write
     /\ services' = [services EXCEPT ![s] = data]
     /\ outcome' = "ok" /\ UNCHANGED codes
  \/ ~rpc.write /\ Ends("internal")

DeleteServiceType(s, rpc) == SaveServiceType(s, Nil, rpc)

-----------------------------------------------------------------------------
(* The frame of a handler: permission first, then the code it names *)

Permitted(by, c, required, rpc) == CheckPermission(c, by, rpc.registry) <= required

\* GetPermissionLevel(c, by, required) and, if it holds, what follows it.
IfPermitted(by, c, required, rpc, Then) ==
  \/ ConsultCrash(by, rpc.registry) /\ Ends("nilMapPanic")
  \/ /\ Answered(by, c, rpc.registry)
     /\ \/ ~Permitted(by, c, required, rpc) /\ Ends("invalid")
        \/ Permitted(by, c, required, rpc) /\ Then

\* LoadGS1Code, and what follows it if the code exists.
OnCode(c, rpc, Then) ==
  \/ ~rpc.read /\ Ends("internal")
  \/ rpc.read /\ codes[c] = Nil /\ Ends("invalid")
  \/ rpc.read /\ codes[c] # Nil /\ Then

-----------------------------------------------------------------------------
(* Handlers *)

\* Variant of RegisterGS1Code: the owner is forgotten.
RegisterGS1CodeUnowned(by, c, owner, rpc) ==
  IfPermitted(by, Nil, PERMISSION_SU_MANAGER, rpc,
    rpc.read /\ codes[c] = Nil
    /\ SaveGS1Code(c, [owner |-> Nil, state |-> GS1CODE_INACTIVE, records |-> <<>>], rpc))

\* Variant of RegisterGS1Code: anybody may register.
RegisterGS1CodeUnchecked(by, c, owner, rpc) ==
  IfPermitted(by, Nil, PERMISSION_NONE, rpc,
    rpc.read /\ codes[c] = Nil
    /\ SaveGS1Code(c, [owner |-> owner, state |-> GS1CODE_INACTIVE, records |-> <<>>], rpc))

RegisterGS1Code(by, c, owner, rpc) ==
  IfPermitted(by, Nil, PERMISSION_SU_MANAGER, rpc,
    \/ ~rpc.read /\ Ends("internal")
    \/ rpc.read /\ codes[c] # Nil /\ Ends("invalid")
    \/ /\ rpc.read /\ codes[c] = Nil
       /\ SaveGS1Code(c, [owner |-> owner, state |-> GS1CODE_INACTIVE, records |-> <<>>], rpc))

\* Variant of DeregisterGS1Code: the owner is not compared.
DeregisterGS1CodeUnowned(by, c, rpc) ==
  IfPermitted(by, Nil, PERMISSION_SU_MANAGER, rpc, OnCode(c, rpc, DeleteGS1Code(c, rpc)))

DeregisterGS1Code(by, c, rpc) ==
  IfPermitted(by, Nil, PERMISSION_SU_MANAGER, rpc,
    OnCode(c, rpc,
      \/ codes[c].owner # by /\ Ends("invalid")
      \/ codes[c].owner = by /\ DeleteGS1Code(c, rpc)))

\* Variant of AddRecord: the record has the state the client sent.
AddRecordActive(by, c, rpc) ==
  IfPermitted(by, c, PERMISSION_MANAGER, rpc,
    OnCode(c, rpc,
      /\ Len(codes[c].records) < MaxRecords
      /\ SaveGS1Code(c, [codes[c] EXCEPT !.records = Append(@, [provider |-> by, state |-> RECORD_ACTIVE])], rpc)))

\* Variant of AddRecord: the new record comes first.
AddRecordFirst(by, c, rpc) ==
  IfPermitted(by, c, PERMISSION_MANAGER, rpc,
    OnCode(c, rpc,
      /\ Len(codes[c].records) < MaxRecords
      /\ SaveGS1Code(c, [codes[c] EXCEPT !.records = <<[provider |-> by, state |-> RECORD_INACTIVE]>> \o @], rpc)))

\* The record is inactive whatever the client sent; its provider is the signer.
AddRecord(by, c, rpc) ==
  IfPermitted(by, c, PERMISSION_MANAGER, rpc,
    OnCode(c, rpc,
      /\ Len(codes[c].records) < MaxRecords
      /\ SaveGS1Code(c, [codes[c] EXCEPT !.records = Append(@, [provider |-> by, state |-> RECORD_INACTIVE])], rpc)))

\* Variant of RemoveRecord: a record may be removed by whoever may add one.
RemoveRecordOfAnybody(by, c, idx, rpc) ==
  IfPermitted(by, c, PERMISSION_MANAGER, rpc,
    OnCode(c, rpc,
      /\ idx < Len(codes[c].records)
      /\ SaveGS1Code(c, [codes[c] EXCEPT !.records = RemoveAt(@, idx + 1)], rpc)))

\* idx counts from 0.  The provider is compared before the range is checked,
\* so an index past the end panics.
RemoveRecord(by, c, idx, rpc) ==
  \/ IfPermitted(by, c, PERMISSION_MANAGER, rpc,
       OnCode(c, rpc,
         /\ idx < Len(codes[c].records)
         /\ \/ codes[c].records[idx + 1].provider # by /\ Ends("invalid")
            \/ /\ codes[c].records[idx + 1].provider = by
               /\ SaveGS1Code(c, [codes[c] EXCEPT !.records = RemoveAt(@, idx + 1)], rpc)))
  \/ /\ IndexCrash(by, rpc.registry)
     /\ Permitted(by, c, PERMISSION_MANAGER, rpc)
     /\ rpc.read /\ codes[c] # Nil /\ idx >= Len(codes[c].records)
     /\ Ends("indexPanic")

ChangeGS1CodeState(by, c, st, rpc) ==
  IfPermitted(by, Nil, PERMISSION_SU_MANAGER, rpc,
    OnCode(c, rpc, SaveGS1Code(c, [codes[c] EXCEPT !.state = st], rpc)))

ChangeRecordState(by, c, idx, st, rpc) ==
  IfPermitted(by, Nil, PERMISSION_SU_MANAGER, rpc,
    OnCode(c, rpc,
      \/ idx >= Len(codes[c].records) /\ Ends("invalid")
      \/ /\ idx < Len(codes[c].records)
         /\ SaveGS1Code(c, [codes[c] EXCEPT !.records[idx + 1].state = st], rpc)))

\* The service type is stored as the client sent it, its provider included.
RegisterServiceType(by, s, provider, rpc) ==
  IfPermitted(by, Nil, PERMISSION_SU_MANAGER, rpc,
    \/ ~rpc.read /\ Ends("internal")
    \/ rpc.read /\ services[s] # Nil /\ Ends("invalid")
    \/ rpc.read /\ services[s] = Nil /\ SaveServiceType(s, [provider |-> provider], rpc))

DeregisterServiceType(by, s, rpc) ==
  IfPermitted(by, Nil, PERMISSION_SU_MANAGER, rpc,
    \/ ~rpc.read /\ Ends("internal")
    \/ rpc.read /\ services[s] = Nil /\ Ends("invalid")
    \/ rpc.read /\ services[s] # Nil /\ services[s].provider # by /\ Ends("invalid")
    \/ rpc.read /\ services[s] # Nil /\ services[s].provider = by /\ DeleteServiceType(s, rpc))

-----------------------------------------------------------------------------
(* Composition *)

HandlerInit ==
  /\ Init
  /\ codes = [c \in Code |-> Nil] /\ codesHead = codes
  /\ services = [s \in Service |-> Nil] /\ servicesHead = services
  /\ outcome = "none"

\* Apply, for everything that is not about managers.
CodeTxn(by, rpc) ==
  /\ \/ \E c \in Code :
          \/ \E owner \in Address : RegisterGS1Code(by, c, owner, rpc)
          \/ DeregisterGS1Code(by, c, rpc)
          \/ AddRecord(by, c, rpc)
          \/ \E idx \in 0..MaxRecords : RemoveRecord(by, c, idx, rpc)
          \/ \E st \in CodeState : ChangeGS1CodeState(by, c, st, rpc)
          \/ \E idx \in 0..MaxRecords, st \in RecordState : ChangeRecordState(by, c, idx, st, rpc)
     \/ \E s \in Service :
          \/ \E provider \in Address : RegisterServiceType(by, s, provider, rpc)
          \/ DeregisterServiceType(by, s, rpc)
  /\ UNCHANGED head

\* Apply, for the transactions about managers.
ApplyManagerTxn ==
  /\ \/ \E by \in Address, readable, writable \in BOOLEAN :
          AppointTxn(by, readable, writable) \/ DismissTxn(by, readable, writable)
     \/ \E by \in Address, op \in {0, 1}, readable \in BOOLEAN : OperateManager(by, op, readable)
  /\ outcome' = txn'.result
  /\ UNCHANGED <<state, head>>

RestartProcessor == Restart /\ outcome' = "none" /\ UNCHANGED <<state, head>>

Commit ==
  /\ CommitBlock
  /\ codesHead' = codes /\ servicesHead' = services
  /\ outcome' = "none" /\ UNCHANGED state

Abort ==
  /\ AbortBlock
  /\ codes' = codesHead /\ services' = servicesHead
  /\ outcome' = "none" /\ UNCHANGED head

HandlerNext ==
  \/ \E by \in Address, rpc \in Rpc : CodeTxn(by, rpc)
  \/ ApplyManagerTxn
  \/ RestartProcessor \/ Commit \/ Abort

HandlerSpec == HandlerInit /\ [][HandlerNext]_handlerVars

-----------------------------------------------------------------------------
(* Properties *)

HandlerTypeOK ==
  /\ TypeOK
  /\ codes \in [Code -> GS1CodeData \cup {Nil}]
  /\ codesHead \in [Code -> GS1CodeData \cup {Nil}]
  /\ services \in [Service -> ServiceType \cup {Nil}]
  /\ servicesHead \in [Service -> ServiceType \cup {Nil}]
  /\ outcome \in Result

\* The places, in a code's list, of records of anybody but `by'.
OtherPlaces(data, by) == {i \in DOMAIN data.records : data.records[i].provider # by}

\* Their providers are the same, in the same order.
KeepsOthers(old, new, by) ==
  \E moved \in [OtherPlaces(old, by) -> OtherPlaces(new, by)] :
    /\ Range(moved) = OtherPlaces(new, by)
    /\ \A i, j \in OtherPlaces(old, by) : i < j => moved[i] < moved[j]
    /\ \A i \in OtherPlaces(old, by) : new.records[moved[i]].provider = old.records[i].provider

\* A record is removed only by its provider, or together with its code, which
\* only sudo may deregister and only if sudo owns it: no other transaction, of
\* sudo or of anybody else, loses, takes over or reorders it, though records are
\* addressed by an index that shifts with every removal.
OthersRecordsKept ==
  [][\A c \in Code :
       codes[c] # Nil /\ txn'.by # Nil =>
         IF codes'[c] = Nil THEN txn'.by = Sudo /\ codes[c].owner = Sudo
         ELSE KeepsOthers(codes[c], codes'[c], txn'.by)]_handlerVars

ActiveRecords(data) ==
  IF data = Nil THEN 0 ELSE Cardinality({i \in DOMAIN data.records : data.records[i].state = RECORD_ACTIVE})

\* Only sudo makes a code or a record active: a provider can neither add an
\* active record nor activate one by shifting the list.
OnlySudoActivates ==
  [][\A c \in Code :
       txn'.by \notin {Nil, Sudo} =>
         /\ ActiveRecords(codes'[c]) <= ActiveRecords(codes[c])
         /\ codes'[c] # Nil => codes[c] # Nil /\ codes'[c].state = codes[c].state]_handlerVars

\* Only sudo passes the permission check of the deregistering handlers, and
\* they ask for the owner as well: a code or service type that belongs to
\* anybody else never goes away and never changes hands (except that the block
\* that registered it may be given up).  For a service type the owner is its
\* provider, which is the one the client wrote: see ServiceProviderIsSigner.
ForeignOwnershipIsPermanent ==
  [][txn'.by # Nil =>
       /\ \A c \in Code : codes[c] # Nil /\ codes[c].owner # Sudo =>
            codes'[c] # Nil /\ codes'[c].owner = codes[c].owner
       /\ \A s \in Service : services[s] # Nil /\ services[s].provider # Sudo =>
            services'[s] = services[s]]_handlerVars

\* The provider of a stored service type is its signer: the key that the client
\* put into the transaction "is ignored and the public key with which the
\* transaction was sent is used" (in Korean, protos/ons.proto:32-34).
ServiceProviderIsSigner ==
  [][\A s \in Service :
       txn'.by # Nil /\ services[s] = Nil /\ services'[s] # Nil =>
         services'[s].provider = txn'.by]_handlerVars

\* A record appears only if its provider is sudo, or at that very moment a
\* manager of the code or a su manager according to the block's state: the
\* cached permission is never older than the state it is used with.
RecordsOnlyByAppointed ==
  [][\A c \in Code :
       /\ codes[c] # Nil /\ codes'[c] # Nil
       /\ Len(codes'[c].records) > Len(codes[c].records)
       => \/ txn'.by = Sudo
          \/ txn'.by \in Range(registry.su)
          \/ ManagerOf(registry)[c] = txn'.by]_handlerVars

\* An index past the end is answered with "Invalid index" (ons_handler.go:201).
BadIndexIsRefused == [][outcome' # "indexPanic"]_handlerVars
=============================================================================
