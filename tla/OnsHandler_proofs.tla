------------------------- MODULE OnsHandler_proofs -------------------------
(***************************************************************************)
(* OnsHandler behaves, on the manager list, like OnsManager, so that what  *)
(* is proved there holds here; and what the handlers store is well typed   *)
(* and never taken away from an owner other than sudo.                     *)
(***************************************************************************)
EXTENDS OnsHandler, OnsManager_proofs, FiniteSetTheorems

Typed ==
  /\ codes \in [Code -> GS1CodeData \cup {Nil}]
  /\ codesHead \in [Code -> GS1CodeData \cup {Nil}]
  /\ services \in [Service -> ServiceType \cup {Nil}]
  /\ servicesHead \in [Service -> ServiceType \cup {Nil}]
  /\ outcome \in Result

\* What a handler does to the block's state: nothing, or it stores one code,
\* or one service type.
StoresNothing == \E result \in Result : Ends(result)

StoresCode(c, data) ==
  /\ codes' = [codes EXCEPT ![c] = data]
  /\ outcome' = "ok" /\ UNCHANGED services

StoresService(s, data) ==
  /\ services' = [services EXCEPT ![s] = data]
  /\ outcome' = "ok" /\ UNCHANGED codes

\* Storing data leaves what belongs to anybody but sudo with its owner.
RespectsOwner(c, data) ==
  codes[c] # Nil /\ codes[c].owner # Sudo => data # Nil /\ data.owner = codes[c].owner

RespectsProvider(s, data) ==
  services[s] # Nil /\ services[s].provider # Sudo => data = services[s]

Lawful ==
  \/ StoresNothing
  \/ \E c \in Code, data \in GS1CodeData \cup {Nil} : StoresCode(c, data) /\ RespectsOwner(c, data)
  \/ \E s \in Service, data \in ServiceType \cup {Nil} :
       StoresService(s, data) /\ RespectsProvider(s, data)

-----------------------------------------------------------------------------
(* The manager list under the handlers *)

\* Which accesses succeed is a record of Booleans.
LEMMA RpcFacts ==
  ASSUME NEW rpc \in Rpc
  PROVE  rpc.registry \in BOOLEAN /\ rpc.read \in BOOLEAN /\ rpc.write \in BOOLEAN
<1>1. DOMAIN AllSucceed = {"registry", "read", "write"}
  BY DEF AllSucceed
<1>2. AllSucceed.registry \in BOOLEAN /\ AllSucceed.read \in BOOLEAN /\ AllSucceed.write \in BOOLEAN
  BY DEF AllSucceed
<1>3. PICK access \in {"registry", "read", "write"} :
        rpc = AllSucceed \/ rpc = [AllSucceed EXCEPT ![access] = FALSE]
  BY <1>1 DEF Rpc
<1> QED BY <1>1, <1>2, <1>3

\* A handler behind a permission check is, for the manager list, a use.
LEMMA CodeTxnUses ==
  ASSUME NEW by \in Address, NEW rpc \in Rpc, CodeTxn(by, rpc)
  PROVE  \E c \in Code \cup {Nil} : UseTxn(by, c, rpc.registry)
<1>1. ASSUME NEW c \in Code, NEW owner \in Address, RegisterGS1Code(by, c, owner, rpc)
      PROVE  UseTxn(by, Nil, rpc.registry)
  BY <1>1 DEF RegisterGS1Code, IfPermitted, UseTxn
<1>2. ASSUME NEW c \in Code, DeregisterGS1Code(by, c, rpc)
      PROVE  UseTxn(by, Nil, rpc.registry)
  BY <1>2 DEF DeregisterGS1Code, IfPermitted, UseTxn
<1>3. ASSUME NEW c \in Code, AddRecord(by, c, rpc)
      PROVE  UseTxn(by, c, rpc.registry)
  BY <1>3 DEF AddRecord, IfPermitted, UseTxn
<1>4. ASSUME NEW c \in Code, NEW idx, RemoveRecord(by, c, idx, rpc)
      PROVE  UseTxn(by, c, rpc.registry)
  BY <1>4 DEF RemoveRecord, IfPermitted, UseTxn
<1>5. ASSUME NEW c \in Code, NEW st, ChangeGS1CodeState(by, c, st, rpc)
      PROVE  UseTxn(by, Nil, rpc.registry)
  BY <1>5 DEF ChangeGS1CodeState, IfPermitted, UseTxn
<1>6. ASSUME NEW c \in Code, NEW idx, NEW st, ChangeRecordState(by, c, idx, st, rpc)
      PROVE  UseTxn(by, Nil, rpc.registry)
  BY <1>6 DEF ChangeRecordState, IfPermitted, UseTxn
<1>7. ASSUME NEW s \in Service, NEW provider, RegisterServiceType(by, s, provider, rpc)
      PROVE  UseTxn(by, Nil, rpc.registry)
  BY <1>7 DEF RegisterServiceType, IfPermitted, UseTxn
<1>8. ASSUME NEW s \in Service, DeregisterServiceType(by, s, rpc)
      PROVE  UseTxn(by, Nil, rpc.registry)
  BY <1>8 DEF DeregisterServiceType, IfPermitted, UseTxn
<1> QED BY <1>1, <1>2, <1>3, <1>4, <1>5, <1>6, <1>7, <1>8 DEF CodeTxn

\* Every step of the handlers is a step of OnsManager or leaves it alone.
LEMMA HandlerStepsAreManagerSteps == [HandlerNext]_handlerVars => [Next]_vars
<1>1. ASSUME NEW by \in Address, NEW rpc \in Rpc, CodeTxn(by, rpc)
      PROVE  Next
  BY <1>1, CodeTxnUses, RpcFacts DEF Next
<1>2. ApplyManagerTxn \/ RestartProcessor \/ Commit \/ Abort => Next
  BY DEF ApplyManagerTxn, RestartProcessor, Commit, Abort, Next
<1>3. UNCHANGED handlerVars => UNCHANGED vars
  BY DEF handlerVars
<1> QED BY <1>1, <1>2, <1>3 DEF HandlerNext

\* The composition implements OnsManager: whatever the handlers of codes,
\* records and service types do, the manager list and its cache go through a
\* behaviour of OnsManager.
THEOREM HandlersUseManager == HandlerSpec => Spec
<1>1. HandlerInit => Init
  BY DEF HandlerInit
<1> QED BY <1>1, HandlerStepsAreManagerSteps, PTL DEF HandlerSpec, Spec

\* No su manager and no code is listed twice, under the handlers too.
COROLLARY HandlersKeepManagers == HandlerSpec => [](TypeOK /\ NoDuplicateManagers /\ SuListWithinMap)
<1>1. Spec => [](TypeOK /\ NoDuplicateManagers /\ SuListWithinMap)
  BY TypeCorrect, NoDuplicateManagersHolds, SuListWithinMapHolds, PTL
<1> QED BY <1>1, HandlersUseManager

-----------------------------------------------------------------------------
(* What each handler stores *)

\* Only sudo passes a check on the empty code.
LEMMA EmptyCodeMeansSudo ==
  ASSUME NEW by \in Address, NEW rpc \in Rpc,
         Permitted(by, Nil, PERMISSION_SU_MANAGER, rpc)
  PROVE  by = Sudo
  BY DEF Permitted, CheckPermission, PermissionLevel, PERMISSION_NONE, PERMISSION_SU_MANAGER

\* A write either happens or fails.
LEMMA SaveFacts ==
  ASSUME NEW rpc \in Rpc
  PROVE  /\ \A c, data : SaveGS1Code(c, data, rpc) => StoresCode(c, data) \/ StoresNothing
         /\ \A s, data : SaveServiceType(s, data, rpc) => StoresService(s, data) \/ StoresNothing
<1>1. "internal" \in Result
  BY DEF Result
<1> QED BY <1>1 DEF SaveGS1Code, SaveServiceType, StoresCode, StoresService, StoresNothing

\* Turned down, unreadable or killed, a handler stores nothing.
LEMMA EndsFacts ==
  /\ Ends("invalid") => StoresNothing
  /\ Ends("internal") => StoresNothing
  /\ Ends("nilMapPanic") => StoresNothing
  /\ Ends("indexPanic") => StoresNothing
  BY DEF StoresNothing, Result

\* applyRegiserGS1Code stores a new code.
LEMMA RegisterGS1CodeLawful ==
  ASSUME Typed, NEW by \in Address, NEW c \in Code, NEW owner \in Address, NEW rpc \in Rpc,
         RegisterGS1Code(by, c, owner, rpc)
  PROVE  Lawful
<1> DEFINE data == [owner |-> owner, state |-> GS1CODE_INACTIVE, records |-> <<>>]
<1>1. data \in GS1CodeData
  BY CodeStateAssumption, EmptySeq DEF GS1CodeData
<1>2. codes[c] = Nil => RespectsOwner(c, data)
  BY DEF RespectsOwner
<1> QED BY <1>1, <1>2, SaveFacts, EndsFacts DEF RegisterGS1Code, IfPermitted, Lawful

\* applyDeregiserGS1Code deletes what belongs to the signer, and that is sudo.
LEMMA DeregisterGS1CodeLawful ==
  ASSUME Typed, NEW by \in Address, NEW c \in Code, NEW rpc \in Rpc,
         DeregisterGS1Code(by, c, rpc)
  PROVE  Lawful
<1>1. Permitted(by, Nil, PERMISSION_SU_MANAGER, rpc) /\ codes[c].owner = by => RespectsOwner(c, Nil)
  BY EmptyCodeMeansSudo DEF RespectsOwner
<1> QED BY <1>1, SaveFacts, EndsFacts DEF DeregisterGS1Code, DeleteGS1Code, OnCode, IfPermitted, Lawful

\* Storing a code with the owner it had respects the owner.
LEMMA SameOwnerFacts ==
  ASSUME NEW c \in Code, NEW data \in GS1CodeData, data.owner = codes[c].owner
  PROVE  RespectsOwner(c, data)
  BY NilDataAssumption DEF RespectsOwner

\* A registered code of a well-typed state.
LEMMA CodeFacts ==
  ASSUME Typed, NEW c \in Code, codes[c] # Nil
  PROVE  /\ codes[c] \in GS1CodeData
         /\ codes[c].owner \in Address /\ codes[c].state \in CodeState
         /\ codes[c].records \in Seq(Record)
         /\ codes[c] = [owner |-> codes[c].owner, state |-> codes[c].state, records |-> codes[c].records]
<1>1. codes[c] \in GS1CodeData
  BY DEF Typed
<1> QED BY <1>1 DEF GS1CodeData

\* Overwriting one field of a code's data leaves the others.
LEMMA FieldFacts ==
  ASSUME NEW data \in GS1CodeData
  PROVE  /\ \A new \in Seq(Record) : /\ [data EXCEPT !.records = new] \in GS1CodeData
                                     /\ [data EXCEPT !.records = new].owner = data.owner
         /\ \A st \in CodeState : /\ [data EXCEPT !.state = st] \in GS1CodeData
                                  /\ [data EXCEPT !.state = st].owner = data.owner
  BY DEF GS1CodeData

\* Changing the records of a registered code.
LEMMA RecordsFacts ==
  ASSUME Typed, NEW c \in Code, codes[c] # Nil, NEW new \in Seq(Record)
  PROVE  /\ [codes[c] EXCEPT !.records = new] \in GS1CodeData
         /\ RespectsOwner(c, [codes[c] EXCEPT !.records = new])
<1> DEFINE data == [codes[c] EXCEPT !.records = new]
<1>1. codes[c] \in GS1CodeData
  BY CodeFacts
<1>2. data \in GS1CodeData /\ data.owner = codes[c].owner
  BY <1>1, FieldFacts
<1> HIDE DEF data
<1>3. RespectsOwner(c, data)
  BY <1>2, SameOwnerFacts
<1> QED BY <1>2, <1>3 DEF data

\* applyAddRecord appends an inactive record of the signer.
LEMMA AddRecordLawful ==
  ASSUME Typed, NEW by \in Address, NEW c \in Code, NEW rpc \in Rpc, AddRecord(by, c, rpc)
  PROVE  Lawful
<1> DEFINE new == Append(codes[c].records, [provider |-> by, state |-> RECORD_INACTIVE])
           data == [codes[c] EXCEPT !.records = new]
<1>1. ASSUME codes[c] # Nil
      PROVE  data \in GS1CodeData /\ RespectsOwner(c, data)
  <2>1. codes[c].records \in Seq(Record)
    BY <1>1, CodeFacts
  <2>2. [provider |-> by, state |-> RECORD_INACTIVE] \in Record
    BY DEF Record, RecordState
  <2>3. new \in Seq(Record)
    BY <2>1, <2>2, AppendProperties
  <2> HIDE DEF new
  <2> QED BY <1>1, <2>3, RecordsFacts
<1>2. data = [codes[c] EXCEPT !.records = Append(@, [provider |-> by, state |-> RECORD_INACTIVE])]
  OBVIOUS
<1> HIDE DEF data
<1> QED BY <1>1, <1>2, SaveFacts, EndsFacts DEF AddRecord, OnCode, IfPermitted, Lawful

\* applyRemoveRecord removes one record of the code or dies.
LEMMA RemoveRecordLawful ==
  ASSUME Typed, NEW by \in Address, NEW c \in Code, NEW idx \in Nat, NEW rpc \in Rpc,
         RemoveRecord(by, c, idx, rpc)
  PROVE  Lawful
<1> DEFINE new == RemoveAt(codes[c].records, idx + 1)
           data == [codes[c] EXCEPT !.records = new]
<1>1. ASSUME codes[c] # Nil, idx < Len(codes[c].records)
      PROVE  data \in GS1CodeData /\ RespectsOwner(c, data)
  <2> DEFINE list == codes[c].records
  <2>1. list \in Seq(Record) /\ idx < Len(list)
    BY <1>1, CodeFacts
  <2> HIDE DEF list
  <2>2. idx + 1 \in DOMAIN list
    BY <2>1, LenProperties
  <2>3. RemoveAt(list, idx + 1) \in Seq(Record)
    BY <2>1, <2>2, RemoveAtFacts
  <2>4. new \in Seq(Record)
    BY <2>3 DEF list
  <2> HIDE DEF new
  <2> QED BY <1>1, <2>4, RecordsFacts
<1>2. data = [codes[c] EXCEPT !.records = RemoveAt(@, idx + 1)]
  OBVIOUS
<1> HIDE DEF data
<1> QED BY <1>1, <1>2, SaveFacts, EndsFacts DEF RemoveRecord, OnCode, IfPermitted, Lawful

\* applyChangeGS1CodeState keeps owner and records.
LEMMA ChangeGS1CodeStateLawful ==
  ASSUME Typed, NEW by \in Address, NEW c \in Code, NEW st \in CodeState, NEW rpc \in Rpc,
         ChangeGS1CodeState(by, c, st, rpc)
  PROVE  Lawful
<1> DEFINE data == [codes[c] EXCEPT !.state = st]
<1>1. ASSUME codes[c] # Nil
      PROVE  data \in GS1CodeData /\ RespectsOwner(c, data)
  <2>1. codes[c] \in GS1CodeData
    BY <1>1, CodeFacts
  <2>2. data \in GS1CodeData /\ data.owner = codes[c].owner
    BY <2>1, FieldFacts
  <2> HIDE DEF data
  <2> QED BY <2>2, SameOwnerFacts
<1> HIDE DEF data
<1>2. ChangeGS1CodeState(by, c, st, rpc) =>
        IfPermitted(by, Nil, PERMISSION_SU_MANAGER, rpc, OnCode(c, rpc, SaveGS1Code(c, data, rpc)))
  BY DEF ChangeGS1CodeState, data
<1> QED BY <1>1, <1>2, SaveFacts, EndsFacts DEF OnCode, IfPermitted, Lawful

\* applyChangeRecordState changes the state of one record.
LEMMA ChangeRecordStateLawful ==
  ASSUME Typed, NEW by \in Address, NEW c \in Code, NEW idx \in Nat, NEW st \in RecordState,
         NEW rpc \in Rpc, ChangeRecordState(by, c, idx, st, rpc)
  PROVE  Lawful
<1> DEFINE list == codes[c].records
           entry == [list[idx + 1] EXCEPT !.state = st]
           new == [list EXCEPT ![idx + 1] = entry]
           data == [codes[c] EXCEPT !.records = new]
<1>1. ASSUME codes[c] # Nil, idx < Len(codes[c].records)
      PROVE  data \in GS1CodeData /\ RespectsOwner(c, data)
  <2> HIDE DEF list
  <2>0. list \in Seq(Record) /\ idx < Len(list)
    BY <1>1, CodeFacts DEF list
  <2>1. list \in Seq(Record) /\ idx + 1 \in 1..Len(list)
    BY <2>0, LenProperties
  <2>2. list[idx + 1] \in Record
    BY <2>1, ElementOfSeq
  <2>3. entry \in Record
    BY <2>2 DEF Record
  <2> HIDE DEF entry
  <2>4. new \in Seq(Record)
    BY <2>1, <2>3, ExceptSeq
  <2> HIDE DEF new
  <2> QED BY <1>1, <2>4, RecordsFacts
<1>2. data = [codes[c] EXCEPT !.records[idx + 1].state = st]
  OBVIOUS
<1> HIDE DEF data
<1> QED BY <1>1, <1>2, SaveFacts, EndsFacts DEF ChangeRecordState, OnCode, IfPermitted, Lawful

\* applyRegiserServiceType stores a new service type.
LEMMA RegisterServiceTypeLawful ==
  ASSUME Typed, NEW by \in Address, NEW s \in Service, NEW provider \in Address, NEW rpc \in Rpc,
         RegisterServiceType(by, s, provider, rpc)
  PROVE  Lawful
<1>1. [provider |-> provider] \in ServiceType
  BY DEF ServiceType
<1>2. services[s] = Nil => RespectsProvider(s, [provider |-> provider])
  BY DEF RespectsProvider
<1> QED BY <1>1, <1>2, SaveFacts, EndsFacts DEF RegisterServiceType, IfPermitted, Lawful

\* applyDeregiserServiceType deletes what belongs to the signer, sudo again.
LEMMA DeregisterServiceTypeLawful ==
  ASSUME Typed, NEW by \in Address, NEW s \in Service, NEW rpc \in Rpc,
         DeregisterServiceType(by, s, rpc)
  PROVE  Lawful
<1>1. Permitted(by, Nil, PERMISSION_SU_MANAGER, rpc) /\ services[s].provider = by
        => RespectsProvider(s, Nil)
  BY EmptyCodeMeansSudo DEF RespectsProvider
<1> QED BY <1>1, SaveFacts, EndsFacts DEF DeregisterServiceType, DeleteServiceType, IfPermitted, Lawful

\* All handlers together.
LEMMA CodeTxnLawful ==
  ASSUME Typed, NEW by \in Address, NEW rpc \in Rpc, CodeTxn(by, rpc)
  PROVE  Lawful
<1>1. \A idx \in 0..MaxRecords : idx \in Nat
  BY MaxRecordsAssumption
<1> QED BY <1>1, RegisterGS1CodeLawful, DeregisterGS1CodeLawful, AddRecordLawful, RemoveRecordLawful,
           ChangeGS1CodeStateLawful, ChangeRecordStateLawful, RegisterServiceTypeLawful,
           DeregisterServiceTypeLawful DEF CodeTxn

-----------------------------------------------------------------------------
(* The invariants *)

\* A lawful handler leaves well-typed state.
LEMMA LawfulKeeps ==
  ASSUME Typed, Lawful, UNCHANGED head
  PROVE  Typed'
<1>1. ASSUME StoresNothing
      PROVE  Typed'
  BY <1>1 DEF StoresNothing, Ends, state, head, Typed
<1>2. ASSUME NEW c \in Code, NEW data \in GS1CodeData \cup {Nil}, StoresCode(c, data)
      PROVE  Typed'
  BY <1>2 DEF StoresCode, head, Typed, Result
<1>3. ASSUME NEW s \in Service, NEW data \in ServiceType \cup {Nil}, StoresService(s, data)
      PROVE  Typed'
  BY <1>3 DEF StoresService, head, Typed, Result
<1> QED BY <1>1, <1>2, <1>3 DEF Lawful

\* The inductive invariant of the composition: the one of the manager list and
\* the types of what the handlers store, both inductive on their own.
HandlerIInv == IInv /\ Typed

\* It holds in the beginning.
LEMMA HandlerInitially == HandlerInit => HandlerIInv
<1> SUFFICES ASSUME HandlerInit PROVE HandlerIInv
  OBVIOUS
<1>1. IInv
  BY Initially DEF HandlerInit
<1>2. Typed
  BY DEF HandlerInit, Typed, Result
<1> QED BY <1>1, <1>2 DEF HandlerIInv

\* Every step keeps it.
LEMMA HandlerNextKeeps == HandlerIInv /\ [HandlerNext]_handlerVars => HandlerIInv'
<1> SUFFICES ASSUME HandlerIInv, [HandlerNext]_handlerVars PROVE HandlerIInv'
  OBVIOUS
<1>1. IInv'
  BY HandlerStepsAreManagerSteps, NextKeeps DEF HandlerIInv
<1>2. ASSUME NEW by \in Address, NEW rpc \in Rpc, CodeTxn(by, rpc)
      PROVE  Typed'
  <2>1. UNCHANGED head
    BY <1>2 DEF CodeTxn
  <2> QED BY <1>2, <2>1, CodeTxnLawful, LawfulKeeps DEF HandlerIInv
<1>3. ASSUME ApplyManagerTxn
      PROVE  Typed'
  <2>1. txn'.result \in Result
    BY <1>1 DEF IInv, Txn
  <2> QED BY <1>3, <2>1 DEF ApplyManagerTxn, HandlerIInv, Typed, state, head
<1>4. ASSUME RestartProcessor \/ Commit \/ Abort \/ UNCHANGED handlerVars
      PROVE  Typed'
  BY <1>4 DEF RestartProcessor, Commit, Abort, handlerVars, HandlerIInv, Typed, state, head, Result
<1>5. Typed'
  BY <1>2, <1>3, <1>4 DEF HandlerNext
<1> QED BY <1>1, <1>5 DEF HandlerIInv

\* It holds always.
THEOREM HandlerInvariance == HandlerSpec => []HandlerIInv
  BY HandlerInitially, HandlerNextKeeps, PTL DEF HandlerSpec

\* Codes, records, service types and the manager list keep their types: every
\* owner and provider is a real address, whatever fails.
THEOREM HandlerTypeCorrect == HandlerSpec => []HandlerTypeOK
<1>1. IInv => TypeOK
  BY DEF IInv, TypeOK, GoodMemory, GoodRegistry
<1>2. HandlerIInv => HandlerTypeOK
  BY <1>1 DEF HandlerIInv, Typed, HandlerTypeOK
<1> QED BY <1>2, HandlerInvariance, PTL

\* What is registered for anybody but sudo is there for good: the two
\* deregistering handlers ask for sudo and for the owner.
THEOREM ForeignOwnershipHolds == HandlerSpec => ForeignOwnershipIsPermanent
<1> DEFINE Permanent ==
      txn'.by # Nil =>
        /\ \A c \in Code : codes[c] # Nil /\ codes[c].owner # Sudo =>
             codes'[c] # Nil /\ codes'[c].owner = codes[c].owner
        /\ \A s \in Service : services[s] # Nil /\ services[s].provider # Sudo =>
             services'[s] = services[s]
<1>1. UNCHANGED state => Permanent
  BY DEF state
<1>2. ASSUME Typed, Lawful
      PROVE  Permanent
  <2>1. ASSUME NEW c \in Code, NEW data \in GS1CodeData \cup {Nil},
               StoresCode(c, data), RespectsOwner(c, data)
        PROVE  Permanent
    BY <1>2, <2>1 DEF Typed, StoresCode, RespectsOwner
  <2>2. ASSUME NEW s \in Service, NEW data \in ServiceType \cup {Nil},
               StoresService(s, data), RespectsProvider(s, data)
        PROVE  Permanent
    BY <1>2, <2>2 DEF Typed, StoresService, RespectsProvider
  <2>3. StoresNothing => Permanent
    BY <1>1 DEF StoresNothing, Ends
  <2> HIDE DEF Permanent
  <2> QED BY <1>2, <2>1, <2>2, <2>3 DEF Lawful
<1>3. ASSUME Typed, NEW by \in Address, NEW rpc \in Rpc, CodeTxn(by, rpc)
      PROVE  Permanent
  BY <1>2, <1>3, CodeTxnLawful
<1>4. ApplyManagerTxn \/ RestartProcessor \/ Commit => Permanent
  BY <1>1 DEF ApplyManagerTxn, RestartProcessor, Commit
<1>5. Abort => Permanent
  BY DEF Abort, AbortBlock, NoTxn
<1>6. HandlerIInv /\ HandlerNext => Permanent
  BY <1>3, <1>4, <1>5 DEF HandlerIInv, HandlerNext
<1>7. HandlerIInv /\ [HandlerNext]_handlerVars => [Permanent]_handlerVars
  BY <1>6
<1> QED BY <1>7, HandlerInvariance, PTL DEF HandlerSpec, ForeignOwnershipIsPermanent

\* What OnsManager promises of steps, under the handlers too.
COROLLARY HandlersKeepSudosWord == HandlerSpec => RolesComeFromSudo /\ OnlySudoChangesRegistry
  BY HandlersUseManager, RolesComeFromSudoHolds, OnlySudoChangesRegistryHolds

-----------------------------------------------------------------------------
(* What each handler does to the record lists *)

\* A new list of records, and the four things a handler does to one; a new code
\* without records.
StoresRecords(c, new) == codes[c] # Nil /\ StoresCode(c, [codes[c] EXCEPT !.records = new])

Adds(by, c) ==
  StoresRecords(c, Append(codes[c].records, [provider |-> by, state |-> RECORD_INACTIVE]))

Removes(by, c, idx) ==
  /\ idx < Len(codes[c].records) /\ codes[c].records[idx + 1].provider = by
  /\ StoresRecords(c, RemoveAt(codes[c].records, idx + 1))

Registers(c, owner) ==
  /\ codes[c] = Nil
  /\ StoresCode(c, [owner |-> owner, state |-> GS1CODE_INACTIVE, records |-> <<>>])

\* The code of sudo that sudo takes back, with its records.
Deregisters(by, c) ==
  /\ by = Sudo /\ codes[c] # Nil /\ codes[c].owner = Sudo
  /\ StoresCode(c, Nil)

Restates(c, st) == codes[c] # Nil /\ StoresCode(c, [codes[c] EXCEPT !.state = st])

RestatesRecord(c, idx, st) ==
  /\ idx < Len(codes[c].records)
  /\ StoresRecords(c, [codes[c].records EXCEPT ![idx + 1] = [codes[c].records[idx + 1] EXCEPT !.state = st]])

\* applyRegiserGS1Code.
LEMMA RegisterEffect ==
  ASSUME NEW by \in Address, NEW c \in Code, NEW owner, NEW rpc \in Rpc,
         RegisterGS1Code(by, c, owner, rpc)
  PROVE  StoresNothing \/ (by = Sudo /\ Registers(c, owner))
  BY EmptyCodeMeansSudo, SaveFacts, EndsFacts DEF RegisterGS1Code, IfPermitted, Registers

\* applyDeregiserGS1Code.
LEMMA DeregisterEffect ==
  ASSUME NEW by \in Address, NEW c \in Code, NEW rpc \in Rpc, DeregisterGS1Code(by, c, rpc)
  PROVE  StoresNothing \/ Deregisters(by, c)
  BY EmptyCodeMeansSudo, SaveFacts, EndsFacts
     DEF DeregisterGS1Code, DeleteGS1Code, OnCode, IfPermitted, Deregisters

\* applyAddRecord: the signer may add to this code.
LEMMA AddEffect ==
  ASSUME NEW by \in Address, NEW c \in Code, NEW rpc \in Rpc, AddRecord(by, c, rpc)
  PROVE  \/ StoresNothing
         \/ /\ Answered(by, c, rpc.registry)
            /\ Permitted(by, c, PERMISSION_MANAGER, rpc)
            /\ Adds(by, c)
<1> DEFINE data == [codes[c] EXCEPT !.records = Append(codes[c].records, [provider |-> by, state |-> RECORD_INACTIVE])]
<1>1. data = [codes[c] EXCEPT !.records = Append(@, [provider |-> by, state |-> RECORD_INACTIVE])]
  OBVIOUS
<1>2. Adds(by, c) <=> codes[c] # Nil /\ StoresCode(c, data)
  BY DEF Adds, StoresRecords
<1> HIDE DEF data
<1> QED BY <1>1, <1>2, SaveFacts, EndsFacts DEF AddRecord, OnCode, IfPermitted

\* applyRemoveRecord: the record is the signer's own.
LEMMA RemoveEffect ==
  ASSUME NEW by \in Address, NEW c \in Code, NEW idx \in Nat, NEW rpc \in Rpc,
         RemoveRecord(by, c, idx, rpc)
  PROVE  StoresNothing \/ Removes(by, c, idx)
<1> DEFINE data == [codes[c] EXCEPT !.records = RemoveAt(codes[c].records, idx + 1)]
<1>1. data = [codes[c] EXCEPT !.records = RemoveAt(@, idx + 1)]
  OBVIOUS
<1>2. Removes(by, c, idx) <=> /\ codes[c] # Nil /\ idx < Len(codes[c].records)
                              /\ codes[c].records[idx + 1].provider = by /\ StoresCode(c, data)
  BY DEF Removes, StoresRecords
<1> HIDE DEF data
<1> QED BY <1>1, <1>2, SaveFacts, EndsFacts DEF RemoveRecord, OnCode, IfPermitted

\* applyChangeGS1CodeState.
LEMMA ChangeStateEffect ==
  ASSUME NEW by \in Address, NEW c \in Code, NEW st, NEW rpc \in Rpc,
         ChangeGS1CodeState(by, c, st, rpc)
  PROVE  StoresNothing \/ (by = Sudo /\ Restates(c, st))
<1> DEFINE data == [codes[c] EXCEPT !.state = st]
<1>1. Restates(c, st) <=> codes[c] # Nil /\ StoresCode(c, data)
  BY DEF Restates
<1>2. IfPermitted(by, Nil, PERMISSION_SU_MANAGER, rpc, OnCode(c, rpc, SaveGS1Code(c, data, rpc)))
  BY DEF ChangeGS1CodeState, data
<1> HIDE DEF data
<1> QED BY <1>1, <1>2, EmptyCodeMeansSudo, SaveFacts, EndsFacts DEF OnCode, IfPermitted

\* applyChangeRecordState.
LEMMA ChangeRecordEffect ==
  ASSUME NEW by \in Address, NEW c \in Code, NEW idx \in Nat, NEW st, NEW rpc \in Rpc,
         ChangeRecordState(by, c, idx, st, rpc)
  PROVE  StoresNothing \/ (by = Sudo /\ RestatesRecord(c, idx, st))
<1> DEFINE data == [codes[c] EXCEPT !.records = [codes[c].records EXCEPT ![idx + 1] =
                                                  [codes[c].records[idx + 1] EXCEPT !.state = st]]]
<1>1. data = [codes[c] EXCEPT !.records[idx + 1].state = st]
  OBVIOUS
<1>2. RestatesRecord(c, idx, st) <=>
        codes[c] # Nil /\ idx < Len(codes[c].records) /\ StoresCode(c, data)
  BY DEF RestatesRecord, StoresRecords
<1> HIDE DEF data
<1> QED BY <1>1, <1>2, EmptyCodeMeansSudo, SaveFacts, EndsFacts
        DEF ChangeRecordState, OnCode, IfPermitted

\* applyRegiserServiceType and applyDeregiserServiceType.
LEMMA ServiceEffect ==
  ASSUME NEW by \in Address, NEW s \in Service, NEW provider, NEW rpc \in Rpc,
         RegisterServiceType(by, s, provider, rpc) \/ DeregisterServiceType(by, s, rpc)
  PROVE  \/ StoresNothing
         \/ by = Sudo /\ StoresService(s, [provider |-> provider])
         \/ by = Sudo /\ StoresService(s, Nil)
<1>1. CASE RegisterServiceType(by, s, provider, rpc)
  BY <1>1, EmptyCodeMeansSudo, SaveFacts, EndsFacts DEF RegisterServiceType, IfPermitted
<1>2. CASE DeregisterServiceType(by, s, rpc)
  BY <1>2, EmptyCodeMeansSudo, SaveFacts, EndsFacts
     DEF DeregisterServiceType, DeleteServiceType, IfPermitted
<1> QED BY <1>1, <1>2

\* Whoever is not sudo adds a record or removes one of his own, or nothing.
LEMMA OthersEffects ==
  ASSUME NEW by \in Address, by # Sudo, NEW rpc \in Rpc, CodeTxn(by, rpc)
  PROVE  \/ UNCHANGED codes
         \/ \E c \in Code : Adds(by, c)
         \/ \E c \in Code, idx \in Nat : Removes(by, c, idx)
<1>1. \A idx \in 0..MaxRecords : idx \in Nat
  BY MaxRecordsAssumption
<1>2. StoresNothing => UNCHANGED codes
  BY DEF StoresNothing, Ends, state
<1> QED BY <1>1, <1>2, RegisterEffect, DeregisterEffect, AddEffect, RemoveEffect,
           ChangeStateEffect, ChangeRecordEffect, ServiceEffect DEF CodeTxn, Deregisters

-----------------------------------------------------------------------------
(* Counting active records *)

\* Where the active records are.
ActivePlaces(list) == {i \in DOMAIN list : list[i].state = RECORD_ACTIVE}

\* The places of a list are finitely many.
LEMMA ActivePlacesFinite ==
  ASSUME NEW list \in Seq(Record)
  PROVE  IsFiniteSet(ActivePlaces(list))
<1>1. DOMAIN list = 1..Len(list) /\ Len(list) \in Nat
  BY LenProperties
<1>2. IsFiniteSet(1..Len(list))
  BY <1>1, FS_Interval
<1>3. ActivePlaces(list) \in SUBSET (1..Len(list))
  BY <1>1 DEF ActivePlaces
<1> QED BY <1>2, <1>3, FS_Subset

\* An inactive record at the end leaves the active ones where they are.
LEMMA AppendedInactive ==
  ASSUME NEW list \in Seq(Record), NEW e \in Record, e.state # RECORD_ACTIVE
  PROVE  ActivePlaces(Append(list, e)) = ActivePlaces(list)
<1>1. /\ DOMAIN Append(list, e) = 1..(Len(list) + 1)
      /\ DOMAIN list = 1..Len(list) /\ Len(list) \in Nat
      /\ \A i \in 1..Len(list) : Append(list, e)[i] = list[i]
      /\ Append(list, e)[Len(list) + 1] = e
  BY AppendProperties, LenProperties
<1> QED BY <1>1 DEF ActivePlaces

\* Closing a gap makes no record active.
LEMMA RemovedActive ==
  ASSUME NEW list \in Seq(Record), NEW k \in DOMAIN list
  PROVE  Cardinality(ActivePlaces(RemoveAt(list, k))) <= Cardinality(ActivePlaces(list))
<1> DEFINE new == RemoveAt(list, k)
           f == [j \in ActivePlaces(new) |-> IF j < k THEN j ELSE j + 1]
<1>1. DOMAIN list = 1..Len(list) /\ Len(list) \in Nat
  BY LenProperties
<1>2. /\ DOMAIN new = 1..(Len(list) - 1)
      /\ \A j \in 1..(Len(list) - 1) : new[j] = IF j < k THEN list[j] ELSE list[j + 1]
  BY RemoveAtFacts
<1> HIDE DEF new
<1>3. \A j \in ActivePlaces(new) : (IF j < k THEN j ELSE j + 1) \in ActivePlaces(list)
  BY <1>1, <1>2 DEF ActivePlaces
<1>4. \A i, j \in ActivePlaces(new) :
        (IF i < k THEN i ELSE i + 1) = (IF j < k THEN j ELSE j + 1) => i = j
  BY <1>1, <1>2 DEF ActivePlaces
<1>5. f \in Injection(ActivePlaces(new), ActivePlaces(list))
  BY <1>3, <1>4 DEF Injection, IsInjective
<1> HIDE DEF f
<1>6. Cardinality(ActivePlaces(new)) <= Cardinality(ActivePlaces(list))
  BY <1>5, ActivePlacesFinite, FS_Injection
<1> QED BY <1>6 DEF new

\* The count of a code's active records, of which there may be none.
LEMMA ActiveRecordsFacts ==
  /\ \A data \in GS1CodeData : ActiveRecords(data) = Cardinality(ActivePlaces(data.records))
  /\ \A data \in GS1CodeData \cup {Nil} : ActiveRecords(data) \in Nat
<1>1. \A data \in GS1CodeData : ActiveRecords(data) = Cardinality(ActivePlaces(data.records))
  BY NilDataAssumption DEF ActiveRecords, ActivePlaces
<1>2. ASSUME NEW data \in GS1CodeData PROVE ActiveRecords(data) \in Nat
  <2>1. data.records \in Seq(Record)
    BY DEF GS1CodeData
  <2> QED BY <1>1, <2>1, ActivePlacesFinite, FS_CardinalityType
<1>3. ActiveRecords(Nil) \in Nat
  BY DEF ActiveRecords
<1> QED BY <1>1, <1>2, <1>3

\* Only sudo makes a code or a record active: a provider adds inactive records
\* only, and removing one of his own never activates the one that takes its place.
THEOREM OnlySudoActivatesHolds == HandlerSpec => OnlySudoActivates
<1> DEFINE Kept == \A c \in Code :
             txn'.by \notin {Nil, Sudo} =>
               /\ ActiveRecords(codes'[c]) <= ActiveRecords(codes[c])
               /\ codes'[c] # Nil => codes[c] # Nil /\ codes'[c].state = codes[c].state
<1>1. ASSUME Typed, NEW c \in Code, NEW new \in Seq(Record),
             Cardinality(ActivePlaces(new)) <= Cardinality(ActivePlaces(codes[c].records)),
             StoresRecords(c, new)
      PROVE  Kept
  <2> DEFINE data == [codes[c] EXCEPT !.records = new]
  <2>1. codes[c] # Nil /\ codes[c] \in GS1CodeData
    BY <1>1, CodeFacts DEF StoresRecords
  <2>2. data \in GS1CodeData /\ data.records = new /\ data.state = codes[c].state
    BY <1>1, <2>1 DEF GS1CodeData
  <2>3. ActiveRecords(data) <= ActiveRecords(codes[c])
    <3> HIDE DEF data
    <3> QED BY <1>1, <2>1, <2>2, ActiveRecordsFacts
  <2>4. codes' = [codes EXCEPT ![c] = data]
    BY <1>1 DEF StoresRecords, StoresCode
  <2> HIDE DEF data
  <2> SUFFICES ASSUME NEW d \in Code
               PROVE  /\ ActiveRecords(codes'[d]) <= ActiveRecords(codes[d])
                      /\ codes'[d] # Nil => codes[d] # Nil /\ codes'[d].state = codes[d].state
    OBVIOUS
  <2>5. codes[d] \in GS1CodeData \cup {Nil}
    BY <1>1 DEF Typed
  <2>6. codes'[d] = IF d = c THEN data ELSE codes[d]
    BY <1>1, <2>4 DEF Typed
  <2> QED BY <2>1, <2>2, <2>3, <2>5, <2>6, ActiveRecordsFacts
<1>2. ASSUME Typed, codes' = codes PROVE Kept
  <2>1. \A c \in Code : ActiveRecords(codes[c]) \in Nat
    BY <1>2, ActiveRecordsFacts DEF Typed
  <2> QED BY <1>2, <2>1
<1>3. ASSUME Typed, NEW by \in Address, NEW c \in Code, Adds(by, c) PROVE Kept
  <2> DEFINE list == codes[c].records
             e == [provider |-> by, state |-> RECORD_INACTIVE]
  <2>1. list \in Seq(Record) /\ e \in Record /\ e.state # RECORD_ACTIVE
    <3>1. codes[c] # Nil
      BY <1>3 DEF Adds, StoresRecords
    <3>2. list \in Seq(Record)
      BY <1>3, <3>1, CodeFacts
    <3>3. e \in Record /\ e.state # RECORD_ACTIVE
      BY DEF Record, RecordState, RECORD_ACTIVE, RECORD_INACTIVE
    <3> QED BY <3>2, <3>3
  <2> HIDE DEF list, e
  <2>2. /\ Append(list, e) \in Seq(Record)
        /\ ActivePlaces(Append(list, e)) = ActivePlaces(list)
    BY <2>1, AppendProperties, AppendedInactive
  <2>3. Cardinality(ActivePlaces(list)) \in Nat
    BY <2>1, ActivePlacesFinite, FS_CardinalityType
  <2>4. StoresRecords(c, Append(list, e))
    BY <1>3 DEF Adds, list, e
  <2> DEFINE new == Append(list, e)
  <2>5. new \in Seq(Record) /\ StoresRecords(c, new)
        /\ Cardinality(ActivePlaces(new)) <= Cardinality(ActivePlaces(codes[c].records))
    BY <2>2, <2>3, <2>4 DEF list
  <2> HIDE DEF new, Kept
  <2> QED BY <1>1, <1>3, <2>5
<1>4. ASSUME Typed, NEW by \in Address, NEW c \in Code, NEW idx \in Nat, Removes(by, c, idx)
      PROVE  Kept
  <2> DEFINE list == codes[c].records
             new == RemoveAt(list, idx + 1)
  <2>1. list \in Seq(Record) /\ idx < Len(list)
    BY <1>4, CodeFacts DEF Removes, StoresRecords
  <2>2. StoresRecords(c, new)
    BY <1>4 DEF Removes
  <2> HIDE DEF list
  <2>3. idx + 1 \in DOMAIN list
    BY <2>1, LenProperties
  <2>4. new \in Seq(Record) /\ Cardinality(ActivePlaces(new)) <= Cardinality(ActivePlaces(list))
    BY <2>1, <2>3, RemoveAtFacts, RemovedActive
  <2> HIDE DEF new, Kept
  <2> QED BY <1>1, <1>4, <2>2, <2>4 DEF list
<1>5. ASSUME Typed, NEW by \in Address, NEW rpc \in Rpc, CodeTxn(by, rpc) PROVE Kept
  <2>1. txn'.by = by
    BY <1>5, CodeTxnUses DEF UseTxn, ConsultCrash, Answered, IndexCrash, Crash, Unwritten, End
  <2>2. CASE by = Sudo
    BY <2>1, <2>2
  <2>3. CASE by # Sudo
    <3> HIDE DEF Kept
    <3> QED BY <1>2, <1>3, <1>4, <1>5, <2>3, OthersEffects
  <2> QED BY <2>2, <2>3
<1>6. ASSUME Typed, ApplyManagerTxn \/ RestartProcessor \/ Commit PROVE Kept
  <2>1. codes' = codes
    BY <1>6 DEF ApplyManagerTxn, RestartProcessor, Commit, state
  <2> HIDE DEF Kept
  <2> QED BY <1>2, <1>6, <2>1
<1>7. Abort => Kept
  BY DEF Abort, AbortBlock, NoTxn
<1>8. HandlerIInv /\ HandlerNext => Kept
  <2> HIDE DEF Kept
  <2> QED BY <1>5, <1>6, <1>7 DEF HandlerIInv, HandlerNext
<1>9. HandlerIInv /\ [HandlerNext]_handlerVars => [Kept]_handlerVars
  BY <1>8
<1> QED BY <1>9, HandlerInvariance, PTL DEF HandlerSpec, OnlySudoActivates

-----------------------------------------------------------------------------
(* The records of others *)

\* A list that keeps length and providers keeps everybody's.
LEMMA SameProviders ==
  ASSUME NEW old \in GS1CodeData, NEW new \in GS1CodeData, NEW by,
         Len(new.records) = Len(old.records),
         \A i \in 1..Len(old.records) : new.records[i].provider = old.records[i].provider
  PROVE  KeepsOthers(old, new, by)
<1> DEFINE moved == [i \in OtherPlaces(old, by) |-> i]
<1>1. DOMAIN old.records = 1..Len(old.records) /\ DOMAIN new.records = 1..Len(old.records)
  <2>1. old.records \in Seq(Record) /\ new.records \in Seq(Record)
    BY DEF GS1CodeData
  <2> QED BY <2>1, LenProperties
<1>2. OtherPlaces(new, by) = OtherPlaces(old, by)
  BY <1>1 DEF OtherPlaces
<1>3. Range(moved) = OtherPlaces(new, by)
  BY <1>2 DEF Range
<1>4. moved \in [OtherPlaces(old, by) -> OtherPlaces(new, by)]
  BY <1>2
<1>5. /\ \A i, j \in OtherPlaces(old, by) : i < j => moved[i] < moved[j]
      /\ \A i \in OtherPlaces(old, by) : new.records[moved[i]].provider = old.records[i].provider
  BY <1>1 DEF OtherPlaces
<1> HIDE DEF moved
<1> QED BY <1>3, <1>4, <1>5 DEF KeepsOthers

\* An appended record of `by' moves nobody's.
LEMMA AppendKeepsOthers ==
  ASSUME NEW old \in GS1CodeData, NEW new \in GS1CodeData, NEW e \in Record,
         new.records = Append(old.records, e)
  PROVE  KeepsOthers(old, new, e.provider)
<1> DEFINE by == e.provider
           moved == [i \in OtherPlaces(old, by) |-> i]
<1>1. /\ DOMAIN old.records = 1..Len(old.records) /\ Len(old.records) \in Nat
      /\ DOMAIN new.records = 1..(Len(old.records) + 1)
      /\ \A i \in 1..Len(old.records) : new.records[i] = old.records[i]
      /\ new.records[Len(old.records) + 1] = e
  <2>1. old.records \in Seq(Record)
    BY DEF GS1CodeData
  <2> QED BY <2>1, AppendProperties, LenProperties
<1>2. OtherPlaces(new, by) = OtherPlaces(old, by)
  BY <1>1 DEF OtherPlaces
<1>3. Range(moved) = OtherPlaces(new, by)
  BY <1>2 DEF Range
<1>4. moved \in [OtherPlaces(old, by) -> OtherPlaces(new, by)]
  BY <1>2
<1>5. /\ \A i, j \in OtherPlaces(old, by) : i < j => moved[i] < moved[j]
      /\ \A i \in OtherPlaces(old, by) : new.records[moved[i]].provider = old.records[i].provider
  BY <1>1 DEF OtherPlaces
<1> HIDE DEF moved
<1> QED BY <1>3, <1>4, <1>5 DEF KeepsOthers

\* Where a place goes when the one at k is taken out.
Closed(i, k) == IF i < k THEN i ELSE i - 1

\* Taking out a record of `by' moves the later ones of others up, in order.
LEMMA RemoveKeepsOthers ==
  ASSUME NEW old \in GS1CodeData, NEW new \in GS1CodeData, NEW k \in DOMAIN old.records,
         new.records = RemoveAt(old.records, k)
  PROVE  KeepsOthers(old, new, old.records[k].provider)
<1> DEFINE by == old.records[k].provider
           n == Len(old.records)
           moved == [i \in OtherPlaces(old, by) |-> Closed(i, k)]
<1>1. /\ DOMAIN old.records = 1..n /\ n \in Nat
      /\ DOMAIN new.records = 1..(n - 1)
      /\ \A j \in 1..(n - 1) :
           new.records[j] = IF j < k THEN old.records[j] ELSE old.records[j + 1]
  <2>1. old.records \in Seq(Record)
    BY DEF GS1CodeData
  <2> QED BY <2>1, RemoveAtFacts, LenProperties
<1> HIDE DEF n
<1>2. ASSUME NEW i \in OtherPlaces(old, by)
      PROVE  /\ i \in 1..n /\ i # k /\ Closed(i, k) \in 1..(n - 1)
             /\ new.records[Closed(i, k)] = old.records[i]
  <2>1. i \in 1..n /\ i # k /\ k \in 1..n
    BY <1>1 DEF OtherPlaces
  <2>2. CASE i < k
    BY <1>1, <2>1, <2>2 DEF Closed
  <2>3. CASE i > k
    <3>1. Closed(i, k) = i - 1 /\ i - 1 \in 1..(n - 1) /\ ~(i - 1 < k) /\ (i - 1) + 1 = i
      BY <1>1, <2>1, <2>3 DEF Closed
    <3> QED BY <1>1, <2>1, <3>1
  <2> QED BY <2>1, <2>2, <2>3
<1>3. \A i \in OtherPlaces(old, by) : Closed(i, k) \in OtherPlaces(new, by)
  BY <1>1, <1>2 DEF OtherPlaces
<1>4. ASSUME NEW j \in OtherPlaces(new, by)
      PROVE  \E i \in OtherPlaces(old, by) : Closed(i, k) = j
  <2>1. j \in 1..(n - 1) /\ new.records[j].provider # by
    BY <1>1 DEF OtherPlaces
  <2>2. CASE j < k
    <3>1. j \in OtherPlaces(old, by) /\ Closed(j, k) = j
      BY <1>1, <2>1, <2>2 DEF OtherPlaces, Closed
    <3> QED BY <3>1
  <2>3. CASE ~(j < k)
    <3>1. j + 1 \in 1..n /\ ~(j + 1 < k) /\ (j + 1) - 1 = j
      BY <1>1, <2>1, <2>3
    <3>2. j + 1 \in OtherPlaces(old, by)
      BY <1>1, <2>1, <2>3, <3>1 DEF OtherPlaces
    <3> QED BY <3>1, <3>2 DEF Closed
  <2> QED BY <2>2, <2>3
<1>5. \A i, j \in OtherPlaces(old, by) : i < j => Closed(i, k) < Closed(j, k)
  BY <1>1, <1>2 DEF Closed
<1> HIDE DEF by
<1>6. moved \in [OtherPlaces(old, by) -> OtherPlaces(new, by)]
  BY <1>3
<1>7. Range(moved) = OtherPlaces(new, by)
  BY <1>3, <1>4 DEF Range
<1>8. /\ \A i, j \in OtherPlaces(old, by) : i < j => moved[i] < moved[j]
      /\ \A i \in OtherPlaces(old, by) : new.records[moved[i]].provider = old.records[i].provider
  BY <1>2, <1>5
<1> HIDE DEF moved
<1>9. KeepsOthers(old, new, by)
  BY <1>6, <1>7, <1>8 DEF KeepsOthers
<1> QED BY <1>9 DEF by

\* A transaction signed by one keeps the records of all others, unless it takes
\* a code of sudo's back.
OthersKept(by) ==
  \A c \in Code : codes[c] # Nil =>
    IF codes'[c] = Nil THEN by = Sudo /\ codes[c].owner = Sudo
    ELSE KeepsOthers(codes[c], codes'[c], by)

\* Nothing changed for any code.
LEMMA UntouchedOthers ==
  ASSUME Typed, codes' = codes, NEW by
  PROVE  OthersKept(by)
<1> SUFFICES ASSUME NEW c \in Code, codes[c] # Nil PROVE KeepsOthers(codes[c], codes[c], by)
  BY DEF OthersKept
<1>1. codes[c] \in GS1CodeData
  BY CodeFacts
<1> QED BY <1>1, SameProviders

\* One code stored, the others as they were.
LEMMA StoredOthers ==
  ASSUME Typed, NEW c \in Code, NEW data, StoresCode(c, data), NEW by,
         codes[c] # Nil /\ data # Nil => KeepsOthers(codes[c], data, by),
         codes[c] # Nil /\ data = Nil => by = Sudo /\ codes[c].owner = Sudo
  PROVE  OthersKept(by)
<1> SUFFICES ASSUME NEW d \in Code, codes[d] # Nil
             PROVE  IF codes'[d] = Nil THEN by = Sudo /\ codes[d].owner = Sudo
                    ELSE KeepsOthers(codes[d], codes'[d], by)
  BY DEF OthersKept
<1>1. codes'[d] = IF d = c THEN data ELSE codes[d]
  BY DEF Typed, StoresCode
<1>2. codes[d] \in GS1CodeData
  BY CodeFacts
<1>3. KeepsOthers(codes[d], codes[d], by)
  BY <1>2, SameProviders
<1> QED BY <1>1, <1>3

\* applyAddRecord appends for the signer.
LEMMA AddsKeepsOthers ==
  ASSUME Typed, NEW by \in Address, NEW c \in Code, Adds(by, c)
  PROVE  OthersKept(by)
<1> DEFINE list == codes[c].records
           e == [provider |-> by, state |-> RECORD_INACTIVE]
           data == [codes[c] EXCEPT !.records = Append(list, e)]
<1>1. codes[c] # Nil /\ codes[c] \in GS1CodeData /\ StoresCode(c, data) /\ list \in Seq(Record)
  BY CodeFacts DEF Adds, StoresRecords
<1>2. e \in Record /\ e.provider = by
  BY DEF Record, RecordState
<1> HIDE DEF e
<1>3. Append(list, e) \in Seq(Record)
  BY <1>1, <1>2, AppendProperties
<1>4. data \in GS1CodeData /\ data.records = Append(codes[c].records, e)
  BY <1>1, <1>3 DEF GS1CodeData
<1> HIDE DEF data
<1>5. KeepsOthers(codes[c], data, by)
  BY <1>1, <1>2, <1>4, AppendKeepsOthers
<1> QED BY <1>1, <1>4, <1>5, NilDataAssumption, StoredOthers

\* applyRemoveRecord takes out one of the signer's.
LEMMA RemovesKeepsOthers ==
  ASSUME Typed, NEW by \in Address, NEW c \in Code, NEW idx \in Nat, Removes(by, c, idx)
  PROVE  OthersKept(by)
<1> DEFINE list == codes[c].records
           data == [codes[c] EXCEPT !.records = RemoveAt(list, idx + 1)]
<1>1. /\ codes[c] # Nil /\ codes[c] \in GS1CodeData /\ StoresCode(c, data)
      /\ list \in Seq(Record) /\ idx < Len(list) /\ list[idx + 1].provider = by
  BY CodeFacts DEF Removes, StoresRecords
<1>2. idx + 1 \in DOMAIN list /\ RemoveAt(list, idx + 1) \in Seq(Record)
  <2> HIDE DEF list, data
  <2>1. idx + 1 \in DOMAIN list
    BY <1>1, LenProperties
  <2> QED BY <1>1, <2>1, RemoveAtFacts
<1>3. data \in GS1CodeData /\ data.records = RemoveAt(codes[c].records, idx + 1)
  BY <1>1, <1>2 DEF GS1CodeData
<1> HIDE DEF data
<1>4. KeepsOthers(codes[c], data, by)
  BY <1>1, <1>2, <1>3, RemoveKeepsOthers
<1> QED BY <1>1, <1>3, <1>4, NilDataAssumption, StoredOthers

\* Sudo's state changes keep every record's provider.
LEMMA RestatesKeepsOthers ==
  ASSUME Typed, NEW by, NEW c \in Code,
         \/ \E st \in CodeState : Restates(c, st)
         \/ \E idx \in Nat, st \in RecordState : RestatesRecord(c, idx, st)
  PROVE  OthersKept(by)
<1>1. codes[c] # Nil /\ codes[c] \in GS1CodeData /\ codes[c].records \in Seq(Record)
  BY CodeFacts DEF Restates, RestatesRecord, StoresRecords
<1>2. ASSUME NEW st \in CodeState, Restates(c, st) PROVE OthersKept(by)
  <2> DEFINE data == [codes[c] EXCEPT !.state = st]
  <2>1. data \in GS1CodeData /\ data.records = codes[c].records /\ StoresCode(c, data)
    BY <1>1, <1>2 DEF GS1CodeData, Restates
  <2> HIDE DEF data
  <2> QED BY <1>1, <2>1, NilDataAssumption, SameProviders, StoredOthers
<1>3. ASSUME NEW idx \in Nat, NEW st \in RecordState, RestatesRecord(c, idx, st)
      PROVE  OthersKept(by)
  <2> DEFINE list == codes[c].records
             e == [list[idx + 1] EXCEPT !.state = st]
             new == [list EXCEPT ![idx + 1] = e]
             data == [codes[c] EXCEPT !.records = new]
  <2>1. idx < Len(list) /\ StoresCode(c, data)
    BY <1>3 DEF RestatesRecord, StoresRecords
  <2>2. new \in Seq(Record) /\ Len(new) = Len(list)
        /\ \A i \in 1..Len(list) : new[i].provider = list[i].provider
    <3> HIDE DEF data, list
    <3>1. list \in Seq(Record) /\ idx + 1 \in 1..Len(list) /\ DOMAIN list = 1..Len(list)
      BY <1>1, <2>1, LenProperties DEF list
    <3>2. e \in Record /\ e.provider = list[idx + 1].provider
      <4>1. list[idx + 1] \in Record
        BY <3>1, ElementOfSeq
      <4> QED BY <4>1 DEF Record
    <3> HIDE DEF e
    <3> QED BY <3>1, <3>2, ExceptSeq
  <2> HIDE DEF new
  <2>3. data \in GS1CodeData /\ data.records = new
    BY <1>1, <2>2 DEF GS1CodeData
  <2> HIDE DEF data
  <2> QED BY <1>1, <2>1, <2>2, <2>3, NilDataAssumption, SameProviders, StoredOthers
<1> QED BY <1>2, <1>3

\* No transaction loses, takes over or reorders a record of anybody but its
\* signer, in lists of any length, unless sudo takes a code of its own back with
\* all its records: removing by an index that shifts is safe for everybody else,
\* and sudo removes nobody's record singly.
THEOREM OthersRecordsKeptHolds == HandlerSpec => OthersRecordsKept
<1> DEFINE Kept == \A c \in Code :
             codes[c] # Nil /\ txn'.by # Nil =>
               IF codes'[c] = Nil THEN txn'.by = Sudo /\ codes[c].owner = Sudo
               ELSE KeepsOthers(codes[c], codes'[c], txn'.by)
<1>1. ASSUME NEW by, txn'.by = by, OthersKept(by) PROVE Kept
  BY <1>1 DEF OthersKept
<1> HIDE DEF Kept
<1>2. ASSUME Typed, codes' = codes PROVE Kept
  BY <1>1, <1>2, UntouchedOthers
<1>3. ASSUME Typed, NEW by \in Address, NEW rpc \in Rpc, CodeTxn(by, rpc) PROVE Kept
  <2>1. txn'.by = by
    BY <1>3, CodeTxnUses DEF UseTxn, ConsultCrash, Answered, IndexCrash, Crash, Unwritten, End
  <2>2. StoresNothing \/ (\E s, data : StoresService(s, data)) => Kept
    BY <1>2, <1>3 DEF StoresNothing, Ends, state, StoresService
  <2>3. ASSUME NEW c \in Code, NEW owner, Registers(c, owner) PROVE OthersKept(by)
    <3> DEFINE data == [owner |-> owner, state |-> GS1CODE_INACTIVE, records |-> <<>>]
    <3>1. codes[c] = Nil /\ StoresCode(c, data)
      BY <2>3 DEF Registers
    <3> HIDE DEF data
    <3> QED BY <1>3, <3>1, StoredOthers
  <2>4. ASSUME NEW c \in Code, Deregisters(by, c) PROVE OthersKept(by)
    BY <1>3, <2>4, StoredOthers DEF Deregisters
  <2>5. \A idx \in 0..MaxRecords : idx \in Nat
    BY MaxRecordsAssumption
  <2>6. ASSUME NEW c \in Code, NEW owner \in Address,
               RegisterGS1Code(by, c, owner, rpc) \/ DeregisterGS1Code(by, c, rpc)
        PROVE  Kept
    BY <1>1, <2>1, <2>2, <2>3, <2>4, <2>6, RegisterEffect, DeregisterEffect
  <2>7. ASSUME NEW c \in Code, AddRecord(by, c, rpc) PROVE Kept
    BY <1>1, <1>3, <2>1, <2>2, <2>7, AddEffect, AddsKeepsOthers
  <2>8. ASSUME NEW c \in Code, NEW idx \in Nat, RemoveRecord(by, c, idx, rpc) PROVE Kept
    BY <1>1, <1>3, <2>1, <2>2, <2>8, RemoveEffect, RemovesKeepsOthers
  <2>9. ASSUME NEW c \in Code, NEW st \in CodeState, ChangeGS1CodeState(by, c, st, rpc) PROVE Kept
    BY <1>1, <1>3, <2>1, <2>2, <2>9, ChangeStateEffect, RestatesKeepsOthers
  <2>10. ASSUME NEW c \in Code, NEW idx \in Nat, NEW st \in RecordState,
                ChangeRecordState(by, c, idx, st, rpc)
         PROVE  Kept
    BY <1>1, <1>3, <2>1, <2>2, <2>10, ChangeRecordEffect, RestatesKeepsOthers
  <2>11. ASSUME NEW s \in Service, NEW provider,
                RegisterServiceType(by, s, provider, rpc) \/ DeregisterServiceType(by, s, rpc)
         PROVE  Kept
    BY <2>2, <2>11, ServiceEffect
  <2>12. \A c \in Code : DeregisterGS1Code(by, c, rpc) => Kept
    BY <2>6, SudoAssumption
  <2> QED BY <1>3, <2>5, <2>6, <2>7, <2>8, <2>9, <2>10, <2>11, <2>12 DEF CodeTxn
<1>4. ASSUME Typed, ApplyManagerTxn \/ RestartProcessor \/ Commit PROVE Kept
  BY <1>2, <1>4 DEF ApplyManagerTxn, RestartProcessor, Commit, state
<1>5. Abort => Kept
  BY DEF Abort, AbortBlock, NoTxn, Kept
<1>6. HandlerIInv /\ HandlerNext => Kept
  BY <1>3, <1>4, <1>5 DEF HandlerIInv, HandlerNext
<1>7. HandlerIInv /\ [HandlerNext]_handlerVars => [Kept]_handlerVars
  BY <1>6
<1> QED BY <1>7, HandlerInvariance, PTL DEF HandlerSpec, OthersRecordsKept, Kept
=============================================================================
