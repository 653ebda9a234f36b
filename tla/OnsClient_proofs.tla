-------------------------- MODULE OnsClient_proofs --------------------------
(***************************************************************************)
(* What the command line client may rely on: the whole of the list in the  *)
(* process that serves it, records that only appointed managers add, codes *)
(* it can deregister again, and indices that mean what a query showed.     *)
(***************************************************************************)
EXTENDS OnsClient, OnsHandler_proofs

\* Codes and service types belong to sudo.
OwnedBySudo ==
  /\ \A c \in Code : codes[c] # Nil => codes[c].owner = Sudo
  /\ \A s \in Service : services[s] # Nil => services[s].provider = Sudo

\* What was seen is an index of a code, and still the record it was.
SeenHolds ==
  seen # Nil =>
    /\ seen.code \in Code /\ seen.index \in Nat
    /\ seen.index < Len(RecordsShown(seen.code))
    /\ RecordsShown(seen.code)[seen.index + 1].provider = seen.provider

\* The inductive invariant.
ClientInv == HandlerIInv /\ OperatedInv /\ OwnedBySudo /\ SeenHolds

-----------------------------------------------------------------------------
(* The client only does what the handlers let it do *)

\* Declaring only the code's address makes the list unreadable, nothing else.
LEMMA DeclarationFacts ==
  /\ Declarations \subseteq Rpc
  /\ Declared.registry = FALSE /\ Declared.read = TRUE /\ Declared.write = TRUE
<1>1. "registry" \in DOMAIN AllSucceed
  BY DEF AllSucceed
<1> QED BY <1>1 DEF Declarations, Declared, Rpc, AllSucceed

\* A command is a transaction of the family.
LEMMA CommandIsTxn ==
  ASSUME NEW by \in Address, NEW rpc \in Declarations, CodeCommand(by, rpc)
  PROVE  CodeTxn(by, rpc)
  BY DEF CodeCommand, CodeTxn, Register, Deregister, Add, RemoveByIndex, ChangeGState, ChangeRState,
         RegisterSvc, GenerateServiceType, DeregisterSvc

\* Every step of the client is a step of the handlers, or a look.
LEMMA ClientStepsAreHandlerSteps == [ClientNext]_clientVars => [HandlerNext]_handlerVars
<1>1. ASSUME NEW by \in Address, NEW rpc \in Declarations, CodeCommand(by, rpc)
      PROVE  HandlerNext
  BY <1>1, CommandIsTxn, DeclarationFacts DEF HandlerNext
<1>2. ASSUME NEW by \in Address, ManagerCommand(by) PROVE HandlerNext
  <2>1. ApplyManagerTxn
    BY <1>2 DEF ManagerCommand, OperatedManagerTxn, ApplyManagerTxn, AppointTxn, DismissTxn
  <2> QED BY <2>1 DEF HandlerNext
<1>3. RestartProcessor => HandlerNext
  BY DEF HandlerNext
<1>4. ASSUME NEW c \in Code, Get(c) PROVE UNCHANGED handlerVars
  BY <1>4 DEF Get
<1>5. UNCHANGED clientVars => UNCHANGED handlerVars
  BY DEF clientVars
<1> QED BY <1>1, <1>2, <1>3, <1>4, <1>5 DEF ClientNext

\* The client implements the handlers' specification, so what is proved of every
\* behaviour of the handlers holds for its users.
THEOREM ClientsUseHandlers == ClientSpec => HandlerSpec
<1>1. ClientInit => HandlerInit
  BY DEF ClientInit
<1> QED BY <1>1, ClientStepsAreHandlerSteps, PTL DEF ClientSpec, HandlerSpec

-----------------------------------------------------------------------------
(* What a transaction does to the record lists of all codes *)

\* The records a query shows of a code's data.
Shown(data) == IF data = Nil THEN <<>> ELSE data.records

\* Every place of the old list keeps its provider in the new one.
KeepsPlaces(old, new) ==
  Len(old) <= Len(new) /\ \A i \in 1..Len(old) : new[i].provider = old[i].provider

\* A list is shorter, or keeps its places and is longer only by an addition the
\* signer is permitted.
ListChange(c, by, rpc) ==
  \/ Len(Shown(codes'[c])) < Len(Shown(codes[c]))
  \/ /\ KeepsPlaces(Shown(codes[c]), Shown(codes'[c]))
     /\ Len(Shown(codes'[c])) > Len(Shown(codes[c])) =>
          /\ Answered(by, c, rpc.registry)
          /\ Permitted(by, c, PERMISSION_MANAGER, rpc)

\* What is shown of a code is a list.
LEMMA ShownFacts ==
  ASSUME NEW data \in GS1CodeData \cup {Nil}
  PROVE  Shown(data) \in Seq(Record) /\ Len(Shown(data)) \in Nat
<1>1. data # Nil => data.records \in Seq(Record)
  BY DEF GS1CodeData
<1> QED BY <1>1, EmptySeq, LenProperties DEF Shown

\* A list nobody touches keeps its places.
LEMMA UntouchedList ==
  ASSUME Typed, NEW c \in Code, codes'[c] = codes[c], NEW by, NEW rpc
  PROVE  ListChange(c, by, rpc)
<1>1. Len(Shown(codes[c])) \in Nat
  BY ShownFacts DEF Typed
<1> QED BY <1>1 DEF ListChange, KeepsPlaces

\* Storing one code changes its list only.
LEMMA StoredList ==
  ASSUME Typed, NEW c \in Code, NEW data, StoresCode(c, data), NEW by, NEW rpc,
         codes'[c] = data => ListChange(c, by, rpc)
  PROVE  \A d \in Code : ListChange(d, by, rpc)
<1> SUFFICES ASSUME NEW d \in Code PROVE ListChange(d, by, rpc)
  OBVIOUS
<1>1. codes'[d] = IF d = c THEN data ELSE codes[d]
  BY DEF Typed, StoresCode
<1> QED BY <1>1, UntouchedList

\* Storing a new record list for a registered code.
LEMMA StoredRecords ==
  ASSUME Typed, NEW c \in Code, NEW new \in Seq(Record), StoresRecords(c, new), NEW by, NEW rpc,
         \/ Len(new) < Len(codes[c].records)
         \/ /\ KeepsPlaces(codes[c].records, new)
            /\ Len(new) > Len(codes[c].records) =>
                 Answered(by, c, rpc.registry) /\ Permitted(by, c, PERMISSION_MANAGER, rpc)
  PROVE  \A d \in Code : ListChange(d, by, rpc)
<1> DEFINE data == [codes[c] EXCEPT !.records = new]
<1>1. codes[c] # Nil /\ codes[c] \in GS1CodeData
  BY CodeFacts DEF StoresRecords
<1>2. data \in GS1CodeData /\ data.records = new
  BY <1>1 DEF GS1CodeData
<1>3. StoresCode(c, data)
  BY DEF StoresRecords
<1> HIDE DEF data
<1>4. Shown(data) = new /\ Shown(codes[c]) = codes[c].records
  BY <1>1, <1>2, NilDataAssumption DEF Shown
<1>5. codes'[c] = data => ListChange(c, by, rpc)
  BY <1>4 DEF ListChange
<1> QED BY <1>3, <1>5, StoredList

\* A list that stays as long and keeps its providers keeps its places.
LEMMA RestatedRecord ==
  ASSUME NEW list \in Seq(Record), NEW idx \in Nat, idx < Len(list), NEW st \in RecordState
  PROVE  LET new == [list EXCEPT ![idx + 1] = [list[idx + 1] EXCEPT !.state = st]]
         IN  new \in Seq(Record) /\ Len(new) = Len(list) /\ KeepsPlaces(list, new)
<1> DEFINE e == [list[idx + 1] EXCEPT !.state = st]
           new == [list EXCEPT ![idx + 1] = e]
<1>1. idx + 1 \in 1..Len(list) /\ DOMAIN list = 1..Len(list) /\ Len(list) \in Nat
  BY LenProperties
<1>2. list[idx + 1] \in Record
  BY <1>1, ElementOfSeq
<1>3. e \in Record /\ e.provider = list[idx + 1].provider
  BY <1>2 DEF Record
<1> HIDE DEF e
<1>4. new \in Seq(Record) /\ Len(new) = Len(list)
  BY <1>1, <1>3, ExceptSeq
<1>5. \A i \in 1..Len(list) : new[i].provider = list[i].provider
  BY <1>1, <1>3
<1> QED BY <1>1, <1>4, <1>5 DEF KeepsPlaces, e

\* An appended record leaves the others at their places.
LEMMA AppendedRecord ==
  ASSUME NEW list \in Seq(Record), NEW e \in Record
  PROVE  Append(list, e) \in Seq(Record) /\ KeepsPlaces(list, Append(list, e))
<1>1. /\ Append(list, e) \in Seq(Record)
      /\ Len(Append(list, e)) = Len(list) + 1 /\ Len(list) \in Nat
      /\ \A i \in 1..Len(list) : Append(list, e)[i] = list[i]
  BY AppendProperties, LenProperties
<1> QED BY <1>1 DEF KeepsPlaces

\* Every transaction about codes and service types.
LEMMA ListsChange ==
  ASSUME Typed, NEW by \in Address, NEW rpc \in Rpc, CodeTxn(by, rpc)
  PROVE  \A c \in Code : ListChange(c, by, rpc)
<1> DEFINE Goal == \A c \in Code : ListChange(c, by, rpc)
<1>1. ASSUME UNCHANGED codes PROVE Goal
  BY <1>1, UntouchedList
<1>2. StoresNothing \/ (\E s, data : StoresService(s, data)) => Goal
  BY <1>1 DEF StoresNothing, Ends, state, StoresService
<1>3. ASSUME NEW c \in Code, NEW owner, Registers(c, owner) PROVE Goal
  <2> DEFINE data == [owner |-> owner, state |-> GS1CODE_INACTIVE, records |-> <<>>]
  <2>1. Shown(data) = <<>> /\ Shown(codes[c]) = <<>>
    BY <1>3 DEF Registers, Shown
  <2>2. StoresCode(c, data)
    BY <1>3 DEF Registers
  <2> HIDE DEF data
  <2>3. codes'[c] = data => ListChange(c, by, rpc)
    BY <2>1, EmptySeq DEF ListChange, KeepsPlaces
  <2> QED BY <2>2, <2>3, StoredList
<1>4. ASSUME NEW c \in Code, StoresCode(c, Nil) PROVE Goal
  <2>1. Shown(Nil) = <<>> /\ Len(<<>>) = 0
    BY EmptySeq DEF Shown
  <2>2. Len(Shown(codes[c])) \in Nat
    BY ShownFacts DEF Typed
  <2>3. codes'[c] = Nil => ListChange(c, by, rpc)
    BY <2>1, <2>2 DEF ListChange, KeepsPlaces
  <2> QED BY <1>4, <2>3, StoredList
<1>5. ASSUME NEW c \in Code, NEW st \in CodeState, Restates(c, st) PROVE Goal
  <2> DEFINE data == [codes[c] EXCEPT !.state = st]
  <2>1. codes[c] # Nil /\ codes[c] \in GS1CodeData
    BY <1>5, CodeFacts DEF Restates
  <2>2. data \in GS1CodeData /\ data.records = codes[c].records
    BY <2>1 DEF GS1CodeData
  <2>3. StoresCode(c, data)
    BY <1>5 DEF Restates
  <2> HIDE DEF data
  <2>4. Shown(data) = Shown(codes[c])
    BY <2>1, <2>2, NilDataAssumption DEF Shown
  <2>5. Len(Shown(codes[c])) \in Nat
    BY <2>1, ShownFacts
  <2>6. codes'[c] = data => ListChange(c, by, rpc)
    BY <2>4, <2>5 DEF ListChange, KeepsPlaces
  <2> QED BY <2>3, <2>6, StoredList
<1>6. ASSUME NEW c \in Code, NEW idx \in Nat, NEW st \in RecordState, RestatesRecord(c, idx, st)
      PROVE  Goal
  <2> DEFINE list == codes[c].records
             new == [list EXCEPT ![idx + 1] = [list[idx + 1] EXCEPT !.state = st]]
  <2>1. StoresRecords(c, new) /\ idx < Len(list)
    BY <1>6 DEF RestatesRecord
  <2>2. list \in Seq(Record)
    BY <2>1, CodeFacts DEF StoresRecords
  <2>3. new \in Seq(Record) /\ Len(new) = Len(list) /\ KeepsPlaces(list, new)
    <3> HIDE DEF list
    <3> QED BY <2>1, <2>2, RestatedRecord
  <2>4. Len(list) \in Nat
    BY <2>2, LenProperties
  <2> HIDE DEF new
  <2> QED BY <2>1, <2>3, <2>4, StoredRecords
<1>7. ASSUME NEW c \in Code, Adds(by, c), Answered(by, c, rpc.registry),
             Permitted(by, c, PERMISSION_MANAGER, rpc)
      PROVE  Goal
  <2> DEFINE list == codes[c].records
             e == [provider |-> by, state |-> RECORD_INACTIVE]
             new == Append(list, e)
  <2>1. StoresRecords(c, new)
    BY <1>7 DEF Adds
  <2>2. list \in Seq(Record)
    BY <2>1, CodeFacts DEF StoresRecords
  <2>3. e \in Record
    BY DEF Record, RecordState
  <2>4. new \in Seq(Record) /\ KeepsPlaces(list, new)
    <3> HIDE DEF list, e
    <3> QED BY <2>2, <2>3, AppendedRecord
  <2> HIDE DEF new
  <2> QED BY <1>7, <2>1, <2>4, StoredRecords
<1>8. ASSUME NEW c \in Code, NEW idx \in Nat, Removes(by, c, idx) PROVE Goal
  <2> DEFINE list == codes[c].records
             new == RemoveAt(list, idx + 1)
  <2>1. StoresRecords(c, new) /\ idx < Len(list)
    BY <1>8 DEF Removes
  <2>2. list \in Seq(Record)
    BY <2>1, CodeFacts DEF StoresRecords
  <2>3. new \in Seq(Record) /\ Len(new) < Len(list)
    <3> HIDE DEF list
    <3>1. idx + 1 \in DOMAIN list /\ Len(list) \in Nat
      BY <2>1, <2>2, LenProperties
    <3>2. new \in Seq(Record) /\ DOMAIN new = 1..(Len(list) - 1)
      BY <2>2, <3>1, RemoveAtFacts
    <3> HIDE DEF new
    <3>3. Len(new) = Len(list) - 1
      BY <2>1, <3>1, <3>2, LenProperties
    <3> QED BY <3>1, <3>2, <3>3
  <2> HIDE DEF new
  <2> QED BY <2>1, <2>3, StoredRecords
<1>9. \A idx \in 0..MaxRecords : idx \in Nat
  BY MaxRecordsAssumption
<1> HIDE DEF Goal
<1>10. Goal
  <2>1. ASSUME NEW c \in Code, NEW owner \in Address, RegisterGS1Code(by, c, owner, rpc) PROVE Goal
    BY <1>2, <1>3, <2>1, RegisterEffect
  <2>2. ASSUME NEW c \in Code, DeregisterGS1Code(by, c, rpc) PROVE Goal
    BY <1>2, <1>4, <2>2, DeregisterEffect DEF Deregisters
  <2>3. ASSUME NEW c \in Code, AddRecord(by, c, rpc) PROVE Goal
    BY <1>2, <1>7, <2>3, AddEffect
  <2>4. ASSUME NEW c \in Code, NEW idx \in 0..MaxRecords, RemoveRecord(by, c, idx, rpc) PROVE Goal
    BY <1>2, <1>8, <1>9, <2>4, RemoveEffect
  <2>5. ASSUME NEW c \in Code, NEW st \in CodeState, ChangeGS1CodeState(by, c, st, rpc) PROVE Goal
    BY <1>2, <1>5, <2>5, ChangeStateEffect
  <2>6. ASSUME NEW c \in Code, NEW idx \in 0..MaxRecords, NEW st \in RecordState,
               ChangeRecordState(by, c, idx, st, rpc)
        PROVE  Goal
    BY <1>2, <1>6, <1>9, <2>6, ChangeRecordEffect
  <2>7. ASSUME NEW s \in Service, NEW provider,
               RegisterServiceType(by, s, provider, rpc) \/ DeregisterServiceType(by, s, rpc)
        PROVE  Goal
    BY <1>2, <2>7, ServiceEffect
  <2> QED BY <2>1, <2>2, <2>3, <2>4, <2>5, <2>6, <2>7 DEF CodeTxn
<1> QED BY <1>10 DEF Goal

-----------------------------------------------------------------------------
(* Each step keeps the invariant *)

\* What a command does to the list and to the process: nothing, as far as the
\* list is concerned, and the process stays whole.
LEMMA CommandKeepsWhole ==
  ASSUME OperatedInv, NEW by \in Address, NEW rpc \in Rpc, CodeTxn(by, rpc)
  PROVE  Whole(mem', registry')
<1>1. PICK c \in Code \cup {Nil} : UseTxn(by, c, rpc.registry)
  BY CodeTxnUses
<1>2. registry' = registry /\ Whole(mem', registry)
  BY <1>1, RpcFacts, UseTxnKeepsWhole
<1> QED BY <1>2

\* Storing data of the owner it had, or of sudo, or none.
LEMMA StoredOwner ==
  ASSUME Typed, OwnedBySudo, NEW c \in Code, NEW data, StoresCode(c, data),
         data # Nil => data.owner = Sudo
  PROVE  OwnedBySudo'
  BY DEF OwnedBySudo, StoresCode, Typed

\* The same for service types.
LEMMA StoredProvider ==
  ASSUME Typed, OwnedBySudo, NEW s \in Service, NEW data, StoresService(s, data),
         data # Nil => data.provider = Sudo
  PROVE  OwnedBySudo'
  BY DEF OwnedBySudo, StoresService, Typed

\* New records for a code leave its owner.
LEMMA StoredRecordsOwner ==
  ASSUME Typed, OwnedBySudo, NEW c \in Code, NEW new, StoresRecords(c, new)
  PROVE  OwnedBySudo'
<1> DEFINE data == [codes[c] EXCEPT !.records = new]
<1>1. codes[c] # Nil /\ codes[c] \in GS1CodeData /\ codes[c].owner = Sudo
  BY CodeFacts DEF StoresRecords, OwnedBySudo
<1>2. data.owner = Sudo
  BY <1>1 DEF GS1CodeData
<1>3. StoresCode(c, data)
  BY DEF StoresRecords
<1> HIDE DEF data
<1> QED BY <1>2, <1>3, StoredOwner

\* A command registers for its signer, which is sudo, or changes no owner.
LEMMA CommandKeepsOwners ==
  ASSUME Typed, OwnedBySudo, NEW by \in Address, NEW rpc \in Rpc, CodeCommand(by, rpc)
  PROVE  OwnedBySudo'
<1>1. StoresNothing => OwnedBySudo'
  BY DEF StoresNothing, Ends, state, OwnedBySudo
<1>2. ASSUME NEW c \in Code, Register(by, c, rpc) PROVE OwnedBySudo'
  <2>1. CASE by = Sudo /\ Registers(c, by)
    <3> DEFINE data == [owner |-> by, state |-> GS1CODE_INACTIVE, records |-> <<>>]
    <3>1. StoresCode(c, data) /\ data.owner = Sudo
      BY <2>1 DEF Registers
    <3> HIDE DEF data
    <3> QED BY <3>1, StoredOwner
  <2> QED BY <1>1, <1>2, <2>1, RegisterEffect DEF Register
<1>3. ASSUME NEW c \in Code, Deregister(by, c, rpc) PROVE OwnedBySudo'
  BY <1>1, <1>3, DeregisterEffect, StoredOwner DEF Deregister, Deregisters
<1>4. ASSUME NEW c \in Code, Add(by, c, rpc) PROVE OwnedBySudo'
  BY <1>1, <1>4, AddEffect, StoredRecordsOwner DEF Add, Adds
<1>5. ASSUME NEW c \in Code, NEW idx \in Nat, RemoveRecord(by, c, idx, rpc) PROVE OwnedBySudo'
  BY <1>1, <1>5, RemoveEffect, StoredRecordsOwner DEF Removes
<1>6. ASSUME NEW c \in Code, NEW st \in CodeState, ChangeGS1CodeState(by, c, st, rpc)
      PROVE  OwnedBySudo'
  <2>1. CASE Restates(c, st)
    <3> DEFINE data == [codes[c] EXCEPT !.state = st]
    <3>1. codes[c] # Nil /\ codes[c] \in GS1CodeData /\ codes[c].owner = Sudo
      BY <2>1, CodeFacts DEF Restates, OwnedBySudo
    <3>2. StoresCode(c, data) /\ data.owner = Sudo
      BY <2>1, <3>1 DEF Restates, GS1CodeData
    <3> HIDE DEF data
    <3> QED BY <3>2, StoredOwner
  <2> QED BY <1>1, <1>6, <2>1, ChangeStateEffect
<1>7. ASSUME NEW c \in Code, NEW idx \in Nat, NEW st \in RecordState,
             ChangeRecordState(by, c, idx, st, rpc)
      PROVE  OwnedBySudo'
  BY <1>1, <1>7, ChangeRecordEffect, StoredRecordsOwner DEF RestatesRecord
<1>8. ASSUME NEW s \in Service,
             RegisterServiceType(by, s, by, rpc) \/ DeregisterServiceType(by, s, rpc)
      PROVE  OwnedBySudo'
  <2>1. [provider |-> by].provider = by
    OBVIOUS
  <2> QED BY <1>1, <1>8, <2>1, ServiceEffect, StoredProvider
<1>9. \A idx \in 0..MaxRecords : idx \in Nat
  BY MaxRecordsAssumption
<1>10. ASSUME RegisterSvc(by, rpc) \/ DeregisterSvc(by, rpc) PROVE OwnedBySudo'
  BY <1>8, <1>10 DEF RegisterSvc, GenerateServiceType, DeregisterSvc
<1> QED BY <1>2, <1>3, <1>4, <1>5, <1>6, <1>7, <1>9, <1>10
        DEF CodeCommand, RemoveByIndex, ChangeGState, ChangeRState

\* A sighting stays true through a step that shortens no list unnoticed.
LEMMA OutdatedKeeps ==
  ASSUME Typed, Typed', SeenHolds, Outdated, NEW by, NEW rpc,
         \A c \in Code : ListChange(c, by, rpc)
  PROVE  SeenHolds'
<1>1. CASE seen = Nil /\ UNCHANGED seen
  BY <1>1 DEF SeenHolds
<1>2. ASSUME NEW c \in Code, seen # Nil, seen.code = c, ListShrinks(c), seen' = Nil
      PROVE  SeenHolds'
  BY <1>2 DEF SeenHolds
<1>3. ASSUME NEW c \in Code, seen # Nil, seen.code = c, ~ListShrinks(c), seen' = seen
      PROVE  SeenHolds'
  <2> DEFINE old == Shown(codes[c])
             new == Shown(codes'[c])
  <2>1. RecordsShown(c) = old /\ RecordsShown(c)' = new
    BY DEF RecordsShown, Shown
  <2>2. seen.index \in Nat /\ seen.index < Len(old) /\ old[seen.index + 1].provider = seen.provider
    BY <1>3, <2>1 DEF SeenHolds
  <2>3. Len(old) \in Nat
    BY ShownFacts DEF Typed
  <2>4. KeepsPlaces(old, new)
    BY <1>3, <2>1 DEF ListShrinks, ListChange
  <2> HIDE DEF old, new
  <2>5. seen.index + 1 \in 1..Len(old)
    BY <2>2, <2>3
  <2>6. new[seen.index + 1].provider = seen.provider
    BY <2>2, <2>4, <2>5 DEF KeepsPlaces
  <2>7. Len(new) \in Nat
    BY ShownFacts DEF Typed, new
  <2>8. seen.index < Len(new)
    BY <2>2, <2>3, <2>4, <2>7 DEF KeepsPlaces
  <2> QED BY <1>3, <2>1, <2>2, <2>6, <2>8 DEF SeenHolds, RecordsShown
<1> QED BY <1>1, <1>2, <1>3 DEF Outdated

\* What the invariant says of the next state, unprimed.
LEMMA WholePrimed == Whole(mem', registry') => Whole(mem, registry)'
  BY DEF Whole, Agrees, Unknowing, Held, ManagerOf, Has, Find, Entries, Range

\* A manager command or a restart leaves codes and services alone, and a whole
\* memory behind.
LEMMA OtherStepsKeep ==
  ASSUME ClientInv, NEW by \in Address, ManagerCommand(by) \/ RestartProcessor
  PROVE  UNCHANGED state /\ Whole(mem, registry)'
<1>1. CASE ManagerCommand(by)
  BY <1>1, OperatedManagerTxnStep, StepKeepsWhole DEF ManagerCommand, ClientInv
<1>2. CASE RestartProcessor
  <2>1. Whole(mem', registry')
    BY <1>2, FreshWhole DEF RestartProcessor, Restart
  <2> QED BY <1>2, <2>1, WholePrimed DEF RestartProcessor
<1> QED BY <1>1, <1>2

\* A look at a record takes down what it is.
LEMMA GetKeeps ==
  ASSUME ClientInv, NEW c \in Code, Get(c)
  PROVE  SeenHolds'
<1> DEFINE list == Shown(codes[c])
<1>1. codes' = codes /\ RecordsShown(c) = list
  BY DEF Get, handlerVars, state, RecordsShown, Shown
<1>2. PICK i \in DOMAIN list :
        seen' = [code |-> c, index |-> i - 1, provider |-> list[i].provider]
  BY <1>1 DEF Get
<1>3. DOMAIN list = 1..Len(list) /\ Len(list) \in Nat
  BY ShownFacts, LenProperties DEF ClientInv, HandlerIInv, Typed
<1>4. list = RecordsShown(c)'
  BY <1>1 DEF RecordsShown, Shown
<1> HIDE DEF list
<1>5. /\ seen'.code = c /\ seen'.index = i - 1 /\ seen'.provider = list[i].provider
      /\ i - 1 \in Nat /\ i - 1 < Len(list) /\ (i - 1) + 1 = i
  BY <1>2, <1>3
<1>6. /\ seen'.index < Len(list)
      /\ list[seen'.index + 1].provider = seen'.provider
  BY <1>5
<1> QED BY <1>4, <1>5, <1>6 DEF SeenHolds, RecordsShown

\* A new chain, a new process, and nobody has looked.
LEMMA ClientInitially == ClientInit => ClientInv
<1> SUFFICES ASSUME ClientInit PROVE ClientInv
  OBVIOUS
<1>1. HandlerIInv
  BY HandlerInitially DEF ClientInit
<1>2. OperatedInv
  BY OperatedInitially DEF ClientInit, HandlerInit
<1>3. OwnedBySudo /\ SeenHolds
  BY DEF ClientInit, HandlerInit, OwnedBySudo, SeenHolds
<1> QED BY <1>1, <1>2, <1>3 DEF ClientInv

\* Every step keeps the invariant.
LEMMA ClientKeeps == ClientInv /\ [ClientNext]_clientVars => ClientInv'
<1> SUFFICES ASSUME ClientInv, [ClientNext]_clientVars PROVE ClientInv'
  OBVIOUS
<1>1. HandlerIInv' /\ IInv' /\ Typed' /\ Typed
  <2>1. HandlerIInv'
    BY ClientStepsAreHandlerSteps, HandlerNextKeeps DEF ClientInv
  <2> QED BY <2>1 DEF HandlerIInv, ClientInv
<1>2. ASSUME Whole(mem, registry)', OwnedBySudo', SeenHolds' PROVE ClientInv'
  BY <1>1, <1>2 DEF ClientInv, OperatedInv
<1>3. ASSUME NEW by \in Address, NEW rpc \in Declarations, CodeCommand(by, rpc), Outdated
      PROVE  ClientInv'
  <2>1. CodeTxn(by, rpc) /\ rpc \in Rpc
    BY <1>3, CommandIsTxn, DeclarationFacts
  <2>2. Whole(mem, registry)'
    BY <2>1, CommandKeepsWhole, WholePrimed DEF ClientInv
  <2>3. OwnedBySudo'
    BY <1>1, <1>3, <2>1, CommandKeepsOwners DEF ClientInv
  <2>4. \A c \in Code : ListChange(c, by, rpc)
    BY <1>1, <2>1, ListsChange
  <2>5. SeenHolds'
    BY <1>1, <1>3, <2>4, OutdatedKeeps DEF ClientInv
  <2> QED BY <1>2, <2>2, <2>3, <2>5
<1>4. ASSUME NEW by \in Address, ManagerCommand(by) \/ RestartProcessor, Outdated
      PROVE  ClientInv'
  <2>1. UNCHANGED state /\ Whole(mem, registry)'
    BY <1>4, OtherStepsKeep
  <2>2. OwnedBySudo'
    BY <2>1 DEF ClientInv, OwnedBySudo, state
  <2>3. \A c \in Code : ListChange(c, by, AllSucceed)
    BY <1>1, <2>1, UntouchedList DEF state
  <2>4. SeenHolds'
    BY <1>1, <1>4, <2>3, OutdatedKeeps DEF ClientInv
  <2> QED BY <1>2, <2>1, <2>2, <2>4
<1>5. ASSUME UNCHANGED handlerVars PROVE OwnedBySudo' /\ Whole(mem, registry)'
  <2>1. mem' = mem /\ registry' = registry /\ codes' = codes /\ services' = services
    BY <1>5 DEF handlerVars, vars, state
  <2>2. Whole(mem', registry')
    BY <2>1 DEF ClientInv, OperatedInv
  <2>3. OwnedBySudo'
    BY <2>1 DEF ClientInv, OwnedBySudo
  <2> QED BY <2>2, <2>3, WholePrimed
<1>6. ASSUME NEW c \in Code, Get(c) PROVE ClientInv'
  <2>1. UNCHANGED handlerVars
    BY <1>6 DEF Get
  <2> QED BY <1>2, <1>5, <1>6, <2>1, GetKeeps
<1>7. CASE UNCHANGED clientVars
  <2>1. UNCHANGED handlerVars /\ seen' = seen
    BY <1>7 DEF clientVars
  <2>2. SeenHolds'
    BY <2>1 DEF ClientInv, SeenHolds, RecordsShown, handlerVars, state
  <2> QED BY <1>2, <1>5, <2>1, <2>2
<1>8. RestartProcessor /\ Outdated => ClientInv'
  BY <1>4, SudoAssumption
<1> QED BY <1>3, <1>4, <1>6, <1>7, <1>8 DEF ClientNext

\* The invariant holds whatever the clients send.
LEMMA ClientInvariance == ClientSpec => []ClientInv
  BY ClientInitially, ClientKeeps, PTL DEF ClientSpec

-----------------------------------------------------------------------------
(* The theorems *)

\* A process that serves the client's commands, some of which cannot read the
\* list, knows all of the list or nothing of it.
COROLLARY ClientsFindCacheWhole == ClientSpec => []CacheAllOrNothing
<1>1. ClientInv => CacheAllOrNothing
  BY DEF ClientInv, OperatedInv, Whole, Agrees, Unknowing, CacheAllOrNothing, KnowsAll, KnowsNothing
<1> QED BY <1>1, ClientInvariance, PTL

\* Whatever the client registered it can deregister: only sudo gets through the
\* check of the registering handlers, and the signer becomes the owner.
THEOREM RegisteredIsRemovableHolds == ClientSpec => []RegisteredIsRemovable
<1>1. ClientInv => RegisteredIsRemovable
  BY DEF ClientInv, OwnedBySudo, RegisteredIsRemovable
<1> QED BY <1>1, ClientInvariance, PTL

\* An index read off a query still names the same provider's record, for lists
\* of any length, as long as no record of the code was removed meanwhile.
THEOREM IndexMeansWhatWasSeenHolds == ClientSpec => []IndexMeansWhatWasSeen
<1>1. ClientInv => IndexMeansWhatWasSeen
  BY DEF ClientInv, SeenHolds, IndexMeansWhatWasSeen
<1> QED BY <1>1, ClientInvariance, PTL

\* Somebody who is granted the use of a code is appointed for it in the block's
\* state, or sudo.
LEMMA GrantedIsAppointed ==
  ASSUME OperatedInv, NEW by \in Address, NEW c \in Code, NEW rpc \in Rpc,
         Answered(by, c, rpc.registry), Permitted(by, c, PERMISSION_MANAGER, rpc)
  PROVE  by = Sudo \/ by \in Range(registry.su) \/ ManagerOf(registry)[c] = by
<1> SUFFICES ASSUME by # Sudo
             PROVE  by \in Range(registry.su) \/ ManagerOf(registry)[c] = by
  OBVIOUS
<1>1. rpc.registry \in BOOLEAN /\ ~ConsultPanics(by, rpc.registry)
  BY RpcFacts DEF Answered
<1>2. rpc.registry \/ mem.cached
  BY <1>1 DEF Permitted, CheckPermission, LoadFails, PERMISSION_MANAGER, PERMISSION_NONE
<1>3. Registered!Level(c, by) <= 3
  BY <1>1, <1>2, GrantedIsRegistered DEF Permitted, PERMISSION_MANAGER
<1> QED BY <1>3, NilAssumption DEF Registered!Level

\* A record appears only if its provider is sudo or, at that very moment,
\* appointed according to the block's state: the cached permission is never
\* older than the state it is used with, whichever addresses were declared.
THEOREM RecordsOnlyByAppointedHolds == ClientSpec => RecordsOnlyByAppointed
<1> DEFINE Checked ==
      \A c \in Code :
        /\ codes[c] # Nil /\ codes'[c] # Nil
        /\ Len(codes'[c].records) > Len(codes[c].records)
        => \/ txn'.by = Sudo
           \/ txn'.by \in Range(registry.su)
           \/ ManagerOf(registry)[c] = txn'.by
<1>1. ClientInv /\ [ClientNext]_clientVars => [Checked]_handlerVars
  <2> SUFFICES ASSUME ClientInv, [ClientNext]_clientVars, ~(UNCHANGED handlerVars),
                      NEW c \in Code, codes[c] # Nil, codes'[c] # Nil,
                      Len(codes'[c].records) > Len(codes[c].records)
               PROVE  \/ txn'.by = Sudo
                      \/ txn'.by \in Range(registry.su)
                      \/ ManagerOf(registry)[c] = txn'.by
    OBVIOUS
  <2>1. Shown(codes[c]) = codes[c].records /\ Shown(codes'[c]) = codes'[c].records
    BY DEF Shown
  <2>2. Typed /\ Len(Shown(codes[c])) \in Nat
    BY ShownFacts DEF ClientInv, HandlerIInv, Typed
  <2>3. UNCHANGED state => FALSE
    BY <2>1, <2>2 DEF state
  <2>4. PICK by \in Address, rpc \in Declarations : CodeCommand(by, rpc)
    BY <2>3, OtherStepsKeep, SudoAssumption DEF ClientNext, Get, handlerVars, clientVars
  <2>5. CodeTxn(by, rpc) /\ rpc \in Rpc
    BY <2>4, CommandIsTxn, DeclarationFacts
  <2>6. ListChange(c, by, rpc)
    BY <2>2, <2>5, ListsChange
  <2>7. Typed'
    BY ClientStepsAreHandlerSteps, HandlerNextKeeps DEF ClientInv, HandlerIInv
  <2>8. Len(Shown(codes'[c])) \in Nat
    BY <2>7, ShownFacts DEF Typed
  <2>9. Answered(by, c, rpc.registry) /\ Permitted(by, c, PERMISSION_MANAGER, rpc)
    BY <2>1, <2>2, <2>6, <2>8 DEF ListChange
  <2>10. txn'.by = by
    BY <2>9 DEF Answered
  <2> QED BY <2>5, <2>9, <2>10, GrantedIsAppointed DEF ClientInv
<1> QED BY <1>1, ClientInvariance, PTL DEF ClientSpec, RecordsOnlyByAppointed

\* An appointed manager's `add', which does not declare the list, is served
\* exactly by a process that has cached the list.
THEOREM ServedIffCachedHolds == ClientSpec => ServedIffCached
<1> DEFINE Served ==
      \A by \in Address, c \in Code :
        /\ Appointed(by, c) /\ codes[c] # Nil
        /\ Add(by, c, Declared)
        => (outcome' = "ok" <=> mem.cached)
<1>1. ClientInv => Served
  <2> SUFFICES ASSUME ClientInv, NEW by \in Address, NEW c \in Code,
                      Appointed(by, c), codes[c] # Nil, Add(by, c, Declared)
               PROVE  outcome' = "ok" <=> mem.cached
    OBVIOUS
  <2>1. by # Sudo /\ ~ConsultPanics(by, FALSE)
    BY DEF Appointed, ConsultPanics, LoadPanics
  <2>2. /\ Declared.registry = FALSE /\ Declared.read = TRUE /\ Declared.write = TRUE
    BY DeclarationFacts
  <2>3. mem.cached => Permitted(by, c, PERMISSION_MANAGER, Declared)
    <3>1. Registered!Level(c, by) <= 3
      BY <2>1, SudoAssumption, NilAssumption DEF Appointed, Registered!Level
    <3> QED BY <2>1, <2>2, <3>1, GrantedIsRegistered DEF Permitted, PERMISSION_MANAGER, ClientInv
  <2>4. ~mem.cached => ~Permitted(by, c, PERMISSION_MANAGER, Declared)
    BY <2>1, <2>2 DEF Permitted, CheckPermission, LoadFails, PERMISSION_MANAGER, PERMISSION_NONE
  <2>5. CASE Permitted(by, c, PERMISSION_MANAGER, Declared)
    <3>1. outcome' = "ok"
      BY <2>1, <2>2, <2>5
         DEF Add, AddRecord, IfPermitted, ConsultCrash, OnCode, SaveGS1Code
    <3> QED BY <2>4, <2>5, <3>1
  <2>6. CASE ~Permitted(by, c, PERMISSION_MANAGER, Declared)
    <3>1. outcome' = "invalid"
      BY <2>1, <2>2, <2>6 DEF Add, AddRecord, IfPermitted, ConsultCrash, Ends
    <3> QED BY <2>3, <2>6, <3>1
  <2> QED BY <2>5, <2>6
<1>2. ClientInv /\ [ClientNext]_clientVars => [Served]_clientVars
  BY <1>1
<1> QED BY <1>2, ClientInvariance, PTL DEF ClientSpec, ServedIffCached
=============================================================================
