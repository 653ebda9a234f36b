---------------------------- MODULE OnsManager ----------------------------
(***************************************************************************)
(* The manager registry of the ONS transaction processor                   *)
(* (src/ons/ons_manager/ons_manager.go).  The sudo address appoints two    *)
(* kinds of managers: "su managers" and one manager per GS1 code.  The     *)
(* list is kept in the blockchain's global state under one address; the    *)
(* process keeps an unsynchronised copy of it in package globals and two   *)
(* look-up maps, and decides permissions from the maps.                    *)
(*                                                                         *)
(* A transaction of the family is one atomic step (one worker).  The       *)
(* environment may restart the process, give up the block under            *)
(* construction (its state changes vanish, the process memory does not),   *)
(* and make a state read or a state write fail.                            *)
(***************************************************************************)
EXTENDS Integers, Sequences, SequencesExt

CONSTANTS
  Address,   \* public keys that may sign transactions or be appointed
  Code,      \* GS1 codes
  Sudo,      \* g_sudo_address, set once by main
  Nil        \* nil slice or map; also the empty gs1_code string

ASSUME SudoAssumption == Sudo \in Address
ASSUME NilAssumption ==
  /\ Nil \notin Address
  /\ Nil \notin Code
  /\ \A set \in SUBSET Address : set # Nil

VARIABLES
  mem,           \* the globals of ons_manager.go, see Memory
  registry,      \* the list as the block under construction sees it
  registryHead,  \* the list in the last committed block
  txn            \* the last transaction: who signed it and how it ended

vars == <<mem, registry, registryHead, txn>>

-----------------------------------------------------------------------------
(* Data *)

Entry == [gs1 : Code, addr : Address]

ASSUME NilListAssumption == Nil \notin Seq(Address) /\ Nil \notin Seq(Entry)

\* ONSManager as stored.  An empty one marshals to zero bytes, which
\* LoadONSManager cannot tell from an address that was never written.
Registry == [su : Seq(Address), mgr : Seq(Entry)]
Absent == [su |-> <<>>, mgr |-> <<>>]

Memory == [su     : Seq(Address) \cup {Nil},       \* g_ons_manager.SuAddresses
           mgr    : Seq(Entry) \cup {Nil},         \* g_ons_manager.ManagerAddresses
           cached : BOOLEAN,                       \* g_state_cached
           suMap  : (SUBSET Address) \cup {Nil},   \* g_cached_ons_sumanagers
           mgrMap : [Code -> Address \cup {Nil}]]  \* g_cached_ons_managers

NoManagers == [c \in Code |-> Nil]

\* The globals of a process that has just started.
Fresh == [su |-> Nil, mgr |-> Nil, cached |-> FALSE, suMap |-> {}, mgrMap |-> NoManagers]

PERMISSION_SU_ADDRESS == 1
PERMISSION_SU_MANAGER == 2
PERMISSION_MANAGER    == 3
PERMISSION_NONE       == 4

\* What CheckPermission told the last transaction about the code it named.
Answer == [code : Code \cup {Nil}, level : 1..4]
NoAnswer == Nil

\* The kinds of transaction.  "use": anything that is not about managers.
\* "none": the environment's steps.
Op == {"appoint", "dismiss", "reset", "operate", "use", "refused", "none"}

\* "internal": an InternalError or an SDK error, which the validator retries.
\* No worker recovers from a panic, so the process dies; the two are a write
\* to a nil map and an index outside a slice.
Result == {"ok", "invalid", "internal", "nilMapPanic", "indexPanic", "none"}

Txn == [op : Op, by : Address \cup {Nil}, result : Result, answer : Answer \cup {NoAnswer}]
NoTxn == [op |-> "none", by |-> Nil, result |-> "none", answer |-> NoAnswer]

-----------------------------------------------------------------------------
(* Helpers of the package, as functions from memory to memory *)

Entries(list) == IF list = Nil THEN <<>> ELSE list
NilIfEmpty(list) == IF list = <<>> THEN Nil ELSE list

\* g_ons_manager as a registry: what SaveONSManager would write.
Held(m) == [su |-> Entries(m.su), mgr |-> Entries(m.mgr)]

Has(list, c) == \E i \in DOMAIN list : list[i].gs1 = c
Find(list, c) == CHOOSE i \in DOMAIN list : list[i].gs1 = c

\* loadCachedONSManager writes into g_cached_ons_sumanagers, which
\* clearCachedONSManager left nil: a write to a nil map panics.
LoadPanics(m, readable) ==
  /\ ~m.cached /\ readable
  /\ m.suMap = Nil /\ registry.su # <<>>

LoadFails(m, readable) == ~m.cached /\ ~readable

\* loadCachedONSManager: nothing when already cached, nothing when the read
\* fails, nothing when there is no registry; otherwise g_ons_manager is
\* replaced while the maps are only added to.
Loaded(m, readable) ==
  IF m.cached \/ ~readable \/ registry = Absent THEN m
  ELSE [su     |-> NilIfEmpty(registry.su),
        mgr    |-> NilIfEmpty(registry.mgr),
        cached |-> TRUE,
        suMap  |-> IF m.suMap = Nil THEN Nil ELSE m.suMap \cup Range(registry.su),
        mgrMap |-> [c \in Code |-> IF Has(registry.mgr, c)
                                   THEN registry.mgr[Find(registry.mgr, c)].addr
                                   ELSE m.mgrMap[c]]]

\* Variant of Cleared: a process that has loaded nothing clears as well.
ClearedAnyway(m) == [Fresh EXCEPT !.suMap = Nil]

\* clearCachedONSManager: a no-op unless cached; makes the GS1 map twice and
\* the su map never.
Cleared(m) == IF m.cached THEN [Fresh EXCEPT !.suMap = Nil] ELSE m

\* Variant of WithManager: the list is not searched for the code.
WithManagerAppended(m, c, a) ==
  IF m.mgrMap[c] = a THEN m
  ELSE [m EXCEPT !.mgrMap = [@ EXCEPT ![c] = a],
                 !.mgr = Append(Entries(@), [gs1 |-> c, addr |-> a])]

\* AddGS1CodeManager from "update or add address" on.  A map hit with the
\* same address changes nothing, whatever the list says.
WithManager(m, c, a) ==
  LET list == Entries(m.mgr) IN
  IF m.mgrMap[c] = a THEN m
  ELSE [m EXCEPT
          !.mgrMap = [@ EXCEPT ![c] = a],
          !.mgr = IF Has(list, c) THEN [list EXCEPT ![Find(list, c)] = [gs1 |-> c, addr |-> a]]
                  ELSE Append(list, [gs1 |-> c, addr |-> a])]

\* Variant of WithoutManager: the map entry stays.
WithoutManagerUnmapped(m, c) ==
  [m EXCEPT !.mgr = IF Has(@, c) THEN RemoveAt(@, Find(@, c)) ELSE @]

\* The delete-while-ranging loops of RemoveGS1CodeManager and RemoveSuManager,
\* in closed form for lists without duplicates (module DeleteLoop shows that
\* the loop as written computes this on such lists).
WithoutManager(m, c) ==
  [m EXCEPT !.mgrMap = [@ EXCEPT ![c] = Nil],
            !.mgr = IF Has(@, c) THEN RemoveAt(@, Find(@, c)) ELSE @]

\* Variant of WithSu: the map is not told.
WithSuUnmapped(m, a) == [m EXCEPT !.su = Append(Entries(@), a)]

WithSu(m, a) ==
  [m EXCEPT !.suMap = @ \cup {a}, !.su = Append(Entries(@), a)]

WithoutSu(m, a) ==
  [m EXCEPT !.suMap = IF @ = Nil THEN Nil ELSE @ \ {a},
            !.su = IF \E i \in DOMAIN @ : @[i] = a
                   THEN RemoveAt(@, CHOOSE i \in DOMAIN @ : @[i] = a) ELSE @]

\* CheckPermission on loaded memory.  The empty code is refused before the su
\* map is looked at.
PermissionLevel(m, c, by) ==
  CASE by = Sudo                                    -> PERMISSION_SU_ADDRESS
    [] by # Sudo /\ c = Nil                         -> PERMISSION_NONE
    [] by # Sudo /\ c # Nil /\ m.suMap # Nil /\ by \in m.suMap -> PERMISSION_SU_MANAGER
    [] by # Sudo /\ c # Nil /\ ~(m.suMap # Nil /\ by \in m.suMap) ->
         IF m.mgrMap[c] = by THEN PERMISSION_MANAGER ELSE PERMISSION_NONE

\* Variant of Consulted: the list is never loaded.
ConsultedUnloaded(by, readable) == mem

\* The memory CheckPermission leaves behind: sudo is answered without a load.
Consulted(by, readable) == IF by = Sudo THEN mem ELSE Loaded(mem, readable)
ConsultPanics(by, readable) == by # Sudo /\ LoadPanics(mem, readable)
\* Variant of CheckPermission: a failed load is ignored, as AddManager does.
CheckPermissionAnyway(c, by, readable) == PermissionLevel(Consulted(by, readable), c, by)

CheckPermission(c, by, readable) ==
  IF by # Sudo /\ LoadFails(mem, readable) THEN PERMISSION_NONE
  ELSE PermissionLevel(Consulted(by, readable), c, by)

-----------------------------------------------------------------------------
(* Outcomes *)

End(op, by, result) ==
  txn' = [op |-> op, by |-> by, result |-> result, answer |-> NoAnswer]

\* The transaction ends without a write to state, as a rule because it is turned
\* down; what it did to the memory stays.
Unwritten(op, by, m, result) ==
  /\ mem' = m
  /\ End(op, by, result)
  /\ UNCHANGED <<registry, registryHead>>

\* A panic in a worker ends the process; a new one starts empty.
Crash(op, by) == Unwritten(op, by, Fresh, "nilMapPanic")

\* SaveONSManager writes the list in memory, all of it.
SaveONSManager(op, by, m, writable) ==
  \/ /\ writable
     /\ mem' = m
     /\ registry' = Held(m)
     /\ End(op, by, "ok")
     /\ UNCHANGED registryHead
  \/ ~writable /\ Unwritten(op, by, m, "internal")

\* GetPermissionLevel("", by, ...) of the sudo-only handlers: su managers are
\* asked about the empty code, so nobody but sudo passes.
Refuse(by, readable) ==
  /\ by # Sudo
  /\ \/ ConsultPanics(by, readable) /\ Crash("refused", by)
     \/ /\ ~ConsultPanics(by, readable)
        /\ Unwritten("refused", by, Consulted(by, readable), "invalid")

-----------------------------------------------------------------------------
(* Transactions *)

\* Variant of AddManager: it does not load.
AddManagerUnloaded(by, c, a, readable, writable) ==
  \/ Refuse(by, readable)
  \/ by = Sudo /\ SaveONSManager("appoint", by, WithManager(mem, c, a), writable)

\* applyAddManager, AddGS1CodeManager.  A failed load is logged and ignored.
AddManager(by, c, a, readable, writable) ==
  LET m == Loaded(mem, readable) IN
  \/ Refuse(by, readable)
  \/ by = Sudo /\ LoadPanics(mem, readable) /\ Crash("appoint", by)
  \/ /\ by = Sudo /\ ~LoadPanics(mem, readable)
     /\ SaveONSManager("appoint", by, WithManager(m, c, a), writable)

\* Variant of DeleteAllManager: the signer is not checked.
DeleteAllManagerUnchecked(by, readable, writable) ==
  \/ ~writable /\ Unwritten("reset", by, Cleared(mem), "internal")
  \/ /\ writable
     /\ mem' = Cleared(mem)
     /\ registry' = Absent
     /\ End("reset", by, "ok")
     /\ UNCHANGED registryHead

\* applyAddManager with code "0": DeleteAllManager ("just for test").
DeleteAllManager(by, readable, writable) ==
  \/ Refuse(by, readable)
  \/ /\ by = Sudo /\ ~writable
     /\ Unwritten("reset", by, Cleared(mem), "internal")
  \/ /\ by = Sudo /\ writable
     /\ mem' = Cleared(mem)
     /\ registry' = Absent
     /\ End("reset", by, "ok")
     /\ UNCHANGED registryHead

\* applyRemoveManager, RemoveGS1CodeManager.
RemoveManager(by, c, readable, writable) ==
  LET m == Loaded(mem, readable) IN
  \/ Refuse(by, readable)
  \/ by = Sudo /\ LoadPanics(mem, readable) /\ Crash("dismiss", by)
  \/ /\ by = Sudo /\ ~LoadPanics(mem, readable) /\ m.mgr = Nil
     /\ Unwritten("dismiss", by, m, "internal")
  \/ /\ by = Sudo /\ ~LoadPanics(mem, readable) /\ m.mgr # Nil
     /\ SaveONSManager("dismiss", by, WithoutManager(m, c), writable)

\* Variant of AddSuManager: the signer is not checked.
AddSuManagerUnchecked(by, a, readable, writable) ==
  \/ mem.suMap = Nil /\ Crash("appoint", by)
  \/ /\ mem.suMap # Nil /\ a \in mem.suMap
     /\ SaveONSManager("appoint", by, mem, writable)
  \/ /\ mem.suMap # Nil /\ a \notin mem.suMap
     /\ SaveONSManager("appoint", by, WithSu(mem, a), writable)

\* applyAddSuManager, AddSuManager.  Unlike AddManager it never loads, so it
\* saves whatever list the process happens to hold.
AddSuManager(by, a, readable, writable) ==
  \/ Refuse(by, readable)
  \/ by = Sudo /\ mem.suMap = Nil /\ Crash("appoint", by)
  \/ /\ by = Sudo /\ mem.suMap # Nil /\ a \in mem.suMap
     /\ SaveONSManager("appoint", by, mem, writable)
  \/ /\ by = Sudo /\ mem.suMap # Nil /\ a \notin mem.suMap
     /\ SaveONSManager("appoint", by, WithSu(mem, a), writable)

\* applyRemoveSuManager, RemoveSuManager.  It never loads either.
RemoveSuManager(by, a, readable, writable) ==
  \/ Refuse(by, readable)
  \/ by = Sudo /\ mem.su = Nil /\ Unwritten("dismiss", by, mem, "internal")
  \/ /\ by = Sudo /\ mem.su # Nil
     /\ SaveONSManager("dismiss", by, WithoutSu(mem, a), writable)

\* applyOPManager, OperateManager.  Operation 1 reloads; any other does nothing.
OperateManager(by, op, readable) ==
  LET m == Cleared(mem) IN
  \/ by # Sudo /\ Unwritten("refused", by, mem, "invalid")
  \/ by = Sudo /\ op # 1 /\ Unwritten("operate", by, mem, "ok")
  \/ by = Sudo /\ op = 1 /\ LoadPanics(m, readable) /\ Crash("operate", by)
  \/ by = Sudo /\ op = 1 /\ LoadFails(m, readable) /\ Unwritten("operate", by, m, "internal")
  \/ /\ by = Sudo /\ op = 1 /\ ~LoadPanics(m, readable) /\ ~LoadFails(m, readable)
     /\ Unwritten("operate", by, Loaded(m, readable), "ok")

\* Any transaction of ons_handler.go that is not about managers: it asks
\* CheckPermission about code c (Nil for the sudo-only ones) and then does what
\* module OnsHandler says.  It dies if the load does, and may go on to index a
\* slice out of range.
ConsultCrash(by, readable) == ConsultPanics(by, readable) /\ Crash("use", by)

Answered(by, c, readable) ==
  /\ ~ConsultPanics(by, readable)
  /\ mem' = Consulted(by, readable)
  /\ txn' = [op |-> "use", by |-> by, result |-> "ok",
             answer |-> [code |-> c, level |-> CheckPermission(c, by, readable)]]
  /\ UNCHANGED <<registry, registryHead>>

IndexCrash(by, readable) ==
  ~ConsultPanics(by, readable) /\ Unwritten("use", by, Fresh, "indexPanic")

UseTxn(by, c, readable) ==
  ConsultCrash(by, readable) \/ Answered(by, c, readable) \/ IndexCrash(by, readable)

-----------------------------------------------------------------------------
(* Environment: the validator and the operator *)

\* The process is stopped and started; the validator replays nothing.
Restart == mem' = Fresh /\ txn' = NoTxn /\ UNCHANGED <<registry, registryHead>>

CommitBlock == registryHead' = registry /\ txn' = NoTxn /\ UNCHANGED <<mem, registry>>

\* The block is given up (a candidate that is not published, a lost fork, the
\* publisher's run before validation): state goes back, memory does not.
AbortBlock == registry' = registryHead /\ txn' = NoTxn /\ UNCHANGED <<mem, registryHead>>

-----------------------------------------------------------------------------
Init ==
  /\ mem = Fresh
  /\ registry = Absent
  /\ registryHead = Absent
  /\ txn = NoTxn

AppointTxn(by, readable, writable) ==
  \/ \E c \in Code, a \in Address : AddManager(by, c, a, readable, writable)
  \/ \E a \in Address : AddSuManager(by, a, readable, writable)

DismissTxn(by, readable, writable) ==
  \/ \E c \in Code : RemoveManager(by, c, readable, writable)
  \/ \E a \in Address : RemoveSuManager(by, a, readable, writable)
  \/ DeleteAllManager(by, readable, writable)

Next ==
  \/ \E by \in Address, readable, writable \in BOOLEAN :
       AppointTxn(by, readable, writable) \/ DismissTxn(by, readable, writable)
  \/ \E by \in Address, op \in {0, 1}, readable \in BOOLEAN : OperateManager(by, op, readable)
  \/ \E by \in Address, c \in Code \cup {Nil}, readable \in BOOLEAN : UseTxn(by, c, readable)
  \/ Restart \/ CommitBlock \/ AbortBlock

Spec == Init /\ [][Next]_vars

-----------------------------------------------------------------------------
(* Properties of every behaviour *)

TypeOK ==
  /\ mem \in Memory
  /\ registry \in Registry
  /\ registryHead \in Registry
  /\ txn \in Txn

Injective(list) == \A i, j \in DOMAIN list : list[i] = list[j] => i = j
UniqueCodes(list) == \A i, j \in DOMAIN list : list[i].gs1 = list[j].gs1 => i = j
NoDuplicates(r) == Injective(r.su) /\ UniqueCodes(r.mgr)

\* No address is listed twice among the su managers and no code twice among
\* the code managers, in memory or in state, although aborts, restarts and
\* failed writes let memory and state drift apart.  The delete loops of
\* RemoveSuManager and RemoveGS1CodeManager run off the slice otherwise.
NoDuplicateManagers ==
  /\ NoDuplicates(Held(mem))
  /\ NoDuplicates(registry)
  /\ NoDuplicates(registryHead)

\* Every su manager in the list is in the map AddSuManager consults before it
\* appends, so an appointment is never appended twice; and a process whose su
\* map is nil lists none.
SuWithinMap(m) ==
  \A i \in DOMAIN Entries(m.su) : m.suMap # Nil /\ Entries(m.su)[i] \in m.suMap
SuListWithinMap == SuWithinMap(mem)

\* Only a transaction sudo signed, and that ended well, changes the list in the
\* block under construction; giving the block up restores the committed list.
OnlySudoChangesRegistry ==
  [][registry' # registry =>
       \/ txn'.by = Sudo /\ txn'.result = "ok"
       \/ txn' = NoTxn /\ registry' = registryHead]_vars

\* Every pair of an address and a role (a code, or Nil for a su manager) that
\* the registry r or the memory m says holds.
RolesIn(r) ==
  {<<r.su[i], Nil>> : i \in DOMAIN r.su} \cup {<<r.mgr[i].addr, r.mgr[i].gs1>> : i \in DOMAIN r.mgr}
RolesInMaps(m) ==
  (IF m.suMap = Nil THEN {} ELSE {<<a, Nil>> : a \in m.suMap})
    \cup {<<m.mgrMap[c], c>> : c \in {d \in Code : m.mgrMap[d] # Nil}}
Roles ==
  RolesIn(Held(mem)) \cup RolesInMaps(mem) \cup RolesIn(registry) \cup RolesIn(registryHead)

\* Whatever is lost, stale or rolled back, a role that list, maps and state did
\* not know appears only in an appointment sudo signed, one at a time: nobody
\* ever holds a permission that sudo did not ask for, and no load, abort or
\* restart brings one about.
RolesComeFromSudo ==
  [][\A r, q \in Roles' \ Roles : r = q /\ txn'.op = "appoint" /\ txn'.by = Sudo]_vars
=============================================================================
