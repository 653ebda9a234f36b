------------------------ MODULE OnsManagerOperated ------------------------
(***************************************************************************)
(* OnsManager as its authors mean it to be run: the operator sends         *)
(* OP_MANAGER (or any transaction that loads the list) before the first    *)
(* ADD_SUMANAGER of a new process, blocks are never given up, writes       *)
(* succeed, and so do reads, except those of OP_MANAGER and of dismissals; *)
(* and the test transaction that deletes the list is not used.  The        *)
(* process may still be restarted or die of a panic at any step.  Under    *)
(* these conditions the cached list implements the uncached                *)
(* ManagerRegistry.  UnloadedSpec drops the first one.                     *)
(***************************************************************************)
EXTENDS OnsManager

\* The process has read or written the list since it started, or there is no
\* list to know of.
KnowsRegistry == mem.cached \/ mem.su # Nil \/ mem.mgr # Nil \/ registry = Absent

OperatedManagerTxn(by) ==
  \/ \E c \in Code, a \in Address : AddManager(by, c, a, TRUE, TRUE)
  \/ \E c \in Code, readable \in BOOLEAN : RemoveManager(by, c, readable, TRUE)
  \/ \E a \in Address : KnowsRegistry /\ AddSuManager(by, a, TRUE, TRUE)
  \/ \E a \in Address : RemoveSuManager(by, a, TRUE, TRUE)
  \/ \E op \in {0, 1}, readable \in BOOLEAN : OperateManager(by, op, readable)

OperatedNext ==
  \/ \E by \in Address : OperatedManagerTxn(by)
  \/ \E by \in Address, c \in Code \cup {Nil} : UseTxn(by, c, TRUE)
  \/ Restart

OperatedSpec == Init /\ [][OperatedNext]_vars

-----------------------------------------------------------------------------
(* The same with one condition dropped *)

\* ADD_SUMANAGER may be the first transaction of a process.
UnloadedNext ==
  \/ OperatedNext
  \/ \E by, a \in Address : AddSuManager(by, a, TRUE, TRUE)

UnloadedSpec == Init /\ [][UnloadedNext]_vars

-----------------------------------------------------------------------------
ManagerOf(r) == [c \in Code |-> IF Has(r.mgr, c) THEN r.mgr[Find(r.mgr, c)].addr ELSE Nil]

Registered == INSTANCE ManagerRegistry
  WITH su <- Range(registry.su), mgr <- ManagerOf(registry),
       answer <- txn.answer

\* The list in the block is, step by step, the abstract registry, and every
\* permission answer given from the cache is the one the registry would give.
ImplementsRegistry == Registered!Spec

KnowsNothing == mem \in {Fresh, [Fresh EXCEPT !.suMap = Nil]}

KnowsAll ==
  /\ Held(mem) = registry
  /\ mem.mgrMap = ManagerOf(registry)
  /\ mem.suMap = Nil => registry.su = <<>>
  /\ mem.suMap # Nil => mem.suMap = Range(registry.su)

\* The cache is all or nothing: either the process knows no manager at all, or
\* its list and both maps say exactly what the block's state says; the two
\* write paths that update list and map one after the other never part them.
CacheAllOrNothing == (mem.cached => KnowsAll) /\ (KnowsNothing \/ KnowsAll)

\* A registered su manager passes the permission check that AddManager and
\* RemoveManager make (ons_handler.go:333-334 and 347-348: "if the permission is
\* SU Address or SU Manager ... registering, deleting and modifying is
\* possible").
SuManagersMayAppoint ==
  \A a \in Range(registry.su) : CheckPermission(Nil, a, TRUE) <= PERMISSION_SU_MANAGER

\* One appointment sets one entry of the list: it makes one address a su manager
\* or gives one code a manager, the one it had or another ("update or add
\* address", ons_manager.go:208, 281), and leaves everybody else what they were.
AppointingKeepsOthers ==
  [][txn'.op = "appoint" =>
       LET changed == {c \in Code : ManagerOf(registry')[c] # ManagerOf(registry)[c]}
           new == Range(registry'.su) \ Range(registry.su)
       IN  /\ Range(registry.su) \subseteq Range(registry'.su)
           /\ \A c \in changed : ManagerOf(registry')[c] # Nil
           /\ \A c, d \in changed : c = d
           /\ \A a, b \in new : a = b
           /\ changed = {} \/ new = {}]_vars
=============================================================================
