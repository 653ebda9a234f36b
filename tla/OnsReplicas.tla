---------------------------- MODULE OnsReplicas ----------------------------
(***************************************************************************)
(* Several validators, each with a transaction processor of its own, agree *)
(* on blocks.  One of them builds a block: its processor executes          *)
(* transactions on top of the committed list, and those that end well go   *)
(* into the block together with the list they lead to.  Then every         *)
(* validator, the publisher included, executes the block again on top of   *)
(* the committed list.  The block is committed if all of them arrive at    *)
(* the publisher's list.  It may be dropped at any moment instead: before  *)
(* it is published, because somebody refuses it, or because another block  *)
(* won.                                                                    *)
(*                                                                         *)
(* A processor starts each run with the globals the last one left: the     *)
(* state goes back to the committed list, the memory does not.  So the     *)
(* publisher executes its own block a second time with a memory that is    *)
(* ahead of the state, and whoever took part in a dropped block knows of   *)
(* appointments and dismissals that never were.  Nothing in the code tells *)
(* a processor so; only a restart helps.  The history variable astray      *)
(* keeps the validators whose processors went wrong like that, and         *)
(* agreement is a property of the others.                                  *)
(***************************************************************************)
EXTENDS OnsManagerOperated

CONSTANTS
  Validator,
  Transaction,  \* the transactions that clients may send
  MaxBlock      \* bound on the transactions of a block

ASSUME NilValidatorAssumption == Nil \notin Validator
ASSUME MaxBlockAssumption == MaxBlock \in Nat
ASSUME NilAnswerAssumption == Nil \notin Answer

\* code and addr are Nil where the kind has none.  "use" is any transaction
\* that needs PERMISSION_MANAGER for a code, and addr its signer; all others
\* are signed by sudo.
Kind == {"add", "remove", "addSu", "removeSu", "op", "use"}
ASSUME TransactionAssumption ==
  \A t \in Transaction :
    /\ t \in [kind : Kind, code : Code \cup {Nil}, addr : Address \cup {Nil}]
    /\ t.code = Nil <=> t.kind \in {"addSu", "removeSu", "op"}
    /\ t.addr = Nil <=> t.kind \in {"remove", "op"}

\* mem, registry and txn of OnsManager are those of the processor at work.
VARIABLES
  stage,      \* "idle", "building" or "checking"
  worker,     \* the validator whose processor is at work
  publisher,  \* the validator that built the block
  block,      \* its transactions
  root,       \* the list it arrived at
  pos,        \* how many of them the worker has executed while checking
  parked,     \* the globals of the processors that are not at work
  verdict,    \* what each validator says of the block
  astray      \* history: validators whose processor is due for a restart

runVars == <<stage, worker, publisher, block, root, pos, parked, verdict>>
replicaVars == <<vars, runVars, astray>>

Verdict == {"none", "accepts", "refuses"}
NoVerdict == [v \in Validator |-> "none"]
AllFresh == [v \in Validator |-> Fresh]

-----------------------------------------------------------------------------
(* Executing a transaction *)

Execute(t) ==
  \/ t.kind = "add" /\ AddManager(Sudo, t.code, t.addr, TRUE, TRUE)
  \/ t.kind = "remove" /\ RemoveManager(Sudo, t.code, TRUE, TRUE)
  \/ t.kind = "addSu" /\ AddSuManager(Sudo, t.addr, TRUE, TRUE)
  \/ t.kind = "removeSu" /\ RemoveSuManager(Sudo, t.addr, TRUE, TRUE)
  \/ t.kind = "op" /\ OperateManager(Sudo, 1, TRUE)
  \/ t.kind = "use" /\ (ConsultCrash(t.addr, TRUE) \/ Answered(t.addr, t.code, TRUE))

\* A worker that panics takes the process with it; the validator sends the same
\* transaction to the next process.
Died == txn'.result = "nilMapPanic"
Passed == txn'.result = "ok" /\ (txn'.answer # Nil => txn'.answer.level <= PERMISSION_MANAGER)

-----------------------------------------------------------------------------
(* What a careful operator sends, and who goes astray nevertheless *)

Writes(t) == t.kind \in {"add", "remove", "addSu", "removeSu"}
Plain(b) == \A i \in DOMAIN b : ~Writes(b[i])

Holds(t, r) ==
  \/ t.kind = "remove" /\ Has(r.mgr, t.code)
  \/ t.kind = "removeSu" /\ t.addr \in Range(r.su)

\* Only managers are dismissed (an empty list answers with an error or not,
\* depending on whether the process once had an entry); OP_MANAGER is the only
\* transaction of its block.
Sendable(t) ==
  /\ t.kind \in {"remove", "removeSu"} => Holds(t, registry)
  /\ t.kind = "op" => block = <<>>
  /\ \A i \in DOMAIN block : block[i].kind # "op"

\* A processor that can take su managers: it has loaded the list, and its su
\* map was not left nil by a clear.  To have written the list is not enough: the
\* load that is still to come may turn an empty su list into a nil one.
Ready(m) == m.suMap # Nil /\ (m.cached \/ registryHead = Absent)

Unready(t) == t.kind \in {"addSu", "removeSu"} /\ ~Ready(mem)

\* The processor at work takes t.
Exposed(t) == IF Unready(t) THEN astray \cup {worker} ELSE astray

\* Whoever executed some of the block.
Involved == {worker, publisher} \cup {v \in Validator : verdict[v] # "none"}

-----------------------------------------------------------------------------
(* Steps *)

\* The processor of v goes to work on top of the committed list.
StartRun(v, memories) ==
  /\ worker' = v
  /\ mem' = memories[v]
  /\ parked' = [memories EXCEPT ![v] = Fresh]
  /\ registry' = registryHead
  /\ txn' = NoTxn
  /\ UNCHANGED registryHead

Memories == [parked EXCEPT ![worker] = mem]

Build(v) ==
  /\ stage = "idle"
  /\ stage' = "building" /\ publisher' = v
  /\ StartRun(v, parked)
  /\ UNCHANGED <<block, root, pos, verdict, astray>>

\* A transaction that is turned down is left out of the block.
Include(t) ==
  /\ stage = "building"
  /\ Len(block) < MaxBlock
  /\ Sendable(t)
  /\ Execute(t)
  /\ block' = IF Passed THEN Append(block, t) ELSE block
  /\ astray' = Exposed(t)
  /\ UNCHANGED <<stage, worker, publisher, root, pos, parked, verdict>>

Publish ==
  /\ stage = "building" /\ block # <<>>
  /\ stage' = "checking" /\ root' = registry
  /\ \E v \in Validator : StartRun(v, Memories)
  /\ UNCHANGED <<publisher, block, pos, verdict, astray>>

Check ==
  /\ stage = "checking" /\ pos < Len(block) /\ verdict[worker] = "none"
  /\ Execute(block[pos + 1])
  /\ pos' = IF Passed THEN pos + 1 ELSE pos
  /\ astray' = Exposed(block[pos + 1])
  /\ verdict' = [verdict EXCEPT ![worker] = IF Died \/ Passed THEN "none" ELSE "refuses"]
  /\ UNCHANGED <<stage, worker, publisher, block, root, parked>>

Compare ==
  /\ stage = "checking" /\ pos = Len(block) /\ verdict[worker] = "none"
  /\ verdict' = [verdict EXCEPT ![worker] = IF registry = root THEN "accepts" ELSE "refuses"]
  /\ UNCHANGED <<vars, stage, worker, publisher, block, root, pos, parked, astray>>

NextValidator ==
  /\ stage = "checking" /\ verdict[worker] # "none"
  /\ \E v \in Validator : verdict[v] = "none" /\ StartRun(v, Memories)
  /\ pos' = 0
  /\ UNCHANGED <<stage, publisher, block, root, verdict, astray>>

\* The block is done with, and `list' is the committed list.
Finish(list) ==
  /\ registryHead' = list /\ registry' = list
  /\ parked' = Memories
  /\ mem' = Fresh /\ txn' = NoTxn
  /\ stage' = "idle" /\ worker' = Nil /\ publisher' = Nil
  /\ block' = <<>> /\ root' = Absent /\ pos' = 0 /\ verdict' = NoVerdict

Commit ==
  /\ stage = "checking" /\ \A v \in Validator : verdict[v] = "accepts"
  /\ Finish(root)
  /\ UNCHANGED astray

\* The memories of all involved stay as they are.
Drop ==
  /\ stage # "idle"
  /\ Finish(registryHead)
  /\ astray' = IF Plain(block) THEN astray ELSE astray \cup Involved

\* The processor of v is restarted while it is not at work.  That makes it sound
\* again, unless it has had its part in the block already.
RestartParked(v) ==
  /\ v # worker /\ (parked[v] # Fresh \/ v \in astray)
  /\ parked' = [parked EXCEPT ![v] = Fresh]
  /\ astray' = IF v # publisher /\ verdict[v] = "none" THEN astray \ {v} ELSE astray
  /\ UNCHANGED <<vars, stage, worker, publisher, block, root, pos, verdict>>

\* The processor at work is restarted between two transactions of a block.
RestartWorker ==
  /\ stage # "idle" /\ verdict[worker] = "none" /\ mem # Fresh
  /\ mem' = Fresh /\ txn' = NoTxn
  /\ astray' = astray \cup {worker}
  /\ UNCHANGED <<registry, registryHead, runVars>>

ReplicaInit ==
  /\ Init
  /\ stage = "idle" /\ worker = Nil /\ publisher = Nil
  /\ block = <<>> /\ root = Absent /\ pos = 0
  /\ parked = AllFresh /\ verdict = NoVerdict /\ astray = {}

ReplicaNext ==
  \/ \E v \in Validator : Build(v) \/ RestartParked(v)
  \/ \E t \in Transaction : Include(t)
  \/ Publish \/ Check \/ Compare \/ NextValidator
  \/ Commit \/ Drop \/ RestartWorker

ReplicaSpec == ReplicaInit /\ [][ReplicaNext]_replicaVars

-----------------------------------------------------------------------------
(* Properties *)

Executed == stage = "checking" /\ pos = Len(block)

\* Neither the processor at work nor the publisher's is astray.  A processor is
\* from the moment at which it took part in a dropped block that writes the list,
\* appointed or dismissed a su manager without being ready, or was restarted in
\* the middle of a run, until it is restarted.
Sound == {worker, publisher} \cap astray = {}

SameEntry(t, s) == t.code = s.code /\ (t.code = Nil => t.addr = s.addr)

\* Somebody is dismissed by the block and appointed again later in it.
Reappoints ==
  \E i, j \in DOMAIN block :
    /\ i < j
    /\ \/ block[i].kind = "remove" /\ block[j].kind = "add"
       \/ block[i].kind = "removeSu" /\ block[j].kind = "addSu"
    /\ SameEntry(block[i], block[j])

\* A sound validator that executes the block of a sound publisher to its end
\* arrives at the publisher's list, whatever others the two have loaded, cleared,
\* lost in restarts, and accepted or refused before.  That holds for the publisher
\* itself, whose memory has been through the block before: what is in its maps
\* already is saved "with the same data" (ons_manager.go:283), what was dismissed
\* is dismissed again.  Only the order of its list may differ, and only if the
\* block appoints again what it dismissed: then it refuses its own block.
ReplicasAgree ==
  Executed /\ Sound =>
    /\ ManagerOf(registry) = ManagerOf(root) /\ Range(registry.su) = Range(root.su)
    /\ worker # publisher \/ ~Reappoints => registry = root

\* Transaction t takes from the signer of the use u a role it may rest on.
Unseats(t, u) ==
  \/ t.kind = "remove" /\ t.code = u.code
  \/ t.kind = "add" /\ t.code = u.code /\ t.addr # u.addr
  \/ t.kind = "removeSu" /\ t.addr = u.addr

\* What a sound publisher let into its block, every sound validator lets pass:
\* except that the publisher, executing the block again, refuses the transaction
\* of a manager whom a later transaction of the same block dismisses, since its
\* cache knows of that already.
GrantsAreRepeated ==
  [][stage' = "checking" /\ verdict' # verdict /\ pos < Len(block) /\ Sound' =>
       /\ worker = publisher
       /\ block[pos + 1].kind = "use"
       /\ \E i \in (pos + 2)..Len(block) : Unseats(block[i], block[pos + 1])]_replicaVars

Outdates == \E i, j \in DOMAIN block : i < j /\ block[i].kind = "use" /\ Unseats(block[j], block[i])

\* So nobody refuses a block while all processors are sound but its own
\* publisher, and that only if the block appoints again what it dismissed or
\* unseats a manager whom it has served before.
RefusedByPublisher ==
  \A v \in Validator : verdict[v] = "refuses" =>
    v \in astray \/ publisher \in astray \/ (v = publisher /\ (Reappoints \/ Outdates))
=============================================================================
