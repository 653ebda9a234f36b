# A verification project for ons-sawtooth

ons-sawtooth keeps an Object Name Service on a Hyperledger Sawtooth blockchain: GS1 codes with the service records of
their providers, service types, and a list of the managers who may change them. This directory holds TLA+ models of its
three programs, the transaction processor (`src/ons`), the command line client with its query tool (`src/ons_test`) and
the event mirror (`src/ons_sync`), the TLC configurations that check them, and TLAPS proofs. `PROJECT.json` maps every
definition to the lines it stands for. Paths below leave out the leading `src/src/`.

- [1 The system](#1-the-system)
- [2 Modules](#2-modules)
- [3 Runs](#3-runs)
- [4 What the runs found](#4-what-the-runs-found)
- [5 Proofs](#5-proofs)
- [6 Not modelled](#6-not-modelled)
- [7 Plan](#7-plan)

## 1 The system

    client (ons_test) --transactions--> validator --Apply--> ons  (handler, manager, state, service)
                                           |                    reads and writes global state
                                           +--state deltas of committed blocks--> ons_sync --> RethinkDB

### Transaction processor, `ons`

| part | state | operations |
|---|---|---|
| `ons_manager` | package globals: the list `g_ons_manager`, the flag `g_state_cached`, look-up maps for codes and su managers; one address of global state | add, remove manager and su manager, delete all, reload (`OP_MANAGER`), `CheckPermission` |
| `ons_handler` | none | 13 transactions: permission, load, check, save |
| `ons_state`, `ons_service` | global state: a GS1 code with its records, a service type | load, save, delete |
| `main` | the sudo address, set once | start |

`Apply` asks `CheckPermission`, which loads the manager list into the globals the first time and answers from the maps
ever after. The validator decides when transactions run, may run one again, may give up the block it is building (its
state changes vanish, the globals of the processor do not) and answers every state access over RPC, which may fail. No
worker recovers from a panic: it ends the process, and the next one starts with empty globals.

What is hard: the list lives three times (state, list in memory, maps) and no code keeps them together; some operations
load before they save, others do not; clearing the cache leaves one of the two maps nil; records are named by an index
that shifts; list elements are deleted while the list is ranged over.

What makes it correct: nobody has a permission sudo did not give; no entry is listed twice; appointing one manager
loses no other; permissions are those the state would give; a provider's records change only by its own transactions;
only sudo activates anything; a failed transaction is answered, not fatal.

### Event mirror, `ons_sync`

| part | state | operations |
|---|---|---|
| `main` | where it is | connect, run, subscribe, wait for an interrupt, unsubscribe, terminate |
| `runSubscriber` | `subscirbed`, three unbuffered channels | write requests to the websocket |
| `runReceiveEvents` | none | read a message, start a goroutine for it |
| `UpdateOnsEvent` | globals `g_current_latest_ons_event`, `g_latest_block_id` | walk back block by block, copy what a block changed |
| `sync.go` | RethinkDB: the row of `latest_updated_block_info`, the tables of codes and service types | insert, update if newer, "delete" |

An event names its predecessor. The handler asks for it with `get_block_deltas` until the predecessor is the block at
which the walk is to stop, which is the one before the block the row named when the global was last read.

What is hard: one goroutine per message, none of the globals locked; the row advances before the walk; the answer for a
block that does not exist decodes to an event without a block; channels block for ever if nobody reads.

What makes it correct: every committed block is copied in the end, in whatever order goroutines run; no record goes
back to an older value; a restart takes up where the last process ended; nobody waits on a goroutine that is gone.

### Client, `ons_test` and `ons_query`

| part | state | operations |
|---|---|---|
| `sawtooth-ons-test.go` | none | one command: make the payload, declare one address as input and output, sign, post |
| `query.go` | none | read one address of the committed state and print it |

The address a command declares decides what the handler may read: commands about managers declare the list, all others
only the code or service type they are about, and then the permission check of anybody but sudo cannot load the list.

What is hard: a permission that depends on what the process happens to have cached; an index that is read in a query
and used in a later transaction.

What makes it correct: the index still names the record that was seen; what was registered can be removed again.

The generated protobuf code keeps no state; see section 6.

## 2 Modules

    ManagerRegistry      the abstract list: sets and functions, no cache
      ^ implemented by                    +--- OnsHandler <--- OnsClient
    OnsManager  <---  OnsManagerOperated <+--- OnsReplicas
      ^                                   +--- OnsWorkers          ChainMirror  the abstract mirror
    OnsManagerLives                                                  ^ implemented by
    DeleteLoop                                                     OnsSync

    proofs: OnsManager_proofs <--- OnsHandler_proofs <--- OnsClient_proofs
                              <--- OnsWorkers_proofs
                              <--- OnsReplicas_proofs
            DeleteLoop_proofs, OnsSync_proofs;  ListFacts: lemmas that several of them use

An arrow `A <--- B` reads: B extends A.

**OnsManager** (`ons/ons_manager`). `mem` is the record of the globals: `su` and `mgr` are the two lists of
`g_ons_manager` (`Nil` until something is stored or loaded), `cached` is `g_state_cached`, `suMap` and `mgrMap` the
maps. `registry` is the stored list in the block under construction, `registryHead` in the last committed block; an
empty list marshals to nothing, so "absent" and "empty" are one value. `txn` records who sent the last transaction and
how it ended. One action per handler: `AddManager`, `RemoveManager`, `AddSuManager`, `RemoveSuManager`,
`DeleteAllManager` (the code `"0"`), `OperateManager`, and `UseTxn` for every transaction that only asks for a
permission. `readable` and `writable` say whether the RPC of the transaction succeeds. `Crash` is a write to the nil
map. `Restart`, `CommitBlock` and `AbortBlock` are the environment. A transaction is atomic here; `OnsWorkers` takes it
apart.

**OnsManagerLives.** `OnsManager` with a history of the process that is running: `cleared` says whether it has emptied
its cache since it started, which two transactions do (`ClearTxn`). A panic or a restart begins a new life.

**DeleteLoop** (`ons_manager.go:258-262`, `316-320`). The delete-while-ranging loop as Go runs it, on the array behind
the slice. It justifies the closed form `RemoveAt` that `OnsManager` uses, for lists without duplicates, which is why
`NoDuplicateManagers` matters. It is proved for every length and has no run.

**OnsManagerOperated.** The same actions under the conditions in which the program is meant to run: the list is loaded
before the first `ADD_SUMANAGER` of a process, no block is given up, no access fails but the reads of `OP_MANAGER` and
of dismissals, the test transaction `"0"` is not used. Processes may still be restarted or die: a reload that fails
leaves a cleared cache behind, on which the next load panics. `UnloadedSpec` drops the first condition.

**ManagerRegistry.** What callers of the package expect: a set, a function, answers from exactly these.
`OnsManagerOperated` maps `su` to the range of the stored list, `mgr` to the look-up in it, `answer` to the last
permission answer.

**OnsHandler** (`ons/ons_handler`, `ons_state`, `ons_service`). Adds `codes`, `services` (in the block) and `codesHead`,
`servicesHead` (committed). Every handler has the frame of the code: permission, load, checks, save, where `rpc` says
which of the three accesses fails. `HandlerSpec` runs under every fault. The address of a code is the code itself: no
hash collisions.

**OnsClient** (`ons_test`, `ons_query`). The commands of the client, each a handler of `OnsHandler` with the accesses
that its declaration allows: `Declared` is the client's own (one address, so the list is out of reach), and other
clients of the family, which may declare the list as well, are let in next to it. Manager commands run under the
conditions of `OnsManagerOperated`. `Get` queries a code; `seen` remembers one record that was read off a query until a
removal may have shifted the list.

**OnsReplicas.** Several validators with a processor each. One builds a block of up to `MaxBlock` transactions, then all
of them, the publisher included, execute it again on the committed state, with whatever their globals hold: `parked`
keeps the globals of the processors that are not at work. When all arrive at the publisher's list the block is
committed. At any moment before, it may be dropped (`Drop`): a candidate that is never published, a block that somebody
refuses, one that lost against another. The state then goes back, and the memory of everybody who had a part in it stays
ahead. Nothing in the code tells a processor so, and the properties would not hold of it; `astray` is the history of the
validators this has happened to. One goes astray when it has had a part in a dropped block that writes the list, when it
appoints or dismisses a su manager without being `Ready` (section 4), or when it is restarted in the middle of a run; a
restart between runs makes it sound again. Properties speak of sound processors, and of all of their other histories.
`Sendable` is the operator's care with the transactions; like `Ready` and `astray` it translates no code, and nothing
enforces it.

**OnsWorkers.** Several workers of one processor inside `ons_manager`, one access to a package global per step: flag,
list, one map entry, flag. `Compatible` is the validator's scheduler as the package relies on it: a transaction that
declares the list as output runs beside no other one that declares it. Permission checks that declare it as input, or
not at all, overlap freely. `MapRace` is the Go run-time system noticing a concurrent map access; it need not notice.

**OnsSync** (`ons_sync`). Blocks are numbered along one chain. `jobs` is the bag of event goroutines, each at one of the
places between two accesses to what they share: `check` and `set` (compare with the newest event, then assign), `row`,
`compare`, `ask` (blocks until `runSubscriber` takes the id), `refresh` and `assign` (read the row, then assign the
global), `apply`. `main` is where `func main` is; a handover over an unbuffered channel is one step that needs
`running`, the subscriber in its loop. The handover of `Subscribe` and the assignment of `subscirbed` that follows are
one step: `Terminate` may read the old value, but then it only hands over a second `Subscribe(false)`, which the
subscriber, still in its loop, takes and ignores. `connected` is the life of the websocket: `Disconnect` loses what is
on the wire and nothing connects again. The actions named `...Fails` and `StartUnread` are queries that end in an error,
which the code logs and drops. `resumed` and `lost` are history variables: the row at the start of the process, and the
blocks whose copying failed in it.
`ServeRequest` and `CommitBlock` are the validator and its REST API, modelled from how the client uses them: a new
subscriber gets the newest block, an unknown block id is answered without a block.

**ChainMirror.** What is left of `OnsSync` for somebody who sees only the chain and the tables: blocks are added, and a
record moves forward to a block that set it.

A property's comment names the behaviour of the code it is about. Operators called "Variant of ..." are plausible
mistakes in the code of the definition that follows them; each property was seen to fail under one of them.

## 3 Runs

| run | specification, instance | shows |
|---|---|---|
| `ons_manager_operated` | `OperatedSpec`; three addresses, two codes | refinement of `ManagerRegistry`; cache all or nothing |
| `ons_manager_lost` | `UnloadedSpec` | **violation**: the stored list is overwritten |
| `ons_manager_su` | `OperatedSpec` | **violation**: su managers may not appoint |
| `ons_handler` | `HandlerLivesSpec`: `HandlerSpec` with the history of `OnsManagerLives`; two addresses, one code, one service type | list, cache, panics, types and ownership under every fault |
| `ons_handler_operated` | `ClientSpec`; three addresses, one code, two records | clients, queries, records under shifting indices |
| `ons_handler_provider` | `HandlerLivesSpec` | **violation**: a service type gets the provider the client wrote |
| `ons_handler_index` | `ClientSpec` | **violation**: an index past the end panics |
| `ons_replicas` | `ReplicaSpec`; two validators, two addresses, two codes, blocks of two | a block leads to one list on all sound processors |
| `ons_workers` | `WorkersSpec`; three workers, two addresses, two codes | races on the globals |
| `ons_sync` | `FirstSpec`; three blocks, three goroutines | every block is mirrored in the end; refinement of `ChainMirror` |
| `ons_sync_restart` | `Spec`; one address, three blocks, two goroutines | crashes, restarts, broken connections, failing queries |
| `ons_sync_gap` | `ShutdownSpec` | **violation**: a shutdown leaves a gap |

**What the passing runs say.** `NoDuplicateManagers` and `SuListWithinMap`: although failed writes, aborts and restarts
let memory, maps and state drift apart, nothing is listed twice, because the su list never runs ahead of the su map.
`RolesComeFromSudo`: a role no copy of the list knew appears only in sudo's own appointment, one at a time; loads and
rollbacks invent nothing. `CrashesOnlyAfterClear`: the nil-map panic kills only a process that has emptied its cache
earlier in its own life, or does so in the transaction it dies of, so the retry in the next process survives.
`OnlySudoChangesRegistry`: only a transaction of sudo that ended well changes the stored list. `ImplementsRegistry`:
operated as intended the cache is invisible; `CacheAllOrNothing`: a process knows all of the list or none of it;
`AppointingKeepsOthers`: one appointment sets one entry, one su manager or the manager of one code, and all other
entries stay what they were. Among clients, `OthersRecordsKept`: no transaction of anybody else loses, takes over or
reorders a provider's records, except that sudo may deregister a code it owns, with all records in it;
`OnlySudoActivates`; `RecordsOnlyByAppointed`: the cached permission is never older than the state it is used with.
`ForeignOwnershipIsPermanent`: what is stored with anybody but sudo as its owner cannot be removed, since the
deregistering handlers ask for sudo *and* for the owner. For a service type the owner is its provider, and
`ons_handler_provider` shows that this need not be the signer, as the repository says it is. `RegisteredIsRemovable`:
the client of the repository never registers such a thing. `ServedIffCached`: an appointed manager's `add` is served
exactly when some earlier transaction made the process cache the list. `IndexMeansWhatWasSeen`: an index from a query
names the same provider's record until somebody removes a record of that code.

In `OnsReplicas`, under the care of `Sendable`, `ReplicasAgree`: a sound processor that executes the block of a sound
publisher to its end arrives at the publisher's list, whatever else the two have loaded, accepted, refused or lost
before; only the publisher itself may arrive at another order of the same entries, and only if the block appoints again
what it dismissed. `GrantsAreRepeated`: what a sound publisher let pass, sound processors let pass, but for the
publisher's second execution of a manager's transaction that the same block outdates. `RefusedByPublisher` puts the two
together: a block that does neither is refused only by a processor that is astray, or because the publisher's is. In
`OnsWorkers`, `QuietCacheIsWhole`: no interleaving, and no death half way, leaves a half-filled cache;
`UndisturbedAnswersAreRight`: checks beside which no manager transaction runs are answered as the stored list says;
`GrantsWereGiven`: beside one, nobody is granted a role that neither the list nor a running appointment gives;
`WorkersKeepRegistry`: the stored list changes by one appointment or dismissal at a time.

In `OnsSync`, `CatchesUp`: while the connection lasts every block reaches the mirror; `ImplementsMirror`: a record only
moves forward, to a block that set it; `SendersAreHeard`: neither `main` nor a goroutine is left in a send to a
subscriber that is gone, except goroutines of a process about to end; and `ResumedIsMirrored`: the mirror is complete
from the block on at which the present process started, after any number of crashes, broken connections and failed
queries on the row; a failed query on a record loses that record's block and no other.

**Bounds and why they suffice.** The handlers treat all addresses but sudo alike and codes independently of one
another; a second address is needed to be somebody else, a third for two providers besides sudo, a second code for one
entry to be overwritten by another's save. `MaxRecords` 2 lets a removal shift a record; index 2 is past the end.
Two validators suffice for `OnsReplicas`, whose properties compare a validator with the publisher; two transactions in a
block let somebody be dismissed and appointed again, or used and then dismissed, with another code listed by an earlier
block, so that order matters. Three workers let two loads and a check, or a
manager transaction and two undeclared checks, overlap. `MaxBlocks` 3 lets a walk skip a middle block and overlap with a
second walk, and lets an address be set three times. The records of different addresses are independent, so one address
is enough for the mirror. `MaxJobs` bounds the goroutines alive; two race on every global, three let a
stale assignment fall between two others. The bound delays `ReceiveEvent`, as a slow receiver would; it never blocks
for ever, since no goroutine waits for the receiver.

`SudoIsNoManager` leaves out states in which sudo is its own manager, which changes none of its permissions. `OneKind`
leaves out states that hold both a code and a service type, which no handler touches together. `Footprint` drops `txn`
and `outcome` from the fingerprint of states in `ons_handler`, `ons_handler_operated` and `ons_replicas`: no guard reads
them, and the action properties read only their new values. Addresses except sudo are symmetric in
`ons_handler_operated`, validators and codes in `ons_replicas`, workers and codes in `ons_workers`; these runs check
safety only. `SomebodySound` ends `ons_replicas` where both processors are astray: no property says anything of such
states, and the theorems cover what may follow them. `ons_sync` leaves deletions out, as they change nothing in the
mirror, and in `ons_sync_restart` every block sets the address, so that every lost block is a lost record.

`CHECK_DEADLOCK FALSE` is set where the system may stop: the chain of `OnsSync` is finite.

**Fairness.** Only `CatchesUp` needs it. `Fairness` asks weak fairness of starting, subscribing, the receiver, each
goroutine (the Go scheduler runs what is runnable) and the server (it answers, the connection stays up). Nobody has to
commit a block. It is stated for a process that is not stopped; with a dropped connection or a stop in the middle of a
walk the property is false, see `ons_sync_gap`.

## 4 What the runs found

1. **`ons_manager_lost`**, `ons_manager.go:282`. `AddSuManager` never loads. As the first transaction of a restarted
   process it saves a list with one su manager over the stored one. Sending `OP_MANAGER` first avoids it.
2. **`ons_manager_su`**, `ons_manager.go:164`. `CheckPermission` refuses the empty code before it looks at the su
   managers, and the manager handlers ask about the empty code; the comments at `ons_handler.go:333` and `:347` grant
   su managers these transactions.
3. **`ons_handler_index`**, `ons_handler.go:196`. The record is read before the range check at `:200`.
4. **`ons_handler_provider`**, `ons_handler.go:232`. A service type is stored with the provider the client wrote;
   `ons.proto:32-34` says that this is ignored and the signer's key used. If it is somebody else's than sudo's, nobody
   can deregister the type.
5. **`ons_sync_gap`**, `handler.go:223`. The row names a block whose predecessors have not been fetched yet; an orderly
   shutdown then leaves a gap no later process fills.

Behaviour that is part of the models but has no run of its own, because it needs none to be seen or nothing in the
repository promises otherwise:

- After an aborted block the cache answers from managers the chain never committed.
- An `OP_MANAGER` in a process that has already loaded the list kills it if su managers are stored:
  `clearCachedONSManager` makes one map twice and the other never (`ons_manager.go:135-148`). `CrashesOnlyAfterClear`
  bounds it.
- `AddGS1CodeManager` logs a failed load and goes on (`ons_manager.go:203`). In a process that knows nothing it then saves
  a list with one manager over the stored one, the loss of `ons_manager_lost` in another place; `OperatedSpec` lets this
  read not fail.
- `DBDeleteAddress` filters both tables and never calls `Delete` (`sync.go:301`, `:310`), although it counts what was
  "deleted": what the chain deletes stays in the mirror.
- Overlapping walks of the mirror pass the stopping point and then ask for the null id and for the empty id again and
  again (`handler.go:254`), which `CatchesUp` survives. After a dropped connection the mirror stands still until
  somebody restarts it, and what a failed record query should have written is lost (`handler.go:297`, `:310`).
- A manager's `add` is served only if an earlier transaction of somebody else made the process load the list, since the
  client does not declare the list's address (`ServedIffCached`).

What the properties of `OnsReplicas` ask for keeps away the ways in which validators come to disagree on a block.
`Sendable`:

- Dismissing somebody who is not listed is an internal error where the list is nil and a save where it is empty, and
  which of the two depends on the history of the process (`ons_manager.go:309`).
- `OP_MANAGER` is alone in its block: it empties what the memories of a block's processors have in common.

Being sound:

- After a dropped block a processor knows of appointments and dismissals that never were, and the next block it executes
  it takes from there. With a dropped `add(c1)` in its memory it saves `c1` together with the `add(c2)` of the block it
  checks, and refuses that block; with a dropped dismissal it refuses a transaction of the dismissed manager that
  everybody else lets pass. The validator drops candidates in the normal course of its work, so with several validators
  this is not a rare case, and only a restart of the processor mends it.
- `ADD_SUMANAGER` and `REMOVE_SUMANAGER` need a processor that has loaded the list (`Ready`). An empty list that was
  written, but never loaded, comes back from the next load as nil; and an `ADD_SUMANAGER` behind an `OP_MANAGER` panics,
  and the retry finds a fresh process, which overwrites the list.
- A processor that is restarted within a block may take the rest of it unprepared. `astray` counts all of these, those
  included that do no harm.

What remains is the publisher, which executes its own block again with a memory that is already ahead. It refuses the
block if a manager was used in it and dismissed later, and may arrive at another order if one was dismissed and
appointed again. The model keeps these blocks, and `ReplicasAgree` and `GrantsAreRepeated` name them.

## 5 Proofs

TLAPS checks the theorems for all addresses, codes, chains, numbers of goroutines, workers and records, and for lists of
every length. Assumptions: sudo is an address; `Nil` is no address, code, set of addresses, list or stored value;
`GS1CODE_INACTIVE` is a code state; changes and transactions are of the stated form; bounds are natural numbers. TLC
evaluates those that the modules of a run state. Every invariant and action property that a passing run checks is
proved; the inductive invariants were checked by TLC first.

**OnsManager_proofs.** `IInv`: memory and both registries are well typed and free of duplicates, and every listed su
manager is in the su map. The last part is the strengthening: `AddSuManager` looks into the map, not the list, before it
appends, so without it "no duplicates" is not inductive. One lemma per helper (load, clear, add, remove) says it keeps a
memory good, two per outcome (saved, not saved), one per transaction. Theorems: `TypeCorrect`,
`NoDuplicateManagersHolds`, `SuListWithinMapHolds`; `OnlySudoChangesRegistryHolds` follows action by action.
`CrashesOnlyAfterClearHolds` is about `LivesSpec`: a transaction dies of the nil su map only if it found it nil or
cleared it itself (`TxnForeseen`), and leaves it nil only if it found it so or cleared a cache (`TxnEmptied`), whence
`LivesInv`, that a nil su map means a clear in this life. `RolesComeFromSudoHolds` takes all copies of the list
together, the list in memory, both maps, the block's state and the committed one, as one set of roles (`MemRoles`,
`RolesIn`): loading, clearing, removing, rollbacks and restarts only lose roles or copy them, and adding puts in one,
the signed one.

Its second half is about `OnsManagerOperated`. `OperatedInv` is `IInv` and `Whole`: memory agrees with the list in
state, in list and both maps, or is that of a process that knows nothing (just started, or just cleared, when the su map
is nil). Each transaction is then one of six steps (`Quiet`, `Asked`, `Appoints`, `Dismisses`, `AppointsSu`,
`DismissesSu`), each of which keeps `Whole` and is a step of `ManagerRegistry` or a stutter. The hard part is that a
list and a look-up say the same: appending an entry or deleting one changes `ManagerOf` at one code only, which needs
that a list has one entry per code (`NoDuplicates`, from `IInv`). Theorems: `CacheAllOrNothingHolds`,
`ImplementsRegistryHolds`, `AppointingKeepsOthersHolds`.

**OnsHandler_proofs.** `HandlersUseManager`: every step of the composition is a step of `OnsManager` or a stutter for
it, so `HandlerSpec => Spec` and all of the above carries over. Each handler is then shown `Lawful`: it stores nothing,
or one well-typed value that respects a foreign owner. From it follow `HandlerTypeCorrect` and `ForeignOwnershipHolds`.
A handler that finds a code and does not remove it adds a record at the end, removes one of the signer's own, restates
one, or restates the code; the only one that removes it is sudo's deregistration of a code that sudo owns
(`Deregisters`). `OthersRecordsKeptHolds` gives for each of the others the order-keeping map that `KeepsOthers` asks
for; `OnlySudoActivatesHolds` counts active places, and for a removal maps the places left one to one into the old ones.

**OnsClient_proofs.** `ClientsUseHandlers`: commands are steps of the handlers. `ClientInv` joins `HandlerIInv`,
`OperatedInv`, `OwnedBySudo` (the client makes the signer the owner, and only sudo may register) and `SeenHolds` (what
was seen is a place of the list and still that provider's). A transaction makes each code's list shorter, or keeps its
places; it is longer only by an addition the signer is permitted (`ListChange`). Theorems: `RegisteredIsRemovableHolds`,
`IndexMeansWhatWasSeenHolds`, `RecordsOnlyByAppointedHolds` and `ServedIffCachedHolds`; the last two rest on `Whole`: a
permission that was answered from the maps is the one the list gives.

**OnsWorkers_proofs.** With one access per step the memory is not whole all the time, so `WorkersInv` says where it is
not. `Fact` is what a worker at its place can count on: a load that has read holds the list in state; a fill has put
exactly the first `put` entries; a manager transaction about to save has a memory that will be good once it has saved,
and an effect on the list in state that is one appointment or dismissal. `MemoryFacts`: unless somebody is about to
save, memory is within the list, part of it and nothing else; unless somebody is emptying or filling it, it is whole.
`Apart` is what the scheduler's rule (`Compatible`) leaves: beside a manager transaction there are only checks that do
not declare the list, and these know that they are not alone. `Entitled`: who holds the role asked about may be granted
it. That several loads overlap is harmless, because each writes towards the same list (`Towards`): an assignment of the
list changes nothing, an entry put twice is the same entry, and the flag is set last. Theorems:
`QuietCacheIsWholeHolds`, `WorkersKeepRegistryHolds` (the list in state still implements `ManagerRegistry`),
`GrantsWereGivenHolds`, `UndisturbedAnswersAreRightHolds`.

**OnsReplicas_proofs.** `ReplicaInv` says where each processor is with respect to the lists the block leads through.
`Trace` is about these lists: each transaction passed on the list before it and made the next one of it by `Effect`,
which does not mention whose memory was at work; and what a list says of a code or a su manager differs from what an
earlier one said only if a transaction in between decided so. Of the memories it says:

- `Whole`, of every processor that is not astray and is not at work: it knows all of a list or nothing, the committed
  list before it has executed the block, the block's last one after. This is what a dropped block takes away (`Drop` goes
  back to the committed list), except from those that had no part in it or if nothing was written (`UninvolvedWhole`).
- `Knows`, of the processor at work: the same of the list it has come to. Such a memory takes the list from each element
  of `Trace` to the next (`KnownChecks`), so it arrives at `root`, and is asked about uses on the lists on which the
  publisher was asked.
- `Built`, the publisher's when it has built the block: it agrees with the last list, and is `Rehearsed`: what a second
  dismissal needs to end well, a loaded list or one that is not nil, is there.
- `Ahead`, the publisher's in its second run, `n` transactions of it: its list says of everything the first `n` are about
  what the `n`-th list said, and of the rest what the last one says. A dismissal, an appointment and the appointment of
  somebody listed already each keep that (`AheadAdvances`), and a use that is refused is one whose signer lost the role
  later in the block (`AheadChecks`). `Begins` is about order: if nobody who is dismissed is in the last list (`Stays`),
  the list has that one's entries first, in its order, and what follows is gone in the end.

`Leads` and `Follows` join these for a sound publisher while it builds and for a sound processor while its block is
checked; of one that is astray only the types are known. Each of the ten actions has a lemma that it keeps `ReplicaInv`
(`BuildKeeps`, `IncludeKeeps`, ... `DropKeeps`, `RestartParkedKeeps`, `RestartWorkerKeeps`). Theorems:
`ReplicasAgreeHolds` (`NobodyReappointed` gives `Begins` its condition), `GrantsAreRepeatedHolds` (`SpeaksEarly`: who
speaks before the end is the publisher with an outdated use) and, from these two, `RefusedByPublisherHolds`
(`StaysAstray`: who refused because it was astray is so while the block lasts). The conditions are all used: dismissing
managers only for `Trace`, `OP_MANAGER` alone because the clear in it would take away what memories know, and being
sound for `Whole` and for the su managers' transactions.

**DeleteLoop_proofs.** `LoopIsRemoveAt`: on a list without duplicates the loop ends with the list that `RemoveAt` gives,
and never slices out of range. `LoopInv` says of a round that either nothing was taken out and the target was not read
yet (`NotYet`), or that it was at place `k` and every later entry moved up by one, the last one still standing twice in
the array behind the slice (`TakenOut(k)`). That left-over place is what the later rounds read; without duplicates it
cannot be the target, so they touch nothing. With `NoDuplicateManagersHolds` this is why `OnsManager` may use the closed
form. `ListFacts` holds what both proofs need of `RemoveAt`.

**OnsSync_proofs.** `SyncInv` adds to the types: events on the wire and in goroutines are those of committed blocks or
the answer without one; no goroutine past its comparison, no request for a block and no empty answer exists before a
newest event is known (so the empty answer never becomes the newest event, nor the row); the subscriber runs while
`main` is between start and closing; a stopped process leaves nothing on the wire. It holds under crashes, broken
connections and failing queries. Theorems: `SyncTypeCorrect`; `SendersAreHeardHolds`, from `SubscriberRuns` and
`NothingIsLeft`; and `ImplementsMirrorHolds`: every step of `OnsSync` adds a block to the chain of `ChainMirror`, moves
one record of it forward to a block that set it, or is a stutter. That the block did set the record rests on the part of
`SyncInv` about events, since a goroutine writes what its event says.

`ResumedIsMirroredHolds` needs to know that no block is forgotten while walks overlap. `ResumeInv` says of a process
that can still get to rest (`Attached`) that the server does not know it yet (`Expecting`), or that the server sends
every new block (`Served`) and all blocks from the one to resume at on are `Taken` care of: copied, lost, or the event
of a goroutine or on the wire. As long as that is not so there is a block `w`, the lowest that any walk has reached,
with everything from `w` on taken care of, and a walk that goes on below it (`Walking`): an event or goroutine of `w`
that has not asked yet, or a request for the block before. All goroutines are then above the block to stop at, so none
of their comparisons ends a walk, nobody reads the row, and the block to stop at is still the one the process was
started with. The unlocked globals can mislead a goroutine only after that, when nothing depends on them.

**Only model-checked.** `CatchesUp`, since liveness under fairness is out of the prover's reach, and the five runs that
find a violation. No module uses recursive operators.

## 6 Not modelled

- Protobuf encoding and the generated code, hashing of addresses (no two codes collide), key files, command lines,
  logging.
- The validator's policy of retries: a retry is the same transaction again, which the models allow at any time.
- Forks in `ons_sync`: block numbers repeat on a fork (`sync.go:276`), while the chain of the model has one block per
  number. A fork needs blocks whose id and number differ, and with them another reading of every comparison.
- The panics of goroutines that outlive `DBDisconnect` (`sync.go:131`) while the process ends anyway.
- A torn read of the string `g_ons_manager_address` (`ons_manager.go:39`), which every worker sets to the same value.
- `GetGS1CodeManagerAddress` (`ons_manager.go:186-197`), which nothing calls. It would load the cache, which is the change
  of state that `UseTxn` makes.
- In `OnsSync` a block changes one address. When a service type does not decode, `handler.go:305` returns and drops the
  rest of the block's changes; the processor writes only what it has marshalled itself.
- In `OnsReplicas`: a processor that validates a block while it builds another (one run ends before the next begins);
  consensus by a majority (a commit needs all validators); reading accesses that fail.
- Queries of `ons_test` and `ons_query` for service types and for the manager list, which only print.
- The address of a service type made by the client: its fields are collected in the order in which Go ranges over a map
  (`sawtooth-ons-test.go:688`), so that two calls differ; the model chooses it freely.
- In RethinkDB: `Table(...).Update(v)` (`sync.go:282`) names no record. The server changes the record whose primary key
  `v` carries and counts an error for every other one, as it lets no update change a primary key; the model takes this
  from the server and has one record change.

## 7 Plan

Done, in this order: `OnsManager`, `DeleteLoop`, `ManagerRegistry` with `OnsManagerOperated`, `OnsHandler`, `OnsSync`,
their runs and first proofs; then `OnsClient`, `OnsReplicas`, `OnsWorkers`, broken connections and failing queries in
`OnsSync`, `ChainMirror` with the proof that it is implemented, the proof about `DeleteLoop`.

The proofs followed in the order `RolesComeFromSudo`; `CacheAllOrNothing` with `ImplementsRegistry`; the records of
`OnsHandler`; `OnsClient`; `OnsWorkers`; `ResumedIsMirrored`; `OnsReplicas`.

Next: forks in `OnsSync`. Then the validator's scheduler inside `OnsReplicas`: a block whose transactions run in several
workers at once, which joins what `OnsWorkers` and `OnsReplicas` say.
