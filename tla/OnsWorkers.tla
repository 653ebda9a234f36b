----------------------------- MODULE OnsWorkers -----------------------------
(***************************************************************************)
(* The workers of one transaction processor inside ons_manager.go, one     *)
(* access to the package globals at a time.  The package takes no lock.    *)
(*                                                                         *)
(* What keeps workers apart is the validator: it does not run a            *)
(* transaction that declares the manager list as output beside another one *)
(* that declares it at all.  Transactions about managers declare it; a     *)
(* permission check belongs to a transaction that may declare it as input  *)
(* (then its load can read it) or, like those of the ons_test client, not  *)
(* at all (then its load fails, and it may run beside anything).           *)
(*                                                                         *)
(* The run-time system of Go ends the process if it notices that a map is  *)
(* written while another goroutine reads or writes it (MapRace); it need   *)
(* not notice, and then the accesses take effect in some order.            *)
(* Otherwise the conditions are those of OnsManagerOperated.               *)
(***************************************************************************)
EXTENDS OnsManagerOperated

CONSTANT Worker

VARIABLE job   \* what each worker is doing

workerVars == <<vars, job>>

-----------------------------------------------------------------------------
(* Requests *)

\* "check" is the permission check that a transaction of anybody but sudo
\* undergoes; sudo's touches no global.
Request(kind, c, a, declared) == [kind |-> kind, code |-> c, addr |-> a, declared |-> declared]
ManagerRequests ==
  {Request("add", c, a, TRUE) : c \in Code, a \in Address}
    \cup {Request("remove", c, Nil, TRUE) : c \in Code}
    \cup {Request(kind, Nil, a, TRUE) : kind \in {"addSu", "removeSu"}, a \in Address \ {Sudo}}
    \cup {Request("op", Nil, Nil, TRUE)}
Checks == {Request("check", c, a, d) : c \in Code \cup {Nil}, a \in Address \ {Sudo}, d \in BOOLEAN}

Manages(request) == request.kind # "check"

\* The first access to a global.  CheckPermission and loadCachedONSManager look
\* at the flag one after the other; the second look decides.
FirstPlace(request) ==
  CASE request.kind \in {"check", "add", "remove"} -> "flag"
    [] request.kind \in {"addSu", "removeSu"}      -> "change"
    [] request.kind = "op"                         -> "clear"

\* Where a request goes from loadCachedONSManager.
AfterLoad(request) ==
  CASE request.kind = "check"            -> "askSu"
    [] request.kind \in {"add", "remove"} -> "change"
    [] request.kind = "op"               -> "leave"

\* A worker's job: its place, its request, the list it holds in a local variable,
\* how many of its entries it has put into the map at hand, and for the
\* properties: whether no manager transaction has run since the check began, and
\* whether its signer had the role then or one that has run since may give it.
Idle == [at |-> "idle"]
Busy(w) == job[w].at # "idle"
At(w, place) == job[w].at = place
Goto(w, place) == job' = [job EXCEPT ![w].at = place]

RolesFor(request) == {<<request.addr, request.code>>, <<request.addr, Nil>>}
Gives(giver, request) ==
  \/ giver.kind = "add" /\ giver.addr = request.addr /\ giver.code = request.code
  \/ giver.kind = "addSu" /\ giver.addr = request.addr

-----------------------------------------------------------------------------
(* The beginning and the end of a transaction *)

\* What the validator lets run beside the transactions that are running.
Compatible(request) ==
  \A w \in Worker : Busy(w) /\ job[w].request.declared /\ request.declared =>
    ~Manages(request) /\ ~Manages(job[w].request)

Begin(w, request) ==
  LET others == {job[x].request : x \in {y \in Worker : Busy(y)}} IN
  /\ ~Busy(w)
  /\ Compatible(request)
  /\ request.kind \in {"addSu", "removeSu"} => KnowsRegistry
  /\ job' = [x \in Worker |->
       CASE x = w ->
              [at |-> FirstPlace(request), request |-> request, list |-> Absent, put |-> 0,
               alone |-> \A other \in others : ~Manages(other),
               entitled |-> \/ RolesFor(request) \cap RolesIn(registry) # {}
                            \/ \E other \in others : Gives(other, request)]
         [] x # w /\ Busy(x) ->
              [job[x] EXCEPT !.alone = @ /\ ~Manages(request),
                             !.entitled = @ \/ Gives(request, job[x].request)]
         [] OTHER -> Idle]
  /\ txn' = NoTxn
  /\ UNCHANGED <<mem, registry, registryHead>>

Leave(w) == job' = [job EXCEPT ![w] = Idle]

Reply(w, level) ==
  /\ Leave(w)
  /\ txn' = [op |-> "use", by |-> job[w].request.addr, result |-> "ok",
             answer |-> [code |-> job[w].request.code, level |-> level]]
  /\ UNCHANGED <<mem, registry, registryHead>>

\* The process ends, with everything its workers were doing: what they have
\* written to state is lost with their contexts.
Die ==
  /\ mem' = Fresh
  /\ job' = [w \in Worker |-> Idle]
  /\ txn' = NoTxn
  /\ UNCHANGED <<registry, registryHead>>

\* A step that changes globals at most.
Globals(m) == mem' = m /\ UNCHANGED <<registry, registryHead, txn>>

-----------------------------------------------------------------------------
(* loadCachedONSManager *)

ReadFlag(w) ==
  /\ At(w, "flag")
  /\ Goto(w, IF mem.cached THEN AfterLoad(job[w].request) ELSE "get")
  /\ Globals(mem)

\* LoadONSManager.  CheckPermission returns PERMISSION_NONE with the error.
GetList(w) ==
  /\ At(w, "get")
  /\ \/ /\ ~job[w].request.declared
        /\ Reply(w, PERMISSION_NONE)
     \/ /\ job[w].request.declared /\ registry = Absent
        /\ Goto(w, AfterLoad(job[w].request))
        /\ Globals(mem)
     \/ /\ job[w].request.declared /\ registry # Absent
        /\ job' = [job EXCEPT ![w].at = "assign", ![w].list = registry]
        /\ Globals(mem)

\* Variant of AssignList: the list stays in the local variable.
AssignListNot(w) == At(w, "assign") /\ Goto(w, "fill") /\ Globals(mem)

\* Variant of AssignList: the flag is set at once.
AssignListMarked(w) ==
  /\ At(w, "assign")
  /\ Goto(w, "fill")
  /\ Globals([mem EXCEPT !.su = NilIfEmpty(job[w].list.su), !.mgr = NilIfEmpty(job[w].list.mgr),
                        !.cached = TRUE])

AssignList(w) ==
  /\ At(w, "assign")
  /\ Goto(w, "fill")
  /\ Globals([mem EXCEPT !.su = NilIfEmpty(job[w].list.su), !.mgr = NilIfEmpty(job[w].list.mgr)])

\* One entry at a time, the code managers first.
FillManagers(w) ==
  LET list == job[w].list.mgr
      i == job[w].put + 1
  IN /\ At(w, "fill")
     /\ \/ /\ i <= Len(list)
           /\ job' = [job EXCEPT ![w].put = i]
           /\ Globals([mem EXCEPT !.mgrMap[list[i].gs1] = list[i].addr])
        \/ /\ i > Len(list)
           /\ job' = [job EXCEPT ![w].put = 0, ![w].at = "fillSu"]
           /\ Globals(mem)

FillSu(w) ==
  LET list == job[w].list.su
      i == job[w].put + 1
  IN /\ At(w, "fillSu")
     /\ \/ i <= Len(list) /\ mem.suMap = Nil /\ Die
        \/ /\ i <= Len(list) /\ mem.suMap # Nil
           /\ job' = [job EXCEPT ![w].put = i]
           /\ Globals([mem EXCEPT !.suMap = @ \cup {list[i]}])
        \/ /\ i > Len(list)
           /\ job' = [job EXCEPT ![w].put = 0, ![w].at = "mark"]
           /\ Globals(mem)

MarkCached(w) ==
  /\ At(w, "mark")
  /\ job' = [job EXCEPT ![w].list = Absent, ![w].at = AfterLoad(job[w].request)]
  /\ Globals([mem EXCEPT !.cached = TRUE])

Load(w) ==
  ReadFlag(w) \/ GetList(w) \/ AssignList(w) \/ FillManagers(w) \/ FillSu(w) \/ MarkCached(w)

-----------------------------------------------------------------------------
(* The rest of CheckPermission *)

AskSu(w) ==
  /\ At(w, "askSu")
  /\ \/ job[w].request.code = Nil /\ Reply(w, PERMISSION_NONE)
     \/ /\ job[w].request.code # Nil
        /\ mem.suMap # Nil /\ job[w].request.addr \in mem.suMap
        /\ Reply(w, PERMISSION_SU_MANAGER)
     \/ /\ job[w].request.code # Nil
        /\ ~(mem.suMap # Nil /\ job[w].request.addr \in mem.suMap)
        /\ Goto(w, "askManager")
        /\ Globals(mem)

AskManager(w) ==
  /\ At(w, "askManager")
  /\ Reply(w, IF mem.mgrMap[job[w].request.code] = job[w].request.addr
              THEN PERMISSION_MANAGER ELSE PERMISSION_NONE)

-----------------------------------------------------------------------------
(* Managers are appointed and dismissed *)

\* What a request makes of the globals.
Changed(m, request) ==
  CASE request.kind = "add"      -> WithManager(m, request.code, request.addr)
    [] request.kind = "remove"   -> WithoutManager(m, request.code)
    [] request.kind = "addSu"    -> IF request.addr \in m.suMap THEN m ELSE WithSu(m, request.addr)
    [] request.kind = "removeSu" -> WithoutSu(m, request.addr)

ChangePanics(request) == request.kind = "addSu" /\ mem.suMap = Nil
NothingToRemove(request) ==
  \/ request.kind = "remove" /\ mem.mgr = Nil
  \/ request.kind = "removeSu" /\ mem.su = Nil

\* The map first.
ChangeMap(w) ==
  LET request == job[w].request
      m == Changed(mem, request)
  IN /\ At(w, "change")
     /\ \/ ChangePanics(request) /\ Die
        \/ NothingToRemove(request) /\ Leave(w) /\ Globals(mem)
        \/ /\ ~ChangePanics(request) /\ ~NothingToRemove(request)
           /\ job' = [job EXCEPT ![w].at = "save", ![w].list = [su |-> m.su, mgr |-> m.mgr]]
           /\ Globals([mem EXCEPT !.mgrMap = m.mgrMap, !.suMap = m.suMap])

\* Then the list, which is saved.  No other worker looks at it in between, and
\* the state changes when the validator takes the transaction's result.
SaveList(w) ==
  /\ At(w, "save")
  /\ mem' = [mem EXCEPT !.su = job[w].list.su, !.mgr = job[w].list.mgr]
  /\ registry' = Held(mem')
  /\ Leave(w)
  /\ txn' = NoTxn
  /\ UNCHANGED registryHead

-----------------------------------------------------------------------------
(* OP_MANAGER: clearCachedONSManager, then a load *)

ClearManagers(w) ==
  /\ At(w, "clear")
  /\ Goto(w, IF mem.cached THEN "clearSu" ELSE "flag")
  /\ Globals(IF mem.cached THEN [mem EXCEPT !.su = Nil, !.mgr = Nil, !.mgrMap = NoManagers] ELSE mem)

ClearSu(w) ==
  /\ At(w, "clearSu")
  /\ Goto(w, "unmark")
  /\ Globals([mem EXCEPT !.suMap = Nil])

\* Variant of UnmarkCached: the flag stays.
UnmarkCachedNot(w) == At(w, "unmark") /\ Goto(w, "flag") /\ Globals(mem)

UnmarkCached(w) ==
  /\ At(w, "unmark")
  /\ Goto(w, "flag")
  /\ Globals([mem EXCEPT !.cached = FALSE])

EndOperation(w) == At(w, "leave") /\ Leave(w) /\ Globals(mem)

-----------------------------------------------------------------------------
(* The run-time system *)

Writes(w) ==
  CASE At(w, "fill")   -> {"mgrMap"}
    [] At(w, "fillSu") -> {"suMap"}
    [] At(w, "change") -> IF job[w].request.kind \in {"add", "remove"} THEN {"mgrMap"} ELSE {"suMap"}
    [] OTHER           -> {}

Reads(w) ==
  CASE At(w, "askSu")      -> {"suMap"}
    [] At(w, "askManager") -> {"mgrMap"}
    [] OTHER               -> {}

MapRace ==
  /\ \E w, x \in Worker : w # x /\ Writes(w) \cap (Writes(x) \cup Reads(x)) # {}
  /\ Die

-----------------------------------------------------------------------------
WorkersInit == Init /\ job = [w \in Worker |-> Idle]

WorkersNext ==
  \/ \E w \in Worker :
       \/ \E request \in ManagerRequests \cup Checks : Begin(w, request)
       \/ Load(w) \/ AskSu(w) \/ AskManager(w)
       \/ ChangeMap(w) \/ SaveList(w)
       \/ ClearManagers(w) \/ ClearSu(w) \/ UnmarkCached(w) \/ EndOperation(w)
  \/ MapRace
  \/ Die

WorkersSpec == WorkersInit /\ [][WorkersNext]_workerVars

-----------------------------------------------------------------------------
(* Properties *)

\* When no worker is inside the package, the process knows either nothing or
\* exactly the stored list: two loads at once, checks beside an appointment and
\* a process that dies half way leave no half-filled cache behind.
QuietCacheIsWhole == (\A w \in Worker : ~Busy(w)) => CacheAllOrNothing

Replies(w) ==
  Busy(w) /\ ~Manages(job[w].request) /\ job'[w] = Idle /\ txn'.op = "use"

\* A check beside which no manager transaction ran is answered exactly as the
\* stored list says, however many others load or ask at the same time; one that
\* cannot read the list is answered that way too, or refused.  The flag is set
\* last (ons_manager.go:130), so nobody relies on a map that is being filled.
UndisturbedAnswersAreRight ==
  [][\A w \in Worker : Replies(w) /\ job[w].alone =>
       \/ txn'.answer.level = Registered!Level(job[w].request.code, job[w].request.addr)
       \/ ~job[w].request.declared /\ txn'.answer.level = PERMISSION_NONE]_workerVars

\* A check that races with manager transactions is never granted to somebody who
\* neither had the role when it began nor could get it from one of them, though
\* maps are emptied and refilled under it.
GrantsWereGiven ==
  [][\A w \in Worker : Replies(w) /\ txn'.answer.level # PERMISSION_NONE =>
       job[w].entitled]_workerVars

RegisteredQuietly == INSTANCE ManagerRegistry
  WITH su <- Range(registry.su), mgr <- ManagerOf(registry), answer <- Nil

\* The stored list still changes by one appointment or dismissal at a time: no
\* interleaving makes a worker save a list that lacks somebody.
WorkersKeepRegistry == RegisteredQuietly!Spec
=============================================================================
