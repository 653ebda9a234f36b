------------------------- MODULE OnsWorkers_proofs -------------------------
(***************************************************************************)
(* Any number of workers inside ons_manager.go leave a whole cache behind, *)
(* save no list that lacks somebody, answer as the stored list says, and   *)
(* grant nothing that was not given.                                       *)
(***************************************************************************)
EXTENDS OnsWorkers, OnsManager_proofs

-----------------------------------------------------------------------------
(* The inductive invariant *)

\* In loadCachedONSManager, in CheckPermission, and everywhere.
LoadPlaces == {"flag", "get", "assign", "fill", "fillSu", "mark"}
AskPlaces == {"askSu", "askManager"}
AllPlaces == LoadPlaces \cup AskPlaces \cup {"change", "save", "clear", "clearSu", "unmark", "leave"}

\* Where a request may be.  A load that cannot read never gets past the read.
Places(request) ==
  CASE request.kind = "check" ->
         (IF request.declared THEN LoadPlaces ELSE {"flag", "get"}) \cup AskPlaces
    [] request.kind \in {"add", "remove"}     -> LoadPlaces \cup {"change", "save"}
    [] request.kind \in {"addSu", "removeSu"} -> {"change", "save"}
    [] request.kind = "op" -> LoadPlaces \cup {"clear", "clearSu", "unmark", "leave"}

\* A worker that is at work: see OnsWorkers.
List == [su : Seq(Address) \cup {Nil}, mgr : Seq(Entry) \cup {Nil}]
Job == [at : AllPlaces, request : ManagerRequests \cup Checks, list : List, put : Nat,
        alone : BOOLEAN, entitled : BOOLEAN]

\* The worker is where its request may be.
Placed(j) == j \in Job /\ j.at \in Places(j.request)

\* What a manager transaction makes of the list in state.
Effect(request, old, new) ==
  \/ /\ request.kind = "add"
     /\ new.su = old.su /\ ManagerOf(new) = [ManagerOf(old) EXCEPT ![request.code] = request.addr]
  \/ /\ request.kind = "remove"
     /\ new.su = old.su /\ ManagerOf(new) = [ManagerOf(old) EXCEPT ![request.code] = Nil]
  \/ /\ request.kind = "addSu"
     /\ Range(new.su) = Range(old.su) \cup {request.addr} /\ new.mgr = old.mgr
  \/ /\ request.kind = "removeSu"
     /\ Range(new.su) = Range(old.su) \ {request.addr} /\ new.mgr = old.mgr

\* The memory when the worker has written the list it is about to write.
Rewritten(m, list) == [m EXCEPT !.su = list.su, !.mgr = list.mgr]

\* What memory m and list r are for a worker at its place.
Fact(j, m, r) ==
  /\ j.at \notin {"fill", "fillSu"} => j.put = 0
  /\ j.at \in {"assign", "fill", "fillSu", "mark"} => j.list = r /\ r # Absent
  /\ j.at = "fill" =>
       /\ Held(m) = r /\ j.put <= Len(r.mgr)
       /\ \A i \in 1..j.put : m.mgrMap[r.mgr[i].gs1] = r.mgr[i].addr
  /\ j.at = "fillSu" =>
       /\ Held(m) = r /\ j.put <= Len(r.su) /\ m.mgrMap = ManagerOf(r)
       /\ \A i \in 1..j.put : m.suMap # Nil /\ r.su[i] \in m.suMap
  /\ j.at \in {"mark", "change", "leave"} => Agrees(m, r)
  /\ j.at \in AskPlaces /\ j.alone => Agrees(m, r)
  /\ j.at = "askManager" =>
       j.request.code # Nil /\ (j.alone => j.request.addr \notin Range(r.su))
  /\ j.at \in {"clearSu", "unmark"} => m.cached /\ m.su = Nil /\ m.mgr = Nil /\ m.mgrMap = NoManagers
  /\ j.at = "unmark" => m.suMap = Nil
  /\ j.at = "save" =>
       LET n == Rewritten(m, j.list)
       IN  GoodMemory(n) /\ Agrees(n, Held(n)) /\ Effect(j.request, r, Held(n))

\* Part of what the list says, and nothing else.
Within(m, r) ==
  /\ Held(m) \in {Absent, r}
  /\ \A c \in Code : m.mgrMap[c] \in {Nil, ManagerOf(r)[c]}
  /\ m.suMap # Nil => m.suMap \subseteq Range(r.su)

\* Who is at work, and where somebody is.
Active(j) == j.at # "idle"
Somewhere(jobs, places) == \E w \in Worker : jobs[w].at \in places

\* Only while it is saved, emptied or filled is the memory anything but whole.
MemoryFacts(jobs, m, r) ==
  ~Somewhere(jobs, {"save"}) =>
    /\ Within(m, r)
    /\ ~Somewhere(jobs, {"clearSu", "unmark"}) =>
         /\ m.cached => Agrees(m, r)
         /\ Somewhere(jobs, {"fill", "fillSu", "mark"}) \/ Unknowing(m) \/ Agrees(m, r)

\* Beside a manager transaction there are only checks that cannot read the list;
\* they know that they are not alone, and what it may give them.
Apart(jobs) ==
  \A w, x \in Worker :
    w # x /\ Active(jobs[w]) /\ Active(jobs[x]) /\ Manages(jobs[w].request) =>
      /\ ~jobs[x].request.declared /\ ~jobs[x].alone
      /\ Gives(jobs[w].request, jobs[x].request) => jobs[x].entitled

\* Whoever has the role he asks about according to the list in state.
Holds(r, request) ==
  \/ request.addr \in Range(r.su)
  \/ request.code \in Code /\ ManagerOf(r)[request.code] = request.addr

\* Whoever holds the role he asks about may be granted it.
Entitled(jobs, r) ==
  \A w \in Worker :
    Active(jobs[w]) /\ ~Manages(jobs[w].request) /\ Holds(r, jobs[w].request) => jobs[w].entitled

\* The inductive invariant, of workers, memory and list in state.
InvOf(jobs, m, r) ==
  /\ m \in Memory /\ GoodRegistry(r)
  /\ jobs \in [Worker -> {Idle} \cup Job]
  /\ \A w \in Worker : Active(jobs[w]) => Placed(jobs[w]) /\ Fact(jobs[w], m, r)
  /\ Apart(jobs) /\ Entitled(jobs, r) /\ MemoryFacts(jobs, m, r)

WorkersInv == InvOf(job, mem, registry)

\* The invariant in the next state.
LEMMA WorkersInvPrimed == InvOf(job', mem', registry') => WorkersInv'
  BY DEF WorkersInv, InvOf, Placed, Fact, Apart, Entitled, MemoryFacts, Active, Somewhere, Holds,
         Within, Agrees, Unknowing, Held, Entries, ManagerOf, Has, Find, Range, Rewritten, Effect,
         GoodMemory, GoodRegistry, NoDuplicates, Injective, UniqueCodes, SuWithinMap, Manages,
         Gives, Places

-----------------------------------------------------------------------------
(* Requests and jobs *)

\* What the kinds of request carry.
LEMMA RequestFacts ==
  ASSUME NEW request \in ManagerRequests \cup Checks
  PROVE  /\ request.kind \in {"add", "remove", "addSu", "removeSu", "op", "check"}
         /\ request.declared \in BOOLEAN
         /\ Manages(request) => request.declared = TRUE
         /\ request.kind \in {"add", "remove"} => request.code \in Code
         /\ request.kind \in {"add", "addSu", "removeSu"} => request.addr \in Address
         /\ ~Manages(request) => /\ request.kind = "check" /\ request.code \in Code \cup {Nil}
                                 /\ request.addr \in Address /\ request.addr # Sudo
<1>1. \/ \E c \in Code, a \in Address : request = Request("add", c, a, TRUE)
      \/ \E c \in Code : request = Request("remove", c, Nil, TRUE)
      \/ \E kind \in {"addSu", "removeSu"}, a \in Address : request = Request(kind, Nil, a, TRUE)
      \/ request = Request("op", Nil, Nil, TRUE)
      \/ \E c \in Code \cup {Nil}, a \in Address \ {Sudo}, d \in BOOLEAN :
           request = Request("check", c, a, d)
  <2>1. CASE request \in ManagerRequests
    BY <2>1 DEF ManagerRequests, Request
  <2>2. CASE request \in Checks
    BY <2>2 DEF Checks, Request
  <2> QED BY <2>1, <2>2
<1> DEFINE Facts ==
      /\ request.kind \in {"add", "remove", "addSu", "removeSu", "op", "check"}
      /\ request.declared \in BOOLEAN
      /\ Manages(request) => request.declared = TRUE
      /\ request.kind \in {"add", "remove"} => request.code \in Code
      /\ request.kind \in {"add", "addSu", "removeSu"} => request.addr \in Address
      /\ ~Manages(request) => /\ request.kind = "check" /\ request.code \in Code \cup {Nil}
                              /\ request.addr \in Address /\ request.addr # Sudo
<1>2. ASSUME NEW c \in Code, NEW a \in Address, request = Request("add", c, a, TRUE) PROVE Facts
  BY <1>2 DEF Request, Manages
<1>3. ASSUME NEW c \in Code, request = Request("remove", c, Nil, TRUE) PROVE Facts
  BY <1>3 DEF Request, Manages
<1>4. ASSUME NEW kind \in {"addSu", "removeSu"}, NEW a \in Address, request = Request(kind, Nil, a, TRUE)
      PROVE  Facts
  BY <1>4 DEF Request, Manages
<1>5. ASSUME request = Request("op", Nil, Nil, TRUE) PROVE Facts
  BY <1>5 DEF Request, Manages
<1>6. ASSUME NEW c \in Code \cup {Nil}, NEW a \in Address \ {Sudo}, NEW d \in BOOLEAN,
             request = Request("check", c, a, d)
      PROVE  Facts
  BY <1>6 DEF Request, Manages
<1> HIDE DEF Facts
<1>7. Facts
  BY <1>1, <1>2, <1>3, <1>4, <1>5, <1>6
<1> QED BY <1>7 DEF Facts

\* The jobs of a good state.
LEMMA JobFacts ==
  ASSUME WorkersInv, NEW w \in Worker
  PROVE  /\ ~Busy(w) <=> job[w] = Idle
         /\ Busy(w) => /\ job[w] \in Job /\ job[w].request \in ManagerRequests \cup Checks
                       /\ job[w].at \in Places(job[w].request)
                       /\ Fact(job[w], mem, registry)
<1>1. Idle.at = "idle"
  BY DEF Idle
<1>2. \A j \in Job : j.at # "idle" /\ j.request \in ManagerRequests \cup Checks
  BY DEF Job, AllPlaces, LoadPlaces, AskPlaces
<1> QED BY <1>1, <1>2 DEF WorkersInv, InvOf, Active, Busy, Placed

\* Where only a manager transaction can be.
LEMMA ManagerPlaces ==
  ASSUME NEW request \in ManagerRequests \cup Checks, NEW at \in Places(request)
  PROVE  /\ at \in {"change", "save", "clear", "clearSu", "unmark", "leave"} => Manages(request)
         /\ at \in {"clear", "clearSu", "unmark", "leave"} => request.kind = "op"
         /\ at \in {"change", "save"} => request.kind \in {"add", "remove", "addSu", "removeSu"}
         /\ at \in AskPlaces => ~Manages(request)
         /\ at \in {"assign", "fill", "fillSu", "mark"} => request.declared = TRUE
         /\ request.declared = FALSE => at \in {"flag", "get"} \cup AskPlaces
<1>1. /\ request.kind \in {"add", "remove", "addSu", "removeSu", "op", "check"}
      /\ request.declared \in BOOLEAN /\ (Manages(request) => request.declared = TRUE)
  BY RequestFacts
<1> QED BY <1>1 DEF Places, Manages, LoadPlaces, AskPlaces

\* Beside a manager transaction nobody knows anything.
LEMMA BesideManager ==
  ASSUME WorkersInv, NEW w \in Worker, Busy(w), Manages(job[w].request),
         NEW x \in Worker, x # w, Busy(x)
  PROVE  /\ job[x].at \in {"flag", "get"} \cup AskPlaces /\ ~Manages(job[x].request)
         /\ \A m, r : Fact(job[x], m, r)
<1>1. job[x].request.declared = FALSE /\ job[x].alone = FALSE
  BY JobFacts, RequestFacts DEF WorkersInv, InvOf, Apart, Active, Busy, Job
<1>2. job[x].at \in {"flag", "get"} \cup AskPlaces /\ ~Manages(job[x].request)
  BY <1>1, JobFacts, RequestFacts, ManagerPlaces
<1>3. Fact(job[x], mem, registry)
  BY JobFacts
<1> QED BY <1>1, <1>2, <1>3 DEF Fact, AskPlaces

\* Beside a worker that loads there is no manager transaction but its own.
LEMMA BesideLoad ==
  ASSUME WorkersInv, NEW w \in Worker, job[w].at \in {"assign", "fill", "fillSu", "mark"}
  PROVE  /\ Busy(w) /\ ~Somewhere(job, {"save"}) /\ ~Somewhere(job, {"clearSu", "unmark"})
         /\ \A x \in Worker : x # w /\ Busy(x) => ~Manages(job[x].request)
<1>1. Busy(w) /\ job[w].request.declared = TRUE
  BY JobFacts, ManagerPlaces DEF Busy
<1>2. \A x \in Worker : x # w /\ Busy(x) => ~Manages(job[x].request)
  BY <1>1 DEF WorkersInv, InvOf, Apart, Active, Busy
<1>3. ASSUME NEW x \in Worker, job[x].at \in {"save", "clearSu", "unmark"} PROVE FALSE
  <2>1. x # w /\ Busy(x)
    BY <1>3 DEF Busy
  <2>2. Manages(job[x].request)
    BY <1>3, <2>1, JobFacts, ManagerPlaces
  <2> QED BY <1>2, <2>1, <2>2
<1> QED BY <1>1, <1>2, <1>3 DEF Somewhere

-----------------------------------------------------------------------------
(* Memories between nothing and all of the list *)

\* All of the list is part of it,
LEMMA AgreesWithin ==
  ASSUME NEW m \in Memory, NEW r, Agrees(m, r)
  PROVE  Within(m, r)
  BY DEF Agrees, Within

\* so is nothing,
LEMMA UnknowingWithin ==
  ASSUME NEW m, Unknowing(m), NEW r
  PROVE  Within(m, r)
<1>1. Held(m) = Absent /\ m.mgrMap = NoManagers /\ m.suMap \in {{}, Nil}
  BY EmptyFacts DEF Unknowing, Fresh, Held, Absent
<1> QED BY <1>1 DEF Within, NoManagers

\* and part of an empty list is all of it.
LEMMA WithinAbsent ==
  ASSUME NEW m \in Memory, Within(m, Absent)
  PROVE  Agrees(m, Absent)
<1>1. ManagerOf(Absent) = [c \in Code |-> Nil]
  BY DEF ManagerOf, Absent, Has
<1>2. m.mgrMap = ManagerOf(Absent)
  BY <1>1 DEF Within, Memory
<1>3. Range(Absent.su) = {} /\ Absent.su = <<>>
  BY DEF Absent, Range
<1> QED BY <1>2, <1>3 DEF Within, Agrees

\* An entry of the list is what the list says of its code.
LEMMA EntryNamed ==
  ASSUME NEW r, GoodRegistry(r), NEW i \in 1..Len(r.mgr)
  PROVE  /\ r.mgr[i].gs1 \in Code /\ r.mgr[i].addr \in Address
         /\ ManagerOf(r)[r.mgr[i].gs1] = r.mgr[i].addr
<1>1. r.mgr \in Seq(Entry) /\ UniqueCodes(r.mgr) /\ i \in DOMAIN r.mgr
  BY LenProperties DEF GoodRegistry, Registry, NoDuplicates
<1>2. r.mgr[i] \in Entry
  BY <1>1, ElementOfSeq
<1>3. Looked(r.mgr, r.mgr[i].gs1) = r.mgr[i].addr
  BY <1>1, LookedFacts
<1> QED BY <1>2, <1>3 DEF Entry, ManagerOf, Looked

\* n knows of the list r what m does, or more.
Towards(m, n, r) ==
  /\ Within(n, r)
  /\ Held(m) = r => Held(n) = r
  /\ \A c \in Code : m.mgrMap[c] = ManagerOf(r)[c] => n.mgrMap[c] = ManagerOf(r)[c]
  /\ m.suMap = Nil => n.suMap = Nil
  /\ m.suMap # Nil => n.suMap # Nil /\ m.suMap \subseteq n.suMap

\* Whoever knew all still does,
LEMMA TowardsAgrees ==
  ASSUME NEW m \in Memory, NEW n \in Memory, NEW r, Towards(m, n, r), Agrees(m, r)
  PROVE  Agrees(n, r)
<1>1. n.mgrMap = ManagerOf(r)
  BY DEF Towards, Agrees, ManagerOf, Memory
<1> QED BY <1>1 DEF Towards, Agrees, Within

\* and a worker that loads or asks finds what it relies on.
LEMMA TowardsFact ==
  ASSUME NEW m \in Memory, NEW n \in Memory, NEW r, GoodRegistry(r), Towards(m, n, r),
         NEW j \in Job, j.at \in LoadPlaces \cup AskPlaces, Fact(j, m, r)
  PROVE  Fact(j, n, r)
<1>1. Agrees(m, r) => Agrees(n, r)
  BY TowardsAgrees
<1>2. ASSUME j.at = "fill"
      PROVE  Held(n) = r /\ \A i \in 1..j.put : n.mgrMap[r.mgr[i].gs1] = r.mgr[i].addr
  <2>1. Held(n) = r
    BY <1>2 DEF Fact, Towards
  <2> SUFFICES ASSUME NEW i \in 1..j.put PROVE n.mgrMap[r.mgr[i].gs1] = r.mgr[i].addr
    BY <2>1
  <2>2. j.put \in Nat /\ j.put <= Len(r.mgr) /\ m.mgrMap[r.mgr[i].gs1] = r.mgr[i].addr
    BY <1>2 DEF Fact, Job
  <2>3. Len(r.mgr) \in Nat
    BY LenProperties DEF GoodRegistry, Registry
  <2>4. i \in 1..Len(r.mgr)
    BY <2>2, <2>3
  <2> QED BY <2>2, <2>4, EntryNamed DEF Towards
<1>3. ASSUME j.at = "fillSu"
      PROVE  /\ Held(n) = r /\ n.mgrMap = ManagerOf(r)
             /\ \A i \in 1..j.put : n.suMap # Nil /\ r.su[i] \in n.suMap
  <2>1. /\ Held(m) = r /\ m.mgrMap = ManagerOf(r)
        /\ \A i \in 1..j.put : m.suMap # Nil /\ r.su[i] \in m.suMap
    BY <1>3 DEF Fact
  <2>2. n.mgrMap = ManagerOf(r)
    BY <2>1 DEF Towards, ManagerOf, Memory
  <2> QED BY <2>1, <2>2 DEF Towards
<1>4. j.at \notin {"change", "leave", "clearSu", "unmark", "save"}
  BY DEF LoadPlaces, AskPlaces
<1>5. /\ j.at \notin {"fill", "fillSu"} => j.put = 0
      /\ j.at \in {"assign", "fill", "fillSu", "mark"} => j.list = r /\ r # Absent
      /\ j.at = "fill" => j.put <= Len(r.mgr)
      /\ j.at = "fillSu" => j.put <= Len(r.su)
      /\ j.at = "mark" => Agrees(m, r)
      /\ j.at \in AskPlaces /\ j.alone => Agrees(m, r)
      /\ j.at = "askManager" => j.request.code # Nil /\ (j.alone => j.request.addr \notin Range(r.su))
  BY DEF Fact
<1> QED BY <1>1, <1>2, <1>3, <1>4, <1>5 DEF Fact
-----------------------------------------------------------------------------
(* A step of one worker *)

\* A memory that says what a good list says is a good memory.
LEMMA AgreesGood ==
  ASSUME NEW m \in Memory, NEW r, Agrees(m, r), GoodRegistry(r)
  PROVE  GoodMemory(m)
<1>1. Held(m) = r /\ NoDuplicates(Held(m)) /\ Entries(m.su) = r.su
  BY DEF Agrees, GoodRegistry, Held
<1>2. SuWithinMap(m)
  BY <1>1 DEF Agrees, SuWithinMap, Range
<1> QED BY <1>1, <1>2 DEF GoodMemory

\* What one worker's step has to keep: its own facts, those of the others, and
\* the facts about the memory and about who is entitled.
LEMMA WorkerSteps ==
  ASSUME WorkersInv, NEW w \in Worker, Busy(w), NEW j \in {Idle} \cup Job,
         job' = [job EXCEPT ![w] = j],
         Active(j) => /\ Placed(j) /\ Fact(j, mem', registry')
                      /\ j.request = job[w].request /\ j.alone = job[w].alone
                      /\ j.entitled = job[w].entitled,
         mem' \in Memory, GoodRegistry(registry'),
         \A x \in Worker : x # w /\ Busy(x) => Fact(job[x], mem', registry'),
         Entitled(job', registry'),
         MemoryFacts(job', mem', registry')
  PROVE  WorkersInv'
<1>1. job \in [Worker -> {Idle} \cup Job]
  BY DEF WorkersInv, InvOf
<1>2. job'[w] = j /\ \A x \in Worker : x # w => job'[x] = job[x]
  BY <1>1
<1>3. job' \in [Worker -> {Idle} \cup Job]
  BY <1>1
<1>4. ASSUME NEW x \in Worker, Active(job'[x])
      PROVE  Placed(job'[x]) /\ Fact(job'[x], mem', registry')
  <2>1. CASE x = w
    BY <1>2, <1>4, <2>1
  <2>2. CASE x # w
    BY <1>2, <1>4, <2>2 DEF WorkersInv, InvOf, Busy, Active
  <2> QED BY <2>1, <2>2
<1>5. Apart(job')
  <2>1. \A x \in Worker : Active(job'[x]) =>
          /\ Active(job[x]) /\ job'[x].request = job[x].request
          /\ job'[x].alone = job[x].alone /\ job'[x].entitled = job[x].entitled
    BY <1>2 DEF Active, Busy
  <2> HIDE <1>2
  <2>2. Apart(job)
    BY DEF WorkersInv, InvOf
  <2> QED BY <2>1, <2>2 DEF Apart
<1>6. InvOf(job', mem', registry')
  BY <1>3, <1>4, <1>5 DEF InvOf
<1> QED BY <1>6, WorkersInvPrimed

\* Who is entitled does not change with the place of a worker.
LEMMA StillEntitled ==
  ASSUME WorkersInv, NEW w \in Worker, Busy(w), NEW j \in {Idle} \cup Job,
         job' = [job EXCEPT ![w] = j],
         Active(j) => j.request = job[w].request /\ j.entitled = job[w].entitled
  PROVE  Entitled(job', registry)
<1>1. job'[w] = j /\ \A x \in Worker : x # w => job'[x] = job[x]
  BY DEF WorkersInv, InvOf
<1>2. \A x \in Worker : Active(job'[x]) =>
        Active(job[x]) /\ job'[x].request = job[x].request /\ job'[x].entitled = job[x].entitled
  BY <1>1 DEF Active, Busy
<1>3. Entitled(job, registry)
  BY DEF WorkersInv, InvOf
<1> QED BY <1>2, <1>3 DEF Entitled

\* The places at which the memory is not just read.
WritePlaces == {"save", "clearSu", "unmark", "fill", "fillSu", "mark"}

\* A step that changes no global, from and to a place at which a worker reads.
LEMMA PlainStep ==
  ASSUME WorkersInv, NEW w \in Worker, Busy(w), job[w].at \notin WritePlaces,
         NEW j \in {Idle} \cup Job, j.at \notin WritePlaces, job' = [job EXCEPT ![w] = j],
         Active(j) => /\ Placed(j) /\ Fact(j, mem, registry)
                      /\ j.request = job[w].request /\ j.alone = job[w].alone
                      /\ j.entitled = job[w].entitled,
         mem' = mem, registry' = registry
  PROVE  WorkersInv'
<1>1. mem \in Memory /\ GoodRegistry(registry) /\ MemoryFacts(job, mem, registry)
  BY DEF WorkersInv, InvOf
<1>2. \A x \in Worker : x # w /\ Busy(x) => Fact(job[x], mem, registry)
  BY JobFacts
<1>3. Entitled(job', registry)
  BY StillEntitled
<1>4. job'[w] = j /\ \A x \in Worker : x # w => job'[x] = job[x]
  BY DEF WorkersInv, InvOf
<1>5. \A places \in SUBSET WritePlaces : Somewhere(job', places) <=> Somewhere(job, places)
  BY <1>4 DEF Somewhere
<1>6. {"save"} \in SUBSET WritePlaces /\ {"clearSu", "unmark"} \in SUBSET WritePlaces
      /\ {"fill", "fillSu", "mark"} \in SUBSET WritePlaces
  BY DEF WritePlaces
<1>7. MemoryFacts(job', mem, registry)
  BY <1>1, <1>5, <1>6 DEF MemoryFacts
<1> QED BY <1>1, <1>2, <1>3, <1>7, WorkerSteps

\* Every place of a request is a place.
LEMMA PlacesAreAll ==
  ASSUME NEW request \in ManagerRequests \cup Checks
  PROVE  Places(request) \subseteq AllPlaces
  BY RequestFacts DEF Places, AllPlaces, LoadPlaces, AskPlaces, Manages

\* Who manages, or asks alone, has nobody beside him who saves or clears.
LEMMA Undisturbed ==
  ASSUME WorkersInv, NEW w \in Worker, Busy(w), job[w].at \notin {"save", "clearSu", "unmark"},
         Manages(job[w].request) \/ job[w].alone
  PROVE  ~Somewhere(job, {"save"}) /\ ~Somewhere(job, {"clearSu", "unmark"})
<1> SUFFICES ASSUME NEW x \in Worker, job[x].at \in {"save", "clearSu", "unmark"} PROVE FALSE
  BY DEF Somewhere
<1>1. x # w /\ Busy(x)
  BY DEF Busy
<1>2. Manages(job[x].request)
  BY <1>1, JobFacts, ManagerPlaces
<1> QED BY <1>1, <1>2, JobFacts, RequestFacts DEF WorkersInv, InvOf, Apart, Active, Busy

\* What such a worker finds: a cached list is all of the list, and an absent list
\* is known.
LEMMA UndisturbedAgrees ==
  ASSUME WorkersInv, NEW w \in Worker, Busy(w), job[w].at \notin {"save", "clearSu", "unmark"},
         Manages(job[w].request) \/ job[w].alone, mem.cached \/ registry = Absent
  PROVE  Agrees(mem, registry)
<1>1. /\ Within(mem, registry) /\ mem.cached => Agrees(mem, registry)
      /\ mem \in Memory
  BY Undisturbed DEF WorkersInv, InvOf, MemoryFacts
<1>2. CASE mem.cached
  BY <1>1, <1>2, Undisturbed DEF WorkersInv, InvOf, MemoryFacts
<1>3. CASE registry = Absent
  <2>1. Within(mem, registry)
    BY Undisturbed DEF WorkersInv, InvOf, MemoryFacts
  <2> QED BY <1>1, <1>3, <2>1, WithinAbsent
<1> QED BY <1>2, <1>3

\* A worker goes on to a place at which it only reads.
LEMMA GoesOn ==
  ASSUME WorkersInv, NEW w \in Worker, Busy(w), job[w].at \notin WritePlaces,
         NEW p \in Places(job[w].request), p \notin WritePlaces \cup {"assign"}, Goto(w, p),
         mem' = mem, registry' = registry,
         p \in {"change", "leave"} => Agrees(mem, registry),
         p \in AskPlaces /\ job[w].alone => Agrees(mem, registry),
         p = "askManager" =>
           /\ job[w].request.code # Nil
           /\ job[w].alone => job[w].request.addr \notin Range(registry.su)
  PROVE  WorkersInv'
<1> DEFINE j == [job[w] EXCEPT !.at = p]
<1>1. job' = [job EXCEPT ![w] = j]
  BY DEF Goto
<1>2. /\ job[w] \in Job /\ job[w].request \in ManagerRequests \cup Checks
      /\ Fact(job[w], mem, registry)
  BY JobFacts
<1>3. p \in AllPlaces
  BY <1>2, PlacesAreAll
<1>4. /\ j \in Job /\ j.at = p /\ j.request = job[w].request /\ j.alone = job[w].alone
      /\ j.entitled = job[w].entitled /\ j.put = job[w].put
  BY <1>2, <1>3 DEF Job
<1>5. j.put = 0
  BY <1>2, <1>4 DEF Fact, WritePlaces
<1> HIDE DEF j
<1>6. Fact(j, mem, registry)
  BY <1>4, <1>5 DEF Fact, WritePlaces
<1> QED BY <1>1, <1>4, <1>6, PlainStep DEF Placed, WritePlaces

\* A worker leaves.
LEMMA Leaves ==
  ASSUME WorkersInv, NEW w \in Worker, Busy(w), job[w].at \notin WritePlaces, Leave(w),
         mem' = mem, registry' = registry
  PROVE  WorkersInv'
<1>1. ~Active(Idle) /\ Idle.at \notin WritePlaces
  BY DEF Idle, Active, WritePlaces
<1>2. job' = [job EXCEPT ![w] = Idle]
  BY DEF Leave
<1> QED BY <1>1, <1>2, PlainStep

-----------------------------------------------------------------------------
(* The steps that only read *)

\* Where a load leads.
LEMMA AfterLoadFacts ==
  ASSUME NEW request \in ManagerRequests \cup Checks,
         "flag" \in Places(request) \/ "get" \in Places(request) \/ "mark" \in Places(request)
  PROVE  /\ AfterLoad(request) \in Places(request) /\ "get" \in Places(request)
         /\ AfterLoad(request) \in {"askSu", "change", "leave"}
         /\ AfterLoad(request) \in {"change", "leave"} => Manages(request)
<1>1. request.kind \in {"add", "remove", "addSu", "removeSu", "op", "check"}
  BY RequestFacts
<1> QED BY <1>1 DEF AfterLoad, Places, Manages, LoadPlaces, AskPlaces

\* Looking at the flag.
LEMMA ReadFlagKeeps ==
  ASSUME WorkersInv, NEW w \in Worker, ReadFlag(w)
  PROVE  WorkersInv'
<1>1. /\ job[w].at = "flag" /\ mem' = mem /\ registry' = registry
      /\ Goto(w, IF mem.cached THEN AfterLoad(job[w].request) ELSE "get")
  BY DEF ReadFlag, At, Globals
<1>2. Busy(w) /\ job[w].at \notin WritePlaces \cup {"save", "clearSu", "unmark"}
  BY <1>1 DEF Busy, WritePlaces
<1>3. job[w].request \in ManagerRequests \cup Checks /\ "flag" \in Places(job[w].request)
  BY <1>1, <1>2, JobFacts
<1>4. CASE mem.cached
  <2>1. Manages(job[w].request) \/ job[w].alone => Agrees(mem, registry)
    BY <1>2, <1>4, UndisturbedAgrees
  <2>2. Goto(w, AfterLoad(job[w].request))
    BY <1>1, <1>4
  <2>3. AfterLoad(job[w].request) \notin WritePlaces \cup {"assign", "askManager"}
    BY <1>3, AfterLoadFacts DEF WritePlaces
  <2> QED BY <1>1, <1>2, <1>3, <2>1, <2>2, <2>3, AfterLoadFacts, GoesOn
<1>5. CASE ~mem.cached
  <2>1. Goto(w, "get") /\ "get" \in Places(job[w].request)
    BY <1>1, <1>3, <1>5, AfterLoadFacts
  <2> QED BY <1>1, <1>2, <2>1, GoesOn DEF AskPlaces, WritePlaces
<1> QED BY <1>4, <1>5

\* Reading the list from state.
LEMMA GetListKeeps ==
  ASSUME WorkersInv, NEW w \in Worker, GetList(w)
  PROVE  WorkersInv'
<1>1. job[w].at = "get" /\ mem' = mem /\ registry' = registry
  BY DEF GetList, At, Globals, Reply
<1>2. Busy(w) /\ job[w].at \notin WritePlaces \cup {"save", "clearSu", "unmark"}
  BY <1>1 DEF Busy, WritePlaces
<1>3. /\ job[w].request \in ManagerRequests \cup Checks /\ "get" \in Places(job[w].request)
      /\ job[w] \in Job /\ Fact(job[w], mem, registry)
  BY <1>1, <1>2, JobFacts
<1>4. CASE Leave(w)
  BY <1>1, <1>2, <1>4, Leaves
<1>5. CASE registry = Absent /\ Goto(w, AfterLoad(job[w].request))
  <2>1. Manages(job[w].request) \/ job[w].alone => Agrees(mem, registry)
    BY <1>2, <1>5, UndisturbedAgrees
  <2>2. AfterLoad(job[w].request) \notin WritePlaces \cup {"assign", "askManager"}
    BY <1>3, AfterLoadFacts DEF WritePlaces
  <2> QED BY <1>1, <1>2, <1>3, <1>5, <2>1, <2>2, AfterLoadFacts, GoesOn
<1>6. CASE /\ job[w].request.declared /\ registry # Absent
           /\ job' = [job EXCEPT ![w].at = "assign", ![w].list = registry]
  <2> DEFINE j == [job[w] EXCEPT !.at = "assign", !.list = registry]
  <2>1. job' = [job EXCEPT ![w] = j]
    BY <1>6
  <2>2. registry \in List
    BY DEF WorkersInv, InvOf, GoodRegistry, Registry, List
  <2>3. /\ j \in Job /\ j.at = "assign" /\ j.request = job[w].request /\ j.alone = job[w].alone
        /\ j.entitled = job[w].entitled /\ j.put = job[w].put /\ j.list = registry
    BY <1>3, <2>2 DEF Job, AllPlaces, LoadPlaces
  <2>4. "assign" \in Places(job[w].request)
    BY <1>3, <1>6, RequestFacts DEF Places, LoadPlaces, Manages
  <2>5. j.put = 0
    BY <1>1, <1>3, <2>3 DEF Fact
  <2> HIDE DEF j
  <2>6. Fact(j, mem, registry)
    BY <1>6, <2>3, <2>5 DEF Fact, AskPlaces
  <2> QED BY <1>1, <1>2, <2>1, <2>3, <2>4, <2>6, PlainStep DEF Placed, WritePlaces
<1> QED BY <1>4, <1>5, <1>6 DEF GetList, Reply

\* Looking into the su map.  Who is not in the map, and alone, is not on the list.
LEMMA AskSuKeeps ==
  ASSUME WorkersInv, NEW w \in Worker, AskSu(w)
  PROVE  WorkersInv'
<1>1. job[w].at = "askSu" /\ mem' = mem /\ registry' = registry
  BY DEF AskSu, At, Globals, Reply
<1>2. Busy(w) /\ job[w].at \notin WritePlaces
  BY <1>1 DEF Busy, WritePlaces
<1>3. /\ job[w].request \in ManagerRequests \cup Checks /\ "askSu" \in Places(job[w].request)
      /\ job[w].alone => Agrees(mem, registry)
  BY <1>1, <1>2, JobFacts DEF Fact, AskPlaces
<1>4. CASE Leave(w)
  BY <1>1, <1>2, <1>4, Leaves
<1>5. CASE /\ job[w].request.code # Nil /\ Goto(w, "askManager")
           /\ ~(mem.suMap # Nil /\ job[w].request.addr \in mem.suMap)
  <2>1. "askManager" \in Places(job[w].request)
    BY <1>3, RequestFacts DEF Places, AskPlaces, LoadPlaces
  <2>2. job[w].alone => job[w].request.addr \notin Range(registry.su)
    BY <1>3, <1>5 DEF Agrees, Range
  <2> QED BY <1>1, <1>2, <1>3, <1>5, <2>1, <2>2, GoesOn DEF WritePlaces
<1> QED BY <1>4, <1>5 DEF AskSu, Reply

\* Looking into the other map, and leaving.
LEMMA AskManagerKeeps ==
  ASSUME WorkersInv, NEW w \in Worker, AskManager(w)
  PROVE  WorkersInv'
<1>1. job[w].at = "askManager" /\ mem' = mem /\ registry' = registry /\ Leave(w)
  BY DEF AskManager, At, Reply
<1> QED BY <1>1, Leaves DEF Busy, WritePlaces

\* The end of OP_MANAGER.
LEMMA EndOperationKeeps ==
  ASSUME WorkersInv, NEW w \in Worker, EndOperation(w)
  PROVE  WorkersInv'
<1>1. job[w].at = "leave" /\ mem' = mem /\ registry' = registry /\ Leave(w)
  BY DEF EndOperation, At, Globals
<1> QED BY <1>1, Leaves DEF Busy, WritePlaces

-----------------------------------------------------------------------------
(* The process ends *)

\* It ends with all of its workers, and a new one knows nothing.
LEMMA DieKeeps == WorkersInv /\ Die => WorkersInv'
<1> SUFFICES ASSUME WorkersInv, Die PROVE WorkersInv'
  OBVIOUS
<1>1. Fresh \in Memory
  BY FreshGood DEF GoodMemory
<1>2. job' \in [Worker -> {Idle} \cup Job] /\ \A w \in Worker : job'[w] = Idle
  BY DEF Die
<1>3. \A w \in Worker : ~Active(job'[w]) /\ job'[w].at = "idle"
  BY <1>2 DEF Active, Idle
<1>4. Unknowing(Fresh) /\ Within(Fresh, registry) /\ ~Fresh.cached
  BY UnknowingWithin DEF Unknowing, Fresh
<1>5. mem' = Fresh /\ registry' = registry /\ GoodRegistry(registry)
  BY DEF Die, WorkersInv, InvOf
<1>6. Apart(job') /\ Entitled(job', registry)
  BY <1>3 DEF Apart, Entitled
<1>7. MemoryFacts(job', Fresh, registry)
  BY <1>4 DEF MemoryFacts
<1>8. InvOf(job', mem', registry')
  BY <1>1, <1>2, <1>3, <1>5, <1>6, <1>7 DEF InvOf
<1> QED BY <1>8, WorkersInvPrimed

-----------------------------------------------------------------------------
(* The steps of a load that write *)

\* While somebody loads, the memory is part of the list.
LEMMA LoadingMemory ==
  ASSUME WorkersInv, NEW w \in Worker, job[w].at \in {"assign", "fill", "fillSu", "mark"}
  PROVE  /\ mem \in Memory /\ GoodRegistry(registry) /\ Within(mem, registry)
         /\ mem.cached => Agrees(mem, registry)
         /\ job[w] \in Job /\ job[w].request \in ManagerRequests \cup Checks
         /\ job[w].at \in Places(job[w].request) /\ Fact(job[w], mem, registry)
         /\ job[w].list = registry /\ registry # Absent
<1>1. Busy(w) /\ ~Somewhere(job, {"save"}) /\ ~Somewhere(job, {"clearSu", "unmark"})
  BY BesideLoad
<1>2. mem \in Memory /\ GoodRegistry(registry) /\ MemoryFacts(job, mem, registry)
  BY DEF WorkersInv, InvOf
<1>3. Within(mem, registry) /\ (mem.cached => Agrees(mem, registry))
  BY <1>1, <1>2 DEF MemoryFacts
<1>4. /\ job[w] \in Job /\ job[w].request \in ManagerRequests \cup Checks
      /\ job[w].at \in Places(job[w].request) /\ Fact(job[w], mem, registry)
  BY <1>1, JobFacts
<1>5. job[w].list = registry /\ registry # Absent
  BY <1>4 DEF Fact
<1> QED BY <1>2, <1>3, <1>4, <1>5

\* A worker that has read a list goes through all places of a load.
LEMMA LoadsOn ==
  ASSUME NEW request \in ManagerRequests \cup Checks, NEW at \in Places(request),
         at \in {"assign", "fill", "fillSu", "mark"}
  PROVE  LoadPlaces \subseteq Places(request)
  BY RequestFacts DEF Places, LoadPlaces, AskPlaces, Manages

\* A step of a load takes the memory towards the list; those who load or ask
\* beside it find what they rely on.
LEMMA LoadSteps ==
  ASSUME WorkersInv, NEW w \in Worker, job[w].at \in {"assign", "fill", "fillSu", "mark"},
         NEW j \in Job, j.at \in LoadPlaces \cup AskPlaces \cup {"change", "leave"},
         j.at \in Places(job[w].request), job' = [job EXCEPT ![w] = j],
         j.request = job[w].request, j.alone = job[w].alone, j.entitled = job[w].entitled,
         mem' \in Memory, Towards(mem, mem', registry), registry' = registry,
         Fact(j, mem', registry),
         mem'.cached => Agrees(mem', registry),
         j.at \in {"fill", "fillSu", "mark"} \/ Agrees(mem', registry)
  PROVE  WorkersInv'
<1>1. GoodRegistry(registry) /\ mem \in Memory
  BY LoadingMemory
<1>2. Busy(w) /\ \A x \in Worker : x # w /\ Busy(x) => ~Manages(job[x].request)
  BY BesideLoad
<1>3. ASSUME NEW x \in Worker, x # w, Busy(x) PROVE Fact(job[x], mem', registry)
  <2>1. /\ job[x] \in Job /\ Fact(job[x], mem, registry)
        /\ job[x].request \in ManagerRequests \cup Checks /\ job[x].at \in Places(job[x].request)
    BY <1>3, JobFacts
  <2>2. job[x].at \in LoadPlaces \cup AskPlaces
    BY <1>2, <1>3, <2>1, RequestFacts DEF Places, LoadPlaces
  <2> QED BY <1>1, <2>1, <2>2, TowardsFact
<1>4. Entitled(job', registry)
  BY <1>2, StillEntitled
<1>5. job'[w] = j /\ \A x \in Worker : x # w => job'[x] = job[x]
  BY DEF WorkersInv, InvOf
<1>6. MemoryFacts(job', mem', registry)
  <2>1. Within(mem', registry)
    BY DEF Towards
  <2>2. j.at \in {"fill", "fillSu", "mark"} => Somewhere(job', {"fill", "fillSu", "mark"})
    BY <1>5 DEF Somewhere
  <2> QED BY <2>1, <2>2 DEF MemoryFacts
<1> QED BY <1>1, <1>2, <1>3, <1>4, <1>6, WorkerSteps DEF Placed

\* g_ons_manager is assigned the list that was read.
LEMMA AssignListKeeps ==
  ASSUME WorkersInv, NEW w \in Worker, AssignList(w)
  PROVE  WorkersInv'
<1> DEFINE j == [job[w] EXCEPT !.at = "fill"]
           n == [mem EXCEPT !.su = NilIfEmpty(registry.su), !.mgr = NilIfEmpty(registry.mgr)]
<1>1. job[w].at = "assign"
  BY DEF AssignList, At
<1>2. /\ mem \in Memory /\ GoodRegistry(registry) /\ Within(mem, registry)
      /\ mem.cached => Agrees(mem, registry)
      /\ job[w] \in Job /\ job[w].request \in ManagerRequests \cup Checks
      /\ job[w].at \in Places(job[w].request) /\ Fact(job[w], mem, registry)
      /\ job[w].list = registry /\ registry # Absent
  BY <1>1, LoadingMemory
<1>3. job' = [job EXCEPT ![w] = j] /\ mem' = n /\ registry' = registry
  BY <1>2 DEF AssignList, Goto, Globals
<1>4. /\ j \in Job /\ j.at = "fill" /\ j.request = job[w].request /\ j.alone = job[w].alone
      /\ j.entitled = job[w].entitled /\ j.put = job[w].put /\ j.list = registry
  BY <1>2 DEF Job, AllPlaces, LoadPlaces
<1>5. j.at \in Places(job[w].request)
  BY <1>1, <1>2, <1>4, LoadsOn DEF LoadPlaces
<1>6. j.put = 0
  BY <1>1, <1>2, <1>4 DEF Fact
<1>7. /\ registry.su \in Seq(Address) /\ registry.mgr \in Seq(Entry)
      /\ registry = [su |-> registry.su, mgr |-> registry.mgr]
  BY <1>2 DEF GoodRegistry, Registry
<1>8. /\ NilIfEmpty(registry.su) \in Seq(Address) \cup {Nil}
      /\ NilIfEmpty(registry.mgr) \in Seq(Entry) \cup {Nil}
      /\ Entries(NilIfEmpty(registry.su)) = registry.su
      /\ Entries(NilIfEmpty(registry.mgr)) = registry.mgr
  BY <1>7, NilIfEmptyFacts, NilListAssumption
<1>9. /\ n \in Memory /\ Held(n) = registry /\ n.cached = mem.cached
      /\ n.suMap = mem.suMap /\ n.mgrMap = mem.mgrMap
  BY <1>2, <1>7, <1>8 DEF Memory, Held
<1> HIDE DEF j, n
<1>10. Towards(mem, n, registry)
  BY <1>2, <1>9 DEF Towards, Within
<1>11. Len(registry.mgr) \in Nat
  BY <1>7, LenProperties
<1>12. Fact(j, n, registry)
  BY <1>2, <1>4, <1>6, <1>9, <1>11 DEF Fact, AskPlaces
<1>13. n.cached => Agrees(n, registry)
  BY <1>2, <1>9, <1>10, TowardsAgrees
<1> QED BY <1>1, <1>3, <1>4, <1>5, <1>9, <1>10, <1>12, <1>13, LoadSteps DEF LoadPlaces

\* The memory with one more entry in the map of the code managers.
WithEntry(m, e) == [m EXCEPT !.mgrMap[e.gs1] = e.addr]

\* An entry is put into the map of the code managers.
LEMMA PutManager ==
  ASSUME NEW m \in Memory, NEW r, GoodRegistry(r), Within(m, r), NEW i \in 1..Len(r.mgr)
  PROVE  LET n == WithEntry(m, r.mgr[i])
         IN  /\ n \in Memory /\ Towards(m, n, r) /\ n.cached = m.cached /\ Held(n) = Held(m)
             /\ n.mgrMap[r.mgr[i].gs1] = r.mgr[i].addr
<1> DEFINE c == r.mgr[i].gs1
           a == r.mgr[i].addr
           n == [m EXCEPT !.mgrMap = [m.mgrMap EXCEPT ![c] = a]]
<1>1. c \in Code /\ a \in Address /\ ManagerOf(r)[c] = a
  BY EntryNamed
<1>2. n = WithEntry(m, r.mgr[i])
  BY DEF WithEntry
<1> HIDE DEF c, a
<1>3. /\ n \in Memory /\ n.su = m.su /\ n.mgr = m.mgr /\ n.cached = m.cached /\ n.suMap = m.suMap
      /\ n.mgrMap = [m.mgrMap EXCEPT ![c] = a] /\ m.mgrMap \in [Code -> Address \cup {Nil}]
  BY <1>1 DEF Memory
<1> HIDE DEF n
<1>4. n.mgrMap[c] = a /\ \A d \in Code : d # c => n.mgrMap[d] = m.mgrMap[d]
  BY <1>1, <1>3
<1>5. Held(n) = Held(m)
  BY <1>3 DEF Held
<1>6. \A d \in Code : n.mgrMap[d] \in {Nil, ManagerOf(r)[d]}
  BY <1>1, <1>4 DEF Within
<1>7. Towards(m, n, r)
  BY <1>1, <1>3, <1>4, <1>5, <1>6 DEF Towards, Within
<1> QED BY <1>2, <1>3, <1>4, <1>5, <1>7 DEF c, a

\* A su manager is put into the su map.
LEMMA PutSu ==
  ASSUME NEW m \in Memory, NEW r, GoodRegistry(r), Within(m, r), m.suMap # Nil,
         NEW i \in 1..Len(r.su)
  PROVE  LET n == [m EXCEPT !.suMap = @ \cup {r.su[i]}]
         IN  /\ n \in Memory /\ Towards(m, n, r) /\ n.cached = m.cached /\ Held(n) = Held(m)
             /\ n.mgrMap = m.mgrMap /\ n.suMap # Nil /\ n.suMap = m.suMap \cup {r.su[i]}
<1> DEFINE set == m.suMap \cup {r.su[i]}
           n == [m EXCEPT !.suMap = set]
<1>1. r.su \in Seq(Address) /\ i \in DOMAIN r.su
  BY LenProperties DEF GoodRegistry, Registry
<1>2. r.su[i] \in Address /\ r.su[i] \in Range(r.su)
  BY <1>1, ElementOfSeq, LenProperties DEF Range
<1>3. m.suMap \in SUBSET Address
  BY DEF Memory
<1>4. set \in SUBSET Address /\ set # Nil /\ set \subseteq Range(r.su)
  BY <1>2, <1>3, NilAssumption DEF Within
<1>5. n = [m EXCEPT !.suMap = @ \cup {r.su[i]}]
  OBVIOUS
<1>6. set = m.suMap \cup {r.su[i]}
  OBVIOUS
<1> HIDE DEF set
<1>7. /\ n \in Memory /\ n.su = m.su /\ n.mgr = m.mgr /\ n.cached = m.cached
      /\ n.mgrMap = m.mgrMap /\ n.suMap = set
  BY <1>4 DEF Memory
<1> HIDE DEF n
<1>8. Held(n) = Held(m)
  BY <1>7 DEF Held
<1>9. Towards(m, n, r)
  BY <1>4, <1>6, <1>7, <1>8 DEF Towards, Within
<1> QED BY <1>4, <1>5, <1>6, <1>7, <1>8, <1>9

\* A memory goes towards a list by standing still.
LEMMA StandsStill ==
  ASSUME NEW m, NEW r, Within(m, r)
  PROVE  Towards(m, m, r)
  BY DEF Towards

\* When all entries are in, the map is the list's.
LEMMA AllPut ==
  ASSUME NEW m \in Memory, NEW r, GoodRegistry(r), Within(m, r),
         \A i \in 1..Len(r.mgr) : m.mgrMap[r.mgr[i].gs1] = r.mgr[i].addr
  PROVE  m.mgrMap = ManagerOf(r)
<1>1. r.mgr \in Seq(Entry) /\ DOMAIN r.mgr = 1..Len(r.mgr)
  BY LenProperties DEF GoodRegistry, Registry
<1>2. ASSUME NEW c \in Code PROVE m.mgrMap[c] = ManagerOf(r)[c]
  <2>1. CASE Has(r.mgr, c)
    <3>1. PICK i \in 1..Len(r.mgr) : r.mgr[i].gs1 = c
      BY <1>1, <2>1 DEF Has
    <3> QED BY <3>1, EntryNamed
  <2>2. CASE ~Has(r.mgr, c)
    BY <2>2 DEF Within, ManagerOf
  <2> QED BY <2>1, <2>2
<1> QED BY <1>2 DEF Memory, ManagerOf

\* When all su managers are in, too, the memory is whole.
LEMMA AllSuPut ==
  ASSUME NEW m \in Memory, NEW r, GoodRegistry(r), Within(m, r),
         Held(m) = r, m.mgrMap = ManagerOf(r),
         \A i \in 1..Len(r.su) : m.suMap # Nil /\ r.su[i] \in m.suMap
  PROVE  Agrees(m, r)
<1>1. r.su \in Seq(Address) /\ DOMAIN r.su = 1..Len(r.su) /\ Len(r.su) \in Nat
  BY LenProperties DEF GoodRegistry, Registry
<1>2. m.suMap # Nil => m.suMap = Range(r.su)
  BY <1>1 DEF Within, Range
<1>3. m.suMap = Nil => r.su = <<>>
  <2> SUFFICES ASSUME m.suMap = Nil PROVE r.su = <<>>
    OBVIOUS
  <2>1. Len(r.su) = 0
    BY <1>1
  <2> QED BY <1>1, <2>1, EmptySeq
<1> QED BY <1>2, <1>3 DEF Agrees

\* The code managers are put into the map one after the other.
LEMMA FillManagersKeeps ==
  ASSUME WorkersInv, NEW w \in Worker, FillManagers(w)
  PROVE  WorkersInv'
<1> DEFINE i == job[w].put + 1
<1>1. job[w].at = "fill"
  BY DEF FillManagers, At
<1>2. /\ mem \in Memory /\ GoodRegistry(registry) /\ Within(mem, registry)
      /\ mem.cached => Agrees(mem, registry)
      /\ job[w] \in Job /\ job[w].request \in ManagerRequests \cup Checks
      /\ job[w].at \in Places(job[w].request) /\ Fact(job[w], mem, registry)
      /\ job[w].list = registry /\ registry # Absent
  BY <1>1, LoadingMemory
<1>3. /\ Held(mem) = registry /\ job[w].put <= Len(registry.mgr)
      /\ \A k \in 1..job[w].put : mem.mgrMap[registry.mgr[k].gs1] = registry.mgr[k].addr
  BY <1>1, <1>2 DEF Fact
<1>4. job[w].put \in Nat /\ Len(registry.mgr) \in Nat /\ Len(registry.su) \in Nat
  BY <1>2, LenProperties DEF Job, GoodRegistry, Registry
<1>5. LoadPlaces \subseteq Places(job[w].request)
  BY <1>1, <1>2, LoadsOn
<1>6. CASE /\ i <= Len(registry.mgr) /\ job' = [job EXCEPT ![w].put = i]
           /\ mem' = [mem EXCEPT !.mgrMap[registry.mgr[i].gs1] = registry.mgr[i].addr]
           /\ registry' = registry
  <2> DEFINE j == [job[w] EXCEPT !.put = i]
             n == WithEntry(mem, registry.mgr[i])
  <2>1. i \in 1..Len(registry.mgr) /\ i \in Nat /\ 1..i = (1..job[w].put) \cup {i}
    BY <1>4, <1>6
  <2>2. /\ n \in Memory /\ Towards(mem, n, registry) /\ n.cached = mem.cached
        /\ Held(n) = Held(mem) /\ n.mgrMap[registry.mgr[i].gs1] = registry.mgr[i].addr
    BY <1>2, <2>1, PutManager
  <2>3. job' = [job EXCEPT ![w] = j] /\ mem' = n /\ registry' = registry
    BY <1>6 DEF WithEntry
  <2>4. /\ j \in Job /\ j.at = "fill" /\ j.request = job[w].request /\ j.alone = job[w].alone
        /\ j.entitled = job[w].entitled /\ j.put = i /\ j.list = registry
    BY <1>1, <1>2, <2>1 DEF Job
  <2> HIDE DEF j, n, i
  <2>5. \A k \in 1..i : n.mgrMap[registry.mgr[k].gs1] = registry.mgr[k].addr
    <3> SUFFICES ASSUME NEW k \in 1..job[w].put
                 PROVE  n.mgrMap[registry.mgr[k].gs1] = registry.mgr[k].addr
      BY <2>1, <2>2
    <3>1. k \in 1..Len(registry.mgr)
      BY <1>3, <1>4
    <3> QED BY <1>2, <1>3, <2>2, <3>1, EntryNamed DEF Towards
  <2>6. Fact(j, n, registry)
    BY <1>2, <1>3, <1>6, <2>2, <2>4, <2>5 DEF Fact, AskPlaces
  <2>7. n.cached => Agrees(n, registry)
    BY <1>2, <2>2, TowardsAgrees
  <2> QED BY <1>1, <1>2, <1>5, <2>2, <2>3, <2>4, <2>6, <2>7, LoadSteps DEF LoadPlaces
<1>7. CASE /\ ~(i <= Len(registry.mgr)) /\ job' = [job EXCEPT ![w].put = 0, ![w].at = "fillSu"]
           /\ mem' = mem /\ registry' = registry
  <2> DEFINE j == [job[w] EXCEPT !.put = 0, !.at = "fillSu"]
  <2>1. job' = [job EXCEPT ![w] = j]
    BY <1>7
  <2>2. /\ j \in Job /\ j.at = "fillSu" /\ j.request = job[w].request /\ j.alone = job[w].alone
        /\ j.entitled = job[w].entitled /\ j.put = 0 /\ j.list = registry
    BY <1>2 DEF Job, AllPlaces, LoadPlaces
  <2>3. job[w].put = Len(registry.mgr)
    BY <1>3, <1>4, <1>7
  <2>4. mem.mgrMap = ManagerOf(registry)
    BY <1>2, <1>3, <2>3, AllPut
  <2> HIDE DEF j
  <2>5. Fact(j, mem, registry)
    BY <1>2, <1>3, <1>4, <2>2, <2>4 DEF Fact, AskPlaces
  <2> QED BY <1>1, <1>2, <1>5, <1>7, <2>1, <2>2, <2>5, StandsStill, LoadSteps DEF LoadPlaces
<1>8. \/ /\ i <= Len(registry.mgr) /\ job' = [job EXCEPT ![w].put = i]
         /\ mem' = [mem EXCEPT !.mgrMap[registry.mgr[i].gs1] = registry.mgr[i].addr]
         /\ registry' = registry
      \/ /\ i > Len(registry.mgr) /\ job' = [job EXCEPT ![w].put = 0, ![w].at = "fillSu"]
         /\ mem' = mem /\ registry' = registry
  BY <1>2 DEF FillManagers, Globals
<1> QED BY <1>4, <1>6, <1>7, <1>8

\* Then the su managers; a nil su map ends the process.
LEMMA FillSuKeeps ==
  ASSUME WorkersInv, NEW w \in Worker, FillSu(w)
  PROVE  WorkersInv'
<1> DEFINE i == job[w].put + 1
<1>1. job[w].at = "fillSu"
  BY DEF FillSu, At
<1>2. /\ mem \in Memory /\ GoodRegistry(registry) /\ Within(mem, registry)
      /\ mem.cached => Agrees(mem, registry)
      /\ job[w] \in Job /\ job[w].request \in ManagerRequests \cup Checks
      /\ job[w].at \in Places(job[w].request) /\ Fact(job[w], mem, registry)
      /\ job[w].list = registry /\ registry # Absent
  BY <1>1, LoadingMemory
<1>3. /\ Held(mem) = registry /\ job[w].put <= Len(registry.su)
      /\ mem.mgrMap = ManagerOf(registry)
      /\ \A k \in 1..job[w].put : mem.suMap # Nil /\ registry.su[k] \in mem.suMap
  BY <1>1, <1>2 DEF Fact
<1>4. job[w].put \in Nat /\ Len(registry.su) \in Nat
  BY <1>2, LenProperties DEF Job, GoodRegistry, Registry
<1>5. LoadPlaces \subseteq Places(job[w].request)
  BY <1>1, <1>2, LoadsOn
<1>6. CASE /\ i <= Len(registry.su) /\ mem.suMap # Nil /\ job' = [job EXCEPT ![w].put = i]
           /\ mem' = [mem EXCEPT !.suMap = @ \cup {registry.su[i]}]
           /\ registry' = registry
  <2> DEFINE j == [job[w] EXCEPT !.put = i]
             n == [mem EXCEPT !.suMap = @ \cup {registry.su[i]}]
  <2>1. i \in 1..Len(registry.su) /\ i \in Nat /\ 1..i = (1..job[w].put) \cup {i}
    BY <1>4, <1>6
  <2>2. /\ n \in Memory /\ Towards(mem, n, registry) /\ n.cached = mem.cached
        /\ Held(n) = registry /\ n.mgrMap = ManagerOf(registry) /\ n.suMap # Nil
        /\ n.suMap = mem.suMap \cup {registry.su[i]}
    BY <1>2, <1>3, <1>6, <2>1, PutSu
  <2>3. job' = [job EXCEPT ![w] = j] /\ mem' = n /\ registry' = registry
    BY <1>6
  <2>4. /\ j \in Job /\ j.at = "fillSu" /\ j.request = job[w].request /\ j.alone = job[w].alone
        /\ j.entitled = job[w].entitled /\ j.put = i /\ j.list = registry
    BY <1>1, <1>2, <2>1 DEF Job
  <2> HIDE DEF j, n, i
  <2>5. \A k \in 1..i : n.suMap # Nil /\ registry.su[k] \in n.suMap
    BY <1>3, <2>1, <2>2
  <2>6. Fact(j, n, registry)
    BY <1>2, <1>6, <2>2, <2>4, <2>5 DEF Fact, AskPlaces
  <2>7. n.cached => Agrees(n, registry)
    BY <1>2, <2>2, TowardsAgrees
  <2> QED BY <1>1, <1>2, <1>5, <2>2, <2>3, <2>4, <2>6, <2>7, LoadSteps DEF LoadPlaces
<1>7. CASE /\ ~(i <= Len(registry.su)) /\ job' = [job EXCEPT ![w].put = 0, ![w].at = "mark"]
           /\ mem' = mem /\ registry' = registry
  <2> DEFINE j == [job[w] EXCEPT !.put = 0, !.at = "mark"]
  <2>1. job' = [job EXCEPT ![w] = j]
    BY <1>7
  <2>2. /\ j \in Job /\ j.at = "mark" /\ j.request = job[w].request /\ j.alone = job[w].alone
        /\ j.entitled = job[w].entitled /\ j.put = 0 /\ j.list = registry
    BY <1>2 DEF Job, AllPlaces, LoadPlaces
  <2>3. job[w].put = Len(registry.su)
    BY <1>3, <1>4, <1>7
  <2>4. Agrees(mem, registry)
    BY <1>2, <1>3, <2>3, AllSuPut
  <2> HIDE DEF j
  <2>5. Fact(j, mem, registry)
    BY <1>2, <2>2, <2>4 DEF Fact, AskPlaces
  <2> QED BY <1>1, <1>2, <1>5, <1>7, <2>1, <2>2, <2>5, StandsStill, LoadSteps DEF LoadPlaces
<1>8. \/ Die
      \/ /\ i <= Len(registry.su) /\ mem.suMap # Nil /\ job' = [job EXCEPT ![w].put = i]
         /\ mem' = [mem EXCEPT !.suMap = @ \cup {registry.su[i]}]
         /\ registry' = registry
      \/ /\ i > Len(registry.su) /\ job' = [job EXCEPT ![w].put = 0, ![w].at = "mark"]
         /\ mem' = mem /\ registry' = registry
  BY <1>2 DEF FillSu, Globals
<1> QED BY <1>4, <1>6, <1>7, <1>8, DieKeeps

\* The flag is set when everything is in.
LEMMA MarkCachedKeeps ==
  ASSUME WorkersInv, NEW w \in Worker, MarkCached(w)
  PROVE  WorkersInv'
<1> DEFINE j == [job[w] EXCEPT !.list = Absent, !.at = AfterLoad(job[w].request)]
           n == [mem EXCEPT !.cached = TRUE]
<1>1. job[w].at = "mark"
  BY DEF MarkCached, At
<1>2. /\ mem \in Memory /\ GoodRegistry(registry) /\ Within(mem, registry)
      /\ job[w] \in Job /\ job[w].request \in ManagerRequests \cup Checks
      /\ job[w].at \in Places(job[w].request) /\ Fact(job[w], mem, registry)
      /\ job[w].list = registry /\ registry # Absent
  BY <1>1, LoadingMemory
<1>3. job' = [job EXCEPT ![w] = j] /\ mem' = n /\ registry' = registry
  BY DEF MarkCached, Globals
<1>4. Agrees(mem, registry) /\ job[w].put = 0
  BY <1>1, <1>2 DEF Fact
<1>5. /\ AfterLoad(job[w].request) \in Places(job[w].request)
      /\ AfterLoad(job[w].request) \in {"askSu", "change", "leave"}
  BY <1>1, <1>2, AfterLoadFacts
<1>6. Absent \in List
  BY EmptySeq DEF Absent, List
<1>7. /\ j \in Job /\ j.at = AfterLoad(job[w].request) /\ j.request = job[w].request
      /\ j.alone = job[w].alone /\ j.entitled = job[w].entitled /\ j.put = 0
  BY <1>2, <1>4, <1>5, <1>6, PlacesAreAll DEF Job
<1>8. n \in Memory /\ Held(n) = Held(mem) /\ n.mgrMap = mem.mgrMap /\ n.suMap = mem.suMap
  BY <1>2 DEF Memory, Held
<1> HIDE DEF j, n
<1>9. Agrees(n, registry)
  BY <1>4, <1>8 DEF Agrees
<1>10. Towards(mem, n, registry)
  BY <1>2, <1>8 DEF Towards, Within
<1>11. Fact(j, n, registry)
  BY <1>5, <1>7, <1>9 DEF Fact
<1> QED BY <1>1, <1>3, <1>5, <1>7, <1>8, <1>9, <1>10, <1>11, LoadSteps DEF AskPlaces

-----------------------------------------------------------------------------
(* The steps of a manager transaction that write *)

\* A step of a manager transaction that does not write to state: nobody beside it
\* knows anything.
LEMMA ManagerSteps ==
  ASSUME WorkersInv, NEW w \in Worker, Busy(w), Manages(job[w].request),
         NEW j \in Job, j.at \in Places(job[w].request), job' = [job EXCEPT ![w] = j],
         j.request = job[w].request, j.alone = job[w].alone, j.entitled = job[w].entitled,
         mem' \in Memory, registry' = registry, Fact(j, mem', registry),
         MemoryFacts(job', mem', registry)
  PROVE  WorkersInv'
<1>1. GoodRegistry(registry)
  BY DEF WorkersInv, InvOf
<1>2. \A x \in Worker : x # w /\ Busy(x) => Fact(job[x], mem', registry)
  BY BesideManager
<1>3. Entitled(job', registry)
  BY StillEntitled
<1> QED BY <1>1, <1>2, <1>3, WorkerSteps DEF Placed

\* What a manager transaction makes of a memory that knows the list is good,
\* knows itself, and is what the transaction is for.
LEMMA ChangedFacts ==
  ASSUME NEW m \in Memory, NEW r, GoodRegistry(r), Agrees(m, r),
         NEW request \in ManagerRequests \cup Checks,
         request.kind \in {"add", "remove", "addSu", "removeSu"},
         request.kind = "remove" => m.mgr # Nil,
         request.kind = "addSu" => m.suMap # Nil,
         request.kind = "removeSu" => m.su # Nil
  PROVE  LET n == Changed(m, request)
         IN  /\ GoodMemory(n) /\ n.cached = m.cached
             /\ Agrees(n, Held(n)) /\ Effect(request, r, Held(n))
<1> DEFINE n == Changed(m, request)
           Facts == GoodMemory(n) /\ n.cached = m.cached /\ Agrees(n, Held(n))
                      /\ Effect(request, r, Held(n))
<1> SUFFICES Facts
  OBVIOUS
<1>1. GoodMemory(m) /\ m = [su |-> m.su, mgr |-> m.mgr, cached |-> m.cached,
                            suMap |-> m.suMap, mgrMap |-> m.mgrMap]
  BY AgreesGood, MemoryElim
<1>2. CASE request.kind = "add"
  <2>1. n = WithManager(m, request.code, request.addr) /\ request.code \in Code
        /\ request.addr \in Address
    BY <1>2, RequestFacts DEF Changed
  <2>2. n.cached = m.cached
    BY <1>1, <2>1 DEF WithManager
  <2> HIDE DEF n
  <2>3. GoodMemory(n)
    BY <1>1, <2>1, WithManagerGood
  <2>4. /\ Agrees(n, Held(n)) /\ Held(n).su = r.su
        /\ ManagerOf(Held(n)) = [ManagerOf(r) EXCEPT ![request.code] = request.addr]
    BY <1>1, <2>1, WithManagerAgrees
  <2> QED BY <1>2, <2>2, <2>3, <2>4 DEF Effect
<1>3. CASE request.kind = "remove"
  <2>1. n = WithoutManager(m, request.code) /\ request.code \in Code
    BY <1>3, RequestFacts DEF Changed
  <2>2. n.cached = m.cached
    BY <1>1, <2>1 DEF WithoutManager
  <2> HIDE DEF n
  <2>3. GoodMemory(n)
    BY <1>1, <1>3, <2>1, WithoutManagerGood
  <2>4. /\ Agrees(n, Held(n)) /\ Held(n).su = r.su
        /\ ManagerOf(Held(n)) = [ManagerOf(r) EXCEPT ![request.code] = Nil]
    BY <1>1, <1>3, <2>1, WithoutManagerAgrees
  <2> QED BY <1>3, <2>2, <2>3, <2>4 DEF Effect
<1>4. CASE request.kind = "addSu" /\ request.addr \in m.suMap
  <2>1. n = m
    BY <1>4 DEF Changed
  <2>2. Held(n) = r /\ Range(r.su) = Range(r.su) \cup {request.addr}
    BY <1>4, <2>1 DEF Agrees
  <2> HIDE DEF n
  <2> QED BY <1>1, <1>4, <2>1, <2>2 DEF Effect
<1>5. CASE request.kind = "addSu" /\ request.addr \notin m.suMap
  <2>1. n = WithSu(m, request.addr) /\ request.addr \in Address
    BY <1>5, RequestFacts DEF Changed
  <2>2. n.cached = m.cached
    BY <1>1, <2>1 DEF WithSu
  <2> HIDE DEF n
  <2>3. GoodMemory(n)
    BY <1>1, <1>5, <2>1, WithSuGood
  <2>4. /\ Agrees(n, Held(n)) /\ Held(n).mgr = r.mgr
        /\ Range(Held(n).su) = Range(r.su) \cup {request.addr}
    BY <1>1, <1>5, <2>1, WithSuAgrees
  <2> QED BY <1>5, <2>2, <2>3, <2>4 DEF Effect
<1>6. CASE request.kind = "removeSu"
  <2>1. n = WithoutSu(m, request.addr) /\ request.addr \in Address
    BY <1>6, RequestFacts DEF Changed
  <2>2. n.cached = m.cached
    BY <1>1, <2>1 DEF WithoutSu
  <2> HIDE DEF n
  <2>3. GoodMemory(n)
    BY <1>1, <1>6, <2>1, WithoutSuGood
  <2>4. /\ Agrees(n, Held(n)) /\ Held(n).mgr = r.mgr
        /\ Range(Held(n).su) = Range(r.su) \ {request.addr}
    BY <1>1, <1>6, <2>1, WithoutSuAgrees
  <2> QED BY <1>6, <2>2, <2>3, <2>4 DEF Effect
<1> HIDE DEF Facts
<1> QED BY <1>2, <1>3, <1>4, <1>5, <1>6

\* The map is changed; the list will be saved.
LEMMA ChangeMapKeeps ==
  ASSUME WorkersInv, NEW w \in Worker, ChangeMap(w)
  PROVE  WorkersInv'
<1> DEFINE request == job[w].request
           m == Changed(mem, request)
           list == [su |-> m.su, mgr |-> m.mgr]
<1>1. job[w].at = "change"
  BY DEF ChangeMap, At
<1>2. Busy(w) /\ job[w].at \notin WritePlaces
  BY <1>1 DEF Busy, WritePlaces
<1>3. /\ mem \in Memory /\ GoodRegistry(registry) /\ job[w] \in Job
      /\ request \in ManagerRequests \cup Checks /\ Agrees(mem, registry) /\ job[w].put = 0
      /\ request.kind \in {"add", "remove", "addSu", "removeSu"} /\ Manages(request)
  <2>1. /\ job[w] \in Job /\ request \in ManagerRequests \cup Checks
        /\ "change" \in Places(request) /\ Fact(job[w], mem, registry)
    BY <1>1, <1>2, JobFacts
  <2>2. Manages(request) /\ request.kind \in {"add", "remove", "addSu", "removeSu"}
    BY <2>1, ManagerPlaces
  <2> QED BY <1>1, <2>1, <2>2 DEF Fact, WorkersInv, InvOf
<1>4. CASE Die
  BY <1>4, DieKeeps
<1>5. CASE Leave(w) /\ Globals(mem)
  BY <1>2, <1>5, Leaves DEF Globals
<1>6. CASE /\ ~ChangePanics(request) /\ ~NothingToRemove(request)
           /\ job' = [job EXCEPT ![w].at = "save", ![w].list = list]
           /\ Globals([mem EXCEPT !.mgrMap = m.mgrMap, !.suMap = m.suMap])
  <2> DEFINE j == [job[w] EXCEPT !.at = "save", !.list = list]
             n == [mem EXCEPT !.mgrMap = m.mgrMap, !.suMap = m.suMap]
  <2>1. job' = [job EXCEPT ![w] = j] /\ mem' = n /\ registry' = registry
    BY <1>6 DEF Globals
  <2>2. /\ GoodMemory(m) /\ m.cached = mem.cached
        /\ Agrees(m, Held(m)) /\ Effect(request, registry, Held(m))
    BY <1>3, <1>6, ChangedFacts DEF ChangePanics, NothingToRemove
  <2> HIDE DEF m
  <2>3. list \in List
    BY <2>2 DEF GoodMemory, Memory, List
  <2>4. n \in Memory
    BY <1>3, <2>2 DEF GoodMemory, Memory
  <2>5. Rewritten(n, list) = m
    <3>1. /\ m = [su |-> m.su, mgr |-> m.mgr, cached |-> m.cached,
                  suMap |-> m.suMap, mgrMap |-> m.mgrMap]
      BY <2>2, MemoryElim
    <3> QED BY <1>3, <2>2, <3>1 DEF Rewritten, Memory
  <2>6. /\ j \in Job /\ j.at = "save" /\ j.request = request /\ j.alone = job[w].alone
        /\ j.entitled = job[w].entitled /\ j.put = 0 /\ j.list = list
    BY <1>3, <2>3 DEF Job, AllPlaces
  <2>7. "save" \in Places(request)
    BY <1>3 DEF Places, LoadPlaces
  <2>8. job'[w] = j
    BY <2>1 DEF WorkersInv, InvOf
  <2> HIDE DEF j, n, list
  <2>9. Fact(j, n, registry)
    BY <2>2, <2>5, <2>6 DEF Fact, AskPlaces
  <2>10. MemoryFacts(job', n, registry)
    BY <2>6, <2>8 DEF MemoryFacts, Somewhere
  <2> HIDE DEF request
  <2>11. job[w].request = request
    BY DEF request
  <2> QED BY <1>2, <1>3, <2>1, <2>4, <2>6, <2>7, <2>9, <2>10, <2>11, ManagerSteps
<1>7. \/ Die
      \/ Leave(w) /\ Globals(mem)
      \/ /\ ~ChangePanics(request) /\ ~NothingToRemove(request)
         /\ job' = [job EXCEPT ![w].at = "save", ![w].list = list]
         /\ Globals([mem EXCEPT !.mgrMap = m.mgrMap, !.suMap = m.suMap])
  BY DEF ChangeMap
<1> QED BY <1>4, <1>5, <1>6, <1>7

\* Whoever has a role in the saved list had it in the old one or was given it.
LEMMA EffectGives ==
  ASSUME NEW request, NEW old, NEW new, Effect(request, old, new),
         NEW asked \in ManagerRequests \cup Checks, ~Manages(asked), Holds(new, asked)
  PROVE  Holds(old, asked) \/ Gives(request, asked)
<1>1. asked.addr \in Address /\ asked.code \in Code \cup {Nil}
  BY RequestFacts
<1>2. CASE request.kind = "add"
  BY <1>1, <1>2 DEF Effect, Holds, Gives, ManagerOf
<1>3. CASE request.kind = "remove"
  BY <1>1, <1>3, NilAssumption DEF Effect, Holds, Gives, ManagerOf
<1>4. CASE request.kind = "addSu"
  BY <1>1, <1>4 DEF Effect, Holds, Gives, ManagerOf
<1>5. CASE request.kind = "removeSu"
  BY <1>1, <1>5 DEF Effect, Holds, Gives, ManagerOf
<1> QED BY <1>2, <1>3, <1>4, <1>5 DEF Effect

\* What a worker is about to save.
LEMMA SavingFacts ==
  ASSUME WorkersInv, NEW w \in Worker, job[w].at = "save"
  PROVE  LET n == Rewritten(mem, job[w].list)
         IN  /\ GoodMemory(n) /\ Agrees(n, Held(n))
             /\ Effect(job[w].request, registry, Held(n))
             /\ Busy(w) /\ Manages(job[w].request)
<1>1. Busy(w)
  BY DEF Busy
<1>2. Manages(job[w].request) /\ Fact(job[w], mem, registry)
  BY <1>1, JobFacts, ManagerPlaces
<1> QED BY <1>1, <1>2 DEF Fact

\* The list is saved, and everybody who got a role by it is entitled.
LEMMA SaveListKeeps ==
  ASSUME WorkersInv, NEW w \in Worker, SaveList(w)
  PROVE  WorkersInv'
<1> DEFINE n == Rewritten(mem, job[w].list)
<1>1. job[w].at = "save" /\ mem' = n /\ registry' = Held(n) /\ job' = [job EXCEPT ![w] = Idle]
  BY DEF SaveList, At, Leave, Rewritten
<1>2. /\ GoodMemory(n) /\ Agrees(n, Held(n)) /\ Effect(job[w].request, registry, Held(n))
      /\ Busy(w) /\ Manages(job[w].request)
  BY <1>1, SavingFacts
<1> HIDE DEF n
<1>3. GoodRegistry(Held(n)) /\ n \in Memory
  BY <1>2, HeldGood DEF GoodMemory
<1>4. \A x \in Worker : x # w /\ Busy(x) => Fact(job[x], n, Held(n))
  BY <1>2, BesideManager
<1>5. ~Active(Idle) /\ Idle.at = "idle"
  BY DEF Active, Idle
<1>6. job'[w] = Idle /\ \A x \in Worker : x # w => job'[x] = job[x]
  BY <1>1 DEF WorkersInv, InvOf
<1>7. Entitled(job', Held(n))
  <2> SUFFICES ASSUME NEW x \in Worker, x # w, Busy(x), ~Manages(job[x].request),
                      Holds(Held(n), job[x].request)
               PROVE  job[x].entitled
    BY <1>5, <1>6 DEF Entitled, Active, Busy
  <2>1. Holds(registry, job[x].request) \/ Gives(job[w].request, job[x].request)
    BY <1>2, JobFacts, EffectGives
  <2>2. Entitled(job, registry) /\ Apart(job)
    BY DEF WorkersInv, InvOf
  <2> QED BY <1>2, <2>1, <2>2 DEF Entitled, Apart, Active, Busy
<1>8. MemoryFacts(job', n, Held(n))
  BY <1>2, <1>3, AgreesWithin DEF MemoryFacts
<1> QED BY <1>1, <1>2, <1>3, <1>4, <1>5, <1>7, <1>8, WorkerSteps

\* OP_MANAGER empties the list and the map of the code managers, if the list is
\* cached.
LEMMA ClearManagersKeeps ==
  ASSUME WorkersInv, NEW w \in Worker, ClearManagers(w)
  PROVE  WorkersInv'
<1>1. job[w].at = "clear" /\ Busy(w) /\ job[w].at \notin WritePlaces
  BY DEF ClearManagers, At, Busy, WritePlaces
<1>2. /\ job[w] \in Job /\ job[w].request \in ManagerRequests \cup Checks
      /\ Fact(job[w], mem, registry) /\ job[w].put = 0
      /\ Manages(job[w].request) /\ job[w].request.kind = "op"
  <2>1. /\ job[w] \in Job /\ job[w].request \in ManagerRequests \cup Checks
        /\ Fact(job[w], mem, registry) /\ job[w].at \in Places(job[w].request)
    BY <1>1, JobFacts
  <2> QED BY <1>1, <2>1, ManagerPlaces DEF Fact
<1>3. CASE mem.cached
  <2> DEFINE j == [job[w] EXCEPT !.at = "clearSu"]
             n == [mem EXCEPT !.su = Nil, !.mgr = Nil, !.mgrMap = NoManagers]
  <2>1. job' = [job EXCEPT ![w] = j] /\ mem' = n /\ registry' = registry
    BY <1>3 DEF ClearManagers, Goto, Globals
  <2>2. mem \in Memory /\ Agrees(mem, registry)
    BY <1>1, <1>2, <1>3, UndisturbedAgrees DEF WorkersInv, InvOf
  <2>3. NoManagers \in [Code -> Address \cup {Nil}]
    BY DEF NoManagers
  <2>4. /\ n \in Memory /\ n.cached /\ n.su = Nil /\ n.mgr = Nil /\ n.mgrMap = NoManagers
        /\ n.suMap = mem.suMap
    BY <1>3, <2>2, <2>3 DEF Memory
  <2>5. /\ j \in Job /\ j.at = "clearSu" /\ j.request = job[w].request /\ j.alone = job[w].alone
        /\ j.entitled = job[w].entitled /\ j.put = 0
    BY <1>2 DEF Job, AllPlaces
  <2>6. "clearSu" \in Places(job[w].request)
    BY <1>2 DEF Places
  <2>7. job'[w] = j
    BY <2>1 DEF WorkersInv, InvOf
  <2> HIDE DEF j, n
  <2>8. Fact(j, n, registry)
    BY <2>4, <2>5 DEF Fact, AskPlaces
  <2>9. Within(n, registry)
    <3>1. Held(n) = Absent
      BY <2>4, EmptyFacts DEF Held, Absent
    <3> QED BY <2>2, <2>4, <3>1 DEF Within, NoManagers, Agrees
  <2>10. MemoryFacts(job', n, registry)
    BY <2>5, <2>7, <2>9 DEF MemoryFacts, Somewhere
  <2> QED BY <1>1, <1>2, <2>1, <2>4, <2>5, <2>6, <2>8, <2>10, ManagerSteps
<1>4. CASE ~mem.cached
  <2>1. Goto(w, "flag") /\ mem' = mem /\ registry' = registry
    BY <1>4 DEF ClearManagers, Globals
  <2>2. "flag" \in Places(job[w].request) /\ "flag" \notin WritePlaces \cup {"assign"} \cup AskPlaces
    BY <1>2 DEF Places, LoadPlaces, WritePlaces, AskPlaces
  <2> QED BY <1>1, <2>1, <2>2, GoesOn
<1> QED BY <1>3, <1>4

\* A worker that clears has the memory to itself.
LEMMA ClearingFacts ==
  ASSUME WorkersInv, NEW w \in Worker, job[w].at \in {"clearSu", "unmark"}
  PROVE  /\ Busy(w) /\ job[w] \in Job /\ job[w].request \in ManagerRequests \cup Checks
         /\ job[w].put = 0 /\ Manages(job[w].request) /\ job[w].request.kind = "op"
         /\ mem \in Memory /\ mem.cached /\ mem.su = Nil /\ mem.mgr = Nil /\ mem.mgrMap = NoManagers
         /\ job[w].at = "unmark" => mem.suMap = Nil
<1>1. Busy(w)
  BY DEF Busy
<1>2. /\ job[w] \in Job /\ job[w].request \in ManagerRequests \cup Checks
      /\ Fact(job[w], mem, registry) /\ job[w].at \in Places(job[w].request)
  BY <1>1, JobFacts
<1>3. job[w].put = 0 /\ mem.cached /\ mem.su = Nil /\ mem.mgr = Nil /\ mem.mgrMap = NoManagers
      /\ (job[w].at = "unmark" => mem.suMap = Nil)
  BY <1>2 DEF Fact
<1> QED BY <1>1, <1>2, <1>3, ManagerPlaces DEF WorkersInv, InvOf

\* Then the su map, which it leaves nil,
LEMMA ClearSuKeeps ==
  ASSUME WorkersInv, NEW w \in Worker, ClearSu(w)
  PROVE  WorkersInv'
<1> DEFINE j == [job[w] EXCEPT !.at = "unmark"]
           n == [mem EXCEPT !.suMap = Nil]
<1>1. job[w].at = "clearSu" /\ job' = [job EXCEPT ![w] = j] /\ mem' = n /\ registry' = registry
  BY DEF ClearSu, At, Goto, Globals
<1>2. /\ Busy(w) /\ job[w] \in Job /\ job[w].request \in ManagerRequests \cup Checks
      /\ job[w].put = 0 /\ Manages(job[w].request) /\ job[w].request.kind = "op"
      /\ mem \in Memory /\ mem.cached /\ mem.su = Nil /\ mem.mgr = Nil /\ mem.mgrMap = NoManagers
  BY <1>1, ClearingFacts
<1>3. /\ n \in Memory /\ n.cached /\ n.su = Nil /\ n.mgr = Nil /\ n.mgrMap = NoManagers
      /\ n.suMap = Nil
  BY <1>2 DEF Memory
<1>4. /\ j \in Job /\ j.at = "unmark" /\ j.request = job[w].request /\ j.alone = job[w].alone
      /\ j.entitled = job[w].entitled /\ j.put = 0
  BY <1>2 DEF Job, AllPlaces
<1>5. "unmark" \in Places(job[w].request)
  BY <1>2 DEF Places
<1>6. job'[w] = j
  BY <1>1 DEF WorkersInv, InvOf
<1> HIDE DEF j, n
<1>7. Fact(j, n, registry)
  BY <1>3, <1>4 DEF Fact, AskPlaces
<1>8. Within(n, registry)
  <2>1. Held(n) = Absent
    BY <1>3, EmptyFacts DEF Held, Absent
  <2> QED BY <1>3, <2>1 DEF Within, NoManagers
<1>9. MemoryFacts(job', n, registry)
  BY <1>4, <1>6, <1>8 DEF MemoryFacts, Somewhere
<1> QED BY <1>1, <1>2, <1>3, <1>4, <1>5, <1>7, <1>9, ManagerSteps

\* and the flag.
LEMMA UnmarkCachedKeeps ==
  ASSUME WorkersInv, NEW w \in Worker, UnmarkCached(w)
  PROVE  WorkersInv'
<1> DEFINE j == [job[w] EXCEPT !.at = "flag"]
           n == [mem EXCEPT !.cached = FALSE]
<1>1. job[w].at = "unmark" /\ job' = [job EXCEPT ![w] = j] /\ mem' = n /\ registry' = registry
  BY DEF UnmarkCached, At, Goto, Globals
<1>2. /\ Busy(w) /\ job[w] \in Job /\ job[w].request \in ManagerRequests \cup Checks
      /\ job[w].put = 0 /\ Manages(job[w].request) /\ job[w].request.kind = "op"
      /\ mem \in Memory /\ mem.su = Nil /\ mem.mgr = Nil /\ mem.mgrMap = NoManagers
      /\ mem.suMap = Nil
  BY <1>1, ClearingFacts
<1>3. n \in Memory /\ n = [Fresh EXCEPT !.suMap = Nil]
  <2> DEFINE empty == [Fresh EXCEPT !.suMap = Nil]
  <2>1. /\ n \in Memory /\ n.su = Nil /\ n.mgr = Nil /\ n.mgrMap = NoManagers /\ n.suMap = Nil
        /\ ~n.cached
    BY <1>2 DEF Memory
  <2>2. /\ empty \in Memory /\ empty.su = Nil /\ empty.mgr = Nil /\ empty.mgrMap = NoManagers
        /\ empty.suMap = Nil /\ ~empty.cached
    BY FreshGood DEF GoodMemory, Fresh
  <2> HIDE DEF n, empty
  <2>3. n.cached = empty.cached
    BY <2>1, <2>2 DEF Memory
  <2>4. n = empty
    BY <2>1, <2>2, <2>3 DEF Memory
  <2> QED BY <2>1, <2>4 DEF empty
<1>4. /\ j \in Job /\ j.at = "flag" /\ j.request = job[w].request /\ j.alone = job[w].alone
      /\ j.entitled = job[w].entitled /\ j.put = 0
  BY <1>2 DEF Job, AllPlaces, LoadPlaces
<1>5. "flag" \in Places(job[w].request)
  BY <1>2 DEF Places, LoadPlaces
<1> HIDE DEF j, n
<1>6. Fact(j, n, registry)
  BY <1>4 DEF Fact, AskPlaces
<1>7. Unknowing(n) /\ ~n.cached
  BY <1>3 DEF Unknowing, Fresh
<1>8. MemoryFacts(job', n, registry)
  BY <1>7, UnknowingWithin DEF MemoryFacts
<1> QED BY <1>1, <1>2, <1>3, <1>4, <1>5, <1>6, <1>8, ManagerSteps

-----------------------------------------------------------------------------
(* A transaction begins *)

\* Who has the role he asks about has one of the roles of the list that count.
LEMMA HoldsRole ==
  ASSUME NEW r, NEW request, Holds(r, request), request.addr # Nil
  PROVE  RolesFor(request) \cap RolesIn(r) # {}
<1>1. CASE request.addr \in Range(r.su)
  <2>1. PICK i \in DOMAIN r.su : request.addr = r.su[i]
    BY <1>1 DEF Range
  <2>2. <<request.addr, Nil>> \in RolesIn(r)
    BY <2>1 DEF RolesIn
  <2> QED BY <2>2 DEF RolesFor
<1>2. CASE request.code \in Code /\ ManagerOf(r)[request.code] = request.addr
  <2>1. Has(r.mgr, request.code) /\ r.mgr[Find(r.mgr, request.code)].addr = request.addr
    BY <1>2 DEF ManagerOf
  <2>2. PICK i \in DOMAIN r.mgr : r.mgr[i].gs1 = request.code /\ r.mgr[i].addr = request.addr
    BY <2>1, FindFacts
  <2>3. <<request.addr, request.code>> \in RolesIn(r)
    BY <2>2 DEF RolesIn
  <2> QED BY <2>3 DEF RolesFor
<1> QED BY <1>1, <1>2 DEF Holds

\* Being less alone and more entitled takes nothing from what a worker relies on.
LEMMA FactLessAlone ==
  ASSUME NEW j \in Job, NEW m, NEW r, Fact(j, m, r), NEW alone \in BOOLEAN, alone => j.alone,
         NEW entitled \in BOOLEAN
  PROVE  LET k == [j EXCEPT !.alone = alone, !.entitled = entitled]
         IN  k \in Job /\ Fact(k, m, r)
<1> DEFINE k == [j EXCEPT !.alone = alone, !.entitled = entitled]
<1>1. /\ k \in Job /\ k.at = j.at /\ k.request = j.request /\ k.list = j.list /\ k.put = j.put
      /\ k.alone = alone
  BY DEF Job
<1> HIDE DEF k
<1>2. Fact(k, m, r)
  BY <1>1 DEF Fact
<1> QED BY <1>1, <1>2 DEF k

\* When a manager transaction begins, all others are checks that cannot read, and
\* the memory is whole.
LEMMA WholeBeforeManager ==
  ASSUME WorkersInv, NEW request \in ManagerRequests \cup Checks, Manages(request),
         Compatible(request)
  PROVE  /\ \A x \in Worker : Busy(x) => ~job[x].request.declared
         /\ Whole(mem, registry)
<1>1. \A x \in Worker : Busy(x) => ~job[x].request.declared
  BY RequestFacts DEF Compatible
<1>2. ASSUME NEW x \in Worker, Busy(x) PROVE job[x].at \in {"flag", "get"} \cup AskPlaces
  BY <1>1, <1>2, JobFacts, RequestFacts, ManagerPlaces
<1>3. ASSUME NEW x \in Worker, ~Busy(x) PROVE job[x].at = "idle"
  BY <1>3 DEF Busy
<1>4. \A x \in Worker : job[x].at \in {"idle", "flag", "get"} \cup AskPlaces
  BY <1>2, <1>3
<1>5. /\ ~Somewhere(job, {"save"}) /\ ~Somewhere(job, {"clearSu", "unmark"})
      /\ ~Somewhere(job, {"fill", "fillSu", "mark"})
  BY <1>4 DEF Somewhere, AskPlaces
<1>6. MemoryFacts(job, mem, registry)
  BY DEF WorkersInv, InvOf
<1> QED BY <1>1, <1>5, <1>6 DEF MemoryFacts, Whole

\* What begins with a transaction is a job, and it has what it relies on.
LEMMA BeginsWell ==
  ASSUME WorkersInv, NEW request \in ManagerRequests \cup Checks, Compatible(request),
         request.kind \in {"addSu", "removeSu"} => KnowsRegistry,
         NEW alone \in BOOLEAN, NEW entitled \in BOOLEAN
  PROVE  LET j == [at |-> FirstPlace(request), request |-> request, list |-> Absent, put |-> 0,
                   alone |-> alone, entitled |-> entitled]
         IN  j \in Job /\ Placed(j) /\ Fact(j, mem, registry) /\ j.at \notin WritePlaces
<1> DEFINE j == [at |-> FirstPlace(request), request |-> request, list |-> Absent, put |-> 0,
                 alone |-> alone, entitled |-> entitled]
<1>1. /\ request.kind \in {"add", "remove", "addSu", "removeSu", "op", "check"}
      /\ request.declared \in BOOLEAN
  BY RequestFacts
<1>2. /\ FirstPlace(request) \in Places(request)
      /\ FirstPlace(request) \in {"flag", "change", "clear"}
      /\ FirstPlace(request) = "change" => request.kind \in {"addSu", "removeSu"} /\ Manages(request)
  BY <1>1 DEF FirstPlace, Places, LoadPlaces, Manages
<1>3. Absent \in List /\ FirstPlace(request) \in AllPlaces
  BY <1>2, EmptySeq, PlacesAreAll DEF Absent, List
<1>4. FirstPlace(request) = "change" => Agrees(mem, registry)
  BY <1>2, WholeBeforeManager, HoldingAgrees DEF KnowsRegistry
<1>5. j \in Job /\ j.at = FirstPlace(request) /\ j.request = request /\ j.put = 0
  BY <1>3 DEF Job
<1> HIDE DEF j
<1>6. Fact(j, mem, registry)
  BY <1>2, <1>4, <1>5 DEF Fact, AskPlaces
<1>7. j.at \notin WritePlaces /\ Placed(j)
  BY <1>2, <1>5 DEF WritePlaces, Placed
<1> QED BY <1>5, <1>6, <1>7 DEF j

\* The beginning of a transaction; the others learn that they are not alone.
LEMMA BeginKeeps ==
  ASSUME WorkersInv, NEW w \in Worker, NEW request \in ManagerRequests \cup Checks,
         Begin(w, request)
  PROVE  WorkersInv'
<1> DEFINE others == {job[x].request : x \in {y \in Worker : Busy(y)}}
           alone == \A other \in others : ~Manages(other)
           entitled == \/ RolesFor(request) \cap RolesIn(registry) # {}
                       \/ \E other \in others : Gives(other, request)
           new == [at |-> FirstPlace(request), request |-> request, list |-> Absent, put |-> 0,
                   alone |-> alone, entitled |-> entitled]
           Alone(x) == job[x].alone /\ ~Manages(request)
           Given(x) == job[x].entitled \/ Gives(request, job[x].request)
           old(x) == [job[x] EXCEPT !.alone = Alone(x), !.entitled = Given(x)]
<1>1. /\ ~Busy(w) /\ Compatible(request) /\ mem' = mem /\ registry' = registry
      /\ request.kind \in {"addSu", "removeSu"} => KnowsRegistry
      /\ job' = [x \in Worker |-> CASE x = w -> new
                                    [] x # w /\ Busy(x) -> old(x)
                                    [] OTHER -> Idle]
  BY DEF Begin
<1>2. alone \in BOOLEAN /\ entitled \in BOOLEAN /\ \A x \in Worker : Given(x) \in BOOLEAN
  OBVIOUS
<1>3. /\ alone => \A x \in Worker : Busy(x) => ~Manages(job[x].request)
      /\ \A x \in Worker : Busy(x) /\ Gives(job[x].request, request) => entitled
      /\ RolesFor(request) \cap RolesIn(registry) # {} => entitled
  OBVIOUS
<1> HIDE DEF alone, entitled, others
<1>4. new \in Job /\ Placed(new) /\ Fact(new, mem, registry) /\ new.at \notin WritePlaces
  BY <1>1, <1>2, BeginsWell
<1>5. new.request = request /\ new.alone = alone /\ new.entitled = entitled
  OBVIOUS
<1>6. ASSUME NEW x \in Worker, Busy(x)
      PROVE  /\ job[x] \in Job /\ old(x) \in Job /\ Fact(old(x), mem, registry) /\ Placed(old(x))
             /\ old(x).at = job[x].at /\ old(x).request = job[x].request
             /\ old(x).alone = Alone(x) /\ old(x).entitled = Given(x)
  <2>1. job[x] \in Job /\ Placed(job[x]) /\ Fact(job[x], mem, registry)
    BY <1>6, JobFacts DEF Placed
  <2>2. Alone(x) \in BOOLEAN /\ (Alone(x) => job[x].alone) /\ Given(x) \in BOOLEAN
    BY <2>1 DEF Job
  <2> HIDE DEF Alone, Given
  <2>3. old(x) \in Job /\ Fact(old(x), mem, registry)
    BY <2>1, <2>2, FactLessAlone
  <2>4. /\ old(x).at = job[x].at /\ old(x).request = job[x].request
        /\ old(x).alone = Alone(x) /\ old(x).entitled = Given(x)
    BY <2>1 DEF Job
  <2> HIDE DEF old
  <2> QED BY <2>1, <2>3, <2>4 DEF Placed
<1> HIDE DEF new, old
<1>7. /\ job'[w] = new
      /\ \A x \in Worker : x # w /\ Busy(x) => job'[x] = old(x)
      /\ \A x \in Worker : x # w /\ ~Busy(x) => job'[x] = Idle
  BY <1>1
<1>8. job' \in [Worker -> {Idle} \cup Job]
  BY <1>1, <1>4, <1>6
<1>9. ~Active(Idle) /\ Idle.at = "idle"
  BY DEF Active, Idle
<1>10. \A x \in Worker : Active(job'[x]) => Placed(job'[x]) /\ Fact(job'[x], mem, registry)
  BY <1>4, <1>6, <1>7, <1>9
<1>11. ASSUME NEW x \in Worker, NEW y \in Worker, x # y, Active(job'[x]), Active(job'[y]),
              Manages(job'[x].request)
       PROVE  /\ ~job'[y].request.declared /\ ~job'[y].alone
              /\ Gives(job'[x].request, job'[y].request) => job'[y].entitled
  <2>1. CASE x = w
    <3>1. Busy(y) /\ job'[y] = old(y) /\ job'[x] = new
      BY <1>7, <1>9, <1>11, <2>1
    <3>2. ~job[y].request.declared
      BY <1>1, <1>5, <1>11, <3>1, WholeBeforeManager
    <3> QED BY <1>5, <1>6, <1>11, <3>1, <3>2
  <2>2. CASE y = w
    <3>1. Busy(x) /\ job'[x] = old(x) /\ job'[y] = new
      BY <1>7, <1>9, <1>11, <2>2
    <3>2. Manages(job[x].request) /\ job[x].request \in ManagerRequests \cup Checks
      BY <1>6, <1>11, <3>1 DEF Job
    <3>3. ~request.declared
      BY <1>1, <3>1, <3>2, RequestFacts DEF Compatible
    <3> QED BY <1>3, <1>5, <1>6, <3>1, <3>2, <3>3
  <2>3. CASE x # w /\ y # w
    <3>1. Busy(x) /\ job'[x] = old(x) /\ Busy(y) /\ job'[y] = old(y)
      BY <1>7, <1>9, <1>11, <2>3
    <3>2. Manages(job[x].request) /\ Active(job[x]) /\ Active(job[y])
      BY <1>6, <1>11, <3>1 DEF Active, Busy
    <3>3. /\ ~job[y].request.declared /\ ~job[y].alone
          /\ Gives(job[x].request, job[y].request) => job[y].entitled
      BY <1>11, <3>2 DEF WorkersInv, InvOf, Apart
    <3> QED BY <1>6, <3>1, <3>3
  <2> QED BY <2>1, <2>2, <2>3
<1>12. ASSUME NEW x \in Worker, Active(job'[x]), ~Manages(job'[x].request),
              Holds(registry, job'[x].request)
       PROVE  job'[x].entitled
  <2>1. CASE x = w
    <3>1. request.addr # Nil
      BY <1>5, <1>7, <1>12, <2>1, RequestFacts, NilAssumption
    <3> QED BY <1>3, <1>5, <1>7, <1>12, <2>1, <3>1, HoldsRole
  <2>2. CASE x # w
    <3>1. Busy(x) /\ job'[x] = old(x)
      BY <1>7, <1>9, <1>12, <2>2
    <3>2. job[x].entitled
      BY <1>6, <1>12, <3>1 DEF WorkersInv, InvOf, Entitled, Active, Busy
    <3> QED BY <1>6, <3>1, <3>2
  <2> QED BY <2>1, <2>2
<1>13. \A places \in SUBSET WritePlaces : Somewhere(job', places) <=> Somewhere(job, places)
  <2>1. \A x \in Worker : job'[x].at \in WritePlaces \/ job[x].at \in WritePlaces =>
          job'[x].at = job[x].at
    <3> SUFFICES ASSUME NEW x \in Worker, job'[x].at \in WritePlaces \/ job[x].at \in WritePlaces
                 PROVE  job'[x].at = job[x].at
      OBVIOUS
    <3>1. ~Busy(x) => job[x].at = "idle"
      BY DEF Busy
    <3>2. "idle" \notin WritePlaces
      BY DEF WritePlaces
    <3> QED BY <1>1, <1>4, <1>6, <1>7, <1>9, <3>1, <3>2
  <2> QED BY <2>1 DEF Somewhere
<1>14. MemoryFacts(job', mem, registry)
  <2>1. {"save"} \in SUBSET WritePlaces /\ {"clearSu", "unmark"} \in SUBSET WritePlaces
        /\ {"fill", "fillSu", "mark"} \in SUBSET WritePlaces
    BY DEF WritePlaces
  <2>2. MemoryFacts(job, mem, registry)
    BY DEF WorkersInv, InvOf
  <2> QED BY <1>13, <2>1, <2>2 DEF MemoryFacts
<1>15. Apart(job') /\ Entitled(job', registry)
  BY <1>11, <1>12 DEF Apart, Entitled
<1>16. InvOf(job', mem', registry')
  BY <1>1, <1>8, <1>10, <1>14, <1>15 DEF WorkersInv, InvOf
<1> QED BY <1>16, WorkersInvPrimed

-----------------------------------------------------------------------------
(* The invariant *)

\* A new process on a new chain.
LEMMA WorkersInitially == WorkersInit => WorkersInv
<1> SUFFICES ASSUME WorkersInit PROVE WorkersInv
  OBVIOUS
<1>1. mem = Fresh /\ registry = Absent /\ mem \in Memory /\ GoodRegistry(registry)
  BY Initially, FreshGood DEF WorkersInit, Init, IInv, GoodMemory
<1>2. job = [w \in Worker |-> Idle] /\ ~Active(Idle) /\ Idle.at = "idle"
  BY DEF WorkersInit, Active, Idle
<1>3. \A w \in Worker : ~Active(job[w])
  BY <1>2
<1>4. Unknowing(mem) /\ ~mem.cached
  BY <1>1 DEF Unknowing, Fresh
<1>5. MemoryFacts(job, mem, registry)
  BY <1>4, UnknowingWithin DEF MemoryFacts
<1> QED BY <1>1, <1>2, <1>3, <1>5 DEF WorkersInv, InvOf, Apart, Entitled

\* Every step keeps it.
LEMMA WorkersKeeps == WorkersInv /\ [WorkersNext]_workerVars => WorkersInv'
<1> SUFFICES ASSUME WorkersInv, [WorkersNext]_workerVars PROVE WorkersInv'
  OBVIOUS
<1>1. ASSUME NEW w \in Worker, Load(w) PROVE WorkersInv'
  BY <1>1, ReadFlagKeeps, GetListKeeps, AssignListKeeps, FillManagersKeeps, FillSuKeeps,
     MarkCachedKeeps DEF Load
<1>2. CASE UNCHANGED workerVars
  <2>1. job' = job /\ mem' = mem /\ registry' = registry
    BY <1>2 DEF workerVars, vars
  <2>2. InvOf(job', mem', registry')
    BY <2>1 DEF WorkersInv
  <2> QED BY <2>2, WorkersInvPrimed
<1>3. CASE MapRace \/ Die
  BY <1>3, DieKeeps DEF MapRace
<1> QED BY <1>1, <1>2, <1>3, BeginKeeps, AskSuKeeps, AskManagerKeeps, ChangeMapKeeps, SaveListKeeps,
           ClearManagersKeeps, ClearSuKeeps, UnmarkCachedKeeps, EndOperationKeeps DEF WorkersNext

\* It holds whatever the workers do.
LEMMA WorkersInvariance == WorkersSpec => []WorkersInv
  BY WorkersInitially, WorkersKeeps, PTL DEF WorkersSpec

\* Two loads at once, checks beside an appointment and a process that dies half
\* way leave no half-filled cache behind, for any number of workers.
THEOREM QuietCacheIsWholeHolds == WorkersSpec => []QuietCacheIsWhole
<1>1. WorkersInv => QuietCacheIsWhole
  <2> SUFFICES ASSUME WorkersInv, \A w \in Worker : ~Busy(w) PROVE CacheAllOrNothing
    BY DEF QuietCacheIsWhole
  <2>1. \A w \in Worker : job[w].at = "idle"
    BY DEF Busy
  <2>2. /\ ~Somewhere(job, {"save"}) /\ ~Somewhere(job, {"clearSu", "unmark"})
        /\ ~Somewhere(job, {"fill", "fillSu", "mark"})
    BY <2>1 DEF Somewhere
  <2>3. Whole(mem, registry)
    BY <2>2 DEF WorkersInv, InvOf, MemoryFacts, Whole
  <2> QED BY <2>3 DEF Whole, Agrees, Unknowing, CacheAllOrNothing, KnowsAll, KnowsNothing
<1> QED BY <1>1, WorkersInvariance, PTL

-----------------------------------------------------------------------------
(* The list in state *)

\* Only a save changes it.
LEMMA OnlySaved ==
  ASSUME WorkersNext
  PROVE  registry' = registry \/ \E w \in Worker : SaveList(w)
<1>1. ASSUME Die PROVE registry' = registry
  BY <1>1 DEF Die
<1>2. ASSUME NEW w, NEW level, Reply(w, level) PROVE registry' = registry
  BY <1>2 DEF Reply
<1>3. ASSUME NEW m, Globals(m) PROVE registry' = registry
  BY <1>3 DEF Globals
<1>4. ASSUME NEW w \in Worker, Load(w) PROVE registry' = registry
  <2>1. CASE GetList(w)
    BY <1>2, <1>3, <2>1 DEF GetList
  <2>2. CASE FillManagers(w)
    BY <1>3, <2>2 DEF FillManagers
  <2>3. CASE FillSu(w)
    BY <1>1, <1>3, <2>3 DEF FillSu
  <2>4. CASE ReadFlag(w) \/ AssignList(w) \/ MarkCached(w)
    BY <1>3, <2>4 DEF ReadFlag, AssignList, MarkCached
  <2> QED BY <1>4, <2>1, <2>2, <2>3, <2>4 DEF Load
<1>5. ASSUME NEW w \in Worker, AskSu(w) \/ AskManager(w) PROVE registry' = registry
  BY <1>2, <1>3, <1>5 DEF AskSu, AskManager
<1>6. ASSUME NEW w \in Worker, ChangeMap(w) PROVE registry' = registry
  BY <1>1, <1>3, <1>6 DEF ChangeMap
<1>7. ASSUME NEW w \in Worker,
             ClearManagers(w) \/ ClearSu(w) \/ UnmarkCached(w) \/ EndOperation(w)
      PROVE  registry' = registry
  BY <1>3, <1>7 DEF ClearManagers, ClearSu, UnmarkCached, EndOperation
<1>8. ASSUME NEW w \in Worker, NEW request, Begin(w, request) PROVE registry' = registry
  BY <1>8 DEF Begin
<1> QED BY <1>1, <1>4, <1>5, <1>6, <1>7, <1>8 DEF WorkersNext, MapRace

\* No interleaving makes a worker save a list that lacks somebody: the list in
\* state changes by one appointment or dismissal at a time.
THEOREM WorkersKeepRegistryHolds == WorkersSpec => WorkersKeepRegistry
<1>1. WorkersInit => RegisteredQuietly!Init
  <2> SUFFICES ASSUME WorkersInit PROVE RegisteredQuietly!Init
    OBVIOUS
  <2>1. registry = Absent
    BY DEF WorkersInit, Init
  <2>2. Range(registry.su) = {} /\ ManagerOf(registry) = [c \in Code |-> Nil]
    BY <2>1 DEF Absent, Range, ManagerOf, Has
  <2> QED BY <2>2 DEF RegisteredQuietly!Init
<1>2. WorkersInv /\ [WorkersNext]_workerVars => [RegisteredQuietly!Next]_(RegisteredQuietly!vars)
  <2> SUFFICES ASSUME WorkersInv, [WorkersNext]_workerVars
               PROVE  [RegisteredQuietly!Next]_(RegisteredQuietly!vars)
    OBVIOUS
  <2>1. CASE registry' = registry
    BY <2>1 DEF RegisteredQuietly!vars, ManagerOf, Range, Has, Find
  <2>2. ASSUME NEW w \in Worker, SaveList(w) PROVE RegisteredQuietly!Next
    <3> DEFINE request == job[w].request
    <3>1. job[w].at = "save" /\ registry' = Held(Rewritten(mem, job[w].list))
      BY <2>2 DEF SaveList, At, Rewritten
    <3>2. Effect(request, registry, registry') /\ Busy(w)
      BY <3>1, SavingFacts
    <3>3. request \in ManagerRequests \cup Checks
      BY <3>2, JobFacts
    <3> HIDE DEF request
    <3>4. CASE request.kind = "add"
      <4>1. RegisteredQuietly!Appoint(request.code, request.addr)
        BY <3>2, <3>4 DEF Effect, RegisteredQuietly!Appoint, ManagerOf, Range, Has, Find
      <4> QED BY <3>3, <3>4, <4>1, RequestFacts DEF RegisteredQuietly!Next
    <3>5. CASE request.kind = "remove"
      <4>1. RegisteredQuietly!Dismiss(request.code)
        BY <3>2, <3>5 DEF Effect, RegisteredQuietly!Dismiss, ManagerOf, Range, Has, Find
      <4> QED BY <3>3, <3>5, <4>1, RequestFacts DEF RegisteredQuietly!Next
    <3>6. CASE request.kind = "addSu"
      <4>1. RegisteredQuietly!AppointSu(request.addr)
        BY <3>2, <3>6 DEF Effect, RegisteredQuietly!AppointSu, ManagerOf, Range, Has, Find
      <4> QED BY <3>3, <3>6, <4>1, RequestFacts DEF RegisteredQuietly!Next
    <3>7. CASE request.kind = "removeSu"
      <4>1. RegisteredQuietly!DismissSu(request.addr)
        BY <3>2, <3>7 DEF Effect, RegisteredQuietly!DismissSu, ManagerOf, Range, Has, Find
      <4> QED BY <3>3, <3>7, <4>1, RequestFacts DEF RegisteredQuietly!Next
    <3> QED BY <3>2, <3>4, <3>5, <3>6, <3>7 DEF Effect
  <2> QED BY <2>1, <2>2, OnlySaved DEF workerVars, vars
<1> QED BY <1>1, <1>2, WorkersInvariance, PTL
        DEF WorkersSpec, WorkersKeepRegistry, RegisteredQuietly!Spec

-----------------------------------------------------------------------------
(* The answers *)

\* A step of one worker leaves the others where they are.
LEMMA OthersStay ==
  ASSUME WorkersInv, NEW x \in Worker, NEW j, job' = [job EXCEPT ![x] = j],
         NEW w \in Worker, Busy(w), w # x \/ j.at # "idle"
  PROVE  job'[w] # Idle
<1>1. job'[x] = j /\ \A y \in Worker : y # x => job'[y] = job[y]
  BY DEF WorkersInv, InvOf
<1> QED BY <1>1 DEF Busy, Idle

\* So nobody else replies.
LEMMA MovesStay ==
  ASSUME WorkersInv, NEW x \in Worker, NEW w \in Worker, Busy(w)
  PROVE  /\ \A p \in AllPlaces : Goto(x, p) => job'[w] # Idle
         /\ Leave(x) /\ w # x => job'[w] # Idle
<1>1. ASSUME NEW p \in AllPlaces, Goto(x, p) PROVE job'[w] # Idle
  <2> DEFINE j == [job[x] EXCEPT !.at = p]
  <2>1. job' = [job EXCEPT ![x] = j]
    BY <1>1 DEF Goto
  <2>2. CASE w # x
    BY <2>1, <2>2, OthersStay
  <2>3. CASE w = x
    <3>1. j.at = p /\ p # "idle"
      BY <2>3, JobFacts DEF Job, AllPlaces, LoadPlaces, AskPlaces
    <3> QED BY <2>1, <3>1, OthersStay
  <2> QED BY <2>2, <2>3
<1>2. ASSUME Leave(x), w # x PROVE job'[w] # Idle
  BY <1>2, OthersStay DEF Leave
<1> QED BY <1>1, <1>2

\* A worker replies to a check by a step of its own: a load that fails, or one of
\* the two looks into the maps.
LEMMA RepliesItself ==
  ASSUME WorkersInv, WorkersNext, NEW w \in Worker, Replies(w)
  PROVE  \/ GetList(w) /\ ~job[w].request.declared /\ Reply(w, PERMISSION_NONE)
         \/ AskSu(w) /\ \E level : Reply(w, level)
         \/ AskManager(w)
<1>1. /\ Busy(w) /\ ~Manages(job[w].request) /\ job'[w] = Idle /\ txn'.op = "use"
      /\ job[w].request \in ManagerRequests \cup Checks /\ job[w].at \in Places(job[w].request)
      /\ job[w] \in Job
  BY JobFacts DEF Replies
<1>2. /\ \A x \in Worker, p \in AllPlaces : ~Goto(x, p)
      /\ \A x \in Worker : Leave(x) => x = w
      /\ \A x \in Worker : \A j : job' = [job EXCEPT ![x] = j] => x = w /\ j.at = "idle"
  BY <1>1, MovesStay, OthersStay
<1>3. ~Die
  BY <1>1 DEF Die, NoTxn
<1>4. ASSUME NEW x \in Worker, NEW request, Begin(x, request) PROVE FALSE
  <2>1. txn' = NoTxn
    BY <1>4, Zenon DEF Begin
  <2> QED BY <1>1, <2>1 DEF NoTxn
<1>5. AllPlaces = {"flag", "get", "assign", "fill", "fillSu", "mark", "askSu", "askManager",
                   "change", "save", "clear", "clearSu", "unmark", "leave"}
  BY DEF AllPlaces, LoadPlaces, AskPlaces
<1>6. ASSUME NEW x \in Worker, At(x, "flag") \/ At(x, "get") \/ At(x, "mark")
      PROVE  AfterLoad(job[x].request) \in AllPlaces /\ job[x] \in Job
  <2>1. Busy(x)
    BY <1>6 DEF At, Busy
  <2>2. /\ job[x] \in Job /\ job[x].request \in ManagerRequests \cup Checks
        /\ job[x].at \in Places(job[x].request)
    BY <2>1, JobFacts
  <2> QED BY <1>5, <1>6, <2>2, AfterLoadFacts DEF At
<1>7. ASSUME NEW x \in Worker, Load(x)
      PROVE  GetList(w) /\ ~job[w].request.declared /\ Reply(w, PERMISSION_NONE)
  <2>1. ~ReadFlag(x)
    BY <1>2, <1>5, <1>6 DEF ReadFlag
  <2>2. ~AssignList(x)
    BY <1>2, <1>5 DEF AssignList
  <2>3. ~FillManagers(x)
    <3> SUFFICES ASSUME FillManagers(x) PROVE FALSE
      OBVIOUS
    <3>1. At(x, "fill") /\ job[x] \in Job
      BY JobFacts DEF FillManagers, At, Busy
    <3>2. PICK j : j.at # "idle" /\ job' = [job EXCEPT ![x] = j]
      <4>1. CASE job' = [job EXCEPT ![x].put = job[x].put + 1]
        <5>1. [job[x] EXCEPT !.put = job[x].put + 1].at # "idle"
          BY <3>1 DEF At, Job
        <5> QED BY <4>1, <5>1
      <4>2. CASE job' = [job EXCEPT ![x].put = 0, ![x].at = "fillSu"]
        <5>1. [job[x] EXCEPT !.put = 0, !.at = "fillSu"].at # "idle"
          BY <3>1 DEF At, Job
        <5> QED BY <4>2, <5>1
      <4> QED BY <4>1, <4>2 DEF FillManagers
    <3> QED BY <1>2, <3>2
  <2>4. ~FillSu(x)
    <3> SUFFICES ASSUME FillSu(x) PROVE FALSE
      OBVIOUS
    <3>1. At(x, "fillSu") /\ job[x] \in Job
      BY JobFacts DEF FillSu, At, Busy
    <3>2. PICK j : j.at # "idle" /\ job' = [job EXCEPT ![x] = j]
      <4>1. CASE job' = [job EXCEPT ![x].put = job[x].put + 1]
        <5>1. [job[x] EXCEPT !.put = job[x].put + 1].at # "idle"
          BY <3>1 DEF At, Job
        <5> QED BY <4>1, <5>1
      <4>2. CASE job' = [job EXCEPT ![x].put = 0, ![x].at = "mark"]
        <5>1. [job[x] EXCEPT !.put = 0, !.at = "mark"].at # "idle"
          BY <3>1 DEF At, Job
        <5> QED BY <4>2, <5>1
      <4> QED BY <1>3, <4>1, <4>2 DEF FillSu
    <3> QED BY <1>2, <3>2
  <2>5. ~MarkCached(x)
    <3> SUFFICES ASSUME MarkCached(x) PROVE FALSE
      OBVIOUS
    <3> DEFINE j == [job[x] EXCEPT !.list = Absent, !.at = AfterLoad(job[x].request)]
    <3>1. AfterLoad(job[x].request) \in AllPlaces /\ job[x] \in Job
      BY <1>6 DEF MarkCached
    <3>2. j.at # "idle"
      BY <1>5, <3>1 DEF Job
    <3>3. job' = [job EXCEPT ![x] = j]
      BY DEF MarkCached
    <3> HIDE DEF j
    <3> QED BY <1>2, <3>2, <3>3
  <2>6. ASSUME GetList(x)
        PROVE  x = w /\ ~job[w].request.declared /\ Reply(w, PERMISSION_NONE)
    <3>1. ~Goto(x, AfterLoad(job[x].request))
      BY <1>2, <1>6, <2>6 DEF GetList
    <3>2. job' # [job EXCEPT ![x].at = "assign", ![x].list = registry]
      <4> SUFFICES ASSUME job' = [job EXCEPT ![x].at = "assign", ![x].list = registry] PROVE FALSE
        OBVIOUS
      <4> DEFINE j == [job[x] EXCEPT !.at = "assign", !.list = registry]
      <4>1. job' = [job EXCEPT ![x] = j]
        OBVIOUS
      <4>2. job[x] \in Job
        BY <1>6, <2>6 DEF GetList
      <4>3. j.at # "idle"
        BY <4>2 DEF Job
      <4> HIDE DEF j
      <4> QED BY <1>2, <4>1, <4>3
    <3>3. ~job[x].request.declared /\ Reply(x, PERMISSION_NONE)
      BY <2>6, <3>1, <3>2 DEF GetList
    <3> QED BY <1>2, <3>3 DEF Reply
  <2> QED BY <1>7, <2>1, <2>2, <2>3, <2>4, <2>5, <2>6 DEF Load
<1>8. ASSUME NEW x \in Worker, AskSu(x) PROVE AskSu(w) /\ \E level : Reply(w, level)
  BY <1>2, <1>5, <1>8 DEF AskSu, Reply
<1>9. ASSUME NEW x \in Worker, AskManager(x) PROVE AskManager(w)
  BY <1>2, <1>9 DEF AskManager, Reply
<1>10. ASSUME NEW x \in Worker, ChangeMap(x) PROVE FALSE
  <2>1. At(x, "change")
    BY <1>10 DEF ChangeMap
  <2>2. job[x] \in Job
    BY <2>1, JobFacts DEF At, Busy
  <2>3. ~Leave(x)
    BY <1>1, <1>2, <2>1, ManagerPlaces DEF At
  <2>4. PICK list : job' = [job EXCEPT ![x].at = "save", ![x].list = list]
    BY <1>3, <1>10, <2>3 DEF ChangeMap
  <2> DEFINE j == [job[x] EXCEPT !.at = "save", !.list = list]
  <2>5. job' = [job EXCEPT ![x] = j]
    BY <2>4
  <2>6. j.at # "idle"
    BY <2>2 DEF Job
  <2> HIDE DEF j
  <2> QED BY <1>2, <2>5, <2>6
<1>11. \A x \in Worker : ~SaveList(x)
  BY <1>1 DEF SaveList, NoTxn
<1>12. \A x \in Worker : ~ClearManagers(x) /\ ~ClearSu(x) /\ ~UnmarkCached(x)
  BY <1>2, <1>5 DEF ClearManagers, ClearSu, UnmarkCached
<1>13. \A x \in Worker : ~EndOperation(x)
  BY <1>1, <1>2, ManagerPlaces DEF EndOperation, At
<1> QED BY <1>3, <1>4, <1>7, <1>8, <1>9, <1>10, <1>11, <1>12, <1>13 DEF WorkersNext, MapRace

\* Whoever the maps say has the role he asks about is entitled to it, even while
\* they are written.
LEMMA MapsGrantGiven ==
  ASSUME WorkersInv, NEW w \in Worker, Busy(w), ~Manages(job[w].request),
         \/ mem.suMap # Nil /\ job[w].request.addr \in mem.suMap
         \/ job[w].request.code \in Code /\ mem.mgrMap[job[w].request.code] = job[w].request.addr
  PROVE  job[w].entitled
<1> DEFINE request == job[w].request
<1>1. request \in ManagerRequests \cup Checks /\ request.addr \in Address /\ request.addr # Nil
  BY JobFacts, RequestFacts, NilAssumption
<1>2. Entitled(job, registry) /\ Apart(job) /\ MemoryFacts(job, mem, registry) /\ mem \in Memory
  BY DEF WorkersInv, InvOf
<1>3. CASE ~Somewhere(job, {"save"})
  <2>1. Within(mem, registry)
    BY <1>2, <1>3 DEF MemoryFacts
  <2>2. Holds(registry, request)
    BY <1>1, <2>1 DEF Within, Holds
  <2> QED BY <1>2, <2>2 DEF Entitled, Active, Busy
<1>4. CASE Somewhere(job, {"save"})
  <2>1. PICK x \in Worker : job[x].at = "save"
    BY <1>4 DEF Somewhere
  <2> DEFINE n == Rewritten(mem, job[x].list)
  <2>2. /\ Agrees(n, Held(n)) /\ Effect(job[x].request, registry, Held(n))
        /\ Busy(x) /\ Manages(job[x].request)
    BY <2>1, SavingFacts
  <2>3. n.suMap = mem.suMap /\ n.mgrMap = mem.mgrMap
    BY <1>2 DEF Rewritten, Memory
  <2> HIDE DEF n
  <2>4. Holds(Held(n), request)
    BY <2>2, <2>3 DEF Agrees, Holds, Range
  <2>5. Holds(registry, request) \/ Gives(job[x].request, request)
    BY <1>1, <2>2, <2>4, EffectGives
  <2> QED BY <1>2, <2>2, <2>5 DEF Entitled, Apart, Active, Busy
<1> QED BY <1>3, <1>4

\* Nobody is granted what he neither had when the check began nor could get from
\* a manager transaction since, though the maps are emptied and refilled
\* meanwhile.
THEOREM GrantsWereGivenHolds == WorkersSpec => GrantsWereGiven
<1> DEFINE Given == \A w \in Worker : Replies(w) /\ txn'.answer.level # PERMISSION_NONE =>
                      job[w].entitled
<1>1. WorkersInv /\ [WorkersNext]_workerVars => [Given]_workerVars
  <2> SUFFICES ASSUME WorkersInv, WorkersNext, NEW w \in Worker, Replies(w),
                      txn'.answer.level # PERMISSION_NONE
               PROVE  job[w].entitled
    OBVIOUS
  <2>1. Busy(w) /\ ~Manages(job[w].request)
    BY DEF Replies
  <2>2. /\ job[w].request.code \in Code \cup {Nil}
        /\ job[w].at = "askManager" => job[w].request.code # Nil
    BY <2>1, JobFacts, RequestFacts DEF Fact
  <2>3. ~Reply(w, PERMISSION_NONE)
    BY DEF Reply
  <2>4. CASE AskSu(w) /\ \E level : Reply(w, level)
    <3>1. ~Goto(w, "askManager")
      BY <2>1, MovesStay DEF Replies, AllPlaces, AskPlaces
    <3> QED BY <2>1, <2>3, <2>4, <3>1, MapsGrantGiven DEF AskSu
  <2>5. CASE AskManager(w)
    <3>1. mem.mgrMap[job[w].request.code] = job[w].request.addr
      BY <2>3, <2>5 DEF AskManager
    <3> QED BY <2>1, <2>2, <2>5, <3>1, MapsGrantGiven DEF AskManager, At
  <2> QED BY <2>3, <2>4, <2>5, RepliesItself
<1> QED BY <1>1, WorkersInvariance, PTL DEF WorkersSpec, GrantsWereGiven

\* A check beside which no manager transaction ran is answered exactly as the list
\* in state says; one that cannot read the list may be refused instead.
THEOREM UndisturbedAnswersAreRightHolds == WorkersSpec => UndisturbedAnswersAreRight
<1> DEFINE Right == \A w \in Worker : Replies(w) /\ job[w].alone =>
             \/ txn'.answer.level = Registered!Level(job[w].request.code, job[w].request.addr)
             \/ ~job[w].request.declared /\ txn'.answer.level = PERMISSION_NONE
<1>1. WorkersInv /\ [WorkersNext]_workerVars => [Right]_workerVars
  <2> SUFFICES ASSUME WorkersInv, WorkersNext, NEW w \in Worker, Replies(w), job[w].alone
               PROVE  \/ txn'.answer.level = Registered!Level(job[w].request.code,
                                                              job[w].request.addr)
                      \/ ~job[w].request.declared /\ txn'.answer.level = PERMISSION_NONE
    OBVIOUS
  <2> DEFINE c == job[w].request.code
             a == job[w].request.addr
  <2>1. Busy(w) /\ ~Manages(job[w].request) /\ Fact(job[w], mem, registry)
    BY JobFacts DEF Replies
  <2>2. c \in Code \cup {Nil} /\ a \in Address /\ a # Sudo
    BY <2>1, JobFacts, RequestFacts
  <2>3. \A level : Reply(w, level) => txn'.answer.level = level
    BY DEF Reply
  <2>4. CASE GetList(w) /\ ~job[w].request.declared /\ Reply(w, PERMISSION_NONE)
    BY <2>3, <2>4
  <2>5. CASE AskSu(w) /\ \E level : Reply(w, level)
    <3>1. ~Goto(w, "askManager")
      BY <2>1, MovesStay DEF Replies, AllPlaces, AskPlaces
    <3>2. Agrees(mem, registry)
      BY <2>1, <2>5 DEF AskSu, At, Fact, AskPlaces
    <3>3. CASE c = Nil /\ Reply(w, PERMISSION_NONE)
      BY <2>2, <2>3, <3>3 DEF Registered!Level, PERMISSION_NONE
    <3>4. CASE c # Nil /\ mem.suMap # Nil /\ a \in mem.suMap /\ Reply(w, PERMISSION_SU_MANAGER)
      <4>1. a \in Range(registry.su)
        BY <3>2, <3>4 DEF Agrees
      <4> QED BY <2>2, <2>3, <3>4, <4>1 DEF Registered!Level, PERMISSION_SU_MANAGER, Range
    <3> QED BY <2>5, <3>1, <3>3, <3>4 DEF AskSu
  <2>6. CASE AskManager(w)
    <3>1. /\ Agrees(mem, registry) /\ c # Nil /\ a \notin Range(registry.su)
      BY <2>1, <2>6 DEF AskManager, At, Fact, AskPlaces
    <3>2. mem.mgrMap = ManagerOf(registry)
      BY <3>1 DEF Agrees
    <3>3. Reply(w, IF mem.mgrMap[c] = a THEN PERMISSION_MANAGER ELSE PERMISSION_NONE)
      BY <2>6 DEF AskManager
    <3> QED BY <2>2, <2>3, <3>1, <3>2, <3>3
            DEF Registered!Level, PERMISSION_MANAGER, PERMISSION_NONE, Range
  <2> QED BY <2>4, <2>5, <2>6, RepliesItself
<1> QED BY <1>1, WorkersInvariance, PTL DEF WorkersSpec, UndisturbedAnswersAreRight
=============================================================================
