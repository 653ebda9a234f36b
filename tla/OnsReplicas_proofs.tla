------------------------ MODULE OnsReplicas_proofs ------------------------
(***************************************************************************)
(* Sound validators that execute the block of a sound publisher arrive at  *)
(* the publisher's list: for any number of validators, addresses and       *)
(* codes, blocks of every length, and every history of appointments,       *)
(* clears, restarts and dropped blocks that leaves them sound.             *)
(***************************************************************************)
EXTENDS OnsReplicas, OnsManager_proofs

-----------------------------------------------------------------------------
(* What a transaction makes of a list, whoever executes it *)

Listed(list, c, a) ==
  IF Has(list, c) THEN [list EXCEPT ![Find(list, c)] = [gs1 |-> c, addr |-> a]]
  ELSE Append(list, [gs1 |-> c, addr |-> a])
Unlisted(list, c) == IF Has(list, c) THEN RemoveAt(list, Find(list, c)) ELSE list
ListedSu(list, a) == IF a \in Range(list) THEN list ELSE Append(list, a)
UnlistedSu(list, a) ==
  IF \E i \in DOMAIN list : list[i] = a
  THEN RemoveAt(list, CHOOSE i \in DOMAIN list : list[i] = a) ELSE list

Effect(t, r) ==
  [su  |-> IF t.kind = "addSu" THEN ListedSu(r.su, t.addr)
           ELSE IF t.kind = "removeSu" THEN UnlistedSu(r.su, t.addr) ELSE r.su,
   mgr |-> IF t.kind = "add" THEN Listed(r.mgr, t.code, t.addr)
           ELSE IF t.kind = "remove" THEN Unlisted(r.mgr, t.code) ELSE r.mgr]

SuKinds == {"addSu", "removeSu"}

\* The signer of a use has a role that permits it.
Entitled(t, r) == t.addr = Sudo \/ t.addr \in Range(r.su) \/ ManagerOf(r)[t.code] = t.addr

\* What a list has to say for t to pass.
Passes(t, r) ==
  /\ t.kind \in {"remove", "removeSu"} => Holds(t, r)
  /\ t.kind = "use" => Entitled(t, r)

\* t decides that code c gets manager a, or none if a is Nil.
Decides(t, c, a) ==
  /\ t.code = c
  /\ \/ t.kind = "add" /\ a = t.addr
     \/ t.kind = "remove" /\ a = Nil

\* t decides whether a is a su manager.
DecidesSu(t, a, listed) == t.addr = a /\ t.kind = IF listed THEN "addSu" ELSE "removeSu"

-----------------------------------------------------------------------------
(* The lists a block leads through: b is the block, h the committed list *)

\* The publisher went from list to list, and what the lists say changed only
\* by transactions about it.
Trace(lists, b, h) ==
  /\ lists \in [0..Len(b) -> Registry]
  /\ lists[0] = h
  /\ \A i \in 1..Len(b) :
       Passes(b[i], lists[i - 1]) /\ lists[i] = Effect(b[i], lists[i - 1])
  /\ \A i \in 0..Len(b) : NoDuplicates(lists[i])
  /\ \A j, k \in 0..Len(b) : j <= k =>
       /\ \A c \in Code :
            \/ ManagerOf(lists[k])[c] = ManagerOf(lists[j])[c]
            \/ \E i \in (j + 1)..k : Decides(b[i], c, ManagerOf(lists[k])[c])
       /\ \A a \in Address :
            \/ a \in Range(lists[k].su) <=> a \in Range(lists[j].su)
            \/ \E i \in (j + 1)..k : DecidesSu(b[i], a, a \in Range(lists[k].su))

-----------------------------------------------------------------------------
(* Memories *)

\* A memory that knows all of list r or nothing; and all, if no list was committed.
Knows(m, r, h) == GoodMemory(m) /\ Whole(m, r) /\ (h = Absent => Agrees(m, r))

\* It can dismiss again whom the block dismisses.
Rehearsed(m, b, h) ==
  /\ m.cached \/ h = Absent
  /\ (\E i \in DOMAIN b : b[i].kind = "remove") => m.cached /\ m.mgr # Nil
  /\ (\E i \in DOMAIN b : b[i].kind = "removeSu") /\ h # Absent => m.su # Nil

\* The memory with which a block was built that led to list r.
Built(m, r, b, h) ==
  /\ Knows(m, r, h)
  /\ IF Plain(b) THEN r = h ELSE Agrees(m, r) /\ Rehearsed(m, b, h)

\* One of the first n transactions of the block is about code c, or about the
\* su manager a.
Touched(b, n, c) == \E i \in 1..n : b[i].code = c /\ b[i].kind \in {"add", "remove"}
TouchedSu(b, n, a) == \E i \in 1..n : b[i].addr = a /\ b[i].kind \in SuKinds

\* The block dismisses nobody who is in the list it ends with.
Stays(b, last) ==
  \A i \in DOMAIN b :
    /\ b[i].kind = "remove" => ~Has(last.mgr, b[i].code)
    /\ b[i].kind = "removeSu" => b[i].addr \notin Range(last.su)

\* r lists the managers of `last', in its order, before all others.
Begins(r, last) ==
  /\ \A i \in DOMAIN last.su : i \in DOMAIN r.su /\ r.su[i] = last.su[i]
  /\ \A i \in DOMAIN last.mgr : i \in DOMAIN r.mgr /\ r.mgr[i].gs1 = last.mgr[i].gs1

\* The publisher's memory while it executes its block again, n transactions of
\* it so far: its list says of what these were about what it said when they
\* were executed first, and of everything else what it said in the end.
Ahead(m, r, lists, b, h, n) ==
  LET held == Held(m)
      last == lists[Len(b)]
  IN
  /\ GoodMemory(m) /\ Agrees(m, held)
  /\ Rehearsed(m, b, h)
  /\ r = IF \E i \in 1..n : Writes(b[i]) THEN held ELSE h
  /\ \A c \in Code : ManagerOf(held)[c] = ManagerOf(IF Touched(b, n, c) THEN lists[n] ELSE last)[c]
  /\ \A a \in Address :
       a \in Range(held.su) <=> a \in Range((IF TouchedSu(b, n, a) THEN lists[n] ELSE last).su)
  /\ Stays(b, last) => Begins(held, last)

\* The processor at work on a published block; own: it is the publisher's.
AtWork(m, r, lists, b, h, n, own) ==
  \/ own /\ ~Plain(b) /\ Ahead(m, r, lists, b, h, n)
  \/ r = lists[n] /\ Knows(m, r, h)

\* The next transaction is a use by somebody whom a later one dismisses.
Outdated(b, n) ==
  b[n + 1].kind = "use" /\ \E i \in (n + 2)..Len(b) : Unseats(b[i], b[n + 1])

-----------------------------------------------------------------------------
(* The inductive invariant *)

Typed ==
  /\ GoodMemory(mem) /\ GoodRegistry(registry) /\ GoodRegistry(registryHead) /\ GoodRegistry(root)
  /\ txn \in Txn
  /\ parked \in [Validator -> Memory] /\ \A v \in Validator : GoodMemory(parked[v])
  /\ stage \in {"idle", "building", "checking"}
  /\ block \in Seq(Transaction)
  /\ \A i \in DOMAIN block : block[i].kind = "op" => Len(block) = 1
  /\ Plain(block) => registry = registryHead /\ (stage = "checking" => root = registryHead)
  /\ pos \in 0..Len(block)
  /\ verdict \in [Validator -> Verdict]

Idle ==
  /\ block = <<>> /\ verdict = NoVerdict
  /\ \A v \in Validator \ astray : Whole(parked[v], registryHead)

\* Those not at work and not astray.
Others == Validator \ (astray \cup {worker})

Building ==
  /\ worker \in Validator /\ publisher = worker
  /\ pos = 0 /\ verdict = NoVerdict
  /\ \A v \in Others : Whole(parked[v], registryHead)

\* A sound publisher builds.
Leads(lists) ==
  /\ Trace(lists, block, registryHead)
  /\ registry = lists[Len(block)]
  /\ Built(mem, registry, block, registryHead)

Checking ==
  /\ worker \in Validator /\ publisher \in Validator
  /\ verdict[worker] = "accepts" => pos = Len(block) /\ registry = root
  /\ worker \notin astray /\ worker # publisher => Whole(mem, registry)
  /\ \A v \in Others :
       /\ verdict[v] = "none" /\ v # publisher => Whole(parked[v], registryHead)
       /\ verdict[v] # "none" /\ (Plain(block) \/ verdict[v] = "accepts") => Whole(parked[v], root)

\* The block of a sound publisher.
Follows(lists) ==
  /\ Trace(lists, block, registryHead)
  /\ root = lists[Len(block)]
  /\ worker \notin astray =>
       /\ AtWork(mem, registry, lists, block, registryHead, pos, worker = publisher)
       /\ verdict[worker] # "none" /\ pos < Len(block) => worker = publisher /\ Outdated(block, pos)
  /\ worker # publisher /\ verdict[publisher] = "none" =>
       \/ Built(parked[publisher], root, block, registryHead)
       \/ Knows(parked[publisher], registryHead, registryHead)

ReplicaInv ==
  /\ Typed
  /\ stage = "idle" => Idle
  /\ stage = "building" => Building /\ (worker \notin astray => \E lists : Leads(lists))
  /\ stage = "checking" => Checking /\ (publisher \notin astray => \E lists : Follows(lists))

-----------------------------------------------------------------------------
(* Lists *)

\* What each kind of transaction names.
LEMMA TransactionFacts ==
  ASSUME NEW t \in Transaction
  PROVE  /\ t.kind \in Kind
         /\ t.kind \in {"add", "remove", "use"} => t.code \in Code
         /\ t.kind \in {"addSu", "removeSu", "op"} => t.code = Nil
         /\ t.kind \in {"add", "addSu", "removeSu", "use"} => t.addr \in Address
  BY TransactionAssumption DEF Kind

\* Listing the manager of a code: an entry is overwritten in its place, a new one
\* comes last.
LEMMA ListedFacts ==
  ASSUME NEW list \in Seq(Entry), UniqueCodes(list), NEW c \in Code, NEW a \in Address
  PROVE  LET new == Listed(list, c, a)
         IN  /\ new \in Seq(Entry) /\ UniqueCodes(new)
             /\ \A d : Looked(new, d) = IF d = c THEN a ELSE Looked(list, d)
             /\ \A i \in DOMAIN list : i \in DOMAIN new /\ new[i].gs1 = list[i].gs1
<1> DEFINE e == [gs1 |-> c, addr |-> a]
           new == Listed(list, c, a)
<1>1. e \in Entry /\ e.gs1 = c /\ e.addr = a
  BY DEF Entry
<1>2. CASE Has(list, c)
  <2> DEFINE k == Find(list, c)
  <2>1. k \in DOMAIN list /\ list[k].gs1 = c
    BY <1>2, FindFacts
  <2>2. new = [list EXCEPT ![k] = e]
    BY <1>2 DEF Listed
  <2>3. new \in Seq(Entry) /\ UniqueCodes(new)
    BY <1>2, <2>2, ReplaceEntryFacts
  <2> HIDE DEF new, k, e
  <2>4. /\ DOMAIN new = DOMAIN list /\ new[k] = e
        /\ \A j \in DOMAIN list : j # k => new[j] = list[j]
    BY <2>1, <2>2
  <2>5. \A i \in DOMAIN list : i \in DOMAIN new /\ new[i].gs1 = list[i].gs1
    BY <1>1, <2>1, <2>4
  <2>6. \A d : Looked(new, d) = IF d = list[k].gs1 THEN new[k].addr ELSE Looked(list, d)
    BY <2>1, <2>3, <2>4, <2>5, LookedReplaced
  <2> QED BY <1>1, <2>1, <2>3, <2>4, <2>5, <2>6 DEF new
<1>3. CASE ~Has(list, c)
  <2>1. new = Append(list, e)
    BY <1>3 DEF Listed
  <2> HIDE DEF new, e
  <2>2. new \in Seq(Entry) /\ UniqueCodes(new)
    BY <1>1, <1>3, <2>1, AppendEntryFacts
  <2>3. \A d : Looked(new, d) = IF d = c THEN a ELSE Looked(list, d)
    BY <1>1, <1>3, <2>1, LookedAppended
  <2>4. \A i \in DOMAIN list : i \in DOMAIN new /\ new[i] = list[i]
    BY <1>1, <2>1, AppendProperties, LenProperties
  <2> QED BY <2>2, <2>3, <2>4 DEF new
<1> QED BY <1>2, <1>3

\* Striking the manager of a code off: the entries behind it move up.
LEMMA UnlistedFacts ==
  ASSUME NEW list \in Seq(Entry), UniqueCodes(list), NEW c \in Code
  PROVE  LET new == Unlisted(list, c)
         IN  /\ new \in Seq(Entry) /\ UniqueCodes(new)
             /\ \A d : Looked(new, d) = IF d = c THEN Nil ELSE Looked(list, d)
             /\ \A last \in Seq(Entry) :
                  /\ ~Has(last, c)
                  /\ \A i \in DOMAIN last : i \in DOMAIN list /\ list[i].gs1 = last[i].gs1
                  => \A i \in DOMAIN last : i \in DOMAIN new /\ new[i].gs1 = last[i].gs1
<1> DEFINE new == Unlisted(list, c)
<1>1. CASE Has(list, c)
  <2> DEFINE k == Find(list, c)
  <2>1. k \in DOMAIN list /\ list[k].gs1 = c
    BY <1>1, FindFacts
  <2>2. new = RemoveAt(list, k)
    BY <1>1 DEF Unlisted
  <2>3. \A d : Looked(new, d) = IF d = c THEN Nil ELSE Looked(list, d)
    BY <1>1, <2>2, LookedRemoved
  <2> HIDE DEF new, k
  <2>4. /\ new \in Seq(Entry) /\ UniqueCodes(new)
        /\ DOMAIN new = 1..(Len(list) - 1)
        /\ \A j \in 1..(Len(list) - 1) : new[j] = IF j < k THEN list[j] ELSE list[j + 1]
    BY <2>1, <2>2, RemoveAtFacts, RemoveAtUnique
  <2>5. ASSUME NEW last \in Seq(Entry), ~Has(last, c),
               \A i \in DOMAIN last : i \in DOMAIN list /\ list[i].gs1 = last[i].gs1,
               NEW i \in DOMAIN last
        PROVE  i \in DOMAIN new /\ new[i].gs1 = last[i].gs1
    <3>1. DOMAIN last = 1..Len(last) /\ Len(last) \in Nat /\ DOMAIN list = 1..Len(list) /\ Len(list) \in Nat
      BY LenProperties
    <3>2. k \notin DOMAIN last
      BY <2>1, <2>5 DEF Has
    <3>3. i < k
      BY <2>1, <3>1, <3>2
    <3>4. i \in 1..(Len(list) - 1) /\ new[i] = list[i]
      BY <2>1, <2>4, <3>1, <3>3
    <3> QED BY <2>4, <2>5, <3>4
  <2> QED BY <2>3, <2>4, <2>5 DEF new
<1>2. CASE ~Has(list, c)
  <2>1. new = list
    BY <1>2 DEF Unlisted
  <2>2. Looked(list, c) = Nil
    BY <1>2 DEF Looked
  <2> QED BY <2>1, <2>2
<1> QED BY <1>1, <1>2

\* Listing a su manager, who comes last unless listed.
LEMMA ListedSuFacts ==
  ASSUME NEW list \in Seq(Address), Injective(list), NEW a \in Address
  PROVE  LET new == ListedSu(list, a)
         IN  /\ new \in Seq(Address) /\ Injective(new)
             /\ Range(new) = Range(list) \cup {a}
             /\ \A i \in DOMAIN list : i \in DOMAIN new /\ new[i] = list[i]
<1>1. CASE a \in Range(list)
  BY <1>1 DEF ListedSu
<1>2. CASE a \notin Range(list)
  <2>1. ListedSu(list, a) = Append(list, a)
    BY <1>2 DEF ListedSu
  <2>2. \A i \in DOMAIN list : list[i] # a
    BY <1>2 DEF Range
  <2>3. Append(list, a) \in Seq(Address) /\ Injective(Append(list, a))
    BY <2>2, AppendAddressFacts
  <2>4. \A i \in DOMAIN list : i \in DOMAIN Append(list, a) /\ Append(list, a)[i] = list[i]
    BY AppendProperties, LenProperties
  <2> QED BY <2>1, <2>3, <2>4, RangeAppended
<1> QED BY <1>1, <1>2

\* Striking a su manager off.
LEMMA UnlistedSuFacts ==
  ASSUME NEW list \in Seq(Address), Injective(list), NEW a \in Address
  PROVE  LET new == UnlistedSu(list, a)
         IN  /\ new \in Seq(Address) /\ Injective(new)
             /\ Range(new) = Range(list) \ {a}
             /\ \A last \in Seq(Address) :
                  /\ a \notin Range(last)
                  /\ \A i \in DOMAIN last : i \in DOMAIN list /\ list[i] = last[i]
                  => \A i \in DOMAIN last : i \in DOMAIN new /\ new[i] = last[i]
<1> DEFINE new == UnlistedSu(list, a)
<1>1. CASE \E i \in DOMAIN list : list[i] = a
  <2> DEFINE k == CHOOSE i \in DOMAIN list : list[i] = a
  <2>1. k \in DOMAIN list /\ list[k] = a
    BY <1>1
  <2>2. new = RemoveAt(list, k)
    BY <1>1 DEF UnlistedSu
  <2> HIDE DEF new, k
  <2>3. /\ new \in Seq(Address) /\ Injective(new) /\ Range(new) = Range(list) \ {a}
        /\ DOMAIN new = 1..(Len(list) - 1)
        /\ \A j \in 1..(Len(list) - 1) : new[j] = IF j < k THEN list[j] ELSE list[j + 1]
    BY <2>1, <2>2, RemoveAtFacts, RemoveAtInjective, RangeRemoved
  <2>4. ASSUME NEW last \in Seq(Address), a \notin Range(last),
               \A i \in DOMAIN last : i \in DOMAIN list /\ list[i] = last[i],
               NEW i \in DOMAIN last
        PROVE  i \in DOMAIN new /\ new[i] = last[i]
    <3>1. DOMAIN last = 1..Len(last) /\ Len(last) \in Nat /\ DOMAIN list = 1..Len(list) /\ Len(list) \in Nat
      BY LenProperties
    <3>2. k \notin DOMAIN last
      BY <2>1, <2>4 DEF Range
    <3>3. i < k
      BY <2>1, <3>1, <3>2
    <3>4. i \in 1..(Len(list) - 1) /\ new[i] = list[i]
      BY <2>1, <2>3, <3>1, <3>3
    <3> QED BY <2>3, <2>4, <3>4
  <2> QED BY <2>3, <2>4 DEF new
<1>2. CASE ~\E i \in DOMAIN list : list[i] = a
  BY <1>2 DEF UnlistedSu, Range
<1> QED BY <1>1, <1>2

\* The list a transaction leads to is a good one.
LEMMA EffectGood ==
  ASSUME NEW t \in Transaction, NEW r, GoodRegistry(r)
  PROVE  GoodRegistry(Effect(t, r))
<1> DEFINE s == Effect(t, r)
<1>1. /\ r.su \in Seq(Address) /\ r.mgr \in Seq(Entry)
      /\ Injective(r.su) /\ UniqueCodes(r.mgr)
  BY DEF GoodRegistry, Registry, NoDuplicates
<1>2. s.su \in Seq(Address) /\ Injective(s.su)
  BY <1>1, TransactionFacts, ListedSuFacts, UnlistedSuFacts DEF Effect
<1>3. s.mgr \in Seq(Entry) /\ UniqueCodes(s.mgr)
  BY <1>1, TransactionFacts, ListedFacts, UnlistedFacts DEF Effect
<1>4. s = [su |-> s.su, mgr |-> s.mgr]
  BY DEF Effect
<1> HIDE DEF s
<1>5. s \in Registry
  BY <1>2, <1>3, <1>4 DEF Registry
<1> QED BY <1>2, <1>3, <1>5 DEF GoodRegistry, NoDuplicates, s

\* ManagerOf and Looked are one look-up.
LEMMA ManagerOfLooked ==
  ASSUME NEW r, NEW c \in Code
  PROVE  ManagerOf(r)[c] = Looked(r.mgr, c)
  BY DEF ManagerOf, Looked

\* It decides about the code it names and about no other.
LEMMA EffectManagers ==
  ASSUME NEW t \in Transaction, NEW r, GoodRegistry(r), NEW c \in Code
  PROVE  ManagerOf(Effect(t, r))[c] =
           IF t.kind = "add" /\ t.code = c THEN t.addr
           ELSE IF t.kind = "remove" /\ t.code = c THEN Nil
           ELSE ManagerOf(r)[c]
<1>1. r.mgr \in Seq(Entry) /\ UniqueCodes(r.mgr)
  BY DEF GoodRegistry, Registry, NoDuplicates
<1>2. CASE t.kind = "add"
  <2>1. Effect(t, r).mgr = Listed(r.mgr, t.code, t.addr)
    BY <1>2 DEF Effect
  <2>2. Looked(Effect(t, r).mgr, c) = IF c = t.code THEN t.addr ELSE Looked(r.mgr, c)
    BY <1>1, <1>2, <2>1, TransactionFacts, ListedFacts
  <2> QED BY <1>2, <2>2, ManagerOfLooked
<1>3. CASE t.kind = "remove"
  <2>1. Effect(t, r).mgr = Unlisted(r.mgr, t.code)
    BY <1>3 DEF Effect
  <2>2. Looked(Effect(t, r).mgr, c) = IF c = t.code THEN Nil ELSE Looked(r.mgr, c)
    BY <1>1, <1>3, <2>1, TransactionFacts, UnlistedFacts
  <2> QED BY <1>3, <2>2, ManagerOfLooked
<1>4. CASE t.kind \notin {"add", "remove"}
  <2>1. Effect(t, r).mgr = r.mgr
    BY <1>4 DEF Effect
  <2> QED BY <1>4, <2>1, ManagerOfLooked
<1> QED BY <1>2, <1>3, <1>4

\* The same for su managers.
LEMMA EffectSuManagers ==
  ASSUME NEW t \in Transaction, NEW r, GoodRegistry(r), NEW a
  PROVE  a \in Range(Effect(t, r).su) <=>
           IF t.kind = "addSu" /\ t.addr = a THEN TRUE
           ELSE IF t.kind = "removeSu" /\ t.addr = a THEN FALSE
           ELSE a \in Range(r.su)
<1>1. r.su \in Seq(Address) /\ Injective(r.su)
  BY DEF GoodRegistry, Registry, NoDuplicates
<1>2. CASE t.kind = "addSu"
  <2>1. Range(Effect(t, r).su) = Range(r.su) \cup {t.addr}
    BY <1>1, <1>2, TransactionFacts, ListedSuFacts DEF Effect
  <2> QED BY <1>2, <2>1
<1>3. CASE t.kind = "removeSu"
  <2>1. Range(Effect(t, r).su) = Range(r.su) \ {t.addr}
    BY <1>1, <1>3, TransactionFacts, UnlistedSuFacts DEF Effect
  <2> QED BY <1>3, <2>1
<1>4. CASE t.kind \notin SuKinds
  <2>1. Effect(t, r).su = r.su
    BY <1>4 DEF Effect, SuKinds
  <2> QED BY <1>4, <2>1 DEF SuKinds
<1> QED BY <1>2, <1>3, <1>4 DEF SuKinds

\* A transaction that writes nothing leaves the list as it is.
LEMMA EffectOfReading ==
  ASSUME NEW t, ~Writes(t), NEW r, GoodRegistry(r)
  PROVE  Effect(t, r) = r
  BY DEF Effect, Writes, SuKinds, GoodRegistry, Registry

\* A list goes on to begin with `last' if nobody listed there is struck off.
LEMMA EffectBegins ==
  ASSUME NEW t \in Transaction, NEW r, GoodRegistry(r), NEW last, GoodRegistry(last),
         Begins(r, last),
         t.kind = "remove" => ~Has(last.mgr, t.code),
         t.kind = "removeSu" => t.addr \notin Range(last.su)
  PROVE  Begins(Effect(t, r), last)
<1> DEFINE s == Effect(t, r)
<1>1. /\ r.su \in Seq(Address) /\ r.mgr \in Seq(Entry)
      /\ Injective(r.su) /\ UniqueCodes(r.mgr)
      /\ last.su \in Seq(Address) /\ last.mgr \in Seq(Entry)
  BY DEF GoodRegistry, Registry, NoDuplicates
<1>2. \A i \in DOMAIN last.su : i \in DOMAIN r.su /\ r.su[i] = last.su[i]
  BY DEF Begins
<1>3. \A i \in DOMAIN last.mgr : i \in DOMAIN r.mgr /\ r.mgr[i].gs1 = last.mgr[i].gs1
  BY DEF Begins
<1>4. \A i \in DOMAIN last.su : i \in DOMAIN s.su /\ s.su[i] = last.su[i]
  <2>1. CASE t.kind = "addSu"
    <3>1. s.su = ListedSu(r.su, t.addr)
      BY <2>1 DEF Effect
    <3> HIDE DEF s
    <3>2. t.addr \in Address
      BY <2>1, TransactionFacts
    <3>3. \A i \in DOMAIN r.su : i \in DOMAIN s.su /\ s.su[i] = r.su[i]
      BY <1>1, <3>1, <3>2, ListedSuFacts
    <3> QED BY <1>2, <3>3
  <2>2. CASE t.kind = "removeSu"
    <3>1. s.su = UnlistedSu(r.su, t.addr)
      BY <2>2 DEF Effect
    <3> HIDE DEF s
    <3>2. t.addr \in Address /\ t.addr \notin Range(last.su)
      BY <2>2, TransactionFacts
    <3>3. \A l \in Seq(Address) :
            /\ t.addr \notin Range(l)
            /\ \A i \in DOMAIN l : i \in DOMAIN r.su /\ r.su[i] = l[i]
            => \A i \in DOMAIN l :
                 i \in DOMAIN UnlistedSu(r.su, t.addr) /\ UnlistedSu(r.su, t.addr)[i] = l[i]
      BY <1>1, <3>2, UnlistedSuFacts, Zenon
    <3> QED BY <1>1, <1>2, <3>1, <3>2, <3>3
  <2>3. CASE t.kind \notin SuKinds
    BY <1>2, <2>3 DEF Effect, SuKinds
  <2> QED BY <2>1, <2>2, <2>3 DEF SuKinds
<1>5. \A i \in DOMAIN last.mgr : i \in DOMAIN s.mgr /\ s.mgr[i].gs1 = last.mgr[i].gs1
  <2>1. CASE t.kind = "add"
    <3>1. s.mgr = Listed(r.mgr, t.code, t.addr)
      BY <2>1 DEF Effect
    <3> HIDE DEF s
    <3>2. t.code \in Code /\ t.addr \in Address
      BY <2>1, TransactionFacts
    <3>3. \A i \in DOMAIN r.mgr : i \in DOMAIN s.mgr /\ s.mgr[i].gs1 = r.mgr[i].gs1
      BY <1>1, <3>1, <3>2, ListedFacts
    <3> QED BY <1>3, <3>3
  <2>2. CASE t.kind = "remove"
    <3>1. s.mgr = Unlisted(r.mgr, t.code)
      BY <2>2 DEF Effect
    <3> HIDE DEF s
    <3>2. t.code \in Code /\ ~Has(last.mgr, t.code)
      BY <2>2, TransactionFacts
    <3>3. \A l \in Seq(Entry) :
            /\ ~Has(l, t.code)
            /\ \A i \in DOMAIN l : i \in DOMAIN r.mgr /\ r.mgr[i].gs1 = l[i].gs1
            => \A i \in DOMAIN l :
                 /\ i \in DOMAIN Unlisted(r.mgr, t.code)
                 /\ Unlisted(r.mgr, t.code)[i].gs1 = l[i].gs1
      BY <1>1, <3>2, UnlistedFacts, Zenon
    <3> QED BY <1>1, <1>3, <3>1, <3>2, <3>3
  <2>3. CASE t.kind \notin {"add", "remove"}
    BY <1>3, <2>3 DEF Effect
  <2> QED BY <2>1, <2>2, <2>3
<1> QED BY <1>4, <1>5 DEF Begins

\* Two lists are the same if they say the same and one begins with the other.
LEMMA SameLists ==
  ASSUME NEW r, GoodRegistry(r), NEW last, GoodRegistry(last), Begins(r, last),
         ManagerOf(r) = ManagerOf(last), Range(r.su) = Range(last.su)
  PROVE  r = last
<1>1. /\ r.su \in Seq(Address) /\ r.mgr \in Seq(Entry)
      /\ Injective(r.su) /\ UniqueCodes(r.mgr)
      /\ last.su \in Seq(Address) /\ last.mgr \in Seq(Entry)
      /\ Injective(last.su) /\ UniqueCodes(last.mgr)
      /\ r = [su |-> r.su, mgr |-> r.mgr] /\ last = [su |-> last.su, mgr |-> last.mgr]
  BY DEF GoodRegistry, Registry, NoDuplicates
<1>2. /\ DOMAIN r.su = 1..Len(r.su) /\ Len(r.su) \in Nat
      /\ DOMAIN r.mgr = 1..Len(r.mgr) /\ Len(r.mgr) \in Nat
      /\ DOMAIN last.su = 1..Len(last.su) /\ Len(last.su) \in Nat
      /\ DOMAIN last.mgr = 1..Len(last.mgr) /\ Len(last.mgr) \in Nat
  BY <1>1, LenProperties
<1>3. r.su = last.su
  <2>1. \A i \in DOMAIN last.su : i \in DOMAIN r.su /\ r.su[i] = last.su[i]
    BY DEF Begins
  <2>2. ASSUME NEW k \in DOMAIN r.su PROVE k \in DOMAIN last.su
    <3>1. PICK i \in DOMAIN last.su : last.su[i] = r.su[k]
      BY DEF Range
    <3>2. i = k
      BY <1>1, <2>1, <3>1 DEF Injective
    <3> QED BY <3>1, <3>2
  <2>3. DOMAIN r.su = DOMAIN last.su
    BY <2>1, <2>2
  <2>4. Len(r.su) = Len(last.su)
    BY <1>2, <2>3
  <2> QED BY <1>1, <1>2, <2>1, <2>4, SeqEqual
<1>4. r.mgr = last.mgr
  <2>1. \A i \in DOMAIN last.mgr : i \in DOMAIN r.mgr /\ r.mgr[i].gs1 = last.mgr[i].gs1
    BY DEF Begins
  <2>2. ASSUME NEW k \in DOMAIN r.mgr PROVE k \in DOMAIN last.mgr
    <3>1. r.mgr[k] \in Entry
      BY <1>1, <1>2, ElementOfSeq
    <3> DEFINE c == r.mgr[k].gs1
    <3>2. c \in Code
      BY <3>1 DEF Entry
    <3>3. Has(r.mgr, c)
      BY DEF Has
    <3> HIDE DEF c
    <3>4. Has(last.mgr, c)
      <4>1. Looked(r.mgr, c) = Looked(last.mgr, c)
        BY <3>2, ManagerOfLooked
      <4> QED BY <1>1, <3>3, <4>1, HasFacts
    <3>5. PICK i \in DOMAIN last.mgr : last.mgr[i].gs1 = c
      BY <3>4 DEF Has
    <3>6. i = k
      BY <1>1, <2>1, <3>5 DEF UniqueCodes, c
    <3> QED BY <3>5, <3>6
  <2>3. DOMAIN r.mgr = DOMAIN last.mgr
    BY <2>1, <2>2
  <2>4. Len(r.mgr) = Len(last.mgr)
    BY <1>2, <2>3
  <2>5. ASSUME NEW i \in DOMAIN last.mgr PROVE r.mgr[i] = last.mgr[i]
    <3>1. r.mgr[i] \in Entry /\ last.mgr[i] \in Entry
      BY <1>1, <1>2, <2>3, ElementOfSeq
    <3> DEFINE c == last.mgr[i].gs1
    <3>2. c \in Code /\ r.mgr[i].gs1 = c
      BY <2>1, <3>1 DEF Entry
    <3>3. Looked(r.mgr, c) = r.mgr[i].addr /\ Looked(last.mgr, c) = last.mgr[i].addr
      BY <1>1, <2>1, LookedFacts
    <3>4. r.mgr[i].addr = last.mgr[i].addr
      BY <3>2, <3>3, ManagerOfLooked
    <3> QED BY <3>1, <3>2, <3>4 DEF Entry
  <2> QED BY <1>1, <1>2, <2>4, <2>5, SeqEqual
<1> QED BY <1>1, <1>3, <1>4

-----------------------------------------------------------------------------
(* What a transaction makes of a memory that holds a list *)

\* What was loaded or written once stays loaded or written.
Grows(m, n) ==
  /\ m.cached => n.cached
  /\ m.suMap # Nil => n.suMap # Nil
  /\ m.cached /\ m.mgr # Nil => n.mgr # Nil
  /\ m.cached /\ m.su # Nil => n.su # Nil

\* Memory n is m after transaction t, when m held list r.
Carries(m, n, t, r) ==
  /\ GoodMemory(n) /\ Agrees(n, Effect(t, r)) /\ Grows(m, n)
  /\ t.kind = "remove" => n.mgr # Nil
  /\ t.kind = "removeSu" => n.su # Nil
  /\ n.cached = m.cached

\* AddGS1CodeManager: a map hit means that the list has that entry already.
LEMMA WithManagerCarries ==
  ASSUME NEW t \in Transaction, t.kind = "add", NEW m, NEW r, GoodMemory(m), Agrees(m, r)
  PROVE  Carries(m, WithManager(m, t.code, t.addr), t, r)
<1> DEFINE c == t.code
           a == t.addr
           n == WithManager(m, c, a)
           new == Listed(r.mgr, c, a)
<1>1. c \in Code /\ a \in Address
  BY TransactionFacts
<1>2. r = Held(m) /\ GoodRegistry(r) /\ m.mgrMap = ManagerOf(r)
  BY HeldGood DEF Agrees
<1>3. /\ r.mgr \in Seq(Entry) /\ UniqueCodes(r.mgr) /\ r.mgr = Entries(m.mgr)
      /\ r.su = Entries(m.su)
  BY <1>2 DEF GoodRegistry, Registry, NoDuplicates, Held
<1>4. Effect(t, r) = [su |-> r.su, mgr |-> new]
  BY DEF Effect
<1>5. new \in Seq(Entry)
  BY <1>1, <1>3, ListedFacts
<1>6. n = IF m.mgrMap[c] = a THEN m
          ELSE [m EXCEPT !.mgrMap = [m.mgrMap EXCEPT ![c] = a], !.mgr = new]
  BY <1>3 DEF WithManager, Listed
<1>7. GoodMemory(n) /\ Agrees(n, Held(n))
  BY <1>1, WithManagerGood, WithManagerAgrees
<1> HIDE DEF n, new
<1>8. CASE m.mgrMap[c] = a
  <2>1. n = m
    BY <1>6, <1>8
  <2>2. Looked(r.mgr, c) = a
    BY <1>1, <1>2, <1>8, ManagerOfLooked
  <2>3. Has(r.mgr, c)
    BY <1>1, <2>2, NilAssumption DEF Looked
  <2> DEFINE k == Find(r.mgr, c)
             e == [gs1 |-> c, addr |-> a]
  <2>4. k \in DOMAIN r.mgr /\ r.mgr[k].gs1 = c /\ r.mgr[k].addr = a
    BY <2>2, <2>3, FindFacts DEF Looked
  <2>5. new = [r.mgr EXCEPT ![k] = e]
    BY <2>3 DEF new, Listed
  <2> HIDE DEF k
  <2>6. r.mgr[k] = e
    <3>1. r.mgr[k] \in Entry
      BY <1>3, <2>4, LenProperties, ElementOfSeq
    <3> QED BY <2>4, <3>1 DEF Entry
  <2>7. new = r.mgr
    <3> HIDE DEF e
    <3> QED BY <1>3, <2>4, <2>5, <2>6
  <2>8. Effect(t, r) = r
    BY <1>2, <1>4, <2>7 DEF GoodRegistry, Registry
  <2> QED BY <2>1, <2>8 DEF Carries, Grows, n
<1>9. CASE m.mgrMap[c] # a
  <2>1. n.su = m.su /\ n.mgr = new /\ n.suMap = m.suMap /\ n.cached = m.cached
    BY <1>6, <1>9, MemoryElim
  <2>2. n.mgr # Nil
    BY <1>5, <2>1, NilListAssumption
  <2>3. Held(n) = Effect(t, r)
    BY <1>3, <1>4, <1>5, <2>1, <2>2 DEF Held, Entries
  <2> QED BY <1>7, <2>1, <2>2, <2>3 DEF Carries, Grows, n
<1> QED BY <1>8, <1>9

\* RemoveGS1CodeManager.
LEMMA WithoutManagerCarries ==
  ASSUME NEW t \in Transaction, t.kind = "remove", NEW m, NEW r, GoodMemory(m), Agrees(m, r),
         m.mgr # Nil
  PROVE  Carries(m, WithoutManager(m, t.code), t, r)
<1> DEFINE c == t.code
           n == WithoutManager(m, c)
           new == Unlisted(r.mgr, c)
<1>1. c \in Code
  BY TransactionFacts
<1>2. r = Held(m) /\ GoodRegistry(r)
  BY HeldGood DEF Agrees
<1>3. /\ r.mgr \in Seq(Entry) /\ UniqueCodes(r.mgr) /\ r.mgr = m.mgr
      /\ r.su = Entries(m.su)
  BY <1>2 DEF GoodRegistry, Registry, NoDuplicates, Held, Entries
<1>4. Effect(t, r) = [su |-> r.su, mgr |-> new]
  BY DEF Effect
<1>5. new \in Seq(Entry)
  BY <1>1, <1>3, UnlistedFacts
<1>6. n = [m EXCEPT !.mgrMap = [m.mgrMap EXCEPT ![c] = Nil], !.mgr = new]
  BY <1>3 DEF WithoutManager, Unlisted
<1>7. GoodMemory(n) /\ Agrees(n, Held(n))
  BY <1>1, WithoutManagerGood, WithoutManagerAgrees
<1> HIDE DEF n, new
<1>8. n.su = m.su /\ n.mgr = new /\ n.suMap = m.suMap /\ n.cached = m.cached
  BY <1>6, MemoryElim
<1>9. n.mgr # Nil
  BY <1>5, <1>8, NilListAssumption
<1>10. Held(n) = Effect(t, r)
  BY <1>3, <1>4, <1>5, <1>8, <1>9 DEF Held, Entries
<1> QED BY <1>7, <1>8, <1>9, <1>10 DEF Carries, Grows, n

\* AddSuManager: who is in the map is in the list.
SuAppointed(m, a) == IF a \in m.suMap THEN m ELSE WithSu(m, a)

LEMMA WithSuCarries ==
  ASSUME NEW t \in Transaction, t.kind = "addSu", NEW m, NEW r, GoodMemory(m), Agrees(m, r),
         m.suMap # Nil
  PROVE  Carries(m, SuAppointed(m, t.addr), t, r)
<1> DEFINE a == t.addr
           n == WithSu(m, a)
<1>1. a \in Address
  BY TransactionFacts
<1>2. r = Held(m) /\ GoodRegistry(r) /\ m.suMap = Range(r.su)
  BY HeldGood DEF Agrees
<1>3. r.su \in Seq(Address) /\ r.su = Entries(m.su) /\ r.mgr = Entries(m.mgr)
  BY <1>2 DEF GoodRegistry, Registry, Held
<1>4. Effect(t, r) = [su |-> ListedSu(r.su, a), mgr |-> r.mgr]
  BY DEF Effect
<1>5. CASE a \in m.suMap
  <2>1. SuAppointed(m, a) = m
    BY <1>5 DEF SuAppointed
  <2>2. Effect(t, r) = r
    BY <1>2, <1>4, <1>5 DEF ListedSu, GoodRegistry, Registry
  <2> QED BY <2>1, <2>2 DEF Carries, Grows
<1>6. CASE a \notin m.suMap
  <2>1. SuAppointed(m, a) = n
    BY <1>6 DEF SuAppointed
  <2>2. ListedSu(r.su, a) = Append(r.su, a)
    BY <1>2, <1>6 DEF ListedSu
  <2>3. Append(r.su, a) \in Seq(Address)
    BY <1>1, <1>3, AppendProperties
  <2>4. GoodMemory(n) /\ Agrees(n, Held(n))
    BY <1>1, <1>6, WithSuGood, WithSuAgrees
  <2>5. n = [m EXCEPT !.suMap = m.suMap \cup {a}, !.su = Append(r.su, a)]
    BY <1>3 DEF WithSu
  <2> HIDE DEF n
  <2>6. n.su = Append(r.su, a) /\ n.mgr = m.mgr /\ n.cached = m.cached
    BY <2>5, MemoryElim
  <2>7. n.su # Nil
    BY <2>3, <2>6, NilListAssumption
  <2>8. n.suMap # Nil
    <3>1. n.suMap = m.suMap \cup {a} /\ m.suMap \in SUBSET Address
      BY <2>5, MemoryElim
    <3> QED BY <1>1, <3>1, NilAssumption
  <2>9. Held(n) = Effect(t, r)
    BY <1>3, <1>4, <2>2, <2>6, <2>7 DEF Held, Entries
  <2> QED BY <2>1, <2>4, <2>6, <2>7, <2>8, <2>9 DEF Carries, Grows
<1> QED BY <1>5, <1>6

\* RemoveSuManager.
LEMMA WithoutSuCarries ==
  ASSUME NEW t \in Transaction, t.kind = "removeSu", NEW m, NEW r, GoodMemory(m), Agrees(m, r),
         m.su # Nil
  PROVE  Carries(m, WithoutSu(m, t.addr), t, r)
<1> DEFINE a == t.addr
           n == WithoutSu(m, a)
           new == UnlistedSu(r.su, a)
           newMap == IF m.suMap = Nil THEN Nil ELSE m.suMap \ {a}
<1>1. a \in Address
  BY TransactionFacts
<1>2. r = Held(m) /\ GoodRegistry(r)
  BY HeldGood DEF Agrees
<1>3. /\ r.su \in Seq(Address) /\ Injective(r.su) /\ r.su = m.su
      /\ r.mgr = Entries(m.mgr)
  BY <1>2 DEF GoodRegistry, Registry, NoDuplicates, Held, Entries
<1>4. Effect(t, r) = [su |-> new, mgr |-> r.mgr]
  BY DEF Effect
<1>5. new \in Seq(Address)
  BY <1>1, <1>3, UnlistedSuFacts
<1>6. n = [m EXCEPT !.suMap = newMap, !.su = new]
  BY <1>3 DEF WithoutSu, UnlistedSu
<1>7. GoodMemory(n) /\ Agrees(n, Held(n))
  BY <1>1, WithoutSuGood, WithoutSuAgrees
<1>8. m.suMap # Nil => newMap # Nil
  BY MemoryElim, NilAssumption
<1> HIDE DEF n, new, newMap
<1>9. n.su = new /\ n.mgr = m.mgr /\ n.suMap = newMap /\ n.cached = m.cached
  BY <1>6, MemoryElim
<1>10. n.su # Nil
  BY <1>5, <1>9, NilListAssumption
<1>11. Held(n) = Effect(t, r)
  BY <1>3, <1>4, <1>5, <1>9, <1>10 DEF Held, Entries
<1> QED BY <1>7, <1>8, <1>9, <1>10, <1>11 DEF Carries, Grows, n

-----------------------------------------------------------------------------
(* Executing a transaction on a memory that holds a list *)

\* The list is loaded, if need be, and then is r.
Finds(r) == ~LoadPanics(mem, TRUE) /\ Agrees(Loaded(mem, TRUE), r)

\* The transaction, which writes, ended well and led from list r to the next.
Served(t, r) ==
  /\ ~Died /\ Passed
  /\ registry' = Effect(t, r) /\ UNCHANGED registryHead
  /\ GoodMemory(mem') /\ Agrees(mem', Effect(t, r)) /\ Grows(mem, mem')
  /\ t.kind = "remove" => mem'.mgr # Nil
  /\ t.kind = "removeSu" => mem'.su # Nil
  /\ t.kind \in {"add", "remove"} => mem'.cached \/ registry = Absent

\* The process died, and a new one takes the transaction.
Fell ==
  /\ Died /\ ~Passed
  /\ mem' = Fresh /\ UNCHANGED <<registry, registryHead>>

\* What a load adds, it adds to what was there.
LEMMA LoadedGrows ==
  ASSUME GoodMemory(mem), GoodRegistry(registry)
  PROVE  Grows(mem, Loaded(mem, TRUE)) /\ (Loaded(mem, TRUE).cached \/ registry = Absent)
<1>1. CASE mem.cached \/ registry = Absent
  BY <1>1 DEF Loaded, Grows
<1>2. CASE ~mem.cached /\ registry # Absent
  <2> DEFINE suMap == IF mem.suMap = Nil THEN Nil ELSE mem.suMap \cup Range(registry.su)
             mgrMap == [c \in Code |-> IF Has(registry.mgr, c)
                                       THEN registry.mgr[Find(registry.mgr, c)].addr
                                       ELSE mem.mgrMap[c]]
             n == [su |-> NilIfEmpty(registry.su), mgr |-> NilIfEmpty(registry.mgr),
                   cached |-> TRUE, suMap |-> suMap, mgrMap |-> mgrMap]
  <2>1. Loaded(mem, TRUE) = n
    BY <1>2 DEF Loaded
  <2>2. mem.suMap # Nil => suMap # Nil
    <3>1. Range(registry.su) \in SUBSET Address
      <4>1. registry.su \in Seq(Address)
        BY DEF GoodRegistry, Registry
      <4>2. \A i \in DOMAIN registry.su : registry.su[i] \in Address
        BY <4>1, LenProperties, ElementOfSeq
      <4> QED BY <4>2 DEF Range
    <3>2. mem.suMap # Nil => mem.suMap \cup Range(registry.su) \in SUBSET Address
      BY <3>1, MemoryElim
    <3> QED BY <3>2, NilAssumption
  <2>3. n.cached = TRUE /\ n.suMap = suMap
    OBVIOUS
  <2> HIDE DEF n, suMap
  <2> QED BY <1>2, <2>1, <2>2, <2>3 DEF Grows
<1> QED BY <1>1, <1>2

\* A save that succeeds.
LEMMA SaveServes ==
  ASSUME NEW t \in Transaction, NEW m, NEW n, NEW r, Grows(mem, m), Carries(m, n, t, r),
         t.kind \in {"add", "remove"} => m.cached \/ registry = Absent,
         NEW op, SaveONSManager(op, Sudo, n, TRUE)
  PROVE  Served(t, r)
<1>1. /\ mem' = n /\ registry' = Held(n) /\ UNCHANGED registryHead
      /\ txn' = [op |-> op, by |-> Sudo, result |-> "ok", answer |-> NoAnswer]
  BY DEF SaveONSManager, End
<1>2. ~Died /\ Passed
  BY <1>1 DEF Died, Passed, NoAnswer
<1>3. Held(n) = Effect(t, r)
  BY DEF Carries, Agrees
<1>4. Grows(mem, n)
  BY DEF Carries, Grows
<1> QED BY <1>1, <1>2, <1>3, <1>4 DEF Served, Carries

\* A panic.
LEMMA CrashFells ==
  ASSUME NEW op, NEW by, Crash(op, by)
  PROVE  Fell
  BY DEF Crash, Unwritten, End, Fell, Died, Passed

\* applyAddManager.
LEMMA AddServes ==
  ASSUME NEW t \in Transaction, t.kind = "add", AddManager(Sudo, t.code, t.addr, TRUE, TRUE),
         GoodMemory(mem), GoodRegistry(registry), NEW r
  PROVE  /\ LoadPanics(mem, TRUE) => Fell
         /\ Finds(r) => Served(t, r)
<1>1. CASE LoadPanics(mem, TRUE)
  BY <1>1, CrashFells DEF AddManager, Refuse, Finds
<1>2. CASE ~LoadPanics(mem, TRUE) /\ Finds(r)
  <2> DEFINE m == Loaded(mem, TRUE)
             n == WithManager(m, t.code, t.addr)
  <2>1. SaveONSManager("appoint", Sudo, n, TRUE)
    BY <1>2 DEF AddManager, Refuse
  <2>2. GoodMemory(m) /\ Agrees(m, r)
    BY <1>2, LoadedGood DEF Finds
  <2>3. Grows(mem, m) /\ (m.cached \/ registry = Absent)
    BY LoadedGrows
  <2> HIDE DEF m, n
  <2>4. Carries(m, n, t, r)
    BY <2>2, WithManagerCarries DEF n
  <2> QED BY <1>2, <2>1, <2>3, <2>4, SaveServes DEF Finds
<1> QED BY <1>1, <1>2

\* applyRemoveManager.
LEMMA RemoveServes ==
  ASSUME NEW t \in Transaction, t.kind = "remove", RemoveManager(Sudo, t.code, TRUE, TRUE),
         GoodMemory(mem), GoodRegistry(registry), NEW r
  PROVE  /\ LoadPanics(mem, TRUE) => Fell
         /\ Finds(r) /\ Loaded(mem, TRUE).mgr # Nil => Served(t, r)
<1>1. CASE LoadPanics(mem, TRUE)
  BY <1>1, CrashFells DEF RemoveManager, Refuse, Finds
<1>2. CASE Finds(r) /\ Loaded(mem, TRUE).mgr # Nil
  <2> DEFINE m == Loaded(mem, TRUE)
             n == WithoutManager(m, t.code)
  <2>1. SaveONSManager("dismiss", Sudo, n, TRUE)
    BY <1>2 DEF RemoveManager, Refuse, Finds
  <2>2. GoodMemory(m) /\ Agrees(m, r) /\ m.mgr # Nil
    BY <1>2, LoadedGood DEF Finds
  <2>3. Grows(mem, m) /\ (m.cached \/ registry = Absent)
    BY LoadedGrows
  <2> HIDE DEF m, n
  <2>4. Carries(m, n, t, r)
    BY <2>2, WithoutManagerCarries DEF n
  <2> QED BY <1>2, <2>1, <2>3, <2>4, SaveServes DEF Finds
<1> QED BY <1>1, <1>2 DEF Finds

\* applyAddSuManager.
LEMMA AddSuServes ==
  ASSUME NEW t \in Transaction, t.kind = "addSu", AddSuManager(Sudo, t.addr, TRUE, TRUE),
         NEW r, GoodMemory(mem), Agrees(mem, r), mem.suMap # Nil
  PROVE  Served(t, r)
<1> DEFINE n == SuAppointed(mem, t.addr)
<1>1. SaveONSManager("appoint", Sudo, n, TRUE)
  BY DEF AddSuManager, Refuse, SuAppointed
<1>2. Carries(mem, n, t, r)
  BY WithSuCarries
<1>3. Grows(mem, mem)
  BY DEF Grows
<1> QED BY <1>1, <1>2, <1>3, SaveServes

\* applyRemoveSuManager.
LEMMA RemoveSuServes ==
  ASSUME NEW t \in Transaction, t.kind = "removeSu", RemoveSuManager(Sudo, t.addr, TRUE, TRUE),
         NEW r, GoodMemory(mem), Agrees(mem, r), mem.su # Nil
  PROVE  Served(t, r)
<1> DEFINE n == WithoutSu(mem, t.addr)
<1>1. SaveONSManager("dismiss", Sudo, n, TRUE)
  BY DEF RemoveSuManager, Refuse
<1>2. Carries(mem, n, t, r)
  BY WithoutSuCarries
<1>3. Grows(mem, mem)
  BY DEF Grows
<1> QED BY <1>1, <1>2, <1>3, SaveServes

\* The transaction asked for a permission and ended well or not.
Asks(t, m, r) ==
  /\ ~Died /\ (Passed <=> Entitled(t, r))
  /\ mem' = m /\ UNCHANGED <<registry, registryHead>>

\* CheckPermission always answers with a level.
LEMMA LevelFacts ==
  ASSUME NEW c, NEW by, NEW readable
  PROVE  CheckPermission(c, by, readable) \in 1..4
  BY DEF CheckPermission, PermissionLevel, PERMISSION_SU_ADDRESS, PERMISSION_SU_MANAGER,
         PERMISSION_MANAGER, PERMISSION_NONE

\* A transaction that needs PERMISSION_MANAGER.
LEMMA UseServes ==
  ASSUME NEW t \in Transaction, t.kind = "use",
         ConsultCrash(t.addr, TRUE) \/ Answered(t.addr, t.code, TRUE),
         GoodMemory(mem), GoodRegistry(registry), NEW r
  PROVE  /\ t.addr # Sudo /\ LoadPanics(mem, TRUE) => Fell
         /\ t.addr # Sudo /\ Finds(r) => Asks(t, Loaded(mem, TRUE), r)
         /\ t.addr = Sudo => Asks(t, mem, r)
<1>1. t.code \in Code /\ t.addr \in Address
  BY TransactionFacts
<1>2. CASE t.addr # Sudo /\ LoadPanics(mem, TRUE)
  BY <1>2, CrashFells DEF ConsultCrash, Answered, ConsultPanics, Finds
<1>3. ASSUME NEW m, Answered(t.addr, t.code, TRUE), m = Consulted(t.addr, TRUE),
             Passed <=> CheckPermission(t.code, t.addr, TRUE) <= PERMISSION_MANAGER,
             t.addr = Sudo \/ Agrees(m, r)
      PROVE  Asks(t, m, r)
  <2>1. mem' = m /\ UNCHANGED <<registry, registryHead>> /\ txn'.result = "ok"
    BY <1>3 DEF Answered
  <2>2. CheckPermission(t.code, t.addr, TRUE) = PermissionLevel(m, t.code, t.addr)
    BY <1>3 DEF CheckPermission, LoadFails
  <2>3. PermissionLevel(m, t.code, t.addr) <= PERMISSION_MANAGER <=> Entitled(t, r)
    <3>1. CASE t.addr = Sudo
      BY <3>1 DEF PermissionLevel, Entitled, PERMISSION_SU_ADDRESS, PERMISSION_MANAGER
    <3>2. CASE t.addr # Sudo
      <4>1. (m.suMap # Nil /\ t.addr \in m.suMap) <=> t.addr \in Range(r.su)
        <5>1. m.suMap = Nil => r.su = <<>>
          BY <1>3, <3>2 DEF Agrees
        <5>2. m.suMap # Nil => m.suMap = Range(r.su)
          BY <1>3, <3>2 DEF Agrees
        <5>3. r.su = <<>> => Range(r.su) = {}
          BY DEF Range
        <5> QED BY <5>1, <5>2, <5>3
      <4>2. m.mgrMap[t.code] = ManagerOf(r)[t.code]
        BY <1>3, <3>2 DEF Agrees
      <4>3. t.code # Nil
        BY <1>1, NilAssumption
      <4> QED BY <3>2, <4>1, <4>2, <4>3
              DEF PermissionLevel, Entitled, PERMISSION_SU_MANAGER, PERMISSION_MANAGER,
                  PERMISSION_NONE
    <3> QED BY <3>1, <3>2
  <2>4. ~Died
    BY <2>1 DEF Died
  <2> QED BY <1>3, <2>1, <2>2, <2>3, <2>4 DEF Asks
<1>4. ASSUME Answered(t.addr, t.code, TRUE)
      PROVE  Passed <=> CheckPermission(t.code, t.addr, TRUE) <= PERMISSION_MANAGER
  <2> DEFINE level == CheckPermission(t.code, t.addr, TRUE)
  <2>1. level \in 1..4
    BY LevelFacts
  <2> HIDE DEF level
  <2>2. txn'.result = "ok" /\ txn'.answer = [code |-> t.code, level |-> level]
    BY <1>4 DEF Answered, level
  <2>3. [code |-> t.code, level |-> level] \in Answer
    BY <1>1, <2>1 DEF Answer
  <2>4. txn'.answer # Nil /\ txn'.answer.level = level
    BY <2>2, <2>3, NilAnswerAssumption
  <2> QED BY <2>2, <2>4 DEF Passed, level
<1>5. CASE t.addr # Sudo /\ Finds(r)
  <2>1. Answered(t.addr, t.code, TRUE)
    BY <1>5 DEF ConsultCrash, ConsultPanics, Finds
  <2>2. Consulted(t.addr, TRUE) = Loaded(mem, TRUE) /\ Agrees(Loaded(mem, TRUE), r)
    BY <1>5 DEF Consulted, Finds
  <2> QED BY <1>3, <1>4, <1>5, <2>1, <2>2 DEF Finds
<1>6. CASE t.addr = Sudo
  <2>1. Answered(t.addr, t.code, TRUE)
    BY <1>6 DEF ConsultCrash, ConsultPanics
  <2>2. Consulted(t.addr, TRUE) = mem
    BY <1>6 DEF Consulted
  <2> QED BY <1>3, <1>4, <1>6, <2>1, <2>2
<1> QED BY <1>2, <1>5, <1>6

\* The transaction looked at list r and did not write.
Looks(t, r) ==
  /\ ~Died /\ (Passed <=> (t.kind = "use" => Entitled(t, r)))
  /\ UNCHANGED <<registry, registryHead>>
  /\ GoodMemory(mem')

\* applyOPManager.
LEMMA OpServes ==
  ASSUME NEW t \in Transaction, t.kind = "op", OperateManager(Sudo, 1, TRUE),
         GoodMemory(mem), GoodRegistry(registry), Whole(mem, registry)
  PROVE  \/ Fell /\ registry # Absent
         \/ Looks(t, registry) /\ Whole(mem', registry)
<1> DEFINE m == Cleared(mem)
<1>1. GoodMemory(m) /\ Whole(m, registry)
  BY ClearedGood, ClearedWhole
<1>2. CASE LoadPanics(m, TRUE)
  <2>1. Crash("operate", Sudo)
    BY <1>2 DEF OperateManager, LoadFails, LoadPanics
  <2>2. registry # Absent
    BY <1>2 DEF LoadPanics, Absent
  <2> QED BY <2>1, <2>2, CrashFells
<1>3. CASE ~LoadPanics(m, TRUE)
  <2>1. Unwritten("operate", Sudo, Loaded(m, TRUE), "ok")
    BY <1>3 DEF OperateManager, LoadFails
  <2> HIDE DEF m
  <2>2. GoodMemory(Loaded(m, TRUE)) /\ Whole(Loaded(m, TRUE), registry)
    BY <1>1, <1>3, LoadedGood, LoadedWhole
  <2>3. /\ mem' = Loaded(m, TRUE) /\ UNCHANGED <<registry, registryHead>>
        /\ txn'.result = "ok" /\ txn'.answer = Nil
    BY <2>1 DEF Unwritten, End, NoAnswer
  <2>4. ~Died /\ Passed
    BY <2>3 DEF Died, Passed
  <2> QED BY <2>2, <2>3, <2>4 DEF Looks
<1> QED BY <1>2, <1>3

\* What an Execute of each kind is.
LEMMA ExecuteFacts ==
  ASSUME NEW t \in Transaction, Execute(t)
  PROVE  /\ t.kind = "add" => AddManager(Sudo, t.code, t.addr, TRUE, TRUE)
         /\ t.kind = "remove" => RemoveManager(Sudo, t.code, TRUE, TRUE)
         /\ t.kind = "addSu" => AddSuManager(Sudo, t.addr, TRUE, TRUE)
         /\ t.kind = "removeSu" => RemoveSuManager(Sudo, t.addr, TRUE, TRUE)
         /\ t.kind = "op" => OperateManager(Sudo, 1, TRUE)
         /\ t.kind = "use" => ConsultCrash(t.addr, TRUE) \/ Answered(t.addr, t.code, TRUE)
  BY DEF Execute

\* A memory that knows all or nothing of the list loads it, unless the load panics.
LEMMA KnowsFinds ==
  ASSUME NEW h, Knows(mem, registry, h), GoodRegistry(registry)
  PROVE  /\ ~LoadPanics(mem, TRUE) => Finds(registry)
         /\ LoadPanics(mem, TRUE) =>
              h # Absent /\ mem.suMap = Nil /\ ~mem.cached /\ ~Agrees(mem, registry)
<1>1. ~LoadPanics(mem, TRUE) => Finds(registry)
  BY LoadedAgrees DEF Finds, Knows
<1>2. LoadPanics(mem, TRUE) => mem.suMap = Nil /\ ~mem.cached /\ registry.su # <<>>
  BY DEF LoadPanics
<1>3. mem.suMap = Nil /\ registry.su # <<>> => ~Agrees(mem, registry)
  BY DEF Agrees
<1> QED BY <1>1, <1>2, <1>3 DEF Knows

\* A memory that holds r loads r, if that is what the state says or if it is
\* loaded already.
LEMMA AgreesFinds ==
  ASSUME NEW r, Agrees(mem, r), GoodMemory(mem), GoodRegistry(registry),
         mem.cached \/ registry \in {r, Absent}
  PROVE  Finds(r)
<1>1. CASE mem.cached
  BY <1>1 DEF Finds, LoadPanics, Loaded
<1>2. CASE registry = Absent
  BY <1>2 DEF Finds, LoadPanics, Loaded, Absent
<1>3. CASE registry = r
  <2>1. Whole(mem, registry) /\ ~LoadPanics(mem, TRUE)
    BY <1>3 DEF Whole, LoadPanics, Agrees
  <2> QED BY <1>3, <2>1, LoadedAgrees DEF Finds
<1> QED BY <1>1, <1>2, <1>3

\* Who holds a list in which t dismisses somebody lists somebody.
LEMMA HoldsListed ==
  ASSUME NEW t, NEW r, Holds(t, r), NEW m, Held(m) = r
  PROVE  /\ t.kind = "remove" => m.mgr # Nil
         /\ t.kind = "removeSu" => m.su # Nil
<1>1. r.su = Entries(m.su) /\ r.mgr = Entries(m.mgr)
  BY DEF Held
<1>2. m.mgr = Nil => ~Has(r.mgr, t.code)
  BY <1>1, EmptyFacts DEF Has
<1>3. m.su = Nil => Range(r.su) = {}
  BY <1>1, EmptyFacts DEF Range
<1> QED BY <1>2, <1>3 DEF Holds

\* A transaction on a memory that knows all of the list in state or nothing.
LEMMA KnownStep ==
  ASSUME NEW t \in Transaction, Execute(t), GoodRegistry(registry),
         NEW h, Knows(mem, registry, h),
         t.kind \in {"remove", "removeSu"} => Holds(t, registry),
         t.kind \in SuKinds => mem.suMap # Nil /\ (mem.cached \/ h = Absent),
         t.kind = "op" => registry = h
  PROVE  \/ /\ Fell /\ h # Absent /\ t.kind \notin SuKinds
            /\ t.kind = "op" \/ (mem.suMap = Nil /\ ~Agrees(mem, registry))
         \/ Writes(t) /\ Served(t, registry)
         \/ /\ ~Writes(t) /\ Looks(t, registry) /\ Knows(mem', registry, h)
            /\ t.kind # "op" => Grows(mem, mem') /\ (Agrees(mem, registry) => Agrees(mem', registry))
<1>1. GoodMemory(mem) /\ Whole(mem, registry) /\ (h = Absent => Agrees(mem, registry))
  BY DEF Knows
<1>2. CASE t.kind = "add"
  <2>1. AddManager(Sudo, t.code, t.addr, TRUE, TRUE)
    BY <1>2, ExecuteFacts
  <2>2. (LoadPanics(mem, TRUE) => Fell) /\ (Finds(registry) => Served(t, registry))
    BY <1>1, <1>2, <2>1, AddServes
  <2> QED BY <1>2, <2>2, KnowsFinds DEF Writes, SuKinds
<1>3. CASE t.kind = "remove"
  <2>1. RemoveManager(Sudo, t.code, TRUE, TRUE)
    BY <1>3, ExecuteFacts
  <2>2. /\ LoadPanics(mem, TRUE) => Fell
        /\ Finds(registry) /\ Loaded(mem, TRUE).mgr # Nil => Served(t, registry)
    BY <1>1, <1>3, <2>1, RemoveServes
  <2>3. Finds(registry) => Loaded(mem, TRUE).mgr # Nil
    BY <1>3, HoldsListed DEF Finds, Agrees
  <2> QED BY <1>3, <2>2, <2>3, KnowsFinds DEF Writes, SuKinds
<1>4. CASE t.kind = "addSu"
  <2>1. AddSuManager(Sudo, t.addr, TRUE, TRUE)
    BY <1>4, ExecuteFacts
  <2>2. Agrees(mem, registry) /\ mem.suMap # Nil
    BY <1>1, <1>4 DEF Whole, SuKinds
  <2>3. Served(t, registry)
    BY <1>1, <1>4, <2>1, <2>2, AddSuServes
  <2> QED BY <1>4, <2>3 DEF Writes, SuKinds
<1>5. CASE t.kind = "removeSu"
  <2>1. RemoveSuManager(Sudo, t.addr, TRUE, TRUE)
    BY <1>5, ExecuteFacts
  <2>2. Agrees(mem, registry)
    BY <1>1, <1>5 DEF Whole, SuKinds
  <2>3. mem.su # Nil
    BY <1>5, <2>2, HoldsListed DEF Agrees
  <2>4. Served(t, registry)
    BY <1>1, <1>5, <2>1, <2>2, <2>3, RemoveSuServes
  <2> QED BY <1>5, <2>4 DEF Writes, SuKinds
<1>6. CASE t.kind = "op"
  <2>1. OperateManager(Sudo, 1, TRUE)
    BY <1>6, ExecuteFacts
  <2>2. \/ Fell /\ registry # Absent
        \/ Looks(t, registry) /\ Whole(mem', registry)
    BY <1>1, <1>6, <2>1, OpServes
  <2>3. ASSUME Looks(t, registry), Whole(mem', registry)
        PROVE  Knows(mem', registry, h)
    <3>1. GoodMemory(mem')
      BY <2>3 DEF Looks
    <3>2. h = Absent => Agrees(mem', registry)
      BY <1>6, <2>3, HoldingAgrees
    <3> QED BY <2>3, <3>1, <3>2 DEF Knows
  <2> QED BY <1>6, <2>2, <2>3 DEF Writes, SuKinds
<1>7. CASE t.kind = "use"
  <2>1. ConsultCrash(t.addr, TRUE) \/ Answered(t.addr, t.code, TRUE)
    BY <1>7, ExecuteFacts
  <2>2. /\ t.addr # Sudo /\ LoadPanics(mem, TRUE) => Fell
        /\ t.addr # Sudo /\ Finds(registry) => Asks(t, Loaded(mem, TRUE), registry)
        /\ t.addr = Sudo => Asks(t, mem, registry)
    BY <1>1, <1>7, <2>1, UseServes
  <2>3. ASSUME NEW m, Asks(t, m, registry), GoodMemory(m), Grows(mem, m),
               Whole(m, registry), Agrees(mem, registry) => Agrees(m, registry)
        PROVE  /\ Looks(t, registry) /\ Knows(mem', registry, h) /\ Grows(mem, mem')
               /\ Agrees(mem, registry) => Agrees(mem', registry)
    BY <1>1, <1>7, <2>3 DEF Asks, Looks, Knows
  <2>4. CASE t.addr # Sudo /\ Finds(registry)
    <3> DEFINE m == Loaded(mem, TRUE)
    <3>1. GoodMemory(m) /\ Agrees(m, registry)
      BY <1>1, <2>4, LoadedGood DEF Finds
    <3>2. Grows(mem, m)
      BY <1>1, LoadedGrows
    <3>3. Whole(m, registry)
      BY <3>1 DEF Whole
    <3>4. Asks(t, m, registry)
      BY <2>2, <2>4
    <3> HIDE DEF m
    <3> QED BY <1>7, <2>3, <3>1, <3>2, <3>3, <3>4 DEF Writes, SuKinds
  <2>5. CASE t.addr = Sudo
    <3>1. Grows(mem, mem)
      BY DEF Grows
    <3> QED BY <1>1, <1>7, <2>2, <2>3, <2>5, <3>1 DEF Writes, SuKinds
  <2>6. CASE t.addr # Sudo /\ LoadPanics(mem, TRUE)
    BY <1>7, <2>2, <2>6, KnowsFinds DEF SuKinds
  <2> QED BY <2>4, <2>5, <2>6, KnowsFinds
<1> QED BY <1>2, <1>3, <1>4, <1>5, <1>6, <1>7, TransactionFacts DEF Kind

\* A transaction on a memory that holds a list, whatever the state says.
LEMMA HeldStep ==
  ASSUME NEW t \in Transaction, Execute(t), GoodRegistry(registry), GoodMemory(mem),
         NEW r, Agrees(mem, r), mem.cached \/ registry \in {r, Absent},
         t.kind = "remove" => mem.cached /\ mem.mgr # Nil,
         t.kind \in SuKinds => mem.suMap # Nil,
         t.kind = "removeSu" => mem.su # Nil,
         t.kind # "op"
  PROVE  /\ Writes(t) => Served(t, r)
         /\ ~Writes(t) => Looks(t, r) /\ Agrees(mem', r) /\ Grows(mem, mem')
<1>1. Finds(r)
  BY AgreesFinds
<1>2. CASE t.kind = "add"
  <2>1. AddManager(Sudo, t.code, t.addr, TRUE, TRUE)
    BY <1>2, ExecuteFacts
  <2>2. Served(t, r)
    BY <1>1, <1>2, <2>1, AddServes
  <2> QED BY <1>2, <2>2 DEF Writes
<1>3. CASE t.kind = "remove"
  <2>1. RemoveManager(Sudo, t.code, TRUE, TRUE)
    BY <1>3, ExecuteFacts
  <2>2. Loaded(mem, TRUE).mgr # Nil
    BY <1>3 DEF Loaded
  <2>3. Served(t, r)
    BY <1>1, <1>3, <2>1, <2>2, RemoveServes
  <2> QED BY <1>3, <2>3 DEF Writes
<1>4. CASE t.kind = "addSu"
  <2>1. AddSuManager(Sudo, t.addr, TRUE, TRUE) /\ mem.suMap # Nil
    BY <1>4, ExecuteFacts DEF SuKinds
  <2>2. Served(t, r)
    BY <1>4, <2>1, AddSuServes
  <2> QED BY <1>4, <2>2 DEF Writes, SuKinds
<1>5. CASE t.kind = "removeSu"
  <2>1. RemoveSuManager(Sudo, t.addr, TRUE, TRUE)
    BY <1>5, ExecuteFacts
  <2>2. Served(t, r)
    BY <1>5, <2>1, RemoveSuServes
  <2> QED BY <1>5, <2>2 DEF Writes, SuKinds
<1>6. CASE t.kind = "use"
  <2>1. ConsultCrash(t.addr, TRUE) \/ Answered(t.addr, t.code, TRUE)
    BY <1>6, ExecuteFacts
  <2>2. Asks(t, Loaded(mem, TRUE), r) \/ Asks(t, mem, r)
    BY <1>1, <1>6, <2>1, UseServes
  <2>3. ASSUME NEW m, Asks(t, m, r), GoodMemory(m), Grows(mem, m), Agrees(m, r)
        PROVE  Looks(t, r) /\ Agrees(mem', r) /\ Grows(mem, mem')
    BY <1>6, <2>3 DEF Asks, Looks
  <2>4. /\ GoodMemory(Loaded(mem, TRUE)) /\ Agrees(Loaded(mem, TRUE), r)
        /\ Grows(mem, Loaded(mem, TRUE))
    BY <1>1, LoadedGood, LoadedGrows DEF Finds
  <2>5. Grows(mem, mem)
    BY DEF Grows
  <2> QED BY <1>6, <2>2, <2>3, <2>4, <2>5 DEF Writes, SuKinds
<1> QED BY <1>2, <1>3, <1>4, <1>5, <1>6, TransactionFacts DEF Kind

-----------------------------------------------------------------------------
(* What every transaction keeps, on whatever memory it is executed *)

\* Nothing but a write that goes through changes the list, and no transaction
\* changes the committed one.
LEMMA ExecuteWrites ==
  ASSUME NEW t \in Transaction, Execute(t)
  PROVE  /\ registryHead' = registryHead
         /\ registry' = registry \/ (Writes(t) /\ Passed)
<1>1. ASSUME NEW op, NEW m, NEW result, Unwritten(op, Sudo, m, result)
      PROVE  registry' = registry /\ registryHead' = registryHead
  BY <1>1 DEF Unwritten
<1>2. ASSUME NEW op, NEW m, SaveONSManager(op, Sudo, m, TRUE)
      PROVE  Passed /\ registryHead' = registryHead
  BY <1>2 DEF SaveONSManager, End, Passed, NoAnswer
<1>3. CASE t.kind = "add"
  BY <1>1, <1>2, <1>3, ExecuteFacts DEF AddManager, Refuse, Crash, Writes
<1>4. CASE t.kind = "remove"
  BY <1>1, <1>2, <1>4, ExecuteFacts DEF RemoveManager, Refuse, Crash, Writes
<1>5. CASE t.kind = "addSu"
  BY <1>1, <1>2, <1>5, ExecuteFacts DEF AddSuManager, Refuse, Crash, Writes
<1>6. CASE t.kind = "removeSu"
  BY <1>1, <1>2, <1>6, ExecuteFacts DEF RemoveSuManager, Refuse, Writes
<1>7. CASE t.kind = "op"
  BY <1>1, <1>7, ExecuteFacts DEF OperateManager, Crash
<1>8. CASE t.kind = "use"
  BY <1>8, ExecuteFacts DEF ConsultCrash, Crash, Unwritten, Answered
<1> QED BY <1>3, <1>4, <1>5, <1>6, <1>7, <1>8, TransactionFacts DEF Kind

\* Memory and lists stay good.
LEMMA ExecuteKeepsGood ==
  ASSUME GoodMemory(mem), GoodRegistry(registry), GoodRegistry(registryHead), txn \in Txn,
         NEW t \in Transaction, Execute(t)
  PROVE  GoodMemory(mem') /\ GoodRegistry(registry') /\ txn' \in Txn
<1>1. IInv /\ Sudo \in Address
  BY SudoAssumption DEF IInv
<1>2. IInv'
  <2>1. CASE t.kind = "add"
    BY <1>1, <2>1, ExecuteFacts, TransactionFacts, AddManagerKeeps
  <2>2. CASE t.kind = "remove"
    BY <1>1, <2>2, ExecuteFacts, TransactionFacts, RemoveManagerKeeps
  <2>3. CASE t.kind = "addSu"
    BY <1>1, <2>3, ExecuteFacts, TransactionFacts, AddSuManagerKeeps
  <2>4. CASE t.kind = "removeSu"
    BY <1>1, <2>4, ExecuteFacts, TransactionFacts, RemoveSuManagerKeeps
  <2>5. CASE t.kind = "op"
    BY <1>1, <2>5, ExecuteFacts, OperateManagerKeeps
  <2>6. CASE t.kind = "use"
    <3>1. UseTxn(t.addr, t.code, TRUE)
      BY <2>6, ExecuteFacts DEF UseTxn
    <3> QED BY <1>1, <2>6, <3>1, TransactionFacts, UseTxnKeeps
  <2> QED BY <2>1, <2>2, <2>3, <2>4, <2>5, <2>6, TransactionFacts DEF Kind
<1> QED BY <1>2 DEF IInv, GoodMemory, GoodRegistry, NoDuplicates, SuWithinMap, Memory, Registry,
                    Entries, Held, Injective, UniqueCodes, Entry, Txn, Op, Result, Answer

\* What a whole memory holds it knows all of.
LEMMA WholeHolds ==
  ASSUME NEW m, NEW r, Whole(m, r)
  PROVE  Agrees(m, Held(m))
<1>1. CASE Agrees(m, r)
  BY <1>1 DEF Agrees
<1>2. CASE Unknowing(m)
  BY <1>2, UnknowingAgrees DEF Agrees
<1> QED BY <1>1, <1>2 DEF Whole

\* A memory that is whole stays so, whether or not the transaction goes through.
LEMMA ExecuteKeepsWhole ==
  ASSUME GoodMemory(mem), GoodRegistry(registry), Whole(mem, registry),
         NEW t \in Transaction, Execute(t)
  PROVE  Whole(mem', registry')
<1>1. ASSUME NEW op, NEW m, NEW result, Unwritten(op, Sudo, m, result), Whole(m, registry)
      PROVE  Whole(mem', registry')
  BY <1>1 DEF Unwritten
<1>2. ASSUME NEW op, NEW by, Crash(op, by)
      PROVE  Whole(mem', registry')
  BY <1>2, FreshWhole DEF Crash, Unwritten
<1>3. ASSUME NEW op, NEW m, SaveONSManager(op, Sudo, m, TRUE), Agrees(m, Held(m))
      PROVE  Whole(mem', registry')
  BY <1>3, SaveIsWritten DEF Whole
<1>4. Agrees(mem, Held(mem))
  BY WholeHolds
<1>5. CASE t.kind = "add"
  <2> DEFINE m == Loaded(mem, TRUE)
             n == WithManager(m, t.code, t.addr)
  <2>1. \/ Crash("appoint", Sudo)
        \/ ~LoadPanics(mem, TRUE) /\ SaveONSManager("appoint", Sudo, n, TRUE)
    BY <1>5, ExecuteFacts DEF AddManager, Refuse
  <2>2. ~LoadPanics(mem, TRUE) => Agrees(m, registry) /\ GoodMemory(m)
    BY LoadedAgrees, LoadedGood
  <2> HIDE DEF m
  <2>3. ~LoadPanics(mem, TRUE) => Agrees(n, Held(n))
    BY <1>5, <2>2, TransactionFacts, WithManagerAgrees
  <2> HIDE DEF n
  <2> QED BY <1>2, <1>3, <2>1, <2>3
<1>6. CASE t.kind = "remove"
  <2> DEFINE m == Loaded(mem, TRUE)
             n == WithoutManager(m, t.code)
  <2>1. \/ Crash("dismiss", Sudo)
        \/ /\ ~LoadPanics(mem, TRUE)
           /\ \/ Unwritten("dismiss", Sudo, m, "internal")
              \/ m.mgr # Nil /\ SaveONSManager("dismiss", Sudo, n, TRUE)
    BY <1>6, ExecuteFacts DEF RemoveManager, Refuse
  <2>2. ~LoadPanics(mem, TRUE) => Agrees(m, registry) /\ GoodMemory(m)
    BY LoadedAgrees, LoadedGood
  <2> HIDE DEF m
  <2>3. ~LoadPanics(mem, TRUE) /\ m.mgr # Nil => Agrees(n, Held(n))
    BY <1>6, <2>2, TransactionFacts, WithoutManagerAgrees
  <2>4. ~LoadPanics(mem, TRUE) => Whole(m, registry)
    BY <2>2 DEF Whole
  <2> HIDE DEF n
  <2> QED BY <1>1, <1>2, <1>3, <2>1, <2>3, <2>4
<1>7. CASE t.kind = "addSu"
  <2> DEFINE n == WithSu(mem, t.addr)
  <2>1. \/ Crash("appoint", Sudo)
        \/ SaveONSManager("appoint", Sudo, mem, TRUE)
        \/ mem.suMap # Nil /\ SaveONSManager("appoint", Sudo, n, TRUE)
    BY <1>7, ExecuteFacts DEF AddSuManager, Refuse
  <2>2. mem.suMap # Nil => Agrees(n, Held(n))
    BY <1>4, <1>7, TransactionFacts, WithSuAgrees
  <2> HIDE DEF n
  <2> QED BY <1>2, <1>3, <1>4, <2>1, <2>2
<1>8. CASE t.kind = "removeSu"
  <2> DEFINE n == WithoutSu(mem, t.addr)
  <2>1. \/ Unwritten("dismiss", Sudo, mem, "internal")
        \/ mem.su # Nil /\ SaveONSManager("dismiss", Sudo, n, TRUE)
    BY <1>8, ExecuteFacts DEF RemoveSuManager, Refuse
  <2>2. mem.su # Nil => Agrees(n, Held(n))
    BY <1>4, <1>8, TransactionFacts, WithoutSuAgrees
  <2> HIDE DEF n
  <2> QED BY <1>1, <1>3, <2>1, <2>2
<1>9. CASE t.kind = "op"
  <2> DEFINE m == Cleared(mem)
  <2>1. \/ Crash("operate", Sudo)
        \/ ~LoadPanics(m, TRUE) /\ Unwritten("operate", Sudo, Loaded(m, TRUE), "ok")
    BY <1>9, ExecuteFacts DEF OperateManager, LoadFails
  <2>2. GoodMemory(m) /\ Whole(m, registry)
    BY ClearedGood, ClearedWhole
  <2> HIDE DEF m
  <2>3. ~LoadPanics(m, TRUE) => Whole(Loaded(m, TRUE), registry)
    BY <2>2, LoadedWhole
  <2> QED BY <1>1, <1>2, <2>1, <2>3
<1>10. CASE t.kind = "use"
  <2>1. \/ Crash("use", t.addr)
        \/ /\ ~ConsultPanics(t.addr, TRUE)
           /\ mem' = Consulted(t.addr, TRUE) /\ registry' = registry
    BY <1>10, ExecuteFacts DEF ConsultCrash, Answered
  <2>2. ~LoadPanics(mem, TRUE) => Whole(Loaded(mem, TRUE), registry)
    BY LoadedWhole
  <2> QED BY <1>2, <2>1, <2>2 DEF ConsultPanics, Consulted
<1> QED BY <1>5, <1>6, <1>7, <1>8, <1>9, <1>10, TransactionFacts DEF Kind

-----------------------------------------------------------------------------
(* The parts of the invariant, after a step *)

LEMMA TypedPrimed ==
  ASSUME GoodMemory(mem'), GoodRegistry(registry'), GoodRegistry(registryHead'), GoodRegistry(root'),
         txn' \in Txn,
         parked' \in [Validator -> Memory], \A v \in Validator : GoodMemory(parked'[v]),
         stage' \in {"idle", "building", "checking"},
         block' \in Seq(Transaction),
         \A i \in DOMAIN block' : block'[i].kind = "op" => Len(block') = 1,
         Plain(block') => registry' = registryHead' /\ (stage' = "checking" => root' = registryHead'),
         pos' \in 0..Len(block'),
         verdict' \in [Validator -> Verdict]
  PROVE  Typed'
<1>1. Plain(block)' => Plain(block')
  BY DEF Plain, Writes
<1> QED
  BY <1>1
     DEF Typed, GoodMemory, GoodRegistry, NoDuplicates, SuWithinMap, Memory, Registry, Entries,
         Held, Injective, UniqueCodes, Entry, Verdict, Txn, Op, Result, Answer

LEMMA WholePrimed ==
  ASSUME NEW v, Whole(parked'[v], registryHead')
  PROVE  Whole(parked[v], registryHead)'
  BY DEF Whole, Agrees, Unknowing, Fresh, NoManagers, Held, Entries, ManagerOf, Has, Find, Range

LEMMA TracePrimed ==
  ASSUME NEW lists, Trace(lists, block', registryHead')
  PROVE  Trace(lists, block, registryHead)'
  BY DEF Trace, Registry, Entry, Passes, Holds, Entitled, Effect, Listed, Unlisted, ListedSu, UnlistedSu,
         Has, Find, RemoveAt, Range, NoDuplicates, Injective, UniqueCodes, ManagerOf, Decides, DecidesSu

LEMMA BuiltPrimed ==
  ASSUME Built(mem', registry', block', registryHead')
  PROVE  Built(mem, registry, block, registryHead)'
  BY DEF Built, Knows, Plain, Writes, Rehearsed,
         GoodMemory, NoDuplicates, SuWithinMap, Memory, Injective, UniqueCodes, Entry,
         Whole, Agrees, Unknowing, Fresh, NoManagers, Held, Entries, ManagerOf, Has, Find, Range, Absent

-----------------------------------------------------------------------------
(* Blocks *)

\* A transaction is appended to the block.
LEMMA AppendFacts ==
  ASSUME NEW b \in Seq(Transaction), NEW t \in Transaction
  PROVE  /\ DOMAIN b = 1..Len(b) /\ Len(b) \in Nat
         /\ Append(b, t) \in Seq(Transaction)
         /\ Len(Append(b, t)) = Len(b) + 1
         /\ DOMAIN Append(b, t) = 1..(Len(b) + 1)
         /\ \A i \in 1..Len(b) : Append(b, t)[i] = b[i]
         /\ Append(b, t)[Len(b) + 1] = t
  BY AppendProperties, LenProperties

\* A block that begins.
LEMMA TraceBegins ==
  ASSUME NEW h, GoodRegistry(h)
  PROVE  Trace([i \in 0..0 |-> h], <<>>, h)
<1> DEFINE lists == [i \in 0..0 |-> h]
<1>1. Len(<<>>) = 0
  OBVIOUS
<1>2. lists \in [0..Len(<<>>) -> Registry]
  BY <1>1 DEF GoodRegistry
<1>3. \A i \in 0..Len(<<>>) : lists[i] = h
  BY <1>1
<1>4. 0 \in 0..Len(<<>>) /\ 1..Len(<<>>) = {}
  BY <1>1
<1> HIDE DEF lists
<1> QED BY <1>2, <1>3, <1>4 DEF Trace, GoodRegistry, lists

\* Every list on the way is a good one.
LEMMA TraceGood ==
  ASSUME NEW lists, NEW b, NEW h, Trace(lists, b, h), NEW i \in 0..Len(b)
  PROVE  GoodRegistry(lists[i])
  BY DEF Trace, GoodRegistry

\* A block that grows.
LEMMA TraceGrows ==
  ASSUME NEW lists, NEW b \in Seq(Transaction), NEW h, Trace(lists, b, h),
         NEW t \in Transaction, Passes(t, lists[Len(b)])
  PROVE  LET last == Effect(t, lists[Len(b)])
             n == Len(b) + 1
             new == [i \in 0..n |-> IF i = n THEN last ELSE lists[i]]
         IN  Trace(new, Append(b, t), h) /\ new[Len(Append(b, t))] = last
<1> DEFINE n == Len(b) + 1
           old == lists[Len(b)]
           last == Effect(t, old)
           new == [i \in 0..n |-> IF i = n THEN last ELSE lists[i]]
           bb == Append(b, t)
<1>1. /\ Len(b) \in Nat /\ Len(bb) = n /\ bb[n] = t
      /\ \A i \in 1..Len(b) : bb[i] = b[i]
  BY AppendFacts
<1>2. GoodRegistry(old) /\ GoodRegistry(last)
  <2>1. Len(b) \in 0..Len(b)
    BY <1>1
  <2> QED BY <2>1, TraceGood, EffectGood
<1>3. /\ new[n] = last /\ \A i \in 0..Len(b) : new[i] = lists[i]
      /\ DOMAIN new = 0..n
  BY <1>1
<1>4. new \in [0..n -> Registry]
  <2>1. \A i \in 0..Len(b) : lists[i] \in Registry
    BY DEF Trace
  <2>2. last \in Registry
    BY <1>2 DEF GoodRegistry
  <2> HIDE DEF last
  <2> QED BY <1>1, <2>1, <2>2
<1> HIDE DEF new, bb, last
<1>5. new[0] = h
  BY <1>1, <1>3 DEF Trace
<1>6. ASSUME NEW i \in 1..n
      PROVE  Passes(bb[i], new[i - 1]) /\ new[i] = Effect(bb[i], new[i - 1])
  <2>1. CASE i \in 1..Len(b)
    <3>1. new[i] = lists[i] /\ new[i - 1] = lists[i - 1] /\ bb[i] = b[i]
      BY <1>1, <1>3, <2>1
    <3>2. Passes(b[i], lists[i - 1]) /\ lists[i] = Effect(b[i], lists[i - 1])
      BY <2>1 DEF Trace
    <3> QED BY <3>1, <3>2
  <2>2. CASE i = n
    <3>1. new[i - 1] = old /\ bb[i] = t /\ new[i] = last
      BY <1>1, <1>3, <2>2
    <3> QED BY <3>1 DEF last
  <2> QED BY <1>1, <2>1, <2>2
<1>7. \A i \in 0..n : NoDuplicates(new[i])
  <2>1. \A i \in 0..Len(b) : NoDuplicates(lists[i])
    BY DEF Trace
  <2> QED BY <1>1, <1>2, <1>3, <2>1 DEF GoodRegistry
<1>8. ASSUME NEW j \in 0..n, NEW k \in 0..n, j <= k, NEW c \in Code
      PROVE  \/ ManagerOf(new[k])[c] = ManagerOf(new[j])[c]
             \/ \E i \in (j + 1)..k : Decides(bb[i], c, ManagerOf(new[k])[c])
  <2>1. ASSUME NEW q \in 0..Len(b), j <= q
        PROVE  \/ ManagerOf(new[q])[c] = ManagerOf(new[j])[c]
               \/ \E i \in (j + 1)..q : Decides(bb[i], c, ManagerOf(new[q])[c])
    <3>1. j \in 0..Len(b) /\ new[j] = lists[j] /\ new[q] = lists[q]
      BY <1>1, <1>3, <2>1
    <3>2. \A i \in (j + 1)..q : bb[i] = b[i]
      BY <1>1, <2>1
    <3>3. \/ ManagerOf(lists[q])[c] = ManagerOf(lists[j])[c]
          \/ \E i \in (j + 1)..q : Decides(b[i], c, ManagerOf(lists[q])[c])
      BY <2>1, <3>1 DEF Trace
    <3> QED BY <3>1, <3>2, <3>3
  <2>2. CASE k \in 0..Len(b)
    BY <1>8, <2>1, <2>2
  <2>3. CASE k = n /\ j = n
    BY <2>3
  <2>4. CASE k = n /\ j \in 0..Len(b)
    <3>1. new[k] = last /\ bb[n] = t /\ n \in (j + 1)..k /\ new[Len(b)] = old
      BY <1>1, <1>3, <2>4
    <3>2. ManagerOf(last)[c] = IF t.kind = "add" /\ t.code = c THEN t.addr
                               ELSE IF t.kind = "remove" /\ t.code = c THEN Nil
                               ELSE ManagerOf(old)[c]
      BY <1>2, EffectManagers DEF last
    <3>3. Decides(t, c, ManagerOf(last)[c]) \/ ManagerOf(last)[c] = ManagerOf(old)[c]
      BY <3>2 DEF Decides
    <3>4. \/ ManagerOf(old)[c] = ManagerOf(new[j])[c]
          \/ \E i \in (j + 1)..Len(b) : Decides(bb[i], c, ManagerOf(old)[c])
      <4>1. Len(b) \in 0..Len(b) /\ j <= Len(b)
        BY <1>1, <2>4
      <4> QED BY <2>1, <3>1, <4>1
    <3>5. \A i \in (j + 1)..Len(b) : i \in (j + 1)..k
      BY <1>1, <2>4
    <3> QED BY <3>1, <3>3, <3>4, <3>5
  <2> QED BY <1>1, <2>2, <2>3, <2>4
<1>9. ASSUME NEW j \in 0..n, NEW k \in 0..n, j <= k, NEW a \in Address
      PROVE  \/ a \in Range(new[k].su) <=> a \in Range(new[j].su)
             \/ \E i \in (j + 1)..k : DecidesSu(bb[i], a, a \in Range(new[k].su))
  <2>1. ASSUME NEW q \in 0..Len(b), j <= q
        PROVE  \/ a \in Range(new[q].su) <=> a \in Range(new[j].su)
               \/ \E i \in (j + 1)..q : DecidesSu(bb[i], a, a \in Range(new[q].su))
    <3>1. j \in 0..Len(b) /\ new[j] = lists[j] /\ new[q] = lists[q]
      BY <1>1, <1>3, <2>1
    <3>2. \A i \in (j + 1)..q : bb[i] = b[i]
      BY <1>1, <2>1
    <3>3. \/ a \in Range(lists[q].su) <=> a \in Range(lists[j].su)
          \/ \E i \in (j + 1)..q : DecidesSu(b[i], a, a \in Range(lists[q].su))
      BY <2>1, <3>1 DEF Trace
    <3> QED BY <3>1, <3>2, <3>3
  <2>2. CASE k \in 0..Len(b)
    BY <1>9, <2>1, <2>2
  <2>3. CASE k = n /\ j = n
    BY <2>3
  <2>4. CASE k = n /\ j \in 0..Len(b)
    <3>1. new[k] = last /\ bb[n] = t /\ n \in (j + 1)..k /\ new[Len(b)] = old
      BY <1>1, <1>3, <2>4
    <3>2. a \in Range(last.su) <=> IF t.kind = "addSu" /\ t.addr = a THEN TRUE
                                   ELSE IF t.kind = "removeSu" /\ t.addr = a THEN FALSE
                                   ELSE a \in Range(old.su)
      BY <1>2, EffectSuManagers DEF last
    <3>3. DecidesSu(t, a, a \in Range(last.su)) \/ (a \in Range(last.su) <=> a \in Range(old.su))
      BY <3>2 DEF DecidesSu
    <3>4. \/ a \in Range(old.su) <=> a \in Range(new[j].su)
          \/ \E i \in (j + 1)..Len(b) : DecidesSu(bb[i], a, a \in Range(old.su))
      <4>1. Len(b) \in 0..Len(b) /\ j <= Len(b)
        BY <1>1, <2>4
      <4> QED BY <2>1, <3>1, <4>1
    <3>5. \A i \in (j + 1)..Len(b) : i \in (j + 1)..k
      BY <1>1, <2>4
    <3>6. CASE DecidesSu(t, a, a \in Range(last.su))
      BY <3>1, <3>6
    <3>7. CASE a \in Range(last.su) <=> a \in Range(old.su)
      <4>1. CASE a \in Range(old.su) <=> a \in Range(new[j].su)
        BY <3>1, <3>7, <4>1
      <4>2. CASE \E i \in (j + 1)..Len(b) : DecidesSu(bb[i], a, a \in Range(old.su))
        <5>1. PICK i \in (j + 1)..Len(b) : DecidesSu(bb[i], a, a \in Range(old.su))
          BY <4>2
        <5>2. DecidesSu(bb[i], a, a \in Range(last.su))
          BY <3>7, <5>1 DEF DecidesSu
        <5> QED BY <3>1, <3>5, <5>2
      <4> QED BY <3>4, <4>1, <4>2
    <3> QED BY <3>3, <3>6, <3>7
  <2> QED BY <1>1, <2>2, <2>3, <2>4
<1>10. Trace(new, bb, h)
  BY <1>1, <1>4, <1>5, <1>6, <1>7, <1>8, <1>9 DEF Trace
<1> QED BY <1>1, <1>3, <1>10 DEF new, bb, last

-----------------------------------------------------------------------------
(* Building a block *)

\* A memory that grows stays rehearsed.
LEMMA RehearsedGrows ==
  ASSUME NEW m, NEW n, NEW b, NEW h, Rehearsed(m, b, h), Grows(m, n)
  PROVE  Rehearsed(n, b, h)
  BY DEF Rehearsed, Grows

\* A block gets one more transaction.
LEMMA PlainAppended ==
  ASSUME NEW b \in Seq(Transaction), NEW t \in Transaction
  PROVE  Plain(Append(b, t)) <=> Plain(b) /\ ~Writes(t)
<1>1. /\ DOMAIN Append(b, t) = 1..(Len(b) + 1) /\ DOMAIN b = 1..Len(b) /\ Len(b) \in Nat
      /\ \A i \in 1..Len(b) : Append(b, t)[i] = b[i]
      /\ Append(b, t)[Len(b) + 1] = t
  BY AppendFacts
<1>2. ASSUME NEW i \in DOMAIN Append(b, t)
      PROVE  (i \in DOMAIN b /\ Append(b, t)[i] = b[i]) \/ Append(b, t)[i] = t
  BY <1>1
<1>3. \A i \in DOMAIN b : i \in DOMAIN Append(b, t) /\ Append(b, t)[i] = b[i]
  BY <1>1
<1>4. Len(b) + 1 \in DOMAIN Append(b, t)
  BY <1>1
<1> QED BY <1>1, <1>2, <1>3, <1>4 DEF Plain

LEMMA RehearsedAppended ==
  ASSUME NEW m, NEW b \in Seq(Transaction), NEW h, NEW t \in Transaction,
         m.cached \/ h = Absent,
         Plain(b) \/ Rehearsed(m, b, h),
         t.kind = "remove" => m.cached /\ m.mgr # Nil,
         t.kind = "removeSu" => m.su # Nil
  PROVE  Rehearsed(m, Append(b, t), h)
<1>1. /\ DOMAIN Append(b, t) = 1..(Len(b) + 1) /\ DOMAIN b = 1..Len(b) /\ Len(b) \in Nat
      /\ \A i \in 1..Len(b) : Append(b, t)[i] = b[i]
      /\ Append(b, t)[Len(b) + 1] = t
  BY AppendFacts
<1>2. ASSUME NEW i \in DOMAIN Append(b, t)
      PROVE  (i \in DOMAIN b /\ Append(b, t)[i] = b[i]) \/ Append(b, t)[i] = t
  BY <1>1
<1>3. (\E i \in DOMAIN b : b[i].kind = "remove") => m.cached /\ m.mgr # Nil
  BY DEF Plain, Writes, Rehearsed
<1>4. (\E i \in DOMAIN b : b[i].kind = "removeSu") /\ h # Absent => m.su # Nil
  BY DEF Plain, Writes, SuKinds, Rehearsed
<1> QED BY <1>2, <1>3, <1>4 DEF Rehearsed

\* The publisher's memory after a transaction that writes.
LEMMA ServedBuilds ==
  ASSUME NEW b \in Seq(Transaction), NEW h, Built(mem, registry, b, h),
         NEW t \in Transaction, Writes(t), Served(t, registry),
         t.kind = "remove" => Holds(t, registry),
         t.kind \in SuKinds => mem.cached \/ h = Absent
  PROVE  Built(mem', registry', Append(b, t), h)
<1>1. /\ GoodMemory(mem') /\ Agrees(mem', registry') /\ Grows(mem, mem')
      /\ t.kind = "remove" => mem'.mgr # Nil
      /\ t.kind = "removeSu" => mem'.su # Nil
      /\ t.kind \in {"add", "remove"} => mem'.cached \/ registry = Absent
  BY DEF Served
<1>2. (Plain(b) => registry = h) /\ (~Plain(b) => Rehearsed(mem, b, h))
  BY DEF Built
<1>3. Knows(mem', registry', h)
  BY <1>1 DEF Knows, Whole
<1>4. ~Plain(Append(b, t))
  BY PlainAppended
<1>5. mem'.cached \/ h = Absent
  <2>1. CASE t.kind \in SuKinds
    BY <1>1, <2>1 DEF Grows
  <2>2. CASE t.kind \in {"add", "remove"} /\ Plain(b)
    BY <1>1, <1>2, <2>2
  <2>3. CASE ~Plain(b)
    BY <1>1, <1>2, <2>3 DEF Rehearsed, Grows
  <2> QED BY <2>1, <2>2, <2>3 DEF Writes, SuKinds
<1>6. t.kind = "remove" => mem'.cached
  <2>1. t.kind = "remove" => Has(registry.mgr, t.code)
    BY DEF Holds
  <2>2. ~Has(Absent.mgr, t.code)
    BY DEF Has, Absent
  <2> QED BY <1>1, <2>1, <2>2
<1>7. Plain(b) \/ Rehearsed(mem', b, h)
  BY <1>1, <1>2, RehearsedGrows
<1>8. Rehearsed(mem', Append(b, t), h)
  BY <1>1, <1>5, <1>6, <1>7, RehearsedAppended
<1> QED BY <1>1, <1>3, <1>4, <1>8 DEF Built

\* After one that does not.
LEMMA LookedBuilds ==
  ASSUME NEW b \in Seq(Transaction), NEW h, Built(mem, registry, b, h),
         NEW t \in Transaction, ~Writes(t),
         registry' = registry, Knows(mem', registry, h),
         t.kind = "op" => b = <<>>,
         t.kind # "op" => Grows(mem, mem') /\ (Agrees(mem, registry) => Agrees(mem', registry)),
         NEW bb \in {b, Append(b, t)}
  PROVE  Built(mem', registry', bb, h)
<1>1. Plain(bb) <=> Plain(b)
  BY PlainAppended
<1>2. CASE Plain(b)
  BY <1>1, <1>2 DEF Built
<1>3. CASE ~Plain(b)
  <2>1. t.kind # "op"
    BY <1>3 DEF Plain
  <2>2. /\ Rehearsed(mem', b, h) /\ Agrees(mem', registry)
        /\ t.kind \notin {"remove", "removeSu"}
    BY <1>3, <2>1, RehearsedGrows DEF Built, Writes
  <2>3. mem'.cached \/ h = Absent
    BY <2>2 DEF Rehearsed
  <2>4. Rehearsed(mem', bb, h)
    BY <2>2, <2>3, RehearsedAppended
  <2> QED BY <1>1, <1>3, <2>2, <2>4 DEF Built
<1> QED BY <1>2, <1>3

\* After a panic.
LEMMA FellBuilds ==
  ASSUME NEW b, NEW h, Built(mem, registry, b, h), Fell, h # Absent,
         b = <<>> \/ ~Agrees(mem, registry)
  PROVE  Built(mem', registry', b, h)
<1>1. mem' = Fresh /\ registry' = registry
  BY DEF Fell
<1>2. Plain(b)
  BY DEF Built, Plain
<1>3. registry = h
  BY <1>2 DEF Built
<1>4. Knows(Fresh, registry, h)
  BY FreshGood, FreshWhole DEF Knows
<1> QED BY <1>1, <1>2, <1>3, <1>4 DEF Built

\* The invariant after a step that leaves a block being built.
LEMMA BuildingPrimed ==
  ASSUME Typed', stage' = "building",
         worker' \in Validator, publisher' = worker', pos' = 0, verdict' = NoVerdict,
         \A v \in Validator \ (astray' \cup {worker'}) : Whole(parked'[v], registryHead'),
         worker' \notin astray' => \E lists :
           /\ Trace(lists, block', registryHead')
           /\ registry' = lists[Len(block')]
           /\ Built(mem', registry', block', registryHead')
  PROVE  ReplicaInv'
<1>1. \A v \in Validator \ (astray' \cup {worker'}) : Whole(parked[v], registryHead)'
  BY WholePrimed
<1>2. Building'
  BY <1>1 DEF Building, Others, NoVerdict
<1>3. worker' \notin astray' => \E lists : Leads(lists)'
  BY TracePrimed, BuiltPrimed DEF Leads
<1> QED BY <1>2, <1>3 DEF ReplicaInv

\* A transaction that the operator sends.
LEMMA IncludeKeeps ==
  ASSUME ReplicaInv, NEW t \in Transaction, Include(t)
  PROVE  ReplicaInv'
<1> DEFINE h == registryHead
<1>1. /\ stage = "building" /\ Sendable(t) /\ Execute(t)
      /\ block' = IF Passed THEN Append(block, t) ELSE block
      /\ astray' = Exposed(t)
      /\ UNCHANGED <<stage, worker, publisher, root, pos, parked, verdict>>
  BY DEF Include
<1>2. Typed
  BY DEF ReplicaInv
<1>3. /\ worker \in Validator /\ publisher = worker /\ pos = 0 /\ verdict = NoVerdict
      /\ \A v \in Validator \ (astray \cup {worker}) : Whole(parked[v], h)
      /\ worker \notin astray => \E lists : Leads(lists)
  BY <1>1 DEF ReplicaInv, Building, Others
<1>4. /\ GoodMemory(mem) /\ GoodRegistry(registry) /\ GoodRegistry(registryHead) /\ txn \in Txn
      /\ block \in Seq(Transaction)
      /\ Plain(block) => registry = h
  BY <1>2 DEF Typed
<1>5. GoodMemory(mem') /\ GoodRegistry(registry') /\ txn' \in Txn /\ registryHead' = h
  BY <1>1, <1>4, ExecuteKeepsGood, ExecuteWrites
<1>6. registry' = registry \/ (Writes(t) /\ Passed)
  BY <1>1, ExecuteWrites
<1>7. /\ t.kind \in {"remove", "removeSu"} => Holds(t, registry)
      /\ t.kind = "op" => block = <<>>
      /\ \A i \in DOMAIN block : block[i].kind # "op"
  BY <1>1 DEF Sendable
<1>8. /\ astray \subseteq astray'
      /\ worker \notin astray' =>
           (t.kind \in SuKinds => mem.suMap # Nil /\ (mem.cached \/ h = Absent))
  BY <1>1 DEF Exposed, Unready, Ready, SuKinds
<1>9. Plain(block') => registry' = h
  BY <1>1, <1>4, <1>6, PlainAppended
<1> HIDE DEF h
<1>10. /\ DOMAIN block = 1..Len(block) /\ Len(block) \in Nat
       /\ Append(block, t) \in Seq(Transaction)
       /\ Len(Append(block, t)) = Len(block) + 1
       /\ DOMAIN Append(block, t) = 1..(Len(block) + 1)
       /\ \A i \in 1..Len(block) : Append(block, t)[i] = block[i]
       /\ Append(block, t)[Len(block) + 1] = t
  BY <1>4, AppendFacts
<1>11. block' \in Seq(Transaction) /\ Len(block') \in Nat
  BY <1>1, <1>4, <1>10
<1>12. ASSUME NEW i \in DOMAIN block', block'[i].kind = "op"
       PROVE  Len(block') = 1
  <2>1. CASE block' = block
    BY <1>7, <1>12, <2>1
  <2>2. CASE block' = Append(block, t)
    <3>1. t.kind = "op"
      BY <1>7, <1>10, <1>12, <2>2
    <3>2. Len(block) = 0
      BY <1>7, <3>1
    <3> QED BY <1>10, <2>2, <3>2
  <2> QED BY <1>1, <2>1, <2>2
<1>13. Typed'
  <2>1. pos' \in 0..Len(block')
    BY <1>1, <1>3, <1>11
  <2> QED BY <1>1, <1>2, <1>4, <1>5, <1>9, <1>11, <1>12, <2>1, TypedPrimed DEF Typed, h
<1>14. ASSUME worker \notin astray'
       PROVE  \E new : /\ Trace(new, block', h) /\ registry' = new[Len(block')]
                       /\ Built(mem', registry', block', h)
  <2>1. PICK lists : Leads(lists)
    BY <1>3, <1>8, <1>14
  <2>2. Trace(lists, block, h) /\ registry = lists[Len(block)] /\ Built(mem, registry, block, h)
    BY <2>1 DEF Leads, h
  <2>3. block = <<>> => registry = h
    BY <2>2 DEF Trace
  <2>4. \/ /\ Fell /\ h # Absent
           /\ t.kind = "op" \/ ~Agrees(mem, registry)
        \/ Writes(t) /\ Served(t, registry)
        \/ /\ ~Writes(t) /\ Looks(t, registry) /\ Knows(mem', registry, h)
           /\ t.kind # "op" => Grows(mem, mem') /\ (Agrees(mem, registry) => Agrees(mem', registry))
    <3>1. Knows(mem, registry, h)
      BY <2>2 DEF Built
    <3> QED BY <1>1, <1>4, <1>7, <1>8, <1>14, <2>3, <3>1, KnownStep
  <2>5. /\ Passed => Passes(t, registry) /\ registry' = Effect(t, registry)
        /\ ~Passed => registry' = registry
        /\ Built(mem', registry', block', h)
    <3>1. CASE /\ Fell /\ h # Absent
               /\ t.kind = "op" \/ ~Agrees(mem, registry)
      <4>1. Built(mem', registry', block, h)
        BY <1>7, <2>2, <3>1, FellBuilds
      <4> QED BY <1>1, <3>1, <4>1 DEF Fell
    <3>2. CASE Writes(t) /\ Served(t, registry)
      <4>1. Built(mem', registry', Append(block, t), h)
        BY <1>4, <1>7, <1>8, <1>14, <2>2, <3>2, ServedBuilds
      <4>2. t.kind # "use"
        BY <3>2 DEF Writes
      <4> QED BY <1>1, <1>7, <3>2, <4>1, <4>2 DEF Served, Passes
    <3>3. CASE /\ ~Writes(t) /\ Looks(t, registry) /\ Knows(mem', registry, h)
               /\ t.kind # "op" => Grows(mem, mem') /\ (Agrees(mem, registry) => Agrees(mem', registry))
      <4>1. \A bb \in {block, Append(block, t)} : Built(mem', registry', bb, h)
        BY <1>4, <1>7, <2>2, <3>3, LookedBuilds DEF Looks
      <4>2. Effect(t, registry) = registry
        BY <1>4, <3>3, EffectOfReading
      <4>3. Passed => Passes(t, registry)
        BY <1>7, <3>3 DEF Looks, Passes
      <4> QED BY <1>1, <3>3, <4>1, <4>2, <4>3 DEF Looks
    <3> QED BY <2>4, <3>1, <3>2, <3>3
  <2>6. CASE Passed
    BY <1>1, <1>4, <2>2, <2>5, <2>6, TraceGrows
  <2>7. CASE ~Passed
    BY <1>1, <2>2, <2>5, <2>7
  <2> QED BY <2>6, <2>7
<1>15. \A v \in Validator \ (astray' \cup {worker}) : Whole(parked[v], h)
  BY <1>3, <1>8
<1> QED BY <1>1, <1>3, <1>5, <1>13, <1>14, <1>15, BuildingPrimed

-----------------------------------------------------------------------------
(* Runs begin and end *)

\* The parts of the invariant about a block that is being checked.
LEMMA AtWorkPrimed ==
  ASSUME NEW lists,
         AtWork(mem', registry', lists, block', registryHead', pos', worker' = publisher')
  PROVE  AtWork(mem, registry, lists, block, registryHead, pos, worker = publisher)'
  BY DEF AtWork, Ahead, Knows, Rehearsed, Plain, Writes, SuKinds, Touched, TouchedSu,
         Stays, Begins, GoodMemory, NoDuplicates, SuWithinMap, Memory, Injective, UniqueCodes, Entry,
         Whole, Agrees, Unknowing, Fresh, NoManagers, Held, Entries, ManagerOf, Has, Find, Range, Absent

LEMMA WholeRootPrimed ==
  ASSUME NEW v, Whole(parked'[v], root')
  PROVE  Whole(parked[v], root)'
  BY DEF Whole, Agrees, Unknowing, Fresh, NoManagers, Held, Entries, ManagerOf, Has, Find, Range

LEMMA WholeWorkerPrimed ==
  ASSUME Whole(mem', registry')
  PROVE  Whole(mem, registry)'
  BY DEF Whole, Agrees, Unknowing, Fresh, NoManagers, Held, Entries, ManagerOf, Has, Find, Range

LEMMA OutdatedPrimed ==
  ASSUME Outdated(block', pos')
  PROVE  Outdated(block, pos)'
  BY DEF Outdated, Unseats

LEMMA PlainPrimed == Plain(block)' => Plain(block')
  BY DEF Plain, Writes

\* The invariant after a step that leaves a block being checked.
LEMMA CheckingPrimed ==
  ASSUME Typed', stage' = "checking", worker' \in Validator, publisher' \in Validator,
         verdict'[worker'] = "accepts" => pos' = Len(block') /\ registry' = root',
         worker' \notin astray' /\ worker' # publisher' => Whole(mem', registry'),
         \A v \in Validator \ (astray' \cup {worker'}) :
           /\ verdict'[v] = "none" /\ v # publisher' => Whole(parked'[v], registryHead')
           /\ verdict'[v] # "none" /\ (Plain(block') \/ verdict'[v] = "accepts") =>
                Whole(parked'[v], root'),
         publisher' \notin astray' => \E lists :
           /\ Trace(lists, block', registryHead')
           /\ root' = lists[Len(block')]
           /\ worker' \notin astray' =>
                /\ AtWork(mem', registry', lists, block', registryHead', pos', worker' = publisher')
                /\ verdict'[worker'] # "none" /\ pos' < Len(block') =>
                     worker' = publisher' /\ Outdated(block', pos')
           /\ worker' # publisher' /\ verdict'[publisher'] = "none" =>
                \/ Built(parked'[publisher'], root', block', registryHead')
                \/ Knows(parked'[publisher'], registryHead', registryHead')
  PROVE  ReplicaInv'
<1>1. \A v \in Validator \ (astray' \cup {worker'}) :
        /\ verdict'[v] = "none" /\ v # publisher' => Whole(parked[v], registryHead)'
        /\ verdict'[v] # "none" /\ (Plain(block)' \/ verdict'[v] = "accepts") => Whole(parked[v], root)'
  BY WholePrimed, WholeRootPrimed, PlainPrimed
<1>2. Checking'
  BY <1>1, WholeWorkerPrimed DEF Checking, Others
<1>3. publisher' \notin astray' => \E lists : Follows(lists)'
  <2> SUFFICES ASSUME publisher' \notin astray' PROVE \E lists : Follows(lists)'
    OBVIOUS
  <2>1. PICK lists :
          /\ Trace(lists, block', registryHead')
          /\ root' = lists[Len(block')]
          /\ worker' \notin astray' =>
               /\ AtWork(mem', registry', lists, block', registryHead', pos', worker' = publisher')
               /\ verdict'[worker'] # "none" /\ pos' < Len(block') =>
                    worker' = publisher' /\ Outdated(block', pos')
          /\ worker' # publisher' /\ verdict'[publisher'] = "none" =>
               \/ Built(parked'[publisher'], root', block', registryHead')
               \/ Knows(parked'[publisher'], registryHead', registryHead')
    OBVIOUS
  <2>2. Trace(lists, block, registryHead)'
    BY <2>1, TracePrimed
  <2>3. worker' \notin astray' =>
          /\ AtWork(mem, registry, lists, block, registryHead, pos, worker = publisher)'
          /\ verdict'[worker'] # "none" /\ pos' < Len(block') =>
               worker' = publisher' /\ Outdated(block, pos)'
    BY <2>1, AtWorkPrimed, OutdatedPrimed
  <2>4. worker' # publisher' /\ verdict'[publisher'] = "none" =>
          \/ Built(parked[publisher], root, block, registryHead)'
          \/ Knows(parked[publisher], registryHead, registryHead)'
    <3>1. Built(parked'[publisher'], root', block', registryHead') =>
            Built(parked[publisher], root, block, registryHead)'
      BY DEF Built, Knows, Plain, Writes, Rehearsed,
             GoodMemory, NoDuplicates, SuWithinMap, Memory, Injective, UniqueCodes, Entry, Whole,
             Agrees, Unknowing, Fresh, NoManagers, Held, Entries, ManagerOf, Has, Find, Range, Absent
    <3>2. Knows(parked'[publisher'], registryHead', registryHead') =>
            Knows(parked[publisher], registryHead, registryHead)'
      BY DEF Knows, GoodMemory, NoDuplicates, SuWithinMap, Memory, Injective, UniqueCodes, Entry, Whole,
             Agrees, Unknowing, Fresh, NoManagers, Held, Entries, ManagerOf, Has, Find, Range, Absent
    <3> QED BY <2>1, <3>1, <3>2
  <2>5. Follows(lists)'
    BY <2>1, <2>2, <2>3, <2>4 DEF Follows
  <2> QED BY <2>5
<1> QED BY <1>2, <1>3 DEF ReplicaInv

\* The invariant after a step that leaves all processors idle.
LEMMA IdlePrimed ==
  ASSUME Typed', stage' = "idle", block' = <<>>, verdict' = NoVerdict,
         \A v \in Validator \ astray' : Whole(parked'[v], registryHead')
  PROVE  ReplicaInv'
<1>1. \A v \in Validator \ astray' : Whole(parked[v], registryHead)'
  BY WholePrimed
<1>2. Idle'
  BY <1>1 DEF Idle, NoVerdict
<1> QED BY <1>2 DEF ReplicaInv

\* Who knows all or nothing of the committed list.
LEMMA WholeKnows ==
  ASSUME NEW m, NEW h, GoodMemory(m), Whole(m, h)
  PROVE  Knows(m, h, h)
<1>1. h = Absent => Agrees(m, h)
  BY HoldingAgrees
<1> QED BY <1>1 DEF Knows

\* A processor at the beginning of its run.
LEMMA AtWorkBegins ==
  ASSUME NEW b \in Seq(Transaction), NEW h, NEW lists, Trace(lists, b, h), NEW m,
         NEW own \in BOOLEAN,
         Knows(m, h, h) \/ (own /\ Built(m, lists[Len(b)], b, h))
  PROVE  AtWork(m, h, lists, b, h, 0, own)
<1> DEFINE last == lists[Len(b)]
<1>1. lists[0] = h
  BY DEF Trace
<1>2. CASE Knows(m, h, h)
  BY <1>1, <1>2 DEF AtWork
<1>3. CASE own /\ Built(m, last, b, h) /\ ~Plain(b)
  <2>1. /\ GoodMemory(m) /\ Agrees(m, last) /\ Held(m) = last
        /\ Rehearsed(m, b, h)
    BY <1>3 DEF Built, Knows, Agrees
  <2>2. ~\E i \in 1..0 : Writes(b[i])
    OBVIOUS
  <2>3. \A c : ~Touched(b, 0, c) /\ ~TouchedSu(b, 0, c)
    BY DEF Touched, TouchedSu
  <2>4. Begins(last, last)
    BY DEF Begins
  <2> HIDE DEF last
  <2>5. Ahead(m, h, lists, b, h, 0)
    BY <2>1, <2>2, <2>3, <2>4 DEF Ahead, last
  <2> QED BY <1>3, <2>5 DEF AtWork
<1>4. CASE own /\ Built(m, last, b, h) /\ Plain(b)
  BY <1>1, <1>4 DEF Built, AtWork
<1> QED BY <1>2, <1>3, <1>4

\* At the end of a run that led to the publisher's list.
LEMMA AtWorkEnds ==
  ASSUME NEW b \in Seq(Transaction), NEW h, NEW lists, NEW m, NEW r, NEW own,
         AtWork(m, r, lists, b, h, Len(b), own)
  PROVE  Whole(m, r)
<1>1. CASE own /\ ~Plain(b) /\ Ahead(m, r, lists, b, h, Len(b))
  <2>1. \E i \in 1..Len(b) : Writes(b[i])
    BY <1>1, LenProperties DEF Plain
  <2>2. Agrees(m, r)
    BY <1>1, <2>1 DEF Ahead
  <2> QED BY <2>2 DEF Whole
<1>2. CASE Knows(m, r, h)
  BY <1>2 DEF Knows
<1> QED BY <1>1, <1>2 DEF AtWork

\* The memories of all processors.
LEMMA MemoriesFacts ==
  ASSUME Typed, worker \in Validator
  PROVE  /\ Memories \in [Validator -> Memory]
         /\ \A v \in Validator : GoodMemory(Memories[v])
         /\ Memories[worker] = mem
         /\ \A v \in Validator \ {worker} : Memories[v] = parked[v]
<1>1. /\ GoodMemory(mem) /\ parked \in [Validator -> Memory]
      /\ \A v \in Validator : GoodMemory(parked[v])
  BY DEF Typed
<1>2. mem \in Memory
  BY <1>1 DEF GoodMemory
<1> QED BY <1>1, <1>2 DEF Memories

\* The memories of the sound processors that have said what they think of the
\* block, if it is accepted or writes nothing.
LEMMA SpokenWhole ==
  ASSUME ReplicaInv, stage = "checking", NEW v \in Validator, v \notin astray,
         v = worker \/ verdict[v] # "none",
         Plain(block) \/ verdict[v] = "accepts"
  PROVE  Whole(Memories[v], root)
<1>1. Typed /\ Checking /\ (publisher \notin astray => \E lists : Follows(lists))
  BY DEF ReplicaInv
<1>2. Memories[worker] = mem /\ \A u \in Validator \ {worker} : Memories[u] = parked[u]
  BY <1>1, MemoriesFacts DEF Checking
<1>3. CASE v # worker
  BY <1>1, <1>2, <1>3 DEF Checking, Others
<1>4. CASE v = worker
  <2>1. registry = root
    BY <1>1, <1>4 DEF Checking, Typed
  <2>2. CASE worker # publisher
    BY <1>1, <1>2, <1>4, <2>1, <2>2 DEF Checking
  <2>3. CASE worker = publisher
    <3>1. PICK lists : Follows(lists)
      BY <1>1, <1>4, <2>3
    <3>2. AtWork(mem, registry, lists, block, registryHead, pos, worker = publisher)
      BY <1>4, <3>1 DEF Follows
    <3>3. CASE Plain(block)
      BY <1>2, <1>4, <2>1, <3>2, <3>3 DEF AtWork, Knows
    <3>4. CASE verdict[v] = "accepts"
      <4>1. pos = Len(block) /\ block \in Seq(Transaction)
        BY <1>1, <1>4, <3>4 DEF Checking, Typed
      <4> QED BY <1>2, <1>4, <2>1, <3>2, <4>1, AtWorkEnds
    <3> QED BY <3>3, <3>4
  <2> QED BY <2>2, <2>3
<1> QED BY <1>3, <1>4

\* The memories of the sound processors that know nothing of the block.
LEMMA UninvolvedWhole ==
  ASSUME ReplicaInv, NEW v \in Validator, v \notin astray, v # worker,
         stage # "idle", Plain(block) \/ v \notin Involved
  PROVE  Whole(Memories[v], registryHead)
<1>1. Typed /\ stage \in {"building", "checking"}
  BY DEF ReplicaInv, Typed
<1>2. CASE stage = "building"
  <2>1. worker \in Validator /\ Whole(parked[v], registryHead)
    BY <1>2 DEF ReplicaInv, Building, Others
  <2> QED BY <1>1, <2>1, MemoriesFacts
<1>3. CASE stage = "checking"
  <2>1. Checking /\ (publisher \notin astray => \E lists : Follows(lists))
    BY <1>3 DEF ReplicaInv
  <2>2. Memories[v] = parked[v]
    BY <1>1, <2>1, MemoriesFacts DEF Checking
  <2>3. CASE verdict[v] = "none" /\ v # publisher
    BY <2>1, <2>2, <2>3 DEF Checking, Others
  <2>4. CASE verdict[v] # "none"
    <3>1. Plain(block)
      BY <2>4 DEF Involved
    <3>2. root = registryHead
      BY <1>1, <1>3, <3>1 DEF Typed
    <3> QED BY <1>3, <2>4, <3>1, <3>2, SpokenWhole
  <2>5. CASE verdict[v] = "none" /\ v = publisher
    <3>1. Plain(block)
      BY <2>5 DEF Involved
    <3>2. PICK lists : Follows(lists)
      BY <2>1, <2>5
    <3>3. \/ Built(parked[v], root, block, registryHead)
          \/ Knows(parked[v], registryHead, registryHead)
      BY <2>5, <3>2 DEF Follows
    <3> QED BY <2>2, <3>1, <3>3 DEF Built, Knows
  <2> QED BY <2>3, <2>4, <2>5
<1> QED BY <1>1, <1>2, <1>3

\* The processor of v goes to work.
LEMMA StartRunFacts ==
  ASSUME NEW v \in Validator, NEW memories \in [Validator -> Memory],
         \A u \in Validator : GoodMemory(memories[u]), StartRun(v, memories)
  PROVE  /\ worker' = v /\ mem' = memories[v] /\ GoodMemory(mem')
         /\ registry' = registryHead /\ registryHead' = registryHead /\ txn' \in Txn
         /\ parked' \in [Validator -> Memory] /\ \A u \in Validator : GoodMemory(parked'[u])
         /\ \A u \in Validator \ {v} : parked'[u] = memories[u]
<1>1. /\ worker' = v /\ mem' = memories[v]
      /\ registry' = registryHead /\ registryHead' = registryHead
      /\ parked' = [memories EXCEPT ![v] = Fresh]
      /\ txn' = NoTxn
  BY DEF StartRun
<1>2. Fresh \in Memory /\ GoodMemory(Fresh)
  BY FreshGood DEF GoodMemory
<1>3. NoTxn \in Txn
  BY DEF NoTxn, Txn, Op, Result, NoAnswer
<1> HIDE DEF Fresh
<1> QED BY <1>1, <1>2, <1>3

\* A validator begins to build a block.
LEMMA BuildKeeps ==
  ASSUME ReplicaInv, NEW v \in Validator, Build(v)
  PROVE  ReplicaInv'
<1> DEFINE lists == [i \in 0..0 |-> registryHead]
<1>1. /\ Typed /\ block = <<>> /\ verdict = NoVerdict
      /\ \A u \in Validator \ astray : Whole(parked[u], registryHead)
  BY DEF ReplicaInv, Build, Idle
<1>2. /\ stage' = "building" /\ publisher' = v /\ StartRun(v, parked)
      /\ UNCHANGED <<block, root, pos, verdict, astray>>
  BY DEF Build
<1>3. /\ worker' = v /\ mem' = parked[v] /\ GoodMemory(mem')
      /\ registry' = registryHead /\ registryHead' = registryHead /\ txn' \in Txn
      /\ parked' \in [Validator -> Memory] /\ \A u \in Validator : GoodMemory(parked'[u])
      /\ \A u \in Validator \ {v} : parked'[u] = parked[u]
  BY <1>1, <1>2, StartRunFacts DEF Typed
<1>4. Len(<<>>) = 0 /\ DOMAIN <<>> = {}
  OBVIOUS
<1>5. pos = 0
  BY <1>1, <1>4 DEF Typed
<1>6. Typed'
  BY <1>1, <1>2, <1>3, <1>4, <1>5, TypedPrimed DEF Typed
<1>7. Trace(lists, <<>>, registryHead) /\ lists[0] = registryHead
  BY <1>1, TraceBegins DEF Typed
<1>8. Plain(<<>>)
  BY <1>4 DEF Plain
<1> HIDE DEF lists
<1>9. v \notin astray => Built(mem', registryHead, <<>>, registryHead)
  BY <1>1, <1>3, <1>8, WholeKnows DEF Built
<1>10. \A u \in Validator \ (astray' \cup {v}) : Whole(parked'[u], registryHead)
  BY <1>1, <1>2, <1>3
<1> QED BY <1>1, <1>2, <1>3, <1>4, <1>5, <1>6, <1>7, <1>9, <1>10, BuildingPrimed

\* The block is published.
LEMMA PublishKeeps ==
  ASSUME ReplicaInv, Publish
  PROVE  ReplicaInv'
<1>1. /\ stage = "building" /\ stage' = "checking" /\ root' = registry
      /\ UNCHANGED <<publisher, block, pos, verdict, astray>>
  BY DEF Publish
<1>2. PICK v \in Validator : StartRun(v, Memories)
  BY DEF Publish
<1>3. Typed /\ Building /\ (worker \notin astray => \E lists : Leads(lists))
  BY <1>1 DEF ReplicaInv
<1>4. /\ worker \in Validator /\ publisher = worker /\ pos = 0 /\ verdict = NoVerdict
      /\ \A u \in Validator \ (astray \cup {worker}) : Whole(parked[u], registryHead)
  BY <1>3 DEF Building, Others
<1>5. /\ Memories \in [Validator -> Memory] /\ \A u \in Validator : GoodMemory(Memories[u])
      /\ Memories[worker] = mem /\ \A u \in Validator \ {worker} : Memories[u] = parked[u]
  BY <1>3, <1>4, MemoriesFacts
<1>6. /\ worker' = v /\ mem' = Memories[v] /\ GoodMemory(mem')
      /\ registry' = registryHead /\ registryHead' = registryHead /\ txn' \in Txn
      /\ parked' \in [Validator -> Memory] /\ \A u \in Validator : GoodMemory(parked'[u])
      /\ \A u \in Validator \ {v} : parked'[u] = Memories[u]
  BY <1>2, <1>5, StartRunFacts
<1>7. Typed'
  BY <1>1, <1>3, <1>6, TypedPrimed DEF Typed
<1>8. \A u \in Validator : verdict'[u] = "none"
  BY <1>1, <1>4 DEF NoVerdict
<1>9. \A u \in Validator \ astray : u # publisher => Knows(Memories[u], registryHead, registryHead)
  BY <1>4, <1>5, WholeKnows
<1>10. ASSUME publisher \notin astray
       PROVE  \E lists :
                /\ Trace(lists, block, registryHead)
                /\ root' = lists[Len(block)]
                /\ v \notin astray =>
                     AtWork(mem', registryHead, lists, block, registryHead, 0, v = publisher)
                /\ v # publisher => Built(parked'[publisher], root', block, registryHead)
  <2>1. PICK lists : Leads(lists)
    BY <1>3, <1>4, <1>10
  <2>2. /\ Trace(lists, block, registryHead) /\ root' = lists[Len(block)]
        /\ Built(Memories[publisher], root', block, registryHead)
    BY <1>1, <1>4, <1>5, <2>1 DEF Leads
  <2>3. v \notin astray => AtWork(mem', registryHead, lists, block, registryHead, 0, v = publisher)
    BY <1>3, <1>6, <1>9, <2>2, AtWorkBegins DEF Typed
  <2> QED BY <1>4, <1>6, <2>2, <2>3
<1>11. v \notin astray /\ v # publisher => Whole(mem', registryHead)
  BY <1>6, <1>9 DEF Knows
<1>12. \A u \in Validator \ (astray \cup {v}) : u # publisher => Whole(parked'[u], registryHead)
  BY <1>6, <1>9 DEF Knows
<1> QED BY <1>1, <1>4, <1>6, <1>7, <1>8, <1>10, <1>11, <1>12, CheckingPrimed

\* The worker has executed the block and compares its list with the publisher's.
LEMMA CompareKeeps ==
  ASSUME ReplicaInv, Compare
  PROVE  ReplicaInv'
<1>1. /\ stage = "checking" /\ pos = Len(block) /\ verdict[worker] = "none"
      /\ verdict' = [verdict EXCEPT ![worker] = IF registry = root THEN "accepts" ELSE "refuses"]
      /\ UNCHANGED <<mem, registry, registryHead, txn>>
      /\ UNCHANGED <<stage, worker, publisher, block, root, pos, parked, astray>>
  BY DEF Compare, vars
<1>2. Typed /\ Checking /\ (publisher \notin astray => \E lists : Follows(lists))
  BY <1>1 DEF ReplicaInv
<1>3. /\ verdict' \in [Validator -> Verdict]
      /\ verdict'[worker] = IF registry = root THEN "accepts" ELSE "refuses"
      /\ \A v \in Validator \ {worker} : verdict'[v] = verdict[v]
  BY <1>1, <1>2 DEF Typed, Checking, Verdict
<1>4. Typed'
  BY <1>1, <1>2, <1>3, TypedPrimed DEF Typed
<1>5. Len(block) \in Nat
  BY <1>2, LenProperties DEF Typed
<1>6. /\ worker \in Validator /\ publisher \in Validator
      /\ worker \notin astray /\ worker # publisher => Whole(mem, registry)
      /\ \A v \in Validator \ (astray \cup {worker}) :
           /\ verdict[v] = "none" /\ v # publisher => Whole(parked[v], registryHead)
           /\ verdict[v] # "none" /\ (Plain(block) \/ verdict[v] = "accepts") => Whole(parked[v], root)
  BY <1>2 DEF Checking, Others
<1>7. publisher \notin astray => \E lists :
        /\ Trace(lists, block, registryHead)
        /\ root = lists[Len(block)]
        /\ worker \notin astray =>
             AtWork(mem, registry, lists, block, registryHead, pos, worker = publisher)
        /\ worker # publisher /\ verdict[publisher] = "none" =>
             \/ Built(parked[publisher], root, block, registryHead)
             \/ Knows(parked[publisher], registryHead, registryHead)
  BY <1>2 DEF Follows
<1> QED BY <1>1, <1>3, <1>4, <1>5, <1>6, <1>7, CheckingPrimed

\* The next validator executes the block.
LEMMA NextValidatorKeeps ==
  ASSUME ReplicaInv, NextValidator
  PROVE  ReplicaInv'
<1>1. /\ stage = "checking" /\ verdict[worker] # "none" /\ pos' = 0
      /\ UNCHANGED <<stage, publisher, block, root, verdict, astray>>
  BY DEF NextValidator
<1>2. PICK v \in Validator : verdict[v] = "none" /\ StartRun(v, Memories)
  BY DEF NextValidator
<1>3. Typed /\ Checking /\ (publisher \notin astray => \E lists : Follows(lists))
  BY <1>1 DEF ReplicaInv
<1>4. /\ worker \in Validator /\ publisher \in Validator
      /\ \A u \in Validator \ (astray \cup {worker}) :
           /\ verdict[u] = "none" /\ u # publisher => Whole(parked[u], registryHead)
  BY <1>3 DEF Checking, Others
<1>5. /\ Memories \in [Validator -> Memory] /\ \A u \in Validator : GoodMemory(Memories[u])
      /\ Memories[worker] = mem /\ \A u \in Validator \ {worker} : Memories[u] = parked[u]
  BY <1>3, <1>4, MemoriesFacts
<1>6. /\ worker' = v /\ mem' = Memories[v] /\ GoodMemory(mem')
      /\ registry' = registryHead /\ registryHead' = registryHead /\ txn' \in Txn
      /\ parked' \in [Validator -> Memory] /\ \A u \in Validator : GoodMemory(parked'[u])
      /\ \A u \in Validator \ {v} : parked'[u] = Memories[u]
  BY <1>2, <1>5, StartRunFacts
<1>7. Typed'
  <2>1. pos' \in 0..Len(block')
    BY <1>1, <1>3, LenProperties DEF Typed
  <2> QED BY <1>1, <1>3, <1>6, <2>1, TypedPrimed DEF Typed
<1>8. \A u \in Validator \ astray :
        /\ verdict[u] = "none" /\ u # publisher => Knows(Memories[u], registryHead, registryHead)
        /\ verdict[u] # "none" /\ (Plain(block) \/ verdict[u] = "accepts") => Whole(Memories[u], root)
  BY <1>1, <1>4, <1>5, WholeKnows, SpokenWhole
<1>9. ASSUME publisher \notin astray
      PROVE  \E lists :
               /\ Trace(lists, block, registryHead)
               /\ root = lists[Len(block)]
               /\ v \notin astray =>
                    AtWork(mem', registryHead, lists, block, registryHead, 0, v = publisher)
               /\ v # publisher /\ verdict[publisher] = "none" =>
                    \/ Built(parked'[publisher], root, block, registryHead)
                    \/ Knows(parked'[publisher], registryHead, registryHead)
  <2>1. PICK lists : Follows(lists)
    BY <1>3, <1>9
  <2>2. /\ Trace(lists, block, registryHead) /\ root = lists[Len(block)]
        /\ verdict[publisher] = "none" =>
             \/ Built(Memories[publisher], root, block, registryHead)
             \/ Knows(Memories[publisher], registryHead, registryHead)
    BY <1>1, <1>4, <1>5, <2>1 DEF Follows
  <2>3. ASSUME v \notin astray
        PROVE  AtWork(mem', registryHead, lists, block, registryHead, 0, v = publisher)
    <3>1. \/ Knows(mem', registryHead, registryHead)
          \/ v = publisher /\ Built(mem', lists[Len(block)], block, registryHead)
      BY <1>2, <1>6, <1>8, <2>2, <2>3
    <3> QED BY <1>3, <2>2, <3>1, AtWorkBegins DEF Typed
  <2> QED BY <1>4, <1>6, <2>2, <2>3
<1>10. v \notin astray /\ v # publisher => Whole(mem', registryHead)
  BY <1>2, <1>6, <1>8 DEF Knows
<1>11. \A u \in Validator \ (astray \cup {v}) :
         /\ verdict[u] = "none" /\ u # publisher => Whole(parked'[u], registryHead)
         /\ verdict[u] # "none" /\ (Plain(block) \/ verdict[u] = "accepts") => Whole(parked'[u], root)
  BY <1>6, <1>8 DEF Knows
<1> QED BY <1>1, <1>2, <1>4, <1>6, <1>7, <1>9, <1>10, <1>11, CheckingPrimed

\* What is left when the block is done with.
LEMMA FinishKeeps ==
  ASSUME ReplicaInv, worker \in Validator, NEW list, GoodRegistry(list), Finish(list),
         \A v \in Validator \ astray' : Whole(Memories[v], list)
  PROVE  ReplicaInv'
<1>1. /\ registryHead' = list /\ registry' = list /\ parked' = Memories
      /\ mem' = Fresh /\ txn' = NoTxn /\ stage' = "idle" /\ block' = <<>> /\ root' = Absent
      /\ pos' = 0 /\ verdict' = NoVerdict
  BY DEF Finish
<1>2. Typed
  BY DEF ReplicaInv
<1>3. /\ Memories \in [Validator -> Memory] /\ \A v \in Validator : GoodMemory(Memories[v])
  BY <1>2, MemoriesFacts
<1>4. GoodMemory(Fresh) /\ GoodRegistry(Absent) /\ NoTxn \in Txn
  BY FreshGood, Initially
     DEF Init, IInv, GoodRegistry, Registry, Absent, NoDuplicates, Injective, UniqueCodes,
         NoTxn, Txn, Op, Result, NoAnswer
<1>5. verdict' \in [Validator -> Verdict]
  BY <1>1 DEF NoVerdict, Verdict
<1>6. block' \in Seq(Transaction) /\ DOMAIN block' = {} /\ pos' \in 0..Len(block')
  BY <1>1
<1>7. Typed'
  BY <1>1, <1>3, <1>4, <1>5, <1>6, TypedPrimed
<1> QED BY <1>1, <1>7, IdlePrimed

\* The block is committed.
LEMMA CommitKeeps ==
  ASSUME ReplicaInv, Commit
  PROVE  ReplicaInv'
<1>1. /\ stage = "checking" /\ Finish(root) /\ astray' = astray
      /\ \A v \in Validator : verdict[v] = "accepts"
  BY DEF Commit
<1>2. worker \in Validator /\ GoodRegistry(root)
  BY <1>1 DEF ReplicaInv, Checking, Typed
<1>3. \A v \in Validator \ astray' : Whole(Memories[v], root)
  BY <1>1, SpokenWhole
<1> QED BY <1>1, <1>2, <1>3, FinishKeeps

\* The block is dropped.
LEMMA DropKeeps ==
  ASSUME ReplicaInv, Drop
  PROVE  ReplicaInv'
<1>1. /\ stage # "idle" /\ Finish(registryHead)
      /\ astray' = IF Plain(block) THEN astray ELSE astray \cup Involved
  BY DEF Drop
<1>2. Typed
  BY DEF ReplicaInv
<1>3. worker \in Validator /\ GoodRegistry(registryHead) /\ stage \in {"building", "checking"}
  BY <1>1 DEF ReplicaInv, Building, Checking, Typed
<1>4. ASSUME NEW v \in Validator \ astray' PROVE Whole(Memories[v], registryHead)
  <2>1. v \notin astray /\ (Plain(block) \/ v \notin Involved)
    BY <1>1
  <2>2. CASE v # worker
    BY <1>1, <2>1, <2>2, UninvolvedWhole
  <2>3. CASE v = worker
    <3>1. Plain(block)
      BY <2>1, <2>3 DEF Involved
    <3>2. CASE stage = "building"
      <4>1. PICK lists : Leads(lists)
        BY <2>1, <2>3, <3>2 DEF ReplicaInv
      <4>2. Whole(mem, registryHead)
        BY <3>1, <4>1 DEF Leads, Built, Knows
      <4> QED BY <1>2, <1>3, <2>3, <4>2, MemoriesFacts
    <3>3. CASE stage = "checking"
      <4>1. root = registryHead
        BY <1>2, <3>1, <3>3 DEF Typed
      <4> QED BY <2>1, <2>3, <3>1, <3>3, <4>1, SpokenWhole
    <3> QED BY <1>3, <3>2, <3>3
  <2> QED BY <2>2, <2>3
<1> QED BY <1>1, <1>3, <1>4, FinishKeeps

\* A processor that is not at work is restarted.
LEMMA RestartParkedKeeps ==
  ASSUME ReplicaInv, NEW v \in Validator, RestartParked(v)
  PROVE  ReplicaInv'
<1>1. /\ v # worker /\ parked' = [parked EXCEPT ![v] = Fresh]
      /\ astray' = IF v # publisher /\ verdict[v] = "none" THEN astray \ {v} ELSE astray
      /\ UNCHANGED <<mem, registry, registryHead, txn>>
      /\ UNCHANGED <<stage, worker, publisher, block, root, pos, verdict>>
  BY DEF RestartParked, vars
<1>2. Typed
  BY DEF ReplicaInv
<1>3. Fresh \in Memory /\ GoodMemory(Fresh) /\ Whole(Fresh, registryHead) /\ Whole(Fresh, root)
  BY FreshGood, FreshWhole DEF GoodMemory
<1> HIDE DEF Fresh
<1>4. /\ parked' \in [Validator -> Memory] /\ parked'[v] = Fresh
      /\ \A u \in Validator \ {v} : parked'[u] = parked[u] /\ (u \in astray' <=> u \in astray)
      /\ publisher \in astray' <=> publisher \in astray
      /\ worker \in astray' <=> worker \in astray
  BY <1>1, <1>2, <1>3 DEF Typed
<1>5. Typed'
  <2>1. \A u \in Validator : GoodMemory(parked'[u])
    BY <1>2, <1>3, <1>4 DEF Typed
  <2> QED BY <1>1, <1>2, <1>4, <2>1, TypedPrimed DEF Typed
<1>6. CASE stage = "idle"
  <2>1. /\ block = <<>> /\ verdict = NoVerdict
        /\ \A u \in Validator \ astray : Whole(parked[u], registryHead)
    BY <1>6 DEF ReplicaInv, Idle
  <2>2. \A u \in Validator \ astray' : Whole(parked'[u], registryHead)
    BY <1>3, <1>4, <2>1
  <2> QED BY <1>1, <1>5, <1>6, <2>1, <2>2, IdlePrimed
<1>7. CASE stage = "building"
  <2>1. /\ worker \in Validator /\ publisher = worker /\ pos = 0 /\ verdict = NoVerdict
        /\ \A u \in Validator \ (astray \cup {worker}) : Whole(parked[u], registryHead)
        /\ worker \notin astray => \E lists : Leads(lists)
    BY <1>7 DEF ReplicaInv, Building, Others
  <2>2. \A u \in Validator \ (astray' \cup {worker}) : Whole(parked'[u], registryHead)
    BY <1>3, <1>4, <2>1
  <2> QED BY <1>1, <1>4, <1>5, <1>7, <2>1, <2>2, BuildingPrimed DEF Leads
<1>8. CASE stage = "checking"
  <2>1. Checking /\ (publisher \notin astray => \E lists : Follows(lists))
    BY <1>8 DEF ReplicaInv
  <2>2. \A u \in Validator \ (astray' \cup {worker}) :
          /\ verdict[u] = "none" /\ u # publisher => Whole(parked'[u], registryHead)
          /\ verdict[u] # "none" /\ (Plain(block) \/ verdict[u] = "accepts") => Whole(parked'[u], root)
    BY <1>3, <1>4, <2>1 DEF Checking, Others
  <2>3. /\ worker \in Validator /\ publisher \in Validator
        /\ verdict[worker] = "accepts" => pos = Len(block) /\ registry = root
        /\ worker \notin astray /\ worker # publisher => Whole(mem, registry)
    BY <2>1 DEF Checking
  <2>4. Knows(Fresh, registryHead, registryHead)
    BY <1>3, WholeKnows
  <2>5. publisher \notin astray => \E lists :
          /\ Trace(lists, block, registryHead)
          /\ root = lists[Len(block)]
          /\ worker \notin astray =>
               /\ AtWork(mem, registry, lists, block, registryHead, pos, worker = publisher)
               /\ verdict[worker] # "none" /\ pos < Len(block) =>
                    worker = publisher /\ Outdated(block, pos)
          /\ worker # publisher /\ verdict[publisher] = "none" =>
               \/ Built(parked'[publisher], root, block, registryHead)
               \/ Knows(parked'[publisher], registryHead, registryHead)
    <3> SUFFICES ASSUME publisher \notin astray
                 PROVE  \E lists : Follows(lists) /\
                          (worker # publisher /\ verdict[publisher] = "none" =>
                             \/ Built(parked'[publisher], root, block, registryHead)
                             \/ Knows(parked'[publisher], registryHead, registryHead))
      BY DEF Follows
    <3>1. PICK lists : Follows(lists)
      BY <2>1
    <3>2. CASE v = publisher
      BY <1>4, <2>4, <3>1, <3>2
    <3>3. CASE v # publisher
      <4>1. parked'[publisher] = parked[publisher]
        BY <1>4, <2>3, <3>3
      <4> QED BY <3>1, <4>1 DEF Follows
    <3> QED BY <3>2, <3>3
  <2> QED BY <1>1, <1>4, <1>5, <1>8, <2>2, <2>3, <2>5, CheckingPrimed
<1> QED BY <1>2, <1>6, <1>7, <1>8 DEF Typed

\* The processor at work is restarted.
LEMMA RestartWorkerKeeps ==
  ASSUME ReplicaInv, RestartWorker
  PROVE  ReplicaInv'
<1>1. /\ stage # "idle" /\ verdict[worker] = "none"
      /\ mem' = Fresh /\ txn' = NoTxn /\ astray' = astray \cup {worker}
      /\ UNCHANGED <<registry, registryHead>>
      /\ UNCHANGED <<stage, worker, publisher, block, root, pos, parked, verdict>>
  BY DEF RestartWorker, runVars
<1>2. Typed
  BY DEF ReplicaInv
<1>3. GoodMemory(Fresh) /\ NoTxn \in Txn
  BY FreshGood DEF NoTxn, Txn, Op, Result, NoAnswer
<1>4. Typed'
  BY <1>1, <1>2, <1>3, TypedPrimed DEF Typed
<1>5. CASE stage = "building"
  <2>1. /\ worker \in Validator /\ publisher = worker /\ pos = 0 /\ verdict = NoVerdict
        /\ \A u \in Validator \ (astray \cup {worker}) : Whole(parked[u], registryHead)
    BY <1>5 DEF ReplicaInv, Building, Others
  <2> QED BY <1>1, <1>4, <1>5, <2>1, BuildingPrimed
<1>6. CASE stage = "checking"
  <2>1. Checking /\ (publisher \notin astray => \E lists : Follows(lists))
    BY <1>6 DEF ReplicaInv
  <2>2. /\ worker \in Validator /\ publisher \in Validator
        /\ \A u \in Validator \ (astray \cup {worker}) :
             /\ verdict[u] = "none" /\ u # publisher => Whole(parked[u], registryHead)
             /\ verdict[u] # "none" /\ (Plain(block) \/ verdict[u] = "accepts") =>
                  Whole(parked[u], root)
    BY <2>1 DEF Checking, Others
  <2>3. publisher \notin astray' => \E lists :
          /\ Trace(lists, block, registryHead)
          /\ root = lists[Len(block)]
          /\ worker # publisher /\ verdict[publisher] = "none" =>
               \/ Built(parked[publisher], root, block, registryHead)
               \/ Knows(parked[publisher], registryHead, registryHead)
    BY <1>1, <2>1 DEF Follows
  <2> QED BY <1>1, <1>4, <1>6, <2>2, <2>3, CheckingPrimed
<1> QED BY <1>1, <1>2, <1>5, <1>6 DEF Typed

-----------------------------------------------------------------------------
(* Executing a published block *)

\* A sound processor that has not been through the block, or through a block
\* without writes, follows the publisher.
LEMMA KnownChecks ==
  ASSUME Typed, NEW h, h = registryHead, NEW lists, Trace(lists, block, h), pos < Len(block),
         registry = lists[pos], Knows(mem, registry, h),
         block[pos + 1].kind \in SuKinds => mem.suMap # Nil /\ (mem.cached \/ h = Absent),
         Execute(block[pos + 1])
  PROVE  /\ (Died /\ ~Passed /\ registry' = registry) \/ (Passed /\ registry' = lists[pos + 1])
         /\ Knows(mem', registry', h)
<1> DEFINE t == block[pos + 1]
<1>1. /\ block \in Seq(Transaction) /\ pos \in 0..Len(block) /\ GoodRegistry(registry)
      /\ \A i \in DOMAIN block : block[i].kind = "op" => Len(block) = 1
  BY DEF Typed
<1>2. DOMAIN block = 1..Len(block) /\ Len(block) \in Nat /\ pos + 1 \in 1..Len(block) /\ pos \in Nat
  BY <1>1, LenProperties
<1>3. t \in Transaction
  BY <1>1, <1>2, ElementOfSeq
<1>4. Passes(t, registry) /\ lists[pos + 1] = Effect(t, registry)
  <2>1. (pos + 1) - 1 = pos
    BY <1>2
  <2> QED BY <1>2, <2>1 DEF Trace
<1>5. t.kind \in SuKinds => mem.suMap # Nil /\ (mem.cached \/ h = Absent)
  OBVIOUS
<1>6. t.kind = "op" => registry = h
  <2>1. t.kind = "op" => pos = 0
    BY <1>1, <1>2
  <2> QED BY <2>1 DEF Trace
<1>7. Execute(t) /\ (t.kind \in {"remove", "removeSu"} => Holds(t, registry))
  BY <1>4 DEF Passes
<1> HIDE DEF t
<1>8. \/ Fell /\ h # Absent
      \/ Writes(t) /\ Served(t, registry)
      \/ ~Writes(t) /\ Looks(t, registry) /\ Knows(mem', registry, h)
  BY <1>1, <1>3, <1>5, <1>6, <1>7, KnownStep
<1>9. CASE Fell /\ h # Absent
  <2>1. Knows(Fresh, registry, h)
    BY <1>9, FreshGood, FreshWhole DEF Knows
  <2> QED BY <1>9, <2>1 DEF Fell
<1>10. CASE Writes(t) /\ Served(t, registry)
  <2>1. /\ Passed /\ registry' = lists[pos + 1]
        /\ GoodMemory(mem') /\ Agrees(mem', registry')
    BY <1>4, <1>10 DEF Served
  <2> QED BY <2>1 DEF Knows, Whole
<1>11. CASE ~Writes(t) /\ Looks(t, registry) /\ Knows(mem', registry, h)
  <2>1. Passed /\ registry' = registry
    BY <1>4, <1>11 DEF Looks, Passes
  <2>2. lists[pos + 1] = registry
    BY <1>1, <1>4, <1>11, EffectOfReading
  <2> QED BY <1>11, <2>1, <2>2
<1> QED BY <1>8, <1>9, <1>10, <1>11

\* The publisher's memory takes one step more through its block.
LEMMA AheadAdvances ==
  ASSUME NEW b \in Seq(Transaction), NEW h, NEW lists, Trace(lists, b, h),
         NEW p \in Nat, p < Len(b),
         NEW m, NEW r, Ahead(m, r, lists, b, h, p),
         NEW n, GoodMemory(n), Agrees(n, Effect(b[p + 1], Held(m))), Grows(m, n)
  PROVE  Ahead(n, IF Writes(b[p + 1]) THEN Effect(b[p + 1], Held(m)) ELSE r, lists, b, h, p + 1)
<1> DEFINE t == b[p + 1]
           held == Held(m)
           next == Effect(t, held)
           last == lists[Len(b)]
           rr == IF Writes(t) THEN next ELSE r
<1>1. DOMAIN b = 1..Len(b) /\ Len(b) \in Nat /\ p + 1 \in 1..Len(b)
  BY LenProperties
<1>2. t \in Transaction
  BY <1>1, ElementOfSeq
<1>3. lists[p + 1] = Effect(t, lists[p])
  <2>1. (p + 1) - 1 = p
    OBVIOUS
  <2> QED BY <1>1, <2>1 DEF Trace
<1>4. /\ GoodRegistry(held) /\ GoodRegistry(lists[p]) /\ GoodRegistry(last)
      /\ p \in 0..Len(b) /\ Len(b) \in 0..Len(b)
  <2>1. p \in 0..Len(b) /\ Len(b) \in 0..Len(b)
    BY <1>1
  <2>2. GoodRegistry(held)
    BY HeldGood DEF Ahead
  <2> QED BY <2>1, <2>2, TraceGood
<1>5. /\ Rehearsed(m, b, h)
      /\ r = IF \E i \in 1..p : Writes(b[i]) THEN held ELSE h
      /\ \A c \in Code : ManagerOf(held)[c] = ManagerOf(IF Touched(b, p, c) THEN lists[p] ELSE last)[c]
      /\ \A a \in Address :
           a \in Range(held.su) <=> a \in Range((IF TouchedSu(b, p, a) THEN lists[p] ELSE last).su)
      /\ Stays(b, last) => Begins(held, last)
  BY DEF Ahead
<1>6. \A i : i \in 1..(p + 1) <=> i \in 1..p \/ i = p + 1
  OBVIOUS
<1>7. b[p + 1] = t /\ Held(n) = next
  BY DEF Agrees
<1> HIDE DEF t, last, held, next
<1>8. rr = IF \E i \in 1..(p + 1) : Writes(b[i]) THEN next ELSE h
  <2>1. CASE Writes(t)
    BY <1>6, <1>7, <2>1
  <2>2. CASE ~Writes(t)
    <3>1. next = held
      BY <1>4, <2>2, EffectOfReading DEF next
    <3> QED BY <1>5, <1>6, <1>7, <2>2, <3>1
  <2> QED BY <2>1, <2>2
<1>9. ASSUME NEW c \in Code
      PROVE  ManagerOf(next)[c] = ManagerOf(IF Touched(b, p + 1, c) THEN lists[p + 1] ELSE last)[c]
  <2>1. \A q : GoodRegistry(q) =>
          ManagerOf(Effect(t, q))[c] = IF t.kind = "add" /\ t.code = c THEN t.addr
                                       ELSE IF t.kind = "remove" /\ t.code = c THEN Nil
                                       ELSE ManagerOf(q)[c]
    BY <1>2, EffectManagers
  <2>2. CASE t.code = c /\ t.kind \in {"add", "remove"}
    <3>1. Touched(b, p + 1, c)
      BY <1>6, <1>7, <2>2 DEF Touched
    <3>2. ManagerOf(next)[c] = ManagerOf(lists[p + 1])[c]
      BY <1>3, <1>4, <2>1, <2>2 DEF next
    <3> QED BY <3>1, <3>2
  <2>3. CASE ~(t.code = c /\ t.kind \in {"add", "remove"})
    <3>1. Touched(b, p + 1, c) <=> Touched(b, p, c)
      BY <1>6, <1>7, <2>3 DEF Touched
    <3>2. /\ ManagerOf(next)[c] = ManagerOf(held)[c]
          /\ ManagerOf(lists[p + 1])[c] = ManagerOf(lists[p])[c]
      BY <1>3, <1>4, <2>1, <2>3 DEF next
    <3> QED BY <1>5, <3>1, <3>2
  <2> QED BY <2>2, <2>3
<1>10. ASSUME NEW a \in Address
       PROVE  a \in Range(next.su)
                <=> a \in Range((IF TouchedSu(b, p + 1, a) THEN lists[p + 1] ELSE last).su)
  <2>1. \A q : GoodRegistry(q) =>
          (a \in Range(Effect(t, q).su) <=> IF t.kind = "addSu" /\ t.addr = a THEN TRUE
                                            ELSE IF t.kind = "removeSu" /\ t.addr = a THEN FALSE
                                            ELSE a \in Range(q.su))
    BY <1>2, EffectSuManagers
  <2>2. CASE t.addr = a /\ t.kind \in SuKinds
    <3>1. TouchedSu(b, p + 1, a)
      BY <1>6, <1>7, <2>2 DEF TouchedSu
    <3>2. a \in Range(next.su) <=> a \in Range(lists[p + 1].su)
      BY <1>3, <1>4, <2>1, <2>2 DEF next, SuKinds
    <3> QED BY <3>1, <3>2
  <2>3. CASE ~(t.addr = a /\ t.kind \in SuKinds)
    <3>1. TouchedSu(b, p + 1, a) <=> TouchedSu(b, p, a)
      BY <1>6, <1>7, <2>3 DEF TouchedSu
    <3>2. /\ a \in Range(next.su) <=> a \in Range(held.su)
          /\ a \in Range(lists[p + 1].su) <=> a \in Range(lists[p].su)
      BY <1>3, <1>4, <2>1, <2>3 DEF next, SuKinds
    <3> QED BY <1>5, <3>1, <3>2
  <2> QED BY <2>2, <2>3
<1>11. Stays(b, last) => Begins(next, last)
  <2> SUFFICES ASSUME Stays(b, last) PROVE Begins(next, last)
    OBVIOUS
  <2>1. /\ t.kind = "remove" => ~Has(last.mgr, t.code)
        /\ t.kind = "removeSu" => t.addr \notin Range(last.su)
    BY <1>1, <1>7 DEF Stays
  <2> QED BY <1>2, <1>4, <1>5, <2>1, EffectBegins DEF next
<1>12. Rehearsed(n, b, h)
  BY <1>5, RehearsedGrows
<1>13. Agrees(n, Held(n))
  BY <1>7 DEF next, held, t
<1> QED BY <1>7, <1>8, <1>9, <1>10, <1>11, <1>12, <1>13 DEF Ahead, last, next, held, t

\* The publisher executes its own block again: it refuses a transaction only if
\* a later one of the same block takes the role away that it rests on.
LEMMA AheadChecks ==
  ASSUME Typed, NEW h, h = registryHead, NEW lists, Trace(lists, block, h), pos < Len(block),
         ~Plain(block), Ahead(mem, registry, lists, block, h, pos),
         block[pos + 1].kind \in SuKinds => mem.suMap # Nil,
         Execute(block[pos + 1])
  PROVE  /\ ~Died /\ registryHead' = h /\ GoodMemory(mem')
         /\ GoodRegistry(registry')
         /\ Passed => Ahead(mem', registry', lists, block, h, pos + 1)
         /\ ~Passed => Ahead(mem', registry', lists, block, h, pos) /\ Outdated(block, pos)
<1> DEFINE t == block[pos + 1]
           held == Held(mem)
           last == lists[Len(block)]
<1>1. /\ block \in Seq(Transaction) /\ pos \in 0..Len(block) /\ GoodRegistry(registry)
      /\ \A i \in DOMAIN block : block[i].kind = "op" => Len(block) = 1
  BY DEF Typed
<1>2. DOMAIN block = 1..Len(block) /\ Len(block) \in Nat /\ pos + 1 \in 1..Len(block) /\ pos \in Nat
  BY <1>1, LenProperties
<1>3. t \in Transaction
  BY <1>1, <1>2, ElementOfSeq
<1>4. Passes(t, lists[pos])
  <2>1. (pos + 1) - 1 = pos
    BY <1>2
  <2> QED BY <1>2, <2>1 DEF Trace
<1>5. t.kind # "op"
  <2> SUFFICES ASSUME t.kind = "op" PROVE FALSE
    OBVIOUS
  <2>1. \A i \in DOMAIN block : block[i] = t
    BY <1>1, <1>2
  <2> HIDE DEF t
  <2> QED BY <2>1 DEF Plain, Writes, SuKinds
<1>6. /\ GoodMemory(mem) /\ Agrees(mem, held)
      /\ Rehearsed(mem, block, h)
      /\ registry \in {held, h}
      /\ \A c \in Code :
           ManagerOf(held)[c] = ManagerOf(IF Touched(block, pos, c) THEN lists[pos] ELSE last)[c]
      /\ \A a \in Address :
           a \in Range(held.su)
             <=> a \in Range((IF TouchedSu(block, pos, a) THEN lists[pos] ELSE last).su)
      /\ Stays(block, last) => Begins(held, last)
  BY DEF Ahead
<1>7. GoodRegistry(held)
  BY <1>6, HeldGood
<1> HIDE DEF t, held, last
<1>8. mem.cached \/ registry \in {held, Absent}
  BY <1>6 DEF Rehearsed
<1>9. t.kind = "remove" => mem.cached /\ mem.mgr # Nil
  BY <1>2, <1>6 DEF Rehearsed, t
<1>10. t.kind \in SuKinds => mem.suMap # Nil
  BY DEF t
<1>11. t.kind = "removeSu" => mem.su # Nil
  <2> SUFFICES ASSUME t.kind = "removeSu" PROVE mem.su # Nil
    OBVIOUS
  <2>1. CASE h # Absent
    BY <1>2, <1>6, <2>1 DEF Rehearsed, t
  <2>2. CASE h = Absent
    <3>1. t.addr \in Range(lists[pos].su) /\ t.addr \in Address
      BY <1>3, <1>4, TransactionFacts DEF Passes, Holds
    <3>2. lists[0] = Absent
      BY <2>2 DEF Trace
    <3>3. t.addr \notin Range(lists[0].su)
      BY <3>2 DEF Absent, Range
    <3>4. 0 \in 0..Len(block) /\ pos \in 0..Len(block) /\ 0 <= pos
      BY <1>2
    <3>5. \E i \in (0 + 1)..pos : DecidesSu(block[i], t.addr, t.addr \in Range(lists[pos].su))
      BY <3>1, <3>3, <3>4 DEF Trace
    <3>6. TouchedSu(block, pos, t.addr)
      BY <3>5 DEF TouchedSu, DecidesSu, SuKinds
    <3>7. t.addr \in Range(held.su)
      BY <1>6, <3>1, <3>6
    <3> QED BY <3>7, HoldsListed DEF Holds, held
  <2> QED BY <2>1, <2>2
<1>12. /\ Writes(t) => Served(t, held)
       /\ ~Writes(t) => Looks(t, held) /\ Agrees(mem', held) /\ Grows(mem, mem')
  <2>1. Execute(t)
    BY DEF t
  <2> QED BY <1>1, <1>3, <1>5, <1>6, <1>8, <1>9, <1>10, <1>11, <2>1, HeldStep
<1>13. CASE Writes(t)
  <2>1. /\ ~Died /\ Passed /\ registry' = Effect(t, held) /\ registryHead' = h
        /\ GoodMemory(mem') /\ Agrees(mem', Effect(t, held)) /\ Grows(mem, mem')
    BY <1>12, <1>13 DEF Served
  <2>2. GoodRegistry(registry')
    BY <1>3, <1>7, <2>1, EffectGood
  <2>3. Ahead(mem', registry', lists, block, h, pos + 1)
    BY <1>1, <1>2, <1>13, <2>1, AheadAdvances DEF t, held
  <2> QED BY <2>1, <2>2, <2>3
<1>14. CASE ~Writes(t)
  <2>1. /\ ~Died /\ (Passed <=> (t.kind = "use" => Entitled(t, held)))
        /\ registry' = registry /\ registryHead' = h
        /\ GoodMemory(mem') /\ Agrees(mem', held) /\ Grows(mem, mem')
    BY <1>12, <1>14 DEF Looks
  <2>2. Effect(t, held) = held
    BY <1>7, <1>14, EffectOfReading
  <2>3. Ahead(mem', registry', lists, block, h, pos + 1)
    BY <1>1, <1>2, <1>14, <2>1, <2>2, AheadAdvances DEF t, held
  <2>4. Ahead(mem', registry', lists, block, h, pos)
    <3>1. Held(mem') = held
      BY <2>1 DEF Agrees
    <3>2. Rehearsed(mem', block, h)
      BY <1>6, <2>1, RehearsedGrows
    <3> QED BY <2>1, <3>1, <3>2 DEF Ahead, held
  <2>5. ASSUME ~Passed PROVE Outdated(block, pos)
    <3>1. t.kind = "use" /\ ~Entitled(t, held) /\ Entitled(t, lists[pos])
      BY <1>4, <2>1, <2>5 DEF Passes
    <3>2. t.code \in Code /\ t.addr \in Address
      BY <1>3, <3>1, TransactionFacts
    <3>3. pos \in 0..Len(block) /\ Len(block) \in 0..Len(block) /\ pos <= Len(block)
      BY <1>2
    <3>4. \A i \in (pos + 1)..Len(block) : block[i].kind # "use" => i \in (pos + 2)..Len(block)
      BY <1>2, <3>1 DEF t
    <3>5. CASE ManagerOf(lists[pos])[t.code] = t.addr
      <4>1. ManagerOf(held)[t.code] # t.addr
        BY <3>1 DEF Entitled
      <4>2. ManagerOf(last)[t.code] = ManagerOf(held)[t.code]
        BY <1>6, <3>2, <3>5, <4>1
      <4>3. PICK i \in (pos + 1)..Len(block) : Decides(block[i], t.code, ManagerOf(last)[t.code])
        BY <3>2, <3>3, <3>5, <4>1, <4>2 DEF Trace, last
      <4>4. i \in (pos + 2)..Len(block) /\ Unseats(block[i], t)
        BY <3>4, <4>1, <4>2, <4>3 DEF Decides, Unseats
      <4> QED BY <3>1, <4>4 DEF Outdated, t
    <3>6. CASE t.addr \in Range(lists[pos].su)
      <4>1. t.addr \notin Range(held.su)
        BY <3>1 DEF Entitled
      <4>2. t.addr \notin Range(last.su)
        BY <1>6, <3>2, <3>6, <4>1
      <4>3. PICK i \in (pos + 1)..Len(block) : DecidesSu(block[i], t.addr, t.addr \in Range(last.su))
        BY <3>2, <3>3, <3>6, <4>2 DEF Trace, last
      <4>4. i \in (pos + 2)..Len(block) /\ Unseats(block[i], t)
        BY <3>4, <4>2, <4>3 DEF DecidesSu, Unseats
      <4> QED BY <3>1, <4>4 DEF Outdated, t
    <3> QED BY <3>1, <3>5, <3>6 DEF Entitled
  <2> QED BY <1>1, <2>1, <2>3, <2>4, <2>5
<1> QED BY <1>13, <1>14

\* The worker executes the next transaction of the block.
LEMMA CheckKeeps ==
  ASSUME ReplicaInv, Check
  PROVE  ReplicaInv'
<1> DEFINE t == block[pos + 1]
           h == registryHead
<1>1. /\ stage = "checking" /\ pos < Len(block) /\ verdict[worker] = "none"
      /\ Execute(t)
      /\ pos' = IF Passed THEN pos + 1 ELSE pos
      /\ astray' = Exposed(t)
      /\ verdict' = [verdict EXCEPT ![worker] = IF Died \/ Passed THEN "none" ELSE "refuses"]
      /\ UNCHANGED <<stage, worker, publisher, block, root, parked>>
  BY DEF Check
<1>2. Typed /\ Checking /\ (publisher \notin astray => \E lists : Follows(lists))
  BY <1>1 DEF ReplicaInv
<1>3. /\ GoodMemory(mem) /\ GoodRegistry(registry) /\ GoodRegistry(registryHead) /\ txn \in Txn
      /\ block \in Seq(Transaction)
      /\ Plain(block) => registry = h
      /\ verdict \in [Validator -> Verdict]
  BY <1>2 DEF Typed
<1>4. /\ DOMAIN block = 1..Len(block) /\ Len(block) \in Nat
      /\ pos + 1 \in DOMAIN block /\ pos \in 0..Len(block) /\ t \in Transaction
  BY <1>1, <1>2, <1>3, LenProperties, ElementOfSeq DEF Typed
<1>5. /\ worker \in Validator /\ publisher \in Validator
      /\ worker \notin astray /\ worker # publisher => Whole(mem, registry)
      /\ \A v \in Validator \ (astray \cup {worker}) :
           /\ verdict[v] = "none" /\ v # publisher => Whole(parked[v], h)
           /\ verdict[v] # "none" /\ (Plain(block) \/ verdict[v] = "accepts") => Whole(parked[v], root)
  BY <1>2 DEF Checking, Others
<1>6. /\ verdict' \in [Validator -> Verdict]
      /\ verdict'[worker] = IF Died \/ Passed THEN "none" ELSE "refuses"
      /\ \A v \in Validator \ {worker} : verdict'[v] = verdict[v]
  BY <1>1, <1>3, <1>5 DEF Verdict
<1>7. GoodMemory(mem') /\ GoodRegistry(registry') /\ txn' \in Txn /\ registryHead' = h
  BY <1>1, <1>3, <1>4, ExecuteKeepsGood, ExecuteWrites
<1>8. Plain(block) => registry' = h
  <2>1. registry' = registry \/ Writes(t)
    BY <1>1, <1>4, ExecuteWrites
  <2> QED BY <1>3, <1>4, <2>1 DEF Plain
<1>9. /\ astray \subseteq astray'
      /\ worker \notin astray' =>
           (t.kind \in SuKinds => mem.suMap # Nil /\ (mem.cached \/ h = Absent))
  BY <1>1 DEF Exposed, Unready, Ready, SuKinds
<1>10. Typed'
  <2>1. pos' \in 0..Len(block')
    BY <1>1, <1>4
  <2> QED BY <1>1, <1>2, <1>3, <1>6, <1>7, <1>8, <2>1, TypedPrimed DEF Typed
<1>11. worker \notin astray' /\ worker # publisher => Whole(mem', registry')
  BY <1>1, <1>3, <1>4, <1>5, <1>9, ExecuteKeepsWhole
<1>12. \A v \in Validator \ (astray' \cup {worker}) :
         /\ verdict'[v] = "none" /\ v # publisher => Whole(parked[v], h)
         /\ verdict'[v] # "none" /\ (Plain(block) \/ verdict'[v] = "accepts") => Whole(parked[v], root)
  BY <1>5, <1>6, <1>9
<1>13. ASSUME publisher \notin astray'
       PROVE  \E lists :
                /\ Trace(lists, block, h)
                /\ root = lists[Len(block)]
                /\ worker \notin astray' =>
                     /\ AtWork(mem', registry', lists, block, h, pos', worker = publisher)
                     /\ verdict'[worker] # "none" /\ pos' < Len(block) =>
                          worker = publisher /\ Outdated(block, pos')
                /\ worker # publisher /\ verdict'[publisher] = "none" =>
                     \/ Built(parked[publisher], root, block, h)
                     \/ Knows(parked[publisher], h, h)
  <2>1. PICK lists : Follows(lists)
    BY <1>2, <1>9, <1>13
  <2>2. /\ Trace(lists, block, h) /\ root = lists[Len(block)]
        /\ worker \notin astray => AtWork(mem, registry, lists, block, h, pos, worker = publisher)
        /\ worker # publisher /\ verdict[publisher] = "none" =>
             \/ Built(parked[publisher], root, block, h)
             \/ Knows(parked[publisher], h, h)
    BY <2>1 DEF Follows
  <2>3. ASSUME worker \notin astray'
        PROVE  /\ AtWork(mem', registry', lists, block, h, pos', worker = publisher)
               /\ verdict'[worker] # "none" => worker = publisher /\ Outdated(block, pos')
    <3>1. t.kind \in SuKinds => mem.suMap # Nil /\ (mem.cached \/ h = Absent)
      BY <1>9, <2>3
    <3>2. CASE worker = publisher /\ ~Plain(block) /\ Ahead(mem, registry, lists, block, h, pos)
      <4>1. /\ ~Died
            /\ Passed => Ahead(mem', registry', lists, block, h, pos + 1)
            /\ ~Passed => Ahead(mem', registry', lists, block, h, pos) /\ Outdated(block, pos)
        BY <1>1, <1>2, <2>2, <3>1, <3>2, AheadChecks
      <4> QED BY <1>1, <1>6, <3>2, <4>1 DEF AtWork
    <3>3. CASE registry = lists[pos] /\ Knows(mem, registry, h)
      <4>1. /\ (Died /\ ~Passed /\ registry' = registry) \/ (Passed /\ registry' = lists[pos + 1])
            /\ Knows(mem', registry', h)
        BY <1>1, <1>2, <2>2, <3>1, <3>3, KnownChecks
      <4> QED BY <1>1, <1>6, <3>3, <4>1 DEF AtWork
    <3>4. worker \notin astray
      BY <1>9, <2>3
    <3> QED BY <2>2, <3>2, <3>3, <3>4 DEF AtWork
  <2>4. worker # publisher => verdict'[publisher] = verdict[publisher]
    BY <1>5, <1>6
  <2> QED BY <2>2, <2>3, <2>4
<1> QED BY <1>1, <1>5, <1>6, <1>7, <1>10, <1>11, <1>12, <1>13, CheckingPrimed

-----------------------------------------------------------------------------
(* The theorems *)

\* A new chain and new processors.
LEMMA ReplicasInitially == ReplicaInit => ReplicaInv
<1> SUFFICES ASSUME ReplicaInit PROVE ReplicaInv
  OBVIOUS
<1>1. /\ mem = Fresh /\ registry = Absent /\ registryHead = Absent /\ txn = NoTxn
      /\ stage = "idle" /\ block = <<>> /\ root = Absent /\ pos = 0
      /\ parked = AllFresh /\ verdict = NoVerdict
  BY DEF ReplicaInit, Init
<1>2. Fresh \in Memory /\ GoodMemory(Fresh) /\ NoTxn \in Txn
  BY FreshGood DEF GoodMemory, NoTxn, Txn, Op, Result, NoAnswer
<1>3. GoodRegistry(Absent)
  BY Initially DEF Init, IInv, GoodRegistry, Registry, Absent, NoDuplicates, Injective, UniqueCodes
<1>4. /\ parked \in [Validator -> Memory] /\ \A v \in Validator : parked[v] = Fresh
  BY <1>1, <1>2 DEF AllFresh
<1>5. verdict \in [Validator -> Verdict]
  BY <1>1 DEF NoVerdict, Verdict
<1>6. block \in Seq(Transaction) /\ DOMAIN block = {} /\ pos \in 0..Len(block)
  BY <1>1
<1> HIDE DEF Fresh, Absent
<1>7. Typed
  BY <1>1, <1>2, <1>3, <1>4, <1>5, <1>6 DEF Typed
<1>8. Idle
  BY <1>1, <1>4, FreshWhole DEF Idle
<1> QED BY <1>1, <1>7, <1>8 DEF ReplicaInv

\* Every step keeps the invariant.
LEMMA ReplicasKeep == ReplicaInv /\ [ReplicaNext]_replicaVars => ReplicaInv'
<1> SUFFICES ASSUME ReplicaInv, [ReplicaNext]_replicaVars PROVE ReplicaInv'
  OBVIOUS
<1>1. CASE \E v \in Validator : Build(v) \/ RestartParked(v)
  BY <1>1, BuildKeeps, RestartParkedKeeps
<1>2. CASE \E t \in Transaction : Include(t)
  BY <1>2, IncludeKeeps
<1>3. CASE Publish \/ Check \/ Compare \/ NextValidator
  BY <1>3, PublishKeeps, CheckKeeps, CompareKeeps, NextValidatorKeeps
<1>4. CASE Commit \/ Drop \/ RestartWorker
  BY <1>4, CommitKeeps, DropKeeps, RestartWorkerKeeps
<1>5. CASE UNCHANGED replicaVars
  <2>1. /\ UNCHANGED <<mem, registry, registryHead, txn, astray>>
        /\ UNCHANGED <<stage, worker, publisher, block, root, pos, parked, verdict>>
    BY <1>5 DEF replicaVars, vars, runVars
  <2>2. Typed'
    BY <2>1, TypedPrimed DEF ReplicaInv, Typed
  <2>3. CASE stage = "idle"
    BY <2>1, <2>2, <2>3, IdlePrimed DEF ReplicaInv, Idle
  <2>4. CASE stage = "building"
    BY <2>1, <2>2, <2>4, BuildingPrimed DEF ReplicaInv, Building, Others, Leads
  <2>5. CASE stage = "checking"
    BY <2>1, <2>2, <2>5, CheckingPrimed DEF ReplicaInv, Checking, Others, Follows
  <2> QED BY <2>3, <2>4, <2>5 DEF ReplicaInv, Typed
<1> QED BY <1>1, <1>2, <1>3, <1>4, <1>5 DEF ReplicaNext

\* The invariant holds in every behaviour.
LEMMA ReplicaInvariance == ReplicaSpec => []ReplicaInv
  BY ReplicasInitially, ReplicasKeep, PTL DEF ReplicaSpec

\* If the block appoints nobody again whom it dismissed, it dismisses nobody who
\* is in its last list.
LEMMA NobodyReappointed ==
  ASSUME Typed, NEW h, NEW lists, Trace(lists, block, h), ~Reappoints
  PROVE  Stays(block, lists[Len(block)])
<1> DEFINE last == lists[Len(block)]
<1> SUFFICES ASSUME NEW i \in DOMAIN block
             PROVE  /\ block[i].kind = "remove" => ~Has(last.mgr, block[i].code)
                    /\ block[i].kind = "removeSu" => block[i].addr \notin Range(last.su)
  BY DEF Stays
<1>1. block \in Seq(Transaction)
  BY DEF Typed
<1>2. DOMAIN block = 1..Len(block) /\ Len(block) \in Nat
  BY <1>1, LenProperties
<1>3. /\ i \in 0..Len(block) /\ Len(block) \in 0..Len(block) /\ i <= Len(block)
      /\ i - 1 \in 0..Len(block)
  BY <1>2
<1> DEFINE t == block[i]
<1>4. t \in Transaction
  BY <1>1, <1>2, ElementOfSeq
<1>5. lists[i] = Effect(t, lists[i - 1]) /\ GoodRegistry(lists[i - 1]) /\ GoodRegistry(last)
  BY <1>2, <1>3, TraceGood DEF Trace
<1>6. \A j \in (i + 1)..Len(block) : j \in DOMAIN block /\ i < j /\ block[j] \in Transaction
  BY <1>1, <1>2, ElementOfSeq
<1> HIDE DEF t, last
<1>7. ASSUME t.kind = "remove" PROVE ~Has(last.mgr, t.code)
  <2>1. t.code \in Code
    BY <1>4, <1>7, TransactionFacts
  <2>2. ManagerOf(lists[i])[t.code] = Nil
    BY <1>4, <1>5, <1>7, <2>1, EffectManagers
  <2>3. CASE ManagerOf(last)[t.code] = Nil
    <3>1. Looked(last.mgr, t.code) = Nil
      BY <2>1, <2>3, ManagerOfLooked
    <3>2. last.mgr \in Seq(Entry) /\ UniqueCodes(last.mgr)
      BY <1>5 DEF GoodRegistry, Registry, NoDuplicates
    <3> QED BY <3>1, <3>2, HasFacts
  <2>4. CASE ManagerOf(last)[t.code] # Nil
    <3>1. PICK j \in (i + 1)..Len(block) : Decides(block[j], t.code, ManagerOf(last)[t.code])
      BY <1>3, <2>1, <2>2, <2>4 DEF Trace, last
    <3>2. block[j].kind = "add" /\ block[j].code = t.code
      BY <2>4, <3>1 DEF Decides
    <3>3. SameEntry(t, block[j])
      BY <2>1, <3>2, NilAssumption DEF SameEntry
    <3>4. Reappoints
      BY <1>6, <1>7, <3>1, <3>2, <3>3 DEF Reappoints, t
    <3> QED BY <3>4
  <2> QED BY <2>3, <2>4
<1>8. ASSUME t.kind = "removeSu" PROVE t.addr \notin Range(last.su)
  <2>1. t.addr \in Address /\ t.code = Nil
    BY <1>4, <1>8, TransactionFacts
  <2>2. t.addr \notin Range(lists[i].su)
    BY <1>4, <1>5, <1>8, EffectSuManagers
  <2> SUFFICES ASSUME t.addr \in Range(last.su) PROVE FALSE
    OBVIOUS
  <2>3. PICK j \in (i + 1)..Len(block) : DecidesSu(block[j], t.addr, t.addr \in Range(last.su))
    BY <1>3, <2>1, <2>2 DEF Trace, last
  <2>4. block[j].kind = "addSu" /\ block[j].addr = t.addr
    BY <2>3 DEF DecidesSu
  <2>5. block[j].code = Nil
    BY <1>6, <2>3, <2>4, TransactionFacts
  <2>6. SameEntry(t, block[j])
    BY <2>1, <2>4, <2>5 DEF SameEntry
  <2>7. Reappoints
    BY <1>6, <1>8, <2>3, <2>4, <2>6 DEF Reappoints, t
  <2> QED BY <2>7
<1> QED BY <1>7, <1>8 DEF t, last

\* The invariant says so of the list at work and that of the block.
LEMMA InvAgrees == ReplicaInv => ReplicasAgree
<1> SUFFICES ASSUME ReplicaInv, Executed, Sound
             PROVE  /\ ManagerOf(registry) = ManagerOf(root) /\ Range(registry.su) = Range(root.su)
                    /\ worker # publisher \/ ~Reappoints => registry = root
  BY DEF ReplicasAgree
<1>1. worker \notin astray /\ publisher \notin astray
  BY DEF Sound
<1>2. PICK lists : Follows(lists)
  BY <1>1 DEF ReplicaInv, Executed
<1>3. Typed /\ pos = Len(block)
  BY DEF ReplicaInv, Executed
<1>4. /\ Trace(lists, block, registryHead) /\ root = lists[Len(block)]
      /\ AtWork(mem, registry, lists, block, registryHead, Len(block), worker = publisher)
  BY <1>1, <1>2, <1>3 DEF Follows
<1>5. DOMAIN block = 1..Len(block)
  BY <1>3, LenProperties DEF Typed
<1>6. GoodRegistry(registry) /\ GoodRegistry(root)
  BY <1>3 DEF Typed
<1>7. CASE registry = lists[Len(block)]
  BY <1>4, <1>7
<1>8. CASE worker = publisher /\ ~Plain(block) /\ Ahead(mem, registry, lists, block, registryHead, Len(block))
  <2>1. \E i \in 1..Len(block) : Writes(block[i])
    BY <1>5, <1>8 DEF Plain
  <2>2. /\ registry = Held(mem)
        /\ \A c \in Code : ManagerOf(registry)[c] = ManagerOf(root)[c]
        /\ \A a \in Address : a \in Range(registry.su) <=> a \in Range(root.su)
        /\ Stays(block, root) => Begins(registry, root)
    BY <1>4, <1>8, <2>1 DEF Ahead
  <2>3. ManagerOf(registry) = ManagerOf(root)
    BY <2>2 DEF ManagerOf
  <2>4. Range(registry.su) \subseteq Address /\ Range(root.su) \subseteq Address
    <3>1. registry.su \in Seq(Address) /\ root.su \in Seq(Address)
      BY <1>6 DEF GoodRegistry, Registry
    <3>2. /\ \A i \in DOMAIN registry.su : registry.su[i] \in Address
          /\ \A i \in DOMAIN root.su : root.su[i] \in Address
      BY <3>1, LenProperties, ElementOfSeq
    <3> QED BY <3>2 DEF Range
  <2>5. Range(registry.su) = Range(root.su)
    BY <2>2, <2>4
  <2>6. ~Reappoints => registry = root
    BY <1>3, <1>4, <1>6, <2>2, <2>3, <2>5, NobodyReappointed, SameLists
  <2> QED BY <1>8, <2>3, <2>5, <2>6
<1> QED BY <1>4, <1>7, <1>8 DEF AtWork

\* A sound validator that executes the block of a sound publisher to its end
\* arrives at the publisher's list, provided that the operator dismisses only
\* managers and sends OP_MANAGER in a block of its own (Sendable): whatever others
\* both have loaded, cleared, lost in restarts, and accepted or refused before.
\* The publisher itself, whose memory has been through the block already, arrives
\* at the same managers, and at the same list unless the block appoints again
\* whom it dismissed.
THEOREM ReplicasAgreeHolds == ReplicaSpec => []ReplicasAgree
  BY ReplicaInvariance, InvAgrees, PTL

\* A sound validator that says something of a sound publisher's block before its
\* end is that publisher, about a use that the block outdates.
LEMMA SpeaksEarly ==
  ASSUME ReplicaInv, ReplicaInv', ReplicaNext, stage' = "checking",
         verdict' # verdict, pos < Len(block), Sound'
  PROVE  Check /\ worker = publisher /\ Outdated(block, pos)
<1>1. CASE Check
  <2>1. /\ stage = "checking" /\ verdict[worker] = "none"
        /\ pos' = IF Passed THEN pos + 1 ELSE pos
        /\ verdict' = [verdict EXCEPT ![worker] = IF Died \/ Passed THEN "none" ELSE "refuses"]
        /\ UNCHANGED <<stage, worker, publisher, block, root, parked>>
    BY <1>1 DEF Check
  <2>2. verdict \in [Validator -> Verdict] /\ worker \in Validator
    BY <2>1 DEF ReplicaInv, Typed, Checking
  <2>3. ~(Died \/ Passed)
    BY <2>1, <2>2
  <2>4. verdict'[worker] = "refuses" /\ pos' = pos
    BY <2>1, <2>2, <2>3
  <2>5. worker' \notin astray' /\ publisher' \notin astray'
    BY DEF Sound
  <2>6. PICK lists : Follows(lists)'
    BY <2>5 DEF ReplicaInv
  <2>7. worker = publisher /\ Outdated(block, pos)'
    BY <2>1, <2>4, <2>5, <2>6 DEF Follows
  <2> QED BY <1>1, <2>1, <2>4, <2>7 DEF Outdated, Unseats
<1>2. CASE Compare
  <2>1. pos = Len(block)
    BY <1>2 DEF Compare
  <2>2. Len(block) \in Nat
    BY LenProperties DEF ReplicaInv, Typed
  <2> QED BY <2>1, <2>2
<1>3. CASE Publish \/ NextValidator \/ \E v \in Validator : Build(v) \/ RestartParked(v)
  BY <1>3 DEF Publish, NextValidator, Build, RestartParked
<1>4. CASE \E t \in Transaction : Include(t)
  BY <1>4 DEF Include
<1>5. CASE Commit \/ Drop
  BY <1>5 DEF Commit, Drop, Finish
<1>6. CASE RestartWorker
  BY <1>6 DEF RestartWorker, runVars
<1> QED BY <1>1, <1>2, <1>3, <1>4, <1>5, <1>6 DEF ReplicaNext

\* What a sound publisher let into its block, every sound validator lets pass,
\* under the same condition on the operator; only the publisher itself, executing
\* the block again, may refuse one, of a manager whom a later transaction of the
\* same block dismisses.
THEOREM GrantsAreRepeatedHolds == ReplicaSpec => GrantsAreRepeated
<1>1. ReplicaInv /\ ReplicaInv' /\ [ReplicaNext]_replicaVars =>
        [stage' = "checking" /\ verdict' # verdict /\ pos < Len(block) /\ Sound' =>
           /\ worker = publisher
           /\ block[pos + 1].kind = "use"
           /\ \E i \in (pos + 2)..Len(block) : Unseats(block[i], block[pos + 1])]_replicaVars
  BY SpeaksEarly DEF Outdated
<1> QED BY <1>1, ReplicaInvariance, PTL DEF ReplicaSpec, GrantsAreRepeated

\* What the block says of itself does not change while it is checked.
LEMMA BlameKept == block' = block => (Reappoints' <=> Reappoints) /\ (Outdates' <=> Outdates)
  BY DEF Reappoints, Outdates, Unseats, SameEntry

\* Who refused, and who published the refused block, stays astray until the
\* block is done with.
LEMMA StaysAstray ==
  ASSUME [ReplicaNext]_replicaVars, NEW v \in Validator,
         verdict[v] = "refuses", verdict'[v] = "refuses", publisher' = publisher
  PROVE  /\ v \in astray => v \in astray'
         /\ publisher \in astray => publisher \in astray'
<1>1. CASE \E w \in Validator : Build(w) \/ RestartParked(w)
  BY <1>1 DEF Build, RestartParked
<1>2. CASE \E t \in Transaction : Include(t)
  BY <1>2 DEF Include, Exposed
<1>3. CASE Publish \/ Check \/ Compare \/ NextValidator
  BY <1>3 DEF Publish, Check, Compare, NextValidator, Exposed
<1>4. CASE Commit \/ Drop \/ RestartWorker
  BY <1>4 DEF Commit, Drop, RestartWorker
<1>5. CASE UNCHANGED replicaVars
  BY <1>5 DEF replicaVars
<1> QED BY <1>1, <1>2, <1>3, <1>4, <1>5 DEF ReplicaNext

\* While all processors are sound, nobody but its publisher refuses a block, and
\* the publisher only if the block appoints again whom it dismissed or unseats a
\* manager it has served; Sendable is the operator's part of this.
THEOREM RefusedByPublisherHolds == ReplicaSpec => []RefusedByPublisher
<1>1. ReplicaInit => RefusedByPublisher
  BY DEF ReplicaInit, NoVerdict, RefusedByPublisher
<1>2. ReplicaInv /\ ReplicaInv' /\ RefusedByPublisher /\ [ReplicaNext]_replicaVars => RefusedByPublisher'
  <2> SUFFICES ASSUME ReplicaInv, ReplicaInv', RefusedByPublisher, [ReplicaNext]_replicaVars,
                      NEW v \in Validator, verdict'[v] = "refuses",
                      v \notin astray', publisher' \notin astray'
               PROVE  v = publisher' /\ (Reappoints' \/ Outdates')
    BY DEF RefusedByPublisher
  <2> DEFINE Same == publisher' = publisher /\ block' = block
  <2>1. CASE verdict[v] = "refuses" /\ Same
    <3>1. v \notin astray /\ publisher \notin astray
      BY <2>1, StaysAstray
    <3>2. v = publisher /\ (Reappoints \/ Outdates)
      BY <2>1, <3>1 DEF RefusedByPublisher
    <3> QED BY <2>1, <3>2, BlameKept
  <2>2. CASE Check \/ Compare
    <3>1. /\ stage = "checking" /\ verdict[worker] = "none" /\ Same
          /\ \E w \in Verdict : verdict' = [verdict EXCEPT ![worker] = w]
          /\ stage' = stage /\ worker' = worker
      BY <2>2 DEF Check, Compare, Verdict
    <3>2. verdict \in [Validator -> Verdict] /\ worker \in Validator
      BY <3>1 DEF ReplicaInv, Typed, Checking
    <3>3. CASE v # worker
      BY <2>1, <3>1, <3>2, <3>3
    <3>4. Sound' \/ v # worker
      BY <3>1 DEF Sound
    <3>5. CASE v = worker /\ pos < Len(block)
      <4>1. verdict' # verdict
        BY <3>1, <3>5
      <4>2. ReplicaNext
        BY <2>2 DEF ReplicaNext
      <4>3. worker = publisher /\ Outdated(block, pos)
        BY <3>1, <3>4, <3>5, <4>1, <4>2, SpeaksEarly
      <4>4. pos \in Nat /\ DOMAIN block = 1..Len(block) /\ Len(block) \in Nat
        BY LenProperties DEF ReplicaInv, Typed
      <4>5. PICK j \in (pos + 2)..Len(block) : Unseats(block[j], block[pos + 1])
        BY <4>3 DEF Outdated
      <4>6. pos + 1 \in DOMAIN block /\ j \in DOMAIN block /\ pos + 1 < j
        BY <3>5, <4>4, <4>5
      <4>7. Outdates
        BY <4>3, <4>5, <4>6 DEF Outdates, Outdated
      <4> QED BY <3>1, <3>5, <4>3, <4>7, BlameKept
    <3>6. CASE v = worker /\ ~(pos < Len(block))
      <4>1. Compare
        BY <2>2, <3>6 DEF Check
      <4>2. pos = Len(block) /\ registry # root /\ astray' = astray
        BY <3>2, <3>6, <4>1 DEF Compare
      <4>3. Sound
        BY <3>1, <3>6, <4>2 DEF Sound
      <4>4. worker = publisher /\ Reappoints
        BY <3>1, <4>2, <4>3, InvAgrees DEF ReplicasAgree, Executed
      <4> QED BY <3>1, <3>6, <4>4, BlameKept
    <3> QED BY <3>3, <3>5, <3>6
  <2>3. CASE \E w \in Validator : Build(w)
    <3>1. stage = "idle" /\ verdict' = verdict
      BY <2>3 DEF Build
    <3> QED BY <3>1 DEF ReplicaInv, Idle, NoVerdict
  <2>4. CASE \E t \in Transaction : Include(t)
    <3>1. stage = "building" /\ verdict' = verdict
      BY <2>4 DEF Include
    <3> QED BY <3>1 DEF ReplicaInv, Building, NoVerdict
  <2>5. CASE Publish
    <3>1. stage = "building" /\ verdict' = verdict
      BY <2>5 DEF Publish
    <3> QED BY <3>1 DEF ReplicaInv, Building, NoVerdict
  <2>6. CASE NextValidator \/ RestartWorker \/ UNCHANGED replicaVars \/ \E w \in Validator : RestartParked(w)
    BY <2>1, <2>6 DEF NextValidator, RestartWorker, RestartParked, replicaVars, runVars
  <2>7. CASE Commit \/ Drop
    BY <2>7 DEF Commit, Drop, Finish, NoVerdict
  <2> QED BY <2>2, <2>3, <2>4, <2>5, <2>6, <2>7 DEF ReplicaNext
<1> QED BY <1>1, <1>2, ReplicaInvariance, PTL DEF ReplicaSpec
=============================================================================
