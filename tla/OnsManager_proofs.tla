------------------------- MODULE OnsManager_proofs -------------------------
(***************************************************************************)
(* The manager package, for any number of addresses and codes.  First what *)
(* holds under every restart, given-up block and failed read or write;     *)
(* then what holds if it is operated as its authors mean it to be: the     *)
(* cached list is the list in state, and the package implements            *)
(* ManagerRegistry.                                                        *)
(***************************************************************************)
EXTENDS OnsManagerOperated, OnsManagerLives, ListFacts

GoodMemory(m) == m \in Memory /\ NoDuplicates(Held(m)) /\ SuWithinMap(m)
GoodRegistry(r) == r \in Registry /\ NoDuplicates(r)

\* The inductive invariant: the list never has duplicates because the su map
\* is never behind the su list.
IInv ==
  /\ GoodMemory(mem)
  /\ GoodRegistry(registry)
  /\ GoodRegistry(registryHead)
  /\ txn \in Txn

-----------------------------------------------------------------------------
(* Sequences *)

\* Removing an element keeps a list of su managers free of duplicates.
LEMMA RemoveAtInjective ==
  ASSUME NEW S, NEW s \in Seq(S), NEW k \in DOMAIN s, Injective(s)
  PROVE  /\ Injective(RemoveAt(s, k))
         /\ \A j \in DOMAIN RemoveAt(s, k) :
              \E i \in DOMAIN s : i # k /\ RemoveAt(s, k)[j] = s[i]
<1>1. k \in 1..Len(s) /\ Len(s) \in Nat /\ DOMAIN s = 1..Len(s)
  BY LenProperties
<1>2. /\ DOMAIN RemoveAt(s, k) = 1..(Len(s) - 1)
      /\ \A j \in 1..(Len(s) - 1) : RemoveAt(s, k)[j] = IF j < k THEN s[j] ELSE s[j + 1]
  BY RemoveAtFacts
<1>3. \A i, j \in 1..Len(s) : s[i] = s[j] => i = j
  BY <1>1 DEF Injective
<1>4. ASSUME NEW i \in 1..(Len(s) - 1), NEW j \in 1..(Len(s) - 1),
             RemoveAt(s, k)[i] = RemoveAt(s, k)[j]
      PROVE  i = j
  BY <1>1, <1>2, <1>3, <1>4
<1>5. ASSUME NEW j \in 1..(Len(s) - 1)
      PROVE  \E i \in 1..Len(s) : i # k /\ RemoveAt(s, k)[j] = s[i]
  <2>1. CASE j < k
    BY <1>1, <1>2, <2>1
  <2>2. CASE ~(j < k)
    <3>1. j + 1 \in 1..Len(s) /\ j + 1 # k /\ RemoveAt(s, k)[j] = s[j + 1]
      BY <1>1, <1>2, <2>2
    <3> QED BY <3>1
  <2> QED BY <2>1, <2>2
<1> QED BY <1>1, <1>2, <1>4, <1>5 DEF Injective

\* The same for lists without two entries of one code.
LEMMA RemoveAtUnique ==
  ASSUME NEW s \in Seq(Entry), NEW k \in DOMAIN s, UniqueCodes(s)
  PROVE  /\ UniqueCodes(RemoveAt(s, k))
         /\ \A j \in DOMAIN RemoveAt(s, k) :
              \E i \in DOMAIN s : i # k /\ RemoveAt(s, k)[j] = s[i]
<1>1. k \in 1..Len(s) /\ Len(s) \in Nat /\ DOMAIN s = 1..Len(s)
  BY LenProperties
<1>2. /\ DOMAIN RemoveAt(s, k) = 1..(Len(s) - 1)
      /\ \A j \in 1..(Len(s) - 1) : RemoveAt(s, k)[j] = IF j < k THEN s[j] ELSE s[j + 1]
  BY RemoveAtFacts
<1>3. \A i, j \in 1..Len(s) : s[i].gs1 = s[j].gs1 => i = j
  BY <1>1 DEF UniqueCodes
<1>4. ASSUME NEW i \in 1..(Len(s) - 1), NEW j \in 1..(Len(s) - 1),
             RemoveAt(s, k)[i].gs1 = RemoveAt(s, k)[j].gs1
      PROVE  i = j
  BY <1>1, <1>2, <1>3, <1>4
<1>5. ASSUME NEW j \in 1..(Len(s) - 1)
      PROVE  \E i \in 1..Len(s) : i # k /\ RemoveAt(s, k)[j] = s[i]
  <2>1. CASE j < k
    BY <1>1, <1>2, <2>1
  <2>2. CASE ~(j < k)
    <3>1. j + 1 \in 1..Len(s) /\ j + 1 # k /\ RemoveAt(s, k)[j] = s[j + 1]
      BY <1>1, <1>2, <2>2
    <3> QED BY <3>1
  <2> QED BY <2>1, <2>2
<1> QED BY <1>1, <1>2, <1>4, <1>5 DEF UniqueCodes

\* Find finds.
LEMMA FindFacts ==
  ASSUME NEW list, NEW c, Has(list, c)
  PROVE  Find(list, c) \in DOMAIN list /\ list[Find(list, c)].gs1 = c
  BY DEF Has, Find

\* Overwriting the entry of a code by one of the same code.
LEMMA ReplaceEntryFacts ==
  ASSUME NEW list \in Seq(Entry), UniqueCodes(list),
         NEW c \in Code, NEW a \in Address, Has(list, c)
  PROVE  LET new == [list EXCEPT ![Find(list, c)] = [gs1 |-> c, addr |-> a]]
         IN  new \in Seq(Entry) /\ UniqueCodes(new)
<1> DEFINE k == Find(list, c)
           e == [gs1 |-> c, addr |-> a]
           new == [list EXCEPT ![k] = e]
<1>1. k \in DOMAIN list /\ list[k].gs1 = c
  BY FindFacts
<1>2. e \in Entry /\ e.gs1 = c
  BY DEF Entry
<1> HIDE DEF k, e
<1>3. /\ new \in Seq(Entry) /\ DOMAIN new = DOMAIN list
      /\ \A j \in DOMAIN list : new[j] = IF j = k THEN e ELSE list[j]
  BY <1>1, <1>2, ExceptSeq, LenProperties
<1> HIDE DEF new
<1>4. \A j \in DOMAIN list : new[j].gs1 = list[j].gs1
  BY <1>1, <1>2, <1>3
<1>5. UniqueCodes(new)
  BY <1>3, <1>4 DEF UniqueCodes
<1> QED BY <1>3, <1>5 DEF new, k, e

\* Appending an entry of a new code.
LEMMA AppendEntryFacts ==
  ASSUME NEW list \in Seq(Entry), UniqueCodes(list), NEW e \in Entry, ~Has(list, e.gs1)
  PROVE  Append(list, e) \in Seq(Entry) /\ UniqueCodes(Append(list, e))
<1>1. /\ Append(list, e) \in Seq(Entry)
      /\ DOMAIN Append(list, e) = 1..(Len(list) + 1)
      /\ DOMAIN list = 1..Len(list) /\ Len(list) \in Nat
      /\ \A i \in 1..Len(list) : Append(list, e)[i] = list[i]
      /\ Append(list, e)[Len(list) + 1] = e
  BY AppendProperties, LenProperties
<1>2. ASSUME NEW i \in 1..(Len(list) + 1), NEW j \in 1..(Len(list) + 1),
             Append(list, e)[i].gs1 = Append(list, e)[j].gs1
      PROVE  i = j
  <2>1. CASE i \in 1..Len(list) /\ j \in 1..Len(list)
    BY <1>1, <1>2, <2>1 DEF UniqueCodes
  <2>2. CASE i = Len(list) + 1 /\ j = Len(list) + 1
    BY <2>2
  <2>3. CASE i \in 1..Len(list) /\ j = Len(list) + 1
    BY <1>1, <1>2, <2>3 DEF Has
  <2>4. CASE i = Len(list) + 1 /\ j \in 1..Len(list)
    BY <1>1, <1>2, <2>4 DEF Has
  <2> QED BY <1>1, <2>1, <2>2, <2>3, <2>4
<1> QED BY <1>1, <1>2 DEF UniqueCodes

\* Appending an address that is not listed.
LEMMA AppendAddressFacts ==
  ASSUME NEW list \in Seq(Address), Injective(list), NEW a \in Address,
         \A i \in DOMAIN list : list[i] # a
  PROVE  /\ Append(list, a) \in Seq(Address)
         /\ Injective(Append(list, a))
         /\ \A i \in DOMAIN Append(list, a) :
              Append(list, a)[i] = a \/ \E j \in DOMAIN list : Append(list, a)[i] = list[j]
<1>1. /\ Append(list, a) \in Seq(Address)
      /\ DOMAIN Append(list, a) = 1..(Len(list) + 1)
      /\ DOMAIN list = 1..Len(list) /\ Len(list) \in Nat
      /\ \A i \in 1..Len(list) : Append(list, a)[i] = list[i]
      /\ Append(list, a)[Len(list) + 1] = a
  BY AppendProperties, LenProperties
<1>2. ASSUME NEW i \in 1..(Len(list) + 1), NEW j \in 1..(Len(list) + 1),
             Append(list, a)[i] = Append(list, a)[j]
      PROVE  i = j
  <2>1. CASE i \in 1..Len(list) /\ j \in 1..Len(list)
    BY <1>1, <1>2, <2>1 DEF Injective
  <2>2. CASE i = Len(list) + 1 /\ j = Len(list) + 1
    BY <2>2
  <2>3. CASE i \in 1..Len(list) /\ j = Len(list) + 1
    BY <1>1, <1>2, <2>3
  <2>4. CASE i = Len(list) + 1 /\ j \in 1..Len(list)
    BY <1>1, <1>2, <2>4
  <2> QED BY <1>1, <2>1, <2>2, <2>3, <2>4
<1> QED BY <1>1, <1>2 DEF Injective

-----------------------------------------------------------------------------
(* Each helper of the package keeps a good memory good *)

\* A list that is nil counts as empty.
LEMMA EntriesFacts ==
  ASSUME NEW S, NEW list \in Seq(S) \cup {Nil}
  PROVE  Entries(list) \in Seq(S)
  BY EmptySeq DEF Entries

\* Reading an empty list as nil and nil as an empty list loses nothing.
LEMMA NilIfEmptyFacts ==
  ASSUME NEW S, NEW list \in Seq(S), Nil \notin Seq(S)
  PROVE  NilIfEmpty(list) \in Seq(S) \cup {Nil} /\ Entries(NilIfEmpty(list)) = list
  BY DEF Entries, NilIfEmpty

\* Nothing is listed in an empty list.
LEMMA EmptyFacts ==
  /\ Entries(Nil) = <<>> /\ DOMAIN Entries(Nil) = {}
  /\ Injective(<<>>) /\ UniqueCodes(<<>>)
  BY DEF Entries, Injective, UniqueCodes

\* What a process saves is a good registry.
LEMMA HeldGood ==
  ASSUME NEW m, GoodMemory(m)
  PROVE  GoodRegistry(Held(m))
<1>1. Entries(m.su) \in Seq(Address)
  BY EntriesFacts DEF GoodMemory, Memory
<1>2. Entries(m.mgr) \in Seq(Entry)
  BY EntriesFacts DEF GoodMemory, Memory
<1> QED BY <1>1, <1>2 DEF GoodMemory, GoodRegistry, Held, Registry

\* The memory of a new process, with or without a su map.
LEMMA FreshGood ==
  GoodMemory(Fresh) /\ GoodMemory([Fresh EXCEPT !.suMap = Nil])
  BY EmptyFacts DEF GoodMemory, Memory, Fresh, NoManagers, NoDuplicates, Held, SuWithinMap

\* clearCachedONSManager.
LEMMA ClearedGood ==
  ASSUME NEW m, GoodMemory(m)
  PROVE  GoodMemory(Cleared(m))
  BY FreshGood DEF Cleared

\* loadCachedONSManager: a load that does not panic either copies a list
\* without su managers or has a su map to copy them to.
LEMMA LoadedGood ==
  ASSUME NEW m, GoodMemory(m), GoodRegistry(registry), NEW readable \in BOOLEAN,
         ~LoadPanics(m, readable)
  PROVE  GoodMemory(Loaded(m, readable))
<1> DEFINE new == [su     |-> NilIfEmpty(registry.su),
                   mgr    |-> NilIfEmpty(registry.mgr),
                   cached |-> TRUE,
                   suMap  |-> IF m.suMap = Nil THEN Nil ELSE m.suMap \cup Range(registry.su),
                   mgrMap |-> [c \in Code |-> IF Has(registry.mgr, c)
                                              THEN registry.mgr[Find(registry.mgr, c)].addr
                                              ELSE m.mgrMap[c]]]
<1>1. CASE m.cached \/ ~readable \/ registry = Absent
  BY <1>1 DEF Loaded
<1>2. CASE ~(m.cached \/ ~readable \/ registry = Absent)
  <2>1. registry.su \in Seq(Address) /\ registry.mgr \in Seq(Entry)
    BY DEF GoodRegistry, Registry
  <2>2. /\ new.su \in Seq(Address) \cup {Nil} /\ Entries(new.su) = registry.su
        /\ new.mgr \in Seq(Entry) \cup {Nil} /\ Entries(new.mgr) = registry.mgr
    BY <2>1, NilIfEmptyFacts, NilListAssumption
  <2>3. \A i \in DOMAIN registry.su : registry.su[i] \in Address /\ registry.su[i] \in Range(registry.su)
    BY <2>1, LenProperties, ElementOfSeq DEF Range
  <2>4. Range(registry.su) \subseteq Address
    BY <2>3 DEF Range
  <2>5. new.suMap \in (SUBSET Address) \cup {Nil}
    BY <2>4 DEF GoodMemory, Memory
  <2>6. new.mgrMap \in [Code -> Address \cup {Nil}]
    <3>1. ASSUME NEW c \in Code, Has(registry.mgr, c)
          PROVE  registry.mgr[Find(registry.mgr, c)].addr \in Address
      <4>1. Find(registry.mgr, c) \in DOMAIN registry.mgr
        BY <3>1, FindFacts
      <4>2. registry.mgr[Find(registry.mgr, c)] \in Entry
        BY <2>1, <4>1, LenProperties, ElementOfSeq
      <4> QED BY <4>2 DEF Entry
    <3> QED BY <3>1 DEF GoodMemory, Memory
  <2>7. new \in Memory
    <3> HIDE DEF new
    <3>1. new = [su |-> new.su, mgr |-> new.mgr, cached |-> new.cached,
                 suMap |-> new.suMap, mgrMap |-> new.mgrMap]
      BY DEF new
    <3>2. new.cached \in BOOLEAN
      BY DEF new
    <3> QED BY <2>2, <2>5, <2>6, <3>1, <3>2 DEF Memory
  <2>8. NoDuplicates(Held(new))
    BY <2>2 DEF Held, NoDuplicates, GoodRegistry
  <2>9. SuWithinMap(new)
    <3>1. CASE m.suMap = Nil
      <4>1. registry.su = <<>>
        BY <1>2, <3>1 DEF LoadPanics
      <4>2. DOMAIN registry.su = {}
        BY <4>1, EmptySeq, LenProperties
      <4> HIDE DEF new
      <4> QED BY <2>2, <4>2 DEF SuWithinMap
    <3>2. CASE m.suMap # Nil
      <4>1. new.suMap = m.suMap \cup Range(registry.su)
        BY <3>2
      <4>2. new.suMap # Nil
        BY <4>1, <3>2, <2>4, NilAssumption DEF GoodMemory, Memory
      <4> QED BY <2>2, <2>3, <4>1, <4>2 DEF SuWithinMap
    <3> QED BY <3>1, <3>2
  <2>10. Loaded(m, readable) = new
    BY <1>2 DEF Loaded
  <2> HIDE DEF new
  <2> QED BY <2>7, <2>8, <2>9, <2>10 DEF GoodMemory
<1> QED BY <1>1, <1>2

\* A record of the five globals with good parts is a good memory.
LEMMA MemoryIntro ==
  ASSUME NEW su \in Seq(Address) \cup {Nil}, NEW mgr \in Seq(Entry) \cup {Nil},
         NEW cached \in BOOLEAN, NEW suMap \in (SUBSET Address) \cup {Nil},
         NEW mgrMap \in [Code -> Address \cup {Nil}],
         Injective(Entries(su)), UniqueCodes(Entries(mgr)),
         \A i \in DOMAIN Entries(su) : suMap # Nil /\ Entries(su)[i] \in suMap
  PROVE  GoodMemory([su |-> su, mgr |-> mgr, cached |-> cached, suMap |-> suMap, mgrMap |-> mgrMap])
  BY DEF GoodMemory, Memory, NoDuplicates, Held, SuWithinMap

\* And back.
LEMMA MemoryElim ==
  ASSUME NEW m, GoodMemory(m)
  PROVE  /\ m = [su |-> m.su, mgr |-> m.mgr, cached |-> m.cached,
                 suMap |-> m.suMap, mgrMap |-> m.mgrMap]
         /\ m.su \in Seq(Address) \cup {Nil} /\ m.mgr \in Seq(Entry) \cup {Nil}
         /\ m.cached \in BOOLEAN /\ m.suMap \in (SUBSET Address) \cup {Nil}
         /\ m.mgrMap \in [Code -> Address \cup {Nil}]
         /\ Injective(Entries(m.su)) /\ UniqueCodes(Entries(m.mgr))
         /\ \A i \in DOMAIN Entries(m.su) : m.suMap # Nil /\ Entries(m.su)[i] \in m.suMap
  BY DEF GoodMemory, Memory, NoDuplicates, Held, SuWithinMap

\* AddGS1CodeManager changes the entry of the code or appends one.
LEMMA WithManagerGood ==
  ASSUME NEW m, GoodMemory(m), NEW c \in Code, NEW a \in Address
  PROVE  GoodMemory(WithManager(m, c, a))
<1> DEFINE list == Entries(m.mgr)
           e == [gs1 |-> c, addr |-> a]
           newMap == [m.mgrMap EXCEPT ![c] = a]
           newList == IF Has(list, c) THEN [list EXCEPT ![Find(list, c)] = e] ELSE Append(list, e)
<1>1. CASE m.mgrMap[c] = a
  BY <1>1 DEF WithManager
<1>2. CASE m.mgrMap[c] # a
  <2>1. list \in Seq(Entry) /\ UniqueCodes(list)
    BY MemoryElim, EntriesFacts
  <2>2. e \in Entry /\ e.gs1 = c
    BY DEF Entry
  <2>3. newList \in Seq(Entry) /\ UniqueCodes(newList)
    <3> HIDE DEF list
    <3>1. CASE Has(list, c)
      BY <2>1, <3>1, ReplaceEntryFacts
    <3>2. CASE ~Has(list, c)
      <4> HIDE DEF e
      <4> QED BY <2>1, <2>2, <3>2, AppendEntryFacts
    <3> QED BY <3>1, <3>2
  <2>4. newMap \in [Code -> Address \cup {Nil}]
    BY MemoryElim
  <2>5. Entries(newList) = newList
    BY <2>3, NilListAssumption DEF Entries
  <2>6. WithManager(m, c, a) = [m EXCEPT !.mgrMap = newMap, !.mgr = newList]
    BY <1>2 DEF WithManager
  <2>7. WithManager(m, c, a) = [su |-> m.su, mgr |-> newList, cached |-> m.cached,
                                suMap |-> m.suMap, mgrMap |-> newMap]
    <3> HIDE DEF newMap, newList
    <3> QED BY <2>6, MemoryElim DEF Memory, GoodMemory
  <2> HIDE DEF newMap, newList
  <2> QED
    <3>1. /\ m.su \in Seq(Address) \cup {Nil} /\ m.mgr \in Seq(Entry) \cup {Nil}
          /\ m.cached \in BOOLEAN /\ m.suMap \in (SUBSET Address) \cup {Nil}
          /\ m.mgrMap \in [Code -> Address \cup {Nil}]
          /\ Injective(Entries(m.su)) /\ UniqueCodes(Entries(m.mgr))
          /\ \A i \in DOMAIN Entries(m.su) : m.suMap # Nil /\ Entries(m.su)[i] \in m.suMap
      BY MemoryElim
    <3>2. GoodMemory([su |-> m.su, mgr |-> newList, cached |-> m.cached,
                      suMap |-> m.suMap, mgrMap |-> newMap])
      BY <3>1, <2>3, <2>4, <2>5, MemoryIntro
    <3> QED BY <3>2, <2>7
<1> QED BY <1>1, <1>2

\* RemoveGS1CodeManager drops the entry of the code, if there is one.
LEMMA WithoutManagerGood ==
  ASSUME NEW m, GoodMemory(m), m.mgr # Nil, NEW c \in Code
  PROVE  GoodMemory(WithoutManager(m, c))
<1> DEFINE newMap == [m.mgrMap EXCEPT ![c] = Nil]
           newList == IF Has(m.mgr, c) THEN RemoveAt(m.mgr, Find(m.mgr, c)) ELSE m.mgr
<1>1. m.mgr \in Seq(Entry) /\ UniqueCodes(m.mgr)
  BY MemoryElim DEF Entries
<1>2. newList \in Seq(Entry) /\ UniqueCodes(newList)
  <2>1. CASE Has(m.mgr, c)
    BY <1>1, <2>1, FindFacts, RemoveAtFacts, RemoveAtUnique
  <2>2. CASE ~Has(m.mgr, c)
    BY <1>1, <2>2
  <2> QED BY <2>1, <2>2
<1>3. newMap \in [Code -> Address \cup {Nil}]
  BY MemoryElim
<1>4. Entries(newList) = newList
  BY <1>2, NilListAssumption DEF Entries
<1>5. WithoutManager(m, c) = [m EXCEPT !.mgrMap = newMap, !.mgr = newList]
  BY DEF WithoutManager
<1> HIDE DEF newMap, newList
<1>6. WithoutManager(m, c) = [su |-> m.su, mgr |-> newList, cached |-> m.cached,
                              suMap |-> m.suMap, mgrMap |-> newMap]
  BY <1>5, MemoryElim DEF Memory, GoodMemory
<1> QED
  <2>1. /\ m.su \in Seq(Address) \cup {Nil} /\ m.mgr \in Seq(Entry) \cup {Nil}
        /\ m.cached \in BOOLEAN /\ m.suMap \in (SUBSET Address) \cup {Nil}
        /\ m.mgrMap \in [Code -> Address \cup {Nil}]
        /\ Injective(Entries(m.su)) /\ UniqueCodes(Entries(m.mgr))
        /\ \A i \in DOMAIN Entries(m.su) : m.suMap # Nil /\ Entries(m.su)[i] \in m.suMap
    BY MemoryElim
  <2>2. GoodMemory([su |-> m.su, mgr |-> newList, cached |-> m.cached,
                    suMap |-> m.suMap, mgrMap |-> newMap])
    BY <2>1, <1>2, <1>3, <1>4, MemoryIntro
  <2> QED BY <2>2, <1>6

\* AddSuManager appends an address the map, and so the list, does not have.
LEMMA WithSuGood ==
  ASSUME NEW m, GoodMemory(m), m.suMap # Nil, NEW a \in Address, a \notin m.suMap
  PROVE  GoodMemory(WithSu(m, a))
<1> DEFINE newMap == m.suMap \cup {a}
           newList == Append(Entries(m.su), a)
<1>1. Entries(m.su) \in Seq(Address) /\ Injective(Entries(m.su))
  BY MemoryElim, EntriesFacts
<1>2. \A i \in DOMAIN Entries(m.su) : Entries(m.su)[i] # a
  BY MemoryElim
<1>3. /\ newList \in Seq(Address) /\ Injective(newList)
      /\ \A i \in DOMAIN newList :
           newList[i] = a \/ \E j \in DOMAIN Entries(m.su) : newList[i] = Entries(m.su)[j]
  BY <1>1, <1>2, AppendAddressFacts
<1>4. newMap \in SUBSET Address /\ newMap # Nil
  BY MemoryElim, NilAssumption
<1>5. Entries(newList) = newList
  BY <1>3, NilListAssumption DEF Entries
<1>6. \A i \in DOMAIN newList : newList[i] \in newMap
  BY <1>3, MemoryElim
<1>7. WithSu(m, a) = [m EXCEPT !.suMap = newMap, !.su = newList]
  BY DEF WithSu
<1> HIDE DEF newMap, newList
<1>8. WithSu(m, a) = [su |-> newList, mgr |-> m.mgr, cached |-> m.cached,
                      suMap |-> newMap, mgrMap |-> m.mgrMap]
  BY <1>7, MemoryElim DEF Memory, GoodMemory
<1> QED
  <2>1. /\ m.su \in Seq(Address) \cup {Nil} /\ m.mgr \in Seq(Entry) \cup {Nil}
        /\ m.cached \in BOOLEAN /\ m.suMap \in (SUBSET Address) \cup {Nil}
        /\ m.mgrMap \in [Code -> Address \cup {Nil}]
        /\ Injective(Entries(m.su)) /\ UniqueCodes(Entries(m.mgr))
        /\ \A i \in DOMAIN Entries(m.su) : m.suMap # Nil /\ Entries(m.su)[i] \in m.suMap
    BY MemoryElim
  <2>2. GoodMemory([su |-> newList, mgr |-> m.mgr, cached |-> m.cached,
                    suMap |-> newMap, mgrMap |-> m.mgrMap])
    BY <2>1, <1>3, <1>4, <1>5, <1>6, MemoryIntro
  <2> QED BY <2>2, <1>8

\* RemoveSuManager drops the address from list and map: as the list has no
\* duplicates, no listed address is left without its map entry.
LEMMA WithoutSuGood ==
  ASSUME NEW m, GoodMemory(m), m.su # Nil, NEW a \in Address
  PROVE  GoodMemory(WithoutSu(m, a))
<1> DEFINE listed == \E i \in DOMAIN m.su : m.su[i] = a
           k == CHOOSE i \in DOMAIN m.su : m.su[i] = a
           newMap == IF m.suMap = Nil THEN Nil ELSE m.suMap \ {a}
           newList == IF listed THEN RemoveAt(m.su, k) ELSE m.su
<1>1. /\ m.su \in Seq(Address) /\ Injective(m.su) /\ Entries(m.su) = m.su
      /\ \A i \in DOMAIN m.su : m.suMap # Nil /\ m.su[i] \in m.suMap
  BY MemoryElim DEF Entries
<1>2. /\ newList \in Seq(Address) /\ Injective(newList)
      /\ \A j \in DOMAIN newList :
           newList[j] # a /\ \E i \in DOMAIN m.su : newList[j] = m.su[i]
  <2>1. CASE listed
    <3>1. k \in DOMAIN m.su /\ m.su[k] = a
      BY <2>1
    <3> HIDE DEF k
    <3>2. \A i \in DOMAIN m.su : i # k => m.su[i] # a
      BY <1>1, <3>1 DEF Injective
    <3>3. newList = RemoveAt(m.su, k)
      BY <2>1 DEF k
    <3>4. /\ RemoveAt(m.su, k) \in Seq(Address) /\ Injective(RemoveAt(m.su, k))
          /\ \A j \in DOMAIN RemoveAt(m.su, k) :
               \E i \in DOMAIN m.su : i # k /\ RemoveAt(m.su, k)[j] = m.su[i]
      BY <1>1, <3>1, RemoveAtFacts, RemoveAtInjective
    <3> QED BY <3>2, <3>3, <3>4
  <2>2. CASE ~listed
    BY <1>1, <2>2
  <2> QED BY <2>1, <2>2
<1>3. newMap \in (SUBSET Address) \cup {Nil} /\ (m.suMap # Nil => newMap # Nil)
  BY MemoryElim, NilAssumption
<1>4. Entries(newList) = newList
  BY <1>2, NilListAssumption DEF Entries
<1>5. \A j \in DOMAIN newList : newMap # Nil /\ newList[j] \in newMap
  BY <1>1, <1>2, <1>3
<1>6. WithoutSu(m, a) = [m EXCEPT !.suMap = newMap, !.su = newList]
  BY DEF WithoutSu
<1> HIDE DEF newMap, newList
<1>7. WithoutSu(m, a) = [su |-> newList, mgr |-> m.mgr, cached |-> m.cached,
                         suMap |-> newMap, mgrMap |-> m.mgrMap]
  BY <1>6, MemoryElim DEF Memory, GoodMemory
<1> QED
  <2>1. /\ m.su \in Seq(Address) \cup {Nil} /\ m.mgr \in Seq(Entry) \cup {Nil}
        /\ m.cached \in BOOLEAN /\ m.suMap \in (SUBSET Address) \cup {Nil}
        /\ m.mgrMap \in [Code -> Address \cup {Nil}]
        /\ Injective(Entries(m.su)) /\ UniqueCodes(Entries(m.mgr))
        /\ \A i \in DOMAIN Entries(m.su) : m.suMap # Nil /\ Entries(m.su)[i] \in m.suMap
    BY MemoryElim
  <2>2. GoodMemory([su |-> newList, mgr |-> m.mgr, cached |-> m.cached,
                    suMap |-> newMap, mgrMap |-> m.mgrMap])
    BY <2>1, <1>2, <1>3, <1>4, <1>5, MemoryIntro
  <2> QED BY <2>2, <1>7

-----------------------------------------------------------------------------
(* Each outcome keeps the invariant if the memory it leaves is good *)

\* A transaction that writes nothing and leaves a good memory.
LEMMA UnwrittenKeeps ==
  ASSUME IInv, NEW op \in Op, NEW by \in Address, NEW m, GoodMemory(m),
         NEW result \in Result, Unwritten(op, by, m, result)
  PROVE  IInv'
<1>1. txn' \in Txn
  BY DEF Unwritten, End, Txn
<1> QED BY <1>1 DEF IInv, Unwritten, GoodMemory, GoodRegistry, NoDuplicates, SuWithinMap, Memory, Registry,
              Held, Injective, UniqueCodes, Entries, Entry, Txn, NoTxn, Answer, NoAnswer

\* SaveONSManager: what is written is what is held.
LEMMA SaveKeeps ==
  ASSUME IInv, NEW op \in Op, NEW by \in Address, NEW m, GoodMemory(m),
         NEW writable \in BOOLEAN, SaveONSManager(op, by, m, writable)
  PROVE  IInv'
<1> USE DEF IInv, GoodMemory, GoodRegistry, NoDuplicates, SuWithinMap, Memory, Registry,
            Held, Injective, UniqueCodes, Entries, Entry, Txn, NoTxn, Answer, NoAnswer
<1>1. CASE ~writable
  <2>1. Unwritten(op, by, m, "internal")
    BY <1>1 DEF SaveONSManager
  <2>2. "internal" \in Result
    BY DEF Result
  <2> QED BY <2>1, <2>2, UnwrittenKeeps
<1>2. CASE writable
  <2>1. mem' = m /\ registry' = Held(m) /\ registryHead' = registryHead
    BY <1>2 DEF SaveONSManager, Unwritten
  <2>2. txn' \in Txn
    BY <1>2 DEF SaveONSManager, Unwritten, End, Result
  <2>3. GoodRegistry(Held(m))
    BY HeldGood
  <2> QED BY <2>1, <2>2, <2>3
<1> QED BY <1>1, <1>2

-----------------------------------------------------------------------------
(* Each transaction keeps the invariant *)

\* A panic: the next process starts on fresh memory.
LEMMA CrashKeeps ==
  ASSUME IInv, NEW op \in Op, NEW by \in Address, Crash(op, by)
  PROVE  IInv'
  BY FreshGood, UnwrittenKeeps DEF Crash, Result

\* A permission check leaves a good memory behind.
LEMMA ConsultedGood ==
  ASSUME IInv, NEW by \in Address, NEW readable \in BOOLEAN, ~ConsultPanics(by, readable)
  PROVE  GoodMemory(Consulted(by, readable))
  BY LoadedGood DEF Consulted, ConsultPanics, IInv

\* Somebody other than sudo is turned down.
LEMMA RefuseKeeps ==
  ASSUME IInv, NEW by \in Address, NEW readable \in BOOLEAN, Refuse(by, readable)
  PROVE  IInv'
<1>1. "refused" \in Op /\ "invalid" \in Result
  BY DEF Op, Result
<1>2. CASE ConsultPanics(by, readable)
  BY <1>1, <1>2, CrashKeeps DEF Refuse
<1>3. CASE ~ConsultPanics(by, readable)
  <2>1. Unwritten("refused", by, Consulted(by, readable), "invalid")
    BY <1>3 DEF Refuse
  <2> QED BY <1>1, <1>3, <2>1, ConsultedGood, UnwrittenKeeps
<1> QED BY <1>2, <1>3

\* applyAddManager.
LEMMA AddManagerKeeps ==
  ASSUME IInv, NEW by \in Address, NEW c \in Code, NEW a \in Address,
         NEW readable \in BOOLEAN, NEW writable \in BOOLEAN,
         AddManager(by, c, a, readable, writable)
  PROVE  IInv'
<1> DEFINE m == Loaded(mem, readable)
<1>1. "appoint" \in Op
  BY DEF Op
<1>2. CASE Refuse(by, readable)
  BY <1>2, RefuseKeeps
<1>3. CASE Crash("appoint", by)
  BY <1>1, <1>3, CrashKeeps
<1>4. CASE /\ ~LoadPanics(mem, readable)
           /\ SaveONSManager("appoint", by, WithManager(m, c, a), writable)
  <2>1. GoodMemory(m)
    BY <1>4, LoadedGood DEF IInv
  <2> HIDE DEF m
  <2>2. GoodMemory(WithManager(m, c, a))
    BY <2>1, WithManagerGood
  <2> QED BY <1>1, <1>4, <2>2, SaveKeeps
<1> QED BY <1>2, <1>3, <1>4 DEF AddManager

\* applyAddManager with code "0".
LEMMA DeleteAllManagerKeeps ==
  ASSUME IInv, NEW by \in Address, NEW readable \in BOOLEAN, NEW writable \in BOOLEAN,
         DeleteAllManager(by, readable, writable)
  PROVE  IInv'
<1>1. "reset" \in Op /\ "internal" \in Result /\ "ok" \in Result
  BY DEF Op, Result
<1>2. GoodMemory(Cleared(mem))
  BY ClearedGood DEF IInv
<1>3. CASE Refuse(by, readable)
  BY <1>3, RefuseKeeps
<1>4. CASE Unwritten("reset", by, Cleared(mem), "internal")
  BY <1>1, <1>2, <1>4, UnwrittenKeeps
<1>5. CASE /\ mem' = Cleared(mem) /\ registry' = Absent
           /\ End("reset", by, "ok") /\ UNCHANGED registryHead
  <2>1. GoodRegistry(Absent)
    BY EmptyFacts, EmptySeq DEF GoodRegistry, Registry, Absent, NoDuplicates
  <2>2. txn' \in Txn
    BY <1>1, <1>5 DEF End, Txn
  <2> QED BY <1>2, <1>5, <2>1, <2>2
        DEF IInv, GoodMemory, GoodRegistry, NoDuplicates, SuWithinMap, Memory, Registry,
            Held, Injective, UniqueCodes, Entries, Entry, Txn, NoTxn, Answer, NoAnswer
<1> QED BY <1>3, <1>4, <1>5 DEF DeleteAllManager

\* applyRemoveManager.
LEMMA RemoveManagerKeeps ==
  ASSUME IInv, NEW by \in Address, NEW c \in Code,
         NEW readable \in BOOLEAN, NEW writable \in BOOLEAN,
         RemoveManager(by, c, readable, writable)
  PROVE  IInv'
<1> DEFINE m == Loaded(mem, readable)
<1>1. "dismiss" \in Op /\ "internal" \in Result
  BY DEF Op, Result
<1>2. CASE Refuse(by, readable)
  BY <1>2, RefuseKeeps
<1>3. CASE Crash("dismiss", by)
  BY <1>1, <1>3, CrashKeeps
<1>4. CASE ~LoadPanics(mem, readable) /\ Unwritten("dismiss", by, m, "internal")
  BY <1>1, <1>4, LoadedGood, UnwrittenKeeps DEF IInv
<1>5. CASE /\ ~LoadPanics(mem, readable) /\ m.mgr # Nil
           /\ SaveONSManager("dismiss", by, WithoutManager(m, c), writable)
  <2>1. GoodMemory(m)
    BY <1>5, LoadedGood DEF IInv
  <2> HIDE DEF m
  <2>2. GoodMemory(WithoutManager(m, c))
    BY <1>5, <2>1, WithoutManagerGood
  <2> QED BY <1>1, <1>5, <2>2, SaveKeeps
<1> QED BY <1>2, <1>3, <1>4, <1>5 DEF RemoveManager

\* applyAddSuManager: the map is consulted before the list is appended to.
LEMMA AddSuManagerKeeps ==
  ASSUME IInv, NEW by \in Address, NEW a \in Address,
         NEW readable \in BOOLEAN, NEW writable \in BOOLEAN,
         AddSuManager(by, a, readable, writable)
  PROVE  IInv'
<1>1. "appoint" \in Op
  BY DEF Op
<1>2. CASE Refuse(by, readable)
  BY <1>2, RefuseKeeps
<1>3. CASE Crash("appoint", by)
  BY <1>1, <1>3, CrashKeeps
<1>4. CASE SaveONSManager("appoint", by, mem, writable)
  BY <1>1, <1>4, SaveKeeps DEF IInv
<1>5. CASE /\ mem.suMap # Nil /\ a \notin mem.suMap
           /\ SaveONSManager("appoint", by, WithSu(mem, a), writable)
  <2>1. GoodMemory(WithSu(mem, a))
    BY <1>5, WithSuGood DEF IInv
  <2> QED BY <1>1, <1>5, <2>1, SaveKeeps
<1> QED BY <1>2, <1>3, <1>4, <1>5 DEF AddSuManager

\* applyRemoveSuManager.
LEMMA RemoveSuManagerKeeps ==
  ASSUME IInv, NEW by \in Address, NEW a \in Address,
         NEW readable \in BOOLEAN, NEW writable \in BOOLEAN,
         RemoveSuManager(by, a, readable, writable)
  PROVE  IInv'
<1>1. "dismiss" \in Op /\ "internal" \in Result
  BY DEF Op, Result
<1>2. CASE Refuse(by, readable)
  BY <1>2, RefuseKeeps
<1>3. CASE Unwritten("dismiss", by, mem, "internal")
  BY <1>1, <1>3, UnwrittenKeeps DEF IInv
<1>4. CASE /\ mem.su # Nil
           /\ SaveONSManager("dismiss", by, WithoutSu(mem, a), writable)
  <2>1. GoodMemory(WithoutSu(mem, a))
    BY <1>4, WithoutSuGood DEF IInv
  <2> QED BY <1>1, <1>4, <2>1, SaveKeeps
<1> QED BY <1>2, <1>3, <1>4 DEF RemoveSuManager

\* applyOPManager.
LEMMA OperateManagerKeeps ==
  ASSUME IInv, NEW by \in Address, NEW op \in {0, 1}, NEW readable \in BOOLEAN,
         OperateManager(by, op, readable)
  PROVE  IInv'
<1> DEFINE m == Cleared(mem)
<1>1. /\ "refused" \in Op /\ "operate" \in Op
      /\ "invalid" \in Result /\ "internal" \in Result /\ "ok" \in Result
  BY DEF Op, Result
<1>2. GoodMemory(mem) /\ GoodMemory(m) /\ GoodRegistry(registry)
  BY ClearedGood DEF IInv
<1> HIDE DEF m
<1>3. CASE \/ Unwritten("refused", by, mem, "invalid")
           \/ Unwritten("operate", by, mem, "ok")
           \/ Unwritten("operate", by, m, "internal")
  BY <1>1, <1>2, <1>3, UnwrittenKeeps
<1>4. CASE Crash("operate", by)
  BY <1>1, <1>4, CrashKeeps
<1>5. CASE ~LoadPanics(m, readable) /\ Unwritten("operate", by, Loaded(m, readable), "ok")
  BY <1>1, <1>2, <1>5, LoadedGood, UnwrittenKeeps
<1> QED BY <1>3, <1>4, <1>5 DEF OperateManager, m

\* Transactions about anything else.
LEMMA UseTxnKeeps ==
  ASSUME IInv, NEW by \in Address, NEW c \in Code \cup {Nil}, NEW readable \in BOOLEAN,
         UseTxn(by, c, readable)
  PROVE  IInv'
<1>1. "use" \in Op /\ "ok" \in Result /\ "indexPanic" \in Result
  BY DEF Op, Result
<1>2. CASE ConsultCrash(by, readable)
  BY <1>1, <1>2, CrashKeeps DEF ConsultCrash
<1>3. CASE Answered(by, c, readable)
  <2>1. GoodMemory(mem')
    BY <1>3, ConsultedGood DEF Answered
  <2>2. CheckPermission(c, by, readable) \in 1..4
    BY DEF CheckPermission, PermissionLevel, PERMISSION_NONE, PERMISSION_MANAGER,
           PERMISSION_SU_MANAGER, PERMISSION_SU_ADDRESS
  <2>3. txn' \in Txn
    BY <1>1, <1>3, <2>2 DEF Answered, Txn, Answer
  <2> QED BY <1>3, <2>1, <2>3
        DEF Answered, IInv, GoodMemory, GoodRegistry, NoDuplicates, SuWithinMap, Memory,
            Registry, Held, Injective, UniqueCodes, Entries, Entry, Txn, NoTxn, Answer, NoAnswer
<1>4. CASE IndexCrash(by, readable)
  BY <1>1, <1>4, FreshGood, UnwrittenKeeps DEF IndexCrash
<1> QED BY <1>2, <1>3, <1>4 DEF UseTxn

-----------------------------------------------------------------------------
(* The theorems *)

\* A new chain and a new process.
LEMMA Initially == Init => IInv
<1> SUFFICES ASSUME Init PROVE IInv
  OBVIOUS
<1>1. GoodRegistry(Absent)
  BY EmptyFacts, EmptySeq DEF GoodRegistry, Registry, Absent, NoDuplicates
<1>2. NoTxn \in Txn
  BY DEF NoTxn, Txn, Op, Result
<1> QED BY <1>1, <1>2, FreshGood DEF Init, IInv

\* Every step keeps the invariant.
LEMMA NextKeeps == IInv /\ [Next]_vars => IInv'
<1> SUFFICES ASSUME IInv, [Next]_vars PROVE IInv'
  OBVIOUS
<1>1. ASSUME NEW by \in Address, NEW readable \in BOOLEAN, NEW writable \in BOOLEAN,
             AppointTxn(by, readable, writable)
      PROVE  IInv'
  BY <1>1, AddManagerKeeps, AddSuManagerKeeps DEF AppointTxn
<1>2. ASSUME NEW by \in Address, NEW readable \in BOOLEAN, NEW writable \in BOOLEAN,
             DismissTxn(by, readable, writable)
      PROVE  IInv'
  BY <1>2, RemoveManagerKeeps, RemoveSuManagerKeeps, DeleteAllManagerKeeps DEF DismissTxn
<1>3. ASSUME NEW by \in Address, NEW op \in {0, 1}, NEW readable \in BOOLEAN,
             OperateManager(by, op, readable)
      PROVE  IInv'
  BY <1>3, OperateManagerKeeps
<1>4. ASSUME NEW by \in Address, NEW c \in Code \cup {Nil}, NEW readable \in BOOLEAN,
             UseTxn(by, c, readable)
      PROVE  IInv'
  BY <1>4, UseTxnKeeps
<1>5. CASE Restart \/ CommitBlock \/ AbortBlock \/ UNCHANGED vars
  BY <1>5, FreshGood
     DEF Restart, CommitBlock, AbortBlock, vars, IInv, GoodMemory, GoodRegistry, NoDuplicates,
         SuWithinMap, Memory, Registry, Held, Injective, UniqueCodes, Entries, Entry, Txn, NoTxn,
         Answer, NoAnswer, Op, Result
<1> QED BY <1>1, <1>2, <1>3, <1>4, <1>5 DEF Next

\* The invariant holds in every behaviour, whatever fails.
THEOREM Invariance == Spec => []IInv
  BY Initially, NextKeeps, PTL DEF Spec

\* Every variable keeps its type: in particular a nil list or map is never
\* taken for an empty one.
THEOREM TypeCorrect == Spec => []TypeOK
<1>1. IInv => TypeOK
  BY DEF IInv, TypeOK, GoodMemory, GoodRegistry
<1> QED BY <1>1, Invariance, PTL

\* The delete loops of RemoveSuManager and RemoveGS1CodeManager only ever see
\* lists in which at most one element matches.
THEOREM NoDuplicateManagersHolds == Spec => []NoDuplicateManagers
<1>1. IInv => NoDuplicateManagers
  BY DEF IInv, NoDuplicateManagers, GoodMemory, GoodRegistry
<1> QED BY <1>1, Invariance, PTL

\* The su map is never behind the su list.
THEOREM SuListWithinMapHolds == Spec => []SuListWithinMap
<1>1. IInv => SuListWithinMap
  BY DEF IInv, SuListWithinMap, GoodMemory
<1> QED BY <1>1, Invariance, PTL

\* Nobody but sudo changes the list, and a given-up block restores it.
THEOREM OnlySudoChangesRegistryHolds == Spec => OnlySudoChangesRegistry
<1> DEFINE Rightful == registry' # registry => \/ txn'.by = Sudo /\ txn'.result = "ok"
                                               \/ txn' = NoTxn /\ registry' = registryHead
<1>1. ASSUME NEW by \in Address, NEW readable, Refuse(by, readable)
      PROVE  registry' = registry
  BY <1>1 DEF Refuse, Crash, Unwritten
<1>2. ASSUME NEW op, NEW m, NEW writable, SaveONSManager(op, Sudo, m, writable)
      PROVE  Rightful
  BY <1>2 DEF SaveONSManager, Unwritten, End
<1>3. ASSUME NEW by \in Address, NEW readable \in BOOLEAN, NEW writable \in BOOLEAN,
             AppointTxn(by, readable, writable)
      PROVE  Rightful
  BY <1>1, <1>2, <1>3 DEF AppointTxn, AddManager, AddSuManager, Crash, Unwritten
<1>4. ASSUME NEW by \in Address, NEW readable \in BOOLEAN, NEW writable \in BOOLEAN,
             DismissTxn(by, readable, writable)
      PROVE  Rightful
  <2>1. CASE DeleteAllManager(by, readable, writable)
    BY <1>1, <2>1 DEF DeleteAllManager, Unwritten, End
  <2> QED BY <1>1, <1>2, <1>4, <2>1 DEF DismissTxn, RemoveManager, RemoveSuManager, Crash, Unwritten
<1>5. ASSUME NEW by \in Address, NEW op \in {0, 1}, NEW readable \in BOOLEAN,
             OperateManager(by, op, readable)
      PROVE  Rightful
  BY <1>5 DEF OperateManager, Crash, Unwritten
<1>6. ASSUME NEW by \in Address, NEW c \in Code \cup {Nil}, NEW readable \in BOOLEAN,
             UseTxn(by, c, readable)
      PROVE  Rightful
  BY <1>6 DEF UseTxn, ConsultCrash, Answered, IndexCrash, Crash, Unwritten
<1>7. Restart \/ CommitBlock \/ AbortBlock => Rightful
  BY DEF Restart, CommitBlock, AbortBlock
<1>8. Next => Rightful
  BY <1>3, <1>4, <1>5, <1>6, <1>7 DEF Next
<1>9. [Next]_vars => [Rightful]_vars
  BY <1>8
<1> QED BY <1>9, PTL DEF Spec, OnlySudoChangesRegistry

-----------------------------------------------------------------------------
(* Panics *)

\* A load leaves the su map nil only if it was.
LEMMA LoadedKeepsMap ==
  ASSUME NEW m, GoodMemory(m), GoodRegistry(registry), NEW readable, m.suMap # Nil
  PROVE  Loaded(m, readable).suMap # Nil
<1>1. CASE m.cached \/ ~readable \/ registry = Absent
  BY <1>1 DEF Loaded
<1>2. CASE ~(m.cached \/ ~readable \/ registry = Absent)
  <2>1. registry.su \in Seq(Address)
    BY DEF GoodRegistry, Registry
  <2>2. Range(registry.su) \subseteq Address
    BY <2>1, LenProperties, ElementOfSeq DEF Range
  <2>3. m.suMap \cup Range(registry.su) \in SUBSET Address
    BY <2>2 DEF GoodMemory, Memory
  <2>4. Loaded(m, readable).suMap = m.suMap \cup Range(registry.su)
    BY <1>2 DEF Loaded
  <2> QED BY <2>3, <2>4, NilAssumption
<1> QED BY <1>1, <1>2

\* So do the changes to a memory.
LEMMA ChangesKeepMap ==
  ASSUME NEW m, GoodMemory(m), m.suMap # Nil, NEW c, NEW a \in Address
  PROVE  /\ WithManager(m, c, a).suMap # Nil /\ WithoutManager(m, c).suMap # Nil
         /\ WithSu(m, a).suMap # Nil /\ WithoutSu(m, a).suMap # Nil
<1>1. /\ m = [su |-> m.su, mgr |-> m.mgr, cached |-> m.cached, suMap |-> m.suMap, mgrMap |-> m.mgrMap]
      /\ m.suMap \cup {a} \in SUBSET Address /\ m.suMap \ {a} \in SUBSET Address
  BY MemoryElim
<1>2. WithManager(m, c, a).suMap = m.suMap /\ WithoutManager(m, c).suMap = m.suMap
  BY <1>1 DEF WithManager, WithoutManager
<1>3. WithSu(m, a).suMap = m.suMap \cup {a} /\ WithoutSu(m, a).suMap = m.suMap \ {a}
  BY <1>1 DEF WithSu, WithoutSu
<1> QED BY <1>1, <1>2, <1>3, NilAssumption

\* A panic needs a nil su map, or makes one and dies of it; and the process
\* that comes after it has a map.
Foreseen ==
  /\ txn'.result = "nilMapPanic" => mem.suMap = Nil \/ (mem.cached /\ txn'.op = "operate")
  /\ Panicked => mem' = Fresh

\* The su map becomes nil only in a clear.
Emptied == mem'.suMap = Nil => mem.suMap = Nil \/ (mem.cached /\ ClearTxn)

\* Every transaction keeps to both.
LEMMA TxnForeseen == AnyTxn => Foreseen
<1>1. ASSUME NEW by \in Address, NEW readable, Refuse(by, readable)
      PROVE  Foreseen
  BY <1>1 DEF Refuse, ConsultPanics, LoadPanics, Crash, Unwritten, End, Foreseen, Panicked
<1>2. ASSUME NEW op, NEW by, NEW m, NEW writable, SaveONSManager(op, by, m, writable)
      PROVE  Foreseen
  BY <1>2 DEF SaveONSManager, Unwritten, End, Foreseen, Panicked
<1>3. ASSUME NEW op, NEW by, mem.suMap = Nil \/ (mem.cached /\ op = "operate"), Crash(op, by)
      PROVE  Foreseen
  BY <1>3 DEF Crash, Unwritten, End, Foreseen, Panicked
<1>4. ASSUME NEW by \in Address, NEW readable \in BOOLEAN, NEW writable \in BOOLEAN,
             AppointTxn(by, readable, writable)
      PROVE  Foreseen
  BY <1>1, <1>2, <1>3, <1>4 DEF AppointTxn, AddManager, AddSuManager, LoadPanics
<1>5. ASSUME NEW by \in Address, NEW readable \in BOOLEAN, NEW writable \in BOOLEAN,
             DismissTxn(by, readable, writable)
      PROVE  Foreseen
  <2>1. ASSUME NEW op, NEW m, NEW result \in {"ok", "internal"},
               txn'.result = result \/ Unwritten(op, by, m, result)
        PROVE  Foreseen
    BY <2>1 DEF Unwritten, End, Foreseen, Panicked
  <2>2. CASE DeleteAllManager(by, readable, writable)
    BY <1>1, <2>1, <2>2 DEF DeleteAllManager, End
  <2> QED BY <1>1, <1>2, <1>3, <1>5, <2>1, <2>2
          DEF DismissTxn, RemoveManager, RemoveSuManager, LoadPanics
<1>6. ASSUME NEW by \in Address, NEW op \in {0, 1}, NEW readable \in BOOLEAN,
             OperateManager(by, op, readable)
      PROVE  Foreseen
  BY <1>6 DEF OperateManager, Crash, Unwritten, End, LoadPanics, Cleared, Foreseen, Panicked
<1>7. ASSUME NEW by \in Address, NEW c \in Code \cup {Nil}, NEW readable \in BOOLEAN,
             UseTxn(by, c, readable)
      PROVE  Foreseen
  BY <1>7 DEF UseTxn, ConsultCrash, ConsultPanics, LoadPanics, Answered, IndexCrash, Crash,
              Unwritten, End, Foreseen, Panicked
<1> QED BY <1>4, <1>5, <1>6, <1>7 DEF AnyTxn

LEMMA TxnEmptied == IInv /\ AnyTxn => Emptied
<1> SUFFICES ASSUME IInv, AnyTxn PROVE Emptied
  OBVIOUS
<1>1. GoodMemory(mem) /\ GoodRegistry(registry) /\ Fresh.suMap # Nil
  BY NilAssumption DEF IInv, Fresh
<1>2. ASSUME NEW readable, mem.suMap # Nil
      PROVE  Loaded(mem, readable).suMap # Nil
  BY <1>1, <1>2, LoadedKeepsMap
<1>3. ASSUME NEW op, NEW by, NEW m, NEW result, NEW writable,
             mem.suMap # Nil => m.suMap # Nil,
             \/ Unwritten(op, by, m, result) \/ Crash(op, by)
             \/ SaveONSManager(op, by, m, writable)
      PROVE  Emptied
  BY <1>1, <1>3 DEF Unwritten, Crash, SaveONSManager, Emptied
<1>4. ASSUME NEW by \in Address, NEW readable, Refuse(by, readable)
      PROVE  Emptied
  BY <1>1, <1>2, <1>4 DEF Refuse, Crash, Unwritten, Consulted, Emptied
<1>5. ASSUME NEW by \in Address, NEW c \in Code, NEW a \in Address,
             NEW readable \in BOOLEAN, NEW writable \in BOOLEAN,
             AddManager(by, c, a, readable, writable)
      PROVE  Emptied
  <2>1. CASE LoadPanics(mem, readable)
    BY <1>3, <1>4, <1>5, <2>1 DEF AddManager
  <2>2. CASE ~LoadPanics(mem, readable)
    <3>1. mem.suMap # Nil => WithManager(Loaded(mem, readable), c, a).suMap # Nil
      BY <1>1, <1>2, <2>2, LoadedGood, ChangesKeepMap
    <3> QED BY <1>3, <1>4, <1>5, <2>2, <3>1 DEF AddManager
  <2> QED BY <2>1, <2>2
<1>6. ASSUME NEW by \in Address, NEW c \in Code, NEW readable \in BOOLEAN,
             NEW writable \in BOOLEAN, RemoveManager(by, c, readable, writable)
      PROVE  Emptied
  <2>1. CASE LoadPanics(mem, readable)
    BY <1>3, <1>4, <1>6, <2>1 DEF RemoveManager
  <2>2. CASE ~LoadPanics(mem, readable)
    <3>1. mem.suMap # Nil => WithoutManager(Loaded(mem, readable), c).suMap # Nil
      BY <1>1, <1>2, <2>2, LoadedGood, ChangesKeepMap, SudoAssumption
    <3> QED BY <1>2, <1>3, <1>4, <1>6, <2>2, <3>1 DEF RemoveManager
  <2> QED BY <2>1, <2>2
<1>7. ASSUME NEW by \in Address, NEW a \in Address, NEW readable \in BOOLEAN,
             NEW writable \in BOOLEAN,
             AddSuManager(by, a, readable, writable) \/ RemoveSuManager(by, a, readable, writable)
      PROVE  Emptied
  <2>1. mem.suMap # Nil => WithSu(mem, a).suMap # Nil /\ WithoutSu(mem, a).suMap # Nil
    BY <1>1, ChangesKeepMap
  <2> QED BY <1>3, <1>4, <1>7, <2>1 DEF AddSuManager, RemoveSuManager
<1>8. ASSUME NEW by \in Address, NEW readable \in BOOLEAN, NEW writable \in BOOLEAN,
             DeleteAllManager(by, readable, writable)
      PROVE  Emptied
  <2>1. CASE by = Sudo /\ mem.cached
    BY <1>8, <2>1 DEF Emptied, ClearTxn
  <2>2. CASE by = Sudo /\ ~mem.cached
    BY <1>4, <1>8, <2>2 DEF DeleteAllManager, Cleared, Unwritten, Emptied
  <2>3. CASE by # Sudo
    BY <1>4, <1>8, <2>3 DEF DeleteAllManager
  <2> QED BY <2>1, <2>2, <2>3
<1>9. ASSUME NEW by \in Address, NEW op \in {0, 1}, NEW readable \in BOOLEAN,
             OperateManager(by, op, readable)
      PROVE  Emptied
  <2>1. CASE by = Sudo /\ op = 1 /\ mem.cached
    BY <1>9, <2>1 DEF Emptied, ClearTxn
  <2>2. CASE by = Sudo /\ op = 1 /\ ~mem.cached
    BY <1>2, <1>3, <1>9, <2>2 DEF OperateManager, Cleared
  <2>3. CASE by # Sudo \/ op # 1
    BY <1>3, <1>9, <2>3 DEF OperateManager
  <2> QED BY <2>1, <2>2, <2>3
<1>10. ASSUME NEW by \in Address, NEW c \in Code \cup {Nil}, NEW readable \in BOOLEAN,
              UseTxn(by, c, readable)
       PROVE  Emptied
  <2>1. mem' \in {Fresh, Consulted(by, readable)}
    BY <1>10 DEF UseTxn, ConsultCrash, Answered, IndexCrash, Crash, Unwritten
  <2> QED BY <1>1, <1>2, <2>1 DEF Consulted, Emptied
<1>11. \A by \in Address, readable, writable \in BOOLEAN :
         AppointTxn(by, readable, writable) \/ DismissTxn(by, readable, writable) => Emptied
  BY <1>5, <1>6, <1>7, <1>8 DEF AppointTxn, DismissTxn
<1> QED BY <1>9, <1>10, <1>11 DEF AnyTxn

\* A process whose su map is nil has cleared its cache.
LivesInv == IInv /\ (mem.suMap = Nil => cleared = TRUE)

\* Every step of a life is a step of OnsManager, and keeps that.
LEMMA LivesKeeps == LivesInv /\ [LivesNext]_livesVars => LivesInv'
<1> SUFFICES ASSUME LivesInv, [LivesNext]_livesVars PROVE LivesInv'
  OBVIOUS
<1>1. [Next]_vars
  BY DEF LivesNext, livesVars, vars, AnyTxn, Next
<1>2. IInv'
  BY <1>1, NextKeeps DEF LivesInv
<1>3. Fresh.suMap # Nil
  BY NilAssumption DEF Fresh
<1>4. CASE AnyTxn /\ Remembers
  <2>1. Foreseen /\ Emptied
    BY <1>4, TxnForeseen, TxnEmptied DEF LivesInv
  <2>2. ASSUME mem'.suMap = Nil PROVE cleared'
    BY <1>3, <1>4, <2>1, <2>2 DEF Remembers, Foreseen, Emptied, LivesInv
  <2> QED BY <1>2, <1>4, <2>2 DEF LivesInv
<1>5. CASE Restart /\ cleared' = FALSE
  BY <1>2, <1>3, <1>5 DEF Restart, LivesInv
<1>6. CASE (CommitBlock \/ AbortBlock) /\ UNCHANGED cleared
  BY <1>2, <1>6 DEF CommitBlock, AbortBlock, LivesInv
<1>7. CASE UNCHANGED livesVars
  BY <1>2, <1>7 DEF livesVars, vars, LivesInv
<1> QED BY <1>4, <1>5, <1>6, <1>7 DEF LivesNext

\* A write to the nil su map kills only a process that emptied its cache
\* earlier in its own life, or does so in the very transaction: a process that
\* has just started, like the one that gets the retry, is not killed, whatever
\* list is stored and whatever accesses fail.
THEOREM CrashesOnlyAfterClearHolds == LivesSpec => CrashesOnlyAfterClear
<1> DEFINE Lived == txn'.result = "nilMapPanic" => cleared \/ (mem.cached /\ txn'.op = "operate")
<1>1. LivesInit => LivesInv
  BY Initially, NilAssumption DEF LivesInit, Init, LivesInv, Fresh
<1>2. LivesInv /\ LivesNext => Lived
  <2> SUFFICES ASSUME LivesInv, LivesNext PROVE Lived
    OBVIOUS
  <2>1. CASE AnyTxn
    BY <2>1, TxnForeseen DEF Foreseen, LivesInv
  <2>2. CASE Restart \/ CommitBlock \/ AbortBlock
    BY <2>2 DEF Restart, CommitBlock, AbortBlock, NoTxn
  <2> QED BY <2>1, <2>2 DEF LivesNext
<1>3. LivesInv /\ [LivesNext]_livesVars => [Lived]_livesVars
  BY <1>2
<1> QED BY <1>1, <1>3, LivesKeeps, PTL DEF LivesSpec, CrashesOnlyAfterClear

-----------------------------------------------------------------------------
(* Where roles come from *)

\* The roles of a list of su managers, of a list of code managers, and of the
\* two maps.
SuRoles(list) == {<<list[i], Nil>> : i \in DOMAIN list}
CodeRoles(list) == {<<list[i].addr, list[i].gs1>> : i \in DOMAIN list}
SuMapRoles(suMap) == IF suMap = Nil THEN {} ELSE {<<a, Nil>> : a \in suMap}
CodeMapRoles(mgrMap) == {<<mgrMap[c], c>> : c \in {d \in Code : mgrMap[d] # Nil}}

\* Every role a process knows of.
MemRoles(m) == RolesIn(Held(m)) \cup RolesInMaps(m)

\* The roles of the parts.
LEMMA RolesOfParts ==
  /\ \A r : RolesIn(r) = SuRoles(r.su) \cup CodeRoles(r.mgr)
  /\ \A m : MemRoles(m) = SuRoles(Entries(m.su)) \cup CodeRoles(Entries(m.mgr))
                            \cup SuMapRoles(m.suMap) \cup CodeMapRoles(m.mgrMap)
<1>1. \A r : RolesIn(r) = SuRoles(r.su) \cup CodeRoles(r.mgr)
  BY DEF RolesIn, SuRoles, CodeRoles
<1>2. \A m : RolesInMaps(m) = SuMapRoles(m.suMap) \cup CodeMapRoles(m.mgrMap)
  BY DEF RolesInMaps, SuMapRoles, CodeMapRoles
<1>3. \A m : Held(m).su = Entries(m.su) /\ Held(m).mgr = Entries(m.mgr)
  BY DEF Held
<1> QED BY <1>1, <1>2, <1>3 DEF MemRoles

\* A new process knows of none.
LEMMA FreshRoles == MemRoles(Fresh) = {} /\ MemRoles([Fresh EXCEPT !.suMap = Nil]) = {}
<1>1. SuRoles(Entries(Nil)) = {} /\ CodeRoles(Entries(Nil)) = {}
  BY EmptyFacts DEF SuRoles, CodeRoles
<1>2. SuMapRoles({}) = {} /\ SuMapRoles(Nil) = {}
  BY DEF SuMapRoles
<1>3. CodeMapRoles(NoManagers) = {}
  BY DEF CodeMapRoles, NoManagers
<1> QED BY <1>1, <1>2, <1>3, RolesOfParts DEF Fresh

\* Neither does a process that has cleared its cache.
LEMMA ClearedRoles ==
  ASSUME NEW m
  PROVE  MemRoles(Cleared(m)) \subseteq MemRoles(m)
  BY FreshRoles DEF Cleared

\* loadCachedONSManager brings in what is listed, and nothing else.
LEMMA LoadedRoles ==
  ASSUME NEW m, GoodMemory(m), GoodRegistry(registry), NEW readable
  PROVE  MemRoles(Loaded(m, readable)) \subseteq MemRoles(m) \cup RolesIn(registry)
<1> DEFINE newSu == IF m.suMap = Nil THEN Nil ELSE m.suMap \cup Range(registry.su)
           newMap == [c \in Code |-> IF Has(registry.mgr, c)
                                     THEN registry.mgr[Find(registry.mgr, c)].addr
                                     ELSE m.mgrMap[c]]
           new == [su |-> NilIfEmpty(registry.su), mgr |-> NilIfEmpty(registry.mgr),
                   cached |-> TRUE, suMap |-> newSu, mgrMap |-> newMap]
<1>1. CASE m.cached \/ ~readable \/ registry = Absent
  BY <1>1 DEF Loaded
<1>2. CASE ~(m.cached \/ ~readable \/ registry = Absent)
  <2>1. registry.su \in Seq(Address) /\ registry.mgr \in Seq(Entry)
    BY DEF GoodRegistry, Registry
  <2>2. Entries(NilIfEmpty(registry.su)) = registry.su /\ Entries(NilIfEmpty(registry.mgr)) = registry.mgr
    BY <2>1, NilIfEmptyFacts, NilListAssumption
  <2>3. SuMapRoles(newSu) \subseteq SuMapRoles(m.suMap) \cup SuRoles(registry.su)
    BY DEF SuMapRoles, SuRoles, Range
  <2>4. CodeMapRoles(newMap) \subseteq CodeMapRoles(m.mgrMap) \cup CodeRoles(registry.mgr)
    <3> SUFFICES ASSUME NEW c \in Code, newMap[c] # Nil
                 PROVE  <<newMap[c], c>> \in CodeMapRoles(m.mgrMap) \cup CodeRoles(registry.mgr)
      BY DEF CodeMapRoles
    <3>1. CASE Has(registry.mgr, c)
      <4> DEFINE k == Find(registry.mgr, c)
      <4>1. k \in DOMAIN registry.mgr /\ registry.mgr[k].gs1 = c
        BY <3>1, FindFacts
      <4>2. newMap[c] = registry.mgr[k].addr
        BY <3>1
      <4> HIDE DEF k, newMap
      <4> QED BY <4>1, <4>2 DEF CodeRoles
    <3>2. CASE ~Has(registry.mgr, c)
      <4>1. newMap[c] = m.mgrMap[c]
        BY <3>2
      <4> QED BY <4>1 DEF CodeMapRoles
    <3> QED BY <3>1, <3>2
  <2>5. Loaded(m, readable) = new
    BY <1>2 DEF Loaded
  <2> HIDE DEF newSu, newMap
  <2>6. MemRoles(new) = SuRoles(registry.su) \cup CodeRoles(registry.mgr)
                          \cup SuMapRoles(newSu) \cup CodeMapRoles(newMap)
    BY <2>2, RolesOfParts
  <2> HIDE DEF new
  <2> QED BY <2>3, <2>4, <2>5, <2>6, RolesOfParts
<1> QED BY <1>1, <1>2

\* AddGS1CodeManager gives one role.
LEMMA WithManagerRoles ==
  ASSUME NEW m, GoodMemory(m), NEW c \in Code, NEW a \in Address
  PROVE  MemRoles(WithManager(m, c, a)) \subseteq MemRoles(m) \cup {<<a, c>>}
<1> DEFINE list == Entries(m.mgr)
           e == [gs1 |-> c, addr |-> a]
           newMap == [m.mgrMap EXCEPT ![c] = a]
           newList == IF Has(list, c) THEN [list EXCEPT ![Find(list, c)] = e] ELSE Append(list, e)
<1>1. CASE m.mgrMap[c] = a
  BY <1>1 DEF WithManager
<1>2. CASE m.mgrMap[c] # a
  <2>1. list \in Seq(Entry)
    BY MemoryElim, EntriesFacts
  <2>2. e \in Entry /\ e.addr = a /\ e.gs1 = c
    BY DEF Entry
  <2> HIDE DEF list, e
  <2>3. newList \in Seq(Entry) /\ \A i \in DOMAIN newList :
          newList[i] = e \/ (i \in DOMAIN list /\ newList[i] = list[i])
    <3>1. CASE Has(list, c)
      <4> DEFINE k == Find(list, c)
      <4>1. k \in DOMAIN list
        BY <3>1, FindFacts
      <4> HIDE DEF k
      <4>2. newList = [list EXCEPT ![k] = e]
        BY <3>1 DEF k
      <4>3. [list EXCEPT ![k] = e] \in Seq(Entry)
        BY <2>1, <2>2, <4>1, ExceptSeq
      <4> QED BY <4>1, <4>2, <4>3
    <3>2. CASE ~Has(list, c)
      <4>1. newList = Append(list, e)
        BY <3>2
      <4> QED BY <2>1, <2>2, <4>1, AppendProperties, LenProperties
    <3> QED BY <3>1, <3>2
  <2>4. CodeRoles(newList) \subseteq CodeRoles(list) \cup {<<a, c>>}
    <3> HIDE DEF newList
    <3> QED BY <2>2, <2>3 DEF CodeRoles
  <2>5. CodeMapRoles(newMap) \subseteq CodeMapRoles(m.mgrMap) \cup {<<a, c>>}
    BY MemoryElim DEF CodeMapRoles
  <2>6. WithManager(m, c, a) = [m EXCEPT !.mgrMap = newMap, !.mgr = newList]
    BY <1>2 DEF WithManager, list, e
  <2> HIDE DEF newMap, newList
  <2>7. WithManager(m, c, a) = [su |-> m.su, mgr |-> newList, cached |-> m.cached,
                                suMap |-> m.suMap, mgrMap |-> newMap]
    BY <2>6, MemoryElim DEF Memory, GoodMemory
  <2>8. Entries(newList) = newList
    BY <2>3, NilListAssumption DEF Entries
  <2> QED BY <2>4, <2>5, <2>7, <2>8, RolesOfParts DEF list
<1> QED BY <1>1, <1>2

\* RemoveGS1CodeManager gives none.
LEMMA WithoutManagerRoles ==
  ASSUME NEW m, GoodMemory(m), m.mgr # Nil, NEW c \in Code
  PROVE  MemRoles(WithoutManager(m, c)) \subseteq MemRoles(m)
<1> DEFINE newMap == [m.mgrMap EXCEPT ![c] = Nil]
           newList == IF Has(m.mgr, c) THEN RemoveAt(m.mgr, Find(m.mgr, c)) ELSE m.mgr
<1>1. m.mgr \in Seq(Entry) /\ UniqueCodes(m.mgr) /\ Entries(m.mgr) = m.mgr
  BY MemoryElim DEF Entries
<1>2. newList \in Seq(Entry) /\ \A j \in DOMAIN newList : \E i \in DOMAIN m.mgr : newList[j] = m.mgr[i]
  <2>1. CASE Has(m.mgr, c)
    BY <1>1, <2>1, FindFacts, RemoveAtFacts, RemoveAtUnique
  <2>2. CASE ~Has(m.mgr, c)
    BY <1>1, <2>2
  <2> QED BY <2>1, <2>2
<1>3. CodeRoles(newList) \subseteq CodeRoles(m.mgr)
  <2> HIDE DEF newList
  <2> QED BY <1>2 DEF CodeRoles
<1>4. CodeMapRoles(newMap) \subseteq CodeMapRoles(m.mgrMap)
  BY MemoryElim DEF CodeMapRoles
<1>5. WithoutManager(m, c) = [m EXCEPT !.mgrMap = newMap, !.mgr = newList]
  BY DEF WithoutManager
<1> HIDE DEF newMap, newList
<1>6. WithoutManager(m, c) = [su |-> m.su, mgr |-> newList, cached |-> m.cached,
                              suMap |-> m.suMap, mgrMap |-> newMap]
  BY <1>5, MemoryElim DEF Memory, GoodMemory
<1>7. Entries(newList) = newList
  BY <1>2, NilListAssumption DEF Entries
<1> QED BY <1>1, <1>3, <1>4, <1>6, <1>7, RolesOfParts

\* AddSuManager gives one.
LEMMA WithSuRoles ==
  ASSUME NEW m, GoodMemory(m), m.suMap # Nil, NEW a \in Address
  PROVE  MemRoles(WithSu(m, a)) \subseteq MemRoles(m) \cup {<<a, Nil>>}
<1> DEFINE list == Entries(m.su)
           newMap == m.suMap \cup {a}
           newList == Append(list, a)
<1>1. list \in Seq(Address)
  BY MemoryElim, EntriesFacts
<1>2. newList \in Seq(Address) /\ \A i \in DOMAIN newList :
        newList[i] = a \/ (i \in DOMAIN list /\ newList[i] = list[i])
  BY <1>1, AppendProperties, LenProperties
<1>3. SuRoles(newList) \subseteq SuRoles(list) \cup {<<a, Nil>>}
  <2> HIDE DEF newList, list
  <2> QED BY <1>2 DEF SuRoles
<1>4. SuMapRoles(newMap) \subseteq SuMapRoles(m.suMap) \cup {<<a, Nil>>}
  BY DEF SuMapRoles
<1>5. WithSu(m, a) = [m EXCEPT !.suMap = newMap, !.su = newList]
  BY DEF WithSu
<1> HIDE DEF newMap, newList
<1>6. WithSu(m, a) = [su |-> newList, mgr |-> m.mgr, cached |-> m.cached,
                      suMap |-> newMap, mgrMap |-> m.mgrMap]
  BY <1>5, MemoryElim DEF Memory, GoodMemory
<1>7. Entries(newList) = newList
  BY <1>2, NilListAssumption DEF Entries
<1> QED BY <1>3, <1>4, <1>6, <1>7, RolesOfParts

\* RemoveSuManager gives none.
LEMMA WithoutSuRoles ==
  ASSUME NEW m, GoodMemory(m), m.su # Nil, NEW a \in Address
  PROVE  MemRoles(WithoutSu(m, a)) \subseteq MemRoles(m)
<1> DEFINE listed == \E i \in DOMAIN m.su : m.su[i] = a
           k == CHOOSE i \in DOMAIN m.su : m.su[i] = a
           newMap == IF m.suMap = Nil THEN Nil ELSE m.suMap \ {a}
           newList == IF listed THEN RemoveAt(m.su, k) ELSE m.su
<1>1. m.su \in Seq(Address) /\ Injective(m.su) /\ Entries(m.su) = m.su
  BY MemoryElim DEF Entries
<1>2. newList \in Seq(Address) /\ \A j \in DOMAIN newList : \E i \in DOMAIN m.su : newList[j] = m.su[i]
  <2>1. CASE listed
    <3>1. k \in DOMAIN m.su /\ m.su[k] = a
      BY <2>1
    <3> HIDE DEF k
    <3>2. newList = RemoveAt(m.su, k)
      BY <2>1 DEF k
    <3>3. /\ RemoveAt(m.su, k) \in Seq(Address)
          /\ \A j \in DOMAIN RemoveAt(m.su, k) : \E i \in DOMAIN m.su : RemoveAt(m.su, k)[j] = m.su[i]
      BY <1>1, <3>1, RemoveAtFacts, RemoveAtInjective
    <3> HIDE DEF newList
    <3> QED BY <3>2, <3>3
  <2>2. CASE ~listed
    BY <1>1, <2>2
  <2> QED BY <2>1, <2>2
<1>3. SuRoles(newList) \subseteq SuRoles(m.su)
  <2> HIDE DEF newList
  <2> QED BY <1>2 DEF SuRoles
<1>4. SuMapRoles(newMap) \subseteq SuMapRoles(m.suMap)
  BY DEF SuMapRoles
<1>5. WithoutSu(m, a) = [m EXCEPT !.suMap = newMap, !.su = newList]
  BY DEF WithoutSu
<1> HIDE DEF newMap, newList
<1>6. WithoutSu(m, a) = [su |-> newList, mgr |-> m.mgr, cached |-> m.cached,
                         suMap |-> newMap, mgrMap |-> m.mgrMap]
  BY <1>5, MemoryElim DEF Memory, GoodMemory
<1>7. Entries(newList) = newList
  BY <1>2, NilListAssumption DEF Entries
<1> QED BY <1>1, <1>3, <1>4, <1>6, <1>7, RolesOfParts

\* Where a role can be found after a step.
LEMMA RolesLater ==
  /\ Roles = MemRoles(mem) \cup RolesIn(registry) \cup RolesIn(registryHead)
  /\ Roles' = MemRoles(mem') \cup RolesIn(registry') \cup RolesIn(registryHead')
  BY DEF Roles, MemRoles, RolesIn, RolesInMaps, Held, Entries

\* A list that is saved gives no role that the memory does not give.
LEMMA HeldRoles == \A m : RolesIn(Held(m)) \subseteq MemRoles(m)
  BY DEF MemRoles

\* A transaction that writes nothing: what is new is new in memory.
LEMMA UnwrittenRoles ==
  ASSUME NEW op, NEW by, NEW m, NEW result, NEW new,
         MemRoles(m) \subseteq Roles \cup new, Unwritten(op, by, m, result)
  PROVE  Roles' \subseteq Roles \cup new /\ txn'.op = op /\ txn'.by = by
<1>1. mem' = m /\ registry' = registry /\ registryHead' = registryHead
  BY DEF Unwritten
<1>2. Roles' = MemRoles(m) \cup RolesIn(registry) \cup RolesIn(registryHead)
  BY <1>1, RolesLater
<1>3. txn'.op = op /\ txn'.by = by
  BY DEF Unwritten, End
<1> QED BY <1>2, <1>3, RolesLater

\* SaveONSManager, whether or not the write succeeds.
LEMMA SavedRoles ==
  ASSUME NEW op, NEW by, NEW m, NEW writable, NEW new,
         MemRoles(m) \subseteq Roles \cup new, SaveONSManager(op, by, m, writable)
  PROVE  Roles' \subseteq Roles \cup new /\ txn'.op = op /\ txn'.by = by
<1>1. CASE Unwritten(op, by, m, "internal")
  BY <1>1, UnwrittenRoles
<1>2. CASE mem' = m /\ registry' = Held(m) /\ End(op, by, "ok") /\ UNCHANGED registryHead
  <2>1. Roles' = MemRoles(m) \cup RolesIn(Held(m)) \cup RolesIn(registryHead)
    BY <1>2, RolesLater
  <2>2. txn'.op = op /\ txn'.by = by
    BY <1>2 DEF End
  <2> QED BY <2>1, <2>2, RolesLater, HeldRoles
<1> QED BY <1>1, <1>2 DEF SaveONSManager

\* A panic.
LEMMA CrashRoles ==
  ASSUME NEW op, NEW by, Crash(op, by)
  PROVE  Roles' \subseteq Roles
  BY FreshRoles, UnwrittenRoles DEF Crash

\* What the helpers leave in memory when they work on the memory of the process.
LEMMA KnownRoles ==
  ASSUME IInv
  PROVE  /\ MemRoles(mem) \subseteq Roles
         /\ MemRoles(Cleared(mem)) \subseteq Roles
         /\ \A readable : MemRoles(Loaded(mem, readable)) \subseteq Roles
         /\ \A readable : MemRoles(Loaded(Cleared(mem), readable)) \subseteq Roles
         /\ \A by, readable : MemRoles(Consulted(by, readable)) \subseteq Roles
<1>1. GoodMemory(mem) /\ GoodMemory(Cleared(mem)) /\ GoodRegistry(registry)
  BY ClearedGood DEF IInv
<1>2. MemRoles(mem) \subseteq Roles /\ RolesIn(registry) \subseteq Roles
  BY RolesLater
<1>3. MemRoles(Cleared(mem)) \subseteq Roles
  BY <1>2, ClearedRoles
<1>4. \A readable : MemRoles(Loaded(mem, readable)) \subseteq Roles
  BY <1>1, <1>2, LoadedRoles
<1>5. \A readable : MemRoles(Loaded(Cleared(mem), readable)) \subseteq Roles
  <2> DEFINE m == Cleared(mem)
  <2> HIDE DEF m
  <2>1. GoodMemory(m) /\ MemRoles(m) \subseteq Roles
    BY <1>1, <1>3 DEF m
  <2>2. \A readable : MemRoles(Loaded(m, readable)) \subseteq Roles
    BY <1>1, <1>2, <2>1, LoadedRoles
  <2> QED BY <2>2 DEF m
<1>6. \A by, readable : MemRoles(Consulted(by, readable)) \subseteq Roles
  BY <1>2, <1>4 DEF Consulted
<1> QED BY <1>2, <1>3, <1>4, <1>5, <1>6

\* The transactions of sudo that appoint.
LEMMA AppointRoles ==
  ASSUME IInv, NEW by \in Address, NEW readable \in BOOLEAN, NEW writable \in BOOLEAN,
         AppointTxn(by, readable, writable)
  PROVE  \/ Roles' \subseteq Roles
         \/ \E r : Roles' \subseteq Roles \cup {r} /\ txn'.op = "appoint" /\ txn'.by = Sudo
<1>1. ASSUME Refuse(by, readable) PROVE Roles' \subseteq Roles
  BY <1>1, CrashRoles, UnwrittenRoles, KnownRoles DEF Refuse
<1>2. ASSUME NEW c \in Code, NEW a \in Address, AddManager(by, c, a, readable, writable)
      PROVE  \/ Roles' \subseteq Roles
             \/ Roles' \subseteq Roles \cup {<<a, c>>} /\ txn'.op = "appoint" /\ txn'.by = Sudo
  <2> DEFINE m == Loaded(mem, readable)
  <2>1. CASE by = Sudo /\ ~LoadPanics(mem, readable)
             /\ SaveONSManager("appoint", by, WithManager(m, c, a), writable)
    <3>1. GoodMemory(m) /\ MemRoles(m) \subseteq Roles
      BY <2>1, LoadedGood, KnownRoles DEF IInv
    <3> HIDE DEF m
    <3>2. MemRoles(WithManager(m, c, a)) \subseteq Roles \cup {<<a, c>>}
      BY <3>1, WithManagerRoles
    <3> QED BY <2>1, <3>2, SavedRoles
  <2> QED BY <1>1, <1>2, <2>1, CrashRoles DEF AddManager
<1>3. ASSUME NEW a \in Address, AddSuManager(by, a, readable, writable)
      PROVE  \/ Roles' \subseteq Roles
             \/ Roles' \subseteq Roles \cup {<<a, Nil>>} /\ txn'.op = "appoint" /\ txn'.by = Sudo
  <2>1. MemRoles(mem) \subseteq Roles \cup {<<a, Nil>>}
    BY KnownRoles
  <2>2. CASE by = Sudo /\ SaveONSManager("appoint", by, mem, writable)
    BY <2>1, <2>2, SavedRoles
  <2>3. CASE by = Sudo /\ mem.suMap # Nil
             /\ SaveONSManager("appoint", by, WithSu(mem, a), writable)
    <3>1. MemRoles(WithSu(mem, a)) \subseteq Roles \cup {<<a, Nil>>}
      BY <2>1, <2>3, WithSuRoles DEF IInv
    <3> QED BY <2>3, <3>1, SavedRoles
  <2> QED BY <1>1, <1>3, <2>2, <2>3, CrashRoles DEF AddSuManager
<1> QED BY <1>2, <1>3 DEF AppointTxn

\* The transactions of sudo that dismiss.
LEMMA DismissRoles ==
  ASSUME IInv, NEW by \in Address, NEW readable \in BOOLEAN, NEW writable \in BOOLEAN,
         DismissTxn(by, readable, writable)
  PROVE  Roles' \subseteq Roles
<1>1. ASSUME Refuse(by, readable) PROVE Roles' \subseteq Roles
  BY <1>1, CrashRoles, UnwrittenRoles, KnownRoles DEF Refuse
<1>2. ASSUME NEW c \in Code, RemoveManager(by, c, readable, writable)
      PROVE  Roles' \subseteq Roles
  <2> DEFINE m == Loaded(mem, readable)
  <2>1. MemRoles(m) \subseteq Roles
    BY KnownRoles
  <2>2. CASE Unwritten("dismiss", by, m, "internal")
    BY <2>1, <2>2, UnwrittenRoles
  <2>3. CASE ~LoadPanics(mem, readable) /\ m.mgr # Nil
             /\ SaveONSManager("dismiss", by, WithoutManager(m, c), writable)
    <3>1. GoodMemory(m)
      BY <2>3, LoadedGood DEF IInv
    <3> HIDE DEF m
    <3>2. MemRoles(WithoutManager(m, c)) \subseteq Roles
      BY <2>1, <2>3, <3>1, WithoutManagerRoles
    <3> QED BY <2>3, <3>2, SavedRoles
  <2> QED BY <1>1, <1>2, <2>2, <2>3, CrashRoles DEF RemoveManager
<1>3. ASSUME NEW a \in Address, RemoveSuManager(by, a, readable, writable)
      PROVE  Roles' \subseteq Roles
  <2>1. CASE Unwritten("dismiss", by, mem, "internal")
    BY <2>1, KnownRoles, UnwrittenRoles
  <2>2. CASE mem.su # Nil /\ SaveONSManager("dismiss", by, WithoutSu(mem, a), writable)
    <3>1. MemRoles(WithoutSu(mem, a)) \subseteq Roles
      BY <2>2, KnownRoles, WithoutSuRoles DEF IInv
    <3> QED BY <2>2, <3>1, SavedRoles
  <2> QED BY <1>1, <1>3, <2>1, <2>2 DEF RemoveSuManager
<1>4. ASSUME DeleteAllManager(by, readable, writable) PROVE Roles' \subseteq Roles
  <2>1. CASE Unwritten("reset", by, Cleared(mem), "internal")
    BY <2>1, KnownRoles, UnwrittenRoles
  <2>2. CASE mem' = Cleared(mem) /\ registry' = Absent /\ UNCHANGED registryHead
    <3>1. RolesIn(Absent) = {}
      BY DEF RolesIn, Absent
    <3>2. Roles' = MemRoles(Cleared(mem)) \cup RolesIn(registryHead)
      BY <2>2, <3>1, RolesLater
    <3> QED BY <3>2, KnownRoles, RolesLater
  <2> QED BY <1>1, <1>4, <2>1, <2>2 DEF DeleteAllManager
<1> QED BY <1>2, <1>3, <1>4 DEF DismissTxn

\* All other steps.
LEMMA OtherRoles ==
  ASSUME IInv, NEW by \in Address, NEW op \in {0, 1}, NEW c \in Code \cup {Nil},
         NEW readable \in BOOLEAN,
         \/ OperateManager(by, op, readable) \/ UseTxn(by, c, readable)
         \/ Restart \/ CommitBlock \/ AbortBlock
  PROVE  Roles' \subseteq Roles
<1>1. CASE OperateManager(by, op, readable)
  BY <1>1, CrashRoles, UnwrittenRoles, KnownRoles DEF OperateManager
<1>2. CASE ConsultCrash(by, readable)
  BY <1>2, CrashRoles DEF ConsultCrash
<1>3. CASE Answered(by, c, readable)
  <2>1. Roles' = MemRoles(Consulted(by, readable)) \cup RolesIn(registry) \cup RolesIn(registryHead)
    BY <1>3, RolesLater DEF Answered
  <2> QED BY <2>1, KnownRoles, RolesLater
<1>4. CASE IndexCrash(by, readable)
  BY <1>4, FreshRoles, UnwrittenRoles DEF IndexCrash
<1>5. CASE Restart
  <2>1. Roles' = MemRoles(Fresh) \cup RolesIn(registry) \cup RolesIn(registryHead)
    BY <1>5, RolesLater DEF Restart
  <2> QED BY <2>1, FreshRoles, RolesLater
<1>6. CASE CommitBlock \/ AbortBlock
  <2>1. /\ mem' = mem /\ registry' \in {registry, registryHead}
        /\ registryHead' \in {registry, registryHead}
    BY <1>6 DEF CommitBlock, AbortBlock
  <2> QED BY <2>1, RolesLater
<1> QED BY <1>1, <1>2, <1>3, <1>4, <1>5, <1>6 DEF UseTxn

\* Every role a process, the block or the committed list knows was given by an
\* appointment sudo signed, one at a time: nothing that is lost, stale or rolled
\* back brings one about, for any number of addresses and codes.
THEOREM RolesComeFromSudoHolds == Spec => RolesComeFromSudo
<1> DEFINE Given == \A r, q \in Roles' \ Roles : r = q /\ txn'.op = "appoint" /\ txn'.by = Sudo
<1>1. IInv /\ Next => Given
  <2> SUFFICES ASSUME IInv, Next PROVE Given
    OBVIOUS
  <2>1. ASSUME NEW by \in Address, NEW readable \in BOOLEAN, NEW writable \in BOOLEAN,
               AppointTxn(by, readable, writable)
        PROVE  Given
    BY <2>1, AppointRoles
  <2>2. ASSUME Roles' \subseteq Roles PROVE Given
    BY <2>2
  <2>3. ASSUME NEW by \in Address, NEW readable \in BOOLEAN, NEW writable \in BOOLEAN,
               DismissTxn(by, readable, writable)
        PROVE  Given
    BY <2>2, <2>3, DismissRoles
  <2>4. ASSUME NEW by \in Address, NEW op \in {0, 1}, NEW readable \in BOOLEAN,
               OperateManager(by, op, readable)
        PROVE  Given
    BY <2>2, <2>4, OtherRoles
  <2>5. ASSUME NEW by \in Address, NEW c \in Code \cup {Nil}, NEW readable \in BOOLEAN,
               UseTxn(by, c, readable)
        PROVE  Given
    BY <2>2, <2>5, OtherRoles
  <2>6. CASE Restart \/ CommitBlock \/ AbortBlock
    BY <2>2, <2>6, SudoAssumption, OtherRoles
  <2> QED BY <2>1, <2>3, <2>4, <2>5, <2>6 DEF Next
<1>2. IInv /\ [Next]_vars => [Given]_vars
  BY <1>1
<1> QED BY <1>2, Invariance, PTL DEF Spec, RolesComeFromSudo

-----------------------------------------------------------------------------
(* OnsManagerOperated *)

\* The address a list names for a code, as ManagerOf does.
Looked(list, c) == IF Has(list, c) THEN list[Find(list, c)].addr ELSE Nil

\* KnowsAll and KnowsNothing of any memory.
Agrees(m, r) ==
  /\ Held(m) = r
  /\ m.mgrMap = ManagerOf(r)
  /\ m.suMap = Nil => r.su = <<>>
  /\ m.suMap # Nil => m.suMap = Range(r.su)

\* A process that was just started or has just cleared its cache.
Unknowing(m) == m \in {Fresh, [Fresh EXCEPT !.suMap = Nil]}

\* Memory m knows all of list r or nothing.
Whole(m, r) == (m.cached => Agrees(m, r)) /\ (Unknowing(m) \/ Agrees(m, r))

\* The inductive invariant.
OperatedInv == IInv /\ Whole(mem, registry)

-----------------------------------------------------------------------------
(* Looking up a code in a list *)

\* In a list without two entries of one code every entry is found.
LEMMA LookedFacts ==
  ASSUME NEW list \in Seq(Entry), UniqueCodes(list), NEW c
  PROVE  /\ \A i \in DOMAIN list : list[i].gs1 = c => Looked(list, c) = list[i].addr
         /\ (\A i \in DOMAIN list : list[i].gs1 # c) => Looked(list, c) = Nil
<1>1. ASSUME NEW i \in DOMAIN list, list[i].gs1 = c
      PROVE  Looked(list, c) = list[i].addr
  <2>1. Has(list, c)
    BY <1>1 DEF Has
  <2>2. Find(list, c) \in DOMAIN list /\ list[Find(list, c)].gs1 = c
    BY <2>1, FindFacts
  <2>3. Find(list, c) = i
    BY <1>1, <2>2 DEF UniqueCodes
  <2> QED BY <2>1, <2>3 DEF Looked
<1>2. (\A i \in DOMAIN list : list[i].gs1 # c) => Looked(list, c) = Nil
  BY DEF Looked, Has
<1> QED BY <1>1, <1>2

\* A code has an entry if the list names an address for it.
LEMMA HasFacts ==
  ASSUME NEW list \in Seq(Entry), UniqueCodes(list), NEW c
  PROVE  Has(list, c) <=> Looked(list, c) # Nil
<1>1. ASSUME Has(list, c) PROVE Looked(list, c) # Nil
  <2>1. Find(list, c) \in DOMAIN list
    BY <1>1, FindFacts
  <2>2. list[Find(list, c)] \in Entry
    BY <2>1, ElementOfSeq, LenProperties
  <2> QED BY <1>1, <2>2, NilAssumption DEF Looked, Entry
<1> QED BY <1>1 DEF Looked

\* Overwriting the entry of a code changes what is found for this code only.
LEMMA LookedReplaced ==
  ASSUME NEW list \in Seq(Entry), UniqueCodes(list), NEW new \in Seq(Entry), UniqueCodes(new),
         NEW k \in DOMAIN list, DOMAIN new = DOMAIN list, new[k].gs1 = list[k].gs1,
         \A j \in DOMAIN list : j # k => new[j] = list[j],
         NEW d
  PROVE  Looked(new, d) = IF d = list[k].gs1 THEN new[k].addr ELSE Looked(list, d)
<1>1. CASE d = list[k].gs1
  BY <1>1, LookedFacts
<1>2. CASE d # list[k].gs1
  <2>1. \A j \in DOMAIN list : list[j].gs1 = d <=> new[j].gs1 = d
    BY <1>2
  <2>2. ASSUME NEW j \in DOMAIN list, list[j].gs1 = d
        PROVE  Looked(new, d) = Looked(list, d)
    <3>1. j # k /\ new[j] = list[j]
      BY <1>2, <2>2
    <3>2. Looked(new, d) = new[j].addr
      BY <2>1, <2>2, LookedFacts
    <3>3. Looked(list, d) = list[j].addr
      BY <2>2, LookedFacts
    <3> QED BY <3>1, <3>2, <3>3
  <2>3. (\A j \in DOMAIN list : list[j].gs1 # d) => Looked(new, d) = Looked(list, d)
    BY <2>1, LookedFacts
  <2> QED BY <1>2, <2>2, <2>3
<1> QED BY <1>1, <1>2

\* Appending the entry of a new code adds this code only.
LEMMA LookedAppended ==
  ASSUME NEW list \in Seq(Entry), UniqueCodes(list), NEW e \in Entry, ~Has(list, e.gs1), NEW d
  PROVE  Looked(Append(list, e), d) = IF d = e.gs1 THEN e.addr ELSE Looked(list, d)
<1> DEFINE new == Append(list, e)
<1>1. new \in Seq(Entry) /\ UniqueCodes(new)
  BY AppendEntryFacts
<1>2. /\ DOMAIN new = 1..(Len(list) + 1)
      /\ DOMAIN list = 1..Len(list) /\ Len(list) \in Nat
      /\ \A i \in 1..Len(list) : new[i] = list[i]
      /\ new[Len(list) + 1] = e
  BY AppendProperties, LenProperties
<1> HIDE DEF new
<1>3. CASE d = e.gs1
  <2>1. Len(list) + 1 \in DOMAIN new
    BY <1>2
  <2>2. Looked(new, d) = e.addr
    BY <1>1, <1>2, <1>3, <2>1, LookedFacts
  <2> QED BY <1>3, <2>2 DEF new
<1>4. CASE d # e.gs1
  <2>1. ASSUME NEW j \in DOMAIN list, list[j].gs1 = d
        PROVE  Looked(new, d) = Looked(list, d)
    <3>1. j \in DOMAIN new /\ new[j] = list[j]
      BY <1>2
    <3>2. Looked(new, d) = new[j].addr
      BY <1>1, <2>1, <3>1, LookedFacts
    <3>3. Looked(list, d) = list[j].addr
      BY <2>1, LookedFacts
    <3> QED BY <3>1, <3>2, <3>3
  <2>2. ASSUME \A j \in DOMAIN list : list[j].gs1 # d
        PROVE  Looked(new, d) = Looked(list, d)
    <3>1. \A j \in DOMAIN new : new[j].gs1 # d
      BY <1>2, <1>4, <2>2
    <3> QED BY <1>1, <2>2, <3>1, LookedFacts
  <2> QED BY <1>4, <2>1, <2>2 DEF new
<1> QED BY <1>3, <1>4

\* Taking the entry of a code out removes this code only.
LEMMA LookedRemoved ==
  ASSUME NEW list \in Seq(Entry), UniqueCodes(list), NEW c, Has(list, c), NEW d
  PROVE  Looked(RemoveAt(list, Find(list, c)), d) = IF d = c THEN Nil ELSE Looked(list, d)
<1> DEFINE k == Find(list, c)
           new == RemoveAt(list, k)
<1>1. k \in DOMAIN list /\ list[k].gs1 = c
  BY FindFacts
<1> HIDE DEF k
<1>2. new \in Seq(Entry) /\ UniqueCodes(new)
  BY <1>1, RemoveAtFacts, RemoveAtUnique
<1>3. /\ DOMAIN new = 1..(Len(list) - 1)
      /\ \A j \in 1..(Len(list) - 1) : new[j] = IF j < k THEN list[j] ELSE list[j + 1]
  BY <1>1, RemoveAtFacts
<1>4. DOMAIN list = 1..Len(list) /\ Len(list) \in Nat
  BY LenProperties
<1> HIDE DEF new
<1>5. \A j \in DOMAIN new : \E i \in DOMAIN list : i # k /\ new[j] = list[i]
  <2> SUFFICES ASSUME NEW j \in DOMAIN new
               PROVE  \E i \in DOMAIN list : i # k /\ new[j] = list[i]
    OBVIOUS
  <2>1. CASE j < k
    BY <1>3, <1>4, <2>1
  <2>2. CASE ~(j < k)
    <3>1. j + 1 \in DOMAIN list /\ j + 1 # k /\ new[j] = list[j + 1]
      BY <1>1, <1>3, <1>4, <2>2
    <3> QED BY <3>1
  <2> QED BY <2>1, <2>2
<1>6. CASE d = c
  <2>1. \A j \in DOMAIN new : new[j].gs1 # d
    BY <1>1, <1>5, <1>6 DEF UniqueCodes
  <2> QED BY <1>2, <1>6, <2>1, LookedFacts DEF new, k
<1>7. CASE d # c
  <2>1. ASSUME NEW i \in DOMAIN list, list[i].gs1 = d
        PROVE  Looked(new, d) = Looked(list, d)
    <3>1. i # k
      BY <1>1, <1>7, <2>1
    <3>2. PICK j \in DOMAIN new : new[j] = list[i]
      <4>1. CASE i < k
        <5>1. i \in 1..(Len(list) - 1) /\ new[i] = list[i]
          BY <1>1, <1>3, <1>4, <4>1
        <5> QED BY <1>3, <5>1
      <4>2. CASE i > k
        <5>1. i - 1 \in 1..(Len(list) - 1) /\ new[i - 1] = list[(i - 1) + 1] /\ (i - 1) + 1 = i
          BY <1>1, <1>3, <1>4, <4>2
        <5> QED BY <1>3, <5>1
      <4> QED BY <1>1, <1>4, <3>1, <4>1, <4>2
    <3>3. Looked(new, d) = new[j].addr
      BY <1>2, <2>1, <3>2, LookedFacts
    <3>4. Looked(list, d) = list[i].addr
      BY <2>1, LookedFacts
    <3> QED BY <3>2, <3>3, <3>4
  <2>2. ASSUME \A i \in DOMAIN list : list[i].gs1 # d
        PROVE  Looked(new, d) = Looked(list, d)
    <3>1. \A j \in DOMAIN new : new[j].gs1 # d
      BY <1>5, <2>2
    <3> QED BY <1>2, <2>2, <3>1, LookedFacts
  <2> QED BY <1>7, <2>1, <2>2 DEF new, k
<1> QED BY <1>6, <1>7

-----------------------------------------------------------------------------
(* The set of listed su managers *)

\* Appending adds one element.
LEMMA RangeAppended ==
  ASSUME NEW S, NEW list \in Seq(S), NEW a \in S
  PROVE  Range(Append(list, a)) = Range(list) \cup {a}
<1>1. /\ DOMAIN Append(list, a) = 1..(Len(list) + 1)
      /\ DOMAIN list = 1..Len(list) /\ Len(list) \in Nat
      /\ \A i \in 1..Len(list) : Append(list, a)[i] = list[i]
      /\ Append(list, a)[Len(list) + 1] = a
  BY AppendProperties, LenProperties
<1>2. ASSUME NEW x \in Range(Append(list, a)) PROVE x \in Range(list) \cup {a}
  BY <1>1 DEF Range
<1>3. ASSUME NEW x \in Range(list) PROVE x \in Range(Append(list, a))
  <2>1. PICK i \in DOMAIN list : x = list[i]
    BY DEF Range
  <2>2. i \in DOMAIN Append(list, a) /\ x = Append(list, a)[i]
    BY <1>1, <2>1
  <2> QED BY <2>2 DEF Range
<1>4. a \in Range(Append(list, a))
  <2>1. Len(list) + 1 \in DOMAIN Append(list, a)
    BY <1>1
  <2> QED BY <1>1, <2>1 DEF Range
<1> QED BY <1>2, <1>3, <1>4

\* Taking one of different elements out removes it.
LEMMA RangeRemoved ==
  ASSUME NEW S, NEW list \in Seq(S), Injective(list), NEW k \in DOMAIN list
  PROVE  Range(RemoveAt(list, k)) = Range(list) \ {list[k]}
<1> DEFINE new == RemoveAt(list, k)
<1>1. DOMAIN list = 1..Len(list) /\ Len(list) \in Nat
  BY LenProperties
<1>2. /\ DOMAIN new = 1..(Len(list) - 1)
      /\ \A j \in 1..(Len(list) - 1) : new[j] = IF j < k THEN list[j] ELSE list[j + 1]
  BY RemoveAtFacts
<1>3. \A j \in DOMAIN new : \E i \in DOMAIN list : i # k /\ new[j] = list[i]
  BY RemoveAtInjective
<1> HIDE DEF new
<1>4. ASSUME NEW x \in Range(new) PROVE x \in Range(list) \ {list[k]}
  <2>1. PICK j \in DOMAIN new : x = new[j]
    BY DEF Range
  <2>2. PICK i \in DOMAIN list : i # k /\ x = list[i]
    BY <1>3, <2>1
  <2> QED BY <2>2 DEF Range, Injective
<1>5. ASSUME NEW x \in Range(list) \ {list[k]} PROVE x \in Range(new)
  <2>1. PICK i \in DOMAIN list : x = list[i] /\ i # k
    BY DEF Range
  <2>2. CASE i < k
    <3>1. i \in 1..(Len(list) - 1) /\ new[i] = list[i]
      BY <1>1, <1>2, <2>2
    <3> QED BY <1>2, <2>1, <3>1 DEF Range
  <2>3. CASE i > k
    <3>1. i - 1 \in 1..(Len(list) - 1) /\ new[i - 1] = list[(i - 1) + 1] /\ (i - 1) + 1 = i
      BY <1>1, <1>2, <2>3
    <3> QED BY <1>2, <2>1, <3>1 DEF Range
  <2> QED BY <1>1, <2>1, <2>2, <2>3
<1> QED BY <1>4, <1>5 DEF new

-----------------------------------------------------------------------------
(* The helpers of the package keep list and maps together *)

\* A process that knows nothing knows all of an empty list.
LEMMA UnknowingAgrees ==
  ASSUME NEW m, Unknowing(m)
  PROVE  Agrees(m, Absent) /\ ~m.cached
<1>1. Held(m) = Absent /\ m.mgrMap = NoManagers /\ m.suMap \in {{}, Nil} /\ ~m.cached
  BY EmptyFacts DEF Unknowing, Fresh, Held, Absent
<1>2. ManagerOf(Absent) = NoManagers
  BY DEF ManagerOf, Absent, NoManagers, Has
<1>3. Range(Absent.su) = {} /\ Absent.su = <<>>
  BY DEF Absent, Range
<1> QED BY <1>1, <1>2, <1>3 DEF Agrees

\* loadCachedONSManager on a whole memory: all of the list is known.
LEMMA LoadedAgrees ==
  ASSUME NEW m, Whole(m, registry), GoodMemory(m), GoodRegistry(registry), ~LoadPanics(m, TRUE)
  PROVE  Agrees(Loaded(m, TRUE), registry)
<1>1. CASE m.cached
  BY <1>1 DEF Loaded, Whole
<1>2. CASE registry = Absent
  <2>1. Loaded(m, TRUE) = m
    BY <1>2 DEF Loaded
  <2> QED BY <1>2, <2>1, UnknowingAgrees DEF Whole
<1>3. CASE ~m.cached /\ registry # Absent
  <2> DEFINE new == [su     |-> NilIfEmpty(registry.su),
                     mgr    |-> NilIfEmpty(registry.mgr),
                     cached |-> TRUE,
                     suMap  |-> IF m.suMap = Nil THEN Nil ELSE m.suMap \cup Range(registry.su),
                     mgrMap |-> [c \in Code |-> IF Has(registry.mgr, c)
                                                THEN registry.mgr[Find(registry.mgr, c)].addr
                                                ELSE m.mgrMap[c]]]
  <2>1. Loaded(m, TRUE) = new
    BY <1>3 DEF Loaded
  <2>2. /\ registry.su \in Seq(Address) /\ registry.mgr \in Seq(Entry)
        /\ registry = [su |-> registry.su, mgr |-> registry.mgr]
    BY DEF GoodRegistry, Registry
  <2>3. Held(new) = registry
    BY <2>2, NilIfEmptyFacts, NilListAssumption DEF Held
  <2>4. new.mgrMap = ManagerOf(registry)
    <3>1. \A c \in Code : ~Has(registry.mgr, c) => m.mgrMap[c] = Nil
      BY DEF Whole, Agrees, Unknowing, Fresh, NoManagers, ManagerOf
    <3> QED BY <3>1 DEF ManagerOf
  <2>5. new.suMap = Nil => registry.su = <<>>
    <3>1. CASE m.suMap = Nil
      BY <1>3, <3>1 DEF LoadPanics
    <3>2. CASE m.suMap # Nil
      <4>1. \A i \in DOMAIN registry.su : registry.su[i] \in Address
        BY <2>2, LenProperties, ElementOfSeq
      <4>2. m.suMap \cup Range(registry.su) \in SUBSET Address
        BY <3>2, <4>1 DEF GoodMemory, Memory, Range
      <4> QED BY <3>2, <4>2, NilAssumption
    <3> QED BY <3>1, <3>2
  <2>6. new.suMap # Nil => new.suMap = Range(registry.su)
    <3>1. m.suMap \in {{}, Nil, Range(registry.su)}
      BY DEF Whole, Agrees, Unknowing, Fresh
    <3> QED BY <3>1
  <2> HIDE DEF new
  <2> QED BY <2>1, <2>3, <2>4, <2>5, <2>6 DEF Agrees
<1> QED BY <1>1, <1>2, <1>3

\* AddGS1CodeManager writes map and list alike.
LEMMA WithManagerAgrees ==
  ASSUME NEW m, NEW r, Agrees(m, r), GoodMemory(m), NEW c \in Code, NEW a \in Address
  PROVE  LET n == WithManager(m, c, a)
         IN  /\ Agrees(n, Held(n))
             /\ Held(n).su = r.su
             /\ ManagerOf(Held(n)) = [ManagerOf(r) EXCEPT ![c] = a]
<1> DEFINE n == WithManager(m, c, a)
           list == Entries(m.mgr)
           e == [gs1 |-> c, addr |-> a]
           newList == IF Has(list, c) THEN [list EXCEPT ![Find(list, c)] = e] ELSE Append(list, e)
<1>1. /\ list \in Seq(Entry) /\ UniqueCodes(list) /\ list = r.mgr /\ Entries(m.su) = r.su
      /\ r = Held(m)
  BY MemoryElim, EntriesFacts DEF Agrees, Held
<1>2. ManagerOf(r) = m.mgrMap /\ \A d \in Code : m.mgrMap[d] = Looked(list, d)
  BY <1>1 DEF Agrees, ManagerOf, Looked
<1>3. CASE m.mgrMap[c] = a
  <2>1. n = m
    BY <1>3 DEF WithManager
  <2>2. [ManagerOf(r) EXCEPT ![c] = a] = ManagerOf(r)
    BY <1>2, <1>3 DEF ManagerOf
  <2> QED BY <1>1, <2>1, <2>2
<1>4. CASE m.mgrMap[c] # a
  <2>1. e \in Entry /\ e.gs1 = c /\ e.addr = a
    BY DEF Entry
  <2>2. newList \in Seq(Entry)
    <3> HIDE DEF list
    <3>1. CASE Has(list, c)
      BY <1>1, <3>1, ReplaceEntryFacts
    <3>2. CASE ~Has(list, c)
      <4> HIDE DEF e
      <4> QED BY <1>1, <2>1, <3>2, AppendEntryFacts
    <3> QED BY <3>1, <3>2
  <2>3. \A d \in Code : Looked(newList, d) = IF d = c THEN a ELSE Looked(list, d)
    <3> HIDE DEF list
    <3>1. CASE Has(list, c)
      <4>1. newList = [list EXCEPT ![Find(list, c)] = [gs1 |-> c, addr |-> a]]
        BY <3>1
      <4>2. UniqueCodes(newList)
        BY <1>1, <3>1, <4>1, ReplaceEntryFacts
      <4> DEFINE k == Find(list, c)
      <4>3. k \in DOMAIN list /\ list[k].gs1 = c
        BY <1>1, <3>1, FindFacts
      <4> HIDE DEF newList, k
      <4>4. /\ DOMAIN newList = DOMAIN list /\ newList[k] = [gs1 |-> c, addr |-> a]
            /\ \A j \in DOMAIN list : j # k => newList[j] = list[j]
        BY <4>1, <4>3 DEF k
      <4>5. newList[k].gs1 = list[k].gs1 /\ newList[k].addr = a
        BY <4>3, <4>4
      <4>6. \A d \in Code : Looked(newList, d) =
              IF d = list[k].gs1 THEN newList[k].addr ELSE Looked(list, d)
        BY <1>1, <2>2, <4>2, <4>3, <4>4, <4>5, LookedReplaced
      <4> QED BY <4>3, <4>5, <4>6
    <3>2. CASE ~Has(list, c)
      <4> HIDE DEF e
      <4> QED BY <1>1, <2>1, <3>2, LookedAppended
    <3> QED BY <3>1, <3>2
  <2>4. n = [m EXCEPT !.mgrMap = [m.mgrMap EXCEPT ![c] = a], !.mgr = newList]
    BY <1>4 DEF WithManager
  <2> HIDE DEF newList, e, list, n
  <2>5. /\ n.su = m.su /\ n.mgr = newList /\ n.suMap = m.suMap
        /\ n.mgrMap = [m.mgrMap EXCEPT ![c] = a]
    BY <2>4, MemoryElim DEF GoodMemory, Memory
  <2>6. Held(n) = [su |-> r.su, mgr |-> newList]
    BY <1>1, <2>2, <2>5, NilListAssumption DEF Held, Entries
  <2>7. ManagerOf(Held(n)) = [m.mgrMap EXCEPT ![c] = a]
    <3>1. ManagerOf(Held(n)) = [d \in Code |-> Looked(newList, d)]
      BY <2>6 DEF ManagerOf, Looked
    <3>2. m.mgrMap = [d \in Code |-> Looked(list, d)]
      BY <1>2 DEF ManagerOf
    <3> QED BY <2>3, <3>1, <3>2
  <2> QED BY <1>2, <2>5, <2>6, <2>7 DEF Agrees, n
<1> QED BY <1>3, <1>4

\* RemoveGS1CodeManager does, too.
LEMMA WithoutManagerAgrees ==
  ASSUME NEW m, NEW r, Agrees(m, r), GoodMemory(m), m.mgr # Nil, NEW c \in Code
  PROVE  LET n == WithoutManager(m, c)
         IN  /\ Agrees(n, Held(n))
             /\ Held(n).su = r.su
             /\ ManagerOf(Held(n)) = [ManagerOf(r) EXCEPT ![c] = Nil]
<1> DEFINE n == WithoutManager(m, c)
           list == m.mgr
           newList == IF Has(list, c) THEN RemoveAt(list, Find(list, c)) ELSE list
<1>1. /\ list \in Seq(Entry) /\ UniqueCodes(list) /\ list = r.mgr /\ Entries(m.su) = r.su
  BY MemoryElim DEF Agrees, Held, Entries
<1>2. ManagerOf(r) = m.mgrMap /\ \A d \in Code : m.mgrMap[d] = Looked(list, d)
  BY <1>1 DEF Agrees, ManagerOf, Looked
<1>3. newList \in Seq(Entry) /\ \A d \in Code : Looked(newList, d) = IF d = c THEN Nil ELSE Looked(list, d)
  <2> HIDE DEF list
  <2>1. CASE Has(list, c)
    BY <1>1, <2>1, LookedRemoved, FindFacts, RemoveAtFacts
  <2>2. CASE ~Has(list, c)
    BY <1>1, <2>2 DEF Looked
  <2> QED BY <2>1, <2>2
<1>4. n = [m EXCEPT !.mgrMap = [m.mgrMap EXCEPT ![c] = Nil], !.mgr = newList]
  BY DEF WithoutManager
<1> HIDE DEF newList, list, n
<1>5. /\ n.su = m.su /\ n.mgr = newList /\ n.suMap = m.suMap
      /\ n.mgrMap = [m.mgrMap EXCEPT ![c] = Nil]
  BY <1>4, MemoryElim DEF GoodMemory, Memory
<1>6. Held(n) = [su |-> r.su, mgr |-> newList]
  BY <1>1, <1>3, <1>5, NilListAssumption DEF Held, Entries
<1>7. ManagerOf(Held(n)) = [m.mgrMap EXCEPT ![c] = Nil]
  <2>1. ManagerOf(Held(n)) = [d \in Code |-> Looked(newList, d)]
    BY <1>6 DEF ManagerOf, Looked
  <2>2. m.mgrMap = [d \in Code |-> Looked(list, d)]
    BY <1>2 DEF ManagerOf
  <2> QED BY <1>3, <2>1, <2>2
<1> QED BY <1>2, <1>5, <1>6, <1>7 DEF Agrees, n

\* AddSuManager of an address that is not in the map.
LEMMA WithSuAgrees ==
  ASSUME NEW m, NEW r, Agrees(m, r), GoodMemory(m), m.suMap # Nil, NEW a \in Address
  PROVE  LET n == WithSu(m, a)
         IN  /\ Agrees(n, Held(n))
             /\ Range(Held(n).su) = Range(r.su) \cup {a}
             /\ Held(n).mgr = r.mgr
<1> DEFINE n == WithSu(m, a)
           list == Entries(m.su)
           newList == Append(list, a)
<1>1. list \in Seq(Address) /\ list = r.su /\ Entries(m.mgr) = r.mgr
  BY MemoryElim, EntriesFacts DEF Agrees, Held
<1>2. newList \in Seq(Address) /\ Range(newList) = Range(list) \cup {a}
  BY <1>1, RangeAppended, AppendProperties
<1>3. n = [m EXCEPT !.suMap = m.suMap \cup {a}, !.su = newList]
  BY DEF WithSu
<1>4. m.suMap = Range(list) /\ m.suMap \cup {a} # Nil
  BY <1>1, MemoryElim, NilAssumption DEF Agrees
<1> HIDE DEF newList, list, n
<1>5. n.su = newList /\ n.mgr = m.mgr /\ n.suMap = m.suMap \cup {a} /\ n.mgrMap = m.mgrMap
  BY <1>3, MemoryElim DEF GoodMemory, Memory
<1>6. Held(n) = [su |-> newList, mgr |-> r.mgr]
  BY <1>1, <1>2, <1>5, NilListAssumption DEF Held, Entries
<1>7. ManagerOf(Held(n)) = ManagerOf(r)
  BY <1>6 DEF ManagerOf
<1> QED BY <1>1, <1>2, <1>4, <1>5, <1>6, <1>7 DEF Agrees, n

\* RemoveSuManager.
LEMMA WithoutSuAgrees ==
  ASSUME NEW m, NEW r, Agrees(m, r), GoodMemory(m), m.su # Nil, NEW a \in Address
  PROVE  LET n == WithoutSu(m, a)
         IN  /\ Agrees(n, Held(n))
             /\ Range(Held(n).su) = Range(r.su) \ {a}
             /\ Held(n).mgr = r.mgr
<1> DEFINE n == WithoutSu(m, a)
           listed == \E i \in DOMAIN m.su : m.su[i] = a
           k == CHOOSE i \in DOMAIN m.su : m.su[i] = a
           newMap == IF m.suMap = Nil THEN Nil ELSE m.suMap \ {a}
           newList == IF listed THEN RemoveAt(m.su, k) ELSE m.su
<1>1. m.su \in Seq(Address) /\ Injective(m.su) /\ m.su = r.su /\ Entries(m.mgr) = r.mgr
  BY MemoryElim DEF Agrees, Held, Entries
<1>2. newList \in Seq(Address) /\ Range(newList) = Range(m.su) \ {a}
  <2>1. CASE listed
    <3>1. k \in DOMAIN m.su /\ m.su[k] = a
      BY <2>1
    <3> HIDE DEF k
    <3> QED BY <1>1, <2>1, <3>1, RangeRemoved, RemoveAtFacts
  <2>2. CASE ~listed
    BY <1>1, <2>2 DEF Range
  <2> QED BY <2>1, <2>2
<1>3. n = [m EXCEPT !.suMap = newMap, !.su = newList]
  BY DEF WithoutSu
<1>4. /\ m.suMap # Nil => m.suMap = Range(m.su) /\ m.suMap \ {a} # Nil
      /\ m.suMap = Nil => ~listed
  <2>1. m.suMap = Nil => m.su = <<>>
    BY <1>1 DEF Agrees
  <2> QED BY <1>1, <2>1, MemoryElim, NilAssumption DEF Agrees
<1>5. (newMap = Nil => newList = <<>>) /\ (newMap # Nil => newMap = Range(newList))
  <2>1. m.suMap = Nil => m.su = <<>>
    BY <1>1 DEF Agrees
  <2> QED BY <1>2, <1>4, <2>1
<1> HIDE DEF newList, newMap, n
<1>6. n.su = newList /\ n.mgr = m.mgr /\ n.suMap = newMap /\ n.mgrMap = m.mgrMap
  BY <1>3, MemoryElim DEF GoodMemory, Memory
<1>7. Held(n) = [su |-> newList, mgr |-> r.mgr]
  BY <1>1, <1>2, <1>6, NilListAssumption DEF Held, Entries
<1>8. ManagerOf(Held(n)) = ManagerOf(r)
  BY <1>7 DEF ManagerOf
<1>9. Agrees(n, Held(n))
  <2>1. m.mgrMap = ManagerOf(r)
    BY DEF Agrees
  <2>2. Held(n).su = newList
    BY <1>7
  <2> QED BY <1>5, <1>6, <1>8, <2>1, <2>2 DEF Agrees
<1>10. Range(Held(n).su) = Range(r.su) \ {a} /\ Held(n).mgr = r.mgr
  BY <1>1, <1>2, <1>7
<1> QED BY <1>9, <1>10 DEF n

\* The memory of a process that has just started is whole, whatever is listed.
LEMMA FreshWhole ==
  ASSUME NEW r
  PROVE  Whole(Fresh, r)
  BY DEF Whole, Unknowing, Fresh

\* loadCachedONSManager leaves a whole memory, whether or not the read succeeds.
LEMMA LoadedWhole ==
  ASSUME NEW m, Whole(m, registry), GoodMemory(m), GoodRegistry(registry),
         NEW readable \in BOOLEAN, ~LoadPanics(m, readable)
  PROVE  Whole(Loaded(m, readable), registry)
<1>1. CASE readable
  BY <1>1, LoadedAgrees DEF Whole
<1>2. CASE ~readable
  BY <1>2 DEF Loaded
<1> QED BY <1>1, <1>2

\* clearCachedONSManager leaves a memory that knows nothing, if it was cached.
LEMMA ClearedWhole ==
  ASSUME NEW m, NEW r, Whole(m, r)
  PROVE  Whole(Cleared(m), r)
  BY DEF Cleared, Whole, Unknowing, Fresh

\* A whole memory that holds a list, or has cached one, knows all.
LEMMA HoldingAgrees ==
  ASSUME NEW m, NEW r, Whole(m, r), m.cached \/ m.su # Nil \/ m.mgr # Nil \/ r = Absent
  PROVE  Agrees(m, r)
<1>1. CASE r = Absent
  BY <1>1, UnknowingAgrees DEF Whole
<1>2. CASE r # Absent
  BY <1>2 DEF Whole, Unknowing, Fresh
<1> QED BY <1>1, <1>2

-----------------------------------------------------------------------------
(* What a step does to the list, seen through ManagerRegistry *)

\* Nothing: the transaction was refused or failed, or the process restarted.
Quiet ==
  /\ registry' = registry
  /\ txn'.answer = Nil
  /\ Whole(mem', registry)

\* A permission was asked for, and answered as the list says.
Asked(c, by) ==
  /\ registry' = registry
  /\ txn'.answer = [code |-> c, level |-> Registered!Level(c, by)]
  /\ Whole(mem', registry)

\* The list was saved, and is what the process knows.
Written == Agrees(mem', registry') /\ txn'.answer = Nil

Appoints(c, a) ==
  /\ Written
  /\ registry'.su = registry.su
  /\ ManagerOf(registry') = [ManagerOf(registry) EXCEPT ![c] = a]

Dismisses(c) ==
  /\ Written /\ txn'.op = "dismiss"
  /\ registry'.su = registry.su
  /\ ManagerOf(registry') = [ManagerOf(registry) EXCEPT ![c] = Nil]

AppointsSu(a) ==
  /\ Written
  /\ Range(registry'.su) = Range(registry.su) \cup {a}
  /\ registry'.mgr = registry.mgr

DismissesSu(a) ==
  /\ Written /\ txn'.op = "dismiss"
  /\ Range(registry'.su) = Range(registry.su) \ {a}
  /\ registry'.mgr = registry.mgr

\* There is nothing else a step can do.
Step ==
  \/ Quiet
  \/ \E c \in Code \cup {Nil}, by \in Address : Asked(c, by)
  \/ \E c \in Code, a \in Address : Appoints(c, a)
  \/ \E c \in Code : Dismisses(c)
  \/ \E a \in Address : AppointsSu(a) \/ DismissesSu(a)

-----------------------------------------------------------------------------
(* Each transaction is one of these steps *)

\* A transaction that writes nothing and leaves a whole memory.
LEMMA UnwrittenIsQuiet ==
  ASSUME NEW op, NEW by, NEW m, Whole(m, registry), NEW result, Unwritten(op, by, m, result)
  PROVE  Quiet
  BY DEF Unwritten, End, Quiet, NoAnswer

\* A panic.
LEMMA CrashIsQuiet ==
  ASSUME NEW op, NEW by, Crash(op, by)
  PROVE  Quiet
  BY FreshWhole, UnwrittenIsQuiet DEF Crash

\* A successful save: list and memory are the same.
LEMMA SaveIsWritten ==
  ASSUME NEW op, NEW by, NEW m, Agrees(m, Held(m)), SaveONSManager(op, by, m, TRUE)
  PROVE  Written /\ mem' = m /\ registry' = Held(m) /\ txn'.op = op
  BY DEF SaveONSManager, End, Written, NoAnswer

\* The memory a permission check leaves behind.
LEMMA ConsultedWhole ==
  ASSUME OperatedInv, NEW by \in Address, NEW readable \in BOOLEAN, ~ConsultPanics(by, readable)
  PROVE  Whole(Consulted(by, readable), registry)
<1>1. CASE by = Sudo
  BY <1>1 DEF Consulted, OperatedInv
<1>2. CASE by # Sudo
  <2>1. ~LoadPanics(mem, readable)
    BY <1>2 DEF ConsultPanics
  <2> QED BY <1>2, <2>1, LoadedWhole DEF Consulted, OperatedInv, IInv
<1> QED BY <1>1, <1>2

\* Somebody other than sudo is turned down.
LEMMA RefuseIsQuiet ==
  ASSUME OperatedInv, NEW by \in Address, NEW readable \in BOOLEAN, Refuse(by, readable)
  PROVE  Quiet
<1>1. CASE ConsultPanics(by, readable)
  BY <1>1, CrashIsQuiet DEF Refuse
<1>2. CASE ~ConsultPanics(by, readable)
  <2>1. Unwritten("refused", by, Consulted(by, readable), "invalid")
    BY <1>2 DEF Refuse
  <2> QED BY <1>2, <2>1, ConsultedWhole, UnwrittenIsQuiet
<1> QED BY <1>1, <1>2

\* applyAddManager.
LEMMA AddManagerStep ==
  ASSUME OperatedInv, NEW by \in Address, NEW c \in Code, NEW a \in Address,
         AddManager(by, c, a, TRUE, TRUE)
  PROVE  Quiet \/ Appoints(c, a)
<1> DEFINE m == Loaded(mem, TRUE)
           n == WithManager(m, c, a)
<1>1. CASE Refuse(by, TRUE)
  BY <1>1, RefuseIsQuiet
<1>2. CASE Crash("appoint", by)
  BY <1>2, CrashIsQuiet
<1>3. CASE ~LoadPanics(mem, TRUE) /\ SaveONSManager("appoint", by, n, TRUE)
  <2>1. Agrees(m, registry) /\ GoodMemory(m)
    BY <1>3, LoadedAgrees, LoadedGood DEF OperatedInv, IInv
  <2> HIDE DEF m
  <2>2. /\ Agrees(n, Held(n)) /\ Held(n).su = registry.su
        /\ ManagerOf(Held(n)) = [ManagerOf(registry) EXCEPT ![c] = a]
    BY <2>1, WithManagerAgrees
  <2> HIDE DEF n
  <2>3. Written /\ registry' = Held(n)
    BY <1>3, <2>2, SaveIsWritten
  <2> QED BY <2>2, <2>3 DEF Appoints
<1> QED BY <1>1, <1>2, <1>3 DEF AddManager

\* applyRemoveManager, whether or not the list can be read.
LEMMA RemoveManagerStep ==
  ASSUME OperatedInv, NEW by \in Address, NEW c \in Code, NEW readable \in BOOLEAN,
         RemoveManager(by, c, readable, TRUE)
  PROVE  Quiet \/ Dismisses(c)
<1> DEFINE m == Loaded(mem, readable)
           n == WithoutManager(m, c)
<1>1. CASE Refuse(by, readable)
  BY <1>1, RefuseIsQuiet
<1>2. CASE Crash("dismiss", by)
  BY <1>2, CrashIsQuiet
<1>3. CASE ~LoadPanics(mem, readable) /\ Unwritten("dismiss", by, m, "internal")
  BY <1>3, LoadedWhole, UnwrittenIsQuiet DEF OperatedInv, IInv
<1>4. CASE ~LoadPanics(mem, readable) /\ m.mgr # Nil /\ SaveONSManager("dismiss", by, n, TRUE)
  <2>1. Whole(m, registry) /\ GoodMemory(m)
    BY <1>4, LoadedWhole, LoadedGood DEF OperatedInv, IInv
  <2> HIDE DEF m
  <2>2. Agrees(m, registry)
    BY <1>4, <2>1, HoldingAgrees
  <2>3. /\ Agrees(n, Held(n)) /\ Held(n).su = registry.su
        /\ ManagerOf(Held(n)) = [ManagerOf(registry) EXCEPT ![c] = Nil]
    BY <1>4, <2>1, <2>2, WithoutManagerAgrees
  <2> HIDE DEF n
  <2>4. Written /\ registry' = Held(n) /\ txn'.op = "dismiss"
    BY <1>4, <2>3, SaveIsWritten
  <2> QED BY <2>3, <2>4 DEF Dismisses
<1> QED BY <1>1, <1>2, <1>3, <1>4 DEF RemoveManager

\* applyAddSuManager, when the process knows the list it saves.
LEMMA AddSuManagerStep ==
  ASSUME OperatedInv, NEW by \in Address, NEW a \in Address,
         KnowsRegistry, AddSuManager(by, a, TRUE, TRUE)
  PROVE  Quiet \/ AppointsSu(a)
<1>1. CASE Refuse(by, TRUE)
  BY <1>1, RefuseIsQuiet
<1>2. CASE Crash("appoint", by)
  BY <1>2, CrashIsQuiet
<1>3. Agrees(mem, registry) /\ GoodMemory(mem)
  BY HoldingAgrees DEF KnowsRegistry, OperatedInv, IInv
<1>4. CASE mem.suMap # Nil /\ a \in mem.suMap /\ SaveONSManager("appoint", by, mem, TRUE)
  <2>1. Held(mem) = registry /\ Range(registry.su) = Range(registry.su) \cup {a}
    BY <1>3, <1>4 DEF Agrees
  <2>2. Written /\ registry' = registry
    BY <1>3, <1>4, <2>1, SaveIsWritten
  <2> QED BY <2>1, <2>2 DEF AppointsSu
<1>5. CASE mem.suMap # Nil /\ SaveONSManager("appoint", by, WithSu(mem, a), TRUE)
  <2> DEFINE n == WithSu(mem, a)
  <2>1. /\ Agrees(n, Held(n)) /\ Range(Held(n).su) = Range(registry.su) \cup {a}
        /\ Held(n).mgr = registry.mgr
    BY <1>3, <1>5, WithSuAgrees
  <2>2. SaveONSManager("appoint", by, n, TRUE)
    BY <1>5
  <2> HIDE DEF n
  <2>3. Written /\ registry' = Held(n)
    BY <2>1, <2>2, SaveIsWritten
  <2> QED BY <2>1, <2>3 DEF AppointsSu
<1> QED BY <1>1, <1>2, <1>4, <1>5 DEF AddSuManager

\* applyRemoveSuManager.
LEMMA RemoveSuManagerStep ==
  ASSUME OperatedInv, NEW by \in Address, NEW a \in Address,
         RemoveSuManager(by, a, TRUE, TRUE)
  PROVE  Quiet \/ DismissesSu(a)
<1>1. CASE Refuse(by, TRUE)
  BY <1>1, RefuseIsQuiet
<1>2. CASE Unwritten("dismiss", by, mem, "internal")
  BY <1>2, UnwrittenIsQuiet DEF OperatedInv
<1>3. CASE mem.su # Nil /\ SaveONSManager("dismiss", by, WithoutSu(mem, a), TRUE)
  <2> DEFINE n == WithoutSu(mem, a)
  <2>1. Agrees(mem, registry) /\ GoodMemory(mem)
    BY <1>3, HoldingAgrees DEF OperatedInv, IInv
  <2>2. /\ Agrees(n, Held(n)) /\ Range(Held(n).su) = Range(registry.su) \ {a}
        /\ Held(n).mgr = registry.mgr
    BY <1>3, <2>1, WithoutSuAgrees
  <2>3. SaveONSManager("dismiss", by, n, TRUE)
    BY <1>3
  <2> HIDE DEF n
  <2>4. Written /\ registry' = Held(n) /\ txn'.op = "dismiss"
    BY <2>2, <2>3, SaveIsWritten
  <2> QED BY <2>2, <2>4 DEF DismissesSu
<1> QED BY <1>1, <1>2, <1>3 DEF RemoveSuManager

\* applyOPManager.
LEMMA OperateManagerStep ==
  ASSUME OperatedInv, NEW by \in Address, NEW op \in {0, 1}, NEW readable \in BOOLEAN,
         OperateManager(by, op, readable)
  PROVE  Quiet
<1> DEFINE m == Cleared(mem)
<1>1. Whole(mem, registry) /\ Whole(m, registry) /\ GoodMemory(m) /\ GoodRegistry(registry)
  BY ClearedWhole, ClearedGood DEF OperatedInv, IInv
<1> HIDE DEF m
<1>2. CASE \/ Unwritten("refused", by, mem, "invalid")
           \/ Unwritten("operate", by, mem, "ok")
           \/ Unwritten("operate", by, m, "internal")
  BY <1>1, <1>2, UnwrittenIsQuiet
<1>3. CASE Crash("operate", by)
  BY <1>3, CrashIsQuiet
<1>4. CASE ~LoadPanics(m, readable) /\ Unwritten("operate", by, Loaded(m, readable), "ok")
  BY <1>1, <1>4, LoadedWhole, UnwrittenIsQuiet
<1> QED BY <1>2, <1>3, <1>4 DEF OperateManager, m

\* The permission a loaded memory gives is the registry's.
LEMMA LevelAgrees ==
  ASSUME NEW m, Agrees(m, registry), NEW c \in Code \cup {Nil}, NEW by \in Address
  PROVE  PermissionLevel(m, c, by) = Registered!Level(c, by)
<1>1. by \in Range(registry.su) <=> m.suMap # Nil /\ by \in m.suMap
  BY DEF Agrees, Range
<1>2. c \in Code => m.mgrMap[c] = ManagerOf(registry)[c]
  BY DEF Agrees
<1> QED BY <1>1, <1>2
        DEF PermissionLevel, Registered!Level, PERMISSION_NONE, PERMISSION_MANAGER,
            PERMISSION_SU_MANAGER, PERMISSION_SU_ADDRESS

\* Transactions about anything else: the answer is the registry's.
LEMMA UseTxnStep ==
  ASSUME OperatedInv, NEW by \in Address, NEW c \in Code \cup {Nil}, UseTxn(by, c, TRUE)
  PROVE  Quiet \/ Asked(c, by)
<1>1. CASE ConsultCrash(by, TRUE)
  BY <1>1, CrashIsQuiet DEF ConsultCrash
<1>2. CASE Answered(by, c, TRUE)
  <2>1. Whole(mem', registry)
    BY <1>2, ConsultedWhole DEF Answered
  <2>2. CheckPermission(c, by, TRUE) = Registered!Level(c, by)
    <3>1. CheckPermission(c, by, TRUE) = PermissionLevel(Consulted(by, TRUE), c, by)
      BY DEF CheckPermission, LoadFails
    <3>2. CASE by = Sudo
      BY <3>1, <3>2 DEF PermissionLevel, Registered!Level, PERMISSION_SU_ADDRESS
    <3>3. CASE by # Sudo
      <4>1. Agrees(Loaded(mem, TRUE), registry)
        BY <1>2, <3>3, LoadedAgrees DEF Answered, ConsultPanics, OperatedInv, IInv
      <4> QED BY <3>1, <3>3, <4>1, LevelAgrees DEF Consulted
    <3> QED BY <3>2, <3>3
  <2> QED BY <1>2, <2>1, <2>2 DEF Answered, Asked
<1>3. CASE IndexCrash(by, TRUE)
  BY <1>3, FreshWhole, UnwrittenIsQuiet DEF IndexCrash
<1> QED BY <1>1, <1>2, <1>3 DEF UseTxn

\* A permission check leaves the list alone and a whole memory behind, whether or
\* not the list can be read.
LEMMA UseTxnKeepsWhole ==
  ASSUME OperatedInv, NEW by \in Address, NEW c \in Code \cup {Nil}, NEW readable \in BOOLEAN,
         UseTxn(by, c, readable)
  PROVE  registry' = registry /\ Whole(mem', registry)
<1>1. CASE ConsultCrash(by, readable)
  BY <1>1, FreshWhole DEF ConsultCrash, Crash, Unwritten
<1>2. CASE Answered(by, c, readable)
  BY <1>2, ConsultedWhole DEF Answered
<1>3. CASE IndexCrash(by, readable)
  BY <1>3, FreshWhole DEF IndexCrash, Unwritten
<1> QED BY <1>1, <1>2, <1>3 DEF UseTxn

\* Nor does it grant more than the registry when the list cannot be read.
LEMMA GrantedIsRegistered ==
  ASSUME OperatedInv, NEW by \in Address, by # Sudo, NEW c \in Code \cup {Nil},
         NEW readable \in BOOLEAN, ~ConsultPanics(by, readable), readable \/ mem.cached
  PROVE  CheckPermission(c, by, readable) = Registered!Level(c, by)
<1>1. CheckPermission(c, by, readable) = PermissionLevel(Loaded(mem, readable), c, by)
  BY DEF CheckPermission, LoadFails, Consulted
<1>2. Agrees(Loaded(mem, readable), registry)
  <2>1. CASE mem.cached
    BY <2>1 DEF Loaded, OperatedInv, Whole
  <2>2. CASE ~mem.cached
    BY <2>2, LoadedAgrees DEF ConsultPanics, OperatedInv, IInv
  <2> QED BY <2>1, <2>2
<1> QED BY <1>1, <1>2, LevelAgrees

\* The operator's transactions are among the steps above.
LEMMA OperatedManagerTxnStep ==
  ASSUME OperatedInv, NEW by \in Address, OperatedManagerTxn(by)
  PROVE  Step
  BY AddManagerStep, RemoveManagerStep, AddSuManagerStep, RemoveSuManagerStep,
     OperateManagerStep DEF OperatedManagerTxn, Step

\* So is every step of the operated process.
LEMMA OperatedStep == OperatedInv /\ OperatedNext => Step
<1> SUFFICES ASSUME OperatedInv, OperatedNext PROVE Step
  OBVIOUS
<1>1. ASSUME NEW by \in Address, NEW c \in Code \cup {Nil}, UseTxn(by, c, TRUE) PROVE Step
  BY <1>1, UseTxnStep DEF Step
<1>2. CASE Restart
  BY <1>2, FreshWhole DEF Restart, NoTxn, NoAnswer, Quiet, Step
<1> QED BY <1>1, <1>2, OperatedManagerTxnStep DEF OperatedNext

-----------------------------------------------------------------------------
(* The theorems *)

\* The operator only takes steps the process can take.
LEMMA OperatedIsNext == OperatedNext => Next
<1> SUFFICES ASSUME OperatedNext PROVE Next
  OBVIOUS
<1>1. ASSUME NEW by \in Address, OperatedManagerTxn(by) PROVE Next
  BY <1>1 DEF OperatedManagerTxn, Next, AppointTxn, DismissTxn
<1>2. ASSUME NEW by \in Address, NEW c \in Code \cup {Nil}, UseTxn(by, c, TRUE) PROVE Next
  BY <1>2 DEF Next
<1> QED BY <1>1, <1>2 DEF OperatedNext, Next

\* A new chain and a new process.
LEMMA OperatedInitially == Init => OperatedInv
  BY Initially, FreshWhole DEF Init, OperatedInv

\* Each of the steps keeps the memory whole.
LEMMA StepKeepsWhole == Step => Whole(mem, registry)'
<1>1. ASSUME Quiet PROVE Whole(mem', registry')
  BY <1>1 DEF Quiet
<1>2. ASSUME Written PROVE Whole(mem', registry')
  BY <1>2 DEF Written, Whole
<1>3. ASSUME NEW c, NEW by, Asked(c, by) PROVE Whole(mem', registry')
  BY <1>3 DEF Asked
<1>4. Step => Whole(mem', registry')
  BY <1>1, <1>2, <1>3 DEF Step, Appoints, Dismisses, AppointsSu, DismissesSu
<1> QED BY <1>4 DEF Whole, Agrees, Unknowing, Held, ManagerOf, Has, Find, Entries, Range

\* Every step keeps the invariant.
LEMMA OperatedKeeps == OperatedInv /\ [OperatedNext]_vars => OperatedInv'
<1> SUFFICES ASSUME OperatedInv, [OperatedNext]_vars PROVE OperatedInv'
  OBVIOUS
<1>1. IInv'
  BY NextKeeps, OperatedIsNext DEF OperatedInv
<1>2. CASE OperatedNext
  BY <1>1, <1>2, OperatedStep, StepKeepsWhole DEF OperatedInv
<1>3. CASE UNCHANGED vars
  BY <1>1, <1>3 DEF vars, OperatedInv, Whole, Agrees, Unknowing, Held, ManagerOf, Has, Find,
                    Entries, Range
<1> QED BY <1>2, <1>3

\* The invariant holds in every operated behaviour.
LEMMA OperatedInvariance == OperatedSpec => []OperatedInv
  BY OperatedInitially, OperatedKeeps, PTL DEF OperatedSpec

\* The process knows no manager at all, or its list and both maps are the list
\* in state: the write paths of AddManager, RemoveManager, AddSuManager and
\* RemoveSuManager, which update list and map one after the other, never part
\* them, for any number of addresses and codes.
THEOREM CacheAllOrNothingHolds == OperatedSpec => []CacheAllOrNothing
<1>1. OperatedInv => CacheAllOrNothing
  BY DEF OperatedInv, Whole, Agrees, Unknowing, CacheAllOrNothing, KnowsAll, KnowsNothing
<1> QED BY <1>1, OperatedInvariance, PTL

\* The package implements the uncached registry: every transaction changes what
\* the abstract one would, and every permission answered from the cache is the
\* one the list in state gives.
THEOREM ImplementsRegistryHolds == OperatedSpec => ImplementsRegistry
<1>1. Init => Registered!Init
  <2> SUFFICES ASSUME Init PROVE Registered!Init
    OBVIOUS
  <2>1. Range(registry.su) = {} /\ txn.answer = Nil
    BY DEF Init, Absent, Range, NoTxn, NoAnswer
  <2>2. ManagerOf(registry) = [c \in Code |-> Nil]
    BY DEF Init, Absent, ManagerOf, Has
  <2> QED BY <2>1, <2>2 DEF Registered!Init
<1>2. OperatedInv /\ [OperatedNext]_vars => [Registered!Next]_(Registered!vars)
  <2> SUFFICES ASSUME OperatedInv, [OperatedNext]_vars
               PROVE  [Registered!Next]_(Registered!vars)
    OBVIOUS
  <2>1. CASE Quiet
    <3>1. Registered!Forget
      BY <2>1 DEF Quiet, Registered!Forget, ManagerOf, Range, Has, Find
    <3> QED BY <3>1 DEF Registered!Next
  <2>2. ASSUME NEW c \in Code \cup {Nil}, NEW by \in Address, Asked(c, by)
        PROVE  Registered!Next
    <3>1. Registered!Ask(c, by)
      BY <2>2 DEF Asked, Registered!Ask, ManagerOf, Range, Has, Find
    <3> QED BY <3>1 DEF Registered!Next
  <2>3. ASSUME NEW c \in Code, NEW a \in Address, Appoints(c, a)
        PROVE  Registered!Next
    <3>1. Registered!Appoint(c, a)
      BY <2>3 DEF Appoints, Written, Registered!Appoint, ManagerOf, Range, Has, Find
    <3> QED BY <3>1 DEF Registered!Next
  <2>4. ASSUME NEW c \in Code, Dismisses(c) PROVE Registered!Next
    <3>1. Registered!Dismiss(c)
      BY <2>4 DEF Dismisses, Written, Registered!Dismiss, ManagerOf, Range, Has, Find
    <3> QED BY <3>1 DEF Registered!Next
  <2>5. ASSUME NEW a \in Address, AppointsSu(a) PROVE Registered!Next
    <3>1. Registered!AppointSu(a)
      BY <2>5 DEF AppointsSu, Written, Registered!AppointSu, ManagerOf, Range, Has, Find
    <3> QED BY <3>1 DEF Registered!Next
  <2>6. ASSUME NEW a \in Address, DismissesSu(a) PROVE Registered!Next
    <3>1. Registered!DismissSu(a)
      BY <2>6 DEF DismissesSu, Written, Registered!DismissSu, ManagerOf, Range, Has, Find
    <3> QED BY <3>1 DEF Registered!Next
  <2>7. CASE UNCHANGED vars
    BY <2>7 DEF vars, Registered!vars, ManagerOf, Range, Has, Find
  <2> QED BY <2>1, <2>2, <2>3, <2>4, <2>5, <2>6, <2>7, OperatedStep DEF Step
<1> QED BY <1>1, <1>2, OperatedInvariance, PTL DEF OperatedSpec, ImplementsRegistry, Registered!Spec

\* An appointment sets the one entry it is about, a su manager or the manager
\* of one code, and leaves every other entry of the stored list as it was.
THEOREM AppointingKeepsOthersHolds == OperatedSpec => AppointingKeepsOthers
<1> DEFINE changed == {c \in Code : ManagerOf(registry')[c] # ManagerOf(registry)[c]}
           new == Range(registry'.su) \ Range(registry.su)
           Kept == txn'.op = "appoint" =>
                     /\ Range(registry.su) \subseteq Range(registry'.su)
                     /\ \A c \in changed : ManagerOf(registry')[c] # Nil
                     /\ \A c, d \in changed : c = d
                     /\ \A a, b \in new : a = b
                     /\ changed = {} \/ new = {}
<1>1. OperatedInv /\ [OperatedNext]_vars => [Kept]_vars
  <2> SUFFICES ASSUME OperatedInv, OperatedNext PROVE Kept
    OBVIOUS
  <2>1. CASE registry' = registry
    <3>1. changed = {} /\ new = {}
      BY <2>1 DEF ManagerOf, Range, Has, Find
    <3> QED BY <2>1, <3>1 DEF Range
  <2>2. ASSUME NEW c \in Code, NEW a \in Address, Appoints(c, a) PROVE Kept
    <3>1. /\ Range(registry'.su) = Range(registry.su)
          /\ ManagerOf(registry') = [ManagerOf(registry) EXCEPT ![c] = a]
      BY <2>2 DEF Appoints, Range
    <3>2. /\ ManagerOf(registry')[c] = a
          /\ \A d \in Code : d # c => ManagerOf(registry')[d] = ManagerOf(registry)[d]
      BY <3>1 DEF ManagerOf
    <3>3. changed \subseteq {c} /\ new = {}
      BY <3>1, <3>2
    <3> QED BY <3>1, <3>2, <3>3, NilAssumption
  <2>3. ASSUME NEW a \in Address, AppointsSu(a) PROVE Kept
    <3>1. /\ Range(registry'.su) = Range(registry.su) \cup {a}
          /\ ManagerOf(registry') = ManagerOf(registry)
      BY <2>3 DEF AppointsSu, ManagerOf, Has, Find
    <3>2. changed = {} /\ new \subseteq {a}
      BY <3>1
    <3> QED BY <3>1, <3>2
  <2>4. ASSUME txn'.op = "dismiss" PROVE Kept
    BY <2>4
  <2> QED BY <2>1, <2>2, <2>3, <2>4, OperatedStep DEF Step, Quiet, Asked, Dismisses, DismissesSu
<1> QED BY <1>1, OperatedInvariance, PTL DEF OperatedSpec, AppointingKeepsOthers
=============================================================================
