------------------------- MODULE DeleteLoop_proofs -------------------------
(***************************************************************************)
(* The loop of DeleteLoop does what OnsManager says it does, for lists of  *)
(* every length.                                                           *)
(***************************************************************************)
EXTENDS DeleteLoop, ListFacts

\* Nothing has been taken out, and the target is not among what was read.
NotYet ==
  /\ length = Len(original) /\ array = original
  /\ \A i \in 1..idx : original[i] # target

\* The target was at place k; the array behind the list is as long as ever
\* and its last place still holds the last entry.
TakenOut(k) ==
  /\ k \in 1..idx /\ original[k] = target
  /\ length = Len(original) - 1
  /\ DOMAIN array = 1..Len(original)
  /\ \A i \in 1..Len(original) :
       array[i] = IF i >= k /\ i < Len(original) THEN original[i + 1] ELSE original[i]

\* The inductive invariant.
LoopInv ==
  /\ original \in Seq(Key) /\ Distinct(original) /\ target \in Key
  /\ idx \in 0..Len(original)
  /\ ~panicked
  /\ NotYet \/ \E k \in 1..idx : TakenOut(k)

\* Before the first round nothing has been read.
LEMMA LoopInitially == Init => LoopInv
<1> SUFFICES ASSUME Init PROVE LoopInv
  OBVIOUS
<1>1. original \in Seq(Key) /\ Distinct(original)
  <2>1. PICK m \in 0..MaxLength : original \in [1..m -> Key]
    BY DEF Init, SeqOf
  <2>2. m \in Nat /\ DOMAIN original = 1..m /\ \A i \in 1..m : original[i] \in Key
    BY <2>1
  <2>3. original \in Seq(Key)
    BY <2>1, <2>2, SeqDef
  <2> QED BY <2>3 DEF Init
<1>2. Len(original) \in Nat
  BY <1>1, LenProperties
<1>3. idx = 0 /\ array = original /\ length = Len(original) /\ target \in Key /\ ~panicked
  BY DEF Init
<1>4. NotYet
  BY <1>3 DEF NotYet
<1>5. idx \in 0..Len(original)
  BY <1>2, <1>3
<1> QED BY <1>1, <1>3, <1>4, <1>5 DEF LoopInv

\* What the invariant says of the list before the loop.
LEMMA ListFact ==
  ASSUME LoopInv, NEW N, N = Len(original)
  PROVE  /\ N \in Nat /\ DOMAIN original = 1..N
         /\ \A i, j \in 1..N : original[i] = original[j] => i = j
         /\ \A i \in 1..N : original[i] \in Key
         /\ idx \in 0..N
BY LenProperties, ElementOfSeq DEF LoopInv, Distinct

\* A round reads one place; the one at which the target is closes the gap.
LEMMA RoundKeeps == LoopInv /\ Round => LoopInv'
<1> SUFFICES ASSUME LoopInv, Round PROVE LoopInv'
  OBVIOUS
<1>1. PICK N : N = Len(original)
  OBVIOUS
<1>2. N \in Nat /\ DOMAIN original = 1..N /\ idx \in 0..N
  BY <1>1, ListFact
<1>3. \A i, j \in 1..N : original[i] = original[j] => i = j
  BY <1>1, ListFact
<1>4. idx < N /\ idx' = idx + 1 /\ ~panicked /\ UNCHANGED <<original, target>>
  BY <1>1 DEF Round, Ranging
<1>5. idx + 1 \in 1..N /\ idx' \in 0..N
  BY <1>2, <1>4
<1>6. SUFFICES ASSUME TRUE
               PROVE  ~panicked' /\ (NotYet' \/ \E k \in 1..idx' : TakenOut(k)')
  <2>1. original' \in Seq(Key) /\ Distinct(original)' /\ target' \in Key /\ idx' \in 0..Len(original')
    BY <1>1, <1>4, <1>5 DEF LoopInv, Distinct
  <2> QED BY <2>1 DEF LoopInv
<1>7. CASE NotYet
  <2>1. array = original /\ length = N /\ \A i \in 1..idx : original[i] # target
    BY <1>1, <1>7 DEF NotYet
  <2>2. idx + 1 <= length
    BY <1>5, <2>1
  <2>3. CASE original[idx + 1] # target
    <3>1. UNCHANGED <<array, length, panicked>>
      BY <2>1, <2>3 DEF Round
    <3>2. \A i \in 1..(idx + 1) : original[i] # target
      BY <1>2, <2>1, <2>3
    <3>3. NotYet'
      BY <1>1, <1>4, <2>1, <3>1, <3>2 DEF NotYet
    <3> QED BY <1>4, <3>1, <3>3
  <2>4. CASE original[idx + 1] = target
    <3>1. array' = Shifted /\ length' = length - 1 /\ UNCHANGED panicked
      BY <1>2, <2>1, <2>2, <2>4 DEF Round
    <3>2. /\ DOMAIN array' = 1..N
          /\ \A i \in 1..N : array'[i] = IF i > idx /\ i < N THEN original[i + 1] ELSE original[i]
      BY <1>2, <2>1, <3>1 DEF Shifted
    <3>3. ASSUME NEW i \in 1..N
          PROVE  array'[i] = IF i >= idx + 1 /\ i < N THEN original[i + 1] ELSE original[i]
      <4>1. i > idx <=> i >= idx + 1
        BY <1>2
      <4> QED BY <3>2, <4>1
    <3>4. PICK k : k = idx + 1
      OBVIOUS
    <3>5. k \in 1..idx'
      BY <1>2, <1>4, <3>4
    <3>6. /\ original'[k] = target' /\ length' = Len(original') - 1
          /\ DOMAIN array' = 1..Len(original')
      BY <1>1, <1>4, <2>1, <2>4, <3>1, <3>2, <3>4
    <3>7. \A i \in 1..Len(original') :
            array'[i] = IF i >= k /\ i < Len(original') THEN original'[i + 1] ELSE original'[i]
      BY <1>1, <1>4, <3>3, <3>4
    <3>8. TakenOut(k)'
      BY <3>5, <3>6, <3>7 DEF TakenOut
    <3> QED BY <1>4, <3>1, <3>5, <3>8
  <2> QED BY <2>3, <2>4
<1>8. ASSUME NEW k \in 1..idx, TakenOut(k)
      PROVE  ~panicked' /\ \E j \in 1..idx' : TakenOut(j)'
  <2>1. /\ original[k] = target /\ length = N - 1
        /\ \A i \in 1..N : array[i] = IF i >= k /\ i < N THEN original[i + 1] ELSE original[i]
    BY <1>1, <1>8 DEF TakenOut
  <2>2. k \in 1..N /\ k < idx + 1 /\ k \in 1..idx' /\ idx \in Int /\ N \in Int
    BY <1>2, <1>4
  <2>3. array[idx + 1] # target
    <3>1. CASE idx + 1 < N
      <4>1. idx + 2 \in 1..N /\ idx + 2 # k /\ idx + 1 >= k /\ (idx + 1) + 1 = idx + 2
        BY <1>2, <2>2, <3>1
      <4>2. array[idx + 1] = original[idx + 2]
        BY <1>5, <2>1, <3>1, <4>1
      <4> QED BY <1>3, <2>1, <2>2, <4>1, <4>2
    <3>2. CASE ~(idx + 1 < N)
      <4>1. array[idx + 1] = original[idx + 1] /\ idx + 1 # k
        BY <1>5, <2>1, <2>2, <3>2
      <4> QED BY <1>3, <1>5, <2>1, <2>2, <4>1
    <3> QED BY <3>1, <3>2
  <2>4. UNCHANGED <<array, length, panicked>>
    BY <2>3 DEF Round
  <2>5. TakenOut(k)'
    BY <1>4, <1>8, <2>2, <2>4 DEF TakenOut
  <2> QED BY <1>4, <2>2, <2>4, <2>5
<1> QED BY <1>7, <1>8 DEF LoopInv

\* After the last round the list is what the invariant says it is.
LEMMA LoopInvSuffices == LoopInv => LoopRemovesTarget /\ NeverOutOfRange
<1> SUFFICES ASSUME LoopInv, ~Ranging
             PROVE  /\ \A k \in DOMAIN original : original[k] = target => Kept = RemoveAt(original, k)
                    /\ (\A k \in DOMAIN original : original[k] # target) => Kept = original
  BY DEF LoopRemovesTarget, NeverOutOfRange, LoopInv
<1>1. PICK N : N = Len(original)
  OBVIOUS
<1>2. /\ N \in Nat /\ DOMAIN original = 1..N /\ idx \in 0..N
      /\ \A i, j \in 1..N : original[i] = original[j] => i = j
      /\ \A i \in 1..N : original[i] \in Key
  BY <1>1, ListFact
<1>3. original \in Seq(Key)
  BY DEF LoopInv
<1>4. idx = N
  <2>1. ~(idx < N)
    BY <1>1 DEF LoopInv, Ranging
  <2> QED BY <1>2, <2>1
<1>5. CASE NotYet
  <2>1. Kept = SubSeq(original, 1, N) /\ (\A i \in 1..N : original[i] # target)
    BY <1>1, <1>4, <1>5 DEF NotYet, Kept
  <2>2. /\ Kept \in Seq(Key) /\ Len(Kept) = N
        /\ \A i \in 1..N : Kept[i] = original[i]
    <3>1. /\ SubSeq(original, 1, N) \in Seq(Key)
          /\ Len(SubSeq(original, 1, N)) = IF 1 <= N THEN N - 1 + 1 ELSE 0
          /\ \A i \in 1..(N - 1 + 1) : SubSeq(original, 1, N)[i] = original[1 + i - 1]
      BY <1>2, SubSeqProperties
    <3> QED BY <1>2, <2>1, <3>1
  <2>3. Kept = original
    BY <1>1, <1>3, <2>2, SeqEqual
  <2> QED BY <1>2, <2>1, <2>3
<1>6. ASSUME NEW k \in 1..idx, TakenOut(k)
      PROVE  original[k] = target /\ k \in 1..N /\ Kept = RemoveAt(original, k)
  <2>1. /\ original[k] = target /\ length = N - 1
        /\ \A i \in 1..N : array[i] = IF i >= k /\ i < N THEN original[i + 1] ELSE original[i]
    BY <1>1, <1>6 DEF TakenOut
  <2>2. k \in 1..N /\ N > 0
    BY <1>2, <1>4
  <2>3. \A i \in 1..(N - 1) : array[i] = IF i < k THEN original[i] ELSE original[i + 1]
    BY <1>2, <2>1, <2>2
  <2>4. \A i \in 1..(N - 1) : array[i] \in Key
    BY <1>2, <2>2, <2>3
  <2>5. /\ Kept \in Seq(Key) /\ Len(Kept) = N - 1
        /\ \A i \in 1..(N - 1) : Kept[i] = array[i]
    <3>1. /\ SubSeq(array, 1, N - 1) \in Seq(Key)
          /\ Len(SubSeq(array, 1, N - 1)) = IF 1 <= N - 1 THEN (N - 1) - 1 + 1 ELSE 0
          /\ \A i \in 1..((N - 1) - 1 + 1) : SubSeq(array, 1, N - 1)[i] = array[1 + i - 1]
      BY <1>2, <2>4, SubSeqProperties
    <3>2. Kept = SubSeq(array, 1, N - 1)
      BY <2>1 DEF Kept
    <3> QED BY <1>2, <2>2, <3>1, <3>2
  <2>6. /\ RemoveAt(original, k) \in Seq(Key)
        /\ DOMAIN RemoveAt(original, k) = 1..(N - 1)
        /\ \A j \in 1..(N - 1) :
             RemoveAt(original, k)[j] = IF j < k THEN original[j] ELSE original[j + 1]
    BY <1>1, <1>2, <1>3, <2>2, RemoveAtFacts
  <2>7. Len(RemoveAt(original, k)) = N - 1
    BY <1>2, <2>2, <2>6, LenProperties
  <2> QED BY <2>1, <2>2, <2>3, <2>5, <2>6, <2>7, SeqEqual
<1>7. ASSUME NEW k \in 1..idx, TakenOut(k), NEW j \in DOMAIN original, original[j] = target
      PROVE  Kept = RemoveAt(original, j)
  <2>1. j = k
    BY <1>2, <1>6, <1>7
  <2> QED BY <1>6, <1>7, <2>1
<1>8. ASSUME NEW k \in 1..idx, TakenOut(k)
      PROVE  ~(\A j \in DOMAIN original : original[j] # target)
  BY <1>2, <1>6, <1>8
<1> QED BY <1>5, <1>7, <1>8 DEF LoopInv

\* Deleting while ranging removes exactly the target, and no round slices out
\* of range, whatever the list, as long as it has no duplicates; that it has
\* none is NoDuplicateManagersHolds of OnsManager_proofs.
THEOREM LoopIsRemoveAt == Spec => [](LoopRemovesTarget /\ NeverOutOfRange)
<1>1. LoopInv /\ [Next]_vars => LoopInv'
  <2>1. LoopInv /\ UNCHANGED vars => LoopInv'
    BY DEF LoopInv, NotYet, TakenOut, vars
  <2> QED BY <2>1, RoundKeeps DEF Next
<1> QED BY <1>1, LoopInitially, LoopInvSuffices, PTL DEF Spec
=============================================================================
