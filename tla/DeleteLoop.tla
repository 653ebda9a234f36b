---------------------------- MODULE DeleteLoop ----------------------------
(***************************************************************************)
(* The loop with which RemoveGS1CodeManager and RemoveSuManager take an    *)
(* entry out of a list (ons_manager.go:258-262, 316-320):                  *)
(*                                                                         *)
(*   for idx, manager := range list {                                      *)
(*     if manager matches { list = append(list[0:idx], list[idx+1:]...) }  *)
(*   }                                                                     *)
(*                                                                         *)
(* "range" fixes the number of rounds and reads the array behind the list  *)
(* of the start, while append shifts that same array and shortens only     *)
(* "list".  OnsManager uses the closed form RemoveAt; this module runs the *)
(* loop as written on every list that has no duplicates.                   *)
(***************************************************************************)
EXTENDS Integers, Sequences, SequencesExt

CONSTANTS Key, MaxLength

VARIABLES
  original,  \* the list before the loop
  target,    \* the key to take out
  array,     \* the array behind the list, of the original length
  length,    \* the length of the list now
  idx,       \* the round, counted from 0
  panicked   \* a slice bound was out of range

vars == <<original, target, array, length, idx, panicked>>

Distinct(s) == \A i, j \in DOMAIN s : s[i] = s[j] => i = j

Init ==
  /\ original \in {s \in SeqOf(Key, MaxLength) : Distinct(s)}
  /\ target \in Key
  /\ array = original /\ length = Len(original)
  /\ idx = 0 /\ panicked = FALSE

Ranging == idx < Len(original) /\ ~panicked

\* append(list[0:idx], list[idx+1:length]...): the tail moves up one place.
Shifted == [i \in DOMAIN array |-> IF i > idx /\ i < length THEN array[i + 1] ELSE array[i]]

Round ==
  /\ Ranging
  /\ \/ /\ array[idx + 1] # target
        /\ UNCHANGED <<array, length, panicked>>
     \/ /\ array[idx + 1] = target /\ idx + 1 <= length
        /\ array' = Shifted /\ length' = length - 1
        /\ UNCHANGED panicked
     \/ /\ array[idx + 1] = target /\ idx + 1 > length
        /\ panicked' = TRUE
        /\ UNCHANGED <<array, length>>
  /\ idx' = idx + 1
  /\ UNCHANGED <<original, target>>

Next == Round

Spec == Init /\ [][Next]_vars

-----------------------------------------------------------------------------
\* The list as it is now.
Kept == SubSeq(array, 1, length)

\* The loop ends with the list without the target, in the old order: the
\* closed form that OnsManager uses (ons_manager.go:258-262, 316-320).
LoopRemovesTarget ==
  ~Ranging =>
    /\ \A k \in DOMAIN original : original[k] = target => Kept = RemoveAt(original, k)
    /\ (\A k \in DOMAIN original : original[k] # target) => Kept = original

\* No round slices past the end of the shortened list, although the last rounds
\* read array places the list has given up.
NeverOutOfRange == ~panicked
=============================================================================
