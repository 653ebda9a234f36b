---------------------------- MODULE MCOnsWorkers ----------------------------
(* TLC instance of OnsWorkers. *)
EXTENDS OnsWorkers

\* Workers are alike, and so are codes.
Interchangeable == Permutations(Worker) \cup Permutations(Code)
=============================================================================
