-------------------------- MODULE ManagerRegistry --------------------------
(***************************************************************************)
(* What the manager list promises, without a cache: a set of su managers,  *)
(* at most one manager per GS1 code, and permission answers given from     *)
(* exactly these.  OnsManagerOperated shows when OnsManager keeps it.      *)
(***************************************************************************)
EXTENDS Integers

CONSTANTS Address, Code, Sudo, Nil

VARIABLES
  su,      \* the su managers
  mgr,     \* the manager of each code, or Nil
  answer   \* the permission answer given by the last step, or Nil

vars == <<su, mgr, answer>>

Level(c, by) ==
  CASE by = Sudo -> 1
    [] by # Sudo /\ c = Nil -> 4
    [] by # Sudo /\ c # Nil /\ by \in su -> 2
    [] by # Sudo /\ c # Nil /\ by \notin su -> IF mgr[c] = by THEN 3 ELSE 4

Init == su = {} /\ mgr = [c \in Code |-> Nil] /\ answer = Nil

Appoint(c, a) == mgr' = [mgr EXCEPT ![c] = a] /\ answer' = Nil /\ UNCHANGED su
Dismiss(c)    == mgr' = [mgr EXCEPT ![c] = Nil] /\ answer' = Nil /\ UNCHANGED su
AppointSu(a)  == su' = su \cup {a} /\ answer' = Nil /\ UNCHANGED mgr
DismissSu(a)  == su' = su \ {a} /\ answer' = Nil /\ UNCHANGED mgr

Ask(c, by) == answer' = [code |-> c, level |-> Level(c, by)] /\ UNCHANGED <<su, mgr>>

\* A step about something else: a refused or failed transaction, a restart.
Forget == answer' = Nil /\ UNCHANGED <<su, mgr>>

Next ==
  \/ \E c \in Code, a \in Address : Appoint(c, a)
  \/ \E c \in Code : Dismiss(c)
  \/ \E a \in Address : AppointSu(a) \/ DismissSu(a)
  \/ \E c \in Code \cup {Nil}, by \in Address : Ask(c, by)
  \/ Forget

Spec == Init /\ [][Next]_vars
=============================================================================
