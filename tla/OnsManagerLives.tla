-------------------------- MODULE OnsManagerLives --------------------------
(***************************************************************************)
(* OnsManager with the history of one life of its process: whether         *)
(* clearCachedONSManager (ons_manager.go:135-148) has emptied the cache    *)
(* since the process started.  It is called by OP_MANAGER and by the       *)
(* transaction that deletes the list, makes the map of the codes twice and *)
(* that of the su managers never.                                          *)
(***************************************************************************)
EXTENDS OnsManager

VARIABLE cleared  \* history: a clear came before in this process

livesVars == <<vars, cleared>>

\* The transactions that call clearCachedONSManager, of sudo.
ClearTxn ==
  \/ \E readable, writable \in BOOLEAN : DeleteAllManager(Sudo, readable, writable)
  \/ \E readable \in BOOLEAN : OperateManager(Sudo, 1, readable)

AnyTxn ==
  \/ \E by \in Address, readable, writable \in BOOLEAN :
       AppointTxn(by, readable, writable) \/ DismissTxn(by, readable, writable)
  \/ \E by \in Address, op \in {0, 1}, readable \in BOOLEAN : OperateManager(by, op, readable)
  \/ \E by \in Address, c \in Code \cup {Nil}, readable \in BOOLEAN : UseTxn(by, c, readable)

\* A panic has ended the process; the next one has cleared nothing.
Panicked == txn'.result \in {"nilMapPanic", "indexPanic"}

\* What a transaction adds to the history.
Remembers == cleared' = (~Panicked /\ (cleared \/ (mem.cached /\ ClearTxn)))

LivesInit == Init /\ cleared = FALSE

LivesNext ==
  \/ AnyTxn /\ Remembers
  \/ Restart /\ cleared' = FALSE
  \/ (CommitBlock \/ AbortBlock) /\ UNCHANGED cleared

LivesSpec == LivesInit /\ [][LivesNext]_livesVars

-----------------------------------------------------------------------------
\* The write to the nil su map kills only a process that has emptied its cache
\* earlier in its life, or that does so in the transaction that dies of it.  So
\* the validator's retry of that transaction, in the next process, is never
\* killed again, and neither is a process that is only ever asked, appointed
\* and dismissed, whatever reads and writes fail and blocks are given up.
CrashesOnlyAfterClear ==
  [][txn'.result = "nilMapPanic" =>
       cleared \/ (mem.cached /\ txn'.op = "operate")]_livesVars
=============================================================================
