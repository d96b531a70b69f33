--------------------------- MODULE BankSyncHistory ----------------------------
(***************************************************************************)
(* BankSync with the history variables that say what a sync may not lose:  *)
(* which rows the user deleted, which charges completed syncs were told of *)
(* and which had posted before a completed sync began.  The steps are      *)
(* those of BankSync; the history only watches them.                       *)
(***************************************************************************)
EXTENDS BankSync

VARIABLES
    deleted,   \* the rows the user deleted
    reported,  \* the charges a completed sync was told of
    before,    \* the charges that had posted when each session's sync began
    due        \* the charges that had posted when a completed sync began

historyVars == <<deleted, reported, before, due>>

HistoryInit ==
    /\ Init
    /\ deleted = {} /\ reported = {} /\ due = {}
    /\ before = [s \in Sessions |-> {}]

RecordBegin(s) ==
    /\ Begin(s)
    /\ before' = [before EXCEPT ![s] = Posted]
    /\ UNCHANGED <<deleted, reported, due>>

RecordCommit(s) ==
    /\ Commit(s)
    /\ reported' = reported \cup Known(s)
    /\ due' = due \cup before[s]
    /\ before' = [before EXCEPT ![s] = {}]
    /\ UNCHANGED deleted

RecordStop(s) ==
    /\ FailSync(s) \/ Abort(s)
    /\ before' = [before EXCEPT ![s] = {}]
    /\ UNCHANGED <<deleted, reported, due>>

RecordDelete(r) ==
    /\ DeleteTransaction(r)
    /\ deleted' = deleted \cup {r}
    /\ UNCHANGED <<reported, before, due>>

RecordNothing ==
    /\ \/ Tick
       \/ \E a \in Accounts : OpenAccount(a)
       \/ \E c \in Charges : Post(c) \/ Reissue(c) \/ CreateTransaction(c)
       \/ \E s \in Sessions : LoadAccounts(s) \/ FetchAccounts(s) \/ FetchTransactions(s) \/ ReadHeld(s)
    /\ UNCHANGED historyVars

HistoryNext ==
    \/ RecordNothing
    \/ \E s \in Sessions : RecordBegin(s) \/ RecordCommit(s) \/ RecordStop(s)
    \/ \E r \in ledger : RecordDelete(r)

HistorySpec == HistoryInit /\ [][HistoryNext]_<<vars, historyVars>>
-------------------------------------------------------------------------------
(* Properties *)

\* The rows of charges that look like c, those the user deleted included.
Recorded(c) == {r \in ledger \cup deleted : r.charge \in Alike(c)}

\* No charge that a completed sync was told of is missing, twins included ("the provider
\* reports two, so we keep two").
ReportedIsKept ==
    \A c \in reported : Cardinality(reported \cap Alike(c)) <= Cardinality(Recorded(c))

\* What had posted when a sync began is in the ledger once that sync has completed.
LaterSyncRecords ==
    \A c \in due : Cardinality(due \cap Alike(c)) <= Cardinality(Recorded(c))
===============================================================================
