------------------------------- MODULE BankSync -------------------------------
(***************************************************************************)
(* One bank connection of one household, and the sessions that sync it:    *)
(* the scheduler's session and one session per "Sync now" request.  A sync *)
(* (services/sync.py, sync_connection) is one database transaction under   *)
(* READ COMMITTED with two calls to the bank in the middle:                *)
(*                                                                         *)
(*   Begin -> LoadAccounts -> FetchAccounts -> FetchTransactions           *)
(*         -> ReadHeld -> Commit            (FailSync from the two fetches)*)
(*                                                                         *)
(* The bank (external) is modelled from how sync.py and                    *)
(* providers/simplefin.py use it: it posts genuine charges, reports those  *)
(* posted on or after a start date, and may give a charge a new id.        *)
(*                                                                         *)
(* Abstractions.  Amount and merchant of a charge are one value, its kind. *)
(* A balance is the number of charges posted to the account, so that a     *)
(* newer balance is a larger one.  All of model time lies within           *)
(* INITIAL_HISTORY_DAYS, so a year ago is time 0.  Account names do not    *)
(* change.  Categories are left to a module of their own.                  *)
(***************************************************************************)
EXTENDS Integers, FiniteSets

CONSTANTS
    Charges,      \* the genuine charges the bank ever posts
    Accounts,     \* the bank's ids of the accounts behind this connection
    AccountOf,    \* [Charges -> Accounts]
    KindOf,       \* [Charges -> anything]: the amount and the merchant, as one value
    Sessions,     \* the database sessions that may run a sync
    Scheduler,    \* the one of them that starts a sync every sync_interval_hours
    SyncModes,    \* the values of sync_connection's `full` that are passed
    MaxTime,      \* bound: the last tick of the clock
    TicksPerDay,  \* clock ticks in a calendar day
    MaxReissues,  \* bound: how often the bank gives one charge a new id
    MaxFailures,  \* bound: how often a call to the bank or the database fails
    MaxEdits      \* bound: how many rows the user types in or deletes

ASSUME ChargesAssumption == IsFiniteSet(Charges) /\ AccountOf \in [Charges -> Accounts]
NoSession == "none"

ASSUME SchedulerAssumption == Scheduler \in Sessions /\ NoSession \notin Sessions
ASSUME ModesAssumption == SyncModes \subseteq BOOLEAN
ASSUME BoundsAssumption == /\ MaxTime \in Nat
                           /\ TicksPerDay \in Nat \ {0}
                           /\ MaxReissues \in Nat
                           /\ MaxFailures \in Nat
                           /\ MaxEdits \in Nat

VARIABLES
    now,           \* the clock
    open,          \* bank: the accounts the bank lists
    postedAt,      \* bank: when a charge posted, or Never
    issue,         \* bank: which of its successive ids a charge goes by now
    failures,      \* bank: how many calls have failed so far
    balance,       \* db: balance of each account row, or NoRow
    ledger,        \* db: the transaction rows
    lastSyncedAt,  \* db: connection.last_synced_at
    status,        \* db: connection.status
    edits,         \* how many rows the user has typed in or deleted so far
    sync           \* the sync each session is running

bankVars == <<now, open, postedAt, issue, failures>>
dbVars == <<balance, ledger, lastSyncedAt, status>>
vars == <<bankVars, dbVars, edits, sync>>
-------------------------------------------------------------------------------
Time == 0 .. MaxTime
Never == -1
NoRow == -1
NoId == -1         \* external_id IS NULL: the user typed the row in

\* An account row is named by the bank's id of the account and the session that
\* inserted it: nothing but by_external keeps a second session from inserting another.
AccountRows == Accounts \X Sessions

\* `charge` and `issue` together are the external_id, `by` tells two rows apart that
\* two sessions inserted for the same id.  A row's day, amount and merchant are its charge's.
Rows == [charge : Charges, issue : Int, account : AccountRows, by : Sessions \cup {NoSession}]

Day(t) == t \div TicksPerDay
Posted == {c \in Charges : postedAt[c] # Never}
BankBalance(a) == Cardinality({c \in Posted : AccountOf[c] = a})

IdleSync == [pc |-> "idle", since |-> 0, status |-> "active",
             byExternal |-> [a \in Accounts |-> NoSession],
             loaded |-> [a \in Accounts |-> NoRow],
             listed |-> [a \in Accounts |-> NoRow],
             flushed |-> FALSE, txns |-> {}, ids |-> [c \in Charges |-> 0], added |-> {}]

Init ==
    /\ now = 0
    /\ open \in SUBSET Accounts
    /\ postedAt = [c \in Charges |-> Never]
    /\ issue = [c \in Charges |-> 0]
    /\ failures = 0
    /\ balance = [r \in AccountRows |-> NoRow]
    /\ ledger = {}
    /\ lastSyncedAt = Never
    /\ status = "active"
    /\ sync = [s \in Sessions |-> IdleSync]
    /\ edits = 0
-------------------------------------------------------------------------------
(* The bank and the clock *)

Tick ==
    /\ now < MaxTime
    /\ now' = now + 1
    /\ UNCHANGED <<open, postedAt, issue, failures, dbVars, sync, edits>>

OpenAccount(a) ==
    /\ a \notin open
    /\ open' = open \cup {a}
    /\ UNCHANGED <<now, postedAt, issue, failures, dbVars, sync, edits>>

Post(c) ==
    /\ postedAt[c] = Never
    /\ AccountOf[c] \in open
    /\ postedAt' = [postedAt EXCEPT ![c] = now]
    /\ UNCHANGED <<now, open, issue, failures, dbVars, sync, edits>>

\* A pending charge gets a new id when it posts; the demo bank re-ids on every call.
Reissue(c) ==
    /\ postedAt[c] # Never
    /\ issue[c] < MaxReissues
    /\ issue' = [issue EXCEPT ![c] = @ + 1]
    /\ UNCHANGED <<now, open, postedAt, failures, dbVars, sync, edits>>

\* fetch_transactions with a start date: what posted on or after it, in no given order.
Statement(since) == {c \in Posted : postedAt[c] >= since}
-------------------------------------------------------------------------------
(* sync_connection, step by step *)

\* Mutant of Begin: last_synced_at is used without asking whether it is None.
BeginFromCursor(s) ==
    /\ sync[s].pc = "idle"
    /\ \E full \in SyncModes :
         sync' = [sync EXCEPT ![s] =
                    [@ EXCEPT !.pc = "begun",
                              !.since = IF full THEN 0 ELSE lastSyncedAt,
                              !.status = status]]
    /\ UNCHANGED <<bankVars, dbVars, edits>>

Begin(s) ==
    /\ sync[s].pc = "idle"
    /\ \E full \in SyncModes :
         sync' = [sync EXCEPT ![s] =
                    [@ EXCEPT !.pc = "begun",
                              !.since = IF full \/ lastSyncedAt = Never THEN 0
                                        ELSE lastSyncedAt,
                              !.status = status]]
    /\ UNCHANGED <<bankVars, dbVars, edits>>

RowsFor(a) == {u \in Sessions : balance[<<a, u>>] # NoRow}

\* by_external: of several rows with one external_id the dict keeps the last the query returned.
LoadAccounts(s) ==
    /\ sync[s].pc = "begun"
    /\ \E by \in [Accounts -> Sessions \cup {NoSession}] :
         /\ \A a \in Accounts : IF RowsFor(a) = {} THEN by[a] = NoSession
                                                   ELSE by[a] \in RowsFor(a)
         /\ sync' = [sync EXCEPT ![s] =
                       [@ EXCEPT !.pc = "loaded",
                                 !.byExternal = by,
                                 !.loaded = [a \in Accounts |->
                                               IF by[a] = NoSession THEN NoRow
                                               ELSE balance[<<a, by[a]>>]]]]
    /\ UNCHANGED <<bankVars, dbVars, edits>>

Target(s, a) == <<a, sync[s].byExternal[a]>>

\* Mutant of DirtyRows: an account that is already there keeps its balance.
NothingDirty(s) == {}

\* The rows whose balance attribute differs from the loaded one: what a flush UPDATEs.
DirtyRows(s) == {Target(s, a) : a \in {x \in Accounts : /\ sync[s].listed[x] # NoRow
                                                        /\ sync[s].loaded[x] # NoRow
                                                        /\ sync[s].listed[x] # sync[s].loaded[x]}}
CreatedRows(s) == {Target(s, a) : a \in {x \in Accounts : /\ sync[s].listed[x] # NoRow
                                                          /\ sync[s].loaded[x] = NoRow}}

\* An UPDATE waits for the transaction that holds the row lock; the locks go at its end.
CanFlush(s) == \A u \in Sessions \ {s} : sync[u].flushed => DirtyRows(u) \cap DirtyRows(s) = {}

FetchAccounts(s) ==
    /\ sync[s].pc = "loaded"
    /\ sync' = [sync EXCEPT ![s] =
                  [@ EXCEPT !.pc = "listed",
                            !.listed = [a \in Accounts |->
                                          IF a \in open THEN BankBalance(a) ELSE NoRow],
                            !.byExternal = [a \in Accounts |->
                                              IF a \in open /\ sync[s].byExternal[a] = NoSession
                                              THEN s ELSE sync[s].byExternal[a]]]]
    /\ UNCHANGED <<bankVars, dbVars, edits>>

\* Creating an account flushes the session before the bank is called again.
FetchTransactions(s) ==
    /\ sync[s].pc = "listed"
    /\ CreatedRows(s) # {} => CanFlush(s)
    /\ sync' = [sync EXCEPT ![s] =
                  [@ EXCEPT !.pc = "fetched",
                            !.flushed = CreatedRows(s) # {},
                            !.txns = Statement(sync[s].since),
                            !.ids = issue]]
    /\ UNCHANGED <<bankVars, dbVars, edits>>

\* What `held` counts by: the charges with the same account, day, amount and merchant as c.
Alike(c) == {d \in Posted : /\ AccountOf[d] = AccountOf[c]
                            /\ Day(postedAt[d]) = Day(postedAt[c])
                            /\ KindOf[d] = KindOf[c]}

Known(s) == {c \in sync[s].txns : sync[s].byExternal[AccountOf[c]] # NoSession}

\* Mutant of Seen: the ids already in the ledger are not looked up.
SeenNothing(s) == {}

Seen(s) == {c \in Known(s) : \E r \in ledger : /\ r.account = Target(s, AccountOf[c])
                                               /\ r.charge = c
                                               /\ r.issue = sync[s].ids[c]}

Resolved(s) == Known(s) \ Seen(s)

HeldRows(s, c) == {r \in ledger : r.account = Target(s, AccountOf[c]) /\ r.charge \in Alike(c)}

\* Mutant of Held: only ids are matched, look-alikes are not counted.
HeldNothing(s, c) == 0

\* Mutant of Held: a transaction matched by its id leaves its slot to another.
HeldIgnoringSeen(s, c) == Cardinality(HeldRows(s, c))

\* held[shape] once every transaction matched by its id has taken its slot.
Held(s, c) == Cardinality(HeldRows(s, c)) - Cardinality(Seen(s) \cap Alike(c))

\* How many of the resolved transactions that look like c find no slot left.
Surplus(s, c) ==
    LET wanted == Cardinality(Resolved(s) \cap Alike(c))
    IN  IF Held(s, c) <= 0 THEN wanted
        ELSE IF Held(s, c) >= wanted THEN 0
        ELSE wanted - Held(s, c)

RowFor(s, c) == [charge |-> c, issue |-> sync[s].ids[c],
                 account |-> Target(s, AccountOf[c]), by |-> s]

\* Which of several that look alike are added depends on the order of the bank's answer.
\* The SELECT autoflushes the account updates first.
ReadHeld(s) ==
    /\ sync[s].pc = "fetched"
    /\ CanFlush(s)
    /\ \E new \in SUBSET Resolved(s) :
         /\ \A c \in Resolved(s) : Cardinality(new \cap Alike(c)) = Surplus(s, c)
         /\ sync' = [sync EXCEPT ![s] =
                       [@ EXCEPT !.pc = "resolved",
                                 !.flushed = TRUE,
                                 !.added = {RowFor(s, c) : c \in new}]]
    /\ UNCHANGED <<bankVars, dbVars, edits>>

\* Mutant of FlushedBalance: the balance of an account the bank did not list is cleared.
FlushedUnlisted(s) == [r \in AccountRows |-> IF r[2] = sync[s].byExternal[r[1]]
                                             THEN sync[s].listed[r[1]] ELSE balance[r]]

\* The account rows as this session's transaction leaves them.
FlushedBalance(s) == [r \in AccountRows |-> IF r \in DirtyRows(s) \cup CreatedRows(s)
                                            THEN sync[s].listed[r[1]] ELSE balance[r]]

\* Assigning an attribute the value it was loaded with makes no UPDATE.
FlushedStatus(s, new) == IF sync[s].status = new THEN status ELSE new

Commit(s) ==
    /\ sync[s].pc = "resolved"
    /\ balance' = FlushedBalance(s)
    /\ ledger' = ledger \cup sync[s].added
    /\ lastSyncedAt' = now
    /\ status' = FlushedStatus(s, "active")
    /\ sync' = [sync EXCEPT ![s] = IdleSync]
    /\ UNCHANGED <<bankVars, edits>>

\* A call to the bank raises: connections.sync marks the connection and commits, which
\* also commits the account rows already written or pending.
FailSync(s) ==
    /\ sync[s].pc \in {"loaded", "listed"}
    /\ failures < MaxFailures
    /\ CanFlush(s)
    /\ failures' = failures + 1
    /\ balance' = FlushedBalance(s)
    /\ status' = FlushedStatus(s, "error")
    /\ sync' = [sync EXCEPT ![s] = IdleSync]
    /\ UNCHANGED <<now, open, postedAt, issue, ledger, lastSyncedAt, edits>>

\* The process dies or the database refuses a statement: the transaction is rolled back.
Abort(s) ==
    /\ sync[s].pc # "idle"
    /\ failures < MaxFailures
    /\ failures' = failures + 1
    /\ sync' = [sync EXCEPT ![s] = IdleSync]
    /\ UNCHANGED <<now, open, postedAt, issue, dbVars, edits>>
-------------------------------------------------------------------------------
(* The user's own edits of the ledger *)

\* A posted charge typed in by hand has no external_id.
CreateTransaction(c) ==
    /\ c \in Posted
    /\ \E u \in RowsFor(AccountOf[c]) :
         LET row == [charge |-> c, issue |-> NoId, account |-> <<AccountOf[c], u>>, by |-> NoSession]
         IN  row \notin ledger /\ ledger' = ledger \cup {row}
    /\ edits < MaxEdits /\ edits' = edits + 1
    /\ UNCHANGED <<bankVars, balance, lastSyncedAt, status, sync>>

DeleteTransaction(r) ==
    /\ r \in ledger
    /\ ledger' = ledger \ {r}
    /\ edits < MaxEdits /\ edits' = edits + 1
    /\ UNCHANGED <<bankVars, balance, lastSyncedAt, status, sync>>
-------------------------------------------------------------------------------
SyncStep(s) == \/ Begin(s) \/ LoadAccounts(s) \/ FetchAccounts(s)
               \/ FetchTransactions(s) \/ ReadHeld(s) \/ Commit(s)

Next ==
    \/ Tick
    \/ \E a \in Accounts : OpenAccount(a)
    \/ \E c \in Charges : Post(c) \/ Reissue(c) \/ CreateTransaction(c)
    \/ \E r \in ledger : DeleteTransaction(r)
    \/ \E s \in Sessions : SyncStep(s) \/ FailSync(s) \/ Abort(s)

Spec == Init /\ [][Next]_vars

\* The scheduler loop outlives every tick; a request, once begun, runs to its end.
FairSpec ==
    /\ Spec
    /\ WF_vars(Begin(Scheduler))
    /\ \A s \in Sessions : WF_vars(sync[s].pc # "idle" /\ SyncStep(s))
-------------------------------------------------------------------------------
(* Properties *)

SyncType ==
    [pc : {"idle", "begun", "loaded", "listed", "fetched", "resolved"},
     since : Time, status : {"active", "error"},
     byExternal : [Accounts -> Sessions \cup {NoSession}],
     loaded : [Accounts -> Int], listed : [Accounts -> Int], flushed : BOOLEAN,
     txns : SUBSET Charges, ids : [Charges -> Nat], added : SUBSET Rows]

\* The type invariant: every variable keeps the shape its comment gives it.
TypeOK ==
    /\ now \in Time
    /\ open \subseteq Accounts
    /\ postedAt \in [Charges -> Time \cup {Never}]
    /\ issue \in [Charges -> Nat]
    /\ failures \in Nat
    /\ balance \in [AccountRows -> Int]
    /\ ledger \subseteq Rows
    /\ lastSyncedAt \in Time \cup {Never}
    /\ status \in {"active", "error"}
    /\ sync \in [Sessions -> SyncType]
    /\ edits \in Nat

Imported(rows, c) == {r \in rows : r.issue # NoId /\ r.charge \in Alike(c)}

\* "Nothing doubles up": the rows imported for one account, day, amount and merchant are
\* never more than the bank posted charges of that description, whatever ids it gave them.
NoDoubleCount == \A c \in Posted : Cardinality(Imported(ledger, c)) <= Cardinality(Alike(c))

GenuineRow(r) == r.charge \in Posted /\ r.account[1] = AccountOf[r.charge]

\* The inductive invariant behind NoDoubleCount: every row, and every row a session is about
\* to insert, is of a posted charge in the right account, and the insertion will not double.
NoDoublesInvariant ==
    /\ TypeOK
    /\ IsFiniteSet(ledger) /\ \A r \in ledger : GenuineRow(r)
    /\ \A s \in Sessions : /\ sync[s].txns \subseteq Posted
                           /\ IsFiniteSet(sync[s].added) /\ \A r \in sync[s].added : GenuineRow(r)
                           /\ \A c \in Posted : Cardinality(Imported(ledger \cup sync[s].added, c))
                                                  <= Cardinality(Alike(c))
    /\ NoDoubleCount

\* A session never inserts an account or a (account, external id) pair that it has inserted
\* before: by_external and `seen` stand in for the unique constraints the tables lack.
InsertsAreNew ==
    \A s \in Sessions : /\ \A r \in CreatedRows(s) : balance[r] = NoRow
                        /\ sync[s].added \cap ledger = {}

\* A sync loses nothing of what the bank told it: for each description the rows it finds and
\* those it is about to insert are as many as the charges in the answer.
KeepsItsReport ==
    [][\A s \in Sessions : ReadHeld(s) =>
         \A c \in Known(s) :
            Cardinality(Known(s) \cap Alike(c))
              <= Cardinality({r \in ledger \cup sync'[s].added : r.charge \in Alike(c)})]_vars

\* A sync never puts an older balance over a newer one.
BalanceNeverRegresses == [][\A r \in AccountRows : balance'[r] >= balance[r]]_balance

\* What a row shows of its charge: _shape, and by it everything is counted in BankLedger.
Looks(c) == <<AccountOf[c], Day(postedAt[c]), KindOf[c]>>

DaysOfCharges == {Day(t) : t \in Time}
KindsOfCharges == {KindOf[c] : c \in Charges}
Shapes == Accounts \X DaysOfCharges \X KindsOfCharges

ChargeTally(charges) == [x \in Shapes |-> Cardinality({c \in charges : Looks(c) = x})]
RowTally(rows) == [x \in Shapes |-> Cardinality({r \in rows : Looks(r.charge) = x})]

\* How far the one session's sync has got, for all that BankLedger tells of it.
Stage == CASE sync[Scheduler].pc = "fetched"  -> "told"
           [] sync[Scheduler].pc = "resolved" -> "decided"
           [] OTHER -> "quiet"

Promise == INSTANCE BankLedger WITH
    Days <- DaysOfCharges, Kinds <- KindsOfCharges,
    charged <- ChargeTally(Posted),
    bank <- [a \in Accounts |-> BankBalance(a)],
    stage <- Stage,
    reported <- ChargeTally(Known(Scheduler)),
    pending <- RowTally(sync[Scheduler].added),
    imported <- RowTally({r \in ledger : r.issue # NoId}),
    typed <- RowTally({r \in ledger : r.issue = NoId}),
    shown <- [a \in Accounts |-> balance[<<a, Scheduler>>]],
    through <- IF lastSyncedAt = Never THEN -1 ELSE Day(lastSyncedAt)

\* One session's syncs, with their ids, start dates, failures and the user's edits in between,
\* are the syncs of BankLedger: matching by id and then counting look-alikes adds exactly the
\* rows that are missing, all of them or none, with the balances, the day and the status.
KeepsBankLedger == Promise!Spec

\* Once the bank is quiet every account it lists has a row with its balance, and keeps it:
\* a stale balance one session wrote over another's is repaired by the next sync.
EventuallyInStep ==
    <>[](\A a \in open : \E u \in RowsFor(a) : balance[<<a, u>>] = BankBalance(a))
===============================================================================
