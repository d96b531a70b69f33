# Verification of OpenFinance

TLA+ models of the OpenFinance backend (`src/backend/app`), the TLC runs that
check them on small instances, and TLAPS proofs of what matters most. Each
definition is translated from the Python source; `PROJECT.json` maps it to the
lines it stands for.

- [The system](#the-system): components, their state, how they interact
- [The modules](#the-modules): what is modelled and how it corresponds to the code
- [The runs](#the-runs): what TLC checks, the bounds, the fairness
- [Where code and documentation part](#where-code-and-documentation-part)
- [The proofs](#the-proofs)
- [What is not modelled](#what-is-not-modelled)
- [The plan](#the-plan)

To repeat a check: `tlc -config BankSyncSerial.cfg MCBankSync.tla` (`PROJECT.json`
gives each pair), and `tlapm BankSyncProofs.tla` for a proof module.

## The system

OpenFinance is a self-hosted household finance server: a FastAPI application and
a background scheduler in one process, over one PostgreSQL database and a
directory of encrypted documents. Handlers are synchronous functions in a thread
pool; every request and every scheduler tick has its own SQLAlchemy session
(`core/db.py`, `expire_on_commit=False`, READ COMMITTED). Nothing but the
database coordinates them: there is no lock, no version column and no retry, so
*what a session read is stale as soon as it has read it*, and most of what can
really go wrong here happens between the read and the commit of two sessions, or
over a long sequence of operations each of which is fine by itself.

Three facts about SQLAlchemy and PostgreSQL that the code relies on, and that all
the models share:

1. A flush issues `UPDATE ... WHERE id = ...` naming only the columns whose value
   differs from the one loaded (`Merge`, `Column`, `FlushedBalance`, `FlushedStatus`).
2. An UPDATE that matches no row raises StaleDataError and rolls the session back
   (`Refused`, `Gone`); it waits while another transaction holds the row (`CanFlush`,
   `Locked`).
3. A query does not refresh objects the session already holds (`Object`).

| Component | State | Operations | Interacts with | Hard behaviour | What makes it correct |
|---|---|---|---|---|---|
| Bank sync (`services/sync.py`, `providers/simplefin.py`) | account rows, imported transactions, cursor and status of the connection | `sync_connection` | the bank (two calls inside one transaction), the ledger, rules | duplicate and re-issued ids, overlapping answers, a bank that fails half-way, two syncs at once | no charge twice, none lost, balances never go back and end up the bank's |
| Connections (`services/connections.py`) | the connection row | link, sync, delete | sync; accounts by foreign key | error path commits what the sync has flushed | a failed sync is recorded and the next one makes good |
| Transactions (`services/transactions.py`) | the ledger | create, edit, delete, list | sync matches its rows, recurring groups them | edits between syncs | edits survive syncs |
| Recurring series (`services/recurring.py`) | one row per merchant key | `detect`, `update`, lists | transactions, alerts, budgets, forecast | detection writes back what it read; the user's claims must survive | user claims stand, derived columns follow the charges |
| Trade log and replay (`services/trades.py`, `portfolio.py`, `tax.py`) | trade rows | create (with split fan-out), update, delete; replay | CSV import, investments views, tax report | every edit is validated by a replay of the whole log, in one session | every committed log replays; both replays agree |
| Price history (`services/prices.py`) | one price per security, day and currency | refresh, backfill, manual price | scheduler, investments | upserts of concurrent sessions, a price provider that fails | a manual price always wins |
| Scheduler (`core/scheduler.py`) | none of its own | `run_once`, `_loop` | calls sync, recurring, prices, snapshots, alerts, digest | one session shared by the steps of a tick | one bad household or step does not stop the others |
| Balance snapshots (`services/snapshots.py`) | one row per account and day | `capture` | scheduler, reports | check-then-insert under a unique constraint | one row a day with the latest balance |
| Trade CSV import (`services/trade_import.py`, `securities.py`) | trade rows, securities | `import_csv` | trades, other imports' uncommitted securities | row by row, in file order, each row a commit, a hash against duplicates, unique keys that make imports wait | importing a file again adds nothing; what one pass refused, the next brings in; every import ends |
| Transaction CSV import (`services/csv_import.py`) | ledger rows | `import_csv` | transactions, rules | a hash of the row as id, known ids read once | importing a file again adds nothing |
| Accounts (`services/accounts.py`) | account rows | create, update, delete | sync, forecast, snapshots | rows of two origins, deletion under a capture | hand-made accounts are not touched by syncs |
| Budgets (`services/budgets.py`) | budget per category and month | upsert, copy, status, suggestions | categories, transactions | rollover is a recursion over months with a look-back limit; everything else is read out of rows that change late | the carry is what the history of its months says |
| Categories and rules (`services/categories.py`, `categorization.py`) | a tree of categories, ordered rules | create, move, delete, reorder, backfill | transactions, budgets, imports | checks and writes of overlapping requests; only foreign keys in between | nothing points at a category that is gone; the user's own choices stay |
| Document vault (`services/documents.py`) | encrypted files and their rows | save, read, delete | file system, audit trail | the file and the row change in two steps | rows and files go together |
| Users, sessions, invites (`services/auth.py`, `invites.py`, `twofa.py`, `audit.py`) | users, sessions, second factors, invites, audit records | register, log in (in one step or two), log out, change password, enrol, invite, join | every request | several commits per request, checks and writes apart, a restart in between | an invite admits one, a password change ends the other sessions, an unused session lapses |
| Alerts (`services/alerts.py`) | dismissals | list, dismiss | recurring, budgets, accounts, transactions | a dismissal names a fact that detection rewrites, or a row it deletes and re-creates | a dismissal hides what was dismissed and nothing later |
| Goals and forecast (`services/goals.py`, `forecast.py`) | goals | put, delete; walks, safe-to-spend, projections | accounts, recurring, budgets | calendar arithmetic, the boundary of the window | no payment is skipped or counted twice; safe-to-spend is safe, and the most that is |
| Reports, insights, digest, investments views, export | none | read | everything | none: aggregation | sums |
| Advisor and language model | none | read, call a model | everything, an outside service | the answer is not specified | none stated |
| Estate checklist (`services/estate.py`) | single rows | insert, update, read | none | none | none beyond the row |
| HTTP layer, configuration, migrations | none | routing, validation | all services | none | none |
| Frontend, backup scripts | none of record | HTTP calls, `pg_dump` | the API | none | none |

`PROJECT.json` lists the hazards of this code at their lines, each with the
properties that would catch it going wrong or with a note that says why none does:
in most of those cases the code does go wrong there, and a counterexample shows it
([below](#where-code-and-documentation-part)).

## The modules

| Module | Role |
|---|---|
| `BankSync` | one connection, its bank, and the sessions that sync it |
| `BankLedger` | what a sync promises the household, which `BankSync` with one session implements |
| `BankSyncHistory` | `BankSync` with history variables for what a sync may not lose |
| `BankSyncProofs` | theorems about `BankSync` |
| `Recurring` | the recurring series, detection and the user's updates |
| `RecurringProofs` | theorems about `Recurring` |
| `TradeReplay` | pure operators: the average-cost and the FIFO replay of a trade log |
| `Trades` | the trade log of one security, written by sessions that validate by replay |
| `TradesProofs` | theorems about `Trades` and `CostBasis` |
| `Scheduler` | the ticks of the scheduler, with balance snapshots, prices and the requests they meet |
| `PriceBook` | what the price service promises, which `Scheduler` implements |
| `SchedulerProofs` | theorems about `Scheduler` |
| `CostBasis` | the money of both replays: cost, proceeds and gains, on top of `Trades` |
| `TradeImport` | the import of trade files, row by row, with the securities it inserts |
| `TradeImportProofs` | theorems about `TradeImport` |
| `Ledger` | categories, rules, transactions, their imports, and budget rows, under overlapping requests |
| `LedgerProofs` | theorems about `Ledger` |
| `Calendar` | pure operators: days, months, and the steps of a cadence |
| `Detection` | pure operators: what `_build_candidate` finds in the charges of a merchant |
| `Budgets` | budgets over a ledger that changes, and what is read out of them |
| `Forecast` | series, accounts and goals on top of `Budgets`, and the walks over them |
| `Alerts` | what is alerted of `Forecast`'s state, and the dismissals |
| `PlanningProofs` | theorems about `Budgets`, `Forecast` and `Alerts` |
| `Access` | users, sessions, second factors, invites, audit records |
| `Vault` | documents in two stores, behind the requests of `Access` |
| `AccessProofs` | theorems about `Vault`, whose steps are those of `Access` too |
| `MC...`, `BankInstances` | instances for TLC |

Some definitions are preceded by a *mutant*: the same definition with a plausible
bug. It is not used by the specification. Each property has one that breaks it, so
that a passing run is known to be able to fail.

### BankSync

A sync is one database transaction with two calls to the bank in it.

| Action | Code | What it reads and writes |
|---|---|---|
| `Begin` | `connections.sync`, `sync.py:86-89` | loads the connection: cursor and status; `since` is the cursor, or a year ago with `full` or without a cursor |
| `LoadAccounts` | `sync.py:55-62` | the dictionary `by_external`; of two rows with one id either may win |
| `FetchAccounts` | `sync.py:64-84` | the bank's balances into loaded rows or new ones |
| `FetchTransactions` | `sync.py:82, 90` | creating an account flushes; then the bank's answer since `since` |
| `ReadHeld` | `sync.py:92-154` | autoflush, `seen` and `held`, both matching passes |
| `Commit` | `sync.py:156-162` | balances, new rows, cursor, status |
| `FailSync` | `connections.py:52-60` | a bank call raises: the error status is committed, and with it what has been flushed |
| `Abort` | `core/db.py:12-17` | the process or the database fails: rollback |
| `CreateTransaction`, `DeleteTransaction` | `services/transactions.py` | the user's own rows |
| `Tick`, `OpenAccount`, `Post`, `Reissue` | the bank (external) | time passes, accounts open, charges post, a charge gets a new id |

The two matching passes are stated by what they compute and not by their loops.
Pass 1 takes the transactions whose id is held (`Seen`), each of which occupies
one of the rows of its shape; pass 2 gives the remaining ones the remaining slots
(`Held`) in the order of the answer and adds the surplus (`Surplus`). Which of
several look-alikes is added depends on that order, so the model chooses any of
the right number. Amount and merchant are one value (`KindOf`), a shape is
account, day and kind (`Alike`), and a balance is the number of charges posted to
the account, so that a newer one is larger and "an older balance over a newer
one" can be said.

`BankLedger` says what all this is for, without sessions, statements, ids, times of day
or the order of an answer. Charges and rows are counted by description (`Shapes`:
account, day, kind); a sync hears a number of each, decides what the ledger lacks of
them, hand-typed rows counting, and adds that or nothing. `BankSync` implements it under
`Promise`: `ChargeTally` and `RowTally` count what `Looks` like a description, the stage
is read off the program counter of the one session, `through` is the day of the cursor.

| Step of `BankLedger` | Step of `BankSync` |
|---|---|
| `Post`, `TypeIn`, `DeleteImported`, `DeleteTyped` | `Post`, `CreateTransaction`, `DeleteTransaction` |
| `Hear`: all the bank has of later days than the last sync's, for accounts that are there, and never more than it has | `FetchTransactions` |
| `Decide`: per description, what was reported less what is held | `ReadHeld`, both passes |
| `Complete`: rows, their accounts, balances and day at once | `Commit` |
| `Fail`: newer balances and the status may stay, no row and no day | `FailSync` |
| `GiveUp` | `Abort` |
| none (a stutter) | `Tick`, `OpenAccount`, `Reissue`, `Begin`, `LoadAccounts`, `FetchAccounts` |

So a re-issued id cannot be told from the outside, a shown balance is never replaced by
an older one (`Refresh`), and what a sync adds does not depend on which look-alikes it
was told of. `Hear` leaves open how much the bank tells of earlier days, and of the
cursor's own day: that is where a resuming sync can be misled
([below](#where-code-and-documentation-part)).

`BankSyncHistory` adds which rows the user deleted, what completed syncs were
told, and what had posted when they began. Its steps are those of `BankSync`; the
history only watches. Two of the counterexamples need it; what the passing runs ask
of a sync is said without it, of one step (`KeepsItsReport`).

### Recurring

`Group`, `Load` and `Write` are the three moments of `detect` (recurring.py:315,
:343, :387) and `Get` and `Save` the two of `update`. `Rollback` is what a
session meets whose UPDATE finds its row gone, or whose INSERT finds another's row
(`uq_recurring_merchant`): the whole detection is lost. What `_build_candidate`
says of a merchant's charges is `detectable`, chosen anew with each charge. A
series lapses `Grace` days after its last charge. Ids are a counter per merchant,
so that a series deleted and detected again is another row.

### TradeReplay and Trades

`ReplayTrades` folds an operator over the trades in the order of `traded_on` and
`created_at`; `Apply` is `portfolio._apply` on units, `ApplyToLots` is
`tax._replay` on the queue of lots. Money never decides what is accepted, and is the
matter of `CostBasis`; dividends are left out. Quantities count fractions of
the smallest quantity the column stores, `Quantum` of which make one.

`Ask*` is a request up to the flush: what it read (`old`) and the objects it will
write (`new`). `Validate` and `Refuse` are the flush and the replay of the log as
the session sees it: the committed rows, its own change, and its own objects in
place of the rows they stand for, *with the quantity as typed*. `Commit` writes
what the flush wrote, merged into the row as it then is and rounded by the column.
A transaction's `created_at` is its start (`now()` in PostgreSQL), so all rows of
a fan-out have one. `trades.update` is modelled as the service has it; no route of
this commit calls it.

### Scheduler and PriceBook

`Scheduler` composes what one tick does for each household. Of a sync it keeps the
balances it commits (the rest is `BankSync`), of a detection whether its flush
succeeds (the rest is `Recurring`); snapshots and prices it has in full.

| Action | Code |
|---|---|
| `BeginTick`, `Serve`, `TickEnds` | `scheduler.py:31-39`: one session per tick, one household after the other |
| `Sync`, `SyncFails`, `SyncBreaks` | `scheduler.py:40-50`: a bank that fails leaves the session sound; a failed flush expires `conn`, and `conn.id` in the `except` clause raises again, uncaught |
| `TickReadsAccounts`, `TickReadsSnapshots`, `TickCommitsCapture`, `TickCaptureRefused` | `snapshots.capture` by the tick: the accounts, which of them have a row of the day (`ReadExisting`), each of these rows with a query of its own (`ReadSnapshot`), and the flush |
| `Detect`, `DetectBreaks` | `scheduler.py:57-60` |
| `Quote`, `Upsert`, `CommitPrices`, `RefreshBreaks` | `prices.refresh`: each upsert locks its row until the commit at the end |
| `SkipBroken`, `TickRaises` | what a broken session does: inside a step the exception is caught, in the listing of the next household's connections it is not |
| `RequestReadsAccounts`, `RequestCaptureStep`, `RequestSyncs`, `SetManualPrice`, `DeleteAccount` | requests: `POST /snapshots`, a sync, `POST /prices`, `DELETE /accounts/{id}` |
| `Restart`, `Moves`, `NextDay` | the process dies, the bank has a new balance, midnight |

A session is *broken* after a failed flush: SQLAlchemy has rolled back and raises
PendingRollbackError until `rollback()` is called, which the tick never does.
`SetManualPrice` is one step because it is one statement with its commit; its wait
for the row's lock is its guard. An account's row is the account at the bank and a number:
after a deletion the next sync that is told of the account inserts a new row (`Synced`,
`born`), with snapshots of its own. What a capture's later queries autoflush is in the
model written with its commit, as one transaction.

`PriceBook` has only the prices: any set of fetched ones appears at once, except
over manual ones, and the user sets single ones. The refinement mapping is the
identity on the committed rows, so what is to be shown is that the upserts of a
refresh, its locks and its failures amount to one such step or to none.

### CostBasis

The money of the two replays, as exact fractions of cents (`<<numerator,
denominator>>`): `Cost` is `portfolio.py`'s average cost with the proceeds and fees,
`Gains` is `tax.py`'s first-in-first-out lots, each with a cost of its own.
`SameProfit` says that, over all accounts and at the price of any day, what the one says
was realized and is unrealized comes to what the other says, but for a cent for each gain
it rounds, whatever was split or sold in part. Prices depend on the day and fees are
constant; both are instance constants.

### TradeImport

An import is one request that commits once per row. `Start` reads the dates of the
whole file in one order and loads the known ids once; then each row is one of
`RowBad` (no such type), `RowKnown` (skipped), `RowWaits` (its security's INSERT waits
for another session's uncommitted one), `RowFails` (the unique key, or the deadlock
the database breaks), `RowRefused` (the replay says no: the savepoint takes the trade
back, and leaves the security flushed) and `RowImported`; `Finish` closes the session.
Replay and commit of one row are one step here, since `Trades` takes them apart; so is
the INSERT of a new security with the row it is for, unless it has to wait. Ids are given
in the order of commits, while the code replays by `created_at`, the start of the
transaction (models/base.py:17-18): for rows of one day that overlapping imports bring,
the two orders may differ, and the run's properties ask of such imports only that
they end and how often a row is there.
`overlaps` and `quiet` are history: which imports ran at once, and how often a file
was imported again with no other write in between.

### Ledger

Every request is one database transaction in two steps. `Ask...` makes the checks
the code makes and computes what it will write from what it has loaded; `Commit`
writes it, or `Refuse` ends it, by what PostgreSQL and SQLAlchemy ask for again: that
a category referred to exists (`Known`), that an UPDATE finds its row (`Stale`), that
nothing without ON DELETE CASCADE refers to a deleted one (`Allowed`). Only columns
that changed are written (`MergeRule`, `MergeTxn`), and rules and budgets of a deleted
category go with it (`RulesAfter`, `BudgetsAfter`).

| Action | Code |
|---|---|
| `AskCreateCategory`, `AskMoveCategory`, `AskDeleteCategory` | `categories.create`, `update`, `delete` and the checks it makes for use |
| `AskCreateRule`, `AskUpdateRule`, `AskDeleteRule`, `AskReorder` | `categorization`'s rules and their order |
| `AskCreateTxn`, `AskUpdateTxn`, `AskDeleteTxn` | `transactions.py`; a row without a category gets that of the first rule that fits (`Picked`) |
| `AskImport` | `csv_import.import_csv`: known ids read once, rows of the file compared with each other |
| `AskBackfill` | `categorization.backfill`, over the uncategorized rows or all |
| `AskPutBudget` | `budgets.upsert` |

A rule's conditions are the set of transaction shapes that satisfy them (`Patterns`),
and a row of a file is the shape its text stands for. A new or an edited rule may have any pattern,
category and priority of the instance. `by`, `seen` and `list` are
history: who gave a row its category, and what a request had read.

### Calendar, Detection, Budgets, Forecast, Alerts

A tower of modules over one state: transactions, budgets, series, balances, goals,
the day. Only the bottom of it changes (`Post`, `EditTxn`, `PutBudgets`,
`CopyBudgets`, `UpdateSeries`, `Detect`, `SetBalance`, `DeleteAccount`, `PutGoal`,
`DeleteGoal`, `NextDay`, `Load`, `Dismiss`); the rest is pure operators of it, each named for
its function: `CarryInto` (`_carry_into`), `Status`, `Suggestion`, `Candidate`
(`_build_candidate` with its cadence buckets, its points and its price increase),
`StepForward`, `Project`, `SafeToSpend`, `GoalDate`, one operator for each kind of
alert. What is stored nowhere must follow from whatever was posted late, refiled or
ignored, and that is what the properties ask, against definitions that do not walk:
the carry is a sum over the chain of its months, safe-to-spend the largest purchase
that leaves no day below zero. Days are numbered; the lengths of the months are a
constant, so that an instance can have a short year. Amounts are cents and medians
doubled, so that nothing is rounded but where the code rounds. A detection is one
step here, as its interleavings are `Recurring`'s. `SafeToSpend` walks to the day before
the window's end directly, where the code walks in whole months until it is reached and
cuts (forecast.py:406-410), to the same days.

A series has the id of its row (`Id`: the merchant and how many rows it has had, `born`):
detection deletes a row without a pattern that the user has not touched (`Touched`: its
status, or notes or a link, `noted`) and gives what it inserts later a new one. `Load` is
the list as a client gets it, and `Dismiss` a click on any alert of the `page` loaded
last, which may no longer be found. What is stored is the key; the day and the row it was
shown of are history.

### Access and Vault

A handler of the API is several transactions, and a step each: `Resolve` and `Touch`
(the session's row is read, and written back), then the deed, then `Issue` of a new
session where there is one, then `Record` of it in the audit trail. `Restart` may come
between any two and leaves what was committed. `Arrive` are the ways in (register,
log in, second step of a login, join, or with a session), `Advance` the rest.

| Action | Code |
|---|---|
| `AskRegister`, `CommitRegister`; `AskJoin`, `CommitJoin` | `auth.register`, `invites.join`: what is checked, what is committed |
| `Login`, `LoginVerify`, `Issue` | `auth.authenticate`, the pre-authentication token, `issue_session` |
| `Resolve`, `Touch` | `auth.resolve_session` |
| `ChangePassword`, `RevokeSession`, `RevokeOtherSessions` | `auth.change_password`, the routes of sessions |
| `StartEnrollment`, `ConfirmEnrollment` | `twofa.py` |
| `CreateInvite`, `AskRevokeInvite`, `CommitRevokeInvite` | `invites.py` |
| `Flush`, `WriteFile`, `CommitSave` | `documents.save`: the row for its id, the file, the commit |
| `Unlink`, `CommitDelete`; `AskDownload`, `Download` | `documents.delete`, `read_plaintext` |

A password is the number of times it was changed, a secret the number of times one
was generated; a session carries the password it stems from and its true last use,
and `raced`, `straddled` and `torn` say which invites, users and documents met a race
or a restart: these are history, and say in the properties what the code does not
promise.

## The runs

Runs that must pass:

| Run | Instance | What it shows |
|---|---|---|
| `bank_sync_serial` | 1 session, 2 look-alike charges on 1 account, 3 ticks in 2 days, one re-issue each, one failure, one edit, full and resuming | `TypeOK`; `NoDoubleCount`: imported rows never outnumber the bank's charges of a description; `InsertsAreNew`: no id is inserted twice; `KeepsItsReport`: what an answer had is in the ledger or about to be, deleted rows counted; `KeepsBankLedger`: implements `BankLedger`, by which a sync adds what is missing of each description, all of it or nothing, and no shown balance is replaced by an older one, across the error path's partial commit too |
| `bank_sync_concurrent` | 2 sessions, 1 account, 1 charge, a failure | `EventuallyInStep` under fairness: no lasting lock wait, and a stale balance is repaired |
| `recurring_serial` | 1 session, 2 merchants, 3 days, grace 1, 2 updates | `TypeOK`, `CancelDayTellsStatus`, `DetectionKeepsClaims`, `CancelDayStands` |
| `recurring_concurrent` | 2 sessions, 1 merchant, 2 days, 2 updates | `EventuallyInStep` under fairness |
| `trades_serial` | 1 session, 2 interchangeable accounts, 3 creations, 2 days, quantities 1 and 2, halving splits, a price that rises, fees | `TypeOK`, `LogReplays`, `ReplaysAgree`, `SameProfit`; `SplitReachesHolders`: a split entered without an account gets to each that holds units then, and to no other |
| `scheduler_ticks` | 2 households, one with an account, one with a security; 1 request session, 2 days, 1 change of balance, 2 rows of the account one after the other, 2 failures | `TypeOK`; `KeepsPriceBook`: implements `PriceBook`; `EventuallyCaptured` under fairness: the last day's snapshot ends up with the bank's balance |
| `ledger` | 2 sessions, 3 requests from tables already in use, 2 categories of the household's own beside a group and a leaf, 2 rules of 2 priorities, 2 transactions, 2 files | `TypeOK`; `ReferencesHold`; `OldPointersSurvive`: a deletion takes no rule or budget with it that was there when it was checked; `TypedCategoryStays`: a rule overrides the user only by a backfill that was asked to go over every row and read this one, or that read this one while it had no category; `ReorderMatchesList`; `ImportAddsOnce` |
| `planning` | a year of 5 short months, 1 category under a group, 1 merchant, 2 accounts, 1 goal, look-back 2; 1523 histories of budgets and spending of 4 months, or of series, balances and goals, and 1 request after each | `CarryIsHistory`, `SuggestionIsTypical`, `PaysOncePerPeriod`, `SafeToSpendIsTheMost`, `PurchaseIsFelt` |
| `alerts` | 2 weekly merchants after 4 charges each on day 28, 3 requests; or 1 with a fifth charge at a higher price on day 29, 4 requests; to day 33, 4 prices, charges on 3 days | `CancelledChargesAreTold`; `NextOccurrenceShows`; `DismissedPriceStays`: no detection lists an increase of a row again of which one was dismissed, while the price is that one's |
| `trade_import` | 2 importers, 2 symbols, 5 files of up to 4 rows, 3 months in a year, 2 imports, any deletions | `WholeAfterTwo`: a file whose trades replay is in the log as a whole after two passes, in whatever order it lists them; `TwinsOverlapped`: a row is there twice only from two imports that ran at once; `ImportsEnd` under fairness |
| `access` | 2 requests at once, 3 addresses, 3 arrivals, 4 ticks, 1 restart; an owner with or without a second factor is logged in | `InviteAdmitsOnce`, `RotationEndsSessions`, `SessionsLapse`, `RowsHaveFiles` |

Bounds, each a named constant. `MaxTime`, `MaxDay`: two calendar days and two
moments in one of them are what the day-granular matching and the cursor tell
apart. `MaxReissues`, `MaxFailures`, `MaxEdits`: one of each already puts a
re-issue, a failure and an edit between any two steps of any sync; the number of
syncs is not bounded. Two charges are the least for look-alikes. `MaxCreates` is
three: the least log with a buy, a split and a sell, and edits and deletions of
it are not bounded, but a run ends with a trade that was moved to another account.
`MaxHalvings` only keeps fractions whole. `MaxRows` is two: a row before a deletion and one after. Accounts in `trades_serial`, sessions in
`ledger`, and requests and the addresses other than the owner's in `access` are
symmetry sets: no action and no property tells one from another.

`ledger`, `planning`, `alerts` and `access` start from states that earlier requests
have left (a rule above another, charges already detected, a session in use), so that
the few requests of a run are spent on the interesting part: `MaxRequests` and
`MaxArrivals` are the least that let the overlaps of the hazards happen with one more
request to show what is left of them. In `ledger` a third request may re-use what two
raced for. With two rules there is no reorder that leaves two of them unlisted; a third
takes the run beyond its time, and `ReorderGivesTheOrder` is about any number. In `alerts`
a request is a charge, an edit of one, an update of a series or the loading of a page, while
detections, days and dismissals are free: three are a page, a cancellation and a charge,
and the fourth, with one merchant, is for a charge that breaks the pattern, after which
a detection deletes the row, and for what brings it back (the charge is ignored) or keeps
it (notes). The look-back of 2 is shorter than the 4 months of `planning`, so that a chain is cut. The
files of `trade_import` are named for what they show in `MCTradeImport`.
The months of `planning` are of 8 to 10 days, so that a monthly cursor is clamped by
the second. In `access` the lifetimes are apart (0, 1, 2 and 3 ticks) and `MaxTime` is
beyond the longest.

Two sessions are all that the two-session hazards need, and the reason a serial
run has one session is that several of these properties are false with two (the
next section), and the serial runs show that nothing else breaks them.

Fairness. The `FairSpec`s of `BankSync`, `Recurring` and `Scheduler` assume that
the scheduler starts its operation again and again (`_loop`, scheduler.py:82-89,
sleeps and repeats for as long as the process lives), and that a session which has
begun goes on (a thread of the server runs to its end; a lock wait is no exception,
the action is then disabled). Nothing is assumed of when requests begin, of the
bank or of the user.
Failures are bounded, so they stop in the end. `TradeImport` assumes that an import
that was started goes on (`WF` on its steps): it is one request, which runs to its end.

The two households of `scheduler_ticks` are the least for one to stand in the way
of another. The account belongs to the one and the security to the other, so that
a capture may break the session before the refresh as well as after it. Two
failures put one into the tick that would make good the other.

Deadlock checking is on in all runs but `trade_import`, where two imports are all there
are and nothing is left to do after them; that none of them hangs is `ImportsEnd`. Runs
with a budget of requests stutter explicitly when it is spent.

`TypeOK` is not listed in `alerts`, `trade_import` and `access`: it is a conjunct of
`CancelledChargesAreTold`, `TwinsOverlapped` and `InviteAdmitsOnce`.

## Where code and documentation part

`scheduler_serves_all` is a run that TLC must find violated: what the code does
contradicts what `scheduler.py` says of itself in three comments, which `PROJECT.json`
quotes. With no failure of the bank at all, a request captures the same day's balances,
or deletes an account, while the tick captures; the tick's flush is refused, its session
stays broken, and the households after it are not served (`TickServesAll`).

The same kind of counterexample can be had from these, each with one property that says
what the repository says:

| Instance | Property | What happens |
|---|---|---|
| `BankSyncDoubles.cfg` of `MCBankSync` | `NoDoubleCount` | two syncs of one connection at once insert the same charge twice: no unique constraint, and both read before either commits |
| `BankSyncTwins.cfg` of `MCBankSyncHistory` | `ReportedIsKept` | the second of two identical purchases arrives alone in a resuming sync's answer and is taken for the first |
| `BankSyncLate.cfg` of `MCBankSyncHistory` | `LaterSyncRecords` | a charge that posts between the bank's answer and the commit is older than the cursor and never asked for again |
| `TradesRounding.cfg` of `MCTrades` | `LogReplays` | one session sells what is left of a split position to the last digit; the column rounds the sell up |
| `LedgerSpendHidden.cfg` of `MCLedger` | `SpendIsShown` | a category with transactions gets a child, and is a group from then on: the budget's status leaves its spend out, although "nothing in this app currently writes a group id onto a transaction" |
| `TradeImportOrphans.cfg` of `MCTradeImport` | `RefusedLeavesNothing` | a row that is refused has flushed a security, which the next good row commits with its own |
| `AccessEnrolment.cfg` of `MCAccess` | `EnrolledCanLogIn` | a user with a second factor begins an enrolment again: the new secret is in force before it was confirmed, and the authenticator they have no longer logs them in |

More disagreements are known and kept out of the passing runs by their
instance or by the statement of the property, so that these show that nothing else breaks their properties:

- with two sessions `LogReplays` fails: each validates without the other's
  uncommitted change, and together they oversell (`trades_serial` has one session);
- with two sessions `SplitReachesHolders` fails: a buy that commits between the reading of
  the holders (trades.py:102) and the split's own commit is not split;
- with two sessions `DetectionKeepsClaims` fails: a detection deletes a series that
  the user has cancelled since it read the rows (recurring.py:384), although
  "Detection never overwrites these" (recurring.py:430); `recurring_serial` has one
  session, and `CopiesAreCurrent` in `RecurringProofs` is what a second one breaks;
- a negative quantity is accepted (portfolio.py:53), although "direction comes from
  `type`, not sign" (models/trade.py:42): a sell of -1, which is how a broker's
  "(10)" or "-10" is read, adds units (`Amounts` are positive);
- with a split ratio of zero, which a CSV's `-` or `#N/A` is read as,
  `ReplaysAgree` fails: `portfolio.py:78` asks `is not None` and makes the units
  zero, `tax.py:124` asks for truth and leaves the lots alone (`trades_serial`'s
  `Ratios` has no zero);
- a trade of quantity zero is passed over by `tax.py` with its fees, and booked with
  them by `portfolio.py` (`Amounts` are positive);
- a charge of more than twice the usual price makes its series vanish until a few more
  have come at that price (recurring.py:226), so no price increase is alerted
  (`DismissedPriceStays` asks only of what was listed);
- that same detection deletes the row, unless the user has touched it (recurring.py:384), and
  a later one inserts it under a new id (recurring.py:356): a price increase that was
  dismissed is listed again at the same price, although "a dismissal has to outlive every
  charge at the same price" (alerts.py:148-149); the same goes for the other alerts
  about a series (`DismissedPriceStays` is about one row, from its insertion to its deletion);
- a backfill that read a row before its user typed a category in writes a rule's over it
  (categorization.py:162), although "typing one in by hand still wins over the rules"
  (transactions.py:49-50, of a new row; `TypedCategoryStays` excuses a backfill that
  read this row without a category, and no other change to it);
- two joins that both read an invite before either has marked it used admit two
  (invites.py:71, :87; `InviteAdmitsOnce` excuses invites in `raced`);
- a login that has checked the old password before a change and commits its session after it
  keeps that session, although the change "invalidates every
  other session for this user" (auth.py:86-87; `RotationEndsSessions` excuses users in `straddled`);
- two imports of one CSV file at once bring its rows twice (csv_import.py:32): nothing but
  the ids read before the loop stands against it, although the README promises "CSV import
  that dedups on re-import" (README.md:68; `ImportAddsOnce` asks of an import that no other
  change overtook);
- two reorders at once leave a mixture of both lists: each writes only the priorities that
  differ from those it loaded (`ReorderMatchesList` asks of rules that are as they were loaded);
- a rule or a budget that is given a category between the check and the commit of the
  category's deletion goes with it by ON DELETE CASCADE, although the check is there so that
  no rule or budget is gone "with nothing telling the household why" (categories.py:183-186; `OldPointersSurvive` asks of what was there
  at the check);
- when a merchant's refunds outnumber its charges its row becomes one of income, and a
  cancelled series of that merchant that charges again is no longer told
  (alerts.py:161; `CancelledChargesAreTold` asks of the row's own direction);
- today's balance already has what landed today, and the walk adds it again
  (forecast.py:189; `PaysOncePerPeriod` is about the days it lands on, not about what
  the balance had of them).

## The proofs

TLAPS proves these for every value of the constants that satisfies the `ASSUME`s
beside their declarations (finite sets of charges, categories, merchants and accounts,
naturals for bounds, files that are sequences of rows, the scheduler among the sessions,
and a name for nobody that is not one of them). They are about `Spec`, `AlertsSpec` and
`VaultSpec`, from the empty tables; the runs of `ledger`, `planning`, `alerts` and
`access` start further on, from states that such a beginning leads to.

| Theorem | Says | Under |
|---|---|---|
| `BankSyncProofs!TypeCorrect` | `Spec => []TypeOK` | any number of sessions |
| `BankSyncProofs!NothingDoublesUp` | `Spec => []NoDoubleCount` | one session |
| `BankSyncProofs!NothingIsInsertedTwice` | `Spec => []InsertsAreNew` | one session |
| `BankSyncProofs!BalancesOnlyRise` | `Spec => BalanceNeverRegresses` | one session |
| `BankSyncProofs!BankLedgerIsKept` | `Spec => KeepsBankLedger` | one session |
| `BankSyncProofs!ReportIsKept` | `Spec => KeepsItsReport` | any number of sessions |
| `RecurringProofs!TypeCorrect` | `Spec => []TypeOK` | any number of sessions |
| `RecurringProofs!CancelDayCorrect` | `Spec => []CancelDayTellsStatus` | one session |
| `RecurringProofs!ClaimsAreKept` | `Spec => DetectionKeepsClaims` | one session |
| `RecurringProofs!CancelDayIsFixed` | `Spec => CancelDayStands` | one session |
| `TradesProofs!TypeCorrect` | `Spec => []TypeOK` | any number of sessions |
| `TradesProofs!LogAlwaysReplays` | `Spec => []LogReplays` | one session, quantities the column stores exactly |
| `TradesProofs!MethodsAgree` | `Spec => []ReplaysAgree` | one session, no negative quantity, no ratio of zero, a `Quantum` of as many fractions as the halvings make (`PlainAmounts`) |
| `TradesProofs!ProfitsAgree` | `Spec => []SameProfit` | one session, quantities the column stores exactly, `PlainAmounts`, no quantity of zero |
| `TradesProofs!SplitsReachHolders` | `Spec => SplitReachesHolders` | one session, no negative quantity |
| `SchedulerProofs!TypeCorrect` | `Spec => []TypeOK` | any households, accounts, rows, securities and requests |
| `SchedulerProofs!PriceBookIsKept` | `Spec => KeepsPriceBook` | the same |
| `LedgerProofs!RowsTyped` | `Spec => []TypeOK` | any categories, shapes, files and sessions |
| `LedgerProofs!ReferencesAlwaysHold` | `Spec => []ReferencesHold` | the same |
| `LedgerProofs!PointersSurviveDeletion` | `Spec => OldPointersSurvive` | a category's id is not a row of a table (`NamesAreNoRows`) |
| `LedgerProofs!TypedIsKept` | `Spec => TypedCategoryStays` | any categories, shapes, files and sessions |
| `LedgerProofs!ReorderGivesTheOrder` | `Spec => ReorderMatchesList` | the same |
| `LedgerProofs!ImportsAddOnce` | `Spec => ImportAddsOnce` | the same |
| `PlanningProofs!CarriesAreHistory` | `Spec => []CarryIsHistory` | any calendar, categories, look-back and amounts |
| `PlanningProofs!SuggestionsAreTypical` | `Spec => []SuggestionIsTypical` | the same |
| `PlanningProofs!SeriesPayOnce` | `Spec => []PaysOncePerPeriod` | any calendar, merchants and dates |
| `PlanningProofs!SafeIsTheMost` | `Spec => []SafeToSpendIsTheMost` | any accounts, balances, series and calendar |
| `PlanningProofs!PurchasesAreFelt` | `Spec => []PurchaseIsFelt` | the same |
| `PlanningProofs!CancelledAreReported` | `AlertsSpec => []CancelledChargesAreTold` | any charges, series and edits |
| `PlanningProofs!LaterOnesAreListed` | `AlertsSpec => []NextOccurrenceShows` | no month is shorter than three days (`MonthsOfThree`) |
| `PlanningProofs!DismissedIncreaseStays` | `AlertsSpec => DismissedPriceStays` | any charges, series, edits and pages |
| `TradeImportProofs!TwinsAlwaysOverlapped` | `Spec => []TwinsOverlapped` | any files, symbols and importers |
| `TradeImportProofs!FilesGetIn` | `Spec => []WholeAfterTwo` | any files, symbols and importers |
| `AccessProofs!InviteAlwaysAdmitsOnce` | `VaultSpec => []InviteAdmitsOnce` | any addresses, requests, lifetimes and restarts; `None` is no address and no row (`NoneIsNobody`) |
| `AccessProofs!RotationAlwaysEndsSessions` | `VaultSpec => []RotationEndsSessions` | the same |
| `AccessProofs!SessionsAlwaysLapse` | `VaultSpec => SessionsLapse` | the same |
| `AccessProofs!RowsAlwaysHaveFiles` | `VaultSpec => []RowsHaveFiles` | any addresses, requests and lifetimes |

That one session is needed is what the counterexamples and the known disagreements
show; the hypothesis is
explicit in the statement of each theorem and is not an assumption of the module.

**NothingDoublesUp.** `NoDoubleCount` is not inductive: a sync decides in
`ReadHeld` what it will add and adds it in `Commit`, and in between the bank may
post and re-issue. `NoDoublesInvariant` adds that every row, and every row about
to be inserted, is of a posted charge in the right account, and that the ledger
*together with* the rows about to be inserted does not double. The heart of it is
a counting argument for `ReadHeld`: the rows added for a shape are what the answer
has of it, less the slots that rows held by id leave free, so that held and added
rows together are at most the charges of that shape. Posting a charge only
enlarges a shape, a re-issue changes no row, and a deletion by the user removes
one.

**NothingIsInsertedTwice, BalancesOnlyRise, ReportIsKept.** With one session, whatever a
sync holds in its objects is what the tables have (`SyncAgrees` in `SerialInvariant`): an
account or an id that it did not find when it read is not there when it inserts. And a
balance, in a row or in a sync's hands, is no more than the bank's, which no step lowers.
`ReportIsKept` needs neither: it is a statement about the one step `ReadHeld`, and the
counting of `NothingDoublesUp` read from below, with any number of sessions. The ledger
must be finite for it (`LedgerFinite`). `BalanceNeverRegresses` is checked by no run of
its own: `Refresh` of `BankLedger` says as much.

**BankLedgerIsKept.** The refinement takes all of the above at once: `BookInvariant` joins
the two invariants and adds `SyncFits` (what a session holds at each of its lines: an
answer that is within what posted, `since` within the cursor and the clock, nothing left
over when it is idle) and that the cursor is not after the clock. Charges and rows are
counted as cardinalities of the sets that look like a description, so each step is a lemma
about one element more or less (`AddedTally`, `InsertTally`, `OneRowMore`) or about sets
that did not change (`TalliesStay...`). `ReadDecides` is the heart: the two passes, with
*m* charges matched by id, *w* left and *h* slots, add *w* - max(0, *h* - *m*) rows, and
`SurplusIsMissing` shows that to be max(0, *w* + *m* - *h*), which mentions no id.
`FetchHears` needs that the day of a moment is monotone (`DayMonotone`), for charges after
the cursor's day to be within `since`; `CommitCompletes` that every row to be inserted
has its account (`RowsHaveAccounts`). `HiddenSteps` shows the rest to stutter.

**Recurring.** The invariant says that whatever a session read is the row as it
is now (with one session nothing moves in between). `ClaimsAreKept` is then that
`ApplyCandidate` and the second loop of `detect` keep a claim, and
`CancelDayCorrect` that `Edited` sets and clears the day with the status.

**LogAlwaysReplays.** What a replay computes is left opaque. The argument is that
the log a session validates is the log its commit leaves: with current rows
(`HeldIsCurrent`) and exact quantities the objects the replay reads are the rows
the flush writes (`ReplaysWhatItWrites`), and a validated session's log is still
accepted when it commits (`ValidatedReplays`). It needs `TypeInvariant`: an id
names one row, and the ids of rows about to be inserted are new.
Dropping exactness is one way out of it (`TradesRounding.cfg`), dropping the single
session the other (two sessions that validate without one another's change).

**MethodsAgree.** Here the replays are opened. A fold has a closed form only as the
solution of its equations, so `FoldExists` shows that there is one over any finite set,
and `PositionIs` and `LotsIs` that a log's value is that of the log without its last
trade, with that trade applied. Then `Agree` goes through trade by trade, by induction
over the parts of a log (`PartsUp`): the lots are not negative and add up to the units. A
sell is a fold itself (`SoldIs`): while something is left to sell no lot is left over
(`Selling`), so a sell of no more than the units finds enough. A split halves each lot on its own, and the sum of
halves is half of the sum only if no lot is odd: a lot can be halved as often as the log
may still do it (`Halvable`), since every stored quantity is a multiple of `Quantum` and
the halvings of the log keep within `MaxHalvings` (`PlainInvariant`). That bound is the
model's way of counting whole fractions; the Python decimals have no such limit.

**ProfitsAgree.** Fractions multiply with each trade, which the provers cannot follow, so
they are counted: for any log there is a *D* such that every figure of an account is a
whole number of *D*-ths of a cent (`Counts`), and a trade needs at most a finer *D*
(`EvenFiner`: a buy of *q* units one *q* times as fine, a sell of *q* out of *u* one *u*
times *q*, a split one twice as fine). In such parts `Even` is the invariant of the two
replays, kept trade by trade (`EvenBuy`, `EvenSell`, `EvenSplit`): with *c* the average
cost of the units held, *r* what has been realized, *v* what the lots cost and *g* the gains of
the report, *g* is *r* - *c* + *v*, give or take a cent a gain, *c* is nothing once no unit
is held, and the lots have as many units as the position. Neither *r* against *g* nor *c* against *v* is
kept by itself: a sell moves the difference from one to the other. That one sell rounds
at most a cent a gain is again an induction, over the lots it meets (`Matching`). The
fold over accounts brings all of them to one *D* (`AllTogether`), and at a price *p* the
lots would gain *p* times the units less *v*, which the average cost has as *p* times the
units less *c* (`TogetherApart`). It takes `LogInvariant` for a log that never oversells,
`PlainInvariant` for splits that leave no fraction, and `AllMove`: no buy or sell of
nothing, because `tax.py` passes over it and its fees and `portfolio.py` books them.

**SplitsReachHolders.** Between the request and its commit nothing moves, so the rows it
brings are one for each account that holds units and later than all of the log
(`FanOutsAreFresh`). The row is then the last trade of its account, and what it does to the units
is one `Apply` (`LatestAdded`). An account without such a row has no units: below zero
they never are (`UnitsNotNegative`), and that is what the quantities are needed for.

**PriceBookIsKept.** Every step of `Scheduler` must be a step of `PriceBook` or leave
the prices alone. The step that needs an argument is `CommitPrices`, which writes
`tick.wrote` whatever the prices are by then: it is a `Fetch` only if none of these
has become manual since its upsert. That is `WroteNoManual`: what is written is
locked, and a correction waits for the lock. It is the inductive invariant, with
`TypeOK` for the shape of the tick.

**ReferencesAlwaysHold.** With any number of sessions, what a request has checked may be
false by its commit, so the invariant says of a request only what nobody else can undo:
which category it is about, that it is one of the household's own and not its own
parent, and the shape of the rows it brings (`TreeSound`, `DropSound`, `RowsSound`).
What may be undone, `Allowed` asks for again: the proof is that the foreign keys and the
cascade are enough. `OldPointersSurvive` is the other half: the check of a deletion
found no rule and no budget of the category, and a row that is as it was then does not
point at it now.

**RowsTyped, TypedIsKept, ReorderGivesTheOrder, ImportsAddOnce.** `RowsInvariant` says what a
request carries: pairs of a row as it was read and as it is to be (`EditsSound`), and ids
that nobody else has (`IdsFresh`), so that a commit changes the row it means and no other. A user's
category can only give way in such a pair, and the pair is of that row: as it was when all
were asked for, or as it was without a category. The place of a rule in the list is stated as a
number, how many come before it, and not by sorting, so that two rules of one reorder
can be compared; and an import's rows are distinct in their text and from the texts it had
read, so that no shape is counted twice.

**The planning theorems.** `PlanInvariant` is only types and the soundness of dates; what is
hard is in the operators. Each recursive function (the carry, the walk, the calendar) is shown
to have a solution, and then to satisfy its equation; sums over sets are handled one
member at a time. `CarriesAreHistory` is an induction over months and the look-back that
is left. `SafeIsTheMost` is that a purchase today lowers every day of the walk alike, so
the lowest one by as much. `SeriesPayOnce` rests on the calendar: a step of a month from
any day falls into the next month and no further, whatever clamping did before.
`SuggestionsAreTypical` is about the rank of the median and how far rounding to five moves
it. `AlertsInvariant` adds that what was shown, on the page or dismissed, knows the row and
the day of that time (`AllShownSound`): an increase was keyed by that row's price, and an
occurrence lies no further ahead than the alert looks, so that one that came since has
another key; and keys of different rows differ (`IdsDiffer`). `DismissedIncreaseStays` is about one
detection: the charge the row is then about is the latest that counts (`DetectedLast`), so
if those since the dismissed one are all of its price, the key the row can have is the one
dismissed. For bills that needs two occurrences to be
further apart than the days an alert looks ahead, hence `MonthsOfThree`; every real
month is.

**TwinsAlwaysOverlapped.** An import knows the ids that were there when it started and
those it has added. So a trade it does not know was added since by another, which runs
beside it or ran (`UnknownIsBeside`, with `RunsAreNoted` for two that run), and a row it
adds has a twin only from such a one. That ids are given in the order of commits needs
a largest one at any time (`NextIdIsNew`, from the well-foundedness of the naturals).

**FilesGetIn.** A log of buys and sells replays exactly if, whenever a trade is made,
the buys until then cover the sells until then (`ReplayIsCovered`, over the units any
part of the log nets, which do not depend on the order it is taken in). Two facts
follow. A buy never stands in the way of a log that replays (`BuyReplays`), so one pass
brings in all buys. And where the file's own trades replay, so does every part of them
that has, before each of its sells, the buys the file has before it (`FileReplays`): for
a trade of the log take the last of the sells until then in the file's order; what the
file has sold until that one is no less and what it has bought no more. The invariant
(`QuietSound`) is about the time nobody else writes: one import at most runs, its known
ids are those of the log, a row stands there once, every buy a row follows in the file
was committed before it, and the rows read in a pass that has all buys, or of a sorted
file, are all in. TLC agreed with it for three imports before it was proved.

**RowsAlwaysHaveFiles.** Until its row commits, nobody but its request has an id
(`UploadsAreAlone`), so no deletion can reach the file of an upload under way; and an id
whose deletion was committed is held by nobody (`GoneIsOff`), so no upload brings it back.

**InviteAlwaysAdmitsOnce, RotationAlwaysEndsSessions, SessionsAlwaysLapse.** One invariant
for the three, over the steps of `Vault` too. Of an invite: whoever joined by it has
marked it, as long as it is there, and two requests that are joining by it at once are
noted. Of a password: sessions, tokens of a first step that are still good, and logins
about to be issued stem from the one in force, or a change met a login. Of a session:
the time a request writes back is never later than its last use, so a stale one makes it
lapse sooner, never later (`LastSeen(s) <= s.used`).

Only model-checked: liveness (`EventuallyInStep` of both modules, `EventuallyCaptured`,
`ImportsEnd`), which is beyond TLAPS. Every other property of the runs is a theorem, under
the conditions of the table.

Some definitions have the form they have so that they can be reasoned about: `Place` in
`Ledger` and `Ascending` in `Detection` count what comes before instead of sorting, the
carry is a function of one argument, a pair, and sums are folds of functions.

## What is not modelled

Of the modelled components:

- banks: JSON parsing and the holdings a bank reports, names and currencies of accounts,
  the category a rule gives a synced row (rules are in `Ledger`), corrections of a charge
  whose id stays; linking and deleting a connection, single statements against an outside
  service;
- accounts created by hand; notes, tags and currencies of transactions; lists and pages;
- dividends, holding periods and income estimates of trades; `prices.backfill`, which
  nothing calls, and the price providers;
- headers, number formats and encodings of files: a row is what it reads as;
- the preview of rules and the language model's suggestions for them;
- hashes, encryption, token formats, rate limits, cookies and wrong credentials, which
  change no state; the list and the size limit of the vault, and disk errors other than a
  file that is not there;
- the wording and warnings of forecasts and alerts, and the calendar view.

Of the rest, the read-only components (reports, insights, digest, export, investments
views) are sums over rows that the models have; the advisor and its model are outside
what this code specifies; the estate checklist has single rows with no ordering of their
own; HTTP routing, migrations, the browser client and the backup scripts change no state
that another component reads.

## The plan

Done: `BankSync` with `BankLedger`, `Recurring`, `Trades` with `CostBasis`, `Scheduler` with snapshots and
`PriceBook`, `TradeImport`, `Ledger`, the tower from `Calendar` to `Alerts`, `Access` and
`Vault`; proofs of each of the modules that interleave, and of what the planning
operators compute.

Left, in the order of what matters most to a household that trusts the numbers:

1. `BankSync` with corrections of a charge whose id stays, and with the rules of `Ledger`
   over the rows it inserts.
2. The life cycle of connections and of accounts made by hand.
