------------------------------- MODULE Scheduler -------------------------------
(***************************************************************************)
(* The ticks of the background scheduler (core/scheduler.py, run_once) and *)
(* the requests they meet.  A tick serves the households one after the     *)
(* other, each in four steps:                                              *)
(*                                                                         *)
(*   sync -> capture -> detect -> refresh                                  *)
(*                                                                         *)
(* All steps of a tick share one database session, which no `except`       *)
(* clause rolls back.  Once a flush has failed in it, every later statement*)
(* raises PendingRollbackError: the session is broken.  Inside a step the  *)
(* exception is caught; in the line that lists the connections of the next *)
(* household it is not, and ends the tick.                                 *)
(*                                                                         *)
(* Balance snapshots (services/snapshots.py) and prices                    *)
(* (services/prices.py) are modelled in full; a sync is the balances that  *)
(* it commits (BankSync has the rest) and a detection its success or       *)
(* failure (Recurring has the rest).                                       *)
(*                                                                         *)
(* Abstractions.  The n-th balance the bank has ever reported for an       *)
(* account is n.  A price is its source.  A row of an account is the       *)
(* account at the bank and how many rows it has had.                       *)
(***************************************************************************)
EXTENDS Integers

CONSTANTS
    Households,
    BankAccounts, \* what the households have linked at their banks
    Securities,
    HouseholdOf,  \* [BankAccounts \cup Securities -> Households]
    Tick,         \* the session of the scheduler's tick
    Requests,     \* the sessions of requests that capture balances
    MaxDay,       \* bound: the last day
    MaxBalance,   \* bound: how often a balance changes at the bank
    MaxRows,      \* bound: how many rows an account at the bank has, one after the other
    MaxFailures   \* bound: how often a statement, a bank or the process fails

ASSUME HouseholdAssumption == HouseholdOf \in [BankAccounts \cup Securities -> Households]
ASSUME TickAssumption == Tick \notin Requests
ASSUME BoundsAssumption ==
    MaxDay \in Nat /\ MaxBalance \in Nat /\ MaxRows \in Nat \ {0} /\ MaxFailures \in Nat

VARIABLES
    today,      \* the date
    bank,       \* bank: the balance it reports
    born,       \* db: how many rows each account at the bank has had
    open,       \* db: the rows there are
    balance,    \* db: accounts.balance
    snapshots,  \* db: balance_snapshots.balance by account and day, or NoSnapshot
    prices,     \* db: security_prices.source by security and day, or "none"
    tick,       \* the scheduler's tick
    capture,    \* the capture each session is running
    failures    \* how many failures there have been so far

accountVars == <<bank, born, open, balance>>
vars == <<today, accountVars, snapshots, prices, tick, capture, failures>>

Sessions == {Tick} \cup Requests
Days == 0 .. MaxDay
Accounts == BankAccounts \X (1 .. MaxRows)
PriceKeys == Securities \X Days
NoSnapshot == -1

\* The accounts at the bank or securities S that belong to one of the households H.
Of(H, S) == {x \in S : HouseholdOf[x] \in H}

\* The accounts of the households H.
AccountsOf(H) == {a \in open : HouseholdOf[a[1]] \in H}

IdleTick == [pc |-> "idle", left |-> {}, serving |-> {}, broken |-> FALSE,
             quotes |-> {}, locked |-> {}, wrote |-> {}]

IdleCapture == [pc |-> "idle", accounts |-> {}, day |-> 0, unread |-> {},
                read |-> [a \in Accounts |-> 0], loaded |-> [a \in Accounts |-> NoSnapshot]]

Init ==
    /\ today = 0
    /\ bank = [b \in BankAccounts |-> 0]
    /\ born = [b \in BankAccounts |-> 1]
    /\ open = BankAccounts \X {1}
    /\ balance = [a \in Accounts |-> 0]
    /\ snapshots = [r \in Accounts \X Days |-> NoSnapshot]
    /\ prices = [k \in PriceKeys |-> "none"]
    /\ tick = IdleTick
    /\ capture = [s \in Sessions |-> IdleCapture]
    /\ failures = 0

Fails == failures < MaxFailures /\ failures' = failures + 1
-------------------------------------------------------------------------------
(* Balance snapshots *)

ReadAccounts(s, H) ==
    /\ capture[s].pc = "idle"
    /\ AccountsOf(H) # {}
    /\ capture' = [capture EXCEPT ![s] =
         [pc |-> "accounts", accounts |-> AccountsOf(H), day |-> today, unread |-> {},
          read |-> [a \in Accounts |-> IF a \in AccountsOf(H) THEN balance[a] ELSE 0],
          loaded |-> [a \in Accounts |-> NoSnapshot]]]

\* Which of the accounts have a row of the day: `existing`.
ReadExisting(s) ==
    /\ capture[s].pc = "accounts"
    /\ capture' = [capture EXCEPT
         ![s].pc = "snapshots",
         ![s].unread = {a \in capture[s].accounts : snapshots[<<a, capture[s].day>>] # NoSnapshot}]

\* Then the row of each of these, with a query of its own.
ReadSnapshot(s, a) ==
    /\ a \in capture[s].unread
    /\ capture' = [capture EXCEPT ![s].unread = @ \ {a},
                                  ![s].loaded[a] = snapshots[<<a, capture[s].day>>]]

Reads(s) == ReadExisting(s) \/ \E a \in Accounts : ReadSnapshot(s, a)

\* The rows the flush inserts, and the loaded rows whose balance the capture changes.
Inserted(s) == {a \in capture[s].accounts : capture[s].loaded[a] = NoSnapshot}

\* Mutant of Updated: a row of the day is left as it is.
UpdatesNone(s) == {}

Updated(s) == {a \in capture[s].accounts : capture[s].loaded[a] \notin {NoSnapshot, capture[s].read[a]}}

\* uq_snapshot_day, the account's foreign key, and a row to update that is gone.
Refused(s) ==
    \/ \E a \in Inserted(s) : snapshots[<<a, capture[s].day>>] # NoSnapshot
    \/ \E a \in Inserted(s) \cup Updated(s) : a \notin open

Ends(s) == capture' = [capture EXCEPT ![s] = IdleCapture]

CommitCapture(s) ==
    /\ capture[s].pc = "snapshots" /\ capture[s].unread = {}
    /\ ~Refused(s)
    /\ snapshots' = [r \in Accounts \X Days |->
                        IF r[2] = capture[s].day /\ r[1] \in Inserted(s) \cup Updated(s)
                        THEN capture[s].read[r[1]] ELSE snapshots[r]]
    /\ Ends(s)

RefuseCapture(s) ==
    /\ capture[s].pc = "snapshots" /\ capture[s].unread = {}
    /\ Refused(s)
    /\ Ends(s)
    /\ UNCHANGED snapshots
-------------------------------------------------------------------------------
(* A tick *)

BeginTick ==
    /\ tick.pc = "idle"
    /\ tick' = [IdleTick EXCEPT !.pc = "next", !.left = Households]
    /\ UNCHANGED <<today, accountVars, snapshots, prices, capture, failures>>

\* The connections of the next household are read.
Serve(h) ==
    /\ tick.pc = "next" /\ h \in tick.left /\ ~tick.broken
    /\ tick' = [tick EXCEPT !.pc = "sync", !.left = @ \ {h}, !.serving = {h}]
    /\ UNCHANGED <<today, accountVars, snapshots, prices, capture, failures>>

\* They cannot be read: nothing catches it but the loop around the ticks.
TickRaises ==
    /\ tick.pc = "next" /\ tick.left # {} /\ tick.broken
    /\ tick' = IdleTick
    /\ UNCHANGED <<today, accountVars, snapshots, prices, capture, failures>>

TickEnds ==
    /\ tick.pc = "next" /\ tick.left = {}
    /\ tick' = IdleTick
    /\ UNCHANGED <<today, accountVars, snapshots, prices, capture, failures>>

\* A household's balances are brought up to date, by a tick or by a request.  What the bank has
\* and no row stands for, as after a deletion, gets a new one.
Synced(H) ==
    LET missing == {b \in Of(H, BankAccounts) : born[b] < MaxRows /\ \A a \in open : a[1] # b}
        rows == open \cup {<<b, born[b] + 1>> : b \in missing}
    IN  /\ born' = [b \in BankAccounts |-> IF b \in missing THEN born[b] + 1 ELSE born[b]]
        /\ open' = rows
        /\ balance' = [a \in Accounts |-> IF a \in rows /\ HouseholdOf[a[1]] \in H
                                          THEN bank[a[1]] ELSE balance[a]]

Sync ==
    /\ tick.pc = "sync"
    /\ Synced(tick.serving)
    /\ tick' = [tick EXCEPT !.pc = "capture"]
    /\ UNCHANGED <<today, bank, snapshots, prices, capture, failures>>

\* The bank fails: the connection's error status is committed, the session is sound.
SyncFails ==
    /\ tick.pc = "sync" /\ Fails
    /\ tick' = [tick EXCEPT !.pc = "capture"]
    /\ UNCHANGED <<today, accountVars, snapshots, prices, capture>>

\* A flush of the sync fails: the handler's own look at conn.id raises again, uncaught.
SyncBreaks ==
    /\ tick.pc = "sync" /\ Fails
    /\ tick' = IdleTick
    /\ UNCHANGED <<today, accountVars, snapshots, prices, capture>>

SkipCapture ==
    /\ tick.pc = "capture" /\ AccountsOf(tick.serving) = {}
    /\ tick' = [tick EXCEPT !.pc = "detect"]
    /\ UNCHANGED <<today, accountVars, snapshots, prices, capture, failures>>

TickReadsAccounts ==
    /\ tick.pc = "capture"
    /\ ReadAccounts(Tick, tick.serving)
    /\ tick' = [tick EXCEPT !.pc = "capturing"]
    /\ UNCHANGED <<today, accountVars, snapshots, prices, failures>>

TickReadsSnapshots ==
    /\ tick.pc = "capturing" /\ Reads(Tick)
    /\ UNCHANGED <<today, accountVars, snapshots, prices, tick, failures>>

TickCommitsCapture ==
    /\ tick.pc = "capturing" /\ CommitCapture(Tick)
    /\ tick' = [tick EXCEPT !.pc = "detect"]
    /\ UNCHANGED <<today, accountVars, prices, failures>>

\* Caught and logged, but the session is broken from here on.
TickCaptureRefused ==
    /\ tick.pc = "capturing" /\ RefuseCapture(Tick)
    /\ tick' = [tick EXCEPT !.pc = "detect", !.broken = TRUE]
    /\ UNCHANGED <<today, accountVars, prices, failures>>

Detect ==
    /\ tick.pc = "detect" /\ ~tick.broken
    /\ tick' = [tick EXCEPT !.pc = "refresh"]
    /\ UNCHANGED <<today, accountVars, snapshots, prices, capture, failures>>

\* A flush of the detection fails (uq_recurring_merchant, or a series that is gone).
DetectBreaks ==
    /\ tick.pc = "detect" /\ ~tick.broken /\ Fails
    /\ tick' = [tick EXCEPT !.pc = "refresh", !.broken = TRUE]
    /\ UNCHANGED <<today, accountVars, snapshots, prices, capture>>

\* Detection and refresh each raise at their first query.
SkipBroken ==
    /\ tick.pc \in {"detect", "refresh"} /\ tick.broken
    /\ tick' = [tick EXCEPT !.pc = "next"]
    /\ UNCHANGED <<today, accountVars, snapshots, prices, capture, failures>>

\* The securities the provider has a quote for; the others are reported as failed.
Quote(K) ==
    /\ tick.pc = "refresh" /\ ~tick.broken
    /\ tick' = [tick EXCEPT !.pc = "quoted", !.quotes = K \X {today}]
    /\ UNCHANGED <<today, accountVars, snapshots, prices, capture, failures>>

\* Mutant of Overwritable: a refresh replaces whatever price there is.
AnyPrice(k) == prices[k] \in {"none", "fetched", "manual"}

\* INSERT ... ON CONFLICT DO UPDATE ... WHERE source != 'manual'
Overwritable(k) == prices[k] # "manual"

\* The statement locks the row whether it writes it or not.
Upsert(k) ==
    /\ tick.pc = "quoted" /\ k \in tick.quotes
    /\ tick' = [tick EXCEPT !.quotes = @ \ {k}, !.locked = @ \cup {k},
                            !.wrote = IF Overwritable(k) THEN @ \cup {k} ELSE @]
    /\ UNCHANGED <<today, accountVars, snapshots, prices, capture, failures>>

\* Mutant of EndsRefresh: the rows stay locked while the next household is served.
KeepsLocks == [tick EXCEPT !.pc = "next", !.quotes = {}, !.wrote = {}]

\* The end of the transaction, by a commit or by an error, releases the rows.
EndsRefresh == [tick EXCEPT !.pc = "next", !.quotes = {}, !.locked = {}, !.wrote = {}]

CommitPrices ==
    /\ tick.pc = "quoted" /\ tick.quotes = {}
    /\ prices' = [k \in PriceKeys |-> IF k \in tick.wrote THEN "fetched" ELSE prices[k]]
    /\ tick' = EndsRefresh
    /\ UNCHANGED <<today, accountVars, snapshots, capture, failures>>

RefreshBreaks ==
    /\ tick.pc = "quoted" /\ Fails
    /\ tick' = [EndsRefresh EXCEPT !.broken = TRUE]
    /\ UNCHANGED <<today, accountVars, snapshots, prices, capture>>
-------------------------------------------------------------------------------
(* Requests *)

\* POST /snapshots.
RequestReadsAccounts(s, h) ==
    /\ ReadAccounts(s, {h})
    /\ UNCHANGED <<today, accountVars, snapshots, prices, tick, failures>>

RequestCaptureStep(s) ==
    /\ \/ Reads(s) /\ UNCHANGED snapshots
       \/ CommitCapture(s)
       \/ RefuseCapture(s)
    /\ UNCHANGED <<today, accountVars, prices, tick, failures>>

\* POST /connections/{id}/sync.
RequestSyncs(h) ==
    /\ Synced({h})
    /\ UNCHANGED <<today, bank, snapshots, prices, tick, capture, failures>>

\* POST /prices: one statement and its commit, after a wait for the row's lock.
SetManualPrice(k) ==
    /\ k \notin tick.locked
    /\ prices' = [prices EXCEPT ![k] = "manual"]
    /\ UNCHANGED <<today, accountVars, snapshots, tick, capture, failures>>

\* DELETE /accounts/{id}: the snapshots go first, then the account.
DeleteAccount(a) ==
    /\ a \in open
    /\ open' = open \ {a}
    /\ balance' = [balance EXCEPT ![a] = 0]
    /\ snapshots' = [r \in Accounts \X Days |-> IF r[1] = a THEN NoSnapshot ELSE snapshots[r]]
    /\ UNCHANGED <<today, bank, born, prices, tick, capture, failures>>
-------------------------------------------------------------------------------
(* The surroundings *)

\* The process dies: nothing of what is under way is committed.
Restart ==
    /\ tick.pc # "idle" \/ \E s \in Sessions : capture[s].pc # "idle"
    /\ Fails
    /\ tick' = IdleTick
    /\ capture' = [s \in Sessions |-> IdleCapture]
    /\ UNCHANGED <<today, accountVars, snapshots, prices>>

\* The bank (external) has a new balance.
Moves(b) ==
    /\ bank[b] < MaxBalance
    /\ bank' = [bank EXCEPT ![b] = @ + 1]
    /\ UNCHANGED <<today, born, open, balance, snapshots, prices, tick, capture, failures>>

NextDay ==
    /\ today < MaxDay /\ today' = today + 1
    /\ UNCHANGED <<accountVars, snapshots, prices, tick, capture, failures>>

TickStep ==
    \/ \E h \in Households : Serve(h)
    \/ TickRaises \/ TickEnds
    \/ Sync \/ SkipCapture \/ TickReadsAccounts \/ TickReadsSnapshots
    \/ TickCommitsCapture \/ TickCaptureRefused
    \/ Detect \/ SkipBroken
    \/ \E K \in SUBSET Of(tick.serving, Securities) : Quote(K)
    \/ \E k \in PriceKeys : Upsert(k)
    \/ CommitPrices

Failure == SyncFails \/ SyncBreaks \/ DetectBreaks \/ RefreshBreaks \/ Restart

Next ==
    \/ BeginTick \/ TickStep \/ Failure \/ NextDay
    \/ \E s \in Requests : RequestCaptureStep(s) \/ \E h \in Households : RequestReadsAccounts(s, h)
    \/ \E h \in Households : RequestSyncs(h)
    \/ \E k \in PriceKeys : SetManualPrice(k)
    \/ \E b \in BankAccounts : Moves(b)
    \/ \E a \in Accounts : DeleteAccount(a)

Spec == Init /\ [][Next]_vars

\* The loop outlives every tick, a tick goes on, and so does a request once begun.
FairSpec ==
    /\ Spec
    /\ WF_vars(BeginTick)
    /\ WF_vars(TickStep)
    /\ \A s \in Requests : WF_vars(RequestCaptureStep(s))
-------------------------------------------------------------------------------
(* Properties *)

Balances == 0 .. MaxBalance

TickType ==
    [pc : {"idle", "next", "sync", "capture", "capturing", "detect", "refresh", "quoted"},
     left : SUBSET Households, serving : SUBSET Households, broken : BOOLEAN,
     quotes : SUBSET PriceKeys, locked : SUBSET PriceKeys, wrote : SUBSET PriceKeys]

CaptureType ==
    [pc : {"idle", "accounts", "snapshots"}, accounts : SUBSET Accounts, day : Days,
     unread : SUBSET Accounts, read : [Accounts -> Balances], loaded : [Accounts -> Balances \cup {NoSnapshot}]]

\* The type invariant: every variable keeps the shape its comment gives it, and a
\* tick locks prices in its refresh only.
TypeOK ==
    /\ today \in Days
    /\ bank \in [BankAccounts -> Balances]
    /\ born \in [BankAccounts -> 1 .. MaxRows]
    /\ open \subseteq {<<b, born[b]>> : b \in BankAccounts}
    /\ balance \in [Accounts -> Balances]
    /\ snapshots \in [Accounts \X Days -> Balances \cup {NoSnapshot}]
    /\ prices \in [PriceKeys -> {"none", "fetched", "manual"}]
    /\ tick \in TickType
    /\ tick.pc # "quoted" => tick.locked = {}
    /\ capture \in [Sessions -> CaptureType]
    /\ failures \in 0 .. MaxFailures

Book == INSTANCE PriceBook WITH PriceKeys <- PriceKeys, prices <- prices

\* "A manual row always wins over a fetched one": refreshes of many rows, with their locks
\* and their failures, amount to prices that appear at once and never replace a manual one.
KeepsPriceBook == Book!Spec

\* "If it misses a tick ... the next tick catches up": once the bank is quiet, the snapshot
\* of the last day of every account has the bank's balance, whatever captures raced, failed
\* or wrote what they had read too early.
EventuallyCaptured ==
    <>[](\A a \in open : snapshots[<<a, today>>] = bank[a[1]])

\* "One bad household must not stop the loop": a tick that ends has served every household.
TickServesAll == [][tick.pc # "idle" /\ tick'.pc = "idle" => tick.left = {}]_vars
===============================================================================
