--------------------------------- MODULE Trades ---------------------------------
(***************************************************************************)
(* The trade log of one security (services/trades.py).  A session creates, *)
(* edits or deletes trades in three steps of one database transaction:     *)
(*                                                                         *)
(*   Ask        _assert_account, or positions() for a split without an     *)
(*              account, or get() for an edit or a deletion                *)
(*   Validate   flush the change and replay the log with it; an oversold   *)
(*   (Refuse)   position raises InsufficientUnitsError, nothing is kept    *)
(*   Commit                                                                *)
(*                                                                         *)
(* Sessions run under READ COMMITTED: a replay sees what the others have   *)
(* committed and nothing they have only flushed.  The replay reads rows    *)
(* through the session's identity map, so that of the session's own trades *)
(* it sees the objects as typed, with a quantity the column has not        *)
(* rounded yet and the columns as first read.                              *)
(***************************************************************************)
EXTENDS TradeReplay, FiniteSets

CONSTANTS
    Accounts, \* the household's accounts
    Sessions, \* database sessions
    Amounts,  \* the quantities asked for, in fractions of a storable quantity
    Ratios,   \* the split ratios asked for
    Quantum,  \* fractions in the smallest quantity the column stores
    MaxDay,   \* bound: the last day a trade may be dated
    MaxCreates, \* bound: transactions that create trades
    MaxHalvings \* bound: halvings in the log, so that fractions stay whole

ASSUME AmountsAssumption == Amounts \subseteq Int /\ Quantum \in Nat \ {0}
ASSUME RatiosAssumption == Ratios \subseteq {"double", "halve", "zero", "none"}
ASSUME BoundsAssumption == MaxDay \in Nat /\ MaxCreates \in Nat /\ MaxHalvings \in Nat

VARIABLES
    trades, \* db: the rows of the log
    pc,     \* how far each session has come
    request \* what it was asked: the operation, the row it read, the objects it will write

vars == <<trades, pc, request>>
-------------------------------------------------------------------------------
Day == 0 .. MaxDay

\* What a request says of a trade besides its account and day.
Bodies == [type : {"buy", "sell"}, quantity : Amounts, ratio : {"none"}]
            \cup [type : {"split"}, quantity : {0}, ratio : Ratios]

\* id = <<created_at, the account it was created in>>
Row(id, account, day, body) ==
    [id |-> id, account |-> account, day |-> day,
     type |-> body.type, quantity |-> body.quantity, ratio |-> body.ratio]

NoRequest == [op |-> "none", old |-> {}, new |-> {}]

Init ==
    /\ trades = {}
    /\ pc = [s \in Sessions |-> "idle"]
    /\ request = [s \in Sessions |-> NoRequest]

Only(S) == CHOOSE x \in S : TRUE

Of(account, rows) == {t \in rows : t.account = account}
Traded(rows) == {t.account : t \in rows}
Units(account, rows) == Position(Of(account, rows)).units
Oversold(account, rows) == Position(Of(account, rows)).oversold
-------------------------------------------------------------------------------
(* The request and what it reads *)

\* A transaction's now(): the next moment after those of all rows and running sessions.
IsNow(n) ==
    LET stamped == trades \cup UNION {request[s].old \cup request[s].new : s \in Sessions}
    IN  /\ \A t \in stamped : t.id[1] < n
        /\ n = 1 \/ \E t \in stamped : t.id[1] = n - 1

Halvings(rows) == Cardinality({t \in rows : t.ratio = "halve"})

Ask(s, op, old, new) ==
    /\ pc[s] = "idle"
    /\ Halvings(trades \ old) + Halvings(new) <= MaxHalvings
    /\ pc' = [pc EXCEPT ![s] = "asked"]
    /\ request' = [request EXCEPT ![s] = [op |-> op, old |-> old, new |-> new]]
    /\ UNCHANGED trades

AskCreate(s) ==
    \E n \in 1 .. MaxCreates, account \in Accounts, day \in Day, body \in Bodies :
        IsNow(n) /\ Ask(s, "create", {}, {Row(<<n, account>>, account, day, body)})

\* Mutant of Holders: a split without an account goes to one account that holds units.
AHolder(rows) == LET holders == {a \in Traded(rows) : Units(a, rows) > 0}
                 IN  IF holders = {} THEN {} ELSE {Only(holders)}

Holders(rows) == {a \in Traded(rows) : Units(a, rows) > 0}

\* A split without an account: one row for each account that holds units now.
AskFanOut(s) ==
    /\ \A a \in Traded(trades) : ~Oversold(a, trades)
    /\ Holders(trades) # {}
    /\ \E n \in 1 .. MaxCreates, day \in Day, ratio \in Ratios :
         LET body == [type |-> "split", quantity |-> 0, ratio |-> ratio]
         IN  /\ IsNow(n)
             /\ Ask(s, "fanOut", {}, {Row(<<n, a>>, a, day, body) : a \in Holders(trades)})

\* An edit that changes nothing writes nothing.
AskUpdate(s) ==
    \E t \in trades, account \in Accounts, day \in Day, body \in Bodies :
        /\ Row(t.id, account, day, body) # t
        /\ Ask(s, "update", {t}, {Row(t.id, account, day, body)})

AskDelete(s) ==
    \E t \in trades : Ask(s, "delete", {t}, {})
-------------------------------------------------------------------------------
(* The flush and the replay *)

\* NUMERIC(19, 8) keeps the nearest storable quantity, halves away from zero.
Rounded(quantity) ==
    IF quantity >= 0 THEN ((2 * quantity + Quantum) \div (2 * Quantum)) * Quantum
    ELSE -(((Quantum - 2 * quantity) \div (2 * Quantum)) * Quantum)

Stored(t) == [t EXCEPT !.quantity = Rounded(@)]

\* An UPDATE names the columns the session changed.
Column(stored, old, new) == IF new = old THEN stored ELSE new

Merge(row, old, new) ==
    [id |-> row.id,
     account |-> Column(row.account, old.account, new.account),
     day |-> Column(row.day, old.day, new.day),
     type |-> Column(row.type, old.type, new.type),
     quantity |-> IF new.quantity = old.quantity THEN row.quantity ELSE Rounded(new.quantity),
     ratio |-> Column(row.ratio, old.ratio, new.ratio)]

\* Mutant of Changed: an edit is saved as one more row.
ChangedBeside(s) == (trades \ IF request[s].op = "delete" THEN request[s].old ELSE {})
                      \cup {Stored(t) : t \in request[s].new}

\* The log once the session's change is written.
Changed(s) ==
    CASE request[s].op \in {"create", "fanOut"} -> trades \cup {Stored(t) : t \in request[s].new}
      [] request[s].op = "update" ->
           {IF \E old \in request[s].old : old.id = row.id
            THEN Merge(row, Only(request[s].old), Only(request[s].new))
            ELSE row : row \in trades}
      [] request[s].op = "delete" -> {row \in trades : \A old \in request[s].old : old.id # row.id}

\* The object the session holds of a row, in the row's place of the replay order.
Object(s, row) ==
    LET held == {t \in request[s].new : t.id = row.id}
    IN  IF held = {} THEN row ELSE [Only(held) EXCEPT !.day = row.day]

\* Mutant of Replayed: the replay runs before the change is flushed.
ReplayedBefore(s) == trades

\* What the session's replay reads.
Replayed(s) == {Object(s, row) : row \in Changed(s)}

Accepted(s) == \A a \in Traded(Replayed(s)) : ~Oversold(a, Replayed(s))

\* The row is gone: an UPDATE that matches none raises StaleDataError.
Gone(s) == request[s].op = "update" /\ \A old \in request[s].old, row \in trades : old.id # row.id

\* Another session has written the row and not committed yet.
Locked(s) ==
    \E u \in Sessions \ {s} : pc[u] = "validated" /\
        \E mine \in request[s].old, other \in request[u].old : mine.id = other.id

Validate(s) ==
    /\ pc[s] = "asked"
    /\ ~Locked(s) /\ ~Gone(s) /\ Accepted(s)
    /\ pc' = [pc EXCEPT ![s] = "validated"]
    /\ UNCHANGED <<trades, request>>

Refuse(s) ==
    /\ pc[s] = "asked"
    /\ ~Locked(s) /\ (Gone(s) \/ ~Accepted(s))
    /\ pc' = [pc EXCEPT ![s] = "idle"]
    /\ request' = [request EXCEPT ![s] = NoRequest]
    /\ UNCHANGED trades

Commit(s) ==
    /\ pc[s] = "validated"
    /\ trades' = Changed(s)
    /\ pc' = [pc EXCEPT ![s] = "idle"]
    /\ request' = [request EXCEPT ![s] = NoRequest]

SessionStep(s) ==
    \/ AskCreate(s) \/ AskFanOut(s) \/ AskUpdate(s) \/ AskDelete(s)
    \/ Validate(s) \/ Refuse(s) \/ Commit(s)

Next == \E s \in Sessions : SessionStep(s)

Spec == Init /\ [][Next]_vars
-------------------------------------------------------------------------------
(* Properties *)

TradeRow == [id : Nat \X Accounts, account : Accounts, day : Day,
             type : {"buy", "sell", "split"}, quantity : Int,
             ratio : {"double", "halve", "zero", "none"}]

RequestType == [op : {"none", "create", "fanOut", "update", "delete"},
                old : SUBSET TradeRow, new : SUBSET TradeRow]

\* The type invariant; an id names one row.
TypeOK ==
    /\ trades \in SUBSET TradeRow
    /\ \A t, u \in trades : t.id = u.id => t = u
    /\ pc \in [Sessions -> {"idle", "asked", "validated"}]
    /\ request \in [Sessions -> RequestType]

\* "An edit or delete that would leave a sell selling more units than were ever held is
\* rejected": the committed log always replays.
LogReplays == \A a \in Traded(trades) : ~Oversold(a, trades)

\* "Every sell this function ever sees has enough recorded units": where the average-cost
\* replay goes through, the FIFO replay finds lots for every sell and the same units remain.
ReplaysAgree ==
    \A a \in Traded(trades) : ~Oversold(a, trades) =>
        LET book == Lots(Of(a, trades))
        IN  ~book.short /\ LotUnits(book) = Units(a, trades)

\* A split entered without an account, dated after every trade, scales the units of every
\* account that holds the security and of no other.
SplitReachesHolders ==
    [][\A s \in Sessions : Commit(s) /\ request[s].op = "fanOut" =>
         \A t \in request[s].new :
            (\A u \in trades : u.day <= t.day) =>
               \A a \in Accounts : Units(a, trades') = Scaled(Units(a, trades), t.ratio)]_vars
===============================================================================
