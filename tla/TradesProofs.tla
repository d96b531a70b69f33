------------------------------ MODULE TradesProofs ------------------------------
(***************************************************************************)
(* What holds of Trades and CostBasis for any accounts, quantities,        *)
(* ratios, prices and bounds.  That the log replays needs nothing of what  *)
(* a replay computes: the log a session validates is the log its commit    *)
(* leaves behind.  That the two methods agree, in units and in money, and  *)
(* what a split does to a position, follow the replays trade by trade.     *)
(***************************************************************************)
EXTENDS CostBasis, FiniteSetTheorems, WellFoundedInduction, TLAPS

Creates == {"create", "fanOut"}

\* What a request holds, by its operation.
Wellformed(r) ==
    \/ r.op = "none" /\ r.old = {} /\ r.new = {}
    \/ r.op \in Creates /\ r.old = {} /\ \A t, u \in r.new : t.id = u.id => t = u
    \/ r.op = "update" /\ \E o \in r.old, n \in r.new : r.old = {o} /\ r.new = {n} /\ n.id = o.id
    \/ r.op = "delete" /\ r.new = {}

\* The rows that sessions are about to insert are new, to the log and to one another.
NewIdsAreNew ==
    \A s \in Sessions : request[s].op \in Creates => \A t \in request[s].new :
       /\ \A row \in trades : row.id # t.id
       /\ \A u \in Sessions \ {s} : request[u].op \in Creates =>
             \A v \in request[u].new : v.id # t.id

AskedIsBusy == \A s \in Sessions : request[s].op = "none" => pc[s] = "idle"

TypeInvariant ==
    /\ TypeOK
    /\ AskedIsBusy
    /\ NewIdsAreNew
    /\ \A s \in Sessions : Wellformed(request[s])
-------------------------------------------------------------------------------
LEMMA OnlyOne == ASSUME NEW x PROVE Only({x}) = x
BY DEF Only

LEMMA RoundedType == ASSUME NEW q \in Int PROVE Rounded(q) \in Int
<1>1. Quantum \in Nat \ {0}
  BY AmountsAssumption
<1>2. 2 * Quantum \in Nat \ {0} /\ 2 * q + Quantum \in Int /\ Quantum - 2 * q \in Int
  BY <1>1
<1>3. (2 * q + Quantum) \div (2 * Quantum) \in Int /\ (Quantum - 2 * q) \div (2 * Quantum) \in Int
  BY <1>2
<1>4. QED
  BY <1>1, <1>3 DEF Rounded

LEMMA StoredType ==
  ASSUME NEW t \in TradeRow
  PROVE  Stored(t) \in TradeRow /\ Stored(t).id = t.id
BY RoundedType DEF Stored, TradeRow

LEMMA MergeType ==
  ASSUME NEW row \in TradeRow, NEW old \in TradeRow, NEW new \in TradeRow
  PROVE  Merge(row, old, new) \in TradeRow /\ Merge(row, old, new).id = row.id
BY RoundedType DEF Merge, Column, TradeRow

LEMMA RowType ==
  ASSUME NEW id \in Nat \X Accounts, NEW account \in Accounts, NEW day \in Day,
         NEW body, \/ body \in Bodies
                   \/ \E ratio \in Ratios : body = [type |-> "split", quantity |-> 0, ratio |-> ratio]
  PROVE  Row(id, account, day, body) \in TradeRow /\ Row(id, account, day, body).id = id
<1>1. /\ body.type \in {"buy", "sell", "split"} /\ body.quantity \in Int
      /\ body.ratio \in {"double", "halve", "zero", "none"}
  <2>1. CASE body \in [type : {"buy", "sell"}, quantity : Amounts, ratio : {"none"}]
    <3>1. body.type \in {"buy", "sell"} /\ body.quantity \in Amounts /\ body.ratio \in {"none"}
      BY <2>1
    <3>2. QED
      BY <3>1, AmountsAssumption
  <2>2. CASE body \in [type : {"split"}, quantity : {0}, ratio : Ratios]
    <3>1. body.type = "split" /\ body.quantity = 0 /\ body.ratio \in Ratios
      BY <2>2
    <3>2. body.ratio \in {"double", "halve", "zero", "none"}
      BY <3>1, RatiosAssumption
    <3>3. QED
      BY <3>1, <3>2
  <2>3. CASE \E ratio \in Ratios : body = [type |-> "split", quantity |-> 0, ratio |-> ratio]
    <3>1. PICK ratio \in Ratios : body = [type |-> "split", quantity |-> 0, ratio |-> ratio]
      BY <2>3
    <3>2. QED
      BY <3>1, RatiosAssumption
  <2>4. QED
    BY <2>1, <2>2, <2>3 DEF Bodies
<1> DEFINE type == body.type
           quantity == body.quantity
           ratio == body.ratio
<1>2. Row(id, account, day, body) = [id |-> id, account |-> account, day |-> day,
                                     type |-> type, quantity |-> quantity, ratio |-> ratio]
  BY DEF Row
<1> HIDE DEF type, quantity, ratio
<1>3. type \in {"buy", "sell", "split"} /\ quantity \in Int
      /\ ratio \in {"double", "halve", "zero", "none"}
  BY <1>1 DEF type, quantity, ratio
<1>4. QED
  BY <1>2, <1>3 DEF TradeRow

\* The log a change leaves has rows, and an id still names one of them.
LEMMA ChangedType ==
  ASSUME TypeInvariant, NEW s \in Sessions, request[s].op # "none"
  PROVE  /\ Changed(s) \in SUBSET TradeRow
         /\ \A t, u \in Changed(s) : t.id = u.id => t = u
         /\ \A t \in Changed(s) : \/ \E row \in trades : row.id = t.id
                                  \/ request[s].op \in Creates /\ \E n \in request[s].new : n.id = t.id
<1> DEFINE r == request[s]
<1>1. /\ trades \in SUBSET TradeRow /\ r.old \in SUBSET TradeRow /\ r.new \in SUBSET TradeRow
      /\ \A t, u \in trades : t.id = u.id => t = u
      /\ Wellformed(r)
  BY DEF TypeInvariant, TypeOK, RequestType
<1>2. CASE r.op \in Creates
  <2>1. Changed(s) = trades \cup {Stored(t) : t \in r.new}
    BY <1>2 DEF Changed, Creates
  <2>2. \A t \in r.new : Stored(t) \in TradeRow /\ Stored(t).id = t.id
    BY <1>1, StoredType
  <2>3. \A t, u \in r.new : t.id = u.id => t = u
    BY <1>1, <1>2 DEF Wellformed, Creates
  <2>4. \A t \in r.new, row \in trades : row.id # t.id
    BY <1>2 DEF TypeInvariant, NewIdsAreNew
  <2> HIDE DEF r
  <2>5. QED
    BY <1>1, <1>2, <2>1, <2>2, <2>3, <2>4 DEF r
<1>3. CASE r.op = "update"
  <2>1. PICK o \in r.old, n \in r.new : r.old = {o} /\ r.new = {n}
    BY <1>1, <1>3 DEF Wellformed, Creates
  <2>2. Changed(s) = {IF o.id = row.id THEN Merge(row, o, n) ELSE row : row \in trades}
    <3>1. Only(r.old) = o /\ Only(r.new) = n
      BY <2>1, OnlyOne
    <3>2. \A row \in trades : (\E old \in r.old : old.id = row.id) <=> o.id = row.id
      BY <2>1
    <3>3. Changed(s) = {IF \E old \in r.old : old.id = row.id
                        THEN Merge(row, Only(r.old), Only(r.new)) ELSE row : row \in trades}
      BY <1>3 DEF Changed
    <3> HIDE DEF r
    <3>4. QED
      BY <3>1, <3>2, <3>3
  <2>3. \A row \in trades : Merge(row, o, n) \in TradeRow /\ Merge(row, o, n).id = row.id
    BY <1>1, <2>1, MergeType
  <2>4. QED
    BY <1>1, <2>2, <2>3
<1>4. CASE r.op = "delete"
  BY <1>1, <1>4 DEF Changed
<1>5. QED
  BY <1>1, <1>2, <1>3, <1>4 DEF Wellformed
-------------------------------------------------------------------------------
\* A session's new request keeps everything in shape.
LEMMA AskStep ==
  ASSUME TypeInvariant, NEW s \in Sessions, NEW op \in {"create", "fanOut", "update", "delete"},
         NEW old \in SUBSET TradeRow, NEW new \in SUBSET TradeRow, Ask(s, op, old, new),
         Wellformed([op |-> op, old |-> old, new |-> new]),
         op \in Creates => \A t \in new :
            /\ \A row \in trades : row.id # t.id
            /\ \A u \in Sessions : \A v \in request[u].new : v.id # t.id
  PROVE  TypeInvariant'
<1> DEFINE r == [op |-> op, old |-> old, new |-> new]
<1>1. /\ request' = [request EXCEPT ![s] = r] /\ trades' = trades
      /\ pc' = [pc EXCEPT ![s] = "asked"]
  BY DEF Ask
<1>2. r \in RequestType /\ r.op = op /\ r.new = new /\ Wellformed(r)
  BY DEF RequestType
<1> HIDE DEF r
<1>3. TypeOK'
  BY <1>1, <1>2 DEF TypeInvariant, TypeOK
<1>4. \A u \in Sessions : request'[u] = IF u = s THEN r ELSE request[u]
  BY <1>1 DEF TypeInvariant, TypeOK
<1>5. NewIdsAreNew'
  BY <1>1, <1>2, <1>4 DEF TypeInvariant, NewIdsAreNew
<1>6. \A u \in Sessions : Wellformed(request'[u])
  BY <1>2, <1>4 DEF TypeInvariant
<1>7. AskedIsBusy'
  BY <1>1, <1>2, <1>4 DEF TypeInvariant, TypeOK, AskedIsBusy
<1>8. QED
  BY <1>3, <1>5, <1>6, <1>7 DEF TypeInvariant

\* Dropping a session's request, whatever the others hold, keeps the requests in shape.
LEMMA DropStep ==
  ASSUME TypeInvariant, NEW s \in Sessions,
         pc' = [pc EXCEPT ![s] = "idle"], request' = [request EXCEPT ![s] = NoRequest],
         trades' \in SUBSET TradeRow, \A t, u \in trades' : t.id = u.id => t = u,
         \A t \in trades' : \/ \E row \in trades : row.id = t.id
                            \/ request[s].op \in Creates /\ \E n \in request[s].new : n.id = t.id
  PROVE  TypeInvariant'
<1>1. NoRequest \in RequestType /\ Wellformed(NoRequest) /\ NoRequest.op \notin Creates
  BY DEF NoRequest, RequestType, Wellformed, Creates
<1>2. TypeOK'
  BY <1>1 DEF TypeInvariant, TypeOK
<1>3. \A u \in Sessions : request'[u] = IF u = s THEN NoRequest ELSE request[u]
  BY DEF TypeInvariant, TypeOK
<1>4. NewIdsAreNew'
  <2> SUFFICES ASSUME NEW u \in Sessions, request'[u].op \in Creates, NEW t \in request'[u].new
               PROVE  /\ \A row \in trades' : row.id # t.id
                      /\ \A v \in Sessions \ {u} : request'[v].op \in Creates =>
                            \A w \in request'[v].new : w.id # t.id
    BY DEF NewIdsAreNew
  <2>1. u # s /\ request'[u] = request[u]
    BY <1>1, <1>3
  <2>2. /\ \A row \in trades : row.id # t.id
        /\ \A v \in Sessions \ {u} : request[v].op \in Creates =>
              \A w \in request[v].new : w.id # t.id
    BY <2>1 DEF TypeInvariant, NewIdsAreNew
  <2>3. \A row \in trades' : row.id # t.id
    BY <2>1, <2>2
  <2>4. QED
    BY <1>1, <1>3, <2>2, <2>3
<1>5. \A u \in Sessions : Wellformed(request'[u])
  BY <1>1, <1>3 DEF TypeInvariant
<1>6. AskedIsBusy'
  BY <1>3 DEF TypeInvariant, TypeOK, AskedIsBusy
<1>7. QED
  BY <1>2, <1>4, <1>5, <1>6 DEF TypeInvariant

\* A new row's id is later than that of every row and every object that a session holds.
LEMMA NowIsNew ==
  ASSUME NEW n \in Nat, IsNow(n)
  PROVE  /\ \A row \in trades, a \in Accounts : row.id # <<n, a>>
         /\ \A u \in Sessions : \A v \in request[u].new, a \in Accounts : v.id # <<n, a>>
<1>1. /\ \A row \in trades : row.id[1] < n
      /\ \A u \in Sessions : \A v \in request[u].new : v.id[1] < n
  BY DEF IsNow
<1>2. \A a \in Accounts : ~(<<n, a>>[1] < n)
  OBVIOUS
<1>3. QED
  BY <1>1, <1>2

LEMMA StepType == TypeInvariant /\ [Next]_vars => TypeInvariant'
<1> SUFFICES ASSUME TypeInvariant, [Next]_vars PROVE TypeInvariant'
  OBVIOUS
<1>1. CASE UNCHANGED vars
  BY <1>1 DEF vars, TypeInvariant, TypeOK, NewIdsAreNew, AskedIsBusy
<1>2. ASSUME NEW s \in Sessions, AskCreate(s) PROVE TypeInvariant'
  <2>1. PICK n \in 1 .. MaxCreates, account \in Accounts, day \in Day, body \in Bodies :
          IsNow(n) /\ Ask(s, "create", {}, {Row(<<n, account>>, account, day, body)})
    BY <1>2 DEF AskCreate
  <2> DEFINE row == Row(<<n, account>>, account, day, body)
  <2>2. n \in Nat /\ <<n, account>> \in Nat \X Accounts
    BY BoundsAssumption
  <2>3. row \in TradeRow /\ row.id = <<n, account>>
    BY <2>2, RowType
  <2> HIDE DEF row
  <2>4. /\ \A other \in trades : other.id # row.id
        /\ \A u \in Sessions : \A v \in request[u].new : v.id # row.id
    BY <2>1, <2>2, <2>3, NowIsNew
  <2>5. Ask(s, "create", {}, {row})
    BY <2>1 DEF row
  <2>6. Wellformed([op |-> "create", old |-> {}, new |-> {row}])
    BY DEF Wellformed, Creates
  <2>7. \A t \in {row} : /\ \A other \in trades : other.id # t.id
                         /\ \A u \in Sessions : \A v \in request[u].new : v.id # t.id
    BY <2>4
  <2>8. {row} \in SUBSET TradeRow /\ {} \in SUBSET TradeRow
    BY <2>3
  <2>9. QED
    BY <2>5, <2>6, <2>7, <2>8, AskStep
<1>3. ASSUME NEW s \in Sessions, AskFanOut(s) PROVE TypeInvariant'
  <2>1. PICK n \in 1 .. MaxCreates, day \in Day, ratio \in Ratios :
          /\ IsNow(n)
          /\ Ask(s, "fanOut", {},
                 {Row(<<n, a>>, a, day, [type |-> "split", quantity |-> 0, ratio |-> ratio])
                    : a \in Holders(trades)})
    BY <1>3 DEF AskFanOut
  <2> DEFINE row(a) == Row(<<n, a>>, a, day, [type |-> "split", quantity |-> 0, ratio |-> ratio])
             rows == {row(a) : a \in Holders(trades)}
  <2>2. Holders(trades) \subseteq Accounts
    BY DEF Holders, Traded, TypeInvariant, TypeOK, TradeRow
  <2>3. n \in Nat /\ \A a \in Accounts : <<n, a>> \in Nat \X Accounts
    BY BoundsAssumption
  <2>4. \A a \in Accounts : row(a) \in TradeRow /\ row(a).id = <<n, a>>
    BY <2>3, RowType
  <2> HIDE DEF row
  <2>5. rows \in SUBSET TradeRow
    BY <2>2, <2>4
  <2>6. \A t, u \in rows : t.id = u.id => t = u
    BY <2>2, <2>4
  <2>7. \A t \in rows : /\ \A other \in trades : other.id # t.id
                        /\ \A u \in Sessions : \A v \in request[u].new : v.id # t.id
    BY <2>1, <2>2, <2>3, <2>4, NowIsNew
  <2>8. Ask(s, "fanOut", {}, rows)
    BY <2>1 DEF row
  <2> HIDE DEF rows
  <2>9. Wellformed([op |-> "fanOut", old |-> {}, new |-> rows])
    BY <2>6 DEF Wellformed, Creates
  <2>10. QED
    BY <2>5, <2>7, <2>8, <2>9, AskStep
<1>4. ASSUME NEW s \in Sessions, AskUpdate(s) PROVE TypeInvariant'
  <2>1. PICK t \in trades, account \in Accounts, day \in Day, body \in Bodies :
          Ask(s, "update", {t}, {Row(t.id, account, day, body)})
    BY <1>4 DEF AskUpdate
  <2> DEFINE row == Row(t.id, account, day, body)
  <2>2. t \in TradeRow /\ t.id \in Nat \X Accounts
    BY DEF TypeInvariant, TypeOK, TradeRow
  <2>3. row \in TradeRow /\ row.id = t.id
    BY <2>2, RowType
  <2>4. Ask(s, "update", {t}, {row})
    BY <2>1
  <2> HIDE DEF row
  <2>5. Wellformed([op |-> "update", old |-> {t}, new |-> {row}])
    BY <2>3 DEF Wellformed, Creates
  <2>6. "update" \notin Creates
    BY DEF Creates
  <2>7. QED
    BY <2>2, <2>3, <2>4, <2>5, <2>6, AskStep
<1>5. ASSUME NEW s \in Sessions, AskDelete(s) PROVE TypeInvariant'
  <2>1. PICK t \in trades : Ask(s, "delete", {t}, {})
    BY <1>5 DEF AskDelete
  <2>2. t \in TradeRow
    BY DEF TypeInvariant, TypeOK
  <2>3. Wellformed([op |-> "delete", old |-> {t}, new |-> {}])
    BY DEF Wellformed, Creates
  <2>4. "delete" \notin Creates
    BY DEF Creates
  <2>5. QED
    BY <2>1, <2>2, <2>3, <2>4, AskStep
<1>6. ASSUME NEW s \in Sessions, Validate(s) PROVE TypeInvariant'
  BY <1>6 DEF Validate, TypeInvariant, TypeOK, NewIdsAreNew, AskedIsBusy
<1>7. ASSUME NEW s \in Sessions, Refuse(s) PROVE TypeInvariant'
  <2>1. trades' \in SUBSET TradeRow /\ \A t, u \in trades' : t.id = u.id => t = u
    BY <1>7 DEF Refuse, TypeInvariant, TypeOK
  <2>2. \A t \in trades' : \E row \in trades : row.id = t.id
    BY <1>7 DEF Refuse
  <2>3. QED
    BY <1>7, <2>1, <2>2, DropStep DEF Refuse
<1>8. ASSUME NEW s \in Sessions, Commit(s) PROVE TypeInvariant'
  <2>1. request[s].op # "none"
    BY <1>8 DEF Commit, TypeInvariant, AskedIsBusy
  <2>2. /\ trades' \in SUBSET TradeRow
        /\ \A t, u \in trades' : t.id = u.id => t = u
        /\ \A t \in trades' : \/ \E row \in trades : row.id = t.id
                              \/ request[s].op \in Creates /\ \E n \in request[s].new : n.id = t.id
    BY <1>8, <2>1, ChangedType DEF Commit
  <2>3. QED
    BY <1>8, <2>2, DropStep DEF Commit
<1>9. QED
  BY <1>1, <1>2, <1>3, <1>4, <1>5, <1>6, <1>7, <1>8 DEF Next, SessionStep

LEMMA TypeInvariantHolds == Spec => []TypeInvariant
<1>1. Init => TypeInvariant
  BY DEF Init, TypeInvariant, TypeOK, AskedIsBusy, NewIdsAreNew, Wellformed, NoRequest,
         RequestType, Creates
<1>2. QED
  BY <1>1, StepType, PTL DEF Spec

\* The log is a set of rows and an id names one of them, for any accounts and any number of
\* sessions that create, edit and delete the same rows.
THEOREM TypeCorrect == Spec => []TypeOK
<1>1. TypeInvariant => TypeOK
  BY DEF TypeInvariant
<1>2. QED
  BY <1>1, TypeInvariantHolds, PTL
-------------------------------------------------------------------------------
(* One session at a time, and quantities that the column stores as they are *)

OneAtATime == \A s, u \in Sessions : s = u

ExactAmounts == \A q \in Amounts \cup {0} : Rounded(q) = q

\* What a session holds is the log as it is, and what it has validated replays.
HeldIsCurrent ==
    \A s \in Sessions : pc[s] # "idle" =>
       /\ request[s].old \subseteq trades
       /\ \A t \in request[s].new : Rounded(t.quantity) = t.quantity

ValidatedReplays == \A s \in Sessions : pc[s] = "validated" => Accepted(s)

LogInvariant == TypeInvariant /\ HeldIsCurrent /\ ValidatedReplays /\ LogReplays

\* With current rows and exact quantities the session's objects are the rows it writes.
LEMMA ReplaysWhatItWrites ==
  ASSUME TypeInvariant, HeldIsCurrent, NEW s \in Sessions, pc[s] # "idle", request[s].op # "none"
  PROVE  Replayed(s) = Changed(s)
<1> DEFINE r == request[s]
<1>1. /\ trades \in SUBSET TradeRow /\ r.old \in SUBSET TradeRow /\ r.new \in SUBSET TradeRow
      /\ \A t, u \in trades : t.id = u.id => t = u
      /\ Wellformed(r)
  BY DEF TypeInvariant, TypeOK, RequestType
<1>2. r.old \subseteq trades /\ \A t \in r.new : Rounded(t.quantity) = t.quantity
  BY DEF HeldIsCurrent
<1>3. ASSUME NEW row, \A t \in r.new : t.id # row.id PROVE Object(s, row) = row
  <2>1. {t \in request[s].new : t.id = row.id} = {}
    BY <1>3
  <2>2. QED
    BY <2>1 DEF Object
<1>4. ASSUME NEW n \in r.new, \A t \in r.new : t.id = n.id => t = n PROVE Object(s, n) = n
  <2>1. {t \in request[s].new : t.id = n.id} = {n}
    BY <1>4
  <2>2. Object(s, n) = [n EXCEPT !.day = n.day]
    BY <2>1, OnlyOne DEF Object
  <2>3. n \in TradeRow
    BY <1>1
  <2>4. QED
    BY <2>2, <2>3 DEF TradeRow
<1> SUFFICES ASSUME NEW row \in Changed(s) PROVE Object(s, row) = row
  BY DEF Replayed
<1>5. CASE r.op \in Creates
  <2>1. Changed(s) = trades \cup {Stored(t) : t \in r.new}
    BY <1>5 DEF Changed, Creates
  <2>2. \A t \in r.new : Stored(t) = t
    BY <1>1, <1>2 DEF Stored, TradeRow
  <2>3. \A t, u \in r.new : t.id = u.id => t = u
    BY <1>1, <1>5 DEF Wellformed, Creates
  <2>4. \A t \in r.new, other \in trades : other.id # t.id
    BY <1>5 DEF TypeInvariant, NewIdsAreNew
  <2>5. row \in trades \/ row \in r.new
    BY <2>1, <2>2
  <2>6. CASE row \in trades
    BY <1>3, <2>4, <2>6
  <2>7. CASE row \in r.new
    BY <1>4, <2>3, <2>7
  <2>8. QED
    BY <2>5, <2>6, <2>7
<1>6. CASE r.op = "update"
  <2>1. PICK o \in r.old, n \in r.new : r.old = {o} /\ r.new = {n} /\ n.id = o.id
    BY <1>1, <1>6 DEF Wellformed, Creates
  <2>2. PICK x \in trades : row = IF o.id = x.id THEN Merge(x, o, n) ELSE x
    <3>1. Only(r.old) = o /\ Only(r.new) = n
      BY <2>1, OnlyOne
    <3>2. row \in {IF \E old \in r.old : old.id = x.id
                   THEN Merge(x, Only(r.old), Only(r.new)) ELSE x : x \in trades}
      BY <1>6 DEF Changed
    <3> HIDE DEF r
    <3>3. QED
      BY <2>1, <3>1, <3>2
  <2>3. CASE o.id = x.id
    <3>1. x = o /\ o \in TradeRow /\ n \in TradeRow
      BY <1>1, <1>2, <2>1, <2>3
    <3>2. Rounded(n.quantity) = n.quantity
      BY <1>2, <2>1
    <3>3. Merge(o, o, n) = [id |-> n.id, account |-> n.account, day |-> n.day, type |-> n.type,
                            quantity |-> n.quantity, ratio |-> n.ratio]
      BY <2>1, <3>2 DEF Merge, Column
    <3>4. Merge(o, o, n) = n
      BY <3>1, <3>3 DEF TradeRow
    <3>5. QED
      BY <1>4, <2>1, <2>2, <2>3, <3>1, <3>4
  <2>4. CASE o.id # x.id
    BY <1>3, <2>1, <2>2, <2>4
  <2>5. QED
    BY <2>3, <2>4
<1>7. CASE r.op = "delete"
  <2>1. r.new = {}
    BY <1>1, <1>7 DEF Wellformed, Creates
  <2>2. QED
    BY <1>3, <2>1
<1>8. QED
  BY <1>1, <1>5, <1>6, <1>7 DEF Wellformed

LEMMA BodyIsExact ==
  ASSUME ExactAmounts, NEW id, NEW account, NEW day, NEW body \in Bodies
  PROVE  Rounded(Row(id, account, day, body).quantity) = Row(id, account, day, body).quantity
<1>1. body.quantity \in Amounts \cup {0}
  BY DEF Bodies
<1>2. QED
  BY <1>1 DEF Row, ExactAmounts

\* A new request holds rows of the log and exact quantities.
LEMMA AskKeepsLog ==
  ASSUME OneAtATime, LogInvariant, NEW s \in Sessions, NEW op, NEW old, NEW new,
         Ask(s, op, old, new), old \subseteq trades, \A t \in new : Rounded(t.quantity) = t.quantity
  PROVE  HeldIsCurrent' /\ ValidatedReplays' /\ LogReplays'
<1>1. /\ trades' = trades /\ pc'[s] = "asked"
      /\ request'[s].old = old /\ request'[s].new = new
  BY DEF Ask, LogInvariant, TypeInvariant, TypeOK
<1>2. \A u \in Sessions : u = s
  BY DEF OneAtATime
<1>3. HeldIsCurrent'
  BY <1>1, <1>2 DEF HeldIsCurrent
<1>4. ValidatedReplays'
  BY <1>1, <1>2 DEF ValidatedReplays
<1>5. LogReplays'
  BY <1>1 DEF LogInvariant, LogReplays
<1>6. QED
  BY <1>3, <1>4, <1>5

LEMMA SameLogSameVerdict ==
  ASSUME UNCHANGED <<trades, request>>, NEW s \in Sessions
  PROVE  Accepted(s)' = Accepted(s)
<1>1. Changed(s)' = Changed(s)
  BY DEF Changed
<1>2. Replayed(s)' = Replayed(s)
  BY <1>1 DEF Replayed, Object
<1>3. QED
  BY <1>2 DEF Accepted

LEMMA LogStep ==
  ASSUME OneAtATime, ExactAmounts, LogInvariant, Next
  PROVE  HeldIsCurrent' /\ ValidatedReplays' /\ LogReplays'
<1>1. ASSUME NEW s \in Sessions, AskCreate(s)
      PROVE  HeldIsCurrent' /\ ValidatedReplays' /\ LogReplays'
  <2>1. PICK n \in 1 .. MaxCreates, account \in Accounts, day \in Day, body \in Bodies :
          Ask(s, "create", {}, {Row(<<n, account>>, account, day, body)})
    BY <1>1 DEF AskCreate
  <2> DEFINE row == Row(<<n, account>>, account, day, body)
  <2>2. Rounded(row.quantity) = row.quantity
    BY BodyIsExact
  <2>3. Ask(s, "create", {}, {row})
    BY <2>1
  <2> HIDE DEF row
  <2>4. {} \subseteq trades /\ \A t \in {row} : Rounded(t.quantity) = t.quantity
    BY <2>2
  <2>5. QED
    BY <2>3, <2>4, AskKeepsLog
<1>2. ASSUME NEW s \in Sessions, AskFanOut(s)
      PROVE  HeldIsCurrent' /\ ValidatedReplays' /\ LogReplays'
  <2>1. PICK n \in 1 .. MaxCreates, day \in Day, ratio \in Ratios :
          Ask(s, "fanOut", {},
              {Row(<<n, a>>, a, day, [type |-> "split", quantity |-> 0, ratio |-> ratio])
                 : a \in Holders(trades)})
    BY <1>2 DEF AskFanOut
  <2> DEFINE row(a) == Row(<<n, a>>, a, day, [type |-> "split", quantity |-> 0, ratio |-> ratio])
             rows == {row(a) : a \in Holders(trades)}
  <2>2. \A a : row(a).quantity = 0
    BY DEF Row
  <2>3. Rounded(0) = 0
    BY DEF ExactAmounts
  <2>4. Ask(s, "fanOut", {}, rows)
    BY <2>1
  <2> HIDE DEF row
  <2>5. {} \subseteq trades /\ \A t \in rows : Rounded(t.quantity) = t.quantity
    BY <2>2, <2>3
  <2> HIDE DEF rows
  <2>6. QED
    BY <2>4, <2>5, AskKeepsLog
<1>3. ASSUME NEW s \in Sessions, AskUpdate(s)
      PROVE  HeldIsCurrent' /\ ValidatedReplays' /\ LogReplays'
  <2>1. PICK t \in trades, account \in Accounts, day \in Day, body \in Bodies :
          Ask(s, "update", {t}, {Row(t.id, account, day, body)})
    BY <1>3 DEF AskUpdate
  <2> DEFINE row == Row(t.id, account, day, body)
  <2>2. Rounded(row.quantity) = row.quantity
    BY BodyIsExact
  <2>3. Ask(s, "update", {t}, {row})
    BY <2>1
  <2> HIDE DEF row
  <2>4. {t} \subseteq trades /\ \A u \in {row} : Rounded(u.quantity) = u.quantity
    BY <2>1, <2>2
  <2>5. QED
    BY <2>3, <2>4, AskKeepsLog
<1>4. ASSUME NEW s \in Sessions, AskDelete(s)
      PROVE  HeldIsCurrent' /\ ValidatedReplays' /\ LogReplays'
  <2>1. PICK t \in trades : Ask(s, "delete", {t}, {})
    BY <1>4 DEF AskDelete
  <2>2. QED
    BY <2>1, AskKeepsLog
<1>5. ASSUME NEW s \in Sessions, Validate(s)
      PROVE  HeldIsCurrent' /\ ValidatedReplays' /\ LogReplays'
  <2>1. UNCHANGED <<trades, request>> /\ Accepted(s) /\ pc[s] # "idle"
    BY <1>5 DEF Validate
  <2>2. Accepted(s)'
    BY <2>1, SameLogSameVerdict
  <2>3. \A u \in Sessions : u = s
    BY DEF OneAtATime
  <2>4. ValidatedReplays'
    BY <2>2, <2>3 DEF ValidatedReplays
  <2>5. HeldIsCurrent'
    BY <2>1, <2>3 DEF LogInvariant, HeldIsCurrent
  <2>6. QED
    BY <2>1, <2>4, <2>5 DEF LogInvariant, LogReplays
<1>6. ASSUME NEW s \in Sessions, pc' = [pc EXCEPT ![s] = "idle"]
      PROVE  HeldIsCurrent' /\ ValidatedReplays'
  <2>1. \A u \in Sessions : pc'[u] = "idle"
    BY <1>6 DEF OneAtATime, LogInvariant, TypeInvariant, TypeOK
  <2>2. QED
    BY <2>1 DEF HeldIsCurrent, ValidatedReplays
<1>7. ASSUME NEW s \in Sessions, Refuse(s) PROVE LogReplays'
  BY <1>7 DEF Refuse, LogInvariant, LogReplays
<1>8. ASSUME NEW s \in Sessions, Commit(s) PROVE LogReplays'
  <2>1. request[s].op # "none" /\ pc[s] # "idle" /\ Accepted(s) /\ trades' = Changed(s)
    BY <1>8 DEF Commit, LogInvariant, TypeInvariant, AskedIsBusy, ValidatedReplays
  <2>2. Replayed(s) = Changed(s)
    BY <2>1, ReplaysWhatItWrites DEF LogInvariant
  <2>3. QED
    BY <2>1, <2>2 DEF Accepted, LogReplays
<1>9. QED
  BY <1>1, <1>2, <1>3, <1>4, <1>5, <1>6, <1>7, <1>8 DEF Next, SessionStep, Refuse, Commit

LEMMA LogInit == Init => LogInvariant
<1>1. Init => TypeInvariant
  BY DEF Init, TypeInvariant, TypeOK, AskedIsBusy, NewIdsAreNew, Wellformed, NoRequest,
         RequestType, Creates
<1>2. QED
  BY <1>1 DEF Init, LogInvariant, HeldIsCurrent, ValidatedReplays, LogReplays, Traded

LEMMA LogKept ==
  ASSUME OneAtATime, ExactAmounts
  PROVE  LogInvariant /\ [Next]_vars => LogInvariant'
<1>1. ASSUME LogInvariant, UNCHANGED vars
      PROVE  HeldIsCurrent' /\ ValidatedReplays' /\ LogReplays'
  <2>1. \A s \in Sessions : Accepted(s)' = Accepted(s)
    BY <1>1, SameLogSameVerdict DEF vars
  <2>2. QED
    BY <1>1, <2>1 DEF vars, LogInvariant, HeldIsCurrent, ValidatedReplays, LogReplays
<1>2. QED
  BY <1>1, LogStep, StepType DEF LogInvariant

\* With one session at a time and quantities of at most eight decimals, every committed log
\* replays: no sell in it ever sells more units than were held.
THEOREM LogAlwaysReplays == OneAtATime /\ ExactAmounts => (Spec => []LogReplays)
<1> SUFFICES ASSUME OneAtATime, ExactAmounts PROVE Spec => []LogReplays
  OBVIOUS
<1>1. LogInvariant => LogReplays
  BY DEF LogInvariant
<1>2. LogInvariant /\ [Next]_vars => LogInvariant'
  BY LogKept
<1>3. QED
  BY <1>1, <1>2, LogInit, PTL DEF Spec
-------------------------------------------------------------------------------
(* Numbers and parts of finite sets *)

LEMMA NatMin ==
  ASSUME NEW T, T \subseteq Nat, T # {}
  PROVE  \E x \in T : \A y \in T : x <= y
<1> DEFINE R == OpToRel(<, Nat)
<1>1. PICK x \in T : \A y \in T : <<y, x>> \notin R
  BY NatLessThanWellFounded, WFMin
<1>2. \A m, n \in Nat : <<n, m>> \in R <=> n < m
  BY DEF OpToRel
<1> HIDE DEF R
<1>3. ASSUME NEW y \in T
      PROVE  x <= y
  <2>1. x \in Nat /\ y \in Nat /\ <<y, x>> \notin R
    BY <1>1
  <2>2. ~(y < x)
    BY <1>2, <2>1
  <2>3. QED
    BY <2>1, <2>2
<1>4. QED
  BY <1>3

\* Induction, with the property as the set of the numbers that have it.
LEMMA NatUp ==
  ASSUME NEW T, 0 \in T, \A n \in Nat : n \in T => n + 1 \in T
  PROVE  \A n \in Nat : n \in T
<1> DEFINE U == {n \in Nat : n \notin T}
<1>1. SUFFICES ASSUME U # {} PROVE FALSE
  OBVIOUS
<1>2. PICK m \in U : \A n \in U : m <= n
  <2>1. U \subseteq Nat
    OBVIOUS
  <2>2. QED
    BY <1>1, <2>1, NatMin
<1>3. m \in Nat /\ m \notin T /\ m # 0
  OBVIOUS
<1>4. m - 1 \in Nat /\ m - 1 \in T
  BY <1>2, <1>3
<1>5. (m - 1) + 1 \in T
  BY <1>4
<1>6. QED
  BY <1>3, <1>5

\* A finite set less a member.
LEMMA OneLess ==
  ASSUME NEW S, IsFiniteSet(S), NEW s \in SUBSET S, s # {}, NEW x \in s
  PROVE  /\ s \ {x} \in SUBSET S /\ IsFiniteSet(s) /\ IsFiniteSet(s \ {x})
         /\ Cardinality(s) \in Nat \ {0} /\ Cardinality(s \ {x}) = Cardinality(s) - 1
<1>1. IsFiniteSet(s)
  BY FS_Subset
<1>2. Cardinality(s) \in Nat /\ Cardinality(s) # 0
  BY <1>1, FS_CardinalityType, FS_EmptySet
<1>3. IsFiniteSet(s \ {x}) /\ Cardinality(s \ {x}) = Cardinality(s) - 1
  BY <1>1, FS_RemoveElement
<1>4. QED
  BY <1>1, <1>2, <1>3

LEMMA Sized ==
  ASSUME NEW S, IsFiniteSet(S), NEW s \in SUBSET S
  PROVE  /\ IsFiniteSet(s) /\ Cardinality(s) \in Nat /\ Cardinality(s) <= Cardinality(S)
         /\ Cardinality(s) = 0 <=> s = {}
<1>1. IsFiniteSet(s) /\ Cardinality(s) <= Cardinality(S)
  BY FS_Subset
<1>2. QED
  BY <1>1, FS_CardinalityType, FS_EmptySet

\* What is true of a part if it is of the part less each of its members is true of all parts of a
\* finite set; the property as the set of the parts that have it.
LEMMA PartsUp ==
  ASSUME NEW S, IsFiniteSet(S), NEW T, {} \in T,
         \A s \in SUBSET S : s # {} /\ (\A x \in s : s \ {x} \in T) => s \in T
  PROVE  \A s \in SUBSET S : s \in T
<1> DEFINE U == {n \in Nat : \A s \in SUBSET S : Cardinality(s) = n => s \in T}
<1>1. 0 \in U
  BY Sized
<1>2. ASSUME NEW n \in Nat, n \in U
      PROVE  n + 1 \in U
  <2>1. ASSUME NEW s \in SUBSET S, Cardinality(s) = n + 1
        PROVE  s \in T
    <3>1. s # {}
      BY <2>1, Sized
    <3>2. ASSUME NEW x \in s PROVE s \ {x} \in T
      <4>1. s \ {x} \in SUBSET S /\ Cardinality(s \ {x}) = Cardinality(s) - 1
        BY <3>1, OneLess
      <4>2. Cardinality(s \ {x}) = n
        BY <2>1, <4>1
      <4>3. QED
        BY <1>2, <4>1, <4>2
    <3>3. QED
      BY <3>1, <3>2
  <2>2. QED
    BY <2>1
<1>3. \A n \in Nat : n \in U
  <2> HIDE DEF U
  <2>1. QED
    BY <1>1, <1>2, NatUp
<1>4. ASSUME NEW s \in SUBSET S PROVE s \in T
  <2>1. Cardinality(s) \in Nat
    BY Sized
  <2>2. QED
    BY <1>3, <2>1
<1>5. QED
  BY <1>4
\* What comes before what in an order in which members may be level.
Levels(S, R) ==
    /\ \A x, y \in S : <<x, y>> \in R \/ <<y, x>> \in R
    /\ \A x, y, z \in S : <<x, y>> \in R /\ <<y, z>> \in R => <<x, z>> \in R

LEMMA LastOf ==
  ASSUME NEW S, IsFiniteSet(S), S # {}, NEW R, Levels(S, R)
  PROVE  \E x \in S : \A y \in S : <<y, x>> \in R
<1> DEFINE T == {s \in SUBSET S : s # {} => \E x \in s : \A y \in s : <<y, x>> \in R}
<1>1. {} \in T
  OBVIOUS
<1>2. ASSUME NEW s \in SUBSET S, s # {}, \A x \in s : s \ {x} \in T
      PROVE  s \in T
  <2>1. PICK z \in s : TRUE
    BY <1>2
  <2>2. z \in S /\ <<z, z>> \in R
    BY DEF Levels
  <2>3. CASE s \ {z} = {}
    BY <2>1, <2>2, <2>3
  <2>4. CASE s \ {z} # {}
    <3>1. PICK x \in s \ {z} : \A y \in s \ {z} : <<y, x>> \in R
      BY <1>2, <2>4
    <3>2. CASE <<z, x>> \in R
      BY <3>1, <3>2
    <3>3. CASE <<z, x>> \notin R
      <4>1. <<x, z>> \in R
        BY <2>2, <3>3 DEF Levels
      <4>2. \A y \in s : <<y, z>> \in R
        BY <2>2, <3>1, <4>1 DEF Levels
      <4>3. QED
        BY <4>2
    <3>4. QED
      BY <3>2, <3>3
  <2>5. QED
    BY <2>3, <2>4
<1> HIDE DEF T
<1>3. S \in T
  BY <1>1, <1>2, PartsUp
<1>4. QED
  BY <1>3 DEF T

LEMMA MaxIs ==
  ASSUME NEW S \in SUBSET Int, IsFiniteSet(S), S # {}
  PROVE  Max(S) \in S /\ \A x \in S : Max(S) >= x
<1> DEFINE R == {p \in S \X S : p[1] <= p[2]}
<1>1. \A x, y \in S : <<x, y>> \in R <=> x <= y
  OBVIOUS
<1> HIDE DEF R
<1>2. Levels(S, R)
  <2>1. \A x, y, z \in S : x <= y /\ y <= z => x <= z
    OBVIOUS
  <2>2. \A x, y \in S : x <= y \/ y <= x
    OBVIOUS
  <2>3. QED
    BY <1>1, <2>1, <2>2 DEF Levels
<1>3. PICK x \in S : \A y \in S : <<y, x>> \in R
  BY <1>2, LastOf
<1>4. \A y \in S : x >= y
  BY <1>1, <1>3
<1>5. QED
  BY <1>4 DEF Max

\* Rows that can be put in the order of a replay.
Dated(rows) == IsFiniteSet(rows) /\ \A t \in rows : t.day \in Int /\ t.id[1] \in Int

LEMMA LatestIs ==
  ASSUME NEW rows, Dated(rows), rows # {}
  PROVE  Latest(rows) \in rows /\ \A u \in rows : NotAfter(u, Latest(rows))
<1> DEFINE R == {p \in rows \X rows : NotAfter(p[1], p[2])}
<1>1. \A t, u \in rows : <<t, u>> \in R <=> NotAfter(t, u)
  OBVIOUS
<1>2. \A t \in rows : t.day \in Int /\ t.id[1] \in Int
  BY DEF Dated
<1> HIDE DEF R
<1>3. Levels(rows, R)
  <2>1. \A t, u \in rows : NotAfter(t, u) \/ NotAfter(u, t)
    BY <1>2 DEF NotAfter
  <2>2. \A t, u, v \in rows : NotAfter(t, u) /\ NotAfter(u, v) => NotAfter(t, v)
    BY <1>2 DEF NotAfter
  <2>3. QED
    BY <1>1, <2>1, <2>2 DEF Levels
<1>4. PICK t \in rows : \A u \in rows : <<u, t>> \in R
  BY <1>3, LastOf DEF Dated
<1>5. \A u \in rows : NotAfter(u, t)
  BY <1>1, <1>4
<1>6. QED
  BY <1>5 DEF Latest
-------------------------------------------------------------------------------
(* Folds *)

\* A value for each part of a set, each made of a member and the value of the rest.
Folds(T, V, F, choice, base, g) ==
    /\ g \in [SUBSET T -> V]
    /\ g[{}] = base
    /\ \A s \in SUBSET T : s # {} => g[s] = F[<<g[s \ {choice[s]}], choice[s]>>]

FoldStep(T, F, choice, base, g) ==
    [s \in SUBSET T |-> IF s = {} THEN base ELSE F[<<g[s \ {choice[s]}], choice[s]>>]]

GoodFolds(T, V, F, choice, base, n) ==
    {g \in [SUBSET T -> V] :
       \A s \in SUBSET T : Cardinality(s) <= n => g[s] = FoldStep(T, F, choice, base, g)[s]}

Choice(T, choice) == \A s \in SUBSET T : s # {} => choice[s] \in s

\* There is such a function for a finite set, however a member is chosen.
LEMMA FoldExists ==
  ASSUME NEW S, IsFiniteSet(S), NEW V, NEW base \in V, NEW F \in [V \X S -> V],
         NEW choice, Choice(S, choice)
  PROVE  \E g : Folds(S, V, F, choice, base, g)
<1> DEFINE Good(n) == GoodFolds(S, V, F, choice, base, n)
           Step(g) == FoldStep(S, F, choice, base, g)
           T == {n \in Nat : Good(n) # {}}
<1>0. \A g \in [SUBSET S -> V] :
         /\ Step(g) \in [SUBSET S -> V] /\ Step(g)[{}] = base
         /\ \A s \in SUBSET S : s # {} => Step(g)[s] = F[<<g[s \ {choice[s]}], choice[s]>>]
  <2> SUFFICES ASSUME NEW g \in [SUBSET S -> V]
               PROVE  /\ Step(g) \in [SUBSET S -> V] /\ Step(g)[{}] = base
                      /\ \A s \in SUBSET S : s # {} =>
                            Step(g)[s] = F[<<g[s \ {choice[s]}], choice[s]>>]
    OBVIOUS
  <2>1. ASSUME NEW s \in SUBSET S, s # {} PROVE F[<<g[s \ {choice[s]}], choice[s]>>] \in V
    <3>1. choice[s] \in S
      BY <2>1 DEF Choice
    <3>2. g[s \ {choice[s]}] \in V
      OBVIOUS
    <3>3. <<g[s \ {choice[s]}], choice[s]>> \in V \X S
      BY <3>1, <3>2
    <3>4. QED
      BY <3>3
  <2>2. QED
    BY <2>1 DEF FoldStep
<1>1. 0 \in T
  <2> DEFINE g == [s \in SUBSET S |-> base]
  <2>1. g \in [SUBSET S -> V] /\ \A s \in SUBSET S : g[s] = base
    OBVIOUS
  <2> HIDE DEF g
  <2>2. ASSUME NEW s \in SUBSET S, Cardinality(s) <= 0
        PROVE  g[s] = Step(g)[s]
    <3>1. s = {}
      BY <2>2, Sized
    <3> HIDE DEF Step
    <3>2. QED
      BY <1>0, <2>1, <3>1
  <2>3. g \in Good(0)
    BY <2>1, <2>2 DEF GoodFolds
  <2>4. QED
    BY <2>3
<1>2. ASSUME NEW n \in Nat, n \in T
      PROVE  n + 1 \in T
  <2>1. PICK g \in [SUBSET S -> V] : \A s \in SUBSET S : Cardinality(s) <= n => g[s] = Step(g)[s]
    BY <1>2 DEF GoodFolds
  <2> DEFINE h == Step(g)
  <2>2. /\ h \in [SUBSET S -> V] /\ h[{}] = base
        /\ \A s \in SUBSET S : s # {} => h[s] = F[<<g[s \ {choice[s]}], choice[s]>>]
    <3> HIDE DEF Step
    <3>1. QED
      BY <1>0
  <2>3. \A s \in SUBSET S : Cardinality(s) <= n => g[s] = h[s]
    BY <2>1
  <2> HIDE DEF h
  <2>4. ASSUME NEW s \in SUBSET S, Cardinality(s) <= n + 1
        PROVE  h[s] = Step(h)[s]
    <3>1. CASE s = {}
      <4> HIDE DEF Step
      <4>1. QED
        BY <1>0, <2>2, <3>1
    <3>2. CASE s # {}
      <4> DEFINE x == choice[s]
      <4>1. x \in s
        BY <3>2 DEF Choice
      <4>2. Step(h)[s] = F[<<h[s \ {x}], x>>] /\ h[s] = F[<<g[s \ {x}], x>>]
        <5> HIDE DEF Step
        <5>1. QED
          BY <1>0, <2>2, <3>2
      <4> HIDE DEF x
      <4>3. /\ s \ {x} \in SUBSET S /\ Cardinality(s) \in Nat
            /\ Cardinality(s \ {x}) = Cardinality(s) - 1
        BY <3>2, <4>1, OneLess
      <4>4. Cardinality(s \ {x}) <= n
        BY <2>4, <4>3
      <4>5. g[s \ {x}] = h[s \ {x}]
        BY <2>3, <4>3, <4>4
      <4>6. QED
        BY <4>2, <4>5
    <3>3. QED
      BY <3>1, <3>2
  <2>5. h \in Good(n + 1)
    BY <2>2, <2>4 DEF GoodFolds
  <2>6. QED
    BY <2>5
<1>3. Cardinality(S) \in T
  <2>1. Cardinality(S) \in Nat
    BY FS_CardinalityType
  <2> HIDE DEF T
  <2>2. \A n \in Nat : n \in T
    BY <1>1, <1>2, NatUp
  <2>3. QED
    BY <2>1, <2>2
<1>4. PICK g \in Good(Cardinality(S)) : TRUE
  BY <1>3
<1>5. g \in [SUBSET S -> V] /\ \A s \in SUBSET S : g[s] = Step(g)[s]
  <2>1. \A s \in SUBSET S : Cardinality(s) <= Cardinality(S)
    BY Sized
  <2>2. QED
    BY <2>1 DEF GoodFolds
<1>6. Folds(S, V, F, choice, base, g)
  <2> HIDE DEF Step
  <2>1. QED
    BY <1>0, <1>5 DEF Folds
<1>7. QED
  BY <1>6
-------------------------------------------------------------------------------
(* The replay of the units *)

PositionType == [units : Int, oversold : BOOLEAN]

LEMMA ScaledType ==
  ASSUME NEW n \in Int, NEW ratio \in {"double", "halve", "zero", "none"}
  PROVE  Scaled(n, ratio) \in Int /\ (n \in Nat => Scaled(n, ratio) \in Nat)
BY DEF Scaled

\* What a trade does to a position that is not oversold.
LEMMA ApplyIs ==
  ASSUME NEW p \in PositionType, NEW t \in TradeRow
  PROVE  /\ Apply(p, t) \in PositionType
         /\ p.oversold => Apply(p, t) = p
         /\ ~p.oversold => CASE t.type = "buy" -> Apply(p, t) = [units |-> p.units + t.quantity, oversold |-> FALSE]
                             [] t.type = "sell" ->
                                  IF t.quantity > p.units THEN Apply(p, t).oversold
                                  ELSE Apply(p, t) = [units |-> p.units - t.quantity, oversold |-> FALSE]
                             [] t.type = "split" ->
                                  Apply(p, t) = [units |-> Scaled(p.units, t.ratio), oversold |-> FALSE]
<1>1. /\ t.quantity \in Int /\ t.type \in {"buy", "sell", "split"} /\ p.units \in Int
      /\ p.oversold \in BOOLEAN /\ p = [units |-> p.units, oversold |-> p.oversold]
      /\ Scaled(p.units, t.ratio) \in Int
  BY ScaledType DEF TradeRow, PositionType
<1>2. CASE p.oversold
  BY <1>2 DEF Apply
<1>3. CASE ~p.oversold
  <2> DEFINE units == Scaled(p.units, t.ratio)
  <2>1. units \in Int
    BY <1>1
  <2>2. CASE t.type = "buy"
    <3> DEFINE more == p.units + t.quantity
    <3>1. Apply(p, t) = [p EXCEPT !.units = more]
      BY <1>3, <2>2 DEF Apply
    <3>2. more \in Int
      BY <1>1
    <3> HIDE DEF more
    <3>3. Apply(p, t) = [units |-> more, oversold |-> FALSE]
      BY <1>1, <1>3, <3>1, <3>2 DEF PositionType
    <3>4. Apply(p, t) \in PositionType
      BY <3>2, <3>3 DEF PositionType
    <3>5. QED
      BY <1>3, <2>2, <3>3, <3>4 DEF more
  <2>3. CASE t.type = "sell"
    <3> DEFINE less == p.units - t.quantity
    <3>1. Apply(p, t) = IF t.quantity > p.units THEN [p EXCEPT !.oversold = TRUE]
                        ELSE [p EXCEPT !.units = less]
      BY <1>3, <2>3 DEF Apply
    <3>2. less \in Int
      BY <1>1
    <3> HIDE DEF less
    <3>3. t.quantity > p.units => Apply(p, t) = [units |-> p.units, oversold |-> TRUE]
      BY <1>1, <3>1 DEF PositionType
    <3>4. ~(t.quantity > p.units) => Apply(p, t) = [units |-> less, oversold |-> FALSE]
      BY <1>1, <1>3, <3>1, <3>2 DEF PositionType
    <3>5. [units |-> p.units, oversold |-> TRUE] \in PositionType /\ [units |-> less, oversold |-> FALSE] \in PositionType
      BY <1>1, <3>2 DEF PositionType
    <3>6. Apply(p, t) \in PositionType
      BY <3>3, <3>4, <3>5
    <3>7. t.quantity > p.units => Apply(p, t).oversold
      BY <3>3
    <3>8. QED
      BY <1>3, <2>3, <3>4, <3>6, <3>7 DEF less
  <2>4. CASE t.type = "split"
    <3>1. Apply(p, t) = [p EXCEPT !.units = units]
      BY <1>3, <2>4 DEF Apply
    <3> HIDE DEF units
    <3>2. Apply(p, t) = [units |-> units, oversold |-> FALSE]
      BY <1>1, <1>3, <2>1, <3>1 DEF PositionType
    <3>3. Apply(p, t) \in PositionType
      BY <2>1, <3>2 DEF PositionType
    <3>4. QED
      BY <1>3, <2>4, <3>2, <3>3 DEF units
  <2>5. QED
    BY <1>1, <2>2, <2>3, <2>4
<1>4. QED
  BY <1>2, <1>3

LEMMA ApplyType ==
  ASSUME NEW p \in PositionType, NEW t \in TradeRow
  PROVE  Apply(p, t) \in PositionType
BY ApplyIs

LEMMA RowsDated ==
  ASSUME NEW rows \in SUBSET TradeRow, IsFiniteSet(rows)
  PROVE  Dated(rows)
BY DEF Dated, TradeRow, Day

\* The replays of all parts of some rows, by the last of their trades.
PositionStep(rows, g) ==
    [s \in SUBSET rows |-> IF s = {} THEN NoPosition ELSE Apply(g[s \ {Latest(s)}], Latest(s))]

Positions(rows) == CHOOSE g : g = PositionStep(rows, g)

LEMMA PositionBy == \A rows : Position(rows) = Positions(rows)[rows]
BY DEF Position, ReplayTrades, MapThenFoldSet, Positions, PositionStep

LEMMA LatestChoice ==
  ASSUME NEW rows \in SUBSET TradeRow, IsFiniteSet(rows)
  PROVE  \A s \in SUBSET rows : s # {} => Latest(s) \in s
<1> SUFFICES ASSUME NEW s \in SUBSET rows, s # {} PROVE Latest(s) \in s
  OBVIOUS
<1>1. IsFiniteSet(s) /\ s \in SUBSET TradeRow
  BY FS_Subset
<1>2. Dated(s)
  BY <1>1, RowsDated
<1>3. QED
  BY <1>2, LatestIs

LEMMA PositionsAre ==
  ASSUME NEW rows \in SUBSET TradeRow, IsFiniteSet(rows)
  PROVE  /\ Positions(rows)[{}] = NoPosition
         /\ \A s \in SUBSET rows : s # {} =>
               Positions(rows)[s] = Apply(Positions(rows)[s \ {Latest(s)}], Latest(s))
<1> DEFINE F == [p \in PositionType \X rows |-> Apply(p[1], p[2])]
           choice == [s \in SUBSET rows |-> Latest(s)]
<1>1. NoPosition \in PositionType
  BY DEF NoPosition, PositionType
<1>2. F \in [PositionType \X rows -> PositionType]
  BY ApplyType
<1>3. Choice(rows, choice)
  BY LatestChoice DEF Choice
<1>4. \A p \in PositionType, t \in rows : F[<<p, t>>] = Apply(p, t)
  OBVIOUS
<1>5. \A s \in SUBSET rows : choice[s] = Latest(s)
  OBVIOUS
<1> HIDE DEF F, choice
<1>6. PICK g : Folds(rows, PositionType, F, choice, NoPosition, g)
  BY <1>1, <1>2, <1>3, FoldExists
<1>7. g = PositionStep(rows, g)
  <2>1. g \in [SUBSET rows -> PositionType] /\ g[{}] = NoPosition
    BY <1>6 DEF Folds
  <2>2. ASSUME NEW s \in SUBSET rows, s # {} PROVE g[s] = Apply(g[s \ {Latest(s)}], Latest(s))
    <3>1. Latest(s) \in rows /\ g[s \ {Latest(s)}] \in PositionType
      BY <1>3, <1>5, <2>1, <2>2 DEF Choice
    <3>2. g[s] = F[<<g[s \ {Latest(s)}], Latest(s)>>]
      BY <1>5, <1>6, <2>2 DEF Folds
    <3>3. QED
      BY <1>4, <3>1, <3>2
  <2>3. QED
    BY <2>1, <2>2 DEF PositionStep
<1>8. Positions(rows) = PositionStep(rows, Positions(rows))
  BY <1>7 DEF Positions
<1> DEFINE h == Positions(rows)
<1>9. h = PositionStep(rows, h)
  BY <1>8
<1> HIDE DEF h
<1>10. h[{}] = NoPosition /\ \A s \in SUBSET rows : s # {} => h[s] = Apply(h[s \ {Latest(s)}], Latest(s))
  BY <1>9 DEF PositionStep
<1>11. QED
  BY <1>10 DEF h

\* A part is replayed as it is on its own.
LEMMA PositionsAgree ==
  ASSUME NEW rows \in SUBSET TradeRow, IsFiniteSet(rows), NEW part \in SUBSET rows
  PROVE  \A s \in SUBSET part : Positions(rows)[s] = Positions(part)[s]
<1> DEFINE T == {s \in SUBSET part : Positions(rows)[s] = Positions(part)[s]}
<1>1. IsFiniteSet(part) /\ part \in SUBSET TradeRow
  BY FS_Subset
<1>2. /\ Positions(rows)[{}] = NoPosition /\ Positions(part)[{}] = NoPosition
      /\ \A s \in SUBSET rows : s # {} =>
            Positions(rows)[s] = Apply(Positions(rows)[s \ {Latest(s)}], Latest(s))
      /\ \A s \in SUBSET part : s # {} =>
            Positions(part)[s] = Apply(Positions(part)[s \ {Latest(s)}], Latest(s))
  BY <1>1, PositionsAre
<1>3. {} \in T
  BY <1>2
<1>4. ASSUME NEW s \in SUBSET part, s # {}, \A x \in s : s \ {x} \in T PROVE s \in T
  <2>1. Latest(s) \in s
    BY <1>1, <1>4, LatestChoice
  <2>2. s \ {Latest(s)} \in T
    BY <1>4, <2>1
  <2>3. QED
    BY <1>2, <1>4, <2>2
<1> HIDE DEF T
<1>5. \A s \in SUBSET part : s \in T
  BY <1>1, <1>3, <1>4, PartsUp
<1>6. QED
  BY <1>5 DEF T

\* The position of a log is that of the log without its last trade, and the last trade applied.
LEMMA PositionIs ==
  ASSUME NEW rows \in SUBSET TradeRow, IsFiniteSet(rows)
  PROVE  /\ rows = {} => Position(rows) = NoPosition
         /\ rows # {} => /\ Latest(rows) \in rows
                         /\ Position(rows) = Apply(Position(rows \ {Latest(rows)}), Latest(rows))
<1>1. CASE rows = {}
  <2>1. Positions(rows)[{}] = NoPosition
    BY PositionsAre
  <2>2. QED
    BY <1>1, <2>1, PositionBy
<1>2. CASE rows # {}
  <2> DEFINE rest == rows \ {Latest(rows)}
  <2>1. rest \in SUBSET rows /\ rest \in SUBSET rest /\ rows \in SUBSET rows
    OBVIOUS
  <2>2. Positions(rows)[rows] = Apply(Positions(rows)[rest], Latest(rows))
    BY <1>2, PositionsAre
  <2> HIDE DEF rest
  <2>3. Positions(rows)[rest] = Positions(rest)[rest]
    BY <2>1, PositionsAgree
  <2>4. Latest(rows) \in rows
    BY <1>2, LatestChoice
  <2>5. QED
    BY <1>2, <2>2, <2>3, <2>4, PositionBy DEF rest
<1>3. QED
  BY <1>1, <1>2

LEMMA PositionTyped ==
  ASSUME NEW rows \in SUBSET TradeRow, IsFiniteSet(rows)
  PROVE  Position(rows) \in PositionType
<1> DEFINE T == {s \in SUBSET rows : Position(s) \in PositionType}
<1>1. NoPosition \in PositionType
  BY DEF NoPosition, PositionType
<1>2. \A s \in SUBSET rows : IsFiniteSet(s) /\ s \in SUBSET TradeRow
  BY FS_Subset
<1>3. {} \in T
  BY <1>1, <1>2, PositionIs
<1>4. ASSUME NEW s \in SUBSET rows, s # {}, \A x \in s : s \ {x} \in T PROVE s \in T
  <2>1. Latest(s) \in s /\ Position(s) = Apply(Position(s \ {Latest(s)}), Latest(s))
    BY <1>2, <1>4, PositionIs
  <2>2. Position(s \ {Latest(s)}) \in PositionType /\ Latest(s) \in TradeRow
    BY <1>4, <2>1
  <2>3. QED
    BY <2>1, <2>2, ApplyType
<1> HIDE DEF T
<1>5. rows \in T
  BY <1>3, <1>4, PartsUp
<1>6. QED
  BY <1>5 DEF T
-------------------------------------------------------------------------------
(* Folds of lots, from the oldest *)

LEMMA EmptyRange == 1 .. 0 = {}
OBVIOUS

\* The places of a sequence up to one of them.
LEMMA Prefix ==
  ASSUME NEW n \in Nat, NEW k \in 0 .. n - 1
  PROVE  1 .. k + 1 \in SUBSET (1 .. n) /\ 1 .. k + 1 # {} /\ k \in 0 .. n /\ k + 1 \in 0 .. n
<1>1. k + 1 \in 1 .. k + 1 /\ \A i \in 1 .. k + 1 : i \in 1 .. n
  OBVIOUS
<1>2. QED
  BY <1>1

LEMMA MaxChoice ==
  ASSUME NEW n \in Nat
  PROVE  /\ IsFiniteSet(1 .. n)
         /\ \A s \in SUBSET (1 .. n) : s # {} => Max(s) \in s
         /\ \A k \in 0 .. n - 1 : /\ Max(1 .. k + 1) = k + 1
                                  /\ (1 .. k + 1) \ {k + 1} = 1 .. k
<1>1. IsFiniteSet(1 .. n)
  BY FS_Interval
<1>2. ASSUME NEW s \in SUBSET (1 .. n), s # {} PROVE Max(s) \in s
  <2>1. s \in SUBSET Int
    OBVIOUS
  <2>2. IsFiniteSet(s)
    BY <1>1, FS_Subset
  <2>3. QED
    BY <1>2, <2>1, <2>2, MaxIs
<1>3. ASSUME NEW k \in 0 .. n - 1 PROVE Max(1 .. k + 1) = k + 1 /\ (1 .. k + 1) \ {k + 1} = 1 .. k
  <2> DEFINE S == 1 .. k + 1
  <2>1. S \in SUBSET Int /\ k + 1 \in S /\ \A x \in S : x <= k + 1
    OBVIOUS
  <2>2. IsFiniteSet(S)
    BY FS_Interval
  <2> HIDE DEF S
  <2>3. Max(S) \in S /\ Max(S) >= k + 1
    BY <2>1, <2>2, MaxIs
  <2>4. Max(S) = k + 1
    <3>1. Max(S) \in Int /\ Max(S) <= k + 1
      BY <2>1, <2>3
    <3>2. QED
      BY <2>3, <3>1
  <2>5. QED
    BY <2>4 DEF S
<1>4. QED
  BY <1>1, <1>2, <1>3

LeftType == [remaining : Int, lots : Seq(Int)]

LEMMA TakeType ==
  ASSUME NEW left \in LeftType, NEW lot \in Int
  PROVE  Take(left, lot) \in LeftType
<1> DEFINE taken == IF left.remaining <= 0 THEN 0
                    ELSE IF lot < left.remaining THEN lot ELSE left.remaining
           less == left.remaining - taken
           kept == IF lot = taken THEN left.lots ELSE Append(left.lots, lot - taken)
<1>1. left.remaining \in Int /\ left.lots \in Seq(Int)
  BY DEF LeftType
<1>2. taken \in Int
  BY <1>1
<1>3. Take(left, lot) = [remaining |-> less, lots |-> kept]
  BY DEF Take
<1> HIDE DEF taken
<1>4. less \in Int /\ kept \in Seq(Int)
  BY <1>1, <1>2
<1> HIDE DEF less, kept
<1>5. QED
  BY <1>3, <1>4 DEF LeftType

TakeStep(lots, base, g) ==
    [s \in SUBSET DOMAIN lots |-> IF s = {} THEN base ELSE Take(g[s \ {Max(s)}], lots[Max(s)])]

Taking(lots, base) == CHOOSE g : g = TakeStep(lots, base, g)

\* What is left to sell, and what of the lots, after each lot.
Taken(n, lots, base, h) ==
    /\ h \in [0 .. n -> LeftType]
    /\ h[0] = base
    /\ \A k \in 0 .. n - 1 : h[k + 1] = Take(h[k], lots[k + 1])

LEMMA TakingIs ==
  ASSUME NEW n \in Nat, NEW lots \in [1 .. n -> Int], NEW base \in LeftType
  PROVE  \E h : Taken(n, lots, base, h) /\ FoldLeft(Take, base, lots) = h[n]
<1> DEFINE S == 1 .. n
           F == [p \in LeftType \X S |-> Take(p[1], lots[p[2]])]
           choice == [s \in SUBSET S |-> Max(s)]
<1>1. /\ IsFiniteSet(S) /\ DOMAIN lots = S
      /\ \A s \in SUBSET S : s # {} => Max(s) \in s
      /\ \A k \in 0 .. n - 1 : Max(1 .. k + 1) = k + 1 /\ (1 .. k + 1) \ {k + 1} = 1 .. k
  BY MaxChoice
<1>2. F \in [LeftType \X S -> LeftType]
  BY TakeType
<1>3. Choice(S, choice)
  BY <1>1 DEF Choice
<1>4. \A p \in LeftType, i \in S : F[<<p, i>>] = Take(p, lots[i])
  OBVIOUS
<1>5. \A s \in SUBSET S : choice[s] = Max(s)
  OBVIOUS
<1> HIDE DEF F, choice
<1>6. PICK g : Folds(S, LeftType, F, choice, base, g)
  <2> HIDE DEF S
  <2>1. QED
    BY <1>1, <1>2, <1>3, FoldExists
<1>7. g \in [SUBSET S -> LeftType] /\ g[{}] = base
  BY <1>6 DEF Folds
<1>8. ASSUME NEW s \in SUBSET S, s # {} PROVE g[s] = Take(g[s \ {Max(s)}], lots[Max(s)])
  <2>1. Max(s) \in S /\ g[s \ {Max(s)}] \in LeftType
    BY <1>1, <1>7, <1>8
  <2>2. g[s] = F[<<g[s \ {Max(s)}], Max(s)>>]
    BY <1>5, <1>6, <1>8 DEF Folds
  <2>3. QED
    BY <1>4, <2>1, <2>2
<1>9. g = TakeStep(lots, base, g)
  <2> HIDE DEF S
  <2>1. QED
    BY <1>1, <1>7, <1>8 DEF TakeStep
<1> DEFINE it == Taking(lots, base)
<1>10. it = TakeStep(lots, base, it)
  BY <1>9 DEF Taking
<1>11. FoldLeft(Take, base, lots) = it[DOMAIN lots]
  BY DEF FoldLeft, MapThenFoldSet, Taking, TakeStep
<1> HIDE DEF it
<1>12. it[{}] = base /\ \A s \in SUBSET S : s # {} => it[s] = Take(it[s \ {Max(s)}], lots[Max(s)])
  <2> HIDE DEF S
  <2>1. QED
    BY <1>1, <1>10 DEF TakeStep
<1> DEFINE h == [k \in 0 .. n |-> it[1 .. k]]
<1>13. h[0] = base
  <2>1. 0 \in 0 .. n
    OBVIOUS
  <2>2. QED
    BY <1>12, <2>1, EmptyRange
<1>14. ASSUME NEW k \in 0 .. n - 1 PROVE h[k + 1] = Take(h[k], lots[k + 1])
  <2>1. (1 .. k + 1) \in SUBSET S /\ 1 .. k + 1 # {} /\ k \in 0 .. n /\ k + 1 \in 0 .. n
    BY Prefix
  <2>2. Max(1 .. k + 1) = k + 1 /\ (1 .. k + 1) \ {k + 1} = 1 .. k
    BY <1>1
  <2>3. it[1 .. k + 1] = Take(it[1 .. k], lots[k + 1])
    <3> DEFINE R == 1 .. k + 1
    <3>1. R \in SUBSET S /\ R # {} /\ Max(R) = k + 1 /\ R \ {k + 1} = 1 .. k
      BY <2>1, <2>2
    <3> HIDE DEF R, S
    <3>2. it[R] = Take(it[R \ {Max(R)}], lots[Max(R)])
      BY <1>12, <3>1
    <3>3. QED
      BY <3>1, <3>2 DEF R
  <2>4. QED
    BY <2>1, <2>3
<1> DEFINE T == {k \in Nat : k <= n => h[k] \in LeftType}
<1>15. \A k \in Nat : k \in T
  <2>1. 0 \in T
    BY <1>13
  <2> HIDE DEF h
  <2>2. ASSUME NEW k \in Nat, k \in T PROVE k + 1 \in T
    <3>1. ASSUME k + 1 <= n PROVE h[k + 1] \in LeftType
      <4>1. k \in 0 .. n - 1 /\ k <= n /\ k + 1 \in 1 .. n
        BY <3>1
      <4>2. h[k] \in LeftType /\ lots[k + 1] \in Int
        BY <2>2, <4>1
      <4>3. QED
        BY <1>14, <4>1, <4>2, TakeType
    <3>2. QED
      BY <3>1
  <2> HIDE DEF T
  <2>3. QED
    BY <2>1, <2>2, NatUp
<1>16. h \in [0 .. n -> LeftType]
  <2>1. h = [k \in 0 .. n |-> h[k]]
    OBVIOUS
  <2> HIDE DEF h
  <2>2. \A k \in 0 .. n : h[k] \in LeftType
    BY <1>15
  <2>3. QED
    BY <2>1, <2>2
<1>17. FoldLeft(Take, base, lots) = h[n]
  BY <1>1, <1>11
<1> HIDE DEF h
<1>18. QED
  BY <1>13, <1>14, <1>16, <1>17 DEF Taken

\* The sums of the first numbers of a sequence.
Running(n, s, p) ==
    /\ p \in [0 .. n -> Int]
    /\ p[0] = 0
    /\ \A k \in 0 .. n - 1 : p[k + 1] = p[k] + s[k + 1]

UnitsStep(lots, g) ==
    [s \in SUBSET DOMAIN lots |-> IF s = {} THEN 0 ELSE g[s \ {Max(s)}] + lots[Max(s)]]

UnitsOf(lots) == CHOOSE g : g = UnitsStep(lots, g)

LEMMA LotUnitsIs ==
  ASSUME NEW n \in Nat, NEW book, book.lots \in [1 .. n -> Int]
  PROVE  \E p : Running(n, book.lots, p) /\ LotUnits(book) = p[n]
<1> DEFINE S == 1 .. n
           lots == book.lots
           F == [p \in Int \X S |-> p[1] + lots[p[2]]]
           choice == [s \in SUBSET S |-> Max(s)]
<1>1. /\ IsFiniteSet(S) /\ DOMAIN lots = S
      /\ \A s \in SUBSET S : s # {} => Max(s) \in s
      /\ \A k \in 0 .. n - 1 : Max(1 .. k + 1) = k + 1 /\ (1 .. k + 1) \ {k + 1} = 1 .. k
  BY MaxChoice
<1>2. F \in [Int \X S -> Int]
  OBVIOUS
<1>3. Choice(S, choice)
  BY <1>1 DEF Choice
<1>4. \A p \in Int, i \in S : F[<<p, i>>] = p + lots[i]
  OBVIOUS
<1>5. \A s \in SUBSET S : choice[s] = Max(s)
  OBVIOUS
<1>19. lots \in [1 .. n -> Int]
  OBVIOUS
<1> HIDE DEF F, choice
<1>6. PICK g : Folds(S, Int, F, choice, 0, g)
  <2> HIDE DEF S
  <2>0. 0 \in Int
    OBVIOUS
  <2>1. QED
    BY <1>1, <1>2, <1>3, <2>0, FoldExists
<1>7. g \in [SUBSET S -> Int] /\ g[{}] = 0
  BY <1>6 DEF Folds
<1>8. ASSUME NEW s \in SUBSET S, s # {} PROVE g[s] = g[s \ {Max(s)}] + lots[Max(s)]
  <2>1. Max(s) \in S /\ g[s \ {Max(s)}] \in Int
    BY <1>1, <1>7, <1>8
  <2>2. g[s] = F[<<g[s \ {Max(s)}], Max(s)>>]
    BY <1>5, <1>6, <1>8 DEF Folds
  <2>3. QED
    BY <1>4, <2>1, <2>2
<1>9. g = UnitsStep(lots, g)
  <2> HIDE DEF S, lots
  <2>1. QED
    BY <1>1, <1>7, <1>8 DEF UnitsStep
<1> DEFINE it == UnitsOf(lots)
<1>10. it = UnitsStep(lots, it)
  BY <1>9 DEF UnitsOf
<1>11. LotUnits(book) = it[DOMAIN lots]
  BY DEF LotUnits, FoldLeft, MapThenFoldSet, UnitsOf, UnitsStep
<1> HIDE DEF it
<1>12. it[{}] = 0 /\ \A s \in SUBSET S : s # {} => it[s] = it[s \ {Max(s)}] + lots[Max(s)]
  <2> HIDE DEF S, lots
  <2>1. QED
    BY <1>1, <1>10 DEF UnitsStep
<1> DEFINE h == [k \in 0 .. n |-> it[1 .. k]]
<1>13. h[0] = 0
  <2>1. 1 .. 0 = {}
    OBVIOUS
  <2>2. QED
    BY <1>12, <2>1
<1>14. ASSUME NEW k \in 0 .. n - 1 PROVE h[k + 1] = h[k] + lots[k + 1]
  <2>1. (1 .. k + 1) \in SUBSET S /\ 1 .. k + 1 # {} /\ k \in 0 .. n /\ k + 1 \in 0 .. n
    BY Prefix
  <2>2. Max(1 .. k + 1) = k + 1 /\ (1 .. k + 1) \ {k + 1} = 1 .. k
    BY <1>1
  <2>3. it[1 .. k + 1] = it[1 .. k] + lots[k + 1]
    <3> DEFINE R == 1 .. k + 1
    <3>1. R \in SUBSET S /\ R # {} /\ Max(R) = k + 1 /\ R \ {k + 1} = 1 .. k
      BY <2>1, <2>2
    <3> HIDE DEF R, S
    <3>2. it[R] = it[R \ {Max(R)}] + lots[Max(R)]
      BY <1>12, <3>1
    <3>3. QED
      BY <3>1, <3>2 DEF R
  <2>4. QED
    BY <2>1, <2>3
<1> DEFINE T == {k \in Nat : k <= n => h[k] \in Int}
<1> HIDE DEF lots
<1>15. \A k \in Nat : k \in T
  <2>1. 0 \in T
    BY <1>13
  <2> HIDE DEF h
  <2>2. ASSUME NEW k \in Nat, k \in T PROVE k + 1 \in T
    <3>1. ASSUME k + 1 <= n PROVE h[k + 1] \in Int
      <4>1. k \in 0 .. n - 1 /\ k <= n /\ k + 1 \in 1 .. n
        BY <3>1
      <4>2. h[k] \in Int /\ lots[k + 1] \in Int
        BY <1>19, <2>2, <4>1
      <4>3. QED
        BY <1>14, <4>1, <4>2
    <3>2. QED
      BY <3>1
  <2> HIDE DEF T
  <2>3. QED
    BY <2>1, <2>2, NatUp
<1>16. h \in [0 .. n -> Int]
  <2>1. h = [k \in 0 .. n |-> h[k]]
    OBVIOUS
  <2> HIDE DEF h
  <2>2. \A k \in 0 .. n : h[k] \in Int
    BY <1>15
  <2>3. QED
    BY <2>1, <2>2
<1>17. LotUnits(book) = h[n]
  BY <1>1, <1>11
<1> HIDE DEF h
<1>18. QED
  BY <1>13, <1>14, <1>16, <1>17 DEF Running, lots
-------------------------------------------------------------------------------
(* Numbers that can be halved a number of times *)

\* f is a number, its half, the half of that and so on.
Halves(k, f) == f \in [0 .. k -> Int] /\ \A i \in 0 .. k - 1 : f[i] = 2 * f[i + 1]

Halvable(k) == {x \in Int : \E f : Halves(k, f) /\ f[0] = x}

LEMMA HalvableSums ==
  ASSUME NEW k \in Nat, NEW x \in Halvable(k), NEW y \in Halvable(k)
  PROVE  x + y \in Halvable(k) /\ x - y \in Halvable(k) /\ 2 * x \in Halvable(k)
<1>1. PICK f : Halves(k, f) /\ f[0] = x
  BY DEF Halvable
<1>2. PICK g : Halves(k, g) /\ g[0] = y
  BY DEF Halvable
<1>3. \A i \in 0 .. k : f[i] \in Int /\ g[i] \in Int
  BY <1>1, <1>2 DEF Halves
<1>4. \A i \in 0 .. k - 1 : i \in 0 .. k /\ i + 1 \in 0 .. k /\ f[i] = 2 * f[i + 1] /\ g[i] = 2 * g[i + 1]
  BY <1>1, <1>2 DEF Halves
<1>5. x \in Int /\ y \in Int /\ 0 \in 0 .. k
  BY DEF Halvable
<1> DEFINE sum == [i \in 0 .. k |-> f[i] + g[i]]
           gap == [i \in 0 .. k |-> f[i] - g[i]]
           twice == [i \in 0 .. k |-> 2 * f[i]]
<1>6. Halves(k, sum) /\ sum[0] = x + y
  BY <1>1, <1>2, <1>3, <1>4, <1>5 DEF Halves
<1>7. Halves(k, gap) /\ gap[0] = x - y
  BY <1>1, <1>2, <1>3, <1>4, <1>5 DEF Halves
<1>8. Halves(k, twice) /\ twice[0] = 2 * x
  BY <1>1, <1>3, <1>4, <1>5 DEF Halves
<1> HIDE DEF sum, gap, twice
<1>9. QED
  BY <1>5, <1>6, <1>7, <1>8 DEF Halvable

LEMMA HalvableZero == ASSUME NEW k \in Nat PROVE 0 \in Halvable(k)
<1> DEFINE f == [i \in 0 .. k |-> 0]
<1>1. Halves(k, f) /\ f[0] = 0
  BY DEF Halves
<1> HIDE DEF f
<1>2. QED
  BY <1>1 DEF Halvable

LEMMA TimesTwice ==
  ASSUME NEW n \in Int, NEW x \in Int
  PROVE  n * (2 * x) = 2 * (n * x)
OBVIOUS

LEMMA HalvableTimes ==
  ASSUME NEW k \in Nat, NEW x \in Halvable(k), NEW n \in Int
  PROVE  n * x \in Halvable(k)
<1>1. PICK f : Halves(k, f) /\ f[0] = x
  BY DEF Halvable
<1> DEFINE g == [i \in 0 .. k |-> n * f[i]]
<1>2. x \in Int /\ 0 \in 0 .. k
  BY DEF Halvable
<1>3. g[0] = n * x /\ n * x \in Int
  BY <1>1, <1>2
<1>4. g \in [0 .. k -> Int]
  BY <1>1 DEF Halves
<1>5. ASSUME NEW i \in 0 .. k - 1 PROVE g[i] = 2 * g[i + 1]
  <2>1. i \in 0 .. k /\ i + 1 \in 0 .. k
    OBVIOUS
  <2>2. f[i + 1] \in Int /\ f[i] = 2 * f[i + 1]
    BY <1>1, <2>1 DEF Halves
  <2>3. n * f[i] = 2 * (n * f[i + 1])
    BY <2>2, TimesTwice
  <2>4. g[i] = n * f[i] /\ g[i + 1] = n * f[i + 1]
    BY <2>1
  <2> HIDE DEF g
  <2>5. QED
    BY <2>3, <2>4
<1> HIDE DEF g
<1>6. Halves(k, g)
  BY <1>4, <1>5 DEF Halves
<1>7. QED
  BY <1>3, <1>6 DEF Halvable

LEMMA HalvableLess ==
  ASSUME NEW j \in Nat, NEW k \in Nat, j <= k, NEW x \in Halvable(k)
  PROVE  x \in Halvable(j)
<1>1. PICK f : Halves(k, f) /\ f[0] = x
  BY DEF Halvable
<1> DEFINE g == [i \in 0 .. j |-> f[i]]
<1>2. Halves(j, g) /\ g[0] = x /\ x \in Int
  BY <1>1 DEF Halves, Halvable
<1> HIDE DEF g
<1>3. QED
  BY <1>2 DEF Halvable

LEMMA HalvableHalf ==
  ASSUME NEW k \in Nat, NEW x \in Halvable(k + 1)
  PROVE  x \div 2 \in Halvable(k) /\ x = 2 * (x \div 2)
<1>1. PICK f : Halves(k + 1, f) /\ f[0] = x
  BY DEF Halvable
<1> DEFINE g == [i \in 0 .. k |-> f[i + 1]]
<1>2. f[1] \in Int /\ x = 2 * f[1]
  BY <1>1 DEF Halves
<1>3. x \div 2 = f[1]
  BY <1>2
<1>4. Halves(k, g) /\ g[0] = f[1]
  BY <1>1 DEF Halves
<1> HIDE DEF g
<1>5. QED
  BY <1>2, <1>3, <1>4 DEF Halvable
-------------------------------------------------------------------------------
(* Sums of lots *)

\* x is the sum of the lots.
Sums(lots, x) == \E p : Running(Len(lots), lots, p) /\ p[Len(lots)] = x

LEMMA LotUnitsSum ==
  ASSUME NEW book, book.lots \in Seq(Int)
  PROVE  LotUnits(book) \in Int /\ Sums(book.lots, LotUnits(book))
<1> DEFINE n == Len(book.lots)
<1>1. n \in Nat /\ book.lots \in [1 .. n -> Int]
  OBVIOUS
<1> HIDE DEF n
<1>2. PICK p : Running(n, book.lots, p) /\ LotUnits(book) = p[n]
  BY <1>1, LotUnitsIs
<1>3. p[n] \in Int
  BY <1>1, <1>2 DEF Running
<1>4. QED
  BY <1>2, <1>3 DEF Sums, n

LEMMA SumsOnce ==
  ASSUME NEW lots \in Seq(Int), NEW x, NEW y, Sums(lots, x), Sums(lots, y)
  PROVE  x = y
<1> DEFINE n == Len(lots)
<1>1. n \in Nat
  OBVIOUS
<1>2. PICK p : Running(n, lots, p) /\ p[n] = x
  BY DEF Sums
<1>3. PICK q : Running(n, lots, q) /\ q[n] = y
  BY DEF Sums
<1> HIDE DEF n
<1> DEFINE T == {k \in Nat : k <= n => p[k] = q[k]}
<1>4. 0 \in T
  BY <1>2, <1>3 DEF Running
<1>5. ASSUME NEW k \in Nat, k \in T PROVE k + 1 \in T
  <2>1. ASSUME k + 1 <= n PROVE p[k + 1] = q[k + 1]
    <3>1. k \in 0 .. n - 1 /\ k <= n
      BY <1>1, <2>1
    <3>2. p[k] = q[k] /\ p[k + 1] = p[k] + lots[k + 1] /\ q[k + 1] = q[k] + lots[k + 1]
      BY <1>2, <1>3, <1>5, <3>1 DEF Running
    <3>3. QED
      BY <3>2
  <2>2. QED
    BY <2>1
<1> HIDE DEF T
<1>6. n \in T
  BY <1>1, <1>4, <1>5, NatUp
<1>7. QED
  BY <1>2, <1>3, <1>6 DEF T

LEMMA SumsNone == Sums(<<>>, 0)
<1> DEFINE p == [k \in 0 .. 0 |-> 0]
<1>1. Len(<<>>) = 0 /\ p[0] = 0 /\ p \in [0 .. 0 -> Int] /\ 0 .. (0 - 1) = {}
  OBVIOUS
<1> HIDE DEF p
<1>2. Running(0, <<>>, p)
  BY <1>1 DEF Running
<1>3. QED
  BY <1>1, <1>2 DEF Sums

LEMMA SumsAppend ==
  ASSUME NEW lots \in Seq(Int), NEW lot \in Int, NEW x, Sums(lots, x)
  PROVE  Sums(Append(lots, lot), x + lot) /\ x \in Int
<1> DEFINE n == Len(lots)
           more == Append(lots, lot)
<1>1. n \in Nat /\ Len(more) = n + 1 /\ more[n + 1] = lot /\ \A k \in 1 .. n : more[k] = lots[k]
  OBVIOUS
<1>2. PICK p : Running(n, lots, p) /\ p[n] = x
  BY DEF Sums
<1> HIDE DEF n, more
<1> DEFINE q == [k \in 0 .. n + 1 |-> IF k = n + 1 THEN x + lot ELSE p[k]]
<1>3. x \in Int /\ \A k \in 0 .. n : p[k] \in Int
  BY <1>1, <1>2 DEF Running
<1>4. q \in [0 .. n + 1 -> Int] /\ q[0] = 0 /\ q[n + 1] = x + lot
  <2>1. \A k \in 0 .. n + 1 : k = n + 1 \/ k \in 0 .. n
    BY <1>1
  <2>2. 0 \in 0 .. n /\ 0 # n + 1
    BY <1>1
  <2>3. QED
    BY <1>1, <1>2, <1>3, <2>1, <2>2 DEF Running
<1>5. ASSUME NEW k \in 0 .. n PROVE q[k + 1] = q[k] + more[k + 1]
  <2>1. CASE k = n
    <3>1. q[k + 1] = x + lot /\ q[k] = p[n]
      BY <1>1, <2>1
    <3>2. QED
      BY <1>1, <1>2, <2>1, <3>1
  <2>2. CASE k # n
    <3>1. k \in 0 .. n - 1 /\ k + 1 \in 1 .. n /\ k + 1 # n + 1 /\ k # n + 1
      BY <1>1, <2>2
    <3>2. q[k + 1] = p[k + 1] /\ q[k] = p[k]
      BY <1>1, <3>1
    <3>3. p[k + 1] = p[k] + lots[k + 1]
      BY <1>2, <3>1 DEF Running
    <3>4. QED
      BY <1>1, <3>1, <3>2, <3>3
  <2>3. QED
    BY <2>1, <2>2
<1> HIDE DEF q
<1>6. Running(n + 1, more, q)
  <2>1. (n + 1) - 1 = n
    BY <1>1
  <2>2. QED
    BY <1>4, <1>5, <2>1 DEF Running
<1>7. Sums(more, x + lot)
  BY <1>1, <1>4, <1>6 DEF Sums
<1>8. QED
  BY <1>3, <1>7 DEF more

\* Lots that are each twice those of another queue add up to twice as much.
LEMMA SumsTwice ==
  ASSUME NEW lots \in Seq(Int), NEW half \in Seq(Int), Len(half) = Len(lots),
         \A k \in 1 .. Len(lots) : lots[k] = 2 * half[k],
         NEW x, NEW y, Sums(lots, x), Sums(half, y)
  PROVE  x = 2 * y /\ y \in Int
<1> DEFINE n == Len(lots)
<1>1. n \in Nat /\ \A k \in 1 .. n : lots[k] = 2 * half[k] /\ half[k] \in Int
  OBVIOUS
<1>2. PICK p : Running(n, lots, p) /\ p[n] = x
  BY DEF Sums
<1>3. PICK q : Running(n, half, q) /\ q[n] = y
  BY DEF Sums
<1> HIDE DEF n
<1> DEFINE T == {k \in Nat : k <= n => p[k] = 2 * q[k]}
<1>4. 0 \in T
  BY <1>2, <1>3 DEF Running
<1>5. ASSUME NEW k \in Nat, k \in T PROVE k + 1 \in T
  <2>1. ASSUME k + 1 <= n PROVE p[k + 1] = 2 * q[k + 1]
    <3>1. k \in 0 .. n - 1 /\ k \in 0 .. n /\ k <= n /\ k + 1 \in 1 .. n
      BY <1>1, <2>1
    <3>2. p[k] = 2 * q[k] /\ p[k + 1] = p[k] + lots[k + 1] /\ q[k + 1] = q[k] + half[k + 1] /\ q[k] \in Int
      BY <1>2, <1>3, <1>5, <3>1 DEF Running
    <3>3. lots[k + 1] = 2 * half[k + 1] /\ half[k + 1] \in Int
      BY <1>1, <3>1
    <3>4. QED
      BY <3>2, <3>3
  <2>2. QED
    BY <2>1
<1> HIDE DEF T
<1>6. n \in T
  BY <1>1, <1>4, <1>5, NatUp
<1>7. q[n] \in Int
  BY <1>1, <1>3 DEF Running
<1>8. QED
  BY <1>1, <1>2, <1>3, <1>6, <1>7 DEF T
-------------------------------------------------------------------------------
(* A sell and the lots *)

\* Numbers of which the difference of any two is another.
Differences(H) == H \subseteq Int /\ 0 \in H /\ \A x, y \in H : x - y \in H

\* A sell of q under way: what is still to sell, what is left of lots that add up to sum, and
\* that no lot is left over while something is still to sell.
Selling(H, q, sum, left) ==
    /\ left \in LeftType
    /\ left.remaining \in H \cap Nat
    /\ left.lots \in Seq(H \cap Nat)
    /\ left.remaining > 0 => left.lots = <<>>
    /\ Sums(left.lots, sum - (q - left.remaining))

LEMMA TakeSells ==
  ASSUME NEW H, Differences(H), NEW q \in Int, NEW sum \in Int, NEW left, Selling(H, q, sum, left),
         NEW lot \in H \cap Nat
  PROVE  Selling(H, q, sum + lot, Take(left, lot))
<1> DEFINE G == H \cap Nat
           rem == left.remaining
           taken == IF rem <= 0 THEN 0 ELSE IF lot < rem THEN lot ELSE rem
           less == rem - taken
           over == lot - taken
           kept == IF lot = taken THEN left.lots ELSE Append(left.lots, over)
           due == sum - (q - rem)
           after == Take(left, lot)
<1>1. /\ rem \in H /\ rem \in Nat /\ left.lots \in Seq(G) /\ left.lots \in Seq(Int)
      /\ rem > 0 => left.lots = <<>>
      /\ Sums(left.lots, due)
  BY DEF Selling, LeftType
<1>2. after \in LeftType /\ after.remaining = less /\ after.lots = kept
  <2>1. after = [remaining |-> less, lots |-> kept]
    BY DEF Take
  <2>2. after \in LeftType
    BY TakeType DEF Selling
  <2> HIDE DEF less, kept, after
  <2>3. QED
    BY <2>1, <2>2
<1> HIDE DEF after
<1>3. taken \in H /\ taken \in Nat /\ taken <= lot /\ taken <= rem
  <2>1. 0 \in H
    BY DEF Differences
  <2> HIDE DEF rem
  <2>2. QED
    BY <1>1, <2>1
<1>4. less \in H /\ less \in Nat /\ over \in H /\ over \in Nat
  <2>1. less \in H /\ over \in H
    <3> HIDE DEF rem, taken
    <3>1. QED
      BY <1>1, <1>3 DEF Differences
  <2>2. less \in Nat /\ over \in Nat
    <3> HIDE DEF rem, taken
    <3>1. QED
      BY <1>1, <1>3
  <2>3. QED
    BY <2>1, <2>2
<1>5. kept \in Seq(G)
  <2>1. over \in G
    BY <1>4
  <2> HIDE DEF over, G, taken
  <2>2. QED
    BY <1>1, <2>1
<1>6. less > 0 => kept = <<>>
  <2>1. less > 0 => rem > 0 /\ lot = taken
    BY <1>1
  <2> HIDE DEF less, rem, taken
  <2>2. QED
    BY <1>1, <2>1
<1>7. sum + lot - (q - less) = due + over /\ due \in Int
  <2> HIDE DEF taken
  <2>1. rem \in Int /\ taken \in Int /\ lot \in Int
    BY <1>1, <1>3
  <2>2. QED
    BY <2>1
<1>8. Sums(kept, due + over)
  <2>1. CASE lot = taken
    <3>1. over = 0 /\ kept = left.lots
      BY <2>1
    <3> HIDE DEF over, kept, due
    <3>2. due + over = due
      BY <1>7, <3>1
    <3>3. QED
      BY <1>1, <3>1, <3>2
  <2>2. CASE lot # taken
    <3>1. kept = Append(left.lots, over) /\ over \in Int
      BY <1>4, <2>2
    <3> HIDE DEF over, kept, due
    <3>2. QED
      BY <1>1, <3>1, SumsAppend
  <2>3. QED
    BY <2>1, <2>2
<1>9. Sums(kept, sum + lot - (q - less))
  <2> HIDE DEF less, over, kept, due
  <2>1. QED
    BY <1>7, <1>8
<1> HIDE DEF less, kept
<1>10. QED
  BY <1>2, <1>4, <1>5, <1>6, <1>9 DEF Selling, after

\* A sell of no more than the lots add up to is served, and takes that much from them.
LEMMA SoldIs ==
  ASSUME NEW H, Differences(H), NEW book, book.lots \in Seq(H \cap Nat), book.short = FALSE,
         NEW q \in H \cap Nat, q <= LotUnits(book)
  PROVE  /\ Sold(book, q).lots \in Seq(H \cap Nat)
         /\ ~Sold(book, q).short
         /\ LotUnits(Sold(book, q)) = LotUnits(book) - q
<1> DEFINE G == H \cap Nat
           n == Len(book.lots)
           base == [remaining |-> q, lots |-> <<>>]
           left == FoldLeft(Take, base, book.lots)
<1>1. G \subseteq Int /\ q \in Int /\ q \in G /\ q \in Nat
  BY DEF Differences
<1>2. n \in Nat /\ book.lots \in [1 .. n -> G] /\ book.lots \in [1 .. n -> Int] /\ book.lots \in Seq(Int)
  <2>1. book.lots \in Seq(G)
    OBVIOUS
  <2> HIDE DEF G
  <2>2. QED
    BY <1>1, <2>1
<1>3. PICK p : Running(n, book.lots, p) /\ LotUnits(book) = p[n]
  <2> HIDE DEF n
  <2>1. QED
    BY <1>2, LotUnitsIs
<1>4. base \in LeftType /\ Selling(H, q, 0, base)
  <2>1. base.remaining = q /\ base.lots = <<>>
    OBVIOUS
  <2>2. base \in LeftType
    BY <1>1 DEF LeftType
  <2>3. base.lots \in Seq(G)
    BY <2>1
  <2>4. Sums(base.lots, 0 - (q - q))
    BY <1>1, <2>1, SumsNone
  <2> HIDE DEF base
  <2>5. QED
    BY <1>1, <2>1, <2>2, <2>3, <2>4 DEF Selling
<1>5. PICK h : Taken(n, book.lots, base, h) /\ left = h[n]
  <2> HIDE DEF n, base
  <2>1. QED
    BY <1>2, <1>4, TakingIs
<1> HIDE DEF base, left, n
<1> DEFINE T == {k \in Nat : k <= n => Selling(H, q, p[k], h[k])}
<1>6. 0 \in T
  BY <1>3, <1>4, <1>5 DEF Taken, Running
<1>7. ASSUME NEW k \in Nat, k \in T PROVE k + 1 \in T
  <2>1. ASSUME k + 1 <= n PROVE Selling(H, q, p[k + 1], h[k + 1])
    <3>1. k \in 0 .. n - 1 /\ k \in 0 .. n /\ k <= n /\ k + 1 \in 1 .. n
      BY <1>2, <2>1
    <3>2. Selling(H, q, p[k], h[k]) /\ p[k] \in Int /\ book.lots[k + 1] \in G
      BY <1>2, <1>3, <1>7, <3>1 DEF Running
    <3>3. h[k + 1] = Take(h[k], book.lots[k + 1]) /\ p[k + 1] = p[k] + book.lots[k + 1]
      BY <1>3, <1>5, <3>1 DEF Taken, Running
    <3>4. Selling(H, q, p[k] + book.lots[k + 1], Take(h[k], book.lots[k + 1]))
      BY <1>1, <3>2, TakeSells
    <3>5. QED
      BY <3>3, <3>4
  <2>2. QED
    BY <2>1
<1> HIDE DEF T
<1>8. Selling(H, q, p[n], left)
  <2>1. n \in T
    BY <1>2, <1>6, <1>7, NatUp
  <2>2. QED
    BY <1>2, <1>5, <2>1 DEF T
<1>9. p[n] \in Int /\ p[n] >= q
  BY <1>1, <1>2, <1>3 DEF Running
<1>10. left.remaining = 0
  <2>1. left.remaining \in Nat /\ Sums(left.lots, p[n] - (q - left.remaining))
        /\ (left.remaining > 0 => left.lots = <<>>)
    BY <1>8 DEF Selling
  <2>2. CASE left.remaining > 0
    <3>1. Sums(<<>>, p[n] - (q - left.remaining)) /\ Sums(<<>>, 0) /\ <<>> \in Seq(Int)
      BY <2>1, <2>2, SumsNone
    <3>2. p[n] - (q - left.remaining) = 0
      BY <3>1, SumsOnce
    <3>3. QED
      BY <1>1, <1>9, <2>1, <2>2, <3>2
  <2>3. QED
    BY <2>1, <2>2
<1> DEFINE sold == Sold(book, q)
<1>11. sold.lots = left.lots /\ sold.short = (book.short \/ left.remaining > 0)
  BY DEF Sold, left, base
<1> HIDE DEF sold
<1>12. sold.lots \in Seq(G) /\ sold.lots \in Seq(Int) /\ ~sold.short /\ Sums(sold.lots, p[n] - q)
  <2>1. p[n] - (q - 0) = p[n] - q
    BY <1>1, <1>9
  <2>2. left.lots \in Seq(G) /\ Sums(left.lots, p[n] - q) /\ left.lots \in Seq(Int)
    BY <1>8, <1>10, <2>1 DEF Selling, LeftType
  <2>3. ~sold.short
    <3>1. ~(book.short \/ left.remaining > 0)
      BY <1>10
    <3>2. QED
      BY <1>11, <3>1, Zenon
  <2>4. QED
    BY <1>11, <2>2, <2>3
<1>13. LotUnits(sold) = p[n] - q
  BY <1>12, LotUnitsSum, SumsOnce
<1>14. QED
  BY <1>3, <1>12, <1>13 DEF sold
-------------------------------------------------------------------------------
(* The replay of the lots *)

BookType == [lots : Seq(Int), short : BOOLEAN]

ScaledLots(lots, ratio) == [i \in DOMAIN lots |-> Scaled(lots[i], ratio)]

LEMMA ScaledLotsType ==
  ASSUME NEW lots \in Seq(Int), NEW ratio \in {"double", "halve", "zero", "none"}
  PROVE  /\ ScaledLots(lots, ratio) \in Seq(Int) /\ Len(ScaledLots(lots, ratio)) = Len(lots)
         /\ \A i \in 1 .. Len(lots) : ScaledLots(lots, ratio)[i] = Scaled(lots[i], ratio)
<1>1. Len(lots) \in Nat /\ DOMAIN lots = 1 .. Len(lots) /\ \A i \in 1 .. Len(lots) : lots[i] \in Int
  OBVIOUS
<1>2. \A i \in 1 .. Len(lots) : Scaled(lots[i], ratio) \in Int
  BY <1>1, ScaledType
<1>3. QED
  BY <1>1, <1>2 DEF ScaledLots

LEMMA SoldType ==
  ASSUME NEW book \in BookType, NEW q \in Int
  PROVE  Sold(book, q) \in BookType
<1> DEFINE n == Len(book.lots)
           base == [remaining |-> q, lots |-> <<>>]
           left == FoldLeft(Take, base, book.lots)
<1>1. book.lots \in Seq(Int) /\ book.short \in BOOLEAN
  BY DEF BookType
<1>2. n \in Nat /\ book.lots \in [1 .. n -> Int]
  BY <1>1
<1>3. base \in LeftType
  BY DEF LeftType
<1>4. left \in LeftType
  <2> HIDE DEF n, base
  <2>1. PICK h : Taken(n, book.lots, base, h) /\ left = h[n]
    BY <1>2, <1>3, TakingIs
  <2> HIDE DEF left
  <2>2. QED
    BY <1>2, <2>1 DEF Taken
<1> DEFINE short == book.short \/ left.remaining > 0
<1>5. Sold(book, q) = [lots |-> left.lots, short |-> short]
  BY DEF Sold
<1> HIDE DEF left
<1>6. left.lots \in Seq(Int) /\ short \in BOOLEAN
  BY <1>4 DEF LeftType
<1> HIDE DEF short
<1>7. QED
  BY <1>5, <1>6 DEF BookType

\* What a trade does to the lots.
LEMMA ApplyToLotsIs ==
  ASSUME NEW book \in BookType, NEW t \in TradeRow
  PROVE  /\ ApplyToLots(book, t) \in BookType
         /\ t.type = "buy" => IF t.quantity = 0 THEN ApplyToLots(book, t) = book
                              ELSE ApplyToLots(book, t) = [lots |-> Append(book.lots, t.quantity), short |-> book.short]
         /\ t.type = "sell" => ApplyToLots(book, t) = Sold(book, t.quantity)
         /\ t.type = "split" /\ t.ratio # "zero" =>
              ApplyToLots(book, t) = [lots |-> ScaledLots(book.lots, t.ratio), short |-> book.short]
<1>1. /\ t.quantity \in Int /\ t.type \in {"buy", "sell", "split"} /\ book.lots \in Seq(Int)
      /\ t.ratio \in {"double", "halve", "zero", "none"}
      /\ book.short \in BOOLEAN /\ book = [lots |-> book.lots, short |-> book.short]
  BY DEF TradeRow, BookType
<1>2. CASE t.type = "buy"
  <2> DEFINE more == Append(book.lots, t.quantity)
  <2>1. ApplyToLots(book, t) = IF t.quantity = 0 THEN book ELSE [book EXCEPT !.lots = more]
    BY <1>2 DEF ApplyToLots
  <2>2. more \in Seq(Int)
    BY <1>1
  <2> HIDE DEF more
  <2>3. [book EXCEPT !.lots = more] = [lots |-> more, short |-> book.short]
    BY <1>1
  <2>4. [lots |-> more, short |-> book.short] \in BookType
    BY <1>1, <2>2 DEF BookType
  <2>5. QED
    BY <1>2, <2>1, <2>3, <2>4 DEF more
<1>3. CASE t.type = "sell"
  <2>1. ApplyToLots(book, t) = Sold(book, t.quantity)
    BY <1>3 DEF ApplyToLots
  <2>2. QED
    BY <1>1, <1>3, <2>1, SoldType
<1>4. CASE t.type = "split"
  <2> DEFINE scaled == ScaledLots(book.lots, t.ratio)
  <2>1. ApplyToLots(book, t) = IF t.ratio = "zero" THEN book ELSE [book EXCEPT !.lots = scaled]
    BY <1>4 DEF ApplyToLots, ScaledLots
  <2>2. scaled \in Seq(Int)
    BY <1>1, ScaledLotsType
  <2> HIDE DEF scaled
  <2>3. [book EXCEPT !.lots = scaled] = [lots |-> scaled, short |-> book.short]
    BY <1>1
  <2>4. [lots |-> scaled, short |-> book.short] \in BookType
    BY <1>1, <2>2 DEF BookType
  <2>5. QED
    BY <1>4, <2>1, <2>3, <2>4 DEF scaled
<1>5. QED
  BY <1>1, <1>2, <1>3, <1>4

LotsStep(rows, g) ==
    [s \in SUBSET rows |-> IF s = {} THEN NoLots ELSE ApplyToLots(g[s \ {Latest(s)}], Latest(s))]

Books(rows) == CHOOSE g : g = LotsStep(rows, g)

LEMMA LotsBy == \A rows : Lots(rows) = Books(rows)[rows]
BY DEF Lots, ReplayTrades, MapThenFoldSet, Books, LotsStep

LEMMA BooksAre ==
  ASSUME NEW rows \in SUBSET TradeRow, IsFiniteSet(rows)
  PROVE  /\ Books(rows)[{}] = NoLots
         /\ \A s \in SUBSET rows : s # {} =>
               Books(rows)[s] = ApplyToLots(Books(rows)[s \ {Latest(s)}], Latest(s))
<1> DEFINE F == [p \in BookType \X rows |-> ApplyToLots(p[1], p[2])]
           choice == [s \in SUBSET rows |-> Latest(s)]
<1>1. NoLots \in BookType
  BY DEF NoLots, BookType
<1>2. F \in [BookType \X rows -> BookType]
  BY ApplyToLotsIs
<1>3. Choice(rows, choice)
  BY LatestChoice DEF Choice
<1>4. \A p \in BookType, t \in rows : F[<<p, t>>] = ApplyToLots(p, t)
  OBVIOUS
<1>5. \A s \in SUBSET rows : choice[s] = Latest(s)
  OBVIOUS
<1> HIDE DEF F, choice
<1>6. PICK g : Folds(rows, BookType, F, choice, NoLots, g)
  BY <1>1, <1>2, <1>3, FoldExists
<1>7. g = LotsStep(rows, g)
  <2>1. g \in [SUBSET rows -> BookType] /\ g[{}] = NoLots
    BY <1>6 DEF Folds
  <2>2. ASSUME NEW s \in SUBSET rows, s # {} PROVE g[s] = ApplyToLots(g[s \ {Latest(s)}], Latest(s))
    <3>1. Latest(s) \in rows /\ g[s \ {Latest(s)}] \in BookType
      BY <1>3, <1>5, <2>1, <2>2 DEF Choice
    <3>2. g[s] = F[<<g[s \ {Latest(s)}], Latest(s)>>]
      BY <1>5, <1>6, <2>2 DEF Folds
    <3>3. QED
      BY <1>4, <3>1, <3>2
  <2>3. QED
    BY <2>1, <2>2 DEF LotsStep
<1>8. Books(rows) = LotsStep(rows, Books(rows))
  BY <1>7 DEF Books
<1> DEFINE h == Books(rows)
<1>9. h = LotsStep(rows, h)
  BY <1>8
<1> HIDE DEF h
<1>10. h[{}] = NoLots /\ \A s \in SUBSET rows : s # {} => h[s] = ApplyToLots(h[s \ {Latest(s)}], Latest(s))
  BY <1>9 DEF LotsStep
<1>11. QED
  BY <1>10 DEF h

LEMMA BooksAgree ==
  ASSUME NEW rows \in SUBSET TradeRow, IsFiniteSet(rows), NEW part \in SUBSET rows
  PROVE  \A s \in SUBSET part : Books(rows)[s] = Books(part)[s]
<1> DEFINE T == {s \in SUBSET part : Books(rows)[s] = Books(part)[s]}
<1>1. IsFiniteSet(part) /\ part \in SUBSET TradeRow
  BY FS_Subset
<1>2. /\ Books(rows)[{}] = NoLots /\ Books(part)[{}] = NoLots
      /\ \A s \in SUBSET rows : s # {} =>
            Books(rows)[s] = ApplyToLots(Books(rows)[s \ {Latest(s)}], Latest(s))
      /\ \A s \in SUBSET part : s # {} =>
            Books(part)[s] = ApplyToLots(Books(part)[s \ {Latest(s)}], Latest(s))
  BY <1>1, BooksAre
<1>3. {} \in T
  BY <1>2
<1>4. ASSUME NEW s \in SUBSET part, s # {}, \A x \in s : s \ {x} \in T PROVE s \in T
  <2>1. Latest(s) \in s
    BY <1>1, <1>4, LatestChoice
  <2>2. s \ {Latest(s)} \in T
    BY <1>4, <2>1
  <2>3. QED
    BY <1>2, <1>4, <2>2
<1> HIDE DEF T
<1>5. \A s \in SUBSET part : s \in T
  BY <1>1, <1>3, <1>4, PartsUp
<1>6. QED
  BY <1>5 DEF T

\* The lots of a log are those of the log without its last trade, and the last trade applied.
LEMMA LotsIs ==
  ASSUME NEW rows \in SUBSET TradeRow, IsFiniteSet(rows)
  PROVE  /\ rows = {} => Lots(rows) = NoLots
         /\ rows # {} => Lots(rows) = ApplyToLots(Lots(rows \ {Latest(rows)}), Latest(rows))
<1>1. CASE rows = {}
  <2>1. Books(rows)[{}] = NoLots
    BY BooksAre
  <2>2. QED
    BY <1>1, <2>1, LotsBy
<1>2. CASE rows # {}
  <2> DEFINE rest == rows \ {Latest(rows)}
  <2>1. rest \in SUBSET rows /\ rest \in SUBSET rest /\ rows \in SUBSET rows
    OBVIOUS
  <2>2. Books(rows)[rows] = ApplyToLots(Books(rows)[rest], Latest(rows))
    BY <1>2, BooksAre
  <2> HIDE DEF rest
  <2>3. Books(rows)[rest] = Books(rest)[rest]
    BY <2>1, BooksAgree
  <2>4. QED
    BY <1>2, <2>2, <2>3, LotsBy DEF rest
<1>3. QED
  BY <1>1, <1>2
-------------------------------------------------------------------------------
(* The two replays agree *)

\* A position and a queue of lots, each of which can be halved k more times.
Agree(k, p, book) ==
    /\ p \in PositionType /\ book \in BookType
    /\ ~p.oversold => /\ ~book.short
                      /\ book.lots \in Seq(Halvable(k) \cap Nat)
                      /\ LotUnits(book) = p.units

LEMMA HalvableDiffers == ASSUME NEW k \in Nat PROVE Differences(Halvable(k))
<1>1. Halvable(k) \subseteq Int
  BY DEF Halvable
<1>2. QED
  BY <1>1, HalvableZero, HalvableSums DEF Differences

LEMMA SumIsUnits ==
  ASSUME NEW book, book.lots \in Seq(Int), NEW x, Sums(book.lots, x)
  PROVE  LotUnits(book) = x
BY LotUnitsSum, SumsOnce

LEMMA BuyAgrees ==
  ASSUME NEW k \in Nat, NEW p, NEW book, Agree(k, p, book), ~p.oversold,
         NEW t \in TradeRow, t.type = "buy", t.quantity \in Halvable(k) \cap Nat
  PROVE  Agree(k, Apply(p, t), ApplyToLots(book, t))
<1> DEFINE G == Halvable(k) \cap Nat
           q == t.quantity
           more == Append(book.lots, q)
           after == [lots |-> more, short |-> book.short]
<1>1. /\ p \in PositionType /\ book \in BookType /\ book.lots \in Seq(G) /\ book.lots \in Seq(Int)
      /\ ~book.short /\ LotUnits(book) = p.units /\ p.units \in Int /\ q \in G /\ q \in Int
  BY DEF Agree, BookType, PositionType
<1>2. Apply(p, t) = [units |-> p.units + q, oversold |-> FALSE] /\ Apply(p, t) \in PositionType
  BY <1>1, ApplyIs
<1>3. ApplyToLots(book, t) = (IF q = 0 THEN book ELSE after) /\ ApplyToLots(book, t) \in BookType
  BY <1>1, ApplyToLotsIs
<1>4. CASE q = 0
  <2>1. ApplyToLots(book, t) = book /\ p.units + q = p.units
    BY <1>1, <1>3, <1>4
  <2>2. Apply(p, t).units = p.units
    BY <1>2, <2>1
  <2>3. QED
    BY <1>1, <1>2, <2>1, <2>2 DEF Agree
<1>5. CASE q # 0
  <2>1. ApplyToLots(book, t) = after
    BY <1>3, <1>5
  <2>2. more \in Seq(G) /\ more \in Seq(Int)
    <3> HIDE DEF G, q
    <3>1. QED
      BY <1>1
  <2>3. after.lots = more /\ after.short = book.short
    OBVIOUS
  <2>4. Sums(more, p.units + q)
    <3> HIDE DEF q
    <3>1. QED
      BY <1>1, LotUnitsSum, SumsAppend
  <2> HIDE DEF more, after
  <2>5. LotUnits(after) = p.units + q
    BY <2>2, <2>3, <2>4, SumIsUnits
  <2>6. QED
    BY <1>1, <1>2, <1>3, <2>1, <2>2, <2>3, <2>5 DEF Agree
<1>6. QED
  BY <1>4, <1>5

LEMMA SellAgrees ==
  ASSUME NEW k \in Nat, NEW p, NEW book, Agree(k, p, book), ~p.oversold,
         NEW t \in TradeRow, t.type = "sell", t.quantity \in Halvable(k) \cap Nat
  PROVE  Agree(k, Apply(p, t), ApplyToLots(book, t))
<1> DEFINE H == Halvable(k)
           q == t.quantity
           sold == Sold(book, q)
<1>1. /\ p \in PositionType /\ book \in BookType /\ book.lots \in Seq(H \cap Nat)
      /\ ~book.short /\ book.short \in BOOLEAN
      /\ LotUnits(book) = p.units /\ p.units \in Int /\ q \in H \cap Nat /\ q \in Int
  BY DEF Agree, BookType, PositionType
<1>2. /\ Apply(p, t) \in PositionType
      /\ IF q > p.units THEN Apply(p, t).oversold
         ELSE Apply(p, t) = [units |-> p.units - q, oversold |-> FALSE]
  BY <1>1, ApplyIs
<1>3. ApplyToLots(book, t) = sold /\ sold \in BookType
  BY <1>1, ApplyToLotsIs
<1>4. CASE q > p.units
  BY <1>2, <1>3, <1>4 DEF Agree
<1>5. CASE ~(q > p.units)
  <2>1. q <= LotUnits(book) /\ book.short = FALSE
    BY <1>1, <1>5
  <2>2. Differences(H)
    BY HalvableDiffers
  <2> HIDE DEF H, q, sold
  <2>3. sold.lots \in Seq(H \cap Nat) /\ ~sold.short /\ LotUnits(sold) = LotUnits(book) - q
    <3>1. book.lots \in Seq(H \cap Nat) /\ q \in H \cap Nat
      BY <1>1
    <3>2. Differences(H) /\ book.short = FALSE /\ q <= LotUnits(book)
      BY <2>1, <2>2
    <3>3. Sold(book, q).lots \in Seq(H \cap Nat) /\ ~Sold(book, q).short
          /\ LotUnits(Sold(book, q)) = LotUnits(book) - q
      BY <3>1, <3>2, SoldIs
    <3>4. QED
      BY <3>3 DEF sold
  <2>4. Apply(p, t) = [units |-> p.units - q, oversold |-> FALSE]
    BY <1>2, <1>5
  <2>5. Apply(p, t).units = p.units - q
    BY <2>4
  <2>6. QED
    BY <1>1, <1>2, <1>3, <2>3, <2>5 DEF Agree, H
<1>6. QED
  BY <1>4, <1>5

\* A split without a ratio, or that doubles.
LEMMA SplitAgrees ==
  ASSUME NEW k \in Nat, NEW p, NEW book, Agree(k, p, book), ~p.oversold,
         NEW t \in TradeRow, t.type = "split", t.ratio \in {"double", "none"}
  PROVE  Agree(k, Apply(p, t), ApplyToLots(book, t))
<1> DEFINE G == Halvable(k) \cap Nat
           ratio == t.ratio
           lots == book.lots
           scaled == ScaledLots(lots, ratio)
           after == [lots |-> scaled, short |-> book.short]
<1>1. /\ p \in PositionType /\ book \in BookType /\ lots \in Seq(G) /\ lots \in Seq(Int)
      /\ ~book.short /\ LotUnits(book) = p.units /\ p.units \in Int
      /\ ratio \in {"double", "halve", "zero", "none"} /\ ratio # "zero"
  BY DEF Agree, BookType, PositionType
<1>2. Apply(p, t) = [units |-> Scaled(p.units, ratio), oversold |-> FALSE] /\ Apply(p, t) \in PositionType
  BY <1>1, ApplyIs
<1>3. ApplyToLots(book, t) = after /\ after \in BookType
  BY <1>1, ApplyToLotsIs
<1>4. /\ scaled \in Seq(Int) /\ Len(scaled) = Len(lots)
      /\ \A i \in 1 .. Len(lots) : scaled[i] = Scaled(lots[i], ratio)
  BY <1>1, ScaledLotsType
<1>5. after.lots = scaled /\ after.short = book.short
  OBVIOUS
<1>6. Apply(p, t).units = Scaled(p.units, ratio) /\ ~Apply(p, t).oversold
  BY <1>2
<1>7. Sums(lots, p.units)
  BY <1>1, LotUnitsSum
<1>8. \A i \in 1 .. Len(lots) : lots[i] \in Halvable(k) /\ lots[i] \in Nat
  <2>1. lots \in Seq(G)
    BY <1>1
  <2> HIDE DEF lots, G
  <2>2. \A i \in 1 .. Len(lots) : lots[i] \in G
    BY <2>1
  <2>3. QED
    BY <2>2 DEF G
<1> HIDE DEF scaled, after, lots
<1>9. scaled \in Seq(G) /\ Sums(scaled, Scaled(p.units, ratio))
  <2>1. CASE ratio = "double"
    <3>1. \A i \in 1 .. Len(lots) : scaled[i] = 2 * lots[i]
      BY <1>4, <2>1 DEF Scaled
    <3>2. \A i \in 1 .. Len(lots) : scaled[i] \in G
      <4>1. \A i \in 1 .. Len(lots) : 2 * lots[i] \in Halvable(k) /\ 2 * lots[i] \in Nat
        <5> SUFFICES ASSUME NEW i \in 1 .. Len(lots)
                     PROVE  2 * lots[i] \in Halvable(k) /\ 2 * lots[i] \in Nat
          OBVIOUS
        <5> DEFINE lot == lots[i]
        <5>1. lot \in Halvable(k) /\ lot \in Nat
          BY <1>8
        <5> HIDE DEF lot
        <5>2. 2 * lot \in Halvable(k) /\ 2 * lot \in Nat
          BY <5>1, HalvableSums
        <5>3. QED
          BY <5>2 DEF lot
      <4>2. QED
        BY <3>1, <4>1
    <3>3. scaled \in Seq(G)
      <4> HIDE DEF G
      <4>1. \A i \in 1 .. Len(scaled) : scaled[i] \in G
        BY <1>4, <3>2
      <4>2. scaled = [i \in 1 .. Len(scaled) |-> scaled[i]] /\ Len(scaled) \in Nat
        BY <1>4
      <4>3. QED
        BY <4>1, <4>2
    <3>4. PICK x \in Int : Sums(scaled, x)
      <4> DEFINE b == [lots |-> scaled]
      <4>1. b.lots = scaled
        OBVIOUS
      <4> HIDE DEF b
      <4>2. QED
        BY <1>4, <4>1, LotUnitsSum
    <3>5. x = 2 * p.units
      BY <1>1, <1>4, <1>7, <3>1, <3>4, SumsTwice
    <3>6. Scaled(p.units, ratio) = 2 * p.units
      BY <2>1 DEF Scaled
    <3>7. QED
      BY <3>3, <3>4, <3>5, <3>6
  <2>2. CASE ratio = "none"
    <3>1. \A i \in 1 .. Len(lots) : scaled[i] = lots[i]
      BY <1>4, <2>2 DEF Scaled
    <3>2. scaled = lots
      BY <1>1, <1>4, <3>1
    <3>3. Scaled(p.units, ratio) = p.units
      BY <2>2 DEF Scaled
    <3>4. QED
      BY <1>1, <1>7, <3>2, <3>3
  <2>3. QED
    BY <2>1, <2>2
<1>10. LotUnits(after) = Scaled(p.units, ratio)
  BY <1>4, <1>5, <1>9, SumIsUnits
<1>11. QED
  BY <1>1, <1>2, <1>3, <1>5, <1>6, <1>9, <1>10 DEF Agree

\* A split that halves.
LEMMA HalveAgrees ==
  ASSUME NEW k \in Nat, NEW p, NEW book, Agree(k + 1, p, book), ~p.oversold,
         NEW t \in TradeRow, t.type = "split", t.ratio = "halve"
  PROVE  Agree(k, Apply(p, t), ApplyToLots(book, t))
<1> DEFINE G == Halvable(k + 1) \cap Nat
           lots == book.lots
           scaled == ScaledLots(lots, t.ratio)
           after == [lots |-> scaled, short |-> book.short]
<1>1. /\ p \in PositionType /\ book \in BookType /\ lots \in Seq(G) /\ lots \in Seq(Int)
      /\ ~book.short /\ LotUnits(book) = p.units /\ p.units \in Int
      /\ t.ratio \in {"double", "halve", "zero", "none"} /\ t.ratio # "zero"
  BY DEF Agree, BookType, PositionType
<1>2. Apply(p, t) = [units |-> Scaled(p.units, t.ratio), oversold |-> FALSE] /\ Apply(p, t) \in PositionType
  BY <1>1, ApplyIs
<1>3. ApplyToLots(book, t) = after /\ after \in BookType
  BY <1>1, ApplyToLotsIs
<1>4. /\ scaled \in Seq(Int) /\ Len(scaled) = Len(lots)
      /\ \A i \in 1 .. Len(lots) : scaled[i] = lots[i] \div 2
  <2>1. \A i \in 1 .. Len(lots) : Scaled(lots[i], t.ratio) = lots[i] \div 2
    BY DEF Scaled
  <2>2. QED
    BY <1>1, <2>1, ScaledLotsType
<1>5. after.lots = scaled /\ after.short = book.short
  OBVIOUS
<1>6. Apply(p, t).units = p.units \div 2 /\ ~Apply(p, t).oversold
  BY <1>2 DEF Scaled
<1>7. Sums(lots, p.units)
  BY <1>1, LotUnitsSum
<1>8. \A i \in 1 .. Len(lots) : lots[i] \in Halvable(k + 1) /\ lots[i] \in Nat
  <2>1. lots \in Seq(G)
    BY <1>1
  <2> HIDE DEF lots, G
  <2>2. \A i \in 1 .. Len(lots) : lots[i] \in G
    BY <2>1
  <2>3. QED
    BY <2>2 DEF G
<1> HIDE DEF scaled, after, lots
<1>9. ASSUME NEW i \in 1 .. Len(lots)
      PROVE  scaled[i] \in Halvable(k) /\ scaled[i] \in Nat /\ lots[i] = 2 * scaled[i]
  <2> DEFINE lot == lots[i]
  <2>1. lot \in Halvable(k + 1) /\ lot \in Nat
    BY <1>8
  <2> HIDE DEF lot
  <2>2. lot \div 2 \in Halvable(k) /\ lot = 2 * (lot \div 2) /\ lot \div 2 \in Nat
    <3>1. lot \div 2 \in Nat
      BY <2>1
    <3>2. QED
      BY <2>1, <3>1, HalvableHalf
  <2>3. scaled[i] = lot \div 2
    BY <1>4 DEF lot
  <2>4. QED
    BY <2>2, <2>3 DEF lot
<1>10. scaled \in Seq(Halvable(k) \cap Nat)
  <2> DEFINE K == Halvable(k) \cap Nat
  <2>1. \A i \in 1 .. Len(scaled) : scaled[i] \in K
    BY <1>4, <1>9
  <2>2. scaled = [i \in 1 .. Len(scaled) |-> scaled[i]] /\ Len(scaled) \in Nat
    BY <1>4
  <2> HIDE DEF K
  <2>3. scaled \in Seq(K)
    BY <2>1, <2>2
  <2>4. QED
    BY <2>3 DEF K
<1>11. PICK x \in Int : Sums(scaled, x)
  <2> DEFINE b == [lots |-> scaled]
  <2>1. b.lots = scaled
    OBVIOUS
  <2> HIDE DEF b
  <2>2. QED
    BY <1>4, <2>1, LotUnitsSum
<1>12. p.units = 2 * x
  BY <1>1, <1>4, <1>7, <1>9, <1>11, SumsTwice
<1>13. p.units \div 2 = x
  BY <1>1, <1>11, <1>12
<1>14. LotUnits(after) = p.units \div 2
  BY <1>4, <1>5, <1>11, <1>13, SumIsUnits
<1>15. QED
  BY <1>1, <1>2, <1>3, <1>5, <1>6, <1>10, <1>14 DEF Agree

LEMMA AgreeLess ==
  ASSUME NEW j \in Nat, NEW k \in Nat, j <= k, NEW p, NEW book, Agree(k, p, book)
  PROVE  Agree(j, p, book)
<1> DEFINE H == Halvable(k) \cap Nat
           G == Halvable(j) \cap Nat
<1>1. H \subseteq G
  BY HalvableLess
<1>2. ~p.oversold => book.lots \in Seq(H)
  BY DEF Agree
<1> HIDE DEF H, G
<1>3. ~p.oversold => book.lots \in Seq(G)
  BY <1>1, <1>2
<1>4. QED
  BY <1>3 DEF Agree, G

\* A trade that leaves j of the k halvings of the log before it.
LEMMA TradeAgrees ==
  ASSUME NEW j \in Nat, NEW k \in Nat, j <= k, NEW t \in TradeRow, t.ratio # "zero",
         t.ratio = "halve" => j + 1 = k,
         t.quantity \in Halvable(k) \cap Nat,
         NEW p, NEW book, Agree(k, p, book)
  PROVE  Agree(j, Apply(p, t), ApplyToLots(book, t))
<1>1. /\ t.type \in {"buy", "sell", "split"} /\ t.ratio \in {"double", "halve", "zero", "none"}
      /\ p \in PositionType /\ book \in BookType
  BY DEF TradeRow, Agree
<1>2. CASE p.oversold
  <2>1. Apply(p, t) = p /\ ApplyToLots(book, t) \in BookType
    BY <1>1, <1>2, ApplyIs, ApplyToLotsIs
  <2>2. QED
    BY <1>1, <1>2, <2>1 DEF Agree
<1>3. CASE ~p.oversold /\ t.type = "buy"
  BY <1>3, BuyAgrees, AgreeLess
<1>4. CASE ~p.oversold /\ t.type = "sell"
  BY <1>4, SellAgrees, AgreeLess
<1>5. CASE ~p.oversold /\ t.type = "split" /\ t.ratio = "halve"
  BY <1>5, HalveAgrees
<1>6. CASE ~p.oversold /\ t.type = "split" /\ t.ratio \in {"double", "none"}
  BY <1>6, SplitAgrees, AgreeLess
<1>7. QED
  BY <1>1, <1>2, <1>3, <1>4, <1>5, <1>6

\* Rows whose quantities can be halved as often as a log may.
Plain(rows) ==
    /\ rows \in SUBSET TradeRow /\ IsFiniteSet(rows)
    /\ \A t \in rows : t.quantity \in Halvable(MaxHalvings) \cap Nat /\ t.ratio # "zero"
    /\ Halvings(rows) <= MaxHalvings

\* A log less a trade has the halvings of the log, and one less if the trade halves.
LEMMA HalvingsLess ==
  ASSUME NEW rows, IsFiniteSet(rows), NEW t \in rows
  PROVE  /\ Halvings(rows) \in Nat /\ Halvings(rows \ {t}) \in Nat
         /\ t.ratio = "halve" => Halvings(rows) = Halvings(rows \ {t}) + 1
         /\ t.ratio # "halve" => Halvings(rows) = Halvings(rows \ {t})
<1> DEFINE S == {u \in rows : u.ratio = "halve"}
           R == {u \in rows \ {t} : u.ratio = "halve"}
<1>1. IsFiniteSet(S) /\ IsFiniteSet(R)
  BY FS_Subset
<1>2. Cardinality(S) \in Nat /\ Cardinality(R) \in Nat
  BY <1>1, FS_CardinalityType
<1>3. CASE t.ratio = "halve"
  <2>1. t \in S /\ R = S \ {t}
    BY <1>3
  <2> HIDE DEF S, R
  <2>2. Cardinality(R) = Cardinality(S) - 1
    BY <1>1, <2>1, FS_RemoveElement
  <2>3. Cardinality(S) = Cardinality(R) + 1
    BY <1>2, <2>2
  <2>4. QED
    BY <1>2, <1>3, <2>3 DEF Halvings, S, R
<1>4. CASE t.ratio # "halve"
  <2>1. R = S
    BY <1>4
  <2>2. QED
    BY <1>2, <1>4, <2>1 DEF Halvings
<1>5. QED
  BY <1>3, <1>4

LEMMA HalvingsPart ==
  ASSUME NEW rows, IsFiniteSet(rows), NEW s \in SUBSET rows
  PROVE  Halvings(s) \in Nat /\ Halvings(rows) \in Nat /\ Halvings(s) <= Halvings(rows)
<1> DEFINE S == {u \in rows : u.ratio = "halve"}
           R == {u \in s : u.ratio = "halve"}
<1>1. IsFiniteSet(S) /\ R \subseteq S
  BY FS_Subset
<1> HIDE DEF S, R
<1>2. Cardinality(R) <= Cardinality(S) /\ Cardinality(R) \in Nat /\ Cardinality(S) \in Nat
  BY <1>1, FS_Subset, FS_CardinalityType
<1>3. QED
  BY <1>2 DEF Halvings, S, R

\* The average-cost replay and the FIFO replay of such rows.
LEMMA PlainAgrees ==
  ASSUME NEW rows, Plain(rows)
  PROVE  Agree(0, Position(rows), Lots(rows))
<1> DEFINE left(s) == MaxHalvings - Halvings(s)
           T == {s \in SUBSET rows : Agree(left(s), Position(s), Lots(s))}
<1>1. rows \in SUBSET TradeRow /\ IsFiniteSet(rows) /\ MaxHalvings \in Nat
  BY BoundsAssumption DEF Plain
<1>2. \A s \in SUBSET rows : left(s) \in Nat /\ IsFiniteSet(s) /\ s \in SUBSET TradeRow
  <2> SUFFICES ASSUME NEW s \in SUBSET rows PROVE left(s) \in Nat /\ IsFiniteSet(s) /\ s \in SUBSET TradeRow
    OBVIOUS
  <2>1. Halvings(s) \in Nat /\ Halvings(rows) \in Nat /\ Halvings(s) <= Halvings(rows)
    BY <1>1, HalvingsPart
  <2>2. Halvings(rows) <= MaxHalvings
    BY DEF Plain
  <2>3. left(s) \in Nat
    BY <1>1, <2>1, <2>2
  <2>4. QED
    BY <1>1, <2>3, FS_Subset
<1>3. {} \in T
  <2>1. Position({}) = NoPosition /\ Lots({}) = NoLots
    BY <1>2, PositionIs, LotsIs
  <2>2. NoLots \in BookType /\ NoPosition \in PositionType /\ ~NoLots.short
        /\ NoLots.lots = <<>> /\ NoPosition.units = 0
    BY DEF NoLots, NoPosition, BookType, PositionType
  <2>3. LotUnits(NoLots) = 0
    <3> DEFINE book == NoLots
    <3>1. book.lots \in Seq(Int) /\ Sums(book.lots, 0)
      BY <2>2, SumsNone
    <3> HIDE DEF book
    <3>2. LotUnits(book) = 0
      BY <3>1, SumIsUnits
    <3>3. QED
      BY <3>2 DEF book
  <2>4. \A k : Agree(k, NoPosition, NoLots)
    BY <2>2, <2>3 DEF Agree
  <2> HIDE DEF left
  <2>5. QED
    BY <2>1, <2>4
<1>4. ASSUME NEW s \in SUBSET rows, s # {}, \A x \in s : s \ {x} \in T PROVE s \in T
  <2> DEFINE t == Latest(s)
             rest == s \ {t}
  <2>1. /\ t \in s /\ Position(s) = Apply(Position(rest), t)
        /\ Lots(s) = ApplyToLots(Lots(rest), t)
    BY <1>2, <1>4, PositionIs, LotsIs
  <2>2. /\ t \in TradeRow /\ t.ratio # "zero" /\ t.quantity \in Halvable(MaxHalvings) \cap Nat
        /\ rest \in SUBSET rows
    BY <1>1, <2>1 DEF Plain
  <2>3. Agree(left(rest), Position(rest), Lots(rest))
    BY <1>4, <2>1
  <2> HIDE DEF t
  <2>4. /\ Halvings(s) \in Nat /\ Halvings(rest) \in Nat
        /\ t.ratio = "halve" => Halvings(s) = Halvings(rest) + 1
        /\ t.ratio # "halve" => Halvings(s) = Halvings(rest)
    BY <1>2, <2>1, HalvingsLess
  <2> HIDE DEF rest
  <2>5. left(s) \in Nat /\ left(rest) \in Nat /\ left(rest) <= MaxHalvings
    BY <1>1, <1>2, <2>2, <2>4
  <2>6. left(s) <= left(rest) /\ (t.ratio = "halve" => left(s) + 1 = left(rest))
    BY <1>1, <2>4
  <2> HIDE DEF left
  <2>7. t.quantity \in Halvable(left(rest)) \cap Nat
    BY <1>1, <2>2, <2>5, HalvableLess
  <2>8. Agree(left(s), Apply(Position(rest), t), ApplyToLots(Lots(rest), t))
    BY <2>2, <2>3, <2>5, <2>6, <2>7, TradeAgrees
  <2>9. QED
    BY <2>1, <2>8
<1> HIDE DEF T
<1>5. rows \in T
  BY <1>1, <1>3, <1>4, PartsUp
<1>6. 0 \in Nat /\ left(rows) \in Nat /\ 0 <= left(rows)
  BY <1>2
<1> HIDE DEF left
<1>7. QED
  BY <1>5, <1>6, AgreeLess DEF T
-------------------------------------------------------------------------------
(* The log stays one that can be halved *)

\* Quantities that are not negative, ratios that are not zero, and a stored quantity of as many
\* fractions as the halvings of a log make.
PlainAmounts == Amounts \subseteq Nat /\ "zero" \notin Ratios /\ Quantum \in Halvable(MaxHalvings)

\* What a session will write leaves the halvings of the log within their bound.
RoomKept ==
    \A s \in Sessions : pc[s] # "idle" =>
       /\ request[s].old \subseteq trades
       /\ IsFiniteSet(request[s].new)
       /\ \A t \in request[s].new : t.quantity \in Nat /\ t.ratio # "zero"
       /\ Halvings(trades \ request[s].old) + Halvings(request[s].new) <= MaxHalvings

PlainInvariant == TypeInvariant /\ Plain(trades) /\ RoomKept

LEMMA Image ==
  ASSUME NEW S, IsFiniteSet(S), NEW f
  PROVE  IsFiniteSet({f[x] : x \in S}) /\ Cardinality({f[x] : x \in S}) <= Cardinality(S)
<1> DEFINE of(s) == {f[x] : x \in s}
           T == {s \in SUBSET S : IsFiniteSet(of(s)) /\ Cardinality(of(s)) <= Cardinality(s)}
<1>1. {} \in T
  <2>1. of({}) = {}
    OBVIOUS
  <2>2. IsFiniteSet({}) /\ Cardinality({}) = 0
    BY FS_EmptySet
  <2> HIDE DEF of
  <2>3. QED
    BY <2>1, <2>2
<1>2. ASSUME NEW s \in SUBSET S, s # {}, \A x \in s : s \ {x} \in T PROVE s \in T
  <2>1. PICK x \in s : TRUE
    BY <1>2
  <2> DEFINE rest == s \ {x}
  <2>2. rest \in T /\ of(s) = of(rest) \cup {f[x]}
    BY <1>2, <2>1
  <2>3. Cardinality(s) \in Nat /\ Cardinality(rest) = Cardinality(s) - 1
    BY <1>2, OneLess
  <2>4. IsFiniteSet(of(rest)) /\ Cardinality(of(rest)) <= Cardinality(rest)
    BY <2>2
  <2> HIDE DEF of, rest
  <2>5. /\ IsFiniteSet(of(rest) \cup {f[x]}) /\ Cardinality(of(rest)) \in Nat
        /\ \/ Cardinality(of(rest) \cup {f[x]}) = Cardinality(of(rest))
           \/ Cardinality(of(rest) \cup {f[x]}) = Cardinality(of(rest)) + 1
    BY <2>4, FS_AddElement, FS_CardinalityType
  <2>6. IsFiniteSet(of(s)) /\ Cardinality(of(s)) <= Cardinality(s)
    BY <2>2, <2>3, <2>4, <2>5
  <2>7. QED
    BY <2>6
<1> HIDE DEF T
<1>3. \A s \in SUBSET S : s \in T
  BY <1>1, <1>2, PartsUp
<1>4. QED
  BY <1>3 DEF T

\* Rows rewritten with the ratios they have.
LEMMA HalvingsImage ==
  ASSUME NEW rows, IsFiniteSet(rows), NEW f, \A t \in rows : f[t].ratio = t.ratio
  PROVE  /\ IsFiniteSet({f[t] : t \in rows})
         /\ Halvings({f[t] : t \in rows}) \in Nat /\ Halvings(rows) \in Nat
         /\ Halvings({f[t] : t \in rows}) <= Halvings(rows)
<1> DEFINE S == {t \in rows : t.ratio = "halve"}
           image == {f[t] : t \in rows}
           R == {u \in image : u.ratio = "halve"}
<1>1. IsFiniteSet(S)
  BY FS_Subset
<1>2. R = {f[t] : t \in S}
  OBVIOUS
<1>3. IsFiniteSet(image)
  BY Image
<1> HIDE DEF S, R
<1>4. IsFiniteSet(R) /\ Cardinality(R) <= Cardinality(S)
  BY <1>1, <1>2, Image
<1>5. Cardinality(R) \in Nat /\ Cardinality(S) \in Nat
  BY <1>1, <1>4, FS_CardinalityType
<1>6. QED
  BY <1>3, <1>4, <1>5 DEF Halvings, S, R

LEMMA HalvingsUnion ==
  ASSUME NEW P, IsFiniteSet(P), NEW Q, IsFiniteSet(Q), NEW after \in SUBSET (P \cup Q)
  PROVE  /\ IsFiniteSet(after)
         /\ Halvings(after) \in Nat /\ Halvings(P) \in Nat /\ Halvings(Q) \in Nat
         /\ Halvings(after) <= Halvings(P) + Halvings(Q)
<1> DEFINE A == {t \in P : t.ratio = "halve"}
           B == {t \in Q : t.ratio = "halve"}
           C == {t \in after : t.ratio = "halve"}
<1>1. IsFiniteSet(A) /\ IsFiniteSet(B) /\ C \subseteq A \cup B
  BY FS_Subset
<1>2. IsFiniteSet(P \cup Q)
  BY FS_Union
<1>3. IsFiniteSet(after)
  BY <1>2, FS_Subset
<1> HIDE DEF A, B, C
<1>4. IsFiniteSet(A \cup B) /\ Cardinality(A \cup B) = Cardinality(A) + Cardinality(B) - Cardinality(A \cap B)
  BY <1>1, FS_Union
<1>5. IsFiniteSet(C) /\ Cardinality(C) <= Cardinality(A \cup B) /\ IsFiniteSet(A \cap B)
  BY <1>1, <1>4, FS_Subset
<1>6. /\ Cardinality(A) \in Nat /\ Cardinality(B) \in Nat /\ Cardinality(C) \in Nat
      /\ Cardinality(A \cap B) \in Nat
  BY <1>1, <1>5, FS_CardinalityType
<1>7. Cardinality(C) <= Cardinality(A) + Cardinality(B)
  BY <1>4, <1>5, <1>6
<1>8. QED
  BY <1>3, <1>6, <1>7 DEF Halvings, A, B, C

LEMMA PlainPart ==
  ASSUME NEW rows, Plain(rows), NEW part \in SUBSET rows
  PROVE  Plain(part)
<1>1. IsFiniteSet(rows) /\ MaxHalvings \in Nat /\ Halvings(rows) <= MaxHalvings
  BY BoundsAssumption DEF Plain
<1>2. IsFiniteSet(part) /\ Halvings(part) <= MaxHalvings
  BY <1>1, FS_Subset, HalvingsPart
<1>3. QED
  BY <1>2 DEF Plain

LEMMA RoundedIsPlain ==
  ASSUME PlainAmounts, NEW q \in Nat
  PROVE  Rounded(q) \in Halvable(MaxHalvings) \cap Nat
<1> DEFINE n == (2 * q + Quantum) \div (2 * Quantum)
<1>1. Quantum \in Nat \ {0} /\ Quantum \in Halvable(MaxHalvings) /\ MaxHalvings \in Nat
  BY AmountsAssumption, BoundsAssumption DEF PlainAmounts
<1>2. Rounded(q) = n * Quantum
  BY DEF Rounded
<1>3. n \in Nat
  <2>1. 2 * q + Quantum \in Nat /\ 2 * Quantum \in Nat \ {0}
    BY <1>1
  <2>2. QED
    BY <2>1
<1> HIDE DEF n
<1>4. n * Quantum \in Nat /\ n * Quantum \in Halvable(MaxHalvings)
  BY <1>1, <1>3, HalvableTimes
<1>5. QED
  BY <1>2, <1>4

\* Rows f[t] in place of some of a log's, with the ratios that room was found for.
Rewrites(rows, old, new, f, after) ==
    /\ old \in SUBSET rows /\ IsFiniteSet(new)
    /\ Halvings(rows \ old) + Halvings(new) <= MaxHalvings
    /\ \A t \in new : /\ f[t].ratio = t.ratio /\ t.ratio # "zero" /\ f[t] \in TradeRow
                      /\ f[t].quantity \in Halvable(MaxHalvings) \cap Nat
    /\ \A u \in after : u \in rows \ old \/ \E t \in new : u = f[t]

LEMMA PlainAfter ==
  ASSUME NEW rows, Plain(rows), NEW old, NEW new, NEW f, NEW after, Rewrites(rows, old, new, f, after)
  PROVE  Plain(after)
<1> DEFINE kept == rows \ old
           added == {f[t] : t \in new}
<1>0. /\ old \in SUBSET rows /\ IsFiniteSet(new)
      /\ Halvings(rows \ old) + Halvings(new) <= MaxHalvings
      /\ \A t \in new : /\ f[t].ratio = t.ratio /\ t.ratio # "zero" /\ f[t] \in TradeRow
                        /\ f[t].quantity \in Halvable(MaxHalvings) \cap Nat
      /\ \A u \in after : u \in rows \ old \/ \E t \in new : u = f[t]
  BY DEF Rewrites
<1>1. Plain(kept) /\ IsFiniteSet(kept) /\ MaxHalvings \in Nat
  BY <1>0, PlainPart, BoundsAssumption DEF Plain
<1>2. /\ IsFiniteSet(added) /\ Halvings(added) \in Nat /\ Halvings(new) \in Nat
      /\ Halvings(added) <= Halvings(new)
  BY <1>0, HalvingsImage
<1>3. \A t \in added : t \in TradeRow /\ t.quantity \in Halvable(MaxHalvings) \cap Nat /\ t.ratio # "zero"
  BY <1>0
<1>4. Halvings(kept) + Halvings(new) <= MaxHalvings /\ after \in SUBSET (kept \cup added)
  BY <1>0
<1> HIDE DEF kept, added
<1>5. /\ IsFiniteSet(after) /\ Halvings(after) \in Nat /\ Halvings(kept) \in Nat
      /\ Halvings(after) <= Halvings(kept) + Halvings(added)
  BY <1>1, <1>2, <1>4, HalvingsUnion
<1>6. Halvings(after) <= MaxHalvings
  BY <1>1, <1>2, <1>4, <1>5
<1>7. QED
  BY <1>1, <1>3, <1>4, <1>5, <1>6 DEF Plain

\* What a session's commit leaves is such a log.
LEMMA ChangedIsPlain ==
  ASSUME PlainAmounts, PlainInvariant, NEW s \in Sessions, pc[s] # "idle"
  PROVE  Plain(Changed(s))
<1> DEFINE r == request[s]
           old == r.old
           new == r.new
           G == Halvable(MaxHalvings) \cap Nat
<1>1. /\ trades \in SUBSET TradeRow /\ old \in SUBSET TradeRow /\ new \in SUBSET TradeRow
      /\ \A t, u \in trades : t.id = u.id => t = u
      /\ Wellformed(r) /\ r.op # "none"
  BY DEF PlainInvariant, TypeInvariant, TypeOK, RequestType, AskedIsBusy
<1>2. /\ Plain(trades) /\ old \in SUBSET trades /\ IsFiniteSet(new)
      /\ Halvings(trades \ old) + Halvings(new) <= MaxHalvings
      /\ \A t \in new : t.quantity \in Nat /\ t.ratio # "zero"
  BY DEF PlainInvariant, RoomKept
<1>3. CASE r.op \in Creates
  <2> DEFINE f == [t \in new |-> Stored(t)]
  <2>1. old = {}
    BY <1>1, <1>3 DEF Wellformed, Creates
  <2>2. \A t \in new : f[t].ratio = t.ratio /\ f[t] \in TradeRow /\ f[t].quantity = Rounded(t.quantity)
    <3> SUFFICES ASSUME NEW t \in new
                 PROVE  f[t].ratio = t.ratio /\ f[t] \in TradeRow /\ f[t].quantity = Rounded(t.quantity)
      OBVIOUS
    <3>1. t \in TradeRow /\ f[t] = Stored(t)
      BY <1>1
    <3> HIDE DEF f, new
    <3>2. Stored(t) \in TradeRow /\ Stored(t).ratio = t.ratio /\ Stored(t).quantity = Rounded(t.quantity)
      BY <3>1, StoredType DEF Stored, TradeRow
    <3>3. QED
      BY <3>1, <3>2
  <2>3. \A t \in new : f[t].quantity \in G
    BY <1>2, <2>2, RoundedIsPlain
  <2>4. Changed(s) = trades \cup {Stored(t) : t \in new}
    BY <1>3 DEF Changed, Creates
  <2>5. \A u \in Changed(s) : u \in trades \ old \/ \E t \in new : u = f[t]
    BY <2>1, <2>4
  <2> HIDE DEF f, old, new
  <2>6. \A t \in new : /\ f[t].ratio = t.ratio /\ t.ratio # "zero" /\ f[t] \in TradeRow
                       /\ f[t].quantity \in G
    BY <1>2, <2>2, <2>3
  <2>7. QED
    <3>1. Rewrites(trades, old, new, f, Changed(s))
      BY <1>2, <2>5, <2>6 DEF Rewrites
    <3>2. QED
      BY <1>2, <3>1, PlainAfter
<1>4. CASE r.op = "update"
  <2>1. PICK o \in old, n \in new : old = {o} /\ new = {n} /\ n.id = o.id
    BY <1>1, <1>4 DEF Wellformed, Creates
  <2> DEFINE m == Merge(o, o, n)
             f == [t \in new |-> m]
  <2>2. o \in TradeRow /\ n \in TradeRow /\ o \in trades
    BY <1>1, <1>2, <2>1
  <2>3. Changed(s) \in SUBSET ((trades \ old) \cup {m})
    <3> SUFFICES ASSUME NEW row \in Changed(s) PROVE row \in (trades \ old) \cup {m}
      OBVIOUS
    <3>1. Only(old) = o /\ Only(new) = n
      BY <2>1, OnlyOne
    <3>2. Changed(s) = {IF \E p \in r.old : p.id = x.id
                        THEN Merge(x, Only(r.old), Only(r.new)) ELSE x : x \in trades}
      BY <1>4 DEF Changed
    <3>3. PICK x \in trades : row = IF o.id = x.id THEN Merge(x, o, n) ELSE x
      <4>1. \A x : (\E p \in old : p.id = x.id) <=> o.id = x.id
        BY <2>1
      <4> HIDE DEF r
      <4>2. QED
        BY <3>1, <3>2, <4>1
    <3>4. CASE o.id = x.id
      <4>1. x = o
        BY <1>1, <2>2, <3>4
      <4>2. QED
        BY <3>3, <3>4, <4>1
    <3>5. CASE o.id # x.id
      <4>1. row = x /\ x # o
        BY <3>3, <3>5
      <4>2. QED
        BY <2>1, <4>1
    <3>6. QED
      BY <3>4, <3>5
  <2>4. m \in TradeRow
    BY <2>2, MergeType
  <2>5. m.ratio = n.ratio /\ m.quantity = IF n.quantity = o.quantity THEN o.quantity ELSE Rounded(n.quantity)
    <3>1. m.ratio = IF n.ratio = o.ratio THEN o.ratio ELSE n.ratio
      BY DEF Merge, Column
    <3>2. m.quantity = IF n.quantity = o.quantity THEN o.quantity ELSE Rounded(n.quantity)
      BY DEF Merge
    <3>3. QED
      BY <3>1, <3>2
  <2>6. m.quantity \in G
    <3>1. o.quantity \in G /\ n.quantity \in Nat
      BY <1>2, <2>1, <2>2 DEF Plain
    <3>2. Rounded(n.quantity) \in G
      BY <3>1, RoundedIsPlain
    <3>3. QED
      BY <2>5, <3>1, <3>2
  <2>7. \A t \in new : f[t] = m /\ t = n
    BY <2>1
  <2>8. \A u \in Changed(s) : u \in trades \ old \/ \E t \in new : u = f[t]
    <3> HIDE DEF m, f, old, new
    <3>1. QED
      BY <2>1, <2>3, <2>7
  <2>9. n.ratio # "zero"
    BY <1>2
  <2> HIDE DEF m, f, old, new
  <2>10. \A t \in new : /\ f[t].ratio = t.ratio /\ t.ratio # "zero" /\ f[t] \in TradeRow
                        /\ f[t].quantity \in G
    BY <2>4, <2>5, <2>6, <2>7, <2>9
  <2>11. QED
    <3>1. Rewrites(trades, old, new, f, Changed(s))
      BY <1>2, <2>8, <2>10 DEF Rewrites
    <3>2. QED
      BY <1>2, <3>1, PlainAfter
<1>5. CASE r.op = "delete"
  <2>1. Changed(s) \in SUBSET trades
    BY <1>5 DEF Changed
  <2>2. QED
    BY <1>2, <2>1, PlainPart
<1>6. QED
  BY <1>1, <1>3, <1>4, <1>5 DEF Wellformed

\* A new request leaves room.
LEMMA AskKeepsRoom ==
  ASSUME OneAtATime, PlainInvariant, NEW s \in Sessions, NEW op, NEW old, NEW new,
         Ask(s, op, old, new), old \subseteq trades, IsFiniteSet(new),
         \A t \in new : t.quantity \in Nat /\ t.ratio # "zero"
  PROVE  Plain(trades)' /\ RoomKept'
<1>1. /\ trades' = trades /\ pc'[s] = "asked"
      /\ request'[s].old = old /\ request'[s].new = new
      /\ Halvings(trades \ old) + Halvings(new) <= MaxHalvings
  BY DEF Ask, PlainInvariant, TypeInvariant, TypeOK
<1>2. \A u \in Sessions : u = s
  BY DEF OneAtATime
<1>3. Halvings(trades' \ request'[s].old) + Halvings(request'[s].new) <= MaxHalvings
  BY <1>1
<1>4. RoomKept'
  BY <1>1, <1>2, <1>3 DEF RoomKept
<1>5. QED
  BY <1>1, <1>4 DEF PlainInvariant

LEMMA BodyIsPlain ==
  ASSUME PlainAmounts, NEW id, NEW account, NEW day, NEW body \in Bodies
  PROVE  /\ Row(id, account, day, body).quantity \in Nat
         /\ Row(id, account, day, body).ratio # "zero"
<1>1. body.quantity \in Nat /\ body.ratio # "zero"
  <2>1. \/ body \in [type : {"buy", "sell"}, quantity : Amounts, ratio : {"none"}]
        \/ body \in [type : {"split"}, quantity : {0}, ratio : Ratios]
    BY DEF Bodies
  <2>2. body.quantity \in Amounts \cup {0} /\ body.ratio \in Ratios \cup {"none"}
    BY <2>1
  <2>3. Amounts \cup {0} \subseteq Nat /\ "zero" \notin Ratios
    BY DEF PlainAmounts
  <2>4. "zero" \notin Ratios \cup {"none"}
    BY <2>3
  <2>5. QED
    BY <2>2, <2>3, <2>4
<1>2. QED
  BY <1>1 DEF Row

LEMMA HoldersFinite ==
  ASSUME NEW rows, IsFiniteSet(rows)
  PROVE  IsFiniteSet(Holders(rows))
<1> DEFINE f == [t \in rows |-> t.account]
<1>1. Traded(rows) = {f[t] : t \in rows}
  BY DEF Traded
<1> HIDE DEF f
<1>2. IsFiniteSet(Traded(rows))
  BY <1>1, Image
<1>3. Holders(rows) \in SUBSET Traded(rows)
  BY DEF Holders
<1>4. QED
  BY <1>2, <1>3, FS_Subset

\* The rows of a split without an account.
FanOut(n, day, ratio) ==
    {Row(<<n, a>>, a, day, [type |-> "split", quantity |-> 0, ratio |-> ratio]) : a \in Holders(trades)}

LEMMA FanOutIsPlain ==
  ASSUME PlainAmounts, IsFiniteSet(trades), NEW n, NEW day, NEW ratio \in Ratios
  PROVE  /\ IsFiniteSet(FanOut(n, day, ratio))
         /\ \A t \in FanOut(n, day, ratio) : t.quantity \in Nat /\ t.ratio # "zero"
<1> DEFINE row(a) == Row(<<n, a>>, a, day, [type |-> "split", quantity |-> 0, ratio |-> ratio])
           f == [a \in Holders(trades) |-> row(a)]
<1>1. \A a : row(a).quantity = 0 /\ row(a).ratio = ratio
  BY DEF Row
<1>2. FanOut(n, day, ratio) = {row(a) : a \in Holders(trades)}
  BY DEF FanOut
<1> HIDE DEF row
<1>3. FanOut(n, day, ratio) = {f[a] : a \in Holders(trades)}
  BY <1>2
<1>4. ratio # "zero"
  BY DEF PlainAmounts
<1> HIDE DEF f
<1>5. IsFiniteSet(FanOut(n, day, ratio))
  BY <1>3, HoldersFinite, Image
<1>6. QED
  BY <1>1, <1>2, <1>4, <1>5

LEMMA PlainStep ==
  ASSUME OneAtATime, PlainAmounts, PlainInvariant, Next
  PROVE  Plain(trades)' /\ RoomKept'
<1>1. ASSUME NEW s \in Sessions, AskCreate(s) PROVE Plain(trades)' /\ RoomKept'
  <2>1. PICK n \in 1 .. MaxCreates, account \in Accounts, day \in Day, body \in Bodies :
          Ask(s, "create", {}, {Row(<<n, account>>, account, day, body)})
    BY <1>1 DEF AskCreate
  <2> DEFINE row == Row(<<n, account>>, account, day, body)
  <2>2. row.quantity \in Nat /\ row.ratio # "zero"
    BY BodyIsPlain
  <2>3. Ask(s, "create", {}, {row})
    BY <2>1
  <2> HIDE DEF row
  <2>4. {} \subseteq trades /\ IsFiniteSet({row}) /\ \A t \in {row} : t.quantity \in Nat /\ t.ratio # "zero"
    BY <2>2, FS_Singleton
  <2>5. QED
    BY <2>3, <2>4, AskKeepsRoom
<1>2. ASSUME NEW s \in Sessions, AskFanOut(s) PROVE Plain(trades)' /\ RoomKept'
  <2>1. PICK n \in 1 .. MaxCreates, day \in Day, ratio \in Ratios :
          Ask(s, "fanOut", {}, FanOut(n, day, ratio))
    BY <1>2 DEF AskFanOut, FanOut
  <2>2. IsFiniteSet(trades) /\ {} \subseteq trades
    BY DEF PlainInvariant, Plain
  <2> DEFINE rows == FanOut(n, day, ratio)
  <2>3. IsFiniteSet(rows) /\ \A t \in rows : t.quantity \in Nat /\ t.ratio # "zero"
    BY <2>2, FanOutIsPlain
  <2> HIDE DEF rows
  <2>4. Ask(s, "fanOut", {}, rows)
    BY <2>1 DEF rows
  <2>5. QED
    BY <2>2, <2>3, <2>4, AskKeepsRoom
<1>3. ASSUME NEW s \in Sessions, AskUpdate(s) PROVE Plain(trades)' /\ RoomKept'
  <2>1. PICK t \in trades, account \in Accounts, day \in Day, body \in Bodies :
          Ask(s, "update", {t}, {Row(t.id, account, day, body)})
    BY <1>3 DEF AskUpdate
  <2> DEFINE row == Row(t.id, account, day, body)
  <2>2. row.quantity \in Nat /\ row.ratio # "zero"
    BY BodyIsPlain
  <2>3. Ask(s, "update", {t}, {row})
    BY <2>1
  <2> HIDE DEF row
  <2>4. {t} \subseteq trades /\ IsFiniteSet({row}) /\ \A u \in {row} : u.quantity \in Nat /\ u.ratio # "zero"
    BY <2>1, <2>2, FS_Singleton
  <2>5. QED
    BY <2>3, <2>4, AskKeepsRoom
<1>4. ASSUME NEW s \in Sessions, AskDelete(s) PROVE Plain(trades)' /\ RoomKept'
  <2>1. PICK t \in trades : Ask(s, "delete", {t}, {})
    BY <1>4 DEF AskDelete
  <2>2. IsFiniteSet({}) /\ {t} \subseteq trades
    BY FS_EmptySet
  <2>3. QED
    BY <2>1, <2>2, AskKeepsRoom
<1>5. ASSUME NEW s \in Sessions, Validate(s) PROVE Plain(trades)' /\ RoomKept'
  <2>1. UNCHANGED <<trades, request>> /\ pc[s] # "idle" /\ \A u \in Sessions : u = s
    BY <1>5 DEF Validate, OneAtATime
  <2>2. Halvings(trades \ request[s].old)' = Halvings(trades \ request[s].old)
    BY <2>1
  <2>3. Halvings(request[s].new)' = Halvings(request[s].new)
    BY <2>1
  <2>4. RoomKept'
    BY <2>1, <2>2, <2>3 DEF PlainInvariant, RoomKept
  <2>5. QED
    BY <2>1, <2>4 DEF PlainInvariant
<1>6. ASSUME NEW s \in Sessions, pc' = [pc EXCEPT ![s] = "idle"] PROVE RoomKept'
  <2>1. \A u \in Sessions : pc'[u] = "idle"
    BY <1>6 DEF OneAtATime, PlainInvariant, TypeInvariant, TypeOK
  <2>2. QED
    BY <2>1 DEF RoomKept
<1>7. ASSUME NEW s \in Sessions, Refuse(s) PROVE Plain(trades)' /\ RoomKept'
  <2>1. trades' = trades /\ pc' = [pc EXCEPT ![s] = "idle"]
    BY <1>7 DEF Refuse
  <2>2. QED
    BY <1>6, <2>1 DEF PlainInvariant
<1>8. ASSUME NEW s \in Sessions, Commit(s) PROVE Plain(trades)' /\ RoomKept'
  <2>1. trades' = Changed(s) /\ pc' = [pc EXCEPT ![s] = "idle"] /\ pc[s] # "idle"
    BY <1>8 DEF Commit
  <2>2. Plain(Changed(s))
    BY <2>1, ChangedIsPlain
  <2>3. QED
    BY <1>6, <2>1, <2>2
<1>9. QED
  BY <1>1, <1>2, <1>3, <1>4, <1>5, <1>7, <1>8 DEF Next, SessionStep

LEMMA PlainMethods == PlainInvariant => ReplaysAgree
<1> SUFFICES ASSUME PlainInvariant, NEW a \in Traded(trades), ~Oversold(a, trades)
             PROVE  LET book == Lots(Of(a, trades))
                    IN  ~book.short /\ LotUnits(book) = Units(a, trades)
  BY DEF ReplaysAgree
<1> DEFINE rows == Of(a, trades)
<1>1. rows \in SUBSET trades
  BY DEF Of
<1> HIDE DEF rows
<1>2. Plain(rows)
  BY <1>1, PlainPart DEF PlainInvariant
<1>3. Agree(0, Position(rows), Lots(rows))
  BY <1>2, PlainAgrees
<1>4. ~Position(rows).oversold /\ Units(a, trades) = Position(rows).units
  BY DEF Oversold, Units, rows
<1>5. QED
  BY <1>3, <1>4 DEF Agree, rows

LEMMA PlainInit == Init => PlainInvariant
<1>1. Init => TypeInvariant
  BY DEF Init, TypeInvariant, TypeOK, AskedIsBusy, NewIdsAreNew, Wellformed, NoRequest,
         RequestType, Creates
<1>2. ASSUME Init PROVE Plain(trades) /\ RoomKept
  <2>1. trades = {} /\ \A s \in Sessions : pc[s] = "idle"
    BY <1>2 DEF Init
  <2>2. IsFiniteSet({}) /\ Cardinality({}) = 0 /\ MaxHalvings \in Nat
    BY FS_EmptySet, BoundsAssumption
  <2>3. Halvings({}) = 0
    <3>1. {t \in {} : t.ratio = "halve"} = {}
      OBVIOUS
    <3>2. QED
      BY <2>2, <3>1 DEF Halvings
  <2>4. QED
    BY <2>1, <2>2, <2>3 DEF Plain, RoomKept
<1>3. QED
  BY <1>1, <1>2 DEF PlainInvariant

LEMMA PlainKept ==
  ASSUME OneAtATime, PlainAmounts
  PROVE  PlainInvariant /\ [Next]_vars => PlainInvariant'
<1>1. ASSUME PlainInvariant, UNCHANGED vars
      PROVE  Plain(trades)' /\ RoomKept'
  <2>1. trades' = trades /\ pc' = pc /\ request' = request
    BY <1>1 DEF vars
  <2>2. \A s \in Sessions : /\ Halvings(trades \ request[s].old)' = Halvings(trades \ request[s].old)
                            /\ Halvings(request[s].new)' = Halvings(request[s].new)
    BY <2>1
  <2>3. QED
    BY <1>1, <2>1, <2>2 DEF PlainInvariant, RoomKept
<1>2. QED
  BY <1>1, PlainStep, StepType DEF PlainInvariant

\* With one session at a time, quantities that are not negative, ratios that are not zero and no
\* halving that leaves a fraction, what the average-cost replay of a log accepts the FIFO replay
\* finds lots for, and both leave the same units.
THEOREM MethodsAgree == OneAtATime /\ PlainAmounts => (Spec => []ReplaysAgree)
<1> SUFFICES ASSUME OneAtATime, PlainAmounts PROVE Spec => []ReplaysAgree
  OBVIOUS
<1>1. PlainInvariant /\ [Next]_vars => PlainInvariant'
  BY PlainKept
<1>2. QED
  BY <1>1, PlainInit, PlainMethods, PTL DEF Spec
-------------------------------------------------------------------------------
(* Splits without an account *)

NoNegativeAmounts == Amounts \subseteq Nat

\* Finitely many rows, of quantities that are not negative.
Counted(rows) == IsFiniteSet(rows) /\ \A t \in rows : t.quantity \in Nat

HeldAreCounted == \A s \in Sessions : pc[s] # "idle" => Counted(request[s].new)

\* A split that a session is about to enter: a row for each holder, later than all of the log.
FreshFanOut(new) ==
    /\ \A a \in Traded(trades) : ~Oversold(a, trades)
    /\ \E n \in 1 .. MaxCreates, day \in Day, ratio \in Ratios :
          new = FanOut(n, day, ratio) /\ \A u \in trades : u.id[1] < n

FanOutsAreFresh ==
    \A s \in Sessions : pc[s] # "idle" /\ request[s].op = "fanOut" => FreshFanOut(request[s].new)

FanOutInvariant == TypeInvariant /\ Counted(trades) /\ HeldAreCounted /\ FanOutsAreFresh

LEMMA RoundedIsCounted ==
  ASSUME NEW q \in Nat
  PROVE  Rounded(q) \in Nat /\ Rounded(0) = 0
<1>1. Quantum \in Nat \ {0}
  BY AmountsAssumption
<1> DEFINE n(x) == (2 * x + Quantum) \div (2 * Quantum)
<1>2. n(q) \in Nat /\ n(0) = 0
  <2>1. 2 * q + Quantum \in Nat /\ 2 * Quantum \in Nat \ {0}
    BY <1>1
  <2>2. n(q) \in Nat
    BY <2>1
  <2>3. 2 * 0 + Quantum = Quantum /\ Quantum < 2 * Quantum
    BY <1>1
  <2>4. Quantum \div (2 * Quantum) = 0
    BY <1>1, <2>1, <2>3
  <2>5. QED
    BY <2>2, <2>3, <2>4
<1>3. Rounded(q) = n(q) * Quantum /\ Rounded(0) = n(0) * Quantum
  BY DEF Rounded
<1> HIDE DEF n
<1>4. QED
  BY <1>1, <1>2, <1>3

LEMMA ChangedIsCounted ==
  ASSUME FanOutInvariant, NEW s \in Sessions, pc[s] # "idle"
  PROVE  Counted(Changed(s))
<1> DEFINE r == request[s]
           new == r.new
<1>1. /\ trades \in SUBSET TradeRow /\ new \in SUBSET TradeRow
      /\ Wellformed(r) /\ r.op # "none"
  BY DEF FanOutInvariant, TypeInvariant, TypeOK, RequestType, AskedIsBusy
<1>2. Counted(trades) /\ Counted(new)
  BY DEF FanOutInvariant, HeldAreCounted
<1>3. CASE r.op \in Creates
  <2> DEFINE f == [t \in new |-> Stored(t)]
             added == {f[t] : t \in new}
  <2>1. Changed(s) = trades \cup added
    BY <1>3 DEF Changed, Creates
  <2>2. IsFiniteSet(added)
    <3> HIDE DEF f, new
    <3>1. QED
      BY <1>2, Image DEF Counted
  <2>3. \A t \in new : f[t].quantity = Rounded(t.quantity)
    BY <1>1 DEF Stored, TradeRow
  <2>4. \A t \in new : Rounded(t.quantity) \in Nat
    BY <1>2, RoundedIsCounted DEF Counted
  <2> HIDE DEF f, new
  <2>5. \A u \in added : u.quantity \in Nat
    BY <2>3, <2>4
  <2> HIDE DEF added
  <2>6. QED
    BY <1>2, <2>1, <2>2, <2>5, FS_Union DEF Counted
<1>4. CASE r.op = "update"
  <2>1. PICK o \in r.old, n \in new : r.old = {o} /\ new = {n} /\ n.id = o.id
    BY <1>1, <1>4 DEF Wellformed, Creates
  <2> DEFINE g == [x \in trades |-> IF o.id = x.id THEN Merge(x, o, n) ELSE x]
  <2>2. Changed(s) = {g[x] : x \in trades}
    <3>1. Only(r.old) = o /\ Only(new) = n /\ \A x : (\E p \in r.old : p.id = x.id) <=> o.id = x.id
      BY <2>1, OnlyOne
    <3>2. Changed(s) = {IF \E p \in r.old : p.id = x.id
                        THEN Merge(x, Only(r.old), Only(new)) ELSE x : x \in trades}
      BY <1>4 DEF Changed
    <3> HIDE DEF r, new
    <3>3. QED
      BY <3>1, <3>2
  <2>3. ASSUME NEW x \in trades PROVE g[x].quantity \in Nat
    <3>1. Merge(x, o, n).quantity = IF n.quantity = o.quantity THEN x.quantity ELSE Rounded(n.quantity)
      BY DEF Merge
    <3>2. x.quantity \in Nat /\ n.quantity \in Nat
      BY <1>2, <2>1 DEF Counted
    <3>3. Merge(x, o, n).quantity \in Nat
      BY <3>1, <3>2, RoundedIsCounted
    <3>4. QED
      BY <3>2, <3>3
  <2> HIDE DEF g
  <2>4. IsFiniteSet({g[x] : x \in trades})
    BY <1>2, Image DEF Counted
  <2>5. QED
    BY <2>2, <2>3, <2>4 DEF Counted
<1>5. CASE r.op = "delete"
  <2>1. Changed(s) \in SUBSET trades
    BY <1>5 DEF Changed
  <2>2. QED
    BY <1>2, <2>1, FS_Subset DEF Counted
<1>6. QED
  BY <1>1, <1>3, <1>4, <1>5 DEF Wellformed

LEMMA AskKeepsCount ==
  ASSUME OneAtATime, FanOutInvariant, NEW s \in Sessions, NEW op, NEW old, NEW new,
         Ask(s, op, old, new), Counted(new), op = "fanOut" => FreshFanOut(new)
  PROVE  Counted(trades)' /\ HeldAreCounted' /\ FanOutsAreFresh'
<1>1. /\ trades' = trades /\ pc'[s] = "asked"
      /\ request'[s].new = new /\ request'[s].op = op
  BY DEF Ask, FanOutInvariant, TypeInvariant, TypeOK
<1>2. \A u \in Sessions : u = s
  BY DEF OneAtATime
<1>3. HeldAreCounted'
  BY <1>1, <1>2 DEF HeldAreCounted, Counted
<1>4. FreshFanOut(new) => FreshFanOut(request[s].new)'
  BY <1>1 DEF FreshFanOut, FanOut
<1>5. FanOutsAreFresh'
  BY <1>1, <1>2, <1>4 DEF FanOutsAreFresh
<1>6. Counted(trades)'
  BY <1>1 DEF FanOutInvariant
<1>7. QED
  BY <1>3, <1>5, <1>6

LEMMA BodyIsCounted ==
  ASSUME NoNegativeAmounts, NEW id, NEW account, NEW day, NEW body \in Bodies
  PROVE  Row(id, account, day, body).quantity \in Nat
<1>1. \/ body \in [type : {"buy", "sell"}, quantity : Amounts, ratio : {"none"}]
      \/ body \in [type : {"split"}, quantity : {0}, ratio : Ratios]
  BY DEF Bodies
<1>2. body.quantity \in Nat
  <2>1. body.quantity \in Amounts \cup {0}
    BY <1>1
  <2>2. Amounts \cup {0} \subseteq Nat
    BY DEF NoNegativeAmounts
  <2>3. QED
    BY <2>1, <2>2
<1>3. QED
  BY <1>2 DEF Row

LEMMA FanOutIsCounted ==
  ASSUME IsFiniteSet(trades), NEW n, NEW day, NEW ratio
  PROVE  Counted(FanOut(n, day, ratio))
<1> DEFINE row(a) == Row(<<n, a>>, a, day, [type |-> "split", quantity |-> 0, ratio |-> ratio])
           f == [a \in Holders(trades) |-> row(a)]
<1>1. \A a : row(a).quantity = 0
  BY DEF Row
<1>2. FanOut(n, day, ratio) = {row(a) : a \in Holders(trades)}
  BY DEF FanOut
<1> HIDE DEF row
<1>3. FanOut(n, day, ratio) = {f[a] : a \in Holders(trades)}
  BY <1>2
<1> HIDE DEF f
<1>4. IsFiniteSet(FanOut(n, day, ratio))
  BY <1>3, HoldersFinite, Image
<1>5. QED
  BY <1>1, <1>2, <1>4 DEF Counted

LEMMA FanOutStep ==
  ASSUME OneAtATime, NoNegativeAmounts, FanOutInvariant, Next
  PROVE  Counted(trades)' /\ HeldAreCounted' /\ FanOutsAreFresh'
<1> DEFINE Kept == Counted(trades)' /\ HeldAreCounted' /\ FanOutsAreFresh'
<1>1. ASSUME NEW s \in Sessions, AskCreate(s) PROVE Kept
  <2>1. PICK n \in 1 .. MaxCreates, account \in Accounts, day \in Day, body \in Bodies :
          Ask(s, "create", {}, {Row(<<n, account>>, account, day, body)})
    BY <1>1 DEF AskCreate
  <2> DEFINE row == Row(<<n, account>>, account, day, body)
  <2>2. row.quantity \in Nat
    BY BodyIsCounted
  <2>3. Ask(s, "create", {}, {row})
    BY <2>1
  <2> HIDE DEF row
  <2>4. Counted({row})
    BY <2>2, FS_Singleton DEF Counted
  <2>5. QED
    BY <2>3, <2>4, AskKeepsCount
<1>2. ASSUME NEW s \in Sessions, AskFanOut(s) PROVE Kept
  <2>1. PICK n \in 1 .. MaxCreates, day \in Day, ratio \in Ratios :
          IsNow(n) /\ Ask(s, "fanOut", {}, FanOut(n, day, ratio))
    BY <1>2 DEF AskFanOut, FanOut
  <2>2. \A u \in trades : u.id[1] < n
    BY <2>1 DEF IsNow
  <2>3. \A a \in Traded(trades) : ~Oversold(a, trades)
    BY <1>2 DEF AskFanOut
  <2> DEFINE rows == FanOut(n, day, ratio)
  <2>4. Counted(rows)
    BY FanOutIsCounted DEF FanOutInvariant, Counted
  <2>5. FreshFanOut(rows)
    BY <2>2, <2>3 DEF FreshFanOut
  <2>6. Ask(s, "fanOut", {}, rows)
    BY <2>1
  <2> HIDE DEF rows
  <2>7. QED
    BY <2>4, <2>5, <2>6, AskKeepsCount
<1>3. ASSUME NEW s \in Sessions, AskUpdate(s) PROVE Kept
  <2>1. PICK t \in trades, account \in Accounts, day \in Day, body \in Bodies :
          Ask(s, "update", {t}, {Row(t.id, account, day, body)})
    BY <1>3 DEF AskUpdate
  <2> DEFINE row == Row(t.id, account, day, body)
  <2>2. row.quantity \in Nat
    BY BodyIsCounted
  <2>3. Ask(s, "update", {t}, {row})
    BY <2>1
  <2> HIDE DEF row
  <2>4. Counted({row})
    BY <2>2, FS_Singleton DEF Counted
  <2>5. QED
    BY <2>3, <2>4, AskKeepsCount
<1>4. ASSUME NEW s \in Sessions, AskDelete(s) PROVE Kept
  <2>1. PICK t \in trades : Ask(s, "delete", {t}, {})
    BY <1>4 DEF AskDelete
  <2>2. Counted({})
    BY FS_EmptySet DEF Counted
  <2>3. QED
    BY <2>1, <2>2, AskKeepsCount
<1>5. ASSUME NEW s \in Sessions, Validate(s) PROVE Kept
  <2>1. trades' = trades /\ request' = request /\ pc[s] # "idle" /\ \A u \in Sessions : u = s
    BY <1>5 DEF Validate, OneAtATime
  <2>2. HeldAreCounted'
    BY <2>1 DEF FanOutInvariant, HeldAreCounted
  <2>3. FreshFanOut(request[s].new) => FreshFanOut(request[s].new)'
    BY <2>1 DEF FreshFanOut, FanOut
  <2>4. FanOutsAreFresh'
    BY <2>1, <2>3 DEF FanOutInvariant, FanOutsAreFresh
  <2>5. Counted(trades)'
    BY <2>1 DEF FanOutInvariant
  <2>6. QED
    BY <2>2, <2>4, <2>5
<1>6. ASSUME NEW s \in Sessions, pc' = [pc EXCEPT ![s] = "idle"] PROVE HeldAreCounted' /\ FanOutsAreFresh'
  <2>1. \A u \in Sessions : pc'[u] = "idle"
    BY <1>6 DEF OneAtATime, FanOutInvariant, TypeInvariant, TypeOK
  <2>2. QED
    BY <2>1 DEF HeldAreCounted, FanOutsAreFresh
<1>7. ASSUME NEW s \in Sessions, Refuse(s) PROVE Kept
  <2>1. trades' = trades /\ pc' = [pc EXCEPT ![s] = "idle"]
    BY <1>7 DEF Refuse
  <2>2. QED
    BY <1>6, <2>1 DEF FanOutInvariant
<1>8. ASSUME NEW s \in Sessions, Commit(s) PROVE Kept
  <2>1. trades' = Changed(s) /\ pc' = [pc EXCEPT ![s] = "idle"] /\ pc[s] # "idle"
    BY <1>8 DEF Commit
  <2>2. Counted(Changed(s))
    BY <2>1, ChangedIsCounted
  <2>3. QED
    BY <1>6, <2>1, <2>2
<1> HIDE DEF Kept
<1>9. Kept
  BY <1>1, <1>2, <1>3, <1>4, <1>5, <1>7, <1>8 DEF Next, SessionStep
<1>10. QED
  BY <1>9 DEF Kept

\* Units do not go below zero: what would take them there is oversold instead.
LEMMA UnitsNotNegative ==
  ASSUME NEW rows \in SUBSET TradeRow, Counted(rows)
  PROVE  Position(rows).oversold \/ Position(rows).units \in Nat
<1> DEFINE T == {s \in SUBSET rows : Position(s).oversold \/ Position(s).units \in Nat}
<1>1. \A s \in SUBSET rows : IsFiniteSet(s) /\ s \in SUBSET TradeRow
  BY FS_Subset DEF Counted
<1>2. {} \in T
  <2>1. IsFiniteSet({}) /\ {} \in SUBSET TradeRow
    BY <1>1
  <2>2. Position({}) = NoPosition
    BY <2>1, PositionIs
  <2>3. NoPosition.units = 0
    BY DEF NoPosition
  <2>4. QED
    BY <2>2, <2>3
<1>3. ASSUME NEW s \in SUBSET rows, s # {}, \A x \in s : s \ {x} \in T PROVE s \in T
  <2> DEFINE t == Latest(s)
             rest == s \ {t}
             p == Position(rest)
  <2>1. t \in s /\ Position(s) = Apply(p, t)
    BY <1>1, <1>3, PositionIs
  <2>2. t \in TradeRow /\ t.quantity \in Nat /\ rest \in SUBSET rows
    BY <1>1, <2>1 DEF Counted
  <2>3. p \in PositionType /\ (p.oversold \/ p.units \in Nat)
    BY <1>1, <1>3, <2>1, <2>2, PositionTyped
  <2> HIDE DEF p, rest, t
  <2>4. Apply(p, t).oversold \/ Apply(p, t).units \in Nat
    <3>1. CASE p.oversold
      BY <2>2, <2>3, <3>1, ApplyIs
    <3>2. CASE ~p.oversold
      <4>1. p.units \in Nat /\ t.type \in {"buy", "sell", "split"} /\ t.ratio \in {"double", "halve", "zero", "none"}
        BY <2>2, <2>3, <3>2 DEF TradeRow
      <4>2. CASE t.type = "buy"
        <5>1. Apply(p, t) = [units |-> p.units + t.quantity, oversold |-> FALSE]
          BY <2>2, <2>3, <3>2, <4>2, ApplyIs
        <5>2. Apply(p, t).units = p.units + t.quantity
          BY <5>1
        <5>3. QED
          BY <2>2, <4>1, <5>2
      <4>3. CASE t.type = "sell"
        <5>1. IF t.quantity > p.units THEN Apply(p, t).oversold
              ELSE Apply(p, t) = [units |-> p.units - t.quantity, oversold |-> FALSE]
          BY <2>2, <2>3, <3>2, <4>3, ApplyIs
        <5>2. t.quantity > p.units => Apply(p, t).oversold
          BY <5>1
        <5>3. ~(t.quantity > p.units) => Apply(p, t).units = p.units - t.quantity
          BY <5>1
        <5>4. QED
          BY <2>2, <4>1, <5>2, <5>3
      <4>4. CASE t.type = "split"
        <5>1. Apply(p, t).units = Scaled(p.units, t.ratio)
          <6>1. Apply(p, t) = [units |-> Scaled(p.units, t.ratio), oversold |-> FALSE]
            BY <2>2, <2>3, <3>2, <4>4, ApplyIs
          <6>2. QED
            BY <6>1
        <5>2. Scaled(p.units, t.ratio) \in Nat
          BY <4>1, ScaledType
        <5>3. QED
          BY <5>1, <5>2
      <4>5. QED
        BY <4>1, <4>2, <4>3, <4>4
    <3>3. QED
      BY <3>1, <3>2
  <2>5. QED
    BY <2>1, <2>4
<1> HIDE DEF T
<1>4. rows \in T
  BY <1>2, <1>3, PartsUp DEF Counted
<1>5. QED
  BY <1>4 DEF T

\* A fan-out's rows, in the log once they are committed.
LEMMA FanOutStored ==
  ASSUME NEW n \in Nat, NEW day \in Day, NEW ratio \in Ratios, NEW t \in FanOut(n, day, ratio)
  PROVE  /\ Stored(t) = t /\ t.account \in Holders(trades) /\ t.id = <<n, t.account>>
         /\ t.day = day /\ t.type = "split" /\ t.ratio = ratio
<1>1. PICK a \in Holders(trades) :
        t = Row(<<n, a>>, a, day, [type |-> "split", quantity |-> 0, ratio |-> ratio])
  BY DEF FanOut
<1>2. /\ t = [id |-> <<n, a>>, account |-> a, day |-> day, type |-> "split", quantity |-> 0, ratio |-> ratio]
      /\ Rounded(0) = 0
  BY <1>1, RoundedIsCounted DEF Row
<1>3. Stored(t) = t
  BY <1>2 DEF Stored
<1>4. QED
  BY <1>2, <1>3

\* The last trade of a log to which a later one is added.
LEMMA LatestAdded ==
  ASSUME NEW rows \in SUBSET TradeRow, IsFiniteSet(rows), NEW t \in TradeRow,
         \A u \in rows : u.day <= t.day /\ u.id[1] < t.id[1]
  PROVE  Position(rows \cup {t}) = Apply(Position(rows), t)
<1> DEFINE all == rows \cup {t}
           last == Latest(all)
<1>1. all \in SUBSET TradeRow /\ IsFiniteSet(all) /\ all # {} /\ t \in all
  BY FS_AddElement
<1> HIDE DEF all
<1>2. Dated(all)
  BY <1>1, RowsDated
<1>3. last \in all /\ NotAfter(t, last) /\ Position(all) = Apply(Position(all \ {last}), last)
  BY <1>1, <1>2, LatestIs, PositionIs
<1> HIDE DEF last
<1>4. t.day \in Int /\ t.id[1] \in Int /\ last.day \in Int /\ last.id[1] \in Int
  BY <1>1, <1>2, <1>3 DEF Dated
<1>5. last = t
  <2>1. SUFFICES ASSUME last # t PROVE FALSE
    OBVIOUS
  <2>2. last \in rows
    BY <1>3, <2>1 DEF all
  <2>3. last.day <= t.day /\ last.id[1] < t.id[1]
    BY <2>2
  <2>4. QED
    BY <1>3, <1>4, <2>3 DEF NotAfter
<1>6. all \ {t} = rows
  <2>1. t \notin rows
    BY <1>4
  <2>2. QED
    BY <2>1 DEF all
<1>7. QED
  BY <1>3, <1>5, <1>6 DEF all

\* What the commit of a split without an account does to the units.
LEMMA FanOutScales ==
  ASSUME FanOutInvariant, NEW s \in Sessions, Commit(s), request[s].op = "fanOut",
         NEW t \in request[s].new, \A u \in trades : u.day <= t.day, NEW a \in Accounts
  PROVE  Units(a, trades') = Scaled(Units(a, trades), t.ratio)
<1>1. FreshFanOut(request[s].new)
  BY DEF FanOutInvariant, FanOutsAreFresh, Commit
<1>2. PICK n \in 1 .. MaxCreates, day \in Day, ratio \in Ratios :
        request[s].new = FanOut(n, day, ratio) /\ \A u \in trades : u.id[1] < n
  BY <1>1 DEF FreshFanOut
<1>3. \A b \in Traded(trades) : ~Oversold(b, trades)
  BY <1>1 DEF FreshFanOut
<1> DEFINE new == FanOut(n, day, ratio)
           rows == Of(a, trades)
<1>4. n \in Nat /\ MaxCreates \in Nat
  BY BoundsAssumption
<1>5. \A x \in new : /\ Stored(x) = x /\ x.account \in Holders(trades) /\ x.id = <<n, x.account>>
                     /\ x.day = day /\ x.type = "split" /\ x.ratio = ratio
  BY <1>4, FanOutStored
<1>6. t \in new /\ t.day = day /\ t.ratio = ratio
  BY <1>2, <1>5
<1>7. trades' = trades \cup new
  <2>1. trades' = trades \cup {Stored(x) : x \in new}
    BY <1>2 DEF Commit, Changed
  <2> HIDE DEF new
  <2>2. QED
    BY <1>5, <2>1
<1>8. /\ trades \in SUBSET TradeRow /\ new \in SUBSET TradeRow /\ IsFiniteSet(trades)
      /\ \A u \in trades : u.quantity \in Nat
  BY <1>2 DEF FanOutInvariant, TypeInvariant, TypeOK, RequestType, Counted
<1>9. rows \in SUBSET TradeRow /\ IsFiniteSet(rows) /\ rows \subseteq trades
  BY <1>8, FS_Subset DEF Of
<1>10. CASE a \in Holders(trades)
  <2> DEFINE row == Row(<<n, a>>, a, day, [type |-> "split", quantity |-> 0, ratio |-> ratio])
  <2>1. row \in new /\ row.account = a
    BY <1>10 DEF FanOut, Row
  <2>2. \A x \in new : x.account = a => x = row
    BY DEF FanOut, Row
  <2> HIDE DEF row, new
  <2>3. Of(a, trades') = rows \cup {row}
    BY <1>7, <2>1, <2>2 DEF Of
  <2>4. row \in TradeRow /\ row.day = day /\ row.id[1] = n /\ row.type = "split" /\ row.ratio = ratio
    BY <1>5, <1>8, <2>1
  <2>5. \A u \in rows : u.day <= row.day /\ u.id[1] < row.id[1]
    BY <1>2, <1>6, <1>9, <2>4
  <2> DEFINE p == Position(rows)
  <2>6. p \in PositionType /\ ~p.oversold
    <3>1. a \in Traded(trades)
      BY <1>10 DEF Holders
    <3>2. ~Oversold(a, trades)
      BY <1>3, <3>1
    <3>3. QED
      BY <1>9, <3>2, PositionTyped DEF Oversold
  <2>7. Position(Of(a, trades')) = Apply(p, row)
    <3> HIDE DEF rows
    <3>1. QED
      BY <1>9, <2>3, <2>4, <2>5, LatestAdded
  <2>8. Units(a, trades) = p.units /\ Units(a, trades') = Apply(p, row).units
    BY <2>7 DEF Units
  <2> HIDE DEF p
  <2>9. Apply(p, row) = [units |-> Scaled(p.units, row.ratio), oversold |-> FALSE]
    BY <2>4, <2>6, ApplyIs
  <2>10. Apply(p, row).units = Scaled(p.units, ratio)
    BY <2>4, <2>9
  <2>11. QED
    BY <1>6, <2>8, <2>10
<1>11. CASE a \notin Holders(trades)
  <2>1. \A x \in new : x.account # a
    BY <1>5, <1>11
  <2> HIDE DEF new
  <2>2. Of(a, trades') = rows
    BY <1>7, <2>1 DEF Of
  <2>3. Units(a, trades) = 0
    <3>1. CASE a \in Traded(trades)
      <4>1. ~(Units(a, trades) > 0) /\ ~Position(rows).oversold
        BY <1>3, <1>11, <3>1 DEF Holders, Oversold
      <4>2. Counted(rows)
        BY <1>8, <1>9 DEF Counted
      <4>3. Position(rows).units \in Nat
        <5> HIDE DEF rows
        <5>1. QED
          BY <1>9, <4>1, <4>2, UnitsNotNegative
      <4>4. QED
        BY <4>1, <4>3 DEF Units
    <3>2. CASE a \notin Traded(trades)
      <4>1. rows = {}
        BY <3>2 DEF Of, Traded
      <4>2. Position(rows) = NoPosition
        BY <1>9, <4>1, PositionIs
      <4>3. QED
        BY <4>2 DEF Units, NoPosition
    <3>3. QED
      BY <3>1, <3>2
  <2>4. Units(a, trades') = Units(a, trades)
    BY <2>2 DEF Units
  <2>5. t.ratio \in {"double", "halve", "zero", "none"}
    BY <1>6, <1>8 DEF TradeRow
  <2>6. Scaled(0, t.ratio) = 0
    BY <2>5 DEF Scaled
  <2>7. QED
    BY <2>3, <2>4, <2>6
<1>12. QED
  BY <1>10, <1>11

\* With one session at a time and quantities that are not negative, a split entered without an
\* account, dated no earlier than any trade, scales the units of every account that holds the
\* security and of no other.
THEOREM SplitsReachHolders == OneAtATime /\ NoNegativeAmounts => (Spec => SplitReachesHolders)
<1> SUFFICES ASSUME OneAtATime, NoNegativeAmounts PROVE Spec => SplitReachesHolders
  OBVIOUS
<1>1. Init => FanOutInvariant
  <2>1. Init => TypeInvariant
    BY DEF Init, TypeInvariant, TypeOK, AskedIsBusy, NewIdsAreNew, Wellformed, NoRequest,
           RequestType, Creates
  <2>2. Counted({})
    BY FS_EmptySet DEF Counted
  <2>3. QED
    BY <2>1, <2>2 DEF Init, FanOutInvariant, HeldAreCounted, FanOutsAreFresh
<1>2. FanOutInvariant /\ [Next]_vars => FanOutInvariant'
  <2>1. ASSUME FanOutInvariant, UNCHANGED vars
        PROVE  Counted(trades)' /\ HeldAreCounted' /\ FanOutsAreFresh'
    <3>1. trades' = trades /\ pc' = pc /\ request' = request
      BY <2>1 DEF vars
    <3>2. HeldAreCounted' /\ Counted(trades)'
      BY <2>1, <3>1 DEF FanOutInvariant, HeldAreCounted
    <3>3. \A s \in Sessions : FreshFanOut(request[s].new) => FreshFanOut(request[s].new)'
      BY <3>1 DEF FreshFanOut, FanOut
    <3>4. FanOutsAreFresh'
      BY <2>1, <3>1, <3>3 DEF FanOutInvariant, FanOutsAreFresh
    <3>5. QED
      BY <3>2, <3>4
  <2>2. QED
    BY <2>1, FanOutStep, StepType DEF FanOutInvariant
<1>3. FanOutInvariant =>
        \A s \in Sessions : Commit(s) /\ request[s].op = "fanOut" =>
         \A t \in request[s].new :
            (\A u \in trades : u.day <= t.day) =>
               \A a \in Accounts : Units(a, trades') = Scaled(Units(a, trades), t.ratio)
  BY FanOutScales
<1>4. QED
  BY <1>1, <1>2, <1>3, PTL DEF Spec, SplitReachesHolders
-------------------------------------------------------------------------------
(* Fractions, read in parts of which D make one *)

Frac == Int \X (Nat \ {0})

\* The fraction a is x D-ths.
Counts(D, a, x) == a \in Frac /\ x \in Int /\ x * a[2] = D * a[1]

LEMMA Products ==
  ASSUME NEW i \in Int, NEW j \in Int, NEW k \in Int
  PROVE  /\ i * j \in Int /\ i * j = j * i /\ i * (j * k) = (i * j) * k
         /\ (i + j) * k = i * k + j * k /\ (i - j) * k = i * k - j * k
         /\ k * (i + j) = k * i + k * j /\ k * (i - j) = k * i - k * j
OBVIOUS

LEMMA Cancel ==
  ASSUME NEW i \in Int, NEW j \in Int, NEW k \in Nat \ {0}
  PROVE  /\ i * k = j * k => i = j
         /\ i * k <= j * k => i <= j
         /\ i <= j => i * k <= j * k
<1>1. CASE i = j
  BY <1>1
<1>2. CASE i < j
  <2>1. (j - i) * k = j * k - i * k /\ j - i >= 1 /\ j * k \in Int /\ i * k \in Int
    BY <1>2
  <2>2. (j - i) * k > 0
    BY <1>2
  <2>3. QED
    BY <1>2, <2>1, <2>2
<1>3. CASE i > j
  <2>1. (i - j) * k = i * k - j * k /\ i - j >= 1 /\ j * k \in Int /\ i * k \in Int
    BY <1>3
  <2>2. (i - j) * k > 0
    BY <1>3
  <2>3. QED
    BY <1>3, <2>1, <2>2
<1>4. QED
  BY <1>1, <1>2, <1>3

LEMMA CountsWhole ==
  ASSUME NEW D \in Nat \ {0}, NEW n \in Int
  PROVE  Counts(D, Whole(n), n * D)
<1>1. n * D \in Int /\ (n * D) * 1 = D * n
  BY Products
<1>2. QED
  BY <1>1 DEF Counts, Whole, Frac

LEMMA CountsPlus ==
  ASSUME NEW D \in Nat \ {0}, NEW a, NEW b, NEW x, NEW y, Counts(D, a, x), Counts(D, b, y)
  PROVE  Counts(D, Plus(a, b), x + y)
<1> DEFINE n == a[1]
           p == a[2]
           m == b[1]
           q == b[2]
<1>1. /\ n \in Int /\ m \in Int /\ p \in Nat \ {0} /\ q \in Nat \ {0} /\ x \in Int /\ y \in Int
      /\ x * p = D * n /\ y * q = D * m
  BY DEF Counts, Frac
<1>2. Plus(a, b) = <<n * q + m * p, p * q>>
  BY DEF Plus
<1> HIDE DEF n, p, m, q
<1>3. p * q \in Nat \ {0} /\ n * q \in Int /\ m * p \in Int /\ n * q + m * p \in Int /\ x + y \in Int
  BY <1>1
<1>4. (x + y) * (p * q) = x * (p * q) + y * (p * q)
  BY <1>1, <1>3, Products
<1>5. x * (p * q) = D * (n * q)
  BY <1>1, <1>3, Products
<1>6. y * (p * q) = D * (m * p)
  <2>1. y * (p * q) = y * (q * p) /\ y * (q * p) = (y * q) * p /\ (D * m) * p = D * (m * p)
    BY <1>1, Products
  <2>2. QED
    BY <1>1, <2>1
<1>7. D * (n * q + m * p) = D * (n * q) + D * (m * p)
  BY <1>1, <1>3, Products
<1>8. QED
  BY <1>2, <1>3, <1>4, <1>5, <1>6, <1>7 DEF Counts, Frac

LEMMA CountsTimes ==
  ASSUME NEW D \in Nat \ {0}, NEW a, NEW x, Counts(D, a, x), NEW k \in Int
  PROVE  Counts(D, Times(k, a), k * x)
<1> DEFINE n == a[1]
           p == a[2]
<1>1. n \in Int /\ p \in Nat \ {0} /\ x \in Int /\ x * p = D * n
  BY DEF Counts, Frac
<1>2. Times(k, a) = <<k * n, p>>
  BY DEF Times
<1> HIDE DEF n, p
<1>3. k * n \in Int /\ k * x \in Int
  BY <1>1
<1>4. (k * x) * p = k * (x * p) /\ D * (k * n) = k * (D * n)
  <2>1. D * (k * n) = (D * k) * n /\ D * k = k * D /\ (k * D) * n = k * (D * n)
    BY <1>1, Products
  <2>2. (k * x) * p = k * (x * p)
    BY <1>1, Products
  <2>3. QED
    BY <2>1, <2>2
<1>5. QED
  BY <1>1, <1>2, <1>3, <1>4 DEF Counts, Frac

LEMMA CountsMinus ==
  ASSUME NEW D \in Nat \ {0}, NEW a, NEW b, NEW x, NEW y, Counts(D, a, x), Counts(D, b, y)
  PROVE  Counts(D, Minus(a, b), x - y)
<1> DEFINE less == -1
<1>1. less \in Int /\ x \in Int /\ y \in Int
  BY DEF Counts
<1>2. Minus(a, b) = Plus(a, Times(less, b))
  BY DEF Minus
<1>3. x + less * y = x - y
  BY <1>1
<1> HIDE DEF less
<1>4. Counts(D, Times(less, b), less * y)
  BY <1>1, CountsTimes
<1>5. QED
  BY <1>2, <1>3, <1>4, CountsPlus

LEMMA CountsOver ==
  ASSUME NEW D \in Nat \ {0}, NEW a, NEW x, Counts(D, a, x), NEW k \in Nat \ {0}, NEW y \in Int,
         y * k = x
  PROVE  Counts(D, Over(a, k), y)
<1> DEFINE n == a[1]
           p == a[2]
<1>1. n \in Int /\ p \in Nat \ {0} /\ x * p = D * n
  BY DEF Counts, Frac
<1>2. Over(a, k) = <<n, k * p>>
  BY DEF Over
<1> HIDE DEF n, p
<1>3. k * p \in Nat \ {0}
  BY <1>1
<1>4. y * (k * p) = D * n
  BY <1>1, Products
<1>5. QED
  BY <1>1, <1>2, <1>3, <1>4 DEF Counts, Frac

\* In finer parts.
LEMMA CountsFiner ==
  ASSUME NEW D \in Nat \ {0}, NEW a, NEW x, Counts(D, a, x), NEW m \in Nat \ {0}
  PROVE  m * D \in Nat \ {0} /\ Counts(m * D, a, m * x)
<1>1. a[1] \in Int /\ a[2] \in Nat \ {0} /\ x \in Int /\ x * a[2] = D * a[1] /\ a \in Frac
  BY DEF Counts, Frac
<1> DEFINE n == a[1]
           p == a[2]
<1>2. n \in Int /\ p \in Nat \ {0} /\ x \in Int /\ x * p = D * n
  BY <1>1
<1> HIDE DEF n, p
<1>3. m * x \in Int /\ m * D \in Nat \ {0}
  BY <1>1
<1>4. (m * x) * p = m * (x * p) /\ (m * D) * n = m * (D * n)
  BY <1>2, Products
<1>5. (m * x) * p = (m * D) * n
  BY <1>2, <1>4
<1>6. QED
  BY <1>1, <1>3, <1>5 DEF Counts, n, p

\* The cent nearest to a fraction is at most half a cent from it.
LEMMA CountsCents ==
  ASSUME NEW D \in Nat \ {0}, NEW a, NEW x, Counts(D, a, x)
  PROVE  /\ Cents(a) \in Int /\ 2 * (D * Cents(a)) <= 2 * x + D
         /\ 2 * x - D <= 2 * (D * Cents(a))
<1> DEFINE n == a[1]
           p == a[2]
           c == Cents(a)
           f == n \div p
           r == n % p
<1>1. n \in Int /\ p \in Nat \ {0} /\ x \in Int /\ x * p = D * n
  BY DEF Counts, Frac
<1>2. f \in Int /\ r \in 0 .. p - 1 /\ n = f * p + r
  BY <1>1
<1>3. c = f \/ c = f + 1
  BY DEF Cents
<1>4. c = f => 2 * r <= p
  <2>1. c = IF 2 * r > p \/ (2 * r = p /\ f % 2 = 1) THEN f + 1 ELSE f
    BY DEF Cents
  <2> HIDE DEF f, r, c, p
  <2>2. f # f + 1
    BY <1>2
  <2>3. QED
    BY <1>1, <1>2, <2>1, <2>2
<1>5. c = f + 1 => 2 * r >= p
  <2>1. c = IF 2 * r > p \/ (2 * r = p /\ f % 2 = 1) THEN f + 1 ELSE f
    BY DEF Cents
  <2> HIDE DEF f, r, c, p
  <2>2. f # f + 1
    BY <1>2
  <2>3. QED
    BY <1>1, <1>2, <2>1, <2>2
<1> HIDE DEF f, r, c, n, p
<1>6. c \in Int /\ c * p \in Int /\ 2 * (c * p) <= 2 * n + p /\ 2 * n - p <= 2 * (c * p)
  <2>1. CASE c = f
    BY <1>1, <1>2, <1>4, <2>1
  <2>2. CASE c = f + 1
    <3>1. c * p = f * p + p /\ f * p \in Int
      BY <1>1, <1>2, <2>2, Products
    <3>2. QED
      BY <1>1, <1>2, <1>5, <2>2, <3>1
  <2>3. QED
    BY <1>3, <2>1, <2>2
<1>7. D * c \in Int /\ (D * c) * p = (c * p) * D
  <2>1. (D * c) * p = D * (c * p) /\ D * (c * p) = (c * p) * D
    BY <1>1, <1>6, Products
  <2>2. QED
    BY <1>6, <2>1
<1>8. (2 * (D * c)) * p <= (2 * x + D) * p
  <2>1. (2 * (c * p)) * D <= (2 * n + p) * D
    BY <1>1, <1>6, Cancel
  <2>2. (2 * (c * p)) * D = 2 * ((c * p) * D) /\ (2 * n + p) * D = (2 * n) * D + p * D /\ (2 * n) * D = 2 * (n * D)
    BY <1>1, <1>6, Products
  <2>3. (2 * (D * c)) * p = 2 * ((D * c) * p) /\ (2 * x + D) * p = (2 * x) * p + D * p /\ (2 * x) * p = 2 * (x * p)
    BY <1>1, <1>7, Products
  <2>4. n * D = D * n /\ p * D = D * p
    BY <1>1, Products
  <2>5. QED
    BY <1>1, <1>7, <2>1, <2>2, <2>3, <2>4
<1>9. (2 * x - D) * p <= (2 * (D * c)) * p
  <2>1. (2 * n - p) * D <= (2 * (c * p)) * D
    BY <1>1, <1>6, Cancel
  <2>2. (2 * (c * p)) * D = 2 * ((c * p) * D) /\ (2 * n - p) * D = (2 * n) * D - p * D /\ (2 * n) * D = 2 * (n * D)
    BY <1>1, <1>6, Products
  <2>3. (2 * (D * c)) * p = 2 * ((D * c) * p) /\ (2 * x - D) * p = (2 * x) * p - D * p /\ (2 * x) * p = 2 * (x * p)
    BY <1>1, <1>7, Products
  <2>4. n * D = D * n /\ p * D = D * p
    BY <1>1, Products
  <2>5. QED
    BY <1>1, <1>7, <2>1, <2>2, <2>3, <2>4
<1>10. 2 * (D * c) \in Int /\ 2 * x + D \in Int /\ 2 * x - D \in Int
  BY <1>1, <1>7
<1>11. QED
  BY <1>1, <1>6, <1>8, <1>9, <1>10, Cancel DEF c

LEMMA CountsOf ==
  ASSUME NEW a \in Frac
  PROVE  a[2] \in Nat \ {0} /\ a[1] \in Int /\ Counts(a[2], a, a[1])
<1>1. a[1] \in Int /\ a[2] \in Nat \ {0}
  BY DEF Frac
<1>2. a[1] * a[2] = a[2] * a[1]
  BY <1>1, Products
<1>3. QED
  BY <1>1, <1>2 DEF Counts
-------------------------------------------------------------------------------
(* Folds of any sequence, and of figures by account *)

\* A fold from the left, as a function of the places folded and as the values it runs through.
Folded(n, V, seq, base, F, g, h) ==
    /\ g \in [SUBSET (1 .. n) -> V] /\ g[{}] = base
    /\ \A s \in SUBSET (1 .. n) : s # {} =>
          Max(s) \in s /\ g[s] = F[<<g[s \ {Max(s)}], seq[Max(s)]>>]
    /\ h \in [0 .. n -> V] /\ h[0] = base /\ h[n] = g[1 .. n]
    /\ \A k \in 0 .. n - 1 : h[k + 1] = F[<<h[k], seq[k + 1]>>]

LEMMA FoldRuns ==
  ASSUME NEW n \in Nat, NEW V, NEW E, NEW seq \in [1 .. n -> E], NEW base \in V,
         NEW F \in [V \X E -> V]
  PROVE  \E g, h : Folded(n, V, seq, base, F, g, h)
<1> DEFINE S == 1 .. n
           G == [p \in V \X S |-> F[<<p[1], seq[p[2]]>>]]
           choice == [s \in SUBSET S |-> Max(s)]
<1>1. /\ IsFiniteSet(S)
      /\ \A s \in SUBSET S : s # {} => Max(s) \in s
      /\ \A k \in 0 .. n - 1 : Max(1 .. k + 1) = k + 1 /\ (1 .. k + 1) \ {k + 1} = 1 .. k
  BY MaxChoice
<1>2. G \in [V \X S -> V]
  OBVIOUS
<1>3. Choice(S, choice)
  BY <1>1 DEF Choice
<1>4. \A p \in V, i \in S : G[<<p, i>>] = F[<<p, seq[i]>>]
  OBVIOUS
<1>5. \A s \in SUBSET S : choice[s] = Max(s)
  OBVIOUS
<1> HIDE DEF G, choice
<1>6. PICK g : Folds(S, V, G, choice, base, g)
  <2> HIDE DEF S
  <2>1. QED
    BY <1>1, <1>2, <1>3, FoldExists
<1>7. g \in [SUBSET S -> V] /\ g[{}] = base
  BY <1>6 DEF Folds
<1>8. ASSUME NEW s \in SUBSET S, s # {}
      PROVE  Max(s) \in s /\ g[s] = F[<<g[s \ {Max(s)}], seq[Max(s)]>>]
  <2>1. Max(s) \in s /\ Max(s) \in S /\ g[s \ {Max(s)}] \in V
    BY <1>1, <1>7, <1>8
  <2>2. g[s] = G[<<g[s \ {Max(s)}], Max(s)>>]
    BY <1>5, <1>6, <1>8 DEF Folds
  <2>3. QED
    BY <1>4, <2>1, <2>2
<1> DEFINE h == [k \in 0 .. n |-> g[1 .. k]]
<1>9. h[0] = base
  <2>1. 0 \in 0 .. n
    OBVIOUS
  <2>2. QED
    BY <1>7, <2>1, EmptyRange
<1>10. h \in [0 .. n -> V] /\ h[n] = g[1 .. n]
  <2>1. \A k \in 0 .. n : 1 .. k \in SUBSET S
    OBVIOUS
  <2>2. n \in 0 .. n
    OBVIOUS
  <2> HIDE DEF S
  <2>3. QED
    BY <1>7, <2>1, <2>2
<1>11. ASSUME NEW k \in 0 .. n - 1 PROVE h[k + 1] = F[<<h[k], seq[k + 1]>>]
  <2> DEFINE R == 1 .. k + 1
  <2>1. R \in SUBSET S /\ R # {} /\ k \in 0 .. n /\ k + 1 \in 0 .. n
    BY Prefix
  <2>2. Max(R) = k + 1 /\ R \ {k + 1} = 1 .. k
    BY <1>1
  <2> HIDE DEF R, S
  <2>3. g[R] = F[<<g[R \ {Max(R)}], seq[Max(R)]>>]
    BY <1>8, <2>1
  <2>4. g[R] = F[<<g[1 .. k], seq[k + 1]>>]
    BY <2>2, <2>3
  <2>5. QED
    BY <2>1, <2>4 DEF R
<1> HIDE DEF h
<1>12. \A s \in SUBSET (1 .. n) : s # {} =>
           Max(s) \in s /\ g[s] = F[<<g[s \ {Max(s)}], seq[Max(s)]>>]
  BY <1>8
<1>13. \A k \in 0 .. n - 1 : h[k + 1] = F[<<h[k], seq[k + 1]>>]
  BY <1>11
<1>14. g \in [SUBSET (1 .. n) -> V]
  BY <1>7
<1>15. Folded(n, V, seq, base, F, g, h)
  BY <1>7, <1>9, <1>10, <1>12, <1>13, <1>14 DEF Folded
<1>16. QED
  BY <1>15

\* Two functions of parts that agree on a part if they do on that part less each of its members.
LEMMA SameOnParts ==
  ASSUME NEW S, IsFiniteSet(S), NEW f, NEW g, f[{}] = g[{}],
         \A s \in SUBSET S : s # {} /\ (\A x \in s : f[s \ {x}] = g[s \ {x}]) => f[s] = g[s]
  PROVE  f[S] = g[S]
<1> DEFINE T == {s \in SUBSET S : f[s] = g[s]}
<1>1. {} \in T
  OBVIOUS
<1>2. ASSUME NEW s \in SUBSET S, s # {}, \A x \in s : s \ {x} \in T PROVE s \in T
  <2>1. \A x \in s : f[s \ {x}] = g[s \ {x}]
    BY <1>2
  <2>2. QED
    BY <1>2, <2>1
<1> HIDE DEF T
<1>3. S \in T
  <2>1. \A s \in SUBSET S : s # {} /\ (\A x \in s : s \ {x} \in T) => s \in T
    BY <1>2
  <2>2. IsFiniteSet(S) /\ {} \in T /\ S \in SUBSET S
    BY <1>1
  <2>3. QED
    BY <2>1, <2>2, PartsUp
<1>4. QED
  BY <1>3 DEF T

\* Whatever member of a set `CHOOSE x \in set : TRUE` picks.
Picked(s) == CHOOSE x \in s : TRUE

\* The sums of the figures of all parts of the accounts, in the order of a fold of functions.
Totals(A, f, g) ==
    /\ g \in [SUBSET A -> Int] /\ g[{}] = 0
    /\ \A s \in SUBSET A : s # {} =>
          Picked(s) \in s /\ g[s] = f[Picked(s)] + g[s \ {Picked(s)}]

TotalsStep(f, g) ==
    [s \in SUBSET DOMAIN f |-> IF s = {} THEN 0 ELSE f[Picked(s)] + g[s \ {Picked(s)}]]

TotalsOf(f) == CHOOSE g : g = TotalsStep(f, g)

LEMMA PickedChoice ==
  ASSUME NEW A
  PROVE  Choice(A, [s \in SUBSET A |-> Picked(s)])
<1>1. \A s \in SUBSET A : s # {} => Picked(s) \in s
  BY DEF Picked
<1>2. QED
  BY <1>1 DEF Choice

LEMMA TotalIs ==
  ASSUME NEW A, IsFiniteSet(A), NEW f \in [A -> Int]
  PROVE  \E g : Totals(A, f, g) /\ FoldFunction(+, 0, f) = g[A]
<1> DEFINE F == [p \in Int \X A |-> f[p[2]] + p[1]]
           choice == [s \in SUBSET A |-> Picked(s)]
<1>1. F \in [Int \X A -> Int] /\ 0 \in Int
  OBVIOUS
<1>2. Choice(A, choice)
  BY PickedChoice
<1>3. \A x \in Int, a \in A : F[<<x, a>>] = f[a] + x
  OBVIOUS
<1>4. \A s \in SUBSET A : choice[s] = Picked(s)
  OBVIOUS
<1> HIDE DEF F, choice
<1>5. PICK g : Folds(A, Int, F, choice, 0, g)
  BY <1>1, <1>2, FoldExists
<1>6. Totals(A, f, g)
  <2>1. ASSUME NEW s \in SUBSET A, s # {}
        PROVE  Picked(s) \in s /\ g[s] = f[Picked(s)] + g[s \ {Picked(s)}]
    <3>1. Picked(s) \in s /\ g[s \ {Picked(s)}] \in Int
      BY <1>2, <1>4, <1>5, <2>1 DEF Choice, Folds
    <3>2. g[s] = F[<<g[s \ {Picked(s)}], Picked(s)>>]
      BY <1>4, <1>5, <2>1 DEF Folds
    <3>3. QED
      BY <1>3, <3>1, <3>2
  <2>2. QED
    BY <1>5, <2>1 DEF Totals, Folds
<1>7. g = TotalsStep(f, g)
  BY <1>6 DEF Totals, TotalsStep
<1> DEFINE it == TotalsOf(f)
<1>8. it = TotalsStep(f, it)
  BY <1>7 DEF TotalsOf
<1>9. FoldFunction(+, 0, f) = it[A]
  BY DEF FoldFunction, FoldFunctionOnSet, MapThenFoldSet, TotalsOf, TotalsStep, Picked
<1> HIDE DEF it
<1>10. it[A] = g[A]
  <2>1. it[{}] = 0 /\ \A s \in SUBSET A : s # {} => it[s] = f[Picked(s)] + it[s \ {Picked(s)}]
    BY <1>8 DEF TotalsStep
  <2>2. ASSUME NEW s \in SUBSET A, s # {}, \A x \in s : it[s \ {x}] = g[s \ {x}] PROVE it[s] = g[s]
    <3>1. Picked(s) \in s /\ g[s] = f[Picked(s)] + g[s \ {Picked(s)}]
      BY <1>6, <2>2 DEF Totals
    <3>2. QED
      BY <2>1, <2>2, <3>1
  <2>3. it[{}] = g[{}]
    BY <1>6, <2>1 DEF Totals
  <2>4. QED
    BY <2>2, <2>3, SameOnParts
<1>11. QED
  BY <1>6, <1>9, <1>10

\* The same of fractions.
SumsBy(A, f, g) ==
    /\ g \in [SUBSET A -> Frac] /\ g[{}] = Whole(0)
    /\ \A s \in SUBSET A : s # {} =>
          Picked(s) \in s /\ g[s] = Plus(f[Picked(s)], g[s \ {Picked(s)}])

SumsStep(f, g) ==
    [s \in SUBSET DOMAIN f |-> IF s = {} THEN Whole(0) ELSE Plus(f[Picked(s)], g[s \ {Picked(s)}])]

SumsOf(f) == CHOOSE g : g = SumsStep(f, g)

LEMMA PlusType ==
  ASSUME NEW a \in Frac, NEW b \in Frac
  PROVE  Plus(a, b) \in Frac
<1>1. a[1] \in Int /\ b[1] \in Int /\ a[2] \in Nat \ {0} /\ b[2] \in Nat \ {0}
  BY DEF Frac
<1> DEFINE n == a[1]
           p == a[2]
           m == b[1]
           q == b[2]
<1>2. Plus(a, b) = <<n * q + m * p, p * q>>
  BY DEF Plus
<1>3. n \in Int /\ m \in Int /\ p \in Nat \ {0} /\ q \in Nat \ {0}
  BY <1>1
<1> HIDE DEF n, p, m, q
<1>4. n * q + m * p \in Int /\ p * q \in Nat \ {0}
  BY <1>3
<1>5. QED
  BY <1>2, <1>4 DEF Frac

LEMMA SumIs ==
  ASSUME NEW A, IsFiniteSet(A), NEW f \in [A -> Frac]
  PROVE  \E g : SumsBy(A, f, g) /\ Sum(f) = g[A]
<1> DEFINE F == [p \in Frac \X A |-> Plus(f[p[2]], p[1])]
           choice == [s \in SUBSET A |-> Picked(s)]
<1>1. F \in [Frac \X A -> Frac] /\ Whole(0) \in Frac
  <2>1. \A p \in Frac \X A : Plus(f[p[2]], p[1]) \in Frac
    <3> SUFFICES ASSUME NEW p \in Frac \X A PROVE Plus(f[p[2]], p[1]) \in Frac
      OBVIOUS
    <3>1. f[p[2]] \in Frac /\ p[1] \in Frac
      OBVIOUS
    <3>2. QED
      BY <3>1, PlusType
  <2>2. Whole(0) \in Frac
    BY DEF Whole, Frac
  <2>3. QED
    BY <2>1, <2>2
<1>2. Choice(A, choice)
  BY PickedChoice
<1>3. \A x \in Frac, a \in A : F[<<x, a>>] = Plus(f[a], x)
  OBVIOUS
<1>4. \A s \in SUBSET A : choice[s] = Picked(s)
  OBVIOUS
<1> HIDE DEF F, choice
<1>5. PICK g : Folds(A, Frac, F, choice, Whole(0), g)
  BY <1>1, <1>2, FoldExists
<1>6. SumsBy(A, f, g)
  <2>1. ASSUME NEW s \in SUBSET A, s # {}
        PROVE  Picked(s) \in s /\ g[s] = Plus(f[Picked(s)], g[s \ {Picked(s)}])
    <3>1. Picked(s) \in s /\ g[s \ {Picked(s)}] \in Frac
      BY <1>2, <1>4, <1>5, <2>1 DEF Choice, Folds
    <3>2. g[s] = F[<<g[s \ {Picked(s)}], Picked(s)>>]
      BY <1>4, <1>5, <2>1 DEF Folds
    <3>3. QED
      BY <1>3, <3>1, <3>2
  <2>2. QED
    BY <1>5, <2>1 DEF SumsBy, Folds
<1>7. g = SumsStep(f, g)
  BY <1>6 DEF SumsBy, SumsStep
<1> DEFINE it == SumsOf(f)
<1>8. it = SumsStep(f, it)
  BY <1>7 DEF SumsOf
<1>9. Sum(f) = it[A]
  BY DEF Sum, FoldFunction, FoldFunctionOnSet, MapThenFoldSet, SumsOf, SumsStep, Picked
<1> HIDE DEF it
<1>10. it[A] = g[A]
  <2>1. it[{}] = Whole(0) /\ \A s \in SUBSET A : s # {} => it[s] = Plus(f[Picked(s)], it[s \ {Picked(s)}])
    BY <1>8 DEF SumsStep
  <2>2. ASSUME NEW s \in SUBSET A, s # {}, \A x \in s : it[s \ {x}] = g[s \ {x}] PROVE it[s] = g[s]
    <3>1. Picked(s) \in s /\ g[s] = Plus(f[Picked(s)], g[s \ {Picked(s)}])
      BY <1>6, <2>2 DEF SumsBy
    <3>2. QED
      BY <2>1, <2>2, <3>1
  <2>3. it[{}] = g[{}]
    BY <1>6, <2>1 DEF SumsBy
  <2>4. QED
    BY <2>2, <2>3, SameOnParts
<1>11. QED
  BY <1>6, <1>9, <1>10
-------------------------------------------------------------------------------
(* The lots with their costs *)

LotRow == [quantity : Int, each : Frac]
SellType == [remaining : Int, each : Frac, lots : Seq(LotRow), gains : Seq(Int)]
GainsBook == [lots : Seq(LotRow), gains : Seq(Int)]

LEMMA WholeType == ASSUME NEW n \in Int PROVE Whole(n) \in Frac
BY DEF Whole, Frac

LEMMA TimesType ==
  ASSUME NEW a \in Frac, NEW k \in Int
  PROVE  Times(k, a) \in Frac
<1>1. a[1] \in Int /\ a[2] \in Nat \ {0}
  BY DEF Frac
<1>2. k * a[1] \in Int
  BY <1>1
<1>3. QED
  BY <1>1, <1>2 DEF Times, Frac

LEMMA MinusType ==
  ASSUME NEW a \in Frac, NEW b \in Frac
  PROVE  Minus(a, b) \in Frac
<1> DEFINE less == -1
<1>1. less \in Int /\ Minus(a, b) = Plus(a, Times(less, b))
  BY DEF Minus
<1> HIDE DEF less
<1>2. QED
  BY <1>1, TimesType, PlusType

LEMMA OverType ==
  ASSUME NEW a \in Frac, NEW k \in Nat \ {0}
  PROVE  Over(a, k) \in Frac
<1>1. a[1] \in Int /\ a[2] \in Nat \ {0}
  BY DEF Frac
<1> DEFINE p == a[2]
<1>2. p \in Nat \ {0}
  BY <1>1
<1>3. Over(a, k) = <<a[1], k * p>>
  BY DEF Over
<1> HIDE DEF p
<1>4. k * p \in Nat \ {0}
  BY <1>2
<1>5. QED
  BY <1>1, <1>3, <1>4 DEF Frac

LEMMA CentsType == ASSUME NEW a \in Frac PROVE Cents(a) \in Int
BY CountsOf, CountsCents

\* What a lot gives to a sell that is under way.
LEMMA MatchedIs ==
  ASSUME NEW sell \in SellType, NEW lot \in LotRow
  PROVE  LET taken == IF lot.quantity < sell.remaining THEN lot.quantity ELSE sell.remaining
             after == Matched(sell, lot)
         IN  /\ after \in SellType /\ after.each = sell.each
             /\ sell.remaining = 0 => /\ after.remaining = 0 /\ after.gains = sell.gains
                                      /\ after.lots = Append(sell.lots, lot)
             /\ sell.remaining # 0 =>
                  /\ after.remaining = sell.remaining - taken
                  /\ after.gains = Append(sell.gains, Cents(Times(taken, sell.each)) - Cents(Times(taken, lot.each)))
                  /\ after.lots = IF taken = lot.quantity THEN sell.lots
                                  ELSE Append(sell.lots, [quantity |-> lot.quantity - taken, each |-> lot.each])
<1> DEFINE taken == IF lot.quantity < sell.remaining THEN lot.quantity ELSE sell.remaining
           after == Matched(sell, lot)
           gain == Cents(Times(taken, sell.each)) - Cents(Times(taken, lot.each))
           less == sell.remaining - taken
           over == lot.quantity - taken
           rest == [quantity |-> over, each |-> lot.each]
           kept == IF taken = lot.quantity THEN sell.lots ELSE Append(sell.lots, rest)
           gains == Append(sell.gains, gain)
           whole == Append(sell.lots, lot)
<1>1. /\ sell = [remaining |-> sell.remaining, each |-> sell.each, lots |-> sell.lots, gains |-> sell.gains]
      /\ lot = [quantity |-> lot.quantity, each |-> lot.each]
      /\ sell.remaining \in Int /\ sell.each \in Frac /\ sell.lots \in Seq(LotRow) /\ sell.gains \in Seq(Int)
      /\ lot.quantity \in Int /\ lot.each \in Frac
  BY DEF SellType, LotRow
<1>2. taken \in Int
  BY <1>1
<1>3. gain \in Int
  <2> HIDE DEF taken
  <2>1. Cents(Times(taken, sell.each)) \in Int /\ Cents(Times(taken, lot.each)) \in Int
    BY <1>1, <1>2, TimesType, CentsType
  <2>2. QED
    BY <2>1
<1>4. [lot EXCEPT !.quantity = @ - taken] = rest
  <2> HIDE DEF taken
  <2>1. QED
    BY <1>1
<1>5. after = IF sell.remaining = 0 THEN [sell EXCEPT !.lots = whole]
              ELSE [sell EXCEPT !.remaining = less, !.gains = gains, !.lots = kept]
  <2>1. after = IF sell.remaining = 0 THEN [sell EXCEPT !.lots = whole]
                ELSE [sell EXCEPT !.remaining = less, !.gains = gains,
                                  !.lots = IF taken = lot.quantity THEN sell.lots
                                           ELSE Append(sell.lots, [lot EXCEPT !.quantity = @ - taken])]
    BY DEF Matched
  <2> HIDE DEF taken, after, less, gains, whole, rest
  <2>2. QED
    BY <1>4, <2>1
<1>6. less \in Int /\ over \in Int
  <2> HIDE DEF taken
  <2>1. QED
    BY <1>1, <1>2
<1>7. gains \in Seq(Int)
  <2> HIDE DEF gain
  <2>1. QED
    BY <1>1, <1>3
<1>8. kept \in Seq(LotRow) /\ whole \in Seq(LotRow)
  <2> HIDE DEF taken, over
  <2>1. rest \in LotRow
    BY <1>1, <1>6 DEF LotRow
  <2> HIDE DEF rest
  <2>2. QED
    BY <1>1, <2>1
<1> HIDE DEF taken, after, gain, less, rest, kept, gains, whole
<1>9. /\ after \in SellType /\ after.each = sell.each
      /\ sell.remaining = 0 => after.remaining = 0 /\ after.gains = sell.gains /\ after.lots = whole
      /\ sell.remaining # 0 => after.remaining = less /\ after.gains = gains /\ after.lots = kept
  <2>1. CASE sell.remaining = 0
    <3>1. after = [remaining |-> 0, each |-> sell.each, lots |-> whole, gains |-> sell.gains]
      BY <1>1, <1>5, <2>1
    <3>2. QED
      BY <1>1, <1>8, <2>1, <3>1 DEF SellType
  <2>2. CASE sell.remaining # 0
    <3>1. after = [remaining |-> less, each |-> sell.each, lots |-> kept, gains |-> gains]
      BY <1>1, <1>5, <2>2
    <3>2. QED
      BY <1>1, <1>6, <1>7, <1>8, <2>2, <3>1 DEF SellType
  <2>3. QED
    BY <2>1, <2>2
<1>10. QED
  BY <1>9 DEF after, taken, gain, less, rest, over, kept, gains, whole

MatchStep(lots, base, g) ==
    [s \in SUBSET DOMAIN lots |-> IF s = {} THEN base ELSE Matched(g[s \ {Max(s)}], lots[Max(s)])]

MatchOf(lots, base) == CHOOSE g : g = MatchStep(lots, base, g)

\* A sell after each of the lots it is matched with.
Sellings(n, lots, base, h) ==
    /\ h \in [0 .. n -> SellType]
    /\ h[0] = base
    /\ \A k \in 0 .. n - 1 : h[k + 1] = Matched(h[k], lots[k + 1])

LEMMA SellingsAre ==
  ASSUME NEW n \in Nat, NEW lots \in [1 .. n -> LotRow], NEW base \in SellType
  PROVE  \E h : Sellings(n, lots, base, h) /\ FoldLeft(Matched, base, lots) = h[n]
<1> DEFINE F == [p \in SellType \X LotRow |-> Matched(p[1], p[2])]
           S == 1 .. n
<1>1. F \in [SellType \X LotRow -> SellType]
  BY MatchedIs
<1>2. \A x \in SellType, y \in LotRow : F[<<x, y>>] = Matched(x, y)
  OBVIOUS
<1> HIDE DEF F
<1>3. PICK g, h : Folded(n, SellType, lots, base, F, g, h)
  BY <1>1, FoldRuns
<1>4. ASSUME NEW s \in SUBSET S, s # {} PROVE g[s] = Matched(g[s \ {Max(s)}], lots[Max(s)]) /\ Max(s) \in s
  <2>1. Max(s) \in s /\ g[s] = F[<<g[s \ {Max(s)}], lots[Max(s)]>>] /\ g[s \ {Max(s)}] \in SellType
    BY <1>3, <1>4 DEF Folded
  <2>2. lots[Max(s)] \in LotRow
    BY <2>1
  <2>3. QED
    BY <1>2, <2>1, <2>2
<1>5. ASSUME NEW k \in 0 .. n - 1 PROVE h[k + 1] = Matched(h[k], lots[k + 1])
  <2>1. k \in 0 .. n /\ k + 1 \in 1 .. n
    OBVIOUS
  <2>2. h[k + 1] = F[<<h[k], lots[k + 1]>>] /\ h[k] \in SellType
    BY <1>3, <2>1 DEF Folded
  <2>3. lots[k + 1] \in LotRow
    BY <2>1
  <2>4. QED
    BY <1>2, <2>2, <2>3
<1>6. Sellings(n, lots, base, h) /\ h[n] = g[S]
  BY <1>3, <1>5 DEF Folded, Sellings
<1>7. g = MatchStep(lots, base, g)
  <2>1. DOMAIN lots = S
    OBVIOUS
  <2>2. g \in [SUBSET S -> SellType] /\ g[{}] = base
    BY <1>3 DEF Folded
  <2> HIDE DEF S
  <2>3. QED
    BY <1>4, <2>1, <2>2 DEF MatchStep
<1> DEFINE it == MatchOf(lots, base)
<1>8. it = MatchStep(lots, base, it)
  BY <1>7 DEF MatchOf
<1>9. FoldLeft(Matched, base, lots) = it[S]
  <2>1. DOMAIN lots = S
    OBVIOUS
  <2>2. FoldLeft(Matched, base, lots) = it[DOMAIN lots]
    BY DEF FoldLeft, MapThenFoldSet, MatchOf, MatchStep
  <2>3. QED
    BY <2>1, <2>2
<1> HIDE DEF it
<1>10. it[S] = g[S]
  <2>1. DOMAIN lots = S
    OBVIOUS
  <2> HIDE DEF S
  <2>2. it[{}] = base /\ \A s \in SUBSET S : s # {} => it[s] = Matched(it[s \ {Max(s)}], lots[Max(s)])
    BY <1>8, <2>1 DEF MatchStep
  <2>3. ASSUME NEW s \in SUBSET S, s # {}, \A x \in s : it[s \ {x}] = g[s \ {x}] PROVE it[s] = g[s]
    <3>1. Max(s) \in s /\ g[s] = Matched(g[s \ {Max(s)}], lots[Max(s)])
      BY <1>4, <2>3
    <3>2. QED
      BY <2>2, <2>3, <3>1
  <2>4. it[{}] = g[{}]
    BY <1>3, <2>2 DEF Folded
  <2>5. IsFiniteSet(S)
    BY MaxChoice DEF S
  <2>6. QED
    BY <2>3, <2>4, <2>5, SameOnParts
<1>11. QED
  BY <1>6, <1>9, <1>10

SoldStep(lots, price, g) ==
    [s \in SUBSET DOMAIN lots |->
        IF s = {} THEN Whole(0)
        ELSE Plus(g[s \ {Max(s)}], Times(lots[Max(s)].quantity, Minus(Whole(price), lots[Max(s)].each)))]

SoldOf(lots, price) == CHOOSE g : g = SoldStep(lots, price, g)

\* What the lots would gain at the price, of the oldest, of the two oldest and so on.
SoldRunning(n, book, price, h) ==
    /\ h \in [0 .. n -> Frac] /\ h[0] = Whole(0) /\ h[n] = IfSold(book, price)
    /\ \A k \in 0 .. n - 1 :
         h[k + 1] = Plus(h[k], Times(book.lots[k + 1].quantity, Minus(Whole(price), book.lots[k + 1].each)))

LEMMA IfSoldRuns ==
  ASSUME NEW n \in Nat, NEW book, book.lots \in [1 .. n -> LotRow], NEW price \in Int
  PROVE  \E h : SoldRunning(n, book, price, h)
<1> DEFINE lots == book.lots
           gained(lot) == Times(lot.quantity, Minus(Whole(price), lot.each))
           F == [p \in Frac \X LotRow |-> Plus(p[1], gained(p[2]))]
           S == 1 .. n
<1>0. lots \in [1 .. n -> LotRow]
  OBVIOUS
<1>1. F \in [Frac \X LotRow -> Frac]
  <2> SUFFICES ASSUME NEW p \in Frac \X LotRow PROVE Plus(p[1], gained(p[2])) \in Frac
    OBVIOUS
  <2> DEFINE lot == p[2]
  <2>1. lot.quantity \in Int /\ lot.each \in Frac /\ p[1] \in Frac
    BY DEF LotRow
  <2> HIDE DEF lot
  <2>2. gained(lot) \in Frac
    BY <2>1, WholeType, MinusType, TimesType
  <2> HIDE DEF gained
  <2>3. QED
    BY <2>1, <2>2, PlusType DEF lot
<1>2. \A x \in Frac, y \in LotRow : F[<<x, y>>] = Plus(x, gained(y))
  OBVIOUS
<1>3. Whole(0) \in Frac
  BY WholeType
<1> HIDE DEF F, lots
<1>4. PICK g, h : Folded(n, Frac, lots, Whole(0), F, g, h)
  BY <1>0, <1>1, <1>3, FoldRuns
<1>5. ASSUME NEW s \in SUBSET S, s # {} PROVE g[s] = Plus(g[s \ {Max(s)}], gained(lots[Max(s)])) /\ Max(s) \in s
  <2>1. Max(s) \in s /\ g[s] = F[<<g[s \ {Max(s)}], lots[Max(s)]>>] /\ g[s \ {Max(s)}] \in Frac
    BY <1>4, <1>5 DEF Folded
  <2>2. lots[Max(s)] \in LotRow
    BY <1>0, <2>1
  <2> HIDE DEF gained
  <2>3. QED
    BY <1>2, <2>1, <2>2
<1>6. ASSUME NEW k \in 0 .. n - 1 PROVE h[k + 1] = Plus(h[k], gained(lots[k + 1]))
  <2>1. k \in 0 .. n /\ k + 1 \in 1 .. n
    OBVIOUS
  <2>2. h[k + 1] = F[<<h[k], lots[k + 1]>>] /\ h[k] \in Frac
    BY <1>4, <2>1 DEF Folded
  <2>3. lots[k + 1] \in LotRow
    BY <1>0, <2>1
  <2> HIDE DEF gained
  <2>4. QED
    BY <1>2, <2>2, <2>3
<1>7. h \in [0 .. n -> Frac] /\ h[0] = Whole(0) /\ h[n] = g[S] /\ g \in [SUBSET S -> Frac] /\ g[{}] = Whole(0)
  BY <1>4 DEF Folded
<1>8. DOMAIN lots = S
  BY <1>0
<1>9. g = SoldStep(lots, price, g)
  <2> HIDE DEF S
  <2>1. QED
    BY <1>5, <1>7, <1>8 DEF SoldStep
<1> DEFINE it == SoldOf(lots, price)
<1>10. it = SoldStep(lots, price, it)
  BY <1>9 DEF SoldOf
<1>11. IfSold(book, price) = it[S]
  <2>1. IfSold(book, price) = it[DOMAIN lots]
    BY DEF IfSold, FoldLeft, MapThenFoldSet, SoldOf, SoldStep, lots
  <2>2. QED
    BY <1>8, <2>1
<1> HIDE DEF it
<1>12. it[S] = g[S]
  <2> HIDE DEF S
  <2>2. it[{}] = Whole(0) /\ \A s \in SUBSET S : s # {} => it[s] = Plus(it[s \ {Max(s)}], gained(lots[Max(s)]))
    BY <1>8, <1>10 DEF SoldStep
  <2>3. ASSUME NEW s \in SUBSET S, s # {}, \A x \in s : it[s \ {x}] = g[s \ {x}] PROVE it[s] = g[s]
    <3> HIDE DEF gained
    <3>1. Max(s) \in s /\ g[s] = Plus(g[s \ {Max(s)}], gained(lots[Max(s)]))
      BY <1>5, <2>3
    <3>2. QED
      BY <2>2, <2>3, <3>1
  <2>4. it[{}] = g[{}]
    BY <1>7, <2>2
  <2>5. IsFiniteSet(S)
    BY MaxChoice DEF S
  <2>6. QED
    BY <2>3, <2>4, <2>5, SameOnParts
<1>13. h[n] = IfSold(book, price)
  BY <1>7, <1>11, <1>12
<1>14. SoldRunning(n, book, price, h)
  BY <1>6, <1>7, <1>13 DEF SoldRunning, lots
<1>15. QED
  BY <1>14

\* The sum of the gains is one of a sequence of numbers.
LEMMA RealizedSum ==
  ASSUME NEW book, book.gains \in Seq(Int)
  PROVE  Realized(book) \in Int /\ Sums(book.gains, Realized(book))
<1> DEFINE b == [lots |-> book.gains]
<1>1. b.lots = book.gains
  OBVIOUS
<1>2. Realized(book) = LotUnits(b)
  BY <1>1 DEF Realized, LotUnits, FoldLeft, MapThenFoldSet
<1> HIDE DEF b
<1>3. QED
  BY <1>1, <1>2, LotUnitsSum
-------------------------------------------------------------------------------
(* The replays of the money *)

\* Rows that buy or sell something, or split by a ratio that is not zero.
MovingRow == {t \in TradeRow : (t.type # "split" => t.quantity \in Nat \ {0}) /\ t.ratio # "zero"}

SoldBase(book, t) == [remaining |-> t.quantity, each |-> Over(Whole(Gross(t) - Fees), t.quantity),
                      lots |-> <<>>, gains |-> book.gains]

LEMMA GrossType ==
  ASSUME NEW t \in TradeRow
  PROVE  Gross(t) \in Int /\ Gross(t) - Fees \in Int /\ Gross(t) + Fees \in Int
<1>1. t.quantity \in Int /\ t.day \in Day
  BY DEF TradeRow
<1>2. PriceOn[t.day] \in Int /\ Fees \in Int
  BY <1>1, MoneyAssumption
<1>3. Gross(t) \in Int
  BY <1>1, <1>2 DEF Gross
<1>4. QED
  BY <1>2, <1>3

LEMMA SoldLotsType ==
  ASSUME NEW book \in GainsBook, NEW t \in MovingRow, t.type = "sell"
  PROVE  /\ SoldBase(book, t) \in SellType
         /\ \E h : /\ Sellings(Len(book.lots), book.lots, SoldBase(book, t), h)
                   /\ SoldLots(book, t) = [lots |-> h[Len(book.lots)].lots, gains |-> h[Len(book.lots)].gains]
         /\ SoldLots(book, t) \in GainsBook
<1> DEFINE n == Len(book.lots)
           base == SoldBase(book, t)
           each == Over(Whole(Gross(t) - Fees), t.quantity)
<1>1. /\ book.lots \in Seq(LotRow) /\ book.gains \in Seq(Int) /\ t \in TradeRow
      /\ t.quantity \in Nat \ {0}
  BY DEF GainsBook, MovingRow
<1>2. n \in Nat /\ book.lots \in [1 .. n -> LotRow]
  BY <1>1
<1>3. each \in Frac
  BY <1>1, GrossType, WholeType, OverType
<1>4. base \in SellType
  <2>1. base = [remaining |-> t.quantity, each |-> each, lots |-> <<>>, gains |-> book.gains]
    BY DEF SoldBase
  <2> HIDE DEF base, each
  <2>2. t.quantity \in Int /\ <<>> \in Seq(LotRow)
    BY <1>1
  <2>3. QED
    BY <1>1, <1>3, <2>1, <2>2 DEF SellType
<1> HIDE DEF each
<1>5. PICK h : Sellings(n, book.lots, base, h) /\ FoldLeft(Matched, base, book.lots) = h[n]
  <2> HIDE DEF n, base
  <2>1. QED
    BY <1>2, <1>4, SellingsAre
<1>6. SoldLots(book, t) = [lots |-> h[n].lots, gains |-> h[n].gains]
  BY <1>5 DEF SoldLots, SoldBase
<1>7. h[n] \in SellType
  <2> HIDE DEF n
  <2>1. n \in 0 .. n
    BY <1>2
  <2>2. QED
    BY <1>5, <2>1 DEF Sellings
<1>8. SoldLots(book, t) \in GainsBook
  <2> DEFINE last == h[n]
  <2>1. last \in SellType /\ SoldLots(book, t) = [lots |-> last.lots, gains |-> last.gains]
    BY <1>6, <1>7
  <2> HIDE DEF last
  <2>2. last.lots \in Seq(LotRow) /\ last.gains \in Seq(Int)
    BY <2>1 DEF SellType
  <2>3. QED
    BY <2>1, <2>2 DEF GainsBook
<1>9. QED
  BY <1>4, <1>5, <1>6, <1>8

LEMMA SplitLotIs ==
  ASSUME NEW lot \in LotRow, NEW ratio \in {"double", "halve", "none"}
  PROVE  /\ SplitLot(lot, ratio) \in LotRow
         /\ SplitLot(lot, ratio).quantity = Scaled(lot.quantity, ratio)
         /\ SplitLot(lot, ratio).each = CASE ratio = "double" -> Over(lot.each, 2)
                                          [] ratio = "halve" -> Times(2, lot.each)
                                          [] ratio = "none" -> lot.each
<1>1. lot.quantity \in Int /\ lot.each \in Frac
  BY DEF LotRow
<1> DEFINE each == SplitEach(lot.each, ratio)
           units == Scaled(lot.quantity, ratio)
<1>2. each = CASE ratio = "double" -> Over(lot.each, 2)
               [] ratio = "halve" -> Times(2, lot.each)
               [] ratio = "none" -> lot.each
  BY DEF SplitEach
<1>3. Over(lot.each, 2) \in Frac /\ Times(2, lot.each) \in Frac
  BY <1>1, OverType, TimesType
<1>4. each \in Frac
  BY <1>1, <1>2, <1>3
<1>5. units \in Int
  BY <1>1, ScaledType
<1>6. SplitLot(lot, ratio) = [quantity |-> units, each |-> each]
  BY DEF SplitLot
<1> HIDE DEF units, each
<1>7. SplitLot(lot, ratio) \in LotRow
  BY <1>4, <1>5, <1>6 DEF LotRow
<1>8. SplitLot(lot, ratio).quantity = units /\ SplitLot(lot, ratio).each = each
  BY <1>6
<1>9. QED
  BY <1>2, <1>7, <1>8 DEF units

SplitLots(lots, ratio) == [i \in DOMAIN lots |-> SplitLot(lots[i], ratio)]

LEMMA SplitLotsAre ==
  ASSUME NEW lots \in Seq(LotRow), NEW ratio \in {"double", "halve", "none"}
  PROVE  /\ SplitLots(lots, ratio) \in Seq(LotRow) /\ Len(SplitLots(lots, ratio)) = Len(lots)
         /\ \A i \in 1 .. Len(lots) : SplitLots(lots, ratio)[i] = SplitLot(lots[i], ratio)
<1>1. Len(lots) \in Nat /\ DOMAIN lots = 1 .. Len(lots) /\ \A i \in 1 .. Len(lots) : lots[i] \in LotRow
  OBVIOUS
<1>2. \A i \in 1 .. Len(lots) : SplitLot(lots[i], ratio) \in LotRow
  BY <1>1, SplitLotIs
<1>3. QED
  BY <1>1, <1>2 DEF SplitLots

\* What a trade does to the lots and gains.
LEMMA ApplyGainsIs ==
  ASSUME NEW book \in GainsBook, NEW t \in MovingRow
  PROVE  /\ ApplyGains(book, t) \in GainsBook
         /\ t.type = "buy" =>
              ApplyGains(book, t) =
                [lots |-> Append(book.lots, [quantity |-> t.quantity,
                                             each |-> Over(Whole(Gross(t) + Fees), t.quantity)]),
                 gains |-> book.gains]
         /\ t.type = "sell" => ApplyGains(book, t) = SoldLots(book, t)
         /\ t.type = "split" =>
              ApplyGains(book, t) = [lots |-> SplitLots(book.lots, t.ratio), gains |-> book.gains]
<1>1. /\ t \in TradeRow /\ t.quantity \in Int /\ t.type \in {"buy", "sell", "split"}
      /\ t.type # "split" => t.quantity \in Nat \ {0}
      /\ book.lots \in Seq(LotRow) /\ book.gains \in Seq(Int)
      /\ t.ratio \in {"double", "halve", "none"}
      /\ book = [lots |-> book.lots, gains |-> book.gains]
  BY DEF TradeRow, GainsBook, MovingRow
<1>2. CASE t.type = "buy"
  <2> DEFINE lot == [quantity |-> t.quantity, each |-> Over(Whole(Gross(t) + Fees), t.quantity)]
             more == Append(book.lots, lot)
  <2>1. t.quantity # 0 /\ t.quantity \in Nat \ {0}
    BY <1>1, <1>2
  <2>2. ApplyGains(book, t) = [book EXCEPT !.lots = more]
    BY <1>2, <2>1 DEF ApplyGains
  <2>3. Over(Whole(Gross(t) + Fees), t.quantity) \in Frac
    BY <1>1, <2>1, GrossType, WholeType, OverType
  <2>4. lot \in LotRow
    BY <1>1, <2>3 DEF LotRow
  <2> HIDE DEF lot
  <2>5. more \in Seq(LotRow)
    BY <1>1, <2>4
  <2> HIDE DEF more
  <2>6. ApplyGains(book, t) = [lots |-> more, gains |-> book.gains]
    BY <1>1, <2>2
  <2>7. ApplyGains(book, t) \in GainsBook
    BY <1>1, <2>5, <2>6 DEF GainsBook
  <2>8. QED
    BY <1>2, <2>6, <2>7 DEF more, lot
<1>3. CASE t.type = "sell"
  <2>1. ApplyGains(book, t) = SoldLots(book, t)
    BY <1>1, <1>3 DEF ApplyGains
  <2>2. QED
    BY <1>1, <1>3, <2>1, SoldLotsType
<1>4. CASE t.type = "split"
  <2> DEFINE split == SplitLots(book.lots, t.ratio)
  <2>1. ApplyGains(book, t) = [book EXCEPT !.lots = split]
    BY <1>1, <1>4 DEF ApplyGains, SplitLots
  <2>2. split \in Seq(LotRow)
    BY <1>1, SplitLotsAre
  <2> HIDE DEF split
  <2>3. ApplyGains(book, t) = [lots |-> split, gains |-> book.gains]
    BY <1>1, <2>1
  <2>4. ApplyGains(book, t) \in GainsBook
    BY <1>1, <2>2, <2>3 DEF GainsBook
  <2>5. QED
    BY <1>4, <2>3, <2>4 DEF split
<1>5. QED
  BY <1>1, <1>2, <1>3, <1>4

CostType == [units : Int, oversold : BOOLEAN, cost_base : Frac, realized : Frac]

SoldCost(p, t) == Times(t.quantity, Over(p.cost_base, p.units))

\* What a trade does to the cost and the gains of a position that is not oversold.
LEMMA ApplyCostIs ==
  ASSUME NEW p \in CostType, NEW t \in MovingRow
  PROVE  LET after == ApplyCost(p, t)
         IN  /\ after \in CostType
             /\ p.oversold => after = p
             /\ ~p.oversold /\ t.type = "buy" =>
                  /\ ~after.oversold /\ after.units = p.units + t.quantity /\ after.realized = p.realized
                  /\ after.cost_base = Plus(p.cost_base, Whole(Gross(t) + Fees))
             /\ ~p.oversold /\ t.type = "sell" =>
                  /\ after.oversold <=> t.quantity > p.units
                  /\ ~after.oversold =>
                       /\ after.units = p.units - t.quantity
                       /\ after.realized = Plus(p.realized, Minus(Whole(Gross(t) - Fees), SoldCost(p, t)))
                       /\ after.cost_base = IF after.units = 0 THEN Whole(0)
                                            ELSE Minus(p.cost_base, SoldCost(p, t))
             /\ ~p.oversold /\ t.type = "split" =>
                  /\ ~after.oversold /\ after.units = Scaled(p.units, t.ratio)
                  /\ after.realized = p.realized /\ after.cost_base = p.cost_base
<1> DEFINE after == ApplyCost(p, t)
<1>1. /\ t \in TradeRow /\ t.quantity \in Int /\ t.type \in {"buy", "sell", "split"}
      /\ t.type # "split" => t.quantity \in Nat \ {0}
      /\ t.ratio \in {"double", "halve", "zero", "none"}
      /\ p = [units |-> p.units, oversold |-> p.oversold, cost_base |-> p.cost_base, realized |-> p.realized]
      /\ p.units \in Int /\ p.oversold \in BOOLEAN /\ p.cost_base \in Frac /\ p.realized \in Frac
  BY DEF TradeRow, CostType, MovingRow
<1>2. CASE p.oversold
  <2>1. Apply(p, t) = p
    BY <1>2 DEF Apply
  <2>2. after = p
    BY <1>2, <2>1 DEF ApplyCost
  <2>3. QED
    BY <1>2, <2>2
<1>3. CASE ~p.oversold /\ t.type = "buy"
  <2> DEFINE units == p.units + t.quantity
             cost == Plus(p.cost_base, Whole(Gross(t) + Fees))
  <2>1. units \in Int
    BY <1>1
  <2>2. cost \in Frac
    BY <1>1, GrossType, WholeType, PlusType
  <2>3. Apply(p, t) = [p EXCEPT !.units = units]
    BY <1>3 DEF Apply
  <2> HIDE DEF units
  <2>4. Apply(p, t) = [units |-> units, oversold |-> FALSE, cost_base |-> p.cost_base, realized |-> p.realized]
    BY <1>1, <1>3, <2>3
  <2>5. after = [Apply(p, t) EXCEPT !.cost_base = cost]
    <3>1. ~Apply(p, t).oversold /\ Apply(p, t).cost_base = p.cost_base
      BY <2>4
    <3> HIDE DEF Apply
    <3>2. after = [Apply(p, t) EXCEPT !.cost_base = Plus(Apply(p, t).cost_base, Whole(Gross(t) + Fees))]
      BY <1>3, <3>1 DEF ApplyCost
    <3>3. QED
      BY <3>1, <3>2
  <2> HIDE DEF after, cost
  <2>6. after = [units |-> units, oversold |-> FALSE, cost_base |-> cost, realized |-> p.realized]
    <3> DEFINE it == Apply(p, t)
               base == p.cost_base
               realized == p.realized
    <3>1. it = [units |-> units, oversold |-> FALSE, cost_base |-> base, realized |-> realized]
      BY <2>4
    <3>2. after = [it EXCEPT !.cost_base = cost]
      BY <2>5
    <3> HIDE DEF it, base, realized
    <3>3. after = [units |-> units, oversold |-> FALSE, cost_base |-> cost, realized |-> realized]
      BY <3>1, <3>2
    <3>4. QED
      BY <3>3 DEF realized
  <2>7. after \in CostType
    BY <1>1, <2>1, <2>2, <2>6 DEF CostType
  <2>8. ~after.oversold /\ after.units = units /\ after.realized = p.realized /\ after.cost_base = cost
    BY <2>6
  <2>9. QED
    BY <1>3, <2>7, <2>8 DEF after, units, cost
<1>4. CASE ~p.oversold /\ t.type = "sell"
  <2>1. CASE t.quantity > p.units
    <3>1. Apply(p, t) = [p EXCEPT !.oversold = TRUE]
      BY <1>4, <2>1 DEF Apply
    <3>2. Apply(p, t) = [units |-> p.units, oversold |-> TRUE, cost_base |-> p.cost_base, realized |-> p.realized]
      BY <1>1, <3>1
    <3>3. after = Apply(p, t)
      BY <3>2 DEF ApplyCost
    <3> HIDE DEF after
    <3>4. after \in CostType /\ after.oversold
      BY <1>1, <3>2, <3>3 DEF CostType
    <3>5. QED
      BY <1>4, <2>1, <3>4 DEF after
  <2>2. CASE ~(t.quantity > p.units)
    <3> DEFINE units == p.units - t.quantity
               sold == SoldCost(p, t)
               cost == IF units = 0 THEN Whole(0) ELSE Minus(p.cost_base, sold)
               gain == Plus(p.realized, Minus(Whole(Gross(t) - Fees), sold))
    <3>1. units \in Int /\ p.units \in Nat \ {0}
      BY <1>1, <1>4, <2>2
    <3>2. sold \in Frac
      BY <1>1, <3>1, OverType, TimesType DEF SoldCost
    <3> HIDE DEF sold
    <3>3. cost \in Frac
      <4>1. Whole(0) \in Frac /\ Minus(p.cost_base, sold) \in Frac
        BY <1>1, <3>2, WholeType, MinusType
      <4>2. QED
        BY <4>1
    <3>4. gain \in Frac
      BY <1>1, <3>2, GrossType, WholeType, MinusType, PlusType
    <3>5. Apply(p, t) = [p EXCEPT !.units = units]
      BY <1>4, <2>2 DEF Apply
    <3> HIDE DEF units
    <3>6. Apply(p, t) = [units |-> units, oversold |-> FALSE, cost_base |-> p.cost_base, realized |-> p.realized]
      BY <1>1, <1>4, <3>5
    <3>7. after = [Apply(p, t) EXCEPT !.realized = gain, !.cost_base = cost]
      <4> DEFINE it == Apply(p, t)
      <4>1. ~it.oversold /\ it.cost_base = p.cost_base /\ it.realized = p.realized /\ it.units = units
        BY <3>6
      <4>2. after = [it EXCEPT !.realized = Plus(it.realized, Minus(Whole(Gross(t) - Fees), sold)),
                               !.cost_base = IF it.units = 0 THEN Whole(0) ELSE Minus(it.cost_base, sold)]
        <5>1. p.units # 0
          BY <3>1
        <5> HIDE DEF it
        <5>2. QED
          BY <1>4, <4>1, <5>1 DEF ApplyCost, it, sold, SoldCost
      <4> HIDE DEF it, after
      <4>3. QED
        BY <4>1, <4>2 DEF gain, cost, it
    <3> HIDE DEF after, cost, gain
    <3>8. after = [units |-> units, oversold |-> FALSE, cost_base |-> cost, realized |-> gain]
      <4> DEFINE it == Apply(p, t)
                 base == p.cost_base
                 realized == p.realized
      <4>1. it = [units |-> units, oversold |-> FALSE, cost_base |-> base, realized |-> realized]
        BY <3>6
      <4>2. after = [it EXCEPT !.realized = gain, !.cost_base = cost]
        BY <3>7
      <4> HIDE DEF it, base, realized
      <4>3. QED
        BY <4>1, <4>2
    <3>9. after \in CostType
      BY <3>1, <3>3, <3>4, <3>8 DEF CostType
    <3>10. ~after.oversold /\ after.units = units /\ after.realized = gain /\ after.cost_base = cost
      BY <3>8
    <3>11. QED
      BY <1>4, <2>2, <3>9, <3>10 DEF after, units, cost, gain, sold
  <2>3. QED
    BY <2>1, <2>2
<1>5. CASE ~p.oversold /\ t.type = "split"
  <2> DEFINE units == Scaled(p.units, t.ratio)
  <2>1. units \in Int
    BY <1>1, ScaledType
  <2>2. Apply(p, t) = [p EXCEPT !.units = units]
    BY <1>5 DEF Apply
  <2> HIDE DEF units
  <2>3. Apply(p, t) = [units |-> units, oversold |-> FALSE, cost_base |-> p.cost_base, realized |-> p.realized]
    BY <1>1, <1>5, <2>2
  <2>4. after = Apply(p, t)
    BY <1>5, <2>3 DEF ApplyCost
  <2> HIDE DEF after
  <2>5. after \in CostType
    BY <1>1, <2>1, <2>3, <2>4 DEF CostType
  <2>6. ~after.oversold /\ after.units = units /\ after.realized = p.realized /\ after.cost_base = p.cost_base
    BY <2>3, <2>4
  <2>7. QED
    BY <1>5, <2>5, <2>6 DEF after, units
<1>6. QED
  BY <1>1, <1>2, <1>3, <1>4, <1>5

CostOf(rows) == ReplayTrades(ApplyCost, NoCost, rows)

CostStep(rows, g) ==
    [s \in SUBSET rows |-> IF s = {} THEN NoCost ELSE ApplyCost(g[s \ {Latest(s)}], Latest(s))]

Costs(rows) == CHOOSE g : g = CostStep(rows, g)

LEMMA NoCostType == NoCost \in CostType
BY WholeType DEF NoCost, CostType

LEMMA MovingParts ==
  ASSUME NEW rows \in SUBSET MovingRow, IsFiniteSet(rows)
  PROVE  /\ rows \in SUBSET TradeRow
         /\ \A s \in SUBSET rows : /\ IsFiniteSet(s) /\ s \in SUBSET MovingRow /\ s \in SUBSET TradeRow
                                   /\ s # {} => Latest(s) \in s
<1>1. rows \in SUBSET TradeRow
  BY DEF MovingRow
<1>2. \A s \in SUBSET rows : IsFiniteSet(s)
  BY FS_Subset
<1>3. \A s \in SUBSET rows : s # {} => Latest(s) \in s
  BY <1>1, LatestChoice
<1>4. QED
  BY <1>1, <1>2, <1>3

LEMMA CostsAre ==
  ASSUME NEW rows \in SUBSET MovingRow, IsFiniteSet(rows)
  PROVE  /\ Costs(rows) = CostStep(rows, Costs(rows))
         /\ CostOf(rows) = Costs(rows)[rows] /\ CostOf(rows) \in CostType
<1> DEFINE F == [p \in CostType \X rows |-> ApplyCost(p[1], p[2])]
           choice == [s \in SUBSET rows |-> Latest(s)]
<1>1. F \in [CostType \X rows -> CostType]
  BY ApplyCostIs
<1>2. Choice(rows, choice)
  BY MovingParts DEF Choice
<1>3. \A p \in CostType, t \in rows : F[<<p, t>>] = ApplyCost(p, t)
  OBVIOUS
<1>4. \A s \in SUBSET rows : choice[s] = Latest(s)
  OBVIOUS
<1> HIDE DEF F, choice
<1>5. PICK g : Folds(rows, CostType, F, choice, NoCost, g)
  BY <1>1, <1>2, NoCostType, FoldExists
<1>6. ASSUME NEW s \in SUBSET rows, s # {} PROVE Latest(s) \in s /\ g[s] = ApplyCost(g[s \ {Latest(s)}], Latest(s))
  <2>1. Latest(s) \in rows /\ Latest(s) \in s /\ g[s \ {Latest(s)}] \in CostType
    BY <1>2, <1>4, <1>5, <1>6 DEF Choice, Folds
  <2>2. g[s] = F[<<g[s \ {Latest(s)}], Latest(s)>>]
    BY <1>4, <1>5, <1>6 DEF Folds
  <2>3. QED
    BY <1>3, <2>1, <2>2
<1>7. g = CostStep(rows, g)
  <2>1. g \in [SUBSET rows -> CostType] /\ g[{}] = NoCost
    BY <1>5 DEF Folds
  <2>2. QED
    BY <1>6, <2>1 DEF CostStep
<1> DEFINE it == Costs(rows)
<1>8. it = CostStep(rows, it)
  BY <1>7 DEF Costs
<1>9. CostOf(rows) = it[rows]
  BY DEF CostOf, ReplayTrades, MapThenFoldSet, Costs, CostStep
<1> HIDE DEF it
<1>10. it[rows] = g[rows]
  <2>1. it[{}] = NoCost /\ \A s \in SUBSET rows : s # {} => it[s] = ApplyCost(it[s \ {Latest(s)}], Latest(s))
    BY <1>8 DEF CostStep
  <2>2. ASSUME NEW s \in SUBSET rows, s # {}, \A x \in s : it[s \ {x}] = g[s \ {x}] PROVE it[s] = g[s]
    BY <1>6, <2>1, <2>2
  <2>3. it[{}] = g[{}]
    BY <1>5, <2>1 DEF Folds
  <2>4. QED
    BY <2>2, <2>3, SameOnParts
<1>11. g[rows] \in CostType
  BY <1>5 DEF Folds
<1>12. QED
  BY <1>8, <1>9, <1>10, <1>11 DEF it

\* The money of a log is that of the log without its last trade, and the last trade applied.
LEMMA CostIs ==
  ASSUME NEW rows \in SUBSET MovingRow, IsFiniteSet(rows)
  PROVE  /\ CostOf(rows) \in CostType
         /\ rows = {} => CostOf(rows) = NoCost
         /\ rows # {} => CostOf(rows) = ApplyCost(CostOf(rows \ {Latest(rows)}), Latest(rows))
<1> DEFINE it == Costs(rows)
<1>1. it = CostStep(rows, it) /\ CostOf(rows) = it[rows] /\ CostOf(rows) \in CostType
  BY CostsAre
<1> HIDE DEF it
<1>2. it[{}] = NoCost /\ \A s \in SUBSET rows : s # {} => it[s] = ApplyCost(it[s \ {Latest(s)}], Latest(s))
  BY <1>1 DEF CostStep
<1>3. CASE rows # {}
  <2> DEFINE rest == rows \ {Latest(rows)}
             there == Costs(rest)
  <2>1. rest \in SUBSET rows /\ rest \in SUBSET MovingRow /\ IsFiniteSet(rest)
    BY MovingParts
  <2>2. it[rows] = ApplyCost(it[rest], Latest(rows))
    BY <1>2, <1>3
  <2> HIDE DEF rest
  <2>3. there = CostStep(rest, there) /\ CostOf(rest) = there[rest]
    BY <2>1, CostsAre
  <2> HIDE DEF there
  <2>4. there[{}] = NoCost /\ \A s \in SUBSET rest : s # {} => there[s] = ApplyCost(there[s \ {Latest(s)}], Latest(s))
    BY <2>3 DEF CostStep
  <2>5. it[rest] = there[rest]
    <3>1. ASSUME NEW s \in SUBSET rest, s # {}, \A x \in s : it[s \ {x}] = there[s \ {x}] PROVE it[s] = there[s]
      <4>1. s \in SUBSET rows /\ Latest(s) \in s
        BY <2>1, <3>1, MovingParts
      <4>2. QED
        BY <1>2, <2>4, <3>1, <4>1
    <3>2. it[{}] = there[{}]
      BY <1>2, <2>4
    <3>3. QED
      BY <2>1, <3>1, <3>2, SameOnParts
  <2>6. QED
    BY <1>1, <1>3, <2>2, <2>3, <2>5 DEF rest
<1>4. QED
  BY <1>1, <1>2, <1>3

GainsOf(rows) == ReplayTrades(ApplyGains, NoGains, rows)

GainsStep(rows, g) ==
    [s \in SUBSET rows |-> IF s = {} THEN NoGains ELSE ApplyGains(g[s \ {Latest(s)}], Latest(s))]

GainsBy(rows) == CHOOSE g : g = GainsStep(rows, g)

LEMMA NoGainsType == NoGains \in GainsBook
BY DEF NoGains, GainsBook

LEMMA GainsAre ==
  ASSUME NEW rows \in SUBSET MovingRow, IsFiniteSet(rows)
  PROVE  /\ GainsBy(rows) = GainsStep(rows, GainsBy(rows))
         /\ GainsOf(rows) = GainsBy(rows)[rows] /\ GainsOf(rows) \in GainsBook
<1> DEFINE F == [p \in GainsBook \X rows |-> ApplyGains(p[1], p[2])]
           choice == [s \in SUBSET rows |-> Latest(s)]
<1>1. F \in [GainsBook \X rows -> GainsBook]
  BY ApplyGainsIs
<1>2. Choice(rows, choice)
  BY MovingParts DEF Choice
<1>3. \A p \in GainsBook, t \in rows : F[<<p, t>>] = ApplyGains(p, t)
  OBVIOUS
<1>4. \A s \in SUBSET rows : choice[s] = Latest(s)
  OBVIOUS
<1> HIDE DEF F, choice
<1>5. PICK g : Folds(rows, GainsBook, F, choice, NoGains, g)
  BY <1>1, <1>2, NoGainsType, FoldExists
<1>6. ASSUME NEW s \in SUBSET rows, s # {} PROVE Latest(s) \in s /\ g[s] = ApplyGains(g[s \ {Latest(s)}], Latest(s))
  <2>1. Latest(s) \in rows /\ Latest(s) \in s /\ g[s \ {Latest(s)}] \in GainsBook
    BY <1>2, <1>4, <1>5, <1>6 DEF Choice, Folds
  <2>2. g[s] = F[<<g[s \ {Latest(s)}], Latest(s)>>]
    BY <1>4, <1>5, <1>6 DEF Folds
  <2>3. QED
    BY <1>3, <2>1, <2>2
<1>7. g = GainsStep(rows, g)
  <2>1. g \in [SUBSET rows -> GainsBook] /\ g[{}] = NoGains
    BY <1>5 DEF Folds
  <2>2. QED
    BY <1>6, <2>1 DEF GainsStep
<1> DEFINE it == GainsBy(rows)
<1>8. it = GainsStep(rows, it)
  BY <1>7 DEF GainsBy
<1>9. GainsOf(rows) = it[rows]
  BY DEF GainsOf, ReplayTrades, MapThenFoldSet, GainsBy, GainsStep
<1> HIDE DEF it
<1>10. it[rows] = g[rows]
  <2>1. it[{}] = NoGains /\ \A s \in SUBSET rows : s # {} => it[s] = ApplyGains(it[s \ {Latest(s)}], Latest(s))
    BY <1>8 DEF GainsStep
  <2>2. ASSUME NEW s \in SUBSET rows, s # {}, \A x \in s : it[s \ {x}] = g[s \ {x}] PROVE it[s] = g[s]
    BY <1>6, <2>1, <2>2
  <2>3. it[{}] = g[{}]
    BY <1>5, <2>1 DEF Folds
  <2>4. QED
    BY <2>2, <2>3, SameOnParts
<1>11. g[rows] \in GainsBook
  BY <1>5 DEF Folds
<1>12. QED
  BY <1>8, <1>9, <1>10, <1>11 DEF it

\* The lots and gains of a log is that of the log without its last trade, and the last trade applied.
LEMMA GainsIs ==
  ASSUME NEW rows \in SUBSET MovingRow, IsFiniteSet(rows)
  PROVE  /\ GainsOf(rows) \in GainsBook
         /\ rows = {} => GainsOf(rows) = NoGains
         /\ rows # {} => GainsOf(rows) = ApplyGains(GainsOf(rows \ {Latest(rows)}), Latest(rows))
<1> DEFINE it == GainsBy(rows)
<1>1. it = GainsStep(rows, it) /\ GainsOf(rows) = it[rows] /\ GainsOf(rows) \in GainsBook
  BY GainsAre
<1> HIDE DEF it
<1>2. it[{}] = NoGains /\ \A s \in SUBSET rows : s # {} => it[s] = ApplyGains(it[s \ {Latest(s)}], Latest(s))
  BY <1>1 DEF GainsStep
<1>3. CASE rows # {}
  <2> DEFINE rest == rows \ {Latest(rows)}
             there == GainsBy(rest)
  <2>1. rest \in SUBSET rows /\ rest \in SUBSET MovingRow /\ IsFiniteSet(rest)
    BY MovingParts
  <2>2. it[rows] = ApplyGains(it[rest], Latest(rows))
    BY <1>2, <1>3
  <2> HIDE DEF rest
  <2>3. there = GainsStep(rest, there) /\ GainsOf(rest) = there[rest]
    BY <2>1, GainsAre
  <2> HIDE DEF there
  <2>4. there[{}] = NoGains /\ \A s \in SUBSET rest : s # {} => there[s] = ApplyGains(there[s \ {Latest(s)}], Latest(s))
    BY <2>3 DEF GainsStep
  <2>5. it[rest] = there[rest]
    <3>1. ASSUME NEW s \in SUBSET rest, s # {}, \A x \in s : it[s \ {x}] = there[s \ {x}] PROVE it[s] = there[s]
      <4>1. s \in SUBSET rows /\ Latest(s) \in s
        BY <2>1, <3>1, MovingParts
      <4>2. QED
        BY <1>2, <2>4, <3>1, <4>1
    <3>2. it[{}] = there[{}]
      BY <1>2, <2>4
    <3>3. QED
      BY <2>1, <3>1, <3>2, SameOnParts
  <2>6. QED
    BY <1>1, <1>3, <2>2, <2>3, <2>5 DEF rest
<1>4. QED
  BY <1>1, <1>2, <1>3

\* The money is that of the units: a log of which one says that it is oversold is one of which the
\* other does.
LEMMA CostUnits ==
  ASSUME NEW rows \in SUBSET MovingRow, IsFiniteSet(rows)
  PROVE  /\ CostOf(rows).oversold = Position(rows).oversold
         /\ ~CostOf(rows).oversold => CostOf(rows).units = Position(rows).units
<1> DEFINE same(s) == /\ CostOf(s).oversold = Position(s).oversold
                      /\ ~CostOf(s).oversold => CostOf(s).units = Position(s).units
           T == {s \in SUBSET rows : same(s)}
<1>1. \A s \in SUBSET rows : IsFiniteSet(s) /\ s \in SUBSET MovingRow /\ s \in SUBSET TradeRow
  BY MovingParts
<1>2. {} \in T
  <2>1. CostOf({}) = NoCost /\ Position({}) = NoPosition
    BY <1>1, CostIs, PositionIs
  <2>2. same({})
    <3>1. NoCost.oversold = NoPosition.oversold /\ NoCost.units = NoPosition.units
      BY DEF NoCost, NoPosition
    <3>2. QED
      BY <2>1, <3>1
  <2>3. QED
    BY <2>2
<1>3. ASSUME NEW s \in SUBSET rows, s # {}, \A x \in s : s \ {x} \in T PROVE s \in T
  <2> DEFINE t == Latest(s)
             rest == s \ {t}
             cost == CostOf(rest)
             place == Position(rest)
  <2>1. t \in s /\ CostOf(s) = ApplyCost(cost, t) /\ Position(s) = Apply(place, t)
    BY <1>1, <1>3, MovingParts, CostIs, PositionIs
  <2>2. t \in MovingRow /\ t \in TradeRow /\ rest \in SUBSET rows /\ same(rest)
    BY <1>1, <1>3, <2>1
  <2>3. cost \in CostType /\ place \in PositionType
    <3> HIDE DEF t
    <3>1. QED
      BY <1>1, <2>2, CostIs, PositionTyped
  <2>4. cost.oversold = place.oversold /\ (~cost.oversold => cost.units = place.units)
    BY <2>2
  <2>5. /\ t.quantity \in Int /\ t.type \in {"buy", "sell", "split"}
        /\ place.oversold \in BOOLEAN /\ cost.oversold \in BOOLEAN
    BY <2>2, <2>3 DEF TradeRow, CostType, PositionType
  <2> DEFINE spent == ApplyCost(cost, t)
             moved == Apply(place, t)
  <2> HIDE DEF t, rest, cost, place
  <2>6. spent \in CostType /\ moved \in PositionType
    BY <2>2, <2>3, ApplyCostIs, ApplyType
  <2>7. spent.oversold \in BOOLEAN /\ moved.oversold \in BOOLEAN
    BY <2>6 DEF CostType, PositionType
  <2>8. /\ cost.oversold => spent = cost /\ moved = place
        /\ ~cost.oversold /\ t.type = "buy" =>
             ~spent.oversold /\ spent.units = cost.units + t.quantity
        /\ ~cost.oversold /\ t.type = "sell" =>
             /\ spent.oversold <=> t.quantity > cost.units
             /\ ~spent.oversold => spent.units = cost.units - t.quantity
        /\ ~cost.oversold /\ t.type = "split" =>
             ~spent.oversold /\ spent.units = Scaled(cost.units, t.ratio)
    BY <2>2, <2>3, <2>4, ApplyCostIs, ApplyIs
  <2>9. ~cost.oversold /\ t.type = "buy" => moved = [units |-> cost.units + t.quantity, oversold |-> FALSE]
    BY <2>2, <2>3, <2>4, ApplyIs
  <2>10. ~cost.oversold /\ t.type = "sell" =>
             IF t.quantity > cost.units THEN moved.oversold
             ELSE moved = [units |-> cost.units - t.quantity, oversold |-> FALSE]
    BY <2>2, <2>3, <2>4, ApplyIs
  <2>11. ~cost.oversold /\ t.type = "split" => moved = [units |-> Scaled(cost.units, t.ratio), oversold |-> FALSE]
    BY <2>2, <2>3, <2>4, ApplyIs
  <2> HIDE DEF spent, moved
  <2>12. spent.oversold = moved.oversold /\ (~spent.oversold => spent.units = moved.units)
    <3>1. CASE cost.oversold
      BY <2>4, <2>8, <3>1
    <3>2. CASE ~cost.oversold /\ t.type = "buy"
      BY <2>7, <2>8, <2>9, <3>2
    <3>3. CASE ~cost.oversold /\ t.type = "sell"
      BY <2>7, <2>8, <2>10, <3>3
    <3>4. CASE ~cost.oversold /\ t.type = "split"
      BY <2>7, <2>8, <2>11, <3>4
    <3>5. QED
      BY <2>5, <3>1, <3>2, <3>3, <3>4
  <2>13. QED
    BY <2>1, <2>12 DEF spent, moved
<1> HIDE DEF T
<1>4. rows \in T
  BY <1>2, <1>3, PartsUp
<1>5. QED
  BY <1>4 DEF T
-------------------------------------------------------------------------------
(* What lots cost, in parts of which D make a cent *)

LEMMA SumsTimes ==
  ASSUME NEW m \in Int, NEW n \in Nat, NEW part, NEW lots, DOMAIN part = 1 .. n, Len(part) = n, Len(lots) = n,
         \A k \in 1 .. n : part[k] \in Int /\ lots[k] = m * part[k], NEW y, Sums(part, y)
  PROVE  Sums(lots, m * y) /\ y \in Int
<1>1. PICK p : Running(n, part, p) /\ p[n] = y
  BY DEF Sums
<1> DEFINE q == [k \in 0 .. n |-> m * p[k]]
<1>2. \A k \in 0 .. n : p[k] \in Int
  BY <1>1 DEF Running
<1>3. q \in [0 .. n -> Int]
  BY <1>2
<1>4. q[0] = 0
  <2>1. 0 \in 0 .. n /\ p[0] = 0
    BY <1>1 DEF Running
  <2>2. q[0] = m * p[0]
    BY <2>1
  <2>3. QED
    BY <2>1, <2>2
<1>5. n \in 0 .. n
  OBVIOUS
<1>6. q[n] = m * y
  BY <1>1, <1>5
<1>7. ASSUME NEW k \in 0 .. n - 1 PROVE q[k + 1] = q[k] + lots[k + 1]
  <2>1. k \in 0 .. n /\ k + 1 \in 0 .. n /\ k + 1 \in 1 .. n
    OBVIOUS
  <2>2. p[k + 1] = p[k] + part[k + 1] /\ p[k] \in Int /\ part[k + 1] \in Int /\ lots[k + 1] = m * part[k + 1]
    BY <1>1, <1>2, <2>1 DEF Running
  <2>3. m * (p[k] + part[k + 1]) = m * p[k] + m * part[k + 1]
    BY <2>2, Products
  <2>4. q[k] = m * p[k] /\ q[k + 1] = m * p[k + 1]
    BY <2>1
  <2> HIDE DEF q
  <2>5. QED
    BY <2>2, <2>3, <2>4
<1> HIDE DEF q
<1>8. Running(n, lots, q)
  BY <1>3, <1>4, <1>7 DEF Running
<1>9. QED
  BY <1>1, <1>2, <1>5, <1>6, <1>8 DEF Sums

Quantities(lots) == [i \in 1 .. Len(lots) |-> lots[i].quantity]

\* What the lots cost, each its quantity times what one unit of it costs.
Paid(lots, es) == [i \in 1 .. Len(lots) |-> lots[i].quantity * es[i]]

Priced(D, lots, es) ==
    es \in [1 .. Len(lots) -> Int] /\ \A i \in 1 .. Len(lots) : Counts(D, lots[i].each, es[i])

\* The lots are q units and cost v D-ths in all.
Worth(D, lots, q, v) ==
    \E es : Priced(D, lots, es) /\ Sums(Quantities(lots), q) /\ Sums(Paid(lots, es), v)

LEMMA Sequence ==
  ASSUME NEW n \in Nat, NEW f \in [1 .. n -> Int]
  PROVE  f \in Seq(Int) /\ Len(f) = n /\ DOMAIN f = 1 .. n
OBVIOUS

LEMMA QuantitiesType ==
  ASSUME NEW lots \in Seq(LotRow)
  PROVE  /\ Quantities(lots) \in Seq(Int) /\ Len(Quantities(lots)) = Len(lots) /\ Len(lots) \in Nat
         /\ DOMAIN Quantities(lots) = 1 .. Len(lots)
         /\ \A i \in 1 .. Len(lots) : Quantities(lots)[i] = lots[i].quantity /\ lots[i] \in LotRow
                                      /\ lots[i].quantity \in Int /\ lots[i].each \in Frac
<1>1. Len(lots) \in Nat /\ \A i \in 1 .. Len(lots) : lots[i] \in LotRow
  OBVIOUS
<1>2. \A i \in 1 .. Len(lots) : lots[i].quantity \in Int /\ lots[i].each \in Frac
  BY <1>1 DEF LotRow
<1>3. Quantities(lots) \in [1 .. Len(lots) -> Int]
  BY <1>2 DEF Quantities
<1>4. \A i \in 1 .. Len(lots) : Quantities(lots)[i] = lots[i].quantity
  BY DEF Quantities
<1>5. QED
  BY <1>1, <1>2, <1>3, <1>4, Sequence

LEMMA PaidType ==
  ASSUME NEW lots \in Seq(LotRow), NEW es \in [1 .. Len(lots) -> Int]
  PROVE  /\ Paid(lots, es) \in Seq(Int) /\ Len(Paid(lots, es)) = Len(lots)
         /\ DOMAIN Paid(lots, es) = 1 .. Len(lots)
         /\ \A i \in 1 .. Len(lots) : Paid(lots, es)[i] = lots[i].quantity * es[i] /\ Paid(lots, es)[i] \in Int
<1>1. Len(lots) \in Nat /\ \A i \in 1 .. Len(lots) : lots[i].quantity \in Int
  BY QuantitiesType
<1>2. \A i \in 1 .. Len(lots) : lots[i].quantity * es[i] \in Int
  BY <1>1
<1>3. Paid(lots, es) \in [1 .. Len(lots) -> Int]
  BY <1>2 DEF Paid
<1>4. \A i \in 1 .. Len(lots) : Paid(lots, es)[i] = lots[i].quantity * es[i]
  BY DEF Paid
<1>5. QED
  BY <1>1, <1>2, <1>3, <1>4, Sequence

LEMMA SumsInt ==
  ASSUME NEW f, Len(f) \in Nat, NEW x, Sums(f, x)
  PROVE  x \in Int
<1> DEFINE n == Len(f)
<1>1. n \in 0 .. n
  OBVIOUS
<1>2. PICK p : Running(n, f, p) /\ p[n] = x
  BY DEF Sums
<1> HIDE DEF n
<1>3. QED
  BY <1>1, <1>2 DEF Running

LEMMA WorthInt ==
  ASSUME NEW D, NEW lots \in Seq(LotRow), NEW q, NEW v, Worth(D, lots, q, v)
  PROVE  q \in Int /\ v \in Int
<1>1. PICK es : Priced(D, lots, es) /\ Sums(Quantities(lots), q) /\ Sums(Paid(lots, es), v)
  BY DEF Worth
<1>2. es \in [1 .. Len(lots) -> Int]
  BY <1>1 DEF Priced
<1>3. Len(Quantities(lots)) \in Nat /\ Len(Paid(lots, es)) \in Nat
  BY <1>2, QuantitiesType, PaidType
<1>4. QED
  BY <1>1, <1>3, SumsInt

LEMMA WorthNone ==
  ASSUME NEW D
  PROVE  /\ Worth(D, <<>>, 0, 0)
         /\ \A q, v : Worth(D, <<>>, q, v) => q = 0 /\ v = 0
<1> DEFINE es == [i \in 1 .. 0 |-> 0]
<1>1. Len(<<>>) = 0 /\ 1 .. 0 = {}
  BY EmptyRange
<1>2. es \in [1 .. Len(<<>>) -> Int]
  BY <1>1
<1>3. Priced(D, <<>>, es)
  BY <1>1, <1>2 DEF Priced
<1>4. \A f : Quantities(<<>>) = <<>> /\ Paid(<<>>, f) = <<>>
  BY <1>1 DEF Quantities, Paid
<1> HIDE DEF es
<1>5. Worth(D, <<>>, 0, 0)
  BY <1>3, <1>4, SumsNone DEF Worth
<1>6. ASSUME NEW q, NEW v, Worth(D, <<>>, q, v) PROVE q = 0 /\ v = 0
  <2>1. Sums(<<>>, q) /\ Sums(<<>>, v)
    BY <1>4, <1>6 DEF Worth
  <2>2. <<>> \in Seq(Int)
    OBVIOUS
  <2>3. QED
    BY <2>1, <2>2, SumsNone, SumsOnce
<1>7. QED
  BY <1>5, <1>6

LEMMA WorthAppend ==
  ASSUME NEW D, NEW lots \in Seq(LotRow), NEW q, NEW v, Worth(D, lots, q, v),
         NEW lot \in LotRow, NEW e, Counts(D, lot.each, e)
  PROVE  /\ Worth(D, Append(lots, lot), q + lot.quantity, v + lot.quantity * e)
         /\ q \in Int /\ v \in Int
<1> DEFINE n == Len(lots)
           more == Append(lots, lot)
<1>1. PICK es : Priced(D, lots, es) /\ Sums(Quantities(lots), q) /\ Sums(Paid(lots, es), v)
  BY DEF Worth
<1>2. /\ n \in Nat /\ Len(more) = n + 1 /\ more[n + 1] = lot /\ more \in Seq(LotRow)
      /\ \A i \in 1 .. n : more[i] = lots[i]
  OBVIOUS
<1>3. \A i \in 1 .. n + 1 : i \in 1 .. n \/ i = n + 1
  BY <1>2
<1>4. es \in [1 .. n -> Int] /\ lot.quantity \in Int /\ e \in Int
  BY <1>1 DEF Priced, LotRow, Counts
<1> DEFINE fs == [i \in 1 .. n + 1 |-> IF i = n + 1 THEN e ELSE es[i]]
<1>5. fs \in [1 .. n + 1 -> Int] /\ fs[n + 1] = e /\ \A i \in 1 .. n : fs[i] = es[i]
  <2> HIDE DEF n
  <2>1. n + 1 \in 1 .. n + 1 /\ \A i \in 1 .. n : i # n + 1 /\ i \in 1 .. n + 1
    BY <1>2
  <2>2. QED
    BY <1>3, <1>4, <2>1
<1> HIDE DEF fs, more
<1>6. Priced(D, more, fs)
  <2>1. \A i \in 1 .. n : Counts(D, more[i].each, fs[i])
    BY <1>1, <1>2, <1>5 DEF Priced
  <2>2. Counts(D, more[n + 1].each, fs[n + 1])
    BY <1>2, <1>5
  <2> HIDE DEF n
  <2>3. QED
    BY <1>2, <1>3, <1>5, <2>1, <2>2 DEF Priced
<1> DEFINE qs == Append(Quantities(lots), lot.quantity)
           vs == Append(Paid(lots, es), lot.quantity * e)
<1>7. Quantities(more) = qs
  <2>1. Quantities(lots) \in Seq(Int) /\ Len(Quantities(lots)) = n
    BY QuantitiesType
  <2>2. \A i \in 1 .. n : Quantities(lots)[i] = lots[i].quantity
    BY QuantitiesType
  <2>3. qs = [i \in 1 .. n + 1 |-> IF i = n + 1 THEN lot.quantity ELSE Quantities(lots)[i]]
    BY <1>4, <2>1
  <2>4. \A i \in 1 .. n + 1 : more[i].quantity = IF i = n + 1 THEN lot.quantity ELSE Quantities(lots)[i]
    <3> HIDE DEF n
    <3>1. QED
      BY <1>2, <1>3, <2>2
  <2>5. QED
    BY <1>2, <2>3, <2>4 DEF Quantities
<1>8. Paid(more, fs) = vs
  <2>1. Paid(lots, es) \in Seq(Int) /\ Len(Paid(lots, es)) = n
    BY <1>4, PaidType
  <2>2. \A i \in 1 .. n : Paid(lots, es)[i] = lots[i].quantity * es[i]
    BY <1>4, PaidType
  <2>3. lot.quantity * e \in Int
    BY <1>4
  <2>4. vs = [i \in 1 .. n + 1 |-> IF i = n + 1 THEN lot.quantity * e ELSE Paid(lots, es)[i]]
    BY <2>1, <2>3
  <2>5. \A i \in 1 .. n + 1 : more[i].quantity * fs[i] = IF i = n + 1 THEN lot.quantity * e ELSE Paid(lots, es)[i]
    <3> HIDE DEF n
    <3>1. QED
      BY <1>2, <1>3, <1>5, <2>2
  <2>6. QED
    BY <1>2, <2>4, <2>5 DEF Paid
<1>9. Sums(qs, q + lot.quantity) /\ q \in Int
  BY <1>1, <1>4, QuantitiesType, SumsAppend
<1>10. Sums(vs, v + lot.quantity * e) /\ v \in Int
  <2>1. Paid(lots, es) \in Seq(Int) /\ lot.quantity * e \in Int
    BY <1>4, PaidType
  <2>2. QED
    BY <1>1, <2>1, SumsAppend
<1>11. QED
  BY <1>6, <1>7, <1>8, <1>9, <1>10 DEF Worth, more

LEMMA WorthFiner ==
  ASSUME NEW D \in Nat \ {0}, NEW lots \in Seq(LotRow), NEW q, NEW v, Worth(D, lots, q, v), NEW m \in Nat \ {0}
  PROVE  Worth(m * D, lots, q, m * v)
<1> DEFINE n == Len(lots)
<1>1. PICK es : Priced(D, lots, es) /\ Sums(Quantities(lots), q) /\ Sums(Paid(lots, es), v)
  BY DEF Worth
<1>2. n \in Nat /\ es \in [1 .. n -> Int]
  BY <1>1 DEF Priced
<1> DEFINE fs == [i \in 1 .. n |-> m * es[i]]
<1>3. fs \in [1 .. n -> Int] /\ \A i \in 1 .. n : fs[i] = m * es[i]
  BY <1>2
<1> HIDE DEF fs
<1>4. Priced(m * D, lots, fs)
  <2>1. ASSUME NEW i \in 1 .. n PROVE Counts(m * D, lots[i].each, fs[i])
    <3>1. Counts(D, lots[i].each, es[i])
      BY <1>1 DEF Priced
    <3>2. Counts(m * D, lots[i].each, m * es[i])
      <4> DEFINE a == lots[i].each
                 x == es[i]
      <4>1. Counts(D, a, x)
        BY <3>1
      <4> HIDE DEF a, x
      <4>2. Counts(m * D, a, m * x)
        BY <4>1, CountsFiner
      <4>3. QED
        BY <4>2 DEF a, x
    <3>3. QED
      BY <1>3, <3>2
  <2>2. QED
    BY <1>3, <2>1 DEF Priced
<1>5. \A k \in 1 .. n : Paid(lots, es)[k] \in Int /\ Paid(lots, fs)[k] = m * Paid(lots, es)[k]
  <2> SUFFICES ASSUME NEW k \in 1 .. n PROVE Paid(lots, es)[k] \in Int /\ Paid(lots, fs)[k] = m * Paid(lots, es)[k]
    OBVIOUS
  <2> DEFINE x == lots[k].quantity
             y == es[k]
  <2>1. x \in Int /\ y \in Int
    BY <1>2, QuantitiesType
  <2>2. Paid(lots, es)[k] = x * y /\ Paid(lots, es)[k] \in Int /\ Paid(lots, fs)[k] = x * (m * y)
    BY <1>2, <1>3, PaidType
  <2> HIDE DEF x, y
  <2>3. x * (m * y) = m * (x * y)
    <3>1. x * (m * y) = (x * m) * y /\ x * m = m * x /\ m * (x * y) = (m * x) * y
      BY <2>1, Products
    <3>2. QED
      BY <3>1
  <2>4. QED
    BY <2>2, <2>3
<1>6. DOMAIN Paid(lots, es) = 1 .. n /\ Len(Paid(lots, es)) = n /\ Len(Paid(lots, fs)) = n
  BY <1>2, <1>3, PaidType
<1> HIDE DEF n
<1>7. Sums(Paid(lots, fs), m * v)
  <2> DEFINE part == Paid(lots, es)
             whole == Paid(lots, fs)
  <2>1. /\ DOMAIN part = 1 .. n /\ Len(part) = n /\ Len(whole) = n /\ n \in Nat /\ m \in Int
        /\ \A k \in 1 .. n : part[k] \in Int /\ whole[k] = m * part[k]
        /\ Sums(part, v)
    BY <1>1, <1>2, <1>5, <1>6
  <2> HIDE DEF part, whole
  <2>2. Sums(whole, m * v)
    BY <2>1, SumsTimes
  <2>3. QED
    BY <2>2 DEF whole
<1>8. QED
  BY <1>1, <1>4, <1>7 DEF Worth

LEMMA SomeSum ==
  ASSUME NEW f \in Seq(Int)
  PROVE  \E x \in Int : Sums(f, x)
<1> DEFINE b == [lots |-> f]
<1>1. b.lots = f
  OBVIOUS
<1> HIDE DEF b
<1>2. LotUnits(b) \in Int /\ Sums(f, LotUnits(b))
  BY <1>1, LotUnitsSum
<1>3. QED
  BY <1>2

LEMMA SumsDouble ==
  ASSUME NEW n \in Nat, NEW part, NEW lots, DOMAIN part = 1 .. n, Len(part) = n, Len(lots) = n,
         \A k \in 1 .. n : part[k] \in Int /\ lots[k] = 2 * part[k], NEW y, Sums(part, y)
  PROVE  Sums(lots, 2 * y)
<1> DEFINE m == 2
<1>1. m \in Int /\ \A k \in 1 .. n : part[k] \in Int /\ lots[k] = m * part[k]
  OBVIOUS
<1> HIDE DEF m
<1>2. Sums(lots, m * y)
  BY <1>1, SumsTimes
<1>3. QED
  BY <1>2 DEF m

SplitPrice(e, ratio) ==
    CASE ratio = "double" -> e
      [] ratio = "halve" -> 2 * (2 * e)
      [] ratio = "none" -> 2 * e

LEMMA SplitPriceIs ==
  ASSUME NEW D \in Nat \ {0}, NEW a, NEW e, Counts(D, a, e), NEW ratio \in {"double", "halve", "none"},
         NEW q \in Int, ratio = "halve" => q = 2 * (q \div 2)
  PROVE  LET each == CASE ratio = "double" -> Over(a, 2)
                       [] ratio = "halve" -> Times(2, a)
                       [] ratio = "none" -> a
         IN  /\ Counts(2 * D, each, SplitPrice(e, ratio)) /\ SplitPrice(e, ratio) \in Int
             /\ Scaled(q, ratio) * SplitPrice(e, ratio) = 2 * (q * e)
<1>1. e \in Int
  BY DEF Counts
<1>2. 2 * D \in Nat \ {0} /\ Counts(2 * D, a, 2 * e) /\ 2 * e \in Int
  <2> DEFINE m == 2
  <2>1. m \in Nat \ {0}
    OBVIOUS
  <2> HIDE DEF m
  <2>2. m * D \in Nat \ {0} /\ Counts(m * D, a, m * e)
    BY <2>1, CountsFiner
  <2>3. QED
    BY <1>1, <2>2 DEF m
<1>3. CASE ratio = "double"
  <2>1. SplitPrice(e, ratio) = e /\ Scaled(q, ratio) = 2 * q
    BY <1>3 DEF SplitPrice, Scaled
  <2>2. e * 2 = 2 * e
    BY <1>1
  <2>3. Counts(2 * D, Over(a, 2), e)
    <3> DEFINE D2 == 2 * D
               x == 2 * e
    <3>1. D2 \in Nat \ {0} /\ Counts(D2, a, x) /\ e * 2 = x
      BY <1>2, <2>2
    <3> HIDE DEF D2, x
    <3>2. Counts(D2, Over(a, 2), e)
      BY <1>1, <3>1, CountsOver
    <3>3. QED
      BY <3>2 DEF D2
  <2>4. (2 * q) * e = 2 * (q * e)
    BY <1>1, Products
  <2>5. QED
    BY <1>1, <1>3, <2>1, <2>3, <2>4
<1>4. CASE ratio = "halve"
  <2> DEFINE h == q \div 2
  <2>1. SplitPrice(e, ratio) = 2 * (2 * e) /\ Scaled(q, ratio) = h /\ q = 2 * h /\ h \in Int
    BY <1>4 DEF SplitPrice, Scaled
  <2>2. Counts(2 * D, Times(2, a), 2 * (2 * e)) /\ 2 * (2 * e) \in Int
    <3> DEFINE D2 == 2 * D
               x == 2 * e
    <3>1. D2 \in Nat \ {0} /\ Counts(D2, a, x) /\ x \in Int
      BY <1>2
    <3> HIDE DEF D2, x
    <3>2. Counts(D2, Times(2, a), 2 * x) /\ 2 * x \in Int
      BY <3>1, CountsTimes
    <3>3. QED
      BY <3>2 DEF D2, x
  <2> HIDE DEF h
  <2>3. h * (2 * (2 * e)) = 2 * (q * e)
    <3>1. h * (2 * (2 * e)) = (h * 2) * (2 * e) /\ h * 2 = 2 * h /\ q * (2 * e) = (q * 2) * e
          /\ q * 2 = 2 * q /\ (2 * q) * e = 2 * (q * e)
      BY <1>1, <1>2, <2>1, Products
    <3>2. QED
      BY <2>1, <3>1
  <2>4. QED
    BY <1>4, <2>1, <2>2, <2>3
<1>5. CASE ratio = "none"
  <2>1. SplitPrice(e, ratio) = 2 * e /\ Scaled(q, ratio) = q
    BY <1>5 DEF SplitPrice, Scaled
  <2>2. q * (2 * e) = 2 * (q * e)
    <3>1. q * (2 * e) = (q * 2) * e /\ q * 2 = 2 * q /\ (2 * q) * e = 2 * (q * e)
      BY <1>1, Products
    <3>2. QED
      BY <3>1
  <2>3. QED
    BY <1>2, <1>5, <2>1, <2>2
<1>6. QED
  BY <1>3, <1>4, <1>5

LEMMA WorthSplit ==
  ASSUME NEW D \in Nat \ {0}, NEW lots \in Seq(LotRow), NEW q, NEW v, Worth(D, lots, q, v),
         NEW ratio \in {"double", "halve", "none"},
         ratio = "halve" => \A i \in 1 .. Len(lots) : lots[i].quantity = 2 * (lots[i].quantity \div 2)
  PROVE  /\ Worth(2 * D, SplitLots(lots, ratio), Scaled(q, ratio), 2 * v)
         /\ ratio = "halve" => q = 2 * (q \div 2)
<1> DEFINE n == Len(lots)
           split == SplitLots(lots, ratio)
<1>1. PICK es : Priced(D, lots, es) /\ Sums(Quantities(lots), q) /\ Sums(Paid(lots, es), v)
  BY DEF Worth
<1>2. n \in Nat /\ es \in [1 .. n -> Int] /\ q \in Int /\ v \in Int
  BY <1>1, WorthInt DEF Priced
<1>3. /\ split \in Seq(LotRow) /\ Len(split) = n
      /\ \A i \in 1 .. n : split[i] = SplitLot(lots[i], ratio)
  BY SplitLotsAre
<1> DEFINE fs == [i \in 1 .. n |-> SplitPrice(es[i], ratio)]
<1> HIDE DEF n, split
<1>4. ASSUME NEW i \in 1 .. n
      PROVE  /\ split[i].quantity = Scaled(lots[i].quantity, ratio)
             /\ Counts(2 * D, split[i].each, fs[i]) /\ fs[i] \in Int
             /\ split[i].quantity * fs[i] = 2 * (lots[i].quantity * es[i])
  <2> DEFINE lot == lots[i]
             e == es[i]
             x == lot.quantity
             a == lot.each
  <2>1. lot \in LotRow /\ x \in Int /\ a \in Frac /\ Counts(D, a, e) /\ (ratio = "halve" => x = 2 * (x \div 2))
    BY <1>1, QuantitiesType DEF Priced, n
  <2>2. fs[i] = SplitPrice(e, ratio)
    OBVIOUS
  <2>3. split[i] = SplitLot(lot, ratio)
    BY <1>3
  <2> HIDE DEF fs, lot, e
  <2>4. /\ split[i].quantity = Scaled(x, ratio)
        /\ split[i].each = CASE ratio = "double" -> Over(a, 2)
                             [] ratio = "halve" -> Times(2, a)
                             [] ratio = "none" -> a
    BY <2>1, <2>3, SplitLotIs
  <2> HIDE DEF x, a
  <2>5. /\ Counts(2 * D, split[i].each, SplitPrice(e, ratio)) /\ SplitPrice(e, ratio) \in Int
        /\ Scaled(x, ratio) * SplitPrice(e, ratio) = 2 * (x * e)
    BY <2>1, <2>4, SplitPriceIs
  <2>6. QED
    BY <2>2, <2>4, <2>5 DEF x, e, lot
<1>5. fs \in [1 .. n -> Int]
  <2>1. \A i \in 1 .. n : SplitPrice(es[i], ratio) \in Int
    BY <1>4
  <2>2. QED
    BY <2>1
<1> HIDE DEF fs
<1>6. Priced(2 * D, split, fs)
  BY <1>3, <1>4, <1>5 DEF Priced
<1>7. Sums(Paid(split, fs), 2 * v)
  <2> DEFINE part == Paid(lots, es)
             whole == Paid(split, fs)
  <2>1. DOMAIN part = 1 .. n /\ Len(part) = n /\ Sums(part, v)
    BY <1>1, <1>2, PaidType DEF n
  <2>2. Len(whole) = n
    BY <1>3, <1>5, PaidType
  <2>3. \A k \in 1 .. n : part[k] \in Int /\ part[k] = lots[k].quantity * es[k]
    BY <1>2, PaidType DEF n
  <2>4. \A k \in 1 .. n : whole[k] = split[k].quantity * fs[k]
    BY <1>3, <1>5, PaidType
  <2> HIDE DEF part, whole
  <2>5. \A k \in 1 .. n : part[k] \in Int /\ whole[k] = 2 * part[k]
    BY <1>4, <2>3, <2>4
  <2>6. /\ DOMAIN part = 1 .. n /\ Len(part) = n /\ Len(whole) = n /\ n \in Nat /\ Sums(part, v)
        /\ \A k \in 1 .. n : part[k] \in Int /\ whole[k] = 2 * part[k]
    BY <1>2, <2>1, <2>2, <2>5
  <2>7. Sums(whole, 2 * v)
    BY <2>6, SumsDouble
  <2>8. QED
    BY <2>7 DEF whole
<1> DEFINE part == Quantities(lots)
           whole == Quantities(split)
<1>8. /\ DOMAIN part = 1 .. n /\ Len(part) = n /\ Sums(part, q) /\ part \in Seq(Int)
      /\ \A k \in 1 .. n : part[k] \in Int /\ part[k] = lots[k].quantity
  BY <1>1, QuantitiesType DEF n
<1>9. /\ DOMAIN whole = 1 .. n /\ Len(whole) = n /\ whole \in Seq(Int)
      /\ \A k \in 1 .. n : whole[k] \in Int /\ whole[k] = Scaled(part[k], ratio)
  <2>1. \A k \in 1 .. n : whole[k] = split[k].quantity /\ whole[k] \in Int
    BY <1>3, QuantitiesType
  <2>2. \A k \in 1 .. n : split[k].quantity = Scaled(part[k], ratio)
    BY <1>4, <1>8
  <2>3. DOMAIN whole = 1 .. n /\ Len(whole) = n /\ whole \in Seq(Int)
    BY <1>3, QuantitiesType
  <2>4. QED
    BY <2>1, <2>2, <2>3
<1> HIDE DEF part, whole
<1>10. Sums(whole, Scaled(q, ratio)) /\ (ratio = "halve" => q = 2 * (q \div 2))
  <2>1. CASE ratio = "double"
    <3>1. \A k \in 1 .. n : whole[k] = 2 * part[k]
      BY <1>9, <2>1 DEF Scaled
    <3>2. /\ DOMAIN part = 1 .. n /\ Len(part) = n /\ Len(whole) = n /\ n \in Nat /\ Sums(part, q)
          /\ \A k \in 1 .. n : part[k] \in Int /\ whole[k] = 2 * part[k]
      BY <1>2, <1>8, <1>9, <3>1
    <3>3. Sums(whole, 2 * q)
      BY <3>2, SumsDouble
    <3>4. QED
      BY <2>1, <3>3 DEF Scaled
  <2>2. CASE ratio = "none"
    <3>1. \A k \in 1 .. n : whole[k] = part[k]
      BY <1>8, <1>9, <2>2 DEF Scaled
    <3>2. whole = part
      <4>1. \A f \in Seq(Int) : f = [k \in DOMAIN f |-> f[k]]
        OBVIOUS
      <4>2. whole = [k \in 1 .. n |-> whole[k]] /\ part = [k \in 1 .. n |-> part[k]]
        BY <1>8, <1>9, <4>1
      <4>3. [k \in 1 .. n |-> whole[k]] = [k \in 1 .. n |-> part[k]]
        BY <3>1
      <4>4. QED
        BY <4>2, <4>3
    <3>3. QED
      BY <1>8, <2>2, <3>2 DEF Scaled
  <2>3. CASE ratio = "halve"
    <3>1. \A k \in 1 .. n : part[k] = 2 * whole[k]
      BY <1>8, <1>9, <2>3 DEF Scaled, n
    <3>2. PICK y \in Int : Sums(whole, y)
      BY <1>9, SomeSum
    <3>3. q = 2 * y
      <4>1. /\ part \in Seq(Int) /\ whole \in Seq(Int) /\ Len(whole) = Len(part)
            /\ Sums(part, q) /\ Sums(whole, y)
            /\ \A k \in 1 .. Len(part) : part[k] = 2 * whole[k]
        BY <1>8, <1>9, <3>1, <3>2
      <4>2. QED
        BY <4>1, SumsTwice
    <3>4. q \div 2 = y
      BY <3>3
    <3>5. QED
      BY <2>3, <3>2, <3>3, <3>4 DEF Scaled
  <2>4. QED
    BY <2>1, <2>2, <2>3
<1>11. Worth(2 * D, split, Scaled(q, ratio), 2 * v)
  BY <1>6, <1>7, <1>10 DEF Worth, whole
<1>12. QED
  BY <1>10, <1>11 DEF split
-------------------------------------------------------------------------------
(* A sell and what the lots it takes have cost *)

LEMMA NearCents ==
  ASSUME NEW D \in Nat \ {0}, NEW a, NEW b, NEW x, NEW y, Counts(D, a, x), Counts(D, b, y)
  PROVE  /\ Cents(a) - Cents(b) \in Int /\ x \in Int /\ y \in Int
         /\ x - y - D <= D * (Cents(a) - Cents(b)) /\ D * (Cents(a) - Cents(b)) <= x - y + D
<1> DEFINE c == Cents(a)
           d == Cents(b)
<1>1. x \in Int /\ y \in Int
  BY DEF Counts
<1>2. c \in Int /\ 2 * (D * c) <= 2 * x + D /\ 2 * x - D <= 2 * (D * c)
  BY CountsCents
<1>3. d \in Int /\ 2 * (D * d) <= 2 * y + D /\ 2 * y - D <= 2 * (D * d)
  BY CountsCents
<1> HIDE DEF c, d
<1>4. D * (c - d) = D * c - D * d /\ D * c \in Int /\ D * d \in Int
  BY <1>2, <1>3, Products
<1>5. x - y - D <= D * (c - d) /\ D * (c - d) <= x - y + D
  BY <1>1, <1>2, <1>3, <1>4
<1>6. QED
  BY <1>1, <1>2, <1>3, <1>5 DEF c, d

HeldLot(H) == [quantity : H \cap Nat, each : Frac]

\* A part of n gains is at most n cents from what it is a rounding of, d D-ths.
Near(D, g, d, n) == D * g <= d + D * n /\ d - D * n <= D * g

\* A sell of q units at x D-ths each under way, that has met lots of sum units that cost paid: what
\* is still to sell, what is left of the lots, and the gains after the first `before`, which were
\* `gained`; none of the lots is left while something is still to sell.
Matching(D, H, q, x, before, gained, sum, paid, sell) ==
    /\ sell \in SellType /\ Counts(D, sell.each, x)
    /\ sell.remaining \in H \cap Nat /\ sell.lots \in Seq(HeldLot(H))
    /\ sell.remaining > 0 => sell.lots = <<>>
    /\ Len(sell.gains) - before \in Nat
    /\ \E z, g \in Int : /\ Worth(D, sell.lots, sum - (q - sell.remaining), paid - z)
                         /\ Sums(sell.gains, gained + g)
                         /\ Near(D, g, (q - sell.remaining) * x - z, Len(sell.gains) - before)

LEMMA HeldLotType == ASSUME NEW H PROVE HeldLot(H) \subseteq LotRow /\ Seq(HeldLot(H)) \subseteq Seq(LotRow)
<1>1. HeldLot(H) \subseteq LotRow
  BY DEF HeldLot, LotRow
<1>2. QED
  BY <1>1

LEMMA NearMore ==
  ASSUME NEW D \in Nat \ {0}, NEW g \in Int, NEW d \in Int, NEW n \in Nat, Near(D, g, d, n),
         NEW h \in Int, NEW e \in Int, Near(D, h, e, 1)
  PROVE  Near(D, g + h, d + e, n + 1)
<1>1. D * (g + h) = D * g + D * h /\ D * (n + 1) = D * n + D * 1 /\ D * 1 = D
      /\ D * g \in Int /\ D * h \in Int /\ D * n \in Int
  BY Products
<1>2. QED
  BY <1>1 DEF Near

LEMMA MatchSells ==
  ASSUME NEW D \in Nat \ {0}, NEW H, Differences(H), NEW q \in Int, NEW x, NEW before \in Int, NEW gained \in Int,
         NEW sum \in Int, NEW paid \in Int, NEW sell, Matching(D, H, q, x, before, gained, sum, paid, sell),
         NEW lot \in HeldLot(H), NEW e, Counts(D, lot.each, e)
  PROVE  Matching(D, H, q, x, before, gained, sum + lot.quantity, paid + lot.quantity * e, Matched(sell, lot))
<1> DEFINE rem == sell.remaining
           quantity == lot.quantity
           n == Len(sell.gains) - before
           taken == IF quantity < rem THEN quantity ELSE rem
           after == Matched(sell, lot)
           gain == Cents(Times(taken, sell.each)) - Cents(Times(taken, lot.each))
           rest == [quantity |-> quantity - taken, each |-> lot.each]
<1>1. /\ sell \in SellType /\ Counts(D, sell.each, x) /\ rem \in H /\ rem \in Nat
      /\ sell.lots \in Seq(HeldLot(H)) /\ sell.lots \in Seq(LotRow) /\ (rem > 0 => sell.lots = <<>>) /\ n \in Nat
      /\ sell.gains \in Seq(Int) /\ Len(sell.gains) \in Nat
  BY HeldLotType DEF Matching, SellType
<1>2. PICK z \in Int, g \in Int : /\ Worth(D, sell.lots, sum - (q - rem), paid - z)
                                  /\ Sums(sell.gains, gained + g)
                                  /\ Near(D, g, (q - rem) * x - z, n)
  BY DEF Matching
<1>3. lot \in LotRow /\ quantity \in H /\ quantity \in Nat /\ lot.each \in Frac /\ e \in Int /\ x \in Int
  BY <1>1, HeldLotType DEF HeldLot, Counts
<1>4. /\ after \in SellType /\ after.each = sell.each
      /\ rem = 0 => /\ after.remaining = 0 /\ after.gains = sell.gains /\ after.lots = Append(sell.lots, lot)
      /\ rem # 0 => /\ after.remaining = rem - taken
                    /\ after.gains = Append(sell.gains, gain)
                    /\ after.lots = IF taken = quantity THEN sell.lots ELSE Append(sell.lots, rest)
  BY <1>1, <1>3, MatchedIs
<1>5. quantity * e \in Int /\ (q - rem) * x \in Int
  BY <1>1, <1>3, Products
<1> DEFINE more == quantity * e
           due == (q - rem) * x
           met == sum + quantity
           cost == paid + more
<1>6. CASE rem = 0
  <2> DEFINE s == sum - (q - rem)
             p == paid - z
             a == (sum + quantity) - (q - rem)
             b == (paid + more) - z
             lots == Append(sell.lots, lot)
  <2>1. Worth(D, lots, s + quantity, p + more)
    <3> HIDE DEF s, p, rem
    <3>1. Worth(D, sell.lots, s, p)
      BY <1>2 DEF s, p
    <3>2. QED
      BY <1>1, <1>3, <3>1, WorthAppend
  <2>2. s + quantity = a /\ p + more = b
    <3>1. quantity \in Int /\ rem \in Int /\ z \in Int
      BY <1>1, <1>2, <1>3
    <3>2. more \in Int
      BY <1>5
    <3> HIDE DEF quantity, rem, more
    <3>3. QED
      BY <3>1, <3>2
  <2>3. Worth(D, lots, a, b)
    BY <2>1, <2>2
  <2>4. lots \in Seq(HeldLot(H))
    BY <1>1
  <2>5. after.remaining = rem /\ after.gains = sell.gains /\ after.lots = lots
    BY <1>4, <1>6
  <2> HIDE DEF after, rem, s, p, a, b, lots, n, quantity, more
  <2>6. /\ after \in SellType /\ Counts(D, after.each, x)
        /\ after.remaining \in H \cap Nat /\ after.lots \in Seq(HeldLot(H))
        /\ after.remaining > 0 => after.lots = <<>>
        /\ Len(after.gains) - before \in Nat
    BY <1>1, <1>4, <1>6, <2>4, <2>5 DEF n
  <2>7. /\ Worth(D, after.lots, met - (q - after.remaining), cost - z)
        /\ Sums(after.gains, gained + g)
        /\ Near(D, g, (q - after.remaining) * x - z, Len(after.gains) - before)
    BY <1>2, <2>3, <2>5 DEF a, b, n, met, cost
  <2> HIDE DEF met, cost
  <2>8. \E w, i \in Int : /\ Worth(D, after.lots, met - (q - after.remaining), cost - w)
                           /\ Sums(after.gains, gained + i)
                           /\ Near(D, i, (q - after.remaining) * x - w, Len(after.gains) - before)
    BY <1>2, <2>7
  <2>9. Matching(D, H, q, x, before, gained, met, cost, after)
    BY <2>6, <2>8 DEF Matching
  <2>10. QED
    BY <2>9 DEF after, quantity, more, met, cost
<1>7. CASE rem # 0
  <2>1. sell.lots = <<>> /\ rem > 0
    BY <1>1, <1>7
  <2>2. sum - (q - rem) = 0 /\ paid - z = 0
    BY <1>2, <2>1, WorthNone
  <2>3. taken \in H /\ taken \in Nat /\ rem - taken \in H \cap Nat /\ quantity - taken \in H \cap Nat
        /\ (taken # quantity => taken = rem)
    <3>1. /\ taken = quantity \/ taken = rem
          /\ rem - taken \in Nat /\ quantity - taken \in Nat
      <4> HIDE DEF rem, quantity
      <4>1. QED
        BY <1>1, <1>3
    <3> HIDE DEF taken, rem, quantity
    <3>2. taken \in H /\ taken \in Nat /\ rem \in H /\ quantity \in H
      BY <1>1, <1>3, <3>1
    <3>3. rem - taken \in H /\ quantity - taken \in H
      BY <3>2 DEF Differences
    <3>4. QED
      BY <3>1, <3>2, <3>3
  <2> DEFINE less == rem - taken
             spent == taken * e
             brings == taken * x
             y == z + spent
             h == g + gain
             over == quantity - taken
  <2>4. gain \in Int /\ spent \in Int /\ brings \in Int /\ Near(D, gain, brings - spent, 1)
    <3> HIDE DEF taken
    <3>1. Counts(D, Times(taken, sell.each), brings) /\ Counts(D, Times(taken, lot.each), spent)
      BY <1>1, <2>3, CountsTimes
    <3> HIDE DEF gain, brings, spent
    <3>2. /\ gain \in Int /\ brings \in Int /\ spent \in Int
          /\ brings - spent - D <= D * gain /\ D * gain <= brings - spent + D
      BY <3>1, NearCents DEF gain
    <3>3. D * 1 = D
      OBVIOUS
    <3>4. QED
      BY <3>2, <3>3 DEF Near
  <2>5. Near(D, h, (due - z) + (brings - spent), n + 1)
    <3> DEFINE d == due - z
               f == brings - spent
    <3>1. d \in Int /\ f \in Int /\ Near(D, g, d, n) /\ Near(D, gain, f, 1)
      <4>1. Near(D, g, d, n) /\ Near(D, gain, f, 1)
        BY <1>2, <2>4
      <4> HIDE DEF due, brings, spent
      <4>2. due \in Int /\ brings \in Int /\ spent \in Int
        BY <1>5, <2>4 DEF due
      <4>3. d \in Int /\ f \in Int
        BY <1>2, <4>2
      <4>4. QED
        BY <4>1, <4>3
    <3> HIDE DEF d, f, gain, n
    <3>2. n \in Nat /\ gain \in Int
      BY <1>1, <2>4
    <3>3. Near(D, g + gain, d + f, n + 1)
      BY <3>1, <3>2, NearMore
    <3>4. QED
      BY <3>3 DEF d, f
  <2>6. (due - z) + (brings - spent) = (q - less) * x - y
    <3> HIDE DEF taken, rem
    <3>1. ((q - rem) + taken) * x = (q - rem) * x + taken * x /\ (q - rem) + taken = q - less
      <4>1. q - rem \in Int /\ taken \in Int /\ rem \in Int
        BY <1>1, <2>3
      <4>2. QED
        BY <1>3, <4>1, Products
    <3> HIDE DEF brings, due, spent, less
    <3>2. due \in Int /\ brings \in Int /\ spent \in Int /\ (q - less) * x = due + brings
      BY <1>5, <2>4, <3>1 DEF due, brings
    <3>3. z \in Int
      BY <1>2
    <3> DEFINE end == (q - less) * x
    <3>4. end = due + brings
      BY <3>2
    <3> HIDE DEF end
    <3>5. (due - z) + (brings - spent) = end - y
      BY <3>2, <3>3, <3>4
    <3>6. QED
      BY <3>5 DEF end
  <2>7. y \in Int /\ h \in Int
    <3>1. z \in Int /\ g \in Int
      BY <1>2
    <3>2. gain \in Int /\ spent \in Int
      BY <2>4
    <3> HIDE DEF gain, spent
    <3>3. QED
      BY <3>1, <3>2
  <2> DEFINE gains == Append(sell.gains, gain)
             kept == IF taken = quantity THEN sell.lots ELSE Append(sell.lots, rest)
  <2>8. Sums(gains, gained + h) /\ Len(gains) - before = n + 1 /\ gains \in Seq(Int)
    <3> DEFINE total == gained + g
    <3>1. Sums(sell.gains, total) /\ total \in Int /\ total + gain = gained + h
      BY <1>2, <2>4
    <3> HIDE DEF total, gain, h
    <3>2. Sums(gains, total + gain)
      BY <1>1, <2>4, <3>1, SumsAppend
    <3>3. Len(gains) = Len(sell.gains) + 1 /\ gains \in Seq(Int)
      BY <1>1, <2>4
    <3>4. QED
      BY <1>1, <3>1, <3>2, <3>3
  <2>9. Worth(D, kept, (sum + quantity) - (q - less), (paid + more) - y) /\ kept \in Seq(HeldLot(H))
        /\ (less > 0 => kept = <<>>)
    <3> DEFINE a == (sum + quantity) - (q - less)
               b == (paid + more) - y
    <3>1. CASE taken = quantity
      <4>1. kept = <<>>
        BY <2>1, <3>1
      <4>2. spent = more
        BY <3>1
      <4> HIDE DEF kept, taken
      <4>3. a = 0
        <5> HIDE DEF rem, quantity
        <5>1. QED
          BY <1>1, <1>3, <2>2, <2>3, <3>1
      <4>4. b = 0
        <5> HIDE DEF more, spent, quantity, rem
        <5>1. QED
          BY <1>2, <2>2, <2>4, <4>2
      <4> HIDE DEF a, b
      <4>5. Worth(D, kept, a, b) /\ kept \in Seq(HeldLot(H))
        BY <4>1, <4>3, <4>4, WorthNone
      <4>6. QED
        BY <4>1, <4>5 DEF a, b
    <3>2. CASE taken # quantity
      <4>1. kept = Append(<<>>, rest)
        BY <2>1, <3>2
      <4>2. less = 0
        BY <2>3, <3>2
      <4>3. rest \in HeldLot(H) /\ rest \in LotRow /\ rest.quantity = over /\ rest.each = lot.each
        <5> HIDE DEF taken, quantity
        <5>1. rest \in HeldLot(H)
          BY <1>3, <2>3 DEF HeldLot
        <5>2. QED
          BY <5>1, HeldLotType
      <4> HIDE DEF rest, over
      <4>4. Worth(D, kept, 0 + rest.quantity, 0 + rest.quantity * e)
        <5>1. <<>> \in Seq(LotRow) /\ Counts(D, rest.each, e) /\ Worth(D, <<>>, 0, 0)
          BY <4>3, WorthNone
        <5>2. QED
          BY <4>1, <4>3, <5>1, WorthAppend
      <4>5. over = a
        <5> HIDE DEF taken, rem, quantity
        <5>1. QED
          BY <1>1, <1>3, <2>2, <2>3 DEF over
      <4>6. over * e = b
        <5>1. over * e = more - spent
          <6> HIDE DEF taken, quantity
          <6>1. QED
            BY <1>3, <2>3, Products DEF over
        <5>2. more \in Int /\ spent \in Int /\ over * e \in Int
          BY <1>5, <2>4, <5>1
        <5> HIDE DEF more, spent
        <5>3. QED
          BY <1>2, <2>2, <5>1, <5>2
      <4>7. 0 + over = over /\ 0 + over * e = over * e
        <5>1. over \in Int /\ over * e \in Int
          BY <1>3, <2>3, Products DEF over
        <5>2. QED
          BY <5>1
      <4> HIDE DEF a, b
      <4>8. Worth(D, kept, a, b)
        BY <4>3, <4>4, <4>5, <4>6, <4>7
      <4> HIDE DEF kept
      <4>9. kept \in Seq(HeldLot(H))
        BY <4>1, <4>3
      <4>10. QED
        BY <4>2, <4>8, <4>9 DEF a, b
    <3>3. QED
      BY <3>1, <3>2
  <2>10. after.remaining = less /\ after.gains = gains /\ after.lots = kept
    BY <1>4, <1>7
  <2>11. less \in H \cap Nat
    BY <2>3
  <2> HIDE DEF after, rem, less, gains, kept, n, taken, quantity, more, y, h, gain
  <2>12. /\ after \in SellType /\ Counts(D, after.each, x)
         /\ after.remaining \in H \cap Nat /\ after.lots \in Seq(HeldLot(H))
         /\ after.remaining > 0 => after.lots = <<>>
         /\ Len(after.gains) - before \in Nat
    BY <1>1, <1>4, <2>8, <2>9, <2>10, <2>11
  <2>13. /\ Worth(D, after.lots, met - (q - after.remaining), cost - y)
        /\ Sums(after.gains, gained + h)
        /\ Near(D, h, (q - after.remaining) * x - y, Len(after.gains) - before)
    BY <2>5, <2>6, <2>8, <2>9, <2>10 DEF met, cost
  <2> HIDE DEF met, cost
  <2>14. \E w, i \in Int : /\ Worth(D, after.lots, met - (q - after.remaining), cost - w)
                           /\ Sums(after.gains, gained + i)
                           /\ Near(D, i, (q - after.remaining) * x - w, Len(after.gains) - before)
    BY <2>7, <2>13
  <2>15. Matching(D, H, q, x, before, gained, met, cost, after)
    BY <2>12, <2>14 DEF Matching
  <2>16. QED
    BY <2>15 DEF after, quantity, more, met, cost
<1>8. QED
  BY <1>6, <1>7

\* What a sell has made of the lots and the gains once it is through: z D-ths is what the units it
\* took had cost.
Sell(D, H, q, x, units, paid, book, after) ==
    \E z, g \in Int : /\ after.lots \in Seq(HeldLot(H))
                      /\ Worth(D, after.lots, units - q, paid - z)
                      /\ \E before \in Int : Sums(book.gains, before) /\ Sums(after.gains, before + g)
                      /\ Len(after.gains) - Len(book.gains) \in Nat
                      /\ Near(D, g, q * x - z, Len(after.gains) - Len(book.gains))

LEMMA SellBegins ==
  ASSUME NEW D \in Nat \ {0}, NEW H, Differences(H), NEW book \in GainsBook, NEW t \in MovingRow, t.type = "sell",
         t.quantity \in H, NEW x, Counts(D, SoldBase(book, t).each, x), NEW gained \in Int, Sums(book.gains, gained)
  PROVE  Matching(D, H, t.quantity, x, Len(book.gains), gained, 0, 0, SoldBase(book, t))
<1> DEFINE sell == SoldBase(book, t)
           q == t.quantity
           before == Len(book.gains)
<1>1. /\ sell \in SellType /\ sell.remaining = q /\ sell.lots = <<>> /\ sell.gains = book.gains
      /\ before \in Nat /\ q \in Nat
  BY SoldLotsType DEF SoldBase, GainsBook, MovingRow
<1>2. x \in Int /\ <<>> \in Seq(HeldLot(H))
  BY DEF Counts
<1> HIDE DEF sell, q, before
<1>3. q - q = 0 /\ 0 - (q - q) = 0 /\ 0 - 0 = 0 /\ before - before = 0 /\ gained + 0 = gained
  BY <1>1
<1>4. Near(D, 0, (q - q) * x - 0, before - before)
  <2>1. (q - q) * x = 0 /\ D * 0 = 0
    BY <1>2, <1>3
  <2>2. QED
    BY <1>3, <2>1 DEF Near
<1>5. /\ Worth(D, sell.lots, 0 - (q - sell.remaining), 0 - 0)
      /\ Sums(sell.gains, gained + 0)
      /\ Near(D, 0, (q - sell.remaining) * x - 0, Len(sell.gains) - before)
  BY <1>1, <1>3, <1>4, WorthNone DEF before
<1>6. \E z, g \in Int : /\ Worth(D, sell.lots, 0 - (q - sell.remaining), 0 - z)
                        /\ Sums(sell.gains, gained + g)
                        /\ Near(D, g, (q - sell.remaining) * x - z, Len(sell.gains) - before)
  BY <1>5
<1>7. /\ Counts(D, sell.each, x) /\ sell.remaining \in H \cap Nat /\ sell.lots \in Seq(HeldLot(H))
      /\ Len(sell.gains) - before \in Nat
  BY <1>1, <1>2, <1>3 DEF sell, q, before
<1>8. Matching(D, H, q, x, before, gained, 0, 0, sell)
  BY <1>1, <1>6, <1>7 DEF Matching
<1>9. QED
  BY <1>8 DEF sell, q, before

LEMMA SellMatches ==
  ASSUME NEW D \in Nat \ {0}, NEW H, Differences(H), NEW book \in GainsBook, NEW t \in MovingRow, t.type = "sell",
         t.quantity \in H, NEW x, Counts(D, SoldBase(book, t).each, x),
         book.lots \in Seq(HeldLot(H)), NEW units, NEW paid, Worth(D, book.lots, units, paid), t.quantity <= units
  PROVE  Sell(D, H, t.quantity, x, units, paid, book, SoldLots(book, t))
<1> DEFINE n == Len(book.lots)
           q == t.quantity
           before == Len(book.gains)
           base == SoldBase(book, t)
           after == SoldLots(book, t)
<1>1. /\ book.lots \in Seq(LotRow) /\ n \in Nat /\ book.gains \in Seq(Int) /\ before \in Nat
      /\ q \in Nat \ {0} /\ units \in Int /\ paid \in Int
  BY HeldLotType, WorthInt DEF GainsBook, MovingRow
<1>2. PICK es : Priced(D, book.lots, es) /\ Sums(Quantities(book.lots), units) /\ Sums(Paid(book.lots, es), paid)
  BY DEF Worth
<1>3. es \in [1 .. n -> Int]
  BY <1>2 DEF Priced
<1>4. Len(Quantities(book.lots)) = n /\ Len(Paid(book.lots, es)) = n
  BY <1>1, <1>3, QuantitiesType, PaidType
<1>5. PICK p : Running(n, Quantities(book.lots), p) /\ p[n] = units
  BY <1>2, <1>4 DEF Sums
<1>6. PICK w : Running(n, Paid(book.lots, es), w) /\ w[n] = paid
  BY <1>2, <1>4 DEF Sums
<1>7. PICK h : Sellings(n, book.lots, base, h) /\ after = [lots |-> h[n].lots, gains |-> h[n].gains]
  BY SoldLotsType
<1>8. PICK gained \in Int : Sums(book.gains, gained)
  BY <1>1, SomeSum
<1>9. \A i \in 1 .. n : /\ book.lots[i] \in HeldLot(H) /\ Counts(D, book.lots[i].each, es[i])
                        /\ Quantities(book.lots)[i] = book.lots[i].quantity
                        /\ Paid(book.lots, es)[i] = book.lots[i].quantity * es[i]
  <2>1. \A i \in 1 .. n : book.lots[i] \in HeldLot(H)
    OBVIOUS
  <2>2. \A i \in 1 .. n : Counts(D, book.lots[i].each, es[i])
    BY <1>2 DEF Priced
  <2>3. \A i \in 1 .. n : Quantities(book.lots)[i] = book.lots[i].quantity
    BY <1>1, QuantitiesType
  <2>4. \A i \in 1 .. n : Paid(book.lots, es)[i] = book.lots[i].quantity * es[i]
    BY <1>1, <1>3, PaidType
  <2>5. QED
    BY <2>1, <2>2, <2>3, <2>4
<1>10. Matching(D, H, q, x, before, gained, 0, 0, base)
  BY <1>8, SellBegins
<1> HIDE DEF n, q, before, base, after
<1> DEFINE T == {k \in Nat : k <= n => Matching(D, H, q, x, before, gained, p[k], w[k], h[k])}
<1>11. 0 \in T
  <2>1. p[0] = 0 /\ w[0] = 0 /\ h[0] = base
    BY <1>5, <1>6, <1>7 DEF Running, Sellings
  <2>2. QED
    BY <1>10, <2>1
<1>12. ASSUME NEW k \in Nat, k \in T PROVE k + 1 \in T
  <2>1. ASSUME k + 1 <= n PROVE Matching(D, H, q, x, before, gained, p[k + 1], w[k + 1], h[k + 1])
    <3>1. k \in 0 .. n - 1 /\ k \in 0 .. n /\ k <= n /\ k + 1 \in 1 .. n
      BY <1>1, <2>1
    <3> DEFINE lot == book.lots[k + 1]
               e == es[k + 1]
               sum == p[k]
               cost == w[k]
               sell == h[k]
    <3>2. p[k + 1] = sum + lot.quantity /\ w[k + 1] = cost + lot.quantity * e /\ h[k + 1] = Matched(sell, lot)
      BY <1>5, <1>6, <1>7, <1>9, <3>1 DEF Running, Sellings
    <3>3. lot \in HeldLot(H) /\ Counts(D, lot.each, e) /\ sum \in Int /\ cost \in Int
      BY <1>5, <1>6, <1>9, <3>1 DEF Running
    <3>4. Matching(D, H, q, x, before, gained, sum, cost, sell)
      BY <1>12, <3>1
    <3> HIDE DEF lot, e, sum, cost, sell
    <3>5. q \in Int /\ before \in Int
      BY <1>1
    <3>6. Matching(D, H, q, x, before, gained, sum + lot.quantity, cost + lot.quantity * e, Matched(sell, lot))
      BY <1>8, <3>3, <3>4, <3>5, MatchSells
    <3>7. QED
      BY <3>2, <3>6
  <2>2. QED
    BY <2>1
<1> HIDE DEF T
<1>13. n \in T
  BY <1>1, <1>11, <1>12, NatUp
<1> DEFINE last == h[n]
<1>14. Matching(D, H, q, x, before, gained, units, paid, last)
  BY <1>1, <1>5, <1>6, <1>13 DEF T
<1>15. after.lots = last.lots /\ after.gains = last.gains
  BY <1>7
<1> HIDE DEF last
<1>16. last.remaining \in Nat /\ last.lots \in Seq(HeldLot(H)) /\ Len(last.gains) - before \in Nat
       /\ (last.remaining > 0 => last.lots = <<>>)
  BY <1>14 DEF Matching
<1>17. PICK z \in Int, g \in Int : /\ Worth(D, last.lots, units - (q - last.remaining), paid - z)
                                   /\ Sums(last.gains, gained + g)
                                   /\ Near(D, g, (q - last.remaining) * x - z, Len(last.gains) - before)
  BY <1>14 DEF Matching
<1>18. last.remaining = 0
  <2>1. SUFFICES ASSUME last.remaining > 0 PROVE FALSE
    BY <1>16
  <2>2. Worth(D, <<>>, units - (q - last.remaining), paid - z)
    BY <1>16, <1>17, <2>1
  <2>3. units - (q - last.remaining) = 0
    BY <2>2, WorthNone
  <2>4. q <= units
    BY DEF q
  <2>5. QED
    BY <1>1, <1>16, <2>1, <2>3, <2>4
<1>19. q - last.remaining = q
  BY <1>1, <1>18
<1>20. /\ after.lots \in Seq(HeldLot(H))
       /\ Worth(D, after.lots, units - q, paid - z)
       /\ \E b \in Int : Sums(book.gains, b) /\ Sums(after.gains, b + g)
       /\ Len(after.gains) - Len(book.gains) \in Nat
       /\ Near(D, g, q * x - z, Len(after.gains) - Len(book.gains))
  BY <1>8, <1>15, <1>16, <1>17, <1>19 DEF before
<1>21. Sell(D, H, q, x, units, paid, book, after)
  BY <1>17, <1>20 DEF Sell
<1>22. QED
  BY <1>21 DEF q, after
-------------------------------------------------------------------------------
(* The two methods agree on what has been made, lots at what they cost *)

\* In parts of which D make a cent: what the units cost on average, what has been realized, what the
\* lots cost, and the gains.  Both say the same was made, but for a cent a gain.
Even(D, cost, book, c, r, v, g) ==
    /\ Counts(D, cost.cost_base, c) /\ Counts(D, cost.realized, r)
    /\ Worth(D, book.lots, cost.units, v)
    /\ g \in Int /\ Sums(book.gains, g)
    /\ cost.units = 0 => c = 0
    /\ Near(D, g, (r - c) + v, Len(book.gains))

LEMMA NearPlus ==
  ASSUME NEW D \in Nat \ {0}, NEW g \in Int, NEW d \in Int, NEW n \in Nat, Near(D, g, d, n),
         NEW h \in Int, NEW e \in Int, NEW m \in Nat, Near(D, h, e, m)
  PROVE  Near(D, g + h, d + e, n + m)
<1>1. D * (g + h) = D * g + D * h /\ D * (n + m) = D * n + D * m
      /\ D * g \in Int /\ D * h \in Int /\ D * n \in Int /\ D * m \in Int
  BY Products
<1>2. QED
  BY <1>1 DEF Near

LEMMA NearFiner ==
  ASSUME NEW D \in Nat \ {0}, NEW g \in Int, NEW d \in Int, NEW n \in Nat, Near(D, g, d, n), NEW m \in Nat \ {0}
  PROVE  Near(m * D, g, m * d, n)
<1>1. D * g \in Int /\ D * n \in Int /\ (m * D) * g = m * (D * g) /\ (m * D) * n = m * (D * n)
  BY Products
<1>2. D * g <= d + D * n /\ d - D * n <= D * g
  BY DEF Near
<1> DEFINE a == D * g
           b == D * n
<1>3. a \in Int /\ b \in Int /\ a <= d + b /\ d - b <= a
  BY <1>1, <1>2
<1> HIDE DEF a, b
<1>4. a * m <= (d + b) * m /\ (d - b) * m <= a * m
  BY <1>3, Cancel
<1>5. a * m = m * a /\ (d + b) * m = m * d + m * b /\ (d - b) * m = m * d - m * b
  <2>1. (d + b) * m = d * m + b * m /\ (d - b) * m = d * m - b * m /\ d * m = m * d /\ b * m = m * b
    BY <1>3, Products
  <2>2. QED
    BY <1>3, <2>1, Products
<1>6. m * a <= m * d + m * b /\ m * d - m * b <= m * a
  BY <1>4, <1>5
<1>7. QED
  BY <1>1, <1>6 DEF Near, a, b

LEMMA EvenType ==
  ASSUME NEW D \in Nat \ {0}, NEW cost, NEW book \in GainsBook, NEW c, NEW r, NEW v, NEW g,
         Even(D, cost, book, c, r, v, g)
  PROVE  c \in Int /\ r \in Int /\ v \in Int /\ g \in Int /\ cost.units \in Int /\ Len(book.gains) \in Nat
<1>1. book.lots \in Seq(LotRow) /\ book.gains \in Seq(Int)
  BY DEF GainsBook
<1>2. Len(book.gains) \in Nat
  BY <1>1
<1>3. v \in Int /\ cost.units \in Int
  BY <1>1, WorthInt DEF Even
<1>4. QED
  BY <1>2, <1>3 DEF Even, Counts

LEMMA EvenFiner ==
  ASSUME NEW D \in Nat \ {0}, NEW cost, NEW book \in GainsBook, NEW c, NEW r, NEW v, NEW g,
         Even(D, cost, book, c, r, v, g), NEW m \in Nat \ {0}
  PROVE  m * D \in Nat \ {0} /\ Even(m * D, cost, book, m * c, m * r, m * v, g)
<1>1. c \in Int /\ r \in Int /\ v \in Int /\ g \in Int /\ Len(book.gains) \in Nat
  BY EvenType
<1>2. /\ m * D \in Nat \ {0}
      /\ Counts(m * D, cost.cost_base, m * c) /\ Counts(m * D, cost.realized, m * r)
  BY CountsFiner DEF Even
<1>3. Worth(m * D, book.lots, cost.units, m * v)
  BY WorthFiner DEF Even, GainsBook
<1>4. Near(m * D, g, (m * r - m * c) + m * v, Len(book.gains))
  <2> DEFINE d == (r - c) + v
             n == Len(book.gains)
  <2>1. d \in Int /\ n \in Nat /\ Near(D, g, d, n)
    BY <1>1 DEF Even
  <2>2. m * d = (m * r - m * c) + m * v
    <3>1. m * ((r - c) + v) = m * (r - c) + m * v /\ m * (r - c) = m * r - m * c
      <4>1. r - c \in Int
        BY <1>1
      <4>2. QED
        BY <1>1, <4>1, Products
    <3>2. QED
      BY <3>1
  <2> HIDE DEF d, n
  <2>3. Near(m * D, g, m * d, n)
    BY <1>1, <2>1, NearFiner
  <2>4. QED
    BY <2>2, <2>3 DEF n
<1>5. cost.units = 0 => m * c = 0
  BY <1>1 DEF Even
<1>6. QED
  BY <1>1, <1>2, <1>3, <1>4, <1>5 DEF Even

LEMMA EvenBuy ==
  ASSUME NEW D \in Nat \ {0}, NEW cost \in CostType, NEW book \in GainsBook, NEW c, NEW r, NEW v, NEW g,
         Even(D, cost, book, c, r, v, g), ~cost.oversold, cost.units \in Nat, NEW t \in MovingRow, t.type = "buy"
  PROVE  \E E \in Nat \ {0}, c1, r1, v1, g1 \in Int : Even(E, ApplyCost(cost, t), ApplyGains(book, t), c1, r1, v1, g1)
<1> DEFINE q == t.quantity
           E == q * D
           pays == Gross(t) + Fees
           each == Over(Whole(pays), q)
           lot == [quantity |-> q, each |-> each]
           after == ApplyCost(cost, t)
           held == ApplyGains(book, t)
           a == q * c
           b == q * r
           w == q * v
           e == pays * D
<1>1. t \in TradeRow /\ q \in Nat \ {0} /\ pays \in Int /\ book.lots \in Seq(LotRow)
  BY GrossType DEF MovingRow, GainsBook
<1>2. c \in Int /\ r \in Int /\ v \in Int /\ g \in Int /\ cost.units \in Int
  BY EvenType
<1>3. E \in Nat \ {0} /\ Even(E, cost, book, a, b, w, g)
  BY <1>1, EvenFiner
<1>4. /\ after.units = cost.units + q /\ after.realized = cost.realized
      /\ after.cost_base = Plus(cost.cost_base, Whole(pays))
  BY ApplyCostIs
<1>5. held = [lots |-> Append(book.lots, lot), gains |-> book.gains]
  BY ApplyGainsIs
<1>6. a \in Int /\ b \in Int /\ w \in Int /\ e \in Int /\ pays * E \in Int
  <2>1. q \in Int /\ D \in Int /\ E \in Int
    BY <1>1, <1>3
  <2> HIDE DEF q, pays, E
  <2>2. a \in Int /\ b \in Int /\ w \in Int
    BY <1>2, <2>1, Products
  <2>3. e \in Int /\ pays * E \in Int
    BY <1>1, <2>1, Products
  <2>4. QED
    BY <2>2, <2>3
<1>7. e * q = pays * E /\ q * e = pays * E
  <2>1. (pays * D) * q = pays * (D * q) /\ D * q = q * D /\ q * (pays * D) = (pays * D) * q
    BY <1>1, <1>6, Products
  <2>2. QED
    BY <2>1
<1> HIDE DEF E, pays, after, held, a, b, w, e, q
<1>8. Counts(E, each, e) /\ each \in Frac
  <2>1. Counts(E, Whole(pays), pays * E)
    BY <1>1, <1>3, CountsWhole
  <2>2. Counts(E, each, e)
    <3> DEFINE y == pays * E
    <3>1. Counts(E, Whole(pays), y) /\ e * q = y
      BY <1>7, <2>1
    <3> HIDE DEF y
    <3>2. QED
      BY <1>1, <1>3, <1>6, <3>1, CountsOver
  <2>3. QED
    BY <2>2 DEF Counts
<1> HIDE DEF each
<1>9. lot \in LotRow /\ lot.quantity = q /\ lot.each = each
  BY <1>1, <1>8 DEF LotRow
<1> HIDE DEF lot
<1>10. Worth(E, held.lots, after.units, w + pays * E)
  <2>1. Worth(E, Append(book.lots, lot), cost.units + q, w + q * e)
    <3>1. Worth(E, book.lots, cost.units, w) /\ Counts(E, lot.each, e)
      BY <1>3, <1>8, <1>9 DEF Even
    <3>2. QED
      BY <1>1, <1>9, <3>1, WorthAppend
  <2>2. held.lots = Append(book.lots, lot)
    BY <1>5
  <2>3. QED
    BY <1>4, <1>7, <2>1, <2>2
<1>11. Counts(E, after.cost_base, a + pays * E) /\ Counts(E, after.realized, b)
  <2>1. Counts(E, cost.cost_base, a) /\ Counts(E, Whole(pays), pays * E) /\ Counts(E, cost.realized, b)
    BY <1>1, <1>3, CountsWhole DEF Even
  <2>2. QED
    BY <1>3, <1>4, <2>1, CountsPlus
<1>12. Near(E, g, (b - (a + pays * E)) + (w + pays * E), Len(held.gains))
  <2> DEFINE y == pays * E
  <2>1. (b - (a + y)) + (w + y) = (b - a) + w
    <3>1. y \in Int
      BY <1>6
    <3> HIDE DEF y
    <3>2. QED
      BY <1>6, <3>1
  <2>2. held.gains = book.gains
    BY <1>5
  <2>3. QED
    BY <1>3, <2>1, <2>2 DEF Even
<1>13. after.units # 0
  BY <1>1, <1>4
<1>14. Sums(held.gains, g)
  <2>1. held.gains = book.gains
    BY <1>5
  <2>2. QED
    BY <1>3, <2>1 DEF Even
<1>15. Even(E, after, held, a + pays * E, b, w + pays * E, g)
  BY <1>2, <1>10, <1>11, <1>12, <1>13, <1>14 DEF Even
<1>16. a + pays * E \in Int /\ w + pays * E \in Int
  <2> DEFINE y == pays * E
  <2>1. y \in Int
    BY <1>6
  <2> HIDE DEF y
  <2>2. a + y \in Int /\ w + y \in Int
    BY <1>6, <2>1
  <2>3. QED
    BY <2>2 DEF y
<1>17. QED
  BY <1>2, <1>3, <1>6, <1>15, <1>16 DEF after, held

LEMMA EvenSell ==
  ASSUME NEW D \in Nat \ {0}, NEW cost \in CostType, NEW book \in GainsBook, NEW c, NEW r, NEW v, NEW g,
         Even(D, cost, book, c, r, v, g), ~cost.oversold, NEW t \in MovingRow, t.type = "sell",
         NEW H, Differences(H), t.quantity \in H, book.lots \in Seq(HeldLot(H)), t.quantity <= cost.units
  PROVE  /\ ApplyGains(book, t).lots \in Seq(HeldLot(H))
         /\ \E E \in Nat \ {0}, c1, r1, v1, g1 \in Int : Even(E, ApplyCost(cost, t), ApplyGains(book, t), c1, r1, v1, g1)
<1> DEFINE q == t.quantity
           units == cost.units
           m == units * q
           E == m * D
           brings == Gross(t) - Fees
           after == ApplyCost(cost, t)
           held == ApplyGains(book, t)
           a == m * c
           b == m * r
           w == m * v
           x == brings * (units * D)
           f == q * c
           s == q * f
           y == brings * E
<1>1. t \in TradeRow /\ q \in Nat \ {0} /\ brings \in Int /\ book.lots \in Seq(LotRow) /\ book.gains \in Seq(Int)
  BY GrossType DEF MovingRow, GainsBook
<1>2. c \in Int /\ r \in Int /\ v \in Int /\ g \in Int /\ Len(book.gains) \in Nat
  BY EvenType
<1>3. units \in Nat \ {0} /\ q <= units
  BY <1>1 DEF CostType
<1>4. /\ ~after.oversold /\ after.units = units - q
      /\ after.realized = Plus(cost.realized, Minus(Whole(brings), SoldCost(cost, t)))
      /\ after.cost_base = IF after.units = 0 THEN Whole(0) ELSE Minus(cost.cost_base, SoldCost(cost, t))
  BY <1>1, <1>3, ApplyCostIs DEF CostType
<1>5. held = SoldLots(book, t) /\ held \in GainsBook
  BY ApplyGainsIs
<1>6. SoldCost(cost, t) = Times(q, Over(cost.cost_base, units)) /\ SoldBase(book, t).each = Over(Whole(brings), q)
  BY DEF SoldCost, SoldBase
<1> HIDE DEF q, units, brings, after, held
<1>7. m \in Nat \ {0}
  BY <1>1, <1>3
<1> HIDE DEF m
<1>8. E \in Nat \ {0} /\ Even(E, cost, book, a, b, w, g)
  BY <1>7, EvenFiner
<1> HIDE DEF E, a, b, w, x, f, s, y
<1>9. a \in Int /\ b \in Int /\ w \in Int
  BY <1>2, <1>7, Products DEF a, b, w
<1>10. f \in Int
  BY <1>1, <1>2, Products DEF f
<1>11. s \in Int /\ y \in Int
  BY <1>1, <1>8, <1>10, Products DEF s, y
<1>12. units * D \in Int /\ x \in Int
  <2>1. units * D \in Int
    BY <1>3, Products
  <2>2. QED
    BY <1>1, <2>1, Products DEF x
<1>13. x * q = y /\ q * x = y
  <2>1. x * q = brings * ((units * D) * q)
    BY <1>1, <1>12, Products DEF x
  <2>2. (units * D) * q = E
    <3>1. (units * D) * q = units * (D * q) /\ D * q = q * D /\ units * (q * D) = (units * q) * D
      BY <1>1, <1>3, Products
    <3>2. QED
      BY <3>1 DEF E, m
  <2>3. q * x = x * q
    BY <1>1, <1>12, Products
  <2>4. QED
    BY <2>1, <2>2, <2>3 DEF y
<1>14. f * units = a
  <2>1. (q * c) * units = units * (q * c) /\ units * (q * c) = (units * q) * c
    BY <1>1, <1>2, <1>3, <1>10, Products DEF f
  <2>2. QED
    BY <2>1 DEF f, a, m
<1>15. Counts(E, SoldCost(cost, t), s)
  <2>1. Counts(E, cost.cost_base, a)
    BY <1>8 DEF Even
  <2>2. Counts(E, Over(cost.cost_base, units), f)
    BY <1>3, <1>8, <1>10, <1>14, <2>1, CountsOver
  <2>3. q \in Int
    BY <1>1
  <2>4. QED
    BY <1>6, <1>8, <2>2, <2>3, CountsTimes DEF s
<1>16. Counts(E, Whole(brings), y)
  BY <1>1, <1>8, CountsWhole DEF y
<1>17. Counts(E, SoldBase(book, t).each, x)
  <2>1. Counts(E, Over(Whole(brings), q), x)
    BY <1>1, <1>8, <1>12, <1>13, <1>16, CountsOver
  <2>2. QED
    BY <1>6, <2>1
<1>18. Sell(E, H, q, x, units, w, book, held)
  <2>1. Worth(E, book.lots, units, w)
    BY <1>8 DEF Even, units
  <2>2. t.quantity <= units
    BY DEF units
  <2>3. Sell(E, H, t.quantity, x, units, w, book, SoldLots(book, t))
    BY <1>8, <1>17, <2>1, <2>2, SellMatches
  <2>4. QED
    BY <1>5, <2>3 DEF q
<1>19. PICK z \in Int, h \in Int :
          /\ held.lots \in Seq(HeldLot(H))
          /\ Worth(E, held.lots, units - q, w - z)
          /\ \E before \in Int : Sums(book.gains, before) /\ Sums(held.gains, before + h)
          /\ Len(held.gains) - Len(book.gains) \in Nat
          /\ Near(E, h, q * x - z, Len(held.gains) - Len(book.gains))
  BY <1>18 DEF Sell
<1>20. z \in Int /\ h \in Int /\ Len(held.gains) - Len(book.gains) \in Nat
  BY <1>19
<1>21. Sums(held.gains, g + h)
  <2>1. PICK before \in Int : Sums(book.gains, before) /\ Sums(held.gains, before + h)
    BY <1>19
  <2>2. Sums(book.gains, g)
    BY <1>8 DEF Even
  <2>3. before = g
    BY <1>1, <2>1, <2>2, SumsOnce
  <2>4. QED
    BY <2>1, <2>3
<1>22. Counts(E, after.realized, b + (y - s))
  <2>1. Counts(E, cost.realized, b) /\ Counts(E, Minus(Whole(brings), SoldCost(cost, t)), y - s)
    BY <1>8, <1>15, <1>16, CountsMinus DEF Even
  <2>2. QED
    BY <1>4, <1>8, <2>1, CountsPlus
<1>23. Counts(E, after.cost_base, a - s) /\ (after.units = 0 => a - s = 0)
  <2>1. CASE after.units = 0
    <3>1. units = q
      BY <1>1, <1>3, <1>4, <2>1
    <3>2. s = a
      <4>1. units * f = f * units
        BY <1>3, <1>10, Products
      <4>2. QED
        BY <1>14, <3>1, <4>1 DEF s
    <3>3. Counts(E, Whole(0), 0 * E) /\ 0 * E = 0 /\ a - s = 0
      BY <1>8, <1>9, <3>2, CountsWhole
    <3>4. QED
      BY <1>4, <2>1, <3>3
  <2>2. CASE after.units # 0
    <3>1. Counts(E, cost.cost_base, a)
      BY <1>8 DEF Even
    <3>2. QED
      BY <1>4, <1>8, <1>15, <2>2, <3>1, CountsMinus
  <2>3. QED
    BY <2>1, <2>2
<1>24. Near(E, g + h, ((b + (y - s)) - (a - s)) + (w - z), Len(held.gains))
  <2> DEFINE d == (b - a) + w
             e == y - z
             n == Len(book.gains)
             k == Len(held.gains) - n
  <2>1. d \in Int /\ e \in Int /\ n \in Nat /\ k \in Nat
    BY <1>2, <1>9, <1>11, <1>20
  <2>2. Near(E, g, d, n) /\ Near(E, h, e, k)
    BY <1>8, <1>13, <1>19 DEF Even
  <2>3. d + e = ((b + (y - s)) - (a - s)) + (w - z)
    BY <1>9, <1>11, <1>20
  <2>4. n + k = Len(held.gains)
    <3>1. Len(held.gains) \in Nat
      BY <1>5 DEF GainsBook
    <3>2. QED
      BY <1>2, <3>1
  <2> HIDE DEF d, e, n, k
  <2>5. Near(E, g + h, d + e, n + k)
    BY <1>2, <1>8, <1>19, <2>1, <2>2, NearPlus
  <2>6. QED
    BY <2>3, <2>4, <2>5
<1>25. Even(E, after, held, a - s, b + (y - s), w - z, g + h)
  <2>1. g + h \in Int
    BY <1>2, <1>19
  <2>2. Worth(E, held.lots, after.units, w - z)
    BY <1>4, <1>19
  <2>3. QED
    BY <1>21, <1>22, <1>23, <1>24, <2>1, <2>2 DEF Even
<1>26. \E F \in Nat \ {0}, c1, r1, v1, g1 \in Int : Even(F, after, held, c1, r1, v1, g1)
  <2>1. a - s \in Int /\ b + (y - s) \in Int /\ w - z \in Int /\ g + h \in Int
    BY <1>2, <1>9, <1>11, <1>20
  <2>2. QED
    BY <1>8, <1>25, <2>1
<1>27. QED
  BY <1>19, <1>26 DEF after, held

LEMMA EvenSplit ==
  ASSUME NEW D \in Nat \ {0}, NEW cost \in CostType, NEW book \in GainsBook, NEW c, NEW r, NEW v, NEW g,
         Even(D, cost, book, c, r, v, g), ~cost.oversold, NEW t \in MovingRow, t.type = "split",
         t.ratio = "halve" => \A i \in 1 .. Len(book.lots) : book.lots[i].quantity = 2 * (book.lots[i].quantity \div 2)
  PROVE  \E E \in Nat \ {0}, c1, r1, v1, g1 \in Int : Even(E, ApplyCost(cost, t), ApplyGains(book, t), c1, r1, v1, g1)
<1> DEFINE E == 2 * D
           after == ApplyCost(cost, t)
           held == ApplyGains(book, t)
           split == SplitLots(book.lots, t.ratio)
           units == cost.units
           less == Scaled(units, t.ratio)
           a == 2 * c
           b == 2 * r
           w == 2 * v
<1>1. t.ratio \in {"double", "halve", "none"} /\ book.lots \in Seq(LotRow)
  BY DEF MovingRow, TradeRow, GainsBook
<1>2. units \in Int
  BY DEF CostType
<1>3. E \in Nat \ {0} /\ Even(E, cost, book, a, b, w, g)
  <2> DEFINE m == 2
  <2>1. m \in Nat \ {0}
    OBVIOUS
  <2> HIDE DEF m
  <2>2. m * D \in Nat \ {0} /\ Even(m * D, cost, book, m * c, m * r, m * v, g)
    BY <2>1, EvenFiner
  <2>3. QED
    BY <2>2 DEF m
<1>4. /\ after.units = less /\ after.realized = cost.realized /\ after.cost_base = cost.cost_base
  BY ApplyCostIs
<1>5. held = [lots |-> split, gains |-> book.gains]
  BY ApplyGainsIs
<1>6. Worth(E, split, less, w) /\ (t.ratio = "halve" => units = 2 * (units \div 2))
  <2>1. Worth(D, book.lots, units, v)
    BY DEF Even
  <2> HIDE DEF units, split, E, w, less
  <2>2. /\ Worth(2 * D, SplitLots(book.lots, t.ratio), Scaled(units, t.ratio), 2 * v)
        /\ t.ratio = "halve" => units = 2 * (units \div 2)
    BY <1>1, <2>1, WorthSplit
  <2>3. QED
    BY <2>2 DEF split, E, w, less
<1>7. less = 0 => units = 0
  BY <1>1, <1>2, <1>6 DEF Scaled
<1>8. a \in Int /\ b \in Int /\ w \in Int /\ g \in Int
  <2>1. c \in Int /\ r \in Int /\ v \in Int /\ g \in Int
    BY EvenType
  <2>2. QED
    BY <2>1
<1> HIDE DEF E, after, held, split, less, a, b, w
<1>9. held.lots = split /\ held.gains = book.gains
  BY <1>5
<1>10. Even(E, after, held, a, b, w, g)
  BY <1>3, <1>4, <1>6, <1>7, <1>9 DEF Even
<1>11. QED
  BY <1>3, <1>8, <1>10 DEF after, held

\* What is kept from trade to trade of what the two methods say of an account, whose lots can each be
\* halved k more times.
Balanced(k, cost, book) ==
    /\ cost \in CostType /\ book \in GainsBook
    /\ ~cost.oversold =>
         /\ cost.units \in Nat /\ book.lots \in Seq(HeldLot(Halvable(k)))
         /\ \E D \in Nat \ {0}, c, r, v, g \in Int : Even(D, cost, book, c, r, v, g)

LEMMA HeldLess ==
  ASSUME NEW j \in Nat, NEW k \in Nat, j <= k, NEW lots \in Seq(HeldLot(Halvable(k)))
  PROVE  lots \in Seq(HeldLot(Halvable(j)))
<1>1. Halvable(k) \subseteq Halvable(j)
  BY HalvableLess
<1>2. HeldLot(Halvable(k)) \subseteq HeldLot(Halvable(j))
  BY <1>1 DEF HeldLot
<1>3. QED
  BY <1>2

LEMMA HeldSplit ==
  ASSUME NEW k \in Nat, NEW ratio \in {"double", "halve", "none"},
         NEW lots \in Seq(HeldLot(Halvable(IF ratio = "halve" THEN k + 1 ELSE k)))
  PROVE  /\ SplitLots(lots, ratio) \in Seq(HeldLot(Halvable(k)))
         /\ ratio = "halve" => \A i \in 1 .. Len(lots) : lots[i].quantity = 2 * (lots[i].quantity \div 2)
<1> DEFINE more == IF ratio = "halve" THEN k + 1 ELSE k
           split == SplitLots(lots, ratio)
           n == Len(lots)
<1>1. lots \in Seq(LotRow) /\ n \in Nat /\ \A i \in 1 .. n : lots[i] \in HeldLot(Halvable(more))
  BY HeldLotType
<1>2. split \in Seq(LotRow) /\ Len(split) = n /\ \A i \in 1 .. n : split[i] = SplitLot(lots[i], ratio)
  BY <1>1, SplitLotsAre
<1>3. ASSUME NEW i \in 1 .. n
      PROVE  /\ split[i] \in HeldLot(Halvable(k))
             /\ ratio = "halve" => lots[i].quantity = 2 * (lots[i].quantity \div 2)
  <2> DEFINE lot == lots[i]
             q == lot.quantity
  <2>1. lot \in LotRow /\ q \in Halvable(more) /\ q \in Nat
    BY <1>1, HeldLotType DEF HeldLot
  <2>2. split[i] = SplitLot(lot, ratio)
    BY <1>2
  <2> HIDE DEF lot, split, n, more
  <2>3. split[i] \in LotRow /\ split[i].quantity = Scaled(q, ratio)
    BY <2>1, <2>2, SplitLotIs
  <2>4. Scaled(q, ratio) \in Halvable(k) \cap Nat /\ (ratio = "halve" => q = 2 * (q \div 2))
    <3> HIDE DEF q
    <3>1. CASE ratio = "double"
      <4>1. q \in Halvable(k)
        BY <2>1, <3>1 DEF more
      <4>2. QED
        BY <2>1, <3>1, <4>1, HalvableSums DEF Scaled
    <3>2. CASE ratio = "none"
      BY <2>1, <3>2 DEF more, Scaled
    <3>3. CASE ratio = "halve"
      <4>1. q \in Halvable(k + 1)
        BY <2>1, <3>3 DEF more
      <4>2. q \div 2 \in Halvable(k) /\ q = 2 * (q \div 2)
        BY <4>1, HalvableHalf
      <4>3. q \div 2 \in Nat
        BY <2>1
      <4>4. QED
        BY <3>3, <4>2, <4>3 DEF Scaled
    <3>4. QED
      BY <3>1, <3>2, <3>3
  <2>5. split[i] \in HeldLot(Halvable(k))
    <3> DEFINE it == split[i]
    <3>1. it = [quantity |-> it.quantity, each |-> it.each] /\ it.each \in Frac /\ it.quantity \in Halvable(k) \cap Nat
      BY <2>3, <2>4 DEF LotRow
    <3> HIDE DEF it
    <3>2. it \in HeldLot(Halvable(k))
      BY <3>1 DEF HeldLot
    <3>3. QED
      BY <3>2 DEF it
  <2>6. QED
    BY <2>4, <2>5 DEF q, lot
<1> HIDE DEF split
<1>4. split \in Seq(HeldLot(Halvable(k)))
  BY <1>1, <1>2, <1>3
<1>5. QED
  BY <1>3, <1>4 DEF split

\* A trade whose quantity can be halved as often.
LEMMA TradeBalances ==
  ASSUME NEW j \in Nat, NEW k \in Nat, k <= j, NEW cost, NEW book, Balanced(j, cost, book),
         NEW t \in MovingRow, t.quantity \in Halvable(j) \cap Nat, t.ratio = "halve" => k + 1 = j
  PROVE  Balanced(k, ApplyCost(cost, t), ApplyGains(book, t))
<1> DEFINE after == ApplyCost(cost, t)
           held == ApplyGains(book, t)
           H == Halvable(j)
           q == t.quantity
<1>1. /\ cost \in CostType /\ book \in GainsBook /\ after \in CostType /\ held \in GainsBook
      /\ t.type \in {"buy", "sell", "split"} /\ t.ratio \in {"double", "halve", "none"} /\ cost.oversold \in BOOLEAN
      /\ cost.units \in Int
  BY ApplyCostIs, ApplyGainsIs DEF Balanced, MovingRow, TradeRow, CostType
<1>2. CASE cost.oversold
  <2>1. after.oversold
    BY <1>1, <1>2, ApplyCostIs
  <2> HIDE DEF after, held
  <2>2. QED
    BY <1>1, <2>1 DEF Balanced, after, held
<1>3. CASE ~cost.oversold
  <2>1. cost.units \in Nat /\ book.lots \in Seq(HeldLot(H))
    BY <1>3 DEF Balanced
  <2>2. PICK D \in Nat \ {0}, c, r, v, g \in Int : Even(D, cost, book, c, r, v, g)
    BY <1>3 DEF Balanced
  <2> DEFINE Good == /\ after.units \in Nat /\ held.lots \in Seq(HeldLot(Halvable(k)))
                     /\ \E E \in Nat \ {0}, c1, r1, v1, g1 \in Int : Even(E, after, held, c1, r1, v1, g1)
  <2>3. ASSUME t.type = "buy" PROVE ~after.oversold => Good
    <3> DEFINE each == Over(Whole(Gross(t) + Fees), q)
               lot == [quantity |-> q, each |-> each]
    <3>1. after.units = cost.units + q /\ held = [lots |-> Append(book.lots, lot), gains |-> book.gains]
      BY <1>1, <1>3, <2>3, ApplyCostIs, ApplyGainsIs
    <3>2. \E E \in Nat \ {0}, c1, r1, v1, g1 \in Int : Even(E, after, held, c1, r1, v1, g1)
      BY <1>1, <1>3, <2>1, <2>2, <2>3, EvenBuy
    <3>3. q \in Nat \ {0} /\ q \in H /\ t \in TradeRow
      BY <2>3 DEF MovingRow
    <3>4. each \in Frac
      BY <3>3, GrossType, WholeType, OverType
    <3> HIDE DEF each, after, held, H, q
    <3>5. lot \in HeldLot(H)
      BY <3>3, <3>4 DEF HeldLot
    <3> HIDE DEF lot
    <3>6. held.lots \in Seq(HeldLot(H))
      BY <2>1, <3>1, <3>5
    <3>7. held.lots \in Seq(HeldLot(Halvable(k)))
      BY <3>6, HeldLess DEF H
    <3>8. after.units \in Nat
      BY <2>1, <3>1, <3>3
    <3>9. QED
      BY <3>2, <3>7, <3>8
  <2>4. ASSUME t.type = "sell" PROVE ~after.oversold => Good
    <3>1. CASE q > cost.units
      <4>1. after.oversold
        BY <1>1, <1>3, <2>4, <3>1, ApplyCostIs
      <4>2. QED
        BY <4>1
    <3>2. CASE ~(q > cost.units)
      <4>1. q \in Nat /\ q <= cost.units
        BY <2>1, <3>2
      <4>2. after.units = cost.units - q
        BY <1>1, <1>3, <2>4, <3>2, ApplyCostIs
      <4>3. Differences(H)
        BY HalvableDiffers
      <4>4. /\ held.lots \in Seq(HeldLot(H))
            /\ \E E \in Nat \ {0}, c1, r1, v1, g1 \in Int : Even(E, after, held, c1, r1, v1, g1)
        <5> HIDE DEF H
        <5>1. t.quantity \in H /\ t.quantity <= cost.units
          BY <4>1 DEF H
        <5>2. QED
          BY <1>1, <1>3, <2>1, <2>2, <2>4, <4>3, <5>1, EvenSell
      <4>5. held.lots \in Seq(HeldLot(Halvable(k)))
        <5> HIDE DEF held
        <5>1. QED
          BY <4>4, HeldLess
      <4>6. after.units \in Nat
        <5> HIDE DEF after, q
        <5>1. QED
          BY <2>1, <4>1, <4>2
      <4>7. QED
        BY <4>4, <4>5, <4>6
    <3>3. QED
      BY <3>1, <3>2
  <2>5. ASSUME t.type = "split" PROVE ~after.oversold => Good
    <3> DEFINE split == SplitLots(book.lots, t.ratio)
               lots == book.lots
    <3>1. after.units = Scaled(cost.units, t.ratio) /\ held = [lots |-> split, gains |-> book.gains]
      BY <1>1, <1>3, <2>5, ApplyCostIs, ApplyGainsIs
    <3>2. lots \in Seq(HeldLot(Halvable(IF t.ratio = "halve" THEN k + 1 ELSE k)))
      <4> HIDE DEF lots
      <4>1. lots \in Seq(HeldLot(Halvable(j)))
        BY <2>1 DEF lots
      <4>2. CASE t.ratio = "halve"
        BY <4>1, <4>2
      <4>3. CASE t.ratio # "halve"
        BY <4>1, <4>3, HeldLess
      <4>4. QED
        BY <4>2, <4>3
    <3>3. /\ split \in Seq(HeldLot(Halvable(k)))
          /\ t.ratio = "halve" => \A i \in 1 .. Len(lots) : lots[i].quantity = 2 * (lots[i].quantity \div 2)
      BY <1>1, <3>2, HeldSplit
    <3>4. \E E \in Nat \ {0}, c1, r1, v1, g1 \in Int : Even(E, after, held, c1, r1, v1, g1)
      BY <1>1, <1>3, <2>1, <2>2, <2>5, <3>3, EvenSplit
    <3>5. after.units \in Nat
      BY <1>1, <2>1, <3>1, ScaledType
    <3> HIDE DEF after, held, split
    <3>6. held.lots \in Seq(HeldLot(Halvable(k)))
      BY <3>1, <3>3
    <3>7. QED
      BY <3>4, <3>5, <3>6
  <2>6. ~after.oversold => Good
    BY <1>1, <2>3, <2>4, <2>5
  <2> HIDE DEF after, held
  <2>7. Balanced(k, after, held)
    BY <1>1, <2>6 DEF Balanced
  <2>8. QED
    BY <2>7 DEF after, held
<1>4. QED
  BY <1>1, <1>2, <1>3

\* What the two methods say of the log of an account.
LEMMA PlainBalances ==
  ASSUME NEW rows, Plain(rows), rows \in SUBSET MovingRow
  PROVE  \E k \in Nat : Balanced(k, CostOf(rows), GainsOf(rows))
<1> DEFINE left(s) == MaxHalvings - Halvings(s)
           T == {s \in SUBSET rows : Balanced(left(s), CostOf(s), GainsOf(s))}
<1>1. rows \in SUBSET TradeRow /\ IsFiniteSet(rows) /\ MaxHalvings \in Nat
  BY BoundsAssumption DEF Plain
<1>2. \A s \in SUBSET rows : left(s) \in Nat /\ IsFiniteSet(s) /\ s \in SUBSET MovingRow
  <2> SUFFICES ASSUME NEW s \in SUBSET rows PROVE left(s) \in Nat /\ IsFiniteSet(s) /\ s \in SUBSET MovingRow
    OBVIOUS
  <2>1. Halvings(s) \in Nat /\ Halvings(rows) \in Nat /\ Halvings(s) <= Halvings(rows)
    BY <1>1, HalvingsPart
  <2>2. Halvings(rows) <= MaxHalvings
    BY DEF Plain
  <2>3. left(s) \in Nat
    BY <1>1, <2>1, <2>2
  <2>4. QED
    BY <1>1, <2>3, FS_Subset
<1>3. {} \in T
  <2>1. CostOf({}) = NoCost /\ GainsOf({}) = NoGains
    BY <1>2, CostIs, GainsIs
  <2>2. /\ NoCost \in CostType /\ NoGains \in GainsBook /\ NoCost.units = 0 /\ NoGains.lots = <<>> /\ NoGains.gains = <<>>
        /\ NoCost.cost_base = Whole(0) /\ NoCost.realized = Whole(0)
    BY NoCostType, NoGainsType DEF NoCost, NoGains
  <2>3. Even(1, NoCost, NoGains, 0, 0, 0, 0)
    <3> DEFINE D == 1
    <3>1. D \in Nat \ {0} /\ 0 * D = 0 /\ D * 0 = 0 /\ (0 - 0) + 0 = 0 /\ 0 \in Int
      OBVIOUS
    <3> HIDE DEF D
    <3>2. Counts(D, Whole(0), 0 * D)
      BY <3>1, CountsWhole
    <3>3. Near(D, 0, (0 - 0) + 0, 0)
      BY <3>1 DEF Near
    <3>4. Len(<<>>) = 0
      OBVIOUS
    <3>5. Even(D, NoCost, NoGains, 0, 0, 0, 0)
      BY <2>2, <3>1, <3>2, <3>3, <3>4, WorthNone, SumsNone DEF Even
    <3>6. QED
      BY <3>5 DEF D
  <2>4. \A k : NoGains.lots \in Seq(HeldLot(Halvable(k)))
    BY <2>2
  <2>5. \A k : Balanced(k, NoCost, NoGains)
    <3>1. 1 \in Nat \ {0} /\ NoCost.units \in Nat
      BY <2>2
    <3>2. \E D \in Nat \ {0}, c, r, v, g \in Int : Even(D, NoCost, NoGains, c, r, v, g)
      <4> DEFINE D == 1
                 o == 0
      <4>1. D \in Nat \ {0} /\ o \in Int /\ Even(D, NoCost, NoGains, o, o, o, o)
        BY <2>3
      <4> HIDE DEF D, o
      <4>2. QED
        BY <4>1
    <3>3. QED
      BY <2>2, <2>4, <3>1, <3>2 DEF Balanced
  <2> HIDE DEF left
  <2>6. QED
    BY <2>1, <2>5
<1>4. ASSUME NEW s \in SUBSET rows, s # {}, \A x \in s : s \ {x} \in T PROVE s \in T
  <2> DEFINE t == Latest(s)
             rest == s \ {t}
  <2>1. t \in s
    BY <1>2, <1>4, MovingParts
  <2>2. CostOf(s) = ApplyCost(CostOf(rest), t) /\ GainsOf(s) = ApplyGains(GainsOf(rest), t)
    BY <1>2, <1>4, CostIs, GainsIs
  <2>3. /\ t \in MovingRow /\ t.quantity \in Halvable(MaxHalvings) \cap Nat
        /\ rest \in SUBSET rows
    BY <1>1, <2>1 DEF Plain
  <2>4. Balanced(left(rest), CostOf(rest), GainsOf(rest))
    BY <1>4, <2>1
  <2> HIDE DEF t
  <2>5. /\ Halvings(s) \in Nat /\ Halvings(rest) \in Nat
        /\ t.ratio = "halve" => Halvings(s) = Halvings(rest) + 1
        /\ t.ratio # "halve" => Halvings(s) = Halvings(rest)
    BY <1>2, <2>1, HalvingsLess
  <2> HIDE DEF rest
  <2>6. left(s) \in Nat /\ left(rest) \in Nat /\ left(rest) <= MaxHalvings
    BY <1>1, <1>2, <2>3, <2>5
  <2>7. left(s) <= left(rest) /\ (t.ratio = "halve" => left(s) + 1 = left(rest))
    BY <1>1, <2>5
  <2> HIDE DEF left
  <2>8. t.quantity \in Halvable(left(rest)) \cap Nat
    BY <1>1, <2>3, <2>6, HalvableLess
  <2>9. Balanced(left(s), ApplyCost(CostOf(rest), t), ApplyGains(GainsOf(rest), t))
    BY <2>3, <2>4, <2>6, <2>7, <2>8, TradeBalances
  <2>10. QED
    BY <2>2, <2>9
<1> HIDE DEF T
<1>5. rows \in T
  BY <1>1, <1>3, <1>4, PartsUp
<1>6. left(rows) \in Nat
  BY <1>2
<1> HIDE DEF left
<1>7. QED
  BY <1>5, <1>6 DEF T

\* What lots would gain at a price is that price of their units less what they cost.
LEMMA IfSoldCounts ==
  ASSUME NEW D \in Nat \ {0}, NEW book, book.lots \in Seq(LotRow), NEW q, NEW v, Worth(D, book.lots, q, v),
         NEW price \in Int
  PROVE  Counts(D, IfSold(book, price), (price * D) * q - v)
<1> DEFINE n == Len(book.lots)
           each == price * D
<1>1. n \in Nat /\ book.lots \in [1 .. n -> LotRow] /\ each \in Int /\ q \in Int /\ v \in Int
  BY WorthInt, Products
<1>2. PICK es : Priced(D, book.lots, es) /\ Sums(Quantities(book.lots), q) /\ Sums(Paid(book.lots, es), v)
  BY DEF Worth
<1>3. es \in [1 .. n -> Int]
  BY <1>2 DEF Priced
<1>4. Len(Quantities(book.lots)) = n /\ Len(Paid(book.lots, es)) = n
  BY <1>3, QuantitiesType, PaidType
<1>5. PICK p : Running(n, Quantities(book.lots), p) /\ p[n] = q
  BY <1>2, <1>4 DEF Sums
<1>6. PICK w : Running(n, Paid(book.lots, es), w) /\ w[n] = v
  BY <1>2, <1>4 DEF Sums
<1>7. \A i \in 1 .. n : /\ book.lots[i].quantity \in Int /\ Counts(D, book.lots[i].each, es[i]) /\ es[i] \in Int
                        /\ Quantities(book.lots)[i] = book.lots[i].quantity
                        /\ Paid(book.lots, es)[i] = book.lots[i].quantity * es[i]
  <2>1. \A i \in 1 .. n : Counts(D, book.lots[i].each, es[i]) /\ es[i] \in Int
    BY <1>2, <1>3 DEF Priced
  <2>2. \A i \in 1 .. n : Quantities(book.lots)[i] = book.lots[i].quantity /\ book.lots[i].quantity \in Int
    BY QuantitiesType
  <2>3. \A i \in 1 .. n : Paid(book.lots, es)[i] = book.lots[i].quantity * es[i]
    BY <1>3, PaidType
  <2>4. QED
    BY <2>1, <2>2, <2>3
<1> HIDE DEF n
<1>8. PICK h : SoldRunning(n, book, price, h)
  BY <1>1, IfSoldRuns
<1>8a. /\ h[0] = Whole(0) /\ h[n] = IfSold(book, price)
       /\ \A k \in 0 .. n - 1 :
             h[k + 1] = Plus(h[k], Times(book.lots[k + 1].quantity, Minus(Whole(price), book.lots[k + 1].each)))
  BY <1>8 DEF SoldRunning
<1> DEFINE T == {k \in Nat : k <= n => Counts(D, h[k], each * p[k] - w[k])}
<1> HIDE DEF each
<1>9. 0 \in T
  <2>1. p[0] = 0 /\ w[0] = 0
    BY <1>5, <1>6 DEF Running
  <2>2. Counts(D, Whole(0), 0 * D)
    BY CountsWhole
  <2>3. 0 * D = 0 /\ each * 0 - 0 = 0
    BY <1>1
  <2>4. Counts(D, h[0], each * p[0] - w[0])
    BY <1>8a, <2>1, <2>2, <2>3
  <2>5. QED
    BY <2>4
<1>10. ASSUME NEW k \in Nat, k \in T PROVE k + 1 \in T
  <2>1. ASSUME k + 1 <= n PROVE Counts(D, h[k + 1], each * p[k + 1] - w[k + 1])
    <3>1. k \in 0 .. n - 1 /\ k \in 0 .. n /\ k <= n /\ k + 1 \in 1 .. n
      BY <1>1, <2>1
    <3> DEFINE lot == book.lots[k + 1]
               e == es[k + 1]
               x == lot.quantity
               sum == p[k]
               cost == w[k]
               so == h[k]
               y == each * sum - cost
               z == x * (each - e)
    <3>2. p[k + 1] = sum + x /\ w[k + 1] = cost + x * e /\ sum \in Int /\ cost \in Int
      BY <1>5, <1>6, <1>7, <3>1 DEF Running
    <3>3. h[k + 1] = Plus(so, Times(x, Minus(Whole(price), lot.each)))
      BY <1>8a, <3>1
    <3>4. Counts(D, so, y)
      BY <1>10, <3>1
    <3>5. x \in Int /\ Counts(D, lot.each, e) /\ e \in Int
      BY <1>7, <3>1
    <3> HIDE DEF lot, e, x, sum, cost, so, y, z
    <3>6. Counts(D, Times(x, Minus(Whole(price), lot.each)), z)
      <4>1. Counts(D, Whole(price), each)
        BY CountsWhole DEF each
      <4>2. Counts(D, Minus(Whole(price), lot.each), each - e)
        BY <3>5, <4>1, CountsMinus
      <4>3. QED
        BY <3>5, <4>2, CountsTimes DEF z
    <3>7. Counts(D, h[k + 1], y + z)
      BY <3>3, <3>4, <3>6, CountsPlus
    <3>8. y + z = each * (sum + x) - (cost + x * e)
      <4>1. /\ each * (sum + x) = each * sum + each * x /\ x * (each - e) = x * each - x * e /\ x * each = each * x
            /\ each * sum \in Int /\ each * x \in Int /\ x * e \in Int
        BY <1>1, <3>2, <3>5, Products
      <4>2. QED
        BY <3>2, <4>1 DEF y, z
    <3>9. QED
      BY <3>2, <3>7, <3>8
  <2>2. QED
    BY <2>1
<1> HIDE DEF T
<1>11. n \in T
  BY <1>1, <1>9, <1>10, NatUp
<1>12. Counts(D, h[n], each * p[n] - w[n])
  BY <1>1, <1>11 DEF T
<1>13. QED
  BY <1>5, <1>6, <1>8a, <1>12 DEF each
-------------------------------------------------------------------------------
(* All accounts together *)

\* What the two methods say of some accounts, in parts of which D make a cent: what their units cost
\* on average, what has been realized, and what their lots cost.
Together(D, price, cost_base, realized, sold, units, gained, n, c, r, v) ==
    /\ Counts(D, cost_base, c) /\ Counts(D, realized, r)
    /\ v \in Int /\ Counts(D, sold, (price * D) * units - v)
    /\ units \in Nat /\ gained \in Int /\ n \in Nat
    /\ units = 0 => c = 0
    /\ Near(D, gained, (r - c) + v, n)

LEMMA TogetherFiner ==
  ASSUME NEW D \in Nat \ {0}, NEW price \in Int, NEW cost_base, NEW realized, NEW sold, NEW units, NEW gained, NEW n,
         NEW c, NEW r, NEW v, Together(D, price, cost_base, realized, sold, units, gained, n, c, r, v),
         NEW m \in Nat \ {0}
  PROVE  Together(m * D, price, cost_base, realized, sold, units, gained, n, m * c, m * r, m * v)
<1>1. c \in Int /\ r \in Int /\ v \in Int /\ gained \in Int /\ n \in Nat /\ units \in Nat
  BY DEF Together, Counts
<1>2. Counts(m * D, cost_base, m * c) /\ Counts(m * D, realized, m * r)
  BY CountsFiner DEF Together
<1>3. Counts(m * D, sold, (price * (m * D)) * units - m * v)
  <2> DEFINE y == (price * D) * units
             e == y - v
  <2>1. price * D \in Int /\ y \in Int /\ Counts(D, sold, e)
    <3>1. price * D \in Int
      BY Products
    <3>2. QED
      BY <1>1, <3>1, Products DEF Together
  <2>2. m * y = (price * (m * D)) * units
    <3>1. m * ((price * D) * units) = (m * (price * D)) * units
      BY <1>1, <2>1, Products
    <3>2. m * (price * D) = price * (m * D)
      <4>1. m * (price * D) = (m * price) * D /\ m * price = price * m /\ (price * m) * D = price * (m * D)
        BY Products
      <4>2. QED
        BY <4>1
    <3>3. QED
      BY <3>1, <3>2
  <2> HIDE DEF y
  <2>3. m * e = m * y - m * v
    BY <1>1, <2>1, Products
  <2> HIDE DEF e
  <2>4. Counts(m * D, sold, m * e)
    BY <2>1, CountsFiner
  <2>5. QED
    BY <2>2, <2>3, <2>4
<1>4. Near(m * D, gained, (m * r - m * c) + m * v, n)
  <2> DEFINE d == (r - c) + v
  <2>1. d \in Int /\ Near(D, gained, d, n)
    BY <1>1 DEF Together
  <2>2. m * d = (m * r - m * c) + m * v
    <3>1. r - c \in Int
      BY <1>1
    <3>2. m * ((r - c) + v) = m * (r - c) + m * v /\ m * (r - c) = m * r - m * c
      BY <1>1, <3>1, Products
    <3>3. QED
      BY <3>2
  <2> HIDE DEF d
  <2>3. Near(m * D, gained, m * d, n)
    BY <1>1, <2>1, NearFiner
  <2>4. QED
    BY <2>2, <2>3
<1>5. units = 0 => m * c = 0
  BY <1>1 DEF Together
<1>6. m * v \in Int
  BY <1>1
<1>7. QED
  BY <1>1, <1>2, <1>3, <1>4, <1>5, <1>6 DEF Together

LEMMA TogetherPlus ==
  ASSUME NEW D \in Nat \ {0}, NEW price \in Int,
         NEW cost1, NEW realized1, NEW sold1, NEW units1, NEW gained1, NEW n1, NEW c1, NEW r1, NEW v1,
         Together(D, price, cost1, realized1, sold1, units1, gained1, n1, c1, r1, v1),
         NEW cost2, NEW realized2, NEW sold2, NEW units2, NEW gained2, NEW n2, NEW c2, NEW r2, NEW v2,
         Together(D, price, cost2, realized2, sold2, units2, gained2, n2, c2, r2, v2)
  PROVE  Together(D, price, Plus(cost1, cost2), Plus(realized1, realized2), Plus(sold1, sold2), units1 + units2,
                  gained1 + gained2, n1 + n2, c1 + c2, r1 + r2, v1 + v2)
<1>1. /\ c1 \in Int /\ r1 \in Int /\ v1 \in Int /\ gained1 \in Int /\ n1 \in Nat /\ units1 \in Nat
      /\ c2 \in Int /\ r2 \in Int /\ v2 \in Int /\ gained2 \in Int /\ n2 \in Nat /\ units2 \in Nat
  BY DEF Together, Counts
<1>2. Counts(D, Plus(cost1, cost2), c1 + c2) /\ Counts(D, Plus(realized1, realized2), r1 + r2)
  BY CountsPlus DEF Together
<1>3. Counts(D, Plus(sold1, sold2), (price * D) * (units1 + units2) - (v1 + v2))
  <2> DEFINE each == price * D
             y1 == each * units1
             y2 == each * units2
             e1 == y1 - v1
             e2 == y2 - v2
  <2>1. each \in Int
    BY Products
  <2>2. Counts(D, sold1, e1) /\ Counts(D, sold2, e2)
    BY DEF Together
  <2> HIDE DEF each
  <2>3. each * (units1 + units2) = y1 + y2 /\ y1 \in Int /\ y2 \in Int
    BY <1>1, <2>1, Products
  <2> HIDE DEF y1, y2
  <2>4. e1 + e2 = (y1 + y2) - (v1 + v2)
    BY <1>1, <2>3
  <2> HIDE DEF e1, e2
  <2>5. Counts(D, Plus(sold1, sold2), e1 + e2)
    BY <2>2, CountsPlus
  <2>6. QED
    BY <2>3, <2>4, <2>5 DEF each
<1>4. Near(D, gained1 + gained2, ((r1 + r2) - (c1 + c2)) + (v1 + v2), n1 + n2)
  <2> DEFINE d == (r1 - c1) + v1
             e == (r2 - c2) + v2
  <2>1. d \in Int /\ e \in Int /\ Near(D, gained1, d, n1) /\ Near(D, gained2, e, n2)
    BY <1>1 DEF Together
  <2>2. d + e = ((r1 + r2) - (c1 + c2)) + (v1 + v2)
    BY <1>1
  <2> HIDE DEF d, e
  <2>3. Near(D, gained1 + gained2, d + e, n1 + n2)
    BY <1>1, <2>1, NearPlus
  <2>4. QED
    BY <2>2, <2>3
<1>5. units1 + units2 = 0 => c1 + c2 = 0
  <2>1. units1 + units2 = 0 => units1 = 0 /\ units2 = 0
    BY <1>1
  <2>2. QED
    BY <2>1 DEF Together
<1>6. v1 + v2 \in Int /\ units1 + units2 \in Nat /\ gained1 + gained2 \in Int /\ n1 + n2 \in Nat
  BY <1>1
<1>7. QED
  BY <1>2, <1>3, <1>4, <1>5, <1>6 DEF Together

LEMMA EvenTogether ==
  ASSUME NEW D \in Nat \ {0}, NEW cost, NEW book \in GainsBook, NEW c, NEW r, NEW v, NEW g,
         Even(D, cost, book, c, r, v, g), cost.units \in Nat, NEW price \in Int
  PROVE  Together(D, price, cost.cost_base, cost.realized, IfSold(book, price), cost.units, Realized(book),
                  Len(book.gains), c, r, v)
<1>1. book.lots \in Seq(LotRow) /\ book.gains \in Seq(Int) /\ Len(book.gains) \in Nat
  BY DEF GainsBook
<1>2. v \in Int
  BY EvenType
<1>3. Realized(book) = g
  BY <1>1, RealizedSum, SumsOnce DEF Even
<1>4. Counts(D, IfSold(book, price), (price * D) * cost.units - v)
  BY <1>1, IfSoldCounts DEF Even
<1>5. QED
  BY <1>1, <1>2, <1>3, <1>4 DEF Even, Together

\* What the cost and the book of an account come to, in parts of some size.
Evens(A, costs, books) ==
    /\ costs \in [A -> CostType] /\ books \in [A -> GainsBook]
    /\ \A a \in A : /\ costs[a].units \in Nat
                    /\ \E D \in Nat \ {0}, c, r, v, g \in Int : Even(D, costs[a], books[a], c, r, v, g)

LEMMA AllTogether ==
  ASSUME NEW A, IsFiniteSet(A), NEW costs, NEW books, Evens(A, costs, books), NEW price \in Int
  PROVE  \E D \in Nat \ {0}, c, r, v \in Int :
            Together(D, price, Sum([a \in A |-> costs[a].cost_base]), Sum([a \in A |-> costs[a].realized]),
                     Sum([a \in A |-> IfSold(books[a], price)]),
                     FoldFunction(+, 0, [a \in A |-> costs[a].units]),
                     FoldFunction(+, 0, [a \in A |-> Realized(books[a])]),
                     FoldFunction(+, 0, [a \in A |-> Len(books[a].gains)]), c, r, v)
<1> DEFINE base == [a \in A |-> costs[a].cost_base]
           made == [a \in A |-> costs[a].realized]
           sold == [a \in A |-> IfSold(books[a], price)]
           units == [a \in A |-> costs[a].units]
           gained == [a \in A |-> Realized(books[a])]
           number == [a \in A |-> Len(books[a].gains)]
<1>1. ASSUME NEW a \in A
      PROVE  \E D \in Nat \ {0}, c, r, v \in Int :
                Together(D, price, base[a], made[a], sold[a], units[a], gained[a], number[a], c, r, v)
  <2> DEFINE cost == costs[a]
             book == books[a]
  <2>1. book \in GainsBook /\ cost.units \in Nat
    BY DEF Evens
  <2>2. PICK D \in Nat \ {0}, c, r, v, g \in Int : Even(D, cost, book, c, r, v, g)
    BY DEF Evens
  <2>3. /\ base[a] = cost.cost_base /\ made[a] = cost.realized /\ sold[a] = IfSold(book, price)
        /\ units[a] = cost.units /\ gained[a] = Realized(book) /\ number[a] = Len(book.gains)
    OBVIOUS
  <2> HIDE DEF cost, book, base, made, sold, units, gained, number
  <2>4. Together(D, price, cost.cost_base, cost.realized, IfSold(book, price), cost.units, Realized(book),
                 Len(book.gains), c, r, v)
    BY <2>1, <2>2, EvenTogether
  <2>5. Together(D, price, base[a], made[a], sold[a], units[a], gained[a], number[a], c, r, v)
    BY <2>3, <2>4
  <2>6. QED
    BY <2>5
<1>2. /\ DOMAIN base = A /\ DOMAIN made = A /\ DOMAIN sold = A
      /\ DOMAIN units = A /\ DOMAIN gained = A /\ DOMAIN number = A
      /\ base = [a \in A |-> base[a]] /\ made = [a \in A |-> made[a]] /\ sold = [a \in A |-> sold[a]]
      /\ units = [a \in A |-> units[a]] /\ gained = [a \in A |-> gained[a]] /\ number = [a \in A |-> number[a]]
  OBVIOUS
<1> HIDE DEF base, made, sold, units, gained, number
<1>3. \A a \in A : /\ base[a] \in Frac /\ made[a] \in Frac /\ sold[a] \in Frac
                   /\ units[a] \in Int /\ gained[a] \in Int /\ number[a] \in Int
  BY <1>1 DEF Together, Counts
<1>4. base \in [A -> Frac] /\ made \in [A -> Frac] /\ sold \in [A -> Frac]
  BY <1>2, <1>3
<1>5. units \in [A -> Int] /\ gained \in [A -> Int] /\ number \in [A -> Int]
  BY <1>2, <1>3
<1>6. PICK base1 : SumsBy(A, base, base1) /\ Sum(base) = base1[A]
  BY <1>4, SumIs
<1>7. PICK made1 : SumsBy(A, made, made1) /\ Sum(made) = made1[A]
  BY <1>4, SumIs
<1>8. PICK sold1 : SumsBy(A, sold, sold1) /\ Sum(sold) = sold1[A]
  BY <1>4, SumIs
<1>9. PICK units1 : Totals(A, units, units1) /\ FoldFunction(+, 0, units) = units1[A]
  BY <1>5, TotalIs
<1>10. PICK gained1 : Totals(A, gained, gained1) /\ FoldFunction(+, 0, gained) = gained1[A]
  BY <1>5, TotalIs
<1>11. PICK number1 : Totals(A, number, number1) /\ FoldFunction(+, 0, number) = number1[A]
  BY <1>5, TotalIs
<1> DEFINE At(s, D, c, r, v) == Together(D, price, base1[s], made1[s], sold1[s], units1[s], gained1[s], number1[s], c, r, v)
           T == {s \in SUBSET A : \E D \in Nat \ {0}, c, r, v \in Int : At(s, D, c, r, v)}
<1>12. {} \in T
  <2>1. /\ base1[{}] = Whole(0) /\ made1[{}] = Whole(0) /\ sold1[{}] = Whole(0)
        /\ units1[{}] = 0 /\ gained1[{}] = 0 /\ number1[{}] = 0
    BY <1>6, <1>7, <1>8, <1>9, <1>10, <1>11 DEF SumsBy, Totals
  <2>2. Together(1, price, Whole(0), Whole(0), Whole(0), 0, 0, 0, 0, 0, 0)
    <3> DEFINE D == 1
    <3>1. D \in Nat \ {0} /\ 0 * D = 0 /\ D * 0 = 0 /\ (0 - 0) + 0 = 0 /\ price * D = price
      OBVIOUS
    <3> HIDE DEF D
    <3>2. Counts(D, Whole(0), 0 * D)
      BY <3>1, CountsWhole
    <3>3. Near(D, 0, (0 - 0) + 0, 0)
      BY <3>1 DEF Near
    <3>4. (price * D) * 0 - 0 = 0
      BY <3>1
    <3>5. Together(D, price, Whole(0), Whole(0), Whole(0), 0, 0, 0, 0, 0, 0)
      BY <3>1, <3>2, <3>3, <3>4 DEF Together
    <3>6. QED
      BY <3>5 DEF D
  <2>3. At({}, 1, 0, 0, 0)
    BY <2>1, <2>2
  <2> HIDE DEF At
  <2>4. 1 \in Nat \ {0}
    OBVIOUS
  <2>5. QED
    BY <2>3, <2>4
<1>13. ASSUME NEW s \in SUBSET A, s # {}, \A x \in s : s \ {x} \in T PROVE s \in T
  <2> DEFINE a == Picked(s)
             rest == s \ {a}
  <2>1. /\ a \in s
        /\ base1[s] = Plus(base[a], base1[rest]) /\ made1[s] = Plus(made[a], made1[rest])
        /\ sold1[s] = Plus(sold[a], sold1[rest])
    BY <1>6, <1>7, <1>8, <1>13 DEF SumsBy
  <2>2. /\ units1[s] = units[a] + units1[rest] /\ gained1[s] = gained[a] + gained1[rest]
        /\ number1[s] = number[a] + number1[rest]
    BY <1>9, <1>10, <1>11, <1>13 DEF Totals
  <2>3. PICK D \in Nat \ {0}, c, r, v \in Int : At(rest, D, c, r, v)
    BY <1>13, <2>1
  <2>4. PICK E \in Nat \ {0}, c1, r1, v1 \in Int :
           Together(E, price, base[a], made[a], sold[a], units[a], gained[a], number[a], c1, r1, v1)
    BY <1>1, <2>1
  <2> HIDE DEF a, rest
  <2>5. E * D \in Nat \ {0} /\ D * E = E * D
    BY Products
  <2> DEFINE m == E * D
  <2>6. Together(m, price, base1[rest], made1[rest], sold1[rest], units1[rest], gained1[rest], number1[rest],
                 E * c, E * r, E * v)
    BY <2>3, TogetherFiner
  <2>7. Together(D * E, price, base[a], made[a], sold[a], units[a], gained[a], number[a], D * c1, D * r1, D * v1)
    BY <2>4, TogetherFiner
  <2>8. Together(m, price, base[a], made[a], sold[a], units[a], gained[a], number[a], D * c1, D * r1, D * v1)
    BY <2>5, <2>7
  <2>9. m \in Nat \ {0}
    BY <2>5
  <2> HIDE DEF m
  <2>10. Together(m, price, Plus(base[a], base1[rest]), Plus(made[a], made1[rest]), Plus(sold[a], sold1[rest]),
                  units[a] + units1[rest], gained[a] + gained1[rest], number[a] + number1[rest],
                  D * c1 + E * c, D * r1 + E * r, D * v1 + E * v)
    <3> DEFINE k1 == D * c1
               k2 == D * r1
               k3 == D * v1
               l1 == E * c
               l2 == E * r
               l3 == E * v
    <3> HIDE DEF k1, k2, k3, l1, l2, l3
    <3>1. /\ Together(m, price, base1[rest], made1[rest], sold1[rest], units1[rest], gained1[rest], number1[rest],
                      l1, l2, l3)
          /\ Together(m, price, base[a], made[a], sold[a], units[a], gained[a], number[a], k1, k2, k3)
      BY <2>6, <2>8 DEF k1, k2, k3, l1, l2, l3
    <3>2. Together(m, price, Plus(base[a], base1[rest]), Plus(made[a], made1[rest]), Plus(sold[a], sold1[rest]),
                  units[a] + units1[rest], gained[a] + gained1[rest], number[a] + number1[rest],
                  k1 + l1, k2 + l2, k3 + l3)
      BY <2>9, <3>1, TogetherPlus
    <3>3. QED
      BY <3>2 DEF k1, k2, k3, l1, l2, l3
  <2>11. At(s, m, D * c1 + E * c, D * r1 + E * r, D * v1 + E * v)
    BY <2>1, <2>2, <2>10
  <2>12. D * c1 + E * c \in Int /\ D * r1 + E * r \in Int /\ D * v1 + E * v \in Int
    <3>1. /\ D * c1 \in Int /\ E * c \in Int /\ D * r1 \in Int
          /\ E * r \in Int /\ D * v1 \in Int /\ E * v \in Int
      BY <2>3, <2>4, Products
    <3>2. QED
      BY <3>1
  <2> HIDE DEF At
  <2>13. QED
    BY <2>9, <2>11, <2>12
<1> HIDE DEF T
<1>14. A \in T
  <2>1. \A s \in SUBSET A : s # {} /\ (\A x \in s : s \ {x} \in T) => s \in T
    BY <1>13
  <2>2. IsFiniteSet(A) /\ {} \in T
    BY <1>12
  <2>3. \A s \in SUBSET A : s \in T
    BY <2>1, <2>2, PartsUp
  <2>4. A \in SUBSET A
    OBVIOUS
  <2>5. QED
    BY <2>3, <2>4
<1>15. PICK D \in Nat \ {0}, c, r, v \in Int : At(A, D, c, r, v)
  BY <1>14 DEF T
<1>16. Together(D, price, Sum(base), Sum(made), Sum(sold), FoldFunction(+, 0, units), FoldFunction(+, 0, gained),
                FoldFunction(+, 0, number), c, r, v)
  BY <1>6, <1>7, <1>8, <1>9, <1>10, <1>11, <1>15
<1>17. QED
  BY <1>16 DEF base, made, sold, units, gained, number

\* What is shown and what is taxed are then apart by at most a cent for each gain.
LEMMA TogetherApart ==
  ASSUME NEW D \in Nat \ {0}, NEW price \in Int, NEW base, NEW realized, NEW sold, NEW units, NEW gained, NEW n,
         NEW c, NEW r, NEW v, Together(D, price, base, realized, sold, units, gained, n, c, r, v)
  PROVE  LET unrealized == IF units = 0 THEN Whole(0) ELSE Minus(Whole(units * price), base)
             apart == Minus(Plus(realized, unrealized), Plus(Whole(gained), sold))
         IN  apart[1] \in -n * apart[2] .. n * apart[2]
<1> DEFINE unrealized == IF units = 0 THEN Whole(0) ELSE Minus(Whole(units * price), base)
           shown == Plus(realized, unrealized)
           taxed == Plus(Whole(gained), sold)
           apart == Minus(shown, taxed)
           y == (price * D) * units
           x == gained * D
           d == (r - c) + v
           z == (r + (y - c)) - (x + (y - v))
<1>1. /\ c \in Int /\ r \in Int /\ v \in Int /\ gained \in Int /\ n \in Nat /\ units \in Nat
      /\ Counts(D, base, c) /\ Counts(D, realized, r) /\ Counts(D, sold, y - v) /\ Near(D, gained, d, n)
      /\ units = 0 => c = 0
  BY DEF Together, Counts
<1>2. y \in Int /\ (units * price) * D = y /\ x \in Int /\ units * price \in Int
  <2>1. price * D \in Int /\ units * price \in Int
    BY <1>1, Products
  <2>2. y \in Int /\ x \in Int
    BY <1>1, <2>1, Products
  <2>3. (price * D) * units = units * (price * D) /\ units * (price * D) = (units * price) * D
    BY <1>1, <2>1, Products
  <2>4. QED
    BY <2>1, <2>2, <2>3
<1>3. Counts(D, unrealized, y - c)
  <2>1. CASE units = 0
    <3>1. y - c = 0 * D
      <4>1. price * D \in Int
        BY Products
      <4>2. y = 0 /\ 0 * D = 0
        BY <2>1, <4>1
      <4>3. QED
        BY <1>1, <2>1, <4>2
    <3>2. Counts(D, Whole(0), 0 * D)
      BY CountsWhole
    <3>3. QED
      BY <2>1, <3>1, <3>2
  <2>2. CASE units # 0
    <3>1. Counts(D, Whole(units * price), y)
      <4> DEFINE k == units * price
      <4>1. k \in Int /\ k * D = y
        BY <1>2
      <4> HIDE DEF k, y
      <4>2. Counts(D, Whole(k), y)
        BY <4>1, CountsWhole
      <4>3. QED
        BY <4>2 DEF k
    <3> HIDE DEF y
    <3>2. Counts(D, Minus(Whole(units * price), base), y - c)
      BY <1>1, <3>1, CountsMinus
    <3>3. QED
      BY <2>2, <3>2
  <2>3. QED
    BY <2>1, <2>2
<1> HIDE DEF unrealized, y
<1>4. Counts(D, apart, z)
  <2>1. Counts(D, shown, r + (y - c))
    BY <1>1, <1>3, CountsPlus
  <2>2. Counts(D, taxed, x + (y - v))
    <3>1. Counts(D, Whole(gained), x)
      BY <1>1, CountsWhole
    <3> HIDE DEF x
    <3>2. QED
      BY <1>1, <3>1, CountsPlus
  <2> HIDE DEF shown, taxed, x
  <2>3. QED
    BY <2>1, <2>2, CountsMinus
<1>5. z = d - x /\ z \in Int
  <2> HIDE DEF x
  <2>1. QED
    BY <1>1, <1>2
<1>6. D * n \in Int /\ z <= D * n /\ -(D * n) <= z
  <2>1. D * gained = x /\ D * n \in Int
    BY <1>1, Products
  <2>2. D * gained <= d + D * n /\ d - D * n <= D * gained
    BY <1>1 DEF Near
  <2> DEFINE b == D * n
             g == D * gained
  <2>3. b \in Int /\ g = x /\ g <= d + b /\ d - b <= g
    BY <2>1, <2>2
  <2> HIDE DEF b, g, x, z
  <2>4. d \in Int
    BY <1>1
  <2> HIDE DEF d
  <2>5. z <= b /\ -b <= z
    BY <1>2, <1>5, <2>3, <2>4
  <2>6. QED
    BY <2>3, <2>5 DEF b
<1> HIDE DEF apart, z
<1> DEFINE i == apart[1]
           p == apart[2]
<1>7. i \in Int /\ p \in Nat \ {0} /\ z * p = D * i
  BY <1>4 DEF Counts, Frac
<1> HIDE DEF i, p
<1>8. n * p \in Int /\ -n * p = -(n * p) /\ -(n * p) \in Int
  BY <1>1, <1>7
<1>9. i * D = z * p
  BY <1>7, Products
<1>10. i <= n * p
  <2>1. z * p <= (D * n) * p
    BY <1>5, <1>6, <1>7, Cancel
  <2>2. (D * n) * p = (n * p) * D
    <3>1. (D * n) * p = D * (n * p) /\ D * (n * p) = (n * p) * D
      BY <1>1, <1>7, <1>8, Products
    <3>2. QED
      BY <3>1
  <2>3. i * D <= (n * p) * D
    BY <1>9, <2>1, <2>2
  <2>4. QED
    BY <1>7, <1>8, <2>3, Cancel
<1>11. -(n * p) <= i
  <2> DEFINE b == D * n
             less == -b
             k == -(n * p)
  <2>1. less \in Int /\ less <= z /\ b \in Int /\ k \in Int
    BY <1>6, <1>8
  <2>2. less * p <= z * p
    <3> HIDE DEF less
    <3>1. QED
      BY <1>5, <1>7, <2>1, Cancel
  <2>3. less * p = k * D
    <3>1. (D * n) * p = D * (n * p) /\ D * (n * p) = (n * p) * D
      BY <1>1, <1>7, <1>8, Products
    <3>2. (-b) * p = -(b * p)
      <4> HIDE DEF b
      <4>1. QED
        BY <1>7, <2>1
    <3>3. (-(n * p)) * D = -((n * p) * D)
      <4> DEFINE l == n * p
      <4>1. l \in Int
        BY <1>8
      <4> HIDE DEF l
      <4>2. (-l) * D = -(l * D)
        BY <4>1
      <4>3. QED
        BY <4>2 DEF l
    <3>4. QED
      BY <3>1, <3>2, <3>3
  <2>4. k * D <= i * D
    BY <1>9, <2>2, <2>3
  <2> HIDE DEF k
  <2>5. k <= i
    BY <1>7, <2>1, <2>4, Cancel
  <2>6. QED
    BY <2>5 DEF k
<1>12. i \in -n * p .. n * p
  BY <1>7, <1>8, <1>10, <1>11
<1>13. QED
  BY <1>12 DEF i, p, apart, unrealized

\* What the rows of one account leave, if no sell of them sold more than was held.
LEMMA AccountEven ==
  ASSUME Plain(trades), trades \in SUBSET MovingRow, LogReplays, NEW a \in Traded(trades)
  PROVE  /\ Cost(a) \in CostType /\ Gains(a) \in GainsBook /\ Cost(a).units \in Nat
         /\ \E D \in Nat \ {0}, c, r, v, g \in Int : Even(D, Cost(a), Gains(a), c, r, v, g)
<1> DEFINE rows == Of(a, trades)
<1>1. rows \in SUBSET trades
  BY DEF Of
<1>2. Cost(a) = CostOf(rows) /\ Gains(a) = GainsOf(rows) /\ ~Position(rows).oversold
  BY DEF Cost, CostOf, Gains, GainsOf, LogReplays, Oversold
<1> HIDE DEF rows
<1>3. Plain(rows) /\ rows \in SUBSET MovingRow
  BY <1>1, PlainPart
<1>4. IsFiniteSet(rows)
  BY <1>3 DEF Plain
<1>5. ~CostOf(rows).oversold
  BY <1>2, <1>3, <1>4, CostUnits
<1>6. PICK k \in Nat : Balanced(k, CostOf(rows), GainsOf(rows))
  BY <1>3, PlainBalances
<1>7. QED
  BY <1>2, <1>5, <1>6 DEF Balanced

LEMMA MovingProfit ==
  ASSUME Plain(trades), trades \in SUBSET MovingRow, LogReplays
  PROVE  SameProfit
<1> DEFINE A == Traded(trades)
           costs == [a \in A |-> Cost(a)]
           books == [a \in A |-> Gains(a)]
<1>1. IsFiniteSet(A)
  <2> DEFINE f == [t \in trades |-> t.account]
  <2>1. A = {f[t] : t \in trades}
    BY DEF Traded
  <2>2. IsFiniteSet(trades)
    BY DEF Plain
  <2> HIDE DEF f, A
  <2>3. QED
    BY <2>1, <2>2, Image
<1>2. Evens(A, costs, books)
  <2>1. \A a \in A : /\ Cost(a) \in CostType /\ Gains(a) \in GainsBook /\ Cost(a).units \in Nat
                     /\ \E D \in Nat \ {0}, c, r, v, g \in Int : Even(D, Cost(a), Gains(a), c, r, v, g)
    BY AccountEven
  <2> HIDE DEF A
  <2>2. costs \in [A -> CostType] /\ books \in [A -> GainsBook]
    BY <2>1
  <2>3. \A a \in A : costs[a] = Cost(a) /\ books[a] = Gains(a)
    OBVIOUS
  <2> HIDE DEF costs, books
  <2>4. ASSUME NEW a \in A
        PROVE  /\ costs[a].units \in Nat
               /\ \E D \in Nat \ {0}, c, r, v, g \in Int : Even(D, costs[a], books[a], c, r, v, g)
    <3> DEFINE cost == Cost(a)
               book == Gains(a)
    <3>1. costs[a] = cost /\ books[a] = book /\ cost.units \in Nat
      BY <2>1, <2>3
    <3>2. \E D \in Nat \ {0}, c, r, v, g \in Int : Even(D, cost, book, c, r, v, g)
      BY <2>1
    <3> HIDE DEF cost, book
    <3>3. QED
      BY <3>1, <3>2
  <2>5. QED
    BY <2>2, <2>4 DEF Evens
<1>3. DOMAIN costs = A /\ DOMAIN books = A
  OBVIOUS
<1> DEFINE base == Sum([a \in A |-> costs[a].cost_base])
           realized == Sum([a \in A |-> costs[a].realized])
           units == FoldFunction(+, 0, [a \in A |-> costs[a].units])
           gained == FoldFunction(+, 0, [a \in A |-> Realized(books[a])])
           roundings == FoldFunction(+, 0, [a \in A |-> Len(books[a].gains)])
           sold(price) == Sum([a \in A |-> IfSold(books[a], price)])
           unrealized(price) == IF units = 0 THEN Whole(0) ELSE Minus(Whole(units * price), base)
           apart(price) == Minus(Plus(realized, unrealized(price)), Plus(Whole(gained), sold(price)))
<1>4. ASSUME NEW price \in Int
      PROVE  apart(price)[1] \in -roundings * apart(price)[2] .. roundings * apart(price)[2]
  <2> HIDE DEF A, costs, books
  <2>1. PICK D \in Nat \ {0}, c, r, v \in Int :
           Together(D, price, base, realized, sold(price), units, gained, roundings, c, r, v)
    BY <1>1, <1>2, AllTogether
  <2> HIDE DEF base, realized, sold, units, gained, roundings
  <2>2. QED
    BY <2>1, TogetherApart
<1>5. \A price : Unrealized(costs, price) = unrealized(price)
  <2> HIDE DEF A, costs
  <2>1. QED
    BY <1>3 DEF Unrealized
<1>6. \A day \in Day : PriceOn[day] \in Int
  BY MoneyAssumption
<1>7. ASSUME NEW day \in Day
      PROVE  LET shown == Plus(realized, Unrealized(costs, PriceOn[day]))
                 taxed == Plus(Whole(gained), sold(PriceOn[day]))
                 far == Minus(shown, taxed)
             IN  far[1] \in -roundings * far[2] .. roundings * far[2]
  <2> DEFINE price == PriceOn[day]
  <2>1. price \in Int
    BY <1>6
  <2> HIDE DEF price, A, costs, books
  <2> HIDE DEF base, realized, sold, units, gained, roundings
  <2>2. Unrealized(costs, price) = unrealized(price)
    BY <1>5
  <2>3. apart(price)[1] \in -roundings * apart(price)[2] .. roundings * apart(price)[2]
    BY <1>4, <2>1
  <2>4. QED
    BY <2>2, <2>3 DEF price
<1>8. QED
  BY <1>3, <1>7 DEF SameProfit
-------------------------------------------------------------------------------
(* The log and the two replays *)

\* Every buy and sell, of the log and of a request, is of something.
AllMove ==
    /\ trades \in SUBSET MovingRow
    /\ \A s \in Sessions : pc[s] # "idle" => request[s].new \in SUBSET MovingRow

ProfitInvariant == LogInvariant /\ PlainInvariant /\ AllMove

LEMMA BodyMoves ==
  ASSUME PlainAmounts, 0 \notin Amounts, NEW id \in Nat \X Accounts, NEW account \in Accounts, NEW day \in Day,
         NEW body \in Bodies
  PROVE  Row(id, account, day, body) \in MovingRow
<1> DEFINE row == Row(id, account, day, body)
<1>1. row \in TradeRow
  BY RowType
<1>2. row.ratio # "zero"
  BY BodyIsPlain
<1>3. row.type # "split" => row.quantity \in Nat \ {0}
  <2>1. row.type = body.type /\ row.quantity = body.quantity
    BY DEF Row
  <2> HIDE DEF row
  <2>2. body.type # "split" => body.quantity \in Amounts
    BY DEF Bodies
  <2>3. QED
    BY <2>1, <2>2 DEF PlainAmounts
<1> HIDE DEF row
<1>4. row \in MovingRow
  BY <1>1, <1>2, <1>3 DEF MovingRow
<1>5. QED
  BY <1>4 DEF row

LEMMA FanOutMoves ==
  ASSUME PlainAmounts, trades \in SUBSET TradeRow, NEW n \in Nat, NEW day \in Day, NEW ratio \in Ratios
  PROVE  FanOut(n, day, ratio) \in SUBSET MovingRow
<1> DEFINE row(a) == Row(<<n, a>>, a, day, [type |-> "split", quantity |-> 0, ratio |-> ratio])
<1>1. \A a : row(a).ratio = ratio /\ row(a).type = "split"
  BY DEF Row
<1>2. ASSUME NEW a \in Accounts PROVE row(a) \in TradeRow
  BY RowType
<1>3. Holders(trades) \subseteq Accounts
  BY DEF Holders, Traded, TradeRow
<1>4. FanOut(n, day, ratio) = {row(a) : a \in Holders(trades)}
  BY DEF FanOut
<1>5. ratio # "zero"
  BY DEF PlainAmounts
<1> HIDE DEF row
<1>6. QED
  BY <1>1, <1>2, <1>3, <1>4, <1>5 DEF MovingRow

LEMMA AskMoves ==
  ASSUME OneAtATime, ProfitInvariant, NEW s \in Sessions, NEW op, NEW old, NEW new,
         Ask(s, op, old, new), new \in SUBSET MovingRow
  PROVE  AllMove'
<1>1. trades' = trades /\ request'[s].new = new
  BY DEF Ask, ProfitInvariant, LogInvariant, TypeInvariant, TypeOK
<1>2. \A u \in Sessions : u = s
  BY DEF OneAtATime
<1>3. QED
  BY <1>1, <1>2 DEF AllMove, ProfitInvariant

\* With exact quantities a change writes rows of the request and leaves the others as they are.
LEMMA WritesTheRequest ==
  ASSUME TypeInvariant, HeldIsCurrent, NEW s \in Sessions, pc[s] # "idle", request[s].op # "none"
  PROVE  Changed(s) \subseteq trades \cup request[s].new
<1> DEFINE r == request[s]
<1>1. /\ trades \in SUBSET TradeRow /\ r.old \in SUBSET TradeRow /\ r.new \in SUBSET TradeRow
      /\ \A t, u \in trades : t.id = u.id => t = u
      /\ Wellformed(r)
  BY DEF TypeInvariant, TypeOK, RequestType
<1>2. r.old \subseteq trades /\ \A t \in r.new : Rounded(t.quantity) = t.quantity
  BY DEF HeldIsCurrent
<1>3. CASE r.op \in Creates
  <2>1. Changed(s) = trades \cup {Stored(t) : t \in r.new}
    BY <1>3 DEF Changed, Creates
  <2>2. \A t \in r.new : Stored(t) = t
    BY <1>1, <1>2 DEF Stored, TradeRow
  <2>3. QED
    BY <2>1, <2>2
<1>4. CASE r.op = "update"
  <2> SUFFICES ASSUME NEW row \in Changed(s) PROVE row \in trades \cup r.new
    OBVIOUS
  <2>1. PICK o \in r.old, n \in r.new : r.old = {o} /\ r.new = {n} /\ n.id = o.id
    BY <1>1, <1>4 DEF Wellformed, Creates
  <2>2. PICK x \in trades : row = IF o.id = x.id THEN Merge(x, o, n) ELSE x
    <3>1. Only(r.old) = o /\ Only(r.new) = n
      BY <2>1, OnlyOne
    <3>2. row \in {IF \E old \in r.old : old.id = x.id
                   THEN Merge(x, Only(r.old), Only(r.new)) ELSE x : x \in trades}
      BY <1>4 DEF Changed
    <3> HIDE DEF r
    <3>3. QED
      BY <2>1, <3>1, <3>2
  <2>3. CASE o.id = x.id
    <3>1. x = o /\ o \in TradeRow /\ n \in TradeRow
      BY <1>1, <1>2, <2>1, <2>3
    <3>2. Rounded(n.quantity) = n.quantity
      BY <1>2, <2>1
    <3>3. Merge(o, o, n) = [id |-> n.id, account |-> n.account, day |-> n.day, type |-> n.type,
                            quantity |-> n.quantity, ratio |-> n.ratio]
      BY <2>1, <3>2 DEF Merge, Column
    <3>4. Merge(o, o, n) = n
      BY <3>1, <3>3 DEF TradeRow
    <3>5. QED
      BY <2>1, <2>2, <2>3, <3>1, <3>4
  <2>4. CASE o.id # x.id
    BY <2>2, <2>4
  <2>5. QED
    BY <2>3, <2>4
<1>5. CASE r.op = "delete"
  BY <1>5 DEF Changed
<1>6. QED
  BY <1>1, <1>3, <1>4, <1>5 DEF Wellformed

LEMMA ProfitStep ==
  ASSUME OneAtATime, PlainAmounts, 0 \notin Amounts, ProfitInvariant, Next
  PROVE  AllMove'
<1> USE DEF ProfitInvariant
<1>1. TypeInvariant /\ trades \in SUBSET TradeRow /\ \A t \in trades : t.id \in Nat \X Accounts
  BY DEF LogInvariant, TypeInvariant, TypeOK, TradeRow
<1>2. ASSUME NEW s \in Sessions, AskCreate(s) PROVE AllMove'
  <2>1. PICK n \in 1 .. MaxCreates, account \in Accounts, day \in Day, body \in Bodies :
          Ask(s, "create", {}, {Row(<<n, account>>, account, day, body)})
    BY <1>2 DEF AskCreate
  <2>2. <<n, account>> \in Nat \X Accounts
    BY <2>1
  <2>3. Row(<<n, account>>, account, day, body) \in MovingRow
    BY <2>2, BodyMoves
  <2>4. {Row(<<n, account>>, account, day, body)} \in SUBSET MovingRow
    BY <2>3
  <2>5. QED
    BY <2>1, <2>4, AskMoves
<1>3. ASSUME NEW s \in Sessions, AskFanOut(s) PROVE AllMove'
  <2>1. PICK n \in 1 .. MaxCreates, day \in Day, ratio \in Ratios :
          Ask(s, "fanOut", {}, FanOut(n, day, ratio))
    BY <1>3 DEF AskFanOut, FanOut
  <2>2. n \in Nat
    BY <2>1
  <2>3. FanOut(n, day, ratio) \in SUBSET MovingRow
    BY <1>1, <2>2, FanOutMoves
  <2>4. QED
    BY <2>1, <2>3, AskMoves
<1>4. ASSUME NEW s \in Sessions, AskUpdate(s) PROVE AllMove'
  <2>1. PICK t \in trades, account \in Accounts, day \in Day, body \in Bodies :
          Ask(s, "update", {t}, {Row(t.id, account, day, body)})
    BY <1>4 DEF AskUpdate
  <2>2. Row(t.id, account, day, body) \in MovingRow
    BY <1>1, BodyMoves
  <2>3. {Row(t.id, account, day, body)} \in SUBSET MovingRow
    BY <2>2
  <2>4. QED
    BY <2>1, <2>3, AskMoves
<1>5. ASSUME NEW s \in Sessions, AskDelete(s) PROVE AllMove'
  <2>1. PICK t \in trades : Ask(s, "delete", {t}, {})
    BY <1>5 DEF AskDelete
  <2>2. QED
    BY <2>1, AskMoves
<1>6. ASSUME NEW s \in Sessions, Validate(s) PROVE AllMove'
  <2>1. UNCHANGED <<trades, request>> /\ pc[s] # "idle" /\ \A u \in Sessions : u = s
    BY <1>6 DEF Validate, OneAtATime
  <2>2. QED
    BY <2>1 DEF AllMove
<1>7. ASSUME NEW s \in Sessions, pc' = [pc EXCEPT ![s] = "idle"], trades' \in SUBSET MovingRow PROVE AllMove'
  <2>1. \A u \in Sessions : pc'[u] = "idle"
    BY <1>1, <1>7 DEF OneAtATime, TypeInvariant, TypeOK
  <2>2. QED
    BY <1>7, <2>1 DEF AllMove
<1>8. ASSUME NEW s \in Sessions, Refuse(s) PROVE AllMove'
  <2>1. trades' = trades /\ pc' = [pc EXCEPT ![s] = "idle"]
    BY <1>8 DEF Refuse
  <2>2. QED
    BY <1>7, <2>1 DEF AllMove
<1>9. ASSUME NEW s \in Sessions, Commit(s) PROVE AllMove'
  <2>1. trades' = Changed(s) /\ pc' = [pc EXCEPT ![s] = "idle"] /\ pc[s] # "idle"
    BY <1>9 DEF Commit
  <2>2. request[s].op # "none"
    BY <1>1, <2>1 DEF TypeInvariant, AskedIsBusy
  <2>3. Changed(s) \subseteq trades \cup request[s].new
    BY <2>1, <2>2, WritesTheRequest DEF LogInvariant
  <2>4. QED
    BY <1>7, <2>1, <2>3 DEF AllMove
<1>10. QED
  BY <1>2, <1>3, <1>4, <1>5, <1>6, <1>8, <1>9 DEF Next, SessionStep

\* With one session at a time, and quantities that the column stores as they are and that no trade
\* leaves at zero, the holdings page and the tax report tell of one profit whatever the trades, the
\* splits, the prices and the fees: they are apart by a cent for each gain the report rounds, at most.
\* A quantity of zero is left out because tax.py skips such a trade while portfolio.py books its fees.
THEOREM ProfitsAgree == OneAtATime /\ ExactAmounts /\ PlainAmounts /\ 0 \notin Amounts => (Spec => []SameProfit)
<1> SUFFICES ASSUME OneAtATime, ExactAmounts, PlainAmounts, 0 \notin Amounts PROVE Spec => []SameProfit
  OBVIOUS
<1>1. Init => ProfitInvariant
  <2>1. Init => AllMove
    BY DEF Init, AllMove
  <2>2. QED
    BY <2>1, LogInit, PlainInit DEF ProfitInvariant
<1>2. ProfitInvariant /\ [Next]_vars => ProfitInvariant'
  <2>1. LogInvariant /\ [Next]_vars => LogInvariant'
    BY LogKept
  <2>2. PlainInvariant /\ [Next]_vars => PlainInvariant'
    BY PlainKept
  <2>3. ASSUME ProfitInvariant, UNCHANGED vars PROVE AllMove'
    BY <2>3 DEF vars, ProfitInvariant, AllMove
  <2>4. QED
    BY <2>1, <2>2, <2>3, ProfitStep DEF ProfitInvariant
<1>3. ProfitInvariant => SameProfit
  BY MovingProfit DEF ProfitInvariant, LogInvariant, PlainInvariant, AllMove
<1>4. QED
  BY <1>1, <1>2, <1>3, PTL DEF Spec
===============================================================================
