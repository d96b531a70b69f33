---------------------------- MODULE BankSyncProofs ----------------------------
(***************************************************************************)
(* Proofs about BankSync, for every set of charges, accounts and sessions. *)
(***************************************************************************)
EXTENDS BankSync, FiniteSetTheorems, TLAPS

LEMMA IdleType == IdleSync \in SyncType
<1>1. 0 \in Time
  BY BoundsAssumption DEF Time
<1>2. QED
  BY <1>1 DEF IdleSync, SyncType, NoRow

LEMMA BankBalanceType == \A a \in Accounts : BankBalance(a) \in Int
<1> SUFFICES ASSUME NEW a \in Accounts PROVE BankBalance(a) \in Int
  OBVIOUS
<1>1. IsFiniteSet({c \in Posted : AccountOf[c] = a})
  BY ChargesAssumption, FS_Subset DEF Posted
<1>2. QED
  BY <1>1, FS_CardinalityType DEF BankBalance

\* What each step of a sync writes into its record keeps the record's type.
LEMMA BegunType ==
  ASSUME NEW r \in SyncType, NEW t \in Time, NEW st \in {"active", "error"}
  PROVE  [r EXCEPT !.pc = "begun", !.since = t, !.status = st] \in SyncType
BY DEF SyncType

LEMMA LoadedType ==
  ASSUME NEW r \in SyncType, NEW by \in [Accounts -> Sessions \cup {NoSession}],
         NEW old \in [Accounts -> Int]
  PROVE  [r EXCEPT !.pc = "loaded", !.byExternal = by, !.loaded = old] \in SyncType
BY DEF SyncType

LEMMA ListedType ==
  ASSUME NEW r \in SyncType, NEW got \in [Accounts -> Int],
         NEW by \in [Accounts -> Sessions \cup {NoSession}]
  PROVE  [r EXCEPT !.pc = "listed", !.listed = got, !.byExternal = by] \in SyncType
BY DEF SyncType

LEMMA FetchedType ==
  ASSUME NEW r \in SyncType, NEW f \in BOOLEAN, NEW t \in SUBSET Charges,
         NEW i \in [Charges -> Nat]
  PROVE  [r EXCEPT !.pc = "fetched", !.flushed = f, !.txns = t, !.ids = i] \in SyncType
BY DEF SyncType

LEMMA ResolvedType ==
  ASSUME NEW r \in SyncType, NEW new \in SUBSET Rows
  PROVE  [r EXCEPT !.pc = "resolved", !.flushed = TRUE, !.added = new] \in SyncType
BY DEF SyncType

\* Every step keeps the type invariant.
LEMMA TypeInductive == TypeOK /\ [Next]_vars => TypeOK'
<1> SUFFICES ASSUME TypeOK, [Next]_vars PROVE TypeOK'
  OBVIOUS
<1> USE DEF bankVars, dbVars
<1>1. CASE Tick
  BY <1>1, BoundsAssumption DEF Tick, TypeOK, Time
<1>2. ASSUME NEW a \in Accounts, OpenAccount(a) PROVE TypeOK'
  BY <1>2 DEF OpenAccount, TypeOK
<1>3. ASSUME NEW c \in Charges, Post(c) PROVE TypeOK'
  BY <1>3 DEF Post, TypeOK
<1>4. ASSUME NEW c \in Charges, Reissue(c) PROVE TypeOK'
  BY <1>4 DEF Reissue, TypeOK
<1>5. ASSUME NEW c \in Charges, CreateTransaction(c) PROVE TypeOK'
  BY <1>5, ChargesAssumption DEF CreateTransaction, TypeOK, Posted, RowsFor, Rows, AccountRows, NoId
<1>6. ASSUME NEW r \in ledger, DeleteTransaction(r) PROVE TypeOK'
  BY <1>6 DEF DeleteTransaction, TypeOK
<1>7. ASSUME NEW s \in Sessions, Begin(s) PROVE TypeOK'
  <2>1. PICK full \in SyncModes :
          sync' = [sync EXCEPT ![s] =
                     [@ EXCEPT !.pc = "begun",
                               !.since = IF full \/ lastSyncedAt = Never THEN 0
                                         ELSE lastSyncedAt,
                               !.status = status]]
    BY <1>7 DEF Begin
  <2>2. (IF full \/ lastSyncedAt = Never THEN 0 ELSE lastSyncedAt) \in Time
    BY BoundsAssumption DEF TypeOK, Time
  <2>3. sync' \in [Sessions -> SyncType]
    BY <2>1, <2>2, BegunType DEF TypeOK
  <2>4. QED
    BY <1>7, <2>3 DEF Begin, TypeOK
<1>8. ASSUME NEW s \in Sessions, LoadAccounts(s) PROVE TypeOK'
  <2>1. PICK by \in [Accounts -> Sessions \cup {NoSession}] :
          /\ \A a \in Accounts : IF RowsFor(a) = {} THEN by[a] = NoSession
                                                    ELSE by[a] \in RowsFor(a)
          /\ sync' = [sync EXCEPT ![s] =
                        [@ EXCEPT !.pc = "loaded",
                                  !.byExternal = by,
                                  !.loaded = [a \in Accounts |->
                                                IF by[a] = NoSession THEN NoRow
                                                ELSE balance[<<a, by[a]>>]]]]
    BY <1>8 DEF LoadAccounts
  <2>2. [a \in Accounts |-> IF by[a] = NoSession THEN NoRow ELSE balance[<<a, by[a]>>]]
          \in [Accounts -> Int]
    BY DEF TypeOK, NoRow, AccountRows
  <2>3. sync' \in [Sessions -> SyncType]
    BY <2>1, <2>2, LoadedType DEF TypeOK
  <2>4. QED
    BY <1>8, <2>3 DEF LoadAccounts, TypeOK
<1>9. ASSUME NEW s \in Sessions, FetchAccounts(s) PROVE TypeOK'
  <2> DEFINE got == [a \in Accounts |-> IF a \in open THEN BankBalance(a) ELSE NoRow]
             by == [a \in Accounts |-> IF a \in open /\ sync[s].byExternal[a] = NoSession
                                       THEN s ELSE sync[s].byExternal[a]]
  <2>1. got \in [Accounts -> Int]
    BY BankBalanceType DEF NoRow
  <2>2. by \in [Accounts -> Sessions \cup {NoSession}]
    BY DEF TypeOK, SyncType
  <2>3. sync' = [sync EXCEPT ![s] =
                   [sync[s] EXCEPT !.pc = "listed", !.listed = got, !.byExternal = by]]
    BY <1>9 DEF FetchAccounts
  <2>4. sync' \in [Sessions -> SyncType]
    BY <2>1, <2>2, <2>3, ListedType DEF TypeOK
  <2>5. QED
    BY <1>9, <2>4 DEF FetchAccounts, TypeOK
<1>10. ASSUME NEW s \in Sessions, FetchTransactions(s) PROVE TypeOK'
  <2>1. Statement(sync[s].since) \in SUBSET Charges
    BY DEF Statement, Posted
  <2>2. sync' \in [Sessions -> SyncType]
    BY <1>10, <2>1, FetchedType DEF FetchTransactions, TypeOK
  <2>3. QED
    BY <1>10, <2>2 DEF FetchTransactions, TypeOK
<1>11. ASSUME NEW s \in Sessions, ReadHeld(s) PROVE TypeOK'
  <2>1. PICK new \in SUBSET Resolved(s) :
          sync' = [sync EXCEPT ![s] =
                     [@ EXCEPT !.pc = "resolved",
                               !.flushed = TRUE,
                               !.added = {RowFor(s, c) : c \in new}]]
    BY <1>11 DEF ReadHeld
  <2>2. \A c \in new : RowFor(s, c) \in Rows
    BY ChargesAssumption DEF Resolved, Known, RowFor, Target, Rows, AccountRows, TypeOK, SyncType
  <2>3. {RowFor(s, c) : c \in new} \in SUBSET Rows
    BY <2>2
  <2>4. sync' \in [Sessions -> SyncType]
    BY <2>1, <2>3, ResolvedType DEF TypeOK
  <2>5. QED
    BY <1>11, <2>4 DEF ReadHeld, TypeOK
<1>12. ASSUME NEW s \in Sessions, Commit(s) PROVE TypeOK'
  <2>1. FlushedBalance(s) \in [AccountRows -> Int]
    BY DEF FlushedBalance, TypeOK, SyncType, AccountRows
  <2>2. sync' \in [Sessions -> SyncType] /\ sync[s].added \subseteq Rows
    BY <1>12, IdleType DEF Commit, TypeOK, SyncType
  <2>3. QED
    BY <1>12, <2>1, <2>2 DEF Commit, FlushedStatus, TypeOK
<1>13. ASSUME NEW s \in Sessions, FailSync(s) PROVE TypeOK'
  <2>1. FlushedBalance(s) \in [AccountRows -> Int]
    BY DEF FlushedBalance, TypeOK, SyncType, AccountRows
  <2>2. sync' \in [Sessions -> SyncType]
    BY <1>13, IdleType DEF FailSync, TypeOK
  <2>3. QED
    BY <1>13, <2>1, <2>2 DEF FailSync, FlushedStatus, TypeOK
<1>14. ASSUME NEW s \in Sessions, Abort(s) PROVE TypeOK'
  BY <1>14, IdleType DEF Abort, TypeOK
<1>15. CASE UNCHANGED vars
  BY <1>15 DEF vars, TypeOK
<1>16. QED
  BY <1>1, <1>2, <1>3, <1>4, <1>5, <1>6, <1>7, <1>8, <1>9, <1>10, <1>11, <1>12, <1>13,
     <1>14, <1>15 DEF Next, SyncStep

\* Every variable always has its type.
THEOREM TypeCorrect == Spec => []TypeOK
<1>1. Init => TypeOK
  <2>1. 0 \in Time /\ 0 \in Nat
    BY BoundsAssumption DEF Time
  <2>2. QED
    BY <2>1, IdleType DEF Init, TypeOK, Never, NoRow
<1>2. QED
  BY <1>1, TypeInductive, PTL DEF Spec
-------------------------------------------------------------------------------
(* The steps of a session: what each does to the sync records. *)

\* What each step of a sync leaves of the fields the proofs below speak of.
LEMMA BegunFields ==
  ASSUME NEW r \in SyncType, NEW t, NEW st
  PROVE  LET q == [r EXCEPT !.pc = "begun", !.since = t, !.status = st]
         IN  /\ q.pc = "begun" /\ q.byExternal = r.byExternal /\ q.loaded = r.loaded
             /\ q.listed = r.listed /\ q.txns = r.txns /\ q.ids = r.ids /\ q.added = r.added
             /\ q.since = t /\ q.status = st
BY DEF SyncType

LEMMA LoadedFields ==
  ASSUME NEW r \in SyncType, NEW by, NEW old
  PROVE  LET q == [r EXCEPT !.pc = "loaded", !.byExternal = by, !.loaded = old]
         IN  /\ q.pc = "loaded" /\ q.byExternal = by /\ q.loaded = old
             /\ q.listed = r.listed /\ q.txns = r.txns /\ q.ids = r.ids /\ q.added = r.added
             /\ q.since = r.since /\ q.status = r.status
BY DEF SyncType

LEMMA ListedFields ==
  ASSUME NEW r \in SyncType, NEW by, NEW got
  PROVE  LET q == [r EXCEPT !.pc = "listed", !.listed = got, !.byExternal = by]
         IN  /\ q.pc = "listed" /\ q.byExternal = by /\ q.loaded = r.loaded
             /\ q.listed = got /\ q.txns = r.txns /\ q.ids = r.ids /\ q.added = r.added
             /\ q.since = r.since /\ q.status = r.status
BY DEF SyncType

LEMMA FetchedFields ==
  ASSUME NEW r \in SyncType, NEW f, NEW t, NEW i
  PROVE  LET q == [r EXCEPT !.pc = "fetched", !.flushed = f, !.txns = t, !.ids = i]
         IN  /\ q.pc = "fetched" /\ q.byExternal = r.byExternal /\ q.loaded = r.loaded
             /\ q.listed = r.listed /\ q.txns = t /\ q.ids = i /\ q.added = r.added
             /\ q.since = r.since /\ q.status = r.status
BY DEF SyncType

LEMMA ResolvedFields ==
  ASSUME NEW r \in SyncType, NEW new
  PROVE  LET q == [r EXCEPT !.pc = "resolved", !.flushed = TRUE, !.added = new]
         IN  /\ q.pc = "resolved" /\ q.byExternal = r.byExternal /\ q.loaded = r.loaded
             /\ q.listed = r.listed /\ q.txns = r.txns /\ q.ids = r.ids /\ q.added = new
             /\ q.since = r.since /\ q.status = r.status
BY DEF SyncType

LEMMA BeginStep ==
  ASSUME TypeOK, NEW s \in Sessions, Begin(s)
  PROVE  /\ UNCHANGED <<bankVars, dbVars, edits>>
         /\ \A u \in Sessions \ {s} : sync'[u] = sync[u]
         /\ sync[s].pc = "idle" /\ sync'[s].pc = "begun"
         /\ sync'[s].byExternal = sync[s].byExternal /\ sync'[s].loaded = sync[s].loaded
         /\ sync'[s].listed = sync[s].listed /\ sync'[s].txns = sync[s].txns
         /\ sync'[s].added = sync[s].added /\ sync'[s].status = status
         /\ sync'[s].since = 0 \/ sync'[s].since = lastSyncedAt
<1>1. PICK since, st : /\ sync' = [sync EXCEPT ![s] = [@ EXCEPT !.pc = "begun",
                                                               !.since = since, !.status = st]]
                       /\ since = 0 \/ since = lastSyncedAt
                       /\ st = status
  BY DEF Begin
<1>2. /\ sync'[s] = [sync[s] EXCEPT !.pc = "begun", !.since = since, !.status = st]
      /\ \A u \in Sessions \ {s} : sync'[u] = sync[u]
      /\ sync[s] \in SyncType
  BY <1>1 DEF TypeOK
<1>3. /\ sync'[s].pc = "begun" /\ sync'[s].byExternal = sync[s].byExternal
      /\ sync'[s].loaded = sync[s].loaded /\ sync'[s].listed = sync[s].listed
      /\ sync'[s].txns = sync[s].txns /\ sync'[s].added = sync[s].added
      /\ sync'[s].since = since /\ sync'[s].status = st
  BY <1>2, BegunFields
<1>4. QED
  BY <1>1, <1>2, <1>3 DEF Begin

LEMMA LoadStep ==
  ASSUME TypeOK, NEW s \in Sessions, LoadAccounts(s)
  PROVE  /\ UNCHANGED <<bankVars, dbVars, edits>>
         /\ \A u \in Sessions \ {s} : sync'[u] = sync[u]
         /\ sync[s].pc = "begun" /\ sync'[s].pc = "loaded"
         /\ \A a \in Accounts :
               /\ IF RowsFor(a) = {} THEN sync'[s].byExternal[a] = NoSession
                                     ELSE sync'[s].byExternal[a] \in RowsFor(a)
               /\ sync'[s].loaded[a] = IF sync'[s].byExternal[a] = NoSession THEN NoRow
                                       ELSE balance[<<a, sync'[s].byExternal[a]>>]
         /\ sync'[s].listed = sync[s].listed /\ sync'[s].txns = sync[s].txns
         /\ sync'[s].added = sync[s].added
         /\ sync'[s].since = sync[s].since /\ sync'[s].status = sync[s].status
<1>1. PICK by \in [Accounts -> Sessions \cup {NoSession}] :
        /\ \A a \in Accounts : IF RowsFor(a) = {} THEN by[a] = NoSession
                                                  ELSE by[a] \in RowsFor(a)
        /\ sync' = [sync EXCEPT ![s] =
                      [@ EXCEPT !.pc = "loaded",
                                !.byExternal = by,
                                !.loaded = [a \in Accounts |->
                                              IF by[a] = NoSession THEN NoRow
                                              ELSE balance[<<a, by[a]>>]]]]
  BY DEF LoadAccounts
<1> DEFINE old == [a \in Accounts |-> IF by[a] = NoSession THEN NoRow ELSE balance[<<a, by[a]>>]]
<1>2. /\ sync'[s] = [sync[s] EXCEPT !.pc = "loaded", !.byExternal = by, !.loaded = old]
      /\ \A u \in Sessions \ {s} : sync'[u] = sync[u]
      /\ sync[s] \in SyncType
  BY <1>1 DEF TypeOK
<1>3. \A a \in Accounts : old[a] = IF by[a] = NoSession THEN NoRow ELSE balance[<<a, by[a]>>]
  OBVIOUS
<1> HIDE DEF old
<1>4. /\ sync'[s].pc = "loaded" /\ sync'[s].byExternal = by /\ sync'[s].loaded = old
      /\ sync'[s].listed = sync[s].listed /\ sync'[s].txns = sync[s].txns
      /\ sync'[s].added = sync[s].added
      /\ sync'[s].since = sync[s].since /\ sync'[s].status = sync[s].status
  BY <1>2, LoadedFields
<1>5. QED
  BY <1>1, <1>2, <1>3, <1>4 DEF LoadAccounts

LEMMA ListStep ==
  ASSUME TypeOK, NEW s \in Sessions, FetchAccounts(s)
  PROVE  /\ UNCHANGED <<bankVars, dbVars, edits>>
         /\ \A u \in Sessions \ {s} : sync'[u] = sync[u]
         /\ sync[s].pc = "loaded" /\ sync'[s].pc = "listed"
         /\ \A a \in Accounts :
               /\ sync'[s].listed[a] = IF a \in open THEN BankBalance(a) ELSE NoRow
               /\ sync'[s].byExternal[a] = IF a \in open /\ sync[s].byExternal[a] = NoSession
                                           THEN s ELSE sync[s].byExternal[a]
         /\ sync'[s].loaded = sync[s].loaded /\ sync'[s].txns = sync[s].txns
         /\ sync'[s].added = sync[s].added
         /\ sync'[s].since = sync[s].since /\ sync'[s].status = sync[s].status
<1> DEFINE got == [a \in Accounts |-> IF a \in open THEN BankBalance(a) ELSE NoRow]
           by == [a \in Accounts |-> IF a \in open /\ sync[s].byExternal[a] = NoSession
                                     THEN s ELSE sync[s].byExternal[a]]
<1>1. sync' = [sync EXCEPT ![s] =
                 [sync[s] EXCEPT !.pc = "listed", !.listed = got, !.byExternal = by]]
  BY DEF FetchAccounts
<1>2. \A a \in Accounts :
         /\ got[a] = IF a \in open THEN BankBalance(a) ELSE NoRow
         /\ by[a] = IF a \in open /\ sync[s].byExternal[a] = NoSession
                    THEN s ELSE sync[s].byExternal[a]
  OBVIOUS
<1> HIDE DEF got, by
<1>3. /\ sync'[s] = [sync[s] EXCEPT !.pc = "listed", !.listed = got, !.byExternal = by]
      /\ \A u \in Sessions \ {s} : sync'[u] = sync[u]
      /\ sync[s] \in SyncType
  BY <1>1 DEF TypeOK
<1>4. /\ sync'[s].pc = "listed" /\ sync'[s].byExternal = by /\ sync'[s].listed = got
      /\ sync'[s].loaded = sync[s].loaded /\ sync'[s].txns = sync[s].txns
      /\ sync'[s].added = sync[s].added
      /\ sync'[s].since = sync[s].since /\ sync'[s].status = sync[s].status
  BY <1>3, ListedFields
<1>5. QED
  BY <1>2, <1>3, <1>4 DEF FetchAccounts

LEMMA FetchStep ==
  ASSUME TypeOK, NEW s \in Sessions, FetchTransactions(s)
  PROVE  /\ UNCHANGED <<bankVars, dbVars, edits>>
         /\ \A u \in Sessions \ {s} : sync'[u] = sync[u]
         /\ sync[s].pc = "listed" /\ sync'[s].pc = "fetched"
         /\ sync'[s].byExternal = sync[s].byExternal /\ sync'[s].loaded = sync[s].loaded
         /\ sync'[s].listed = sync[s].listed /\ sync'[s].txns = Statement(sync[s].since)
         /\ sync'[s].ids = issue /\ sync'[s].added = sync[s].added
         /\ sync'[s].since = sync[s].since /\ sync'[s].status = sync[s].status
<1> DEFINE statement == Statement(sync[s].since)
           flushes == CreatedRows(s) # {}
<1>1. sync' = [sync EXCEPT ![s] = [@ EXCEPT !.pc = "fetched", !.flushed = flushes,
                                            !.txns = statement, !.ids = issue]]
  BY DEF FetchTransactions
<1> HIDE DEF statement, flushes
<1>2. /\ sync'[s] = [sync[s] EXCEPT !.pc = "fetched", !.flushed = flushes,
                                    !.txns = statement, !.ids = issue]
      /\ \A u \in Sessions \ {s} : sync'[u] = sync[u]
      /\ sync[s] \in SyncType
  BY <1>1 DEF TypeOK
<1>3. /\ sync'[s].pc = "fetched" /\ sync'[s].byExternal = sync[s].byExternal
      /\ sync'[s].loaded = sync[s].loaded /\ sync'[s].listed = sync[s].listed
      /\ sync'[s].txns = statement /\ sync'[s].ids = issue
      /\ sync'[s].added = sync[s].added
      /\ sync'[s].since = sync[s].since /\ sync'[s].status = sync[s].status
  BY <1>2, FetchedFields
<1>4. sync[s].pc = "listed" /\ UNCHANGED <<bankVars, dbVars, edits>>
  BY DEF FetchTransactions
<1>5. QED
  BY <1>2, <1>3, <1>4 DEF statement

LEMMA ReadStep ==
  ASSUME TypeOK, NEW s \in Sessions, ReadHeld(s)
  PROVE  /\ UNCHANGED <<bankVars, dbVars, edits>>
         /\ \A u \in Sessions \ {s} : sync'[u] = sync[u]
         /\ sync[s].pc = "fetched" /\ sync'[s].pc = "resolved"
         /\ sync'[s].byExternal = sync[s].byExternal /\ sync'[s].loaded = sync[s].loaded
         /\ sync'[s].listed = sync[s].listed /\ sync'[s].txns = sync[s].txns
         /\ \E new \in SUBSET Resolved(s) :
              /\ \A c \in Resolved(s) : Cardinality(new \cap Alike(c)) = Surplus(s, c)
              /\ sync'[s].added = {RowFor(s, c) : c \in new}
         /\ sync'[s].since = sync[s].since /\ sync'[s].status = sync[s].status
<1>1. PICK new \in SUBSET Resolved(s) :
        /\ \A c \in Resolved(s) : Cardinality(new \cap Alike(c)) = Surplus(s, c)
        /\ sync' = [sync EXCEPT ![s] =
                      [@ EXCEPT !.pc = "resolved",
                                !.flushed = TRUE,
                                !.added = {RowFor(s, c) : c \in new}]]
  BY DEF ReadHeld
<1> DEFINE rows == {RowFor(s, c) : c \in new}
<1>2. /\ sync'[s] = [sync[s] EXCEPT !.pc = "resolved", !.flushed = TRUE, !.added = rows]
      /\ \A u \in Sessions \ {s} : sync'[u] = sync[u]
      /\ sync[s] \in SyncType
  BY <1>1 DEF TypeOK
<1> HIDE DEF rows
<1>3. /\ sync'[s].pc = "resolved" /\ sync'[s].byExternal = sync[s].byExternal
      /\ sync'[s].loaded = sync[s].loaded /\ sync'[s].listed = sync[s].listed
      /\ sync'[s].txns = sync[s].txns /\ sync'[s].added = rows
      /\ sync'[s].since = sync[s].since /\ sync'[s].status = sync[s].status
  BY <1>2, ResolvedFields
<1>4. sync[s].pc = "fetched" /\ UNCHANGED <<bankVars, dbVars, edits>>
  BY DEF ReadHeld
<1>5. QED
  BY <1>1, <1>2, <1>3, <1>4 DEF rows

\* A sync that ends, however it ends, leaves a session as it was before.
LEMMA EndStep ==
  ASSUME TypeOK, NEW s \in Sessions, Commit(s) \/ FailSync(s) \/ Abort(s)
  PROVE  sync'[s] = IdleSync /\ \A u \in Sessions \ {s} : sync'[u] = sync[u]
BY DEF Commit, FailSync, Abort, TypeOK
-------------------------------------------------------------------------------
(* Nothing doubles up, as long as one session syncs at a time. *)

OneAtATime == \A s, u \in Sessions : s = u

LEMMA AlikeFinite ==
  ASSUME NEW c \in Charges
  PROVE  IsFiniteSet(Alike(c)) /\ Cardinality(Alike(c)) \in Nat
<1>1. Alike(c) \in SUBSET Charges
  BY DEF Alike, Posted
<1>2. QED
  BY <1>1, ChargesAssumption, FS_Subset, FS_CardinalityType

LEMMA CountIsNat ==
  ASSUME NEW rows, IsFiniteSet(rows), NEW c
  PROVE  IsFiniteSet(Imported(rows, c)) /\ Cardinality(Imported(rows, c)) \in Nat
<1>1. Imported(rows, c) \in SUBSET rows
  BY DEF Imported
<1>2. QED
  BY <1>1, FS_Subset, FS_CardinalityType

\* Two charges that look alike have the same look-alikes.
LEMMA AlikeIsEquivalence ==
  ASSUME NEW c \in Posted, NEW d \in Alike(c)
  PROVE  Alike(d) = Alike(c) /\ c \in Alike(c)
BY DEF Alike

\* A step that leaves the bank's postings and the ledger alone, and lets each session keep
\* or drop what it was about to insert, keeps the invariant.
LEMMA QuietStep ==
  ASSUME NoDoublesInvariant, TypeOK', postedAt' = postedAt, ledger' = ledger,
         \A s \in Sessions : /\ sync'[s].txns \subseteq Posted
                             /\ sync'[s].added = sync[s].added \/ sync'[s].added = {}
  PROVE  NoDoublesInvariant'
<1>1. Posted' = Posted /\ \A c \in Charges : Alike(c)' = Alike(c)
  BY DEF Posted, Alike
<1>2. \A c \in Charges : Imported(ledger, c)' = Imported(ledger, c)
  BY <1>1 DEF Imported
<1>3. NoDoubleCount'
  BY <1>1, <1>2 DEF NoDoublesInvariant, NoDoubleCount, Posted
<1>4. ASSUME NEW s \in Sessions, NEW c \in Posted'
      PROVE  Cardinality(Imported(ledger \cup sync[s].added, c)') <= Cardinality(Alike(c)')
  <2>1. CASE sync'[s].added = sync[s].added
    BY <2>1, <1>1 DEF NoDoublesInvariant, Imported, Posted
  <2>2. CASE sync'[s].added = {}
    <3>1. Imported(ledger \cup sync[s].added, c)' = Imported(ledger, c)
      BY <2>2, <1>1 DEF Imported, Posted
    <3>2. QED
      BY <3>1, <1>1 DEF NoDoublesInvariant, NoDoubleCount, Posted
  <2>3. QED
    BY <2>1, <2>2
<1>5. \A r : GenuineRow(r)' <=> GenuineRow(r)
  BY <1>1 DEF GenuineRow
<1>6. \A s \in Sessions : IsFiniteSet(sync'[s].added) /\ \A r \in sync'[s].added : GenuineRow(r)'
  BY <1>5, FS_EmptySet DEF NoDoublesInvariant
<1>7. QED
  BY <1>1, <1>3, <1>4, <1>5, <1>6 DEF NoDoublesInvariant

\* A charge that posts belongs to no row yet, so no count of rows changes.
LEMMA PostKeeps ==
  ASSUME NoDoublesInvariant, TypeOK', NEW c \in Charges, Post(c)
  PROVE  NoDoublesInvariant'
<1>1. /\ Posted' = Posted \cup {c} /\ c \notin Posted
      /\ \A d \in Posted : postedAt'[d] = postedAt[d]
      /\ ledger' = ledger /\ sync' = sync
  <2>1. now # Never /\ postedAt \in [Charges -> Time \cup {Never}]
    BY BoundsAssumption DEF NoDoublesInvariant, TypeOK, Time, Never
  <2>2. QED
    BY <2>1 DEF Post, Posted, dbVars
<1>2. \A r : GenuineRow(r) => GenuineRow(r)'
  BY <1>1 DEF GenuineRow
<1>3. \A d : Alike(d)' \in SUBSET Charges
  BY DEF Alike, Posted
<1>4. ASSUME NEW d \in Posted
      PROVE  Alike(d) \subseteq Alike(d)' /\ Alike(d)' \subseteq Alike(d) \cup {c}
  BY <1>1 DEF Alike
<1>5. ASSUME NEW rows, IsFiniteSet(rows), \A r \in rows : GenuineRow(r),
             \A e \in Posted : Cardinality(Imported(rows, e)) <= Cardinality(Alike(e)),
             NEW d \in Posted'
      PROVE  Cardinality({r \in rows : r.issue # NoId /\ r.charge \in Alike(d)'})
               <= Cardinality(Alike(d)')
  <2> DEFINE Later(e) == {r \in rows : r.issue # NoId /\ r.charge \in Alike(e)'}
  <2>1. ASSUME NEW e \in Posted PROVE Cardinality(Later(e)) <= Cardinality(Alike(e)')
    <3>1. Later(e) = Imported(rows, e)
      BY <1>1, <1>4, <1>5 DEF Imported, GenuineRow
    <3>2. Cardinality(Imported(rows, e)) <= Cardinality(Alike(e))
      BY <1>5
    <3>3. Cardinality(Alike(e)) <= Cardinality(Alike(e)') /\ Cardinality(Alike(e)') \in Nat
      BY <1>3, <1>4, ChargesAssumption, FS_Subset, FS_CardinalityType
    <3>4. Cardinality(Alike(e)) \in Nat /\ Cardinality(Imported(rows, e)) \in Nat
      BY <1>5, AlikeFinite, CountIsNat DEF Posted
    <3>5. QED
      BY <3>1, <3>2, <3>3, <3>4
  <2>2. CASE d \in Posted
    BY <2>1, <2>2
  <2>3. CASE d = c /\ \E e \in Posted : e \in Alike(d)'
    <3>1. PICK e \in Posted : e \in Alike(d)'
      BY <2>3
    <3>2. Alike(e)' = Alike(d)'
      BY <3>1, <1>5 DEF Alike
    <3>3. QED
      BY <2>1, <3>2
  <2>4. CASE d = c /\ ~ \E e \in Posted : e \in Alike(d)'
    <3>1. Later(d) = {}
      BY <2>4, <1>5 DEF GenuineRow
    <3>2. Cardinality(Alike(d)') \in Nat
      BY <1>3, ChargesAssumption, FS_Subset, FS_CardinalityType
    <3>3. Cardinality(Later(d)) = 0
      BY <3>1, FS_EmptySet
    <3>4. QED
      BY <3>2, <3>3
  <2>5. QED
    BY <2>2, <2>3, <2>4, <1>1
<1>6. NoDoubleCount'
  BY <1>1, <1>5 DEF NoDoublesInvariant, NoDoubleCount, Imported
<1>7. ASSUME NEW s \in Sessions, NEW d \in Posted'
      PROVE  Cardinality(Imported(ledger \cup sync[s].added, d)') <= Cardinality(Alike(d)')
  <2> DEFINE rows == ledger \cup sync[s].added
  <2>1. IsFiniteSet(rows) /\ \A r \in rows : GenuineRow(r)
    BY FS_Union DEF NoDoublesInvariant
  <2>2. \A e \in Posted : Cardinality(Imported(rows, e)) <= Cardinality(Alike(e))
    BY DEF NoDoublesInvariant
  <2>3. Imported(ledger \cup sync[s].added, d)'
          = {r \in rows : r.issue # NoId /\ r.charge \in Alike(d)'}
    BY <1>1 DEF Imported
  <2>4. QED
    BY <1>5, <2>1, <2>2, <2>3
<1>8. QED
  BY <1>1, <1>2, <1>6, <1>7 DEF NoDoublesInvariant

\* A row without an external id is not an imported one.
LEMMA CreateKeeps ==
  ASSUME NoDoublesInvariant, TypeOK', NEW c \in Charges, CreateTransaction(c)
  PROVE  NoDoublesInvariant'
<1>1. PICK row : /\ row.issue = NoId /\ row.charge = c /\ row.account[1] = AccountOf[c]
                 /\ ledger' = ledger \cup {row}
  BY DEF CreateTransaction
<1>2. /\ c \in Posted /\ postedAt' = postedAt /\ sync' = sync
  BY DEF CreateTransaction, bankVars
<1>3. Posted' = Posted /\ \A d \in Charges : Alike(d)' = Alike(d)
  BY <1>2 DEF Posted, Alike
<1>4. IsFiniteSet(ledger') /\ \A r \in ledger' : GenuineRow(r)'
  BY <1>1, <1>2, <1>3, FS_AddElement DEF NoDoublesInvariant, GenuineRow
<1>5. \A d \in Charges : Imported(ledger, d)' = Imported(ledger, d)
  BY <1>1, <1>3 DEF Imported
<1>6. \A d \in Charges, s \in Sessions :
         Imported(ledger \cup sync[s].added, d)' = Imported(ledger \cup sync[s].added, d)
  BY <1>1, <1>2, <1>3 DEF Imported
<1>7. NoDoubleCount'
  BY <1>3, <1>5 DEF NoDoubleCount, NoDoublesInvariant, Posted
<1>8. \A s \in Sessions, d \in Posted' :
         Cardinality(Imported(ledger \cup sync[s].added, d)') <= Cardinality(Alike(d)')
  BY <1>3, <1>6 DEF NoDoublesInvariant, Posted
<1>9. QED
  BY <1>2, <1>3, <1>4, <1>7, <1>8 DEF NoDoublesInvariant, GenuineRow

\* Deleting a row only lowers the counts.
LEMMA DeleteKeeps ==
  ASSUME NoDoublesInvariant, TypeOK', NEW r \in ledger, DeleteTransaction(r)
  PROVE  NoDoublesInvariant'
<1>1. ledger' = ledger \ {r} /\ postedAt' = postedAt /\ sync' = sync
  BY DEF DeleteTransaction, bankVars
<1>2. Posted' = Posted /\ \A d \in Charges : Alike(d)' = Alike(d)
  BY <1>1 DEF Posted, Alike
<1>3. IsFiniteSet(ledger') /\ \A q \in ledger' : GenuineRow(q)'
  BY <1>1, <1>2, FS_RemoveElement DEF NoDoublesInvariant, GenuineRow
<1>4. ASSUME NEW more, IsFiniteSet(more), NEW d \in Posted,
             Cardinality(Imported(ledger \cup more, d)) <= Cardinality(Alike(d))
      PROVE  Cardinality(Imported((ledger \ {r}) \cup more, d)) <= Cardinality(Alike(d))
  <2>1. IsFiniteSet(ledger \cup more)
    BY <1>4, FS_Union DEF NoDoublesInvariant
  <2>2. Imported((ledger \ {r}) \cup more, d) \in SUBSET Imported(ledger \cup more, d)
    BY DEF Imported
  <2>3. /\ Cardinality(Imported((ledger \ {r}) \cup more, d))
             <= Cardinality(Imported(ledger \cup more, d))
        /\ Cardinality(Imported((ledger \ {r}) \cup more, d)) \in Nat
        /\ Cardinality(Imported(ledger \cup more, d)) \in Nat
    BY <2>1, <2>2, CountIsNat, FS_Subset, FS_CardinalityType
  <2>4. QED
    BY <1>4, <2>3, AlikeFinite DEF Posted
<1>5. NoDoubleCount'
  <2> SUFFICES ASSUME NEW d \in Posted PROVE Cardinality(Imported(ledger, d)') <= Cardinality(Alike(d)')
    BY <1>2 DEF NoDoubleCount
  <2>1. Imported(ledger \cup {}, d) = Imported(ledger, d)
    BY DEF Imported
  <2>2. Imported(ledger, d)' = Imported((ledger \ {r}) \cup {}, d)
    BY <1>1, <1>2 DEF Imported, Posted
  <2>3. QED
    BY <1>2, <1>4, <2>1, <2>2, FS_EmptySet DEF NoDoublesInvariant, NoDoubleCount, Posted
<1>6. ASSUME NEW s \in Sessions, NEW d \in Posted'
      PROVE  Cardinality(Imported(ledger \cup sync[s].added, d)') <= Cardinality(Alike(d)')
  <2>1. Imported(ledger \cup sync[s].added, d)' = Imported((ledger \ {r}) \cup sync[s].added, d)
    BY <1>1, <1>2 DEF Imported, Posted
  <2>2. QED
    BY <1>2, <1>4, <2>1 DEF NoDoublesInvariant, Posted
<1>7. QED
  BY <1>1, <1>2, <1>3, <1>5, <1>6 DEF NoDoublesInvariant, GenuineRow

\* What a commit inserts was counted when the session read the ledger.
LEMMA CommitKeeps ==
  ASSUME OneAtATime, NoDoublesInvariant, TypeOK', NEW s \in Sessions, Commit(s)
  PROVE  NoDoublesInvariant'
<1>1. /\ ledger' = ledger \cup sync[s].added /\ postedAt' = postedAt
      /\ sync' = [sync EXCEPT ![s] = IdleSync]
  BY DEF Commit, bankVars
<1>2. Posted' = Posted /\ \A d \in Charges : Alike(d)' = Alike(d)
  BY <1>1 DEF Posted, Alike
<1>3. \A u \in Sessions : sync'[u].added = {} /\ sync'[u].txns = {}
  BY <1>1 DEF OneAtATime, IdleSync, NoDoublesInvariant, TypeOK
<1>4. IsFiniteSet(ledger') /\ \A r \in ledger' : GenuineRow(r)'
  BY <1>1, <1>2, FS_Union DEF NoDoublesInvariant, GenuineRow
<1>5. NoDoubleCount'
  BY <1>1, <1>2 DEF NoDoubleCount, NoDoublesInvariant, Imported, Posted
<1>6. ASSUME NEW u \in Sessions, NEW d \in Posted'
      PROVE  Cardinality(Imported(ledger \cup sync[u].added, d)') <= Cardinality(Alike(d)')
  <2>1. Imported(ledger \cup sync[u].added, d)' = Imported(ledger, d)'
    BY <1>3 DEF Imported
  <2>2. QED
    BY <1>5, <2>1 DEF NoDoubleCount
<1>7. QED
  BY <1>3, <1>4, <1>5, <1>6, FS_EmptySet DEF NoDoublesInvariant

\* The counting argument of the two passes of sync_connection: of k transactions that no row
\* matches by id, with m that one does and h look-alike rows held, k - max(0, h - m) are
\* inserted; the imported rows, b <= h of them, become at most max(b, k + m).
LEMMA SurplusFits ==
  ASSUME OneAtATime, NoDoublesInvariant, NEW s \in Sessions, NEW c \in Resolved(s)
  PROVE  /\ Surplus(s, c) \in Nat
         /\ Cardinality(Imported(ledger, c)) + Surplus(s, c) <= Cardinality(Alike(c))
<1> DEFINE H == HeldRows(s, c)
           B == Imported(ledger, c)
           K == Resolved(s) \cap Alike(c)
           M == Seen(s) \cap Alike(c)
<1>1. c \in Posted /\ c \in Charges /\ Known(s) \subseteq Posted
  BY DEF NoDoublesInvariant, Resolved, Known, Posted
<1>2. B \in SUBSET H
  <2> SUFFICES ASSUME NEW r \in B PROVE r \in H
    OBVIOUS
  <2>1. r \in Rows /\ GenuineRow(r) /\ r.charge \in Alike(c)
    BY DEF Imported, NoDoublesInvariant, TypeOK
  <2>2. r.account[1] = AccountOf[c] /\ r.account[2] \in Sessions /\ r.account = <<r.account[1], r.account[2]>>
    BY <2>1 DEF GenuineRow, Alike, Rows, AccountRows
  <2>3. sync[s].byExternal[AccountOf[c]] \in Sessions
    BY <1>1, ChargesAssumption DEF Resolved, Known, NoDoublesInvariant, TypeOK, SyncType
  <2>4. r.account = Target(s, AccountOf[c])
    BY <2>2, <2>3 DEF Target, OneAtATime
  <2>5. QED
    BY <2>1, <2>4 DEF HeldRows, Imported
<1>3. /\ IsFiniteSet(H) /\ Cardinality(H) \in Nat
      /\ Cardinality(B) \in Nat /\ Cardinality(B) <= Cardinality(H)
  <2>1. H \in SUBSET ledger /\ IsFiniteSet(ledger)
    BY DEF HeldRows, NoDoublesInvariant
  <2>2. QED
    BY <1>2, <2>1, FS_Subset, FS_CardinalityType
<1>4. /\ K \in SUBSET Alike(c) /\ M \in SUBSET Alike(c) /\ K \cap M = {}
  BY DEF Resolved
<1>5. /\ IsFiniteSet(Alike(c)) /\ Cardinality(Alike(c)) \in Nat
      /\ IsFiniteSet(K) /\ IsFiniteSet(M)
      /\ Cardinality(K) \in Nat /\ Cardinality(M) \in Nat
  BY <1>1, <1>4, AlikeFinite, FS_Subset, FS_CardinalityType
<1>6. Cardinality(K) + Cardinality(M) <= Cardinality(Alike(c))
  <2>1. Cardinality(K \cup M) = Cardinality(K) + Cardinality(M) - Cardinality(K \cap M)
    BY <1>5, FS_Union
  <2>2. Cardinality(K \cap M) = 0
    BY <1>4, FS_EmptySet
  <2>3. Cardinality(K \cup M) <= Cardinality(Alike(c))
    BY <1>4, <1>5, FS_Subset
  <2>4. QED
    BY <1>5, <2>1, <2>2, <2>3
<1>7. Cardinality(B) <= Cardinality(Alike(c))
  BY <1>1 DEF NoDoublesInvariant, NoDoubleCount
<1>8. Held(s, c) = Cardinality(H) - Cardinality(M)
  BY DEF Held
<1>9. Surplus(s, c) = IF Held(s, c) <= 0 THEN Cardinality(K)
                      ELSE IF Held(s, c) >= Cardinality(K) THEN 0
                      ELSE Cardinality(K) - Held(s, c)
  BY DEF Surplus
<1> HIDE DEF H, B, K, M
<1>10. /\ Surplus(s, c) \in Nat
       /\ Cardinality(B) + Surplus(s, c) <= Cardinality(Alike(c))
  BY <1>3, <1>5, <1>6, <1>7, <1>8, <1>9
<1>11. QED
  BY <1>10 DEF B

\* Reading the ledger decides on insertions that fit.
LEMMA ReadKeeps ==
  ASSUME OneAtATime, NoDoublesInvariant, TypeOK', NEW s \in Sessions, ReadHeld(s)
  PROVE  NoDoublesInvariant'
<1>1. PICK new \in SUBSET Resolved(s) :
        /\ \A c \in Resolved(s) : Cardinality(new \cap Alike(c)) = Surplus(s, c)
        /\ sync' = [sync EXCEPT ![s] =
                      [@ EXCEPT !.pc = "resolved",
                                !.flushed = TRUE,
                                !.added = {RowFor(s, c) : c \in new}]]
  BY DEF ReadHeld
<1> DEFINE added == {RowFor(s, c) : c \in new}
<1>2. ledger' = ledger /\ postedAt' = postedAt
  BY DEF ReadHeld, bankVars, dbVars
<1>3. Posted' = Posted /\ \A d \in Charges : Alike(d)' = Alike(d)
  BY <1>2 DEF Posted, Alike
<1>4. \A u \in Sessions : sync'[u].added = added /\ sync'[u].txns = sync[s].txns
  <2> HIDE DEF added
  <2>1. sync'[s] = [sync[s] EXCEPT !.pc = "resolved", !.flushed = TRUE, !.added = added]
    BY <1>1 DEF NoDoublesInvariant, TypeOK, added
  <2>2. sync[s] \in SyncType
    BY DEF NoDoublesInvariant, TypeOK
  <2>3. sync'[s].added = added /\ sync'[s].txns = sync[s].txns
    BY <2>1, <2>2 DEF SyncType
  <2>4. QED
    BY <2>3 DEF OneAtATime
<1>5. new \subseteq Posted /\ IsFiniteSet(new)
  <2>1. new \subseteq Posted
    BY DEF Resolved, Known, NoDoublesInvariant
  <2>2. QED
    BY <2>1, ChargesAssumption, FS_Subset DEF Posted
<1>6. IsFiniteSet(added)
  <2> DEFINE f == [c \in new |-> RowFor(s, c)]
  <2>1. f \in Surjection(new, added)
    BY DEF Surjection
  <2>2. QED
    BY <1>5, <2>1, FS_Surjection
<1>7. \A r \in added : GenuineRow(r)
  BY <1>5 DEF GenuineRow, RowFor, Target
<1>8. ASSUME NEW d \in Posted
      PROVE  Cardinality(Imported(ledger \cup added, d)) <= Cardinality(Alike(d))
  <2> DEFINE old == Imported(ledger, d)
             fresh == Imported(added, d)
             chosen == new \cap Alike(d)
  <2>1. Imported(ledger \cup added, d) = old \cup fresh
    BY DEF Imported
  <2>2. /\ IsFiniteSet(old) /\ Cardinality(old) \in Nat
        /\ IsFiniteSet(fresh) /\ Cardinality(fresh) \in Nat
        /\ IsFiniteSet(chosen) /\ Cardinality(chosen) \in Nat
    <3>1. chosen \in SUBSET new
      OBVIOUS
    <3>2. QED
      BY <1>5, <1>6, <3>1, CountIsNat, FS_Subset, FS_CardinalityType DEF NoDoublesInvariant
  <2>3. Cardinality(fresh) <= Cardinality(chosen)
    <3> DEFINE f == [c \in {x \in chosen : RowFor(s, x) \in fresh} |-> RowFor(s, c)]
    <3>1. f \in Surjection({x \in chosen : RowFor(s, x) \in fresh}, fresh)
      BY DEF Surjection, Imported, RowFor
    <3>2. {x \in chosen : RowFor(s, x) \in fresh} \in SUBSET chosen
      OBVIOUS
    <3>3. /\ IsFiniteSet({x \in chosen : RowFor(s, x) \in fresh})
          /\ Cardinality({x \in chosen : RowFor(s, x) \in fresh}) <= Cardinality(chosen)
          /\ Cardinality({x \in chosen : RowFor(s, x) \in fresh}) \in Nat
      BY <2>2, <3>2, FS_Subset, FS_CardinalityType
    <3>4. Cardinality(fresh) <= Cardinality({x \in chosen : RowFor(s, x) \in fresh})
      BY <3>1, <3>3, FS_Surjection
    <3>5. QED
      BY <2>2, <3>3, <3>4
  <2>4. /\ Cardinality(old \cup fresh) <= Cardinality(old) + Cardinality(fresh)
        /\ Cardinality(old \cup fresh) \in Nat
    <3>1. Cardinality(old \cup fresh)
            = Cardinality(old) + Cardinality(fresh) - Cardinality(old \cap fresh)
      BY <2>2, FS_Union
    <3>2. IsFiniteSet(old \cup fresh) /\ IsFiniteSet(old \cap fresh)
      BY <2>2, FS_Union, FS_Intersection
    <3>3. Cardinality(old \cap fresh) \in Nat /\ Cardinality(old \cup fresh) \in Nat
      BY <3>2, FS_CardinalityType
    <3>4. QED
      BY <2>2, <3>1, <3>3
  <2>5. Cardinality(old) + Cardinality(chosen) <= Cardinality(Alike(d))
    <3>1. CASE chosen = {}
      BY <3>1, <2>2, FS_EmptySet DEF NoDoublesInvariant, NoDoubleCount
    <3>2. CASE chosen # {}
      <4>1. PICK c \in chosen : TRUE
        BY <3>2
      <4>2. c \in Resolved(s) /\ c \in Alike(d) /\ Alike(c) = Alike(d)
        BY <4>1, <1>8, AlikeIsEquivalence
      <4>3. Cardinality(chosen) = Surplus(s, c)
        BY <1>1, <4>2
      <4>4. Imported(ledger, c) = old
        BY <4>2 DEF Imported
      <4>5. QED
        BY <4>2, <4>3, <4>4, SurplusFits
    <3>3. QED
      BY <3>1, <3>2
  <2>6. Cardinality(Alike(d)) \in Nat
    BY AlikeFinite DEF Posted
  <2> HIDE DEF old, fresh, chosen
  <2>7. Cardinality(old \cup fresh) <= Cardinality(Alike(d))
    BY <2>2, <2>3, <2>4, <2>5, <2>6
  <2>8. QED
    BY <2>1, <2>7
<1>9. ASSUME NEW u \in Sessions, NEW d \in Posted'
      PROVE  Cardinality(Imported(ledger \cup sync[u].added, d)') <= Cardinality(Alike(d)')
  <2>1. Imported(ledger \cup sync[u].added, d)' = Imported(ledger \cup added, d)
    BY <1>2, <1>3, <1>4 DEF Imported, Posted
  <2>2. QED
    BY <1>3, <1>8, <2>1 DEF Posted
<1>10. NoDoubleCount'
  BY <1>2, <1>3 DEF NoDoublesInvariant, NoDoubleCount, Imported, Posted
<1>11. /\ IsFiniteSet(ledger') /\ \A r \in ledger' : GenuineRow(r)'
       /\ \A r \in added : GenuineRow(r)'
  BY <1>2, <1>3, <1>7 DEF NoDoublesInvariant, GenuineRow
<1> HIDE DEF added
<1>12. QED
  BY <1>3, <1>4, <1>6, <1>9, <1>10, <1>11 DEF NoDoublesInvariant

LEMMA NoDoublesInductive ==
  ASSUME OneAtATime, NoDoublesInvariant, [Next]_vars
  PROVE  NoDoublesInvariant'
<1> TypeOK'
  BY TypeInductive DEF NoDoublesInvariant
<1> USE DEF bankVars, dbVars
<1>1. ASSUME Tick \/ \E a \in Accounts : OpenAccount(a) PROVE NoDoublesInvariant'
  BY <1>1, QuietStep DEF Tick, OpenAccount, NoDoublesInvariant
<1>2. ASSUME NEW c \in Charges, Reissue(c) PROVE NoDoublesInvariant'
  BY <1>2, QuietStep DEF Reissue, NoDoublesInvariant
<1>3. ASSUME NEW s \in Sessions, Begin(s) \/ LoadAccounts(s) \/ FetchAccounts(s)
      PROVE  NoDoublesInvariant'
  <2>1. /\ postedAt' = postedAt /\ ledger' = ledger
        /\ \A u \in Sessions : sync'[u].txns = sync[u].txns /\ sync'[u].added = sync[u].added
    BY <1>3, BeginStep, LoadStep, ListStep DEF NoDoublesInvariant
  <2>2. QED
    BY <2>1, QuietStep DEF NoDoublesInvariant
<1>4. ASSUME NEW s \in Sessions, FetchTransactions(s) PROVE NoDoublesInvariant'
  <2>1. /\ postedAt' = postedAt /\ ledger' = ledger
        /\ \A u \in Sessions : /\ sync'[u].txns \in {sync[u].txns, Statement(sync[s].since)}
                               /\ sync'[u].added = sync[u].added
    BY <1>4, FetchStep DEF NoDoublesInvariant
  <2>2. Statement(sync[s].since) \subseteq Posted
    BY DEF Statement
  <2>3. QED
    BY <2>1, <2>2, QuietStep DEF NoDoublesInvariant
<1>5. ASSUME NEW s \in Sessions, FailSync(s) \/ Abort(s) PROVE NoDoublesInvariant'
  <2>1. /\ postedAt' = postedAt /\ ledger' = ledger
        /\ \A u \in Sessions : \/ sync'[u] = sync[u]
                               \/ sync'[u].txns = {} /\ sync'[u].added = {}
    BY <1>5 DEF FailSync, Abort, NoDoublesInvariant, TypeOK, IdleSync
  <2>2. QED
    BY <2>1, QuietStep DEF NoDoublesInvariant
<1>6. CASE UNCHANGED vars
  BY <1>6, QuietStep DEF vars, NoDoublesInvariant
<1>7. QED
  BY <1>1, <1>2, <1>3, <1>4, <1>5, <1>6, PostKeeps, CreateKeeps, DeleteKeeps, ReadKeeps,
     CommitKeeps DEF Next, SyncStep

\* As long as one session syncs at a time, nothing doubles up: whatever ids the bank gives
\* its charges, however often they change, however syncs fail, are cut off or ask for a year
\* again, and whatever the user types in or deletes meanwhile.
THEOREM NothingDoublesUp ==
  ASSUME OneAtATime PROVE Spec => []NoDoubleCount
<1>1. Init => NoDoublesInvariant
  <2> SUFFICES ASSUME Init PROVE NoDoublesInvariant
    OBVIOUS
  <2>1. TypeOK
    BY IdleType, BoundsAssumption DEF Init, TypeOK, Never, NoRow, Time
  <2>2. Posted = {} /\ \A s \in Sessions : sync[s] = IdleSync
    BY DEF Init, Posted
  <2>3. QED
    BY <2>1, <2>2, FS_EmptySet DEF NoDoublesInvariant, NoDoubleCount, Init, IdleSync
<1>2. NoDoublesInvariant /\ [Next]_vars => NoDoublesInvariant'
  BY NoDoublesInductive
<1>3. NoDoublesInvariant => NoDoubleCount
  BY DEF NoDoublesInvariant
<1>4. QED
  BY <1>1, <1>2, <1>3, PTL DEF Spec
-------------------------------------------------------------------------------
(* A sync counts on what the ledger holds, whoever else is syncing. *)

\* The ledger is finite, and what the bank answered are charges it posted.
LedgerFinite ==
    /\ TypeOK
    /\ IsFiniteSet(ledger)
    /\ \A s \in Sessions : sync[s].txns \subseteq Posted /\ IsFiniteSet(sync[s].added)

LEMMA LedgerFiniteInductive == LedgerFinite /\ [Next]_vars => LedgerFinite'
<1> SUFFICES ASSUME LedgerFinite, [Next]_vars PROVE LedgerFinite'
  OBVIOUS
<1> TypeOK /\ TypeOK'
  BY TypeInductive DEF LedgerFinite
<1> USE DEF bankVars, dbVars
<1>1. Posted \subseteq Posted'
  <2>1. \A c \in Charges : postedAt[c] # Never => postedAt'[c] = postedAt[c]
    BY DEF Next, Tick, OpenAccount, Post, Reissue, SyncStep, Begin, LoadAccounts, FetchAccounts,
           FetchTransactions, ReadHeld, Commit, FailSync, Abort, CreateTransaction,
           DeleteTransaction, vars, TypeOK
  <2>2. QED
    BY <2>1 DEF Posted
<1>2. ASSUME ledger' = ledger,
             \A s \in Sessions : /\ sync'[s].txns \subseteq Posted'
                                 /\ IsFiniteSet(sync'[s].added)
      PROVE  LedgerFinite'
  BY <1>2 DEF LedgerFinite
<1>3. ASSUME ledger' = ledger, sync' = sync PROVE LedgerFinite'
  BY <1>1, <1>3 DEF LedgerFinite
<1>4. ASSUME Tick \/ (\E a \in Accounts : OpenAccount(a))
               \/ (\E c \in Charges : Post(c) \/ Reissue(c)) \/ UNCHANGED vars
      PROVE  LedgerFinite'
  BY <1>3, <1>4 DEF Tick, OpenAccount, Post, Reissue, vars
<1>5. ASSUME NEW c \in Charges, CreateTransaction(c) PROVE LedgerFinite'
  <2>1. PICK row : ledger' = ledger \cup {row}
    BY <1>5 DEF CreateTransaction
  <2>2. sync' = sync
    BY <1>5 DEF CreateTransaction
  <2>3. QED
    BY <1>1, <2>1, <2>2, FS_AddElement DEF LedgerFinite
<1>6. ASSUME NEW r \in ledger, DeleteTransaction(r) PROVE LedgerFinite'
  BY <1>1, <1>6, FS_RemoveElement DEF LedgerFinite, DeleteTransaction
<1>7. ASSUME NEW s \in Sessions, Begin(s) \/ LoadAccounts(s) \/ FetchAccounts(s)
      PROVE  LedgerFinite'
  <2>1. /\ ledger' = ledger
        /\ \A u \in Sessions : sync'[u].txns = sync[u].txns /\ sync'[u].added = sync[u].added
    BY <1>7, BeginStep, LoadStep, ListStep
  <2>2. QED
    BY <1>1, <1>2, <2>1 DEF LedgerFinite
<1>8. ASSUME NEW s \in Sessions, FetchTransactions(s) PROVE LedgerFinite'
  <2>1. /\ ledger' = ledger
        /\ \A u \in Sessions : /\ sync'[u].txns \in {sync[u].txns, Statement(sync[s].since)}
                               /\ sync'[u].added = sync[u].added
    BY <1>8, FetchStep
  <2>2. Statement(sync[s].since) \subseteq Posted
    BY DEF Statement
  <2>3. QED
    BY <1>1, <1>2, <2>1, <2>2 DEF LedgerFinite
<1>9. ASSUME NEW s \in Sessions, ReadHeld(s) PROVE LedgerFinite'
  <2>1. PICK new \in SUBSET Resolved(s) : sync'[s].added = {RowFor(s, c) : c \in new}
    BY <1>9, ReadStep
  <2>2. IsFiniteSet(new)
    <3>1. new \in SUBSET Charges
      BY DEF Resolved, Known, LedgerFinite, Posted
    <3>2. QED
      BY <3>1, ChargesAssumption, FS_Subset
  <2>3. IsFiniteSet(sync'[s].added)
    <3> DEFINE rows == {RowFor(s, c) : c \in new}
               f == [c \in new |-> RowFor(s, c)]
    <3>1. f \in Surjection(new, rows)
      BY DEF Surjection
    <3>2. IsFiniteSet(rows)
      BY <2>2, <3>1, FS_Surjection
    <3>3. QED
      BY <2>1, <3>2
  <2>4. ledger' = ledger /\ sync'[s].txns = sync[s].txns
        /\ \A u \in Sessions \ {s} : sync'[u] = sync[u]
    BY <1>9, ReadStep
  <2>5. QED
    BY <1>1, <1>2, <2>3, <2>4 DEF LedgerFinite
<1>10. ASSUME NEW s \in Sessions, Commit(s) \/ FailSync(s) \/ Abort(s) PROVE LedgerFinite'
  <2>1. \A u \in Sessions : \/ sync'[u] = sync[u]
                            \/ sync'[u].txns = {} /\ sync'[u].added = {}
    BY <1>10, EndStep DEF IdleSync
  <2>2. ledger' = ledger \/ ledger' = ledger \cup sync[s].added
    BY <1>10 DEF Commit, FailSync, Abort
  <2>3. IsFiniteSet(ledger')
    BY <2>2, FS_Union DEF LedgerFinite
  <2>4. QED
    BY <1>1, <2>1, <2>3, FS_EmptySet DEF LedgerFinite
<1>11. QED
  BY <1>4, <1>5, <1>6, <1>7, <1>8, <1>9, <1>10 DEF Next, SyncStep

\* The rows a sync counts as held are at least the transactions that it found by their id.
LEMMA SeenAreHeld ==
  ASSUME LedgerFinite, NEW s \in Sessions, NEW c \in Charges
  PROVE  /\ IsFiniteSet(HeldRows(s, c)) /\ IsFiniteSet(Seen(s) \cap Alike(c))
         /\ Cardinality(Seen(s) \cap Alike(c)) <= Cardinality(HeldRows(s, c))
<1> DEFINE M == Seen(s) \cap Alike(c)
           H == HeldRows(s, c)
           Backed == {r \in H : r.charge \in M}
           f == [r \in Backed |-> r.charge]
<1>1. IsFiniteSet(H) /\ IsFiniteSet(Backed) /\ Cardinality(Backed) <= Cardinality(H)
      /\ Cardinality(H) \in Nat /\ Cardinality(Backed) \in Nat
  <2>1. H \in SUBSET ledger /\ Backed \in SUBSET H
    BY DEF HeldRows
  <2>2. QED
    BY <2>1, FS_Subset, FS_CardinalityType DEF LedgerFinite
<1>2. \A d \in M : \E r \in Backed : r.charge = d
  BY DEF Seen, Known, HeldRows, Alike
<1>3. f \in Surjection(Backed, M)
  BY <1>2 DEF Surjection
<1>4. IsFiniteSet(M) /\ Cardinality(M) <= Cardinality(Backed) /\ Cardinality(M) \in Nat
  BY <1>1, <1>3, FS_Surjection, FS_CardinalityType
<1> HIDE DEF M, H, Backed
<1>5. IsFiniteSet(H) /\ IsFiniteSet(M) /\ Cardinality(M) <= Cardinality(H)
  BY <1>1, <1>4
<1>6. QED
  BY <1>5 DEF M, H

\* What is held and what is inserted cover what the bank answered.
LEMMA ReportCovered ==
  ASSUME LedgerFinite, NEW s \in Sessions, NEW c \in Known(s), NEW new \in SUBSET Resolved(s),
         \A d \in Resolved(s) : Cardinality(new \cap Alike(d)) = Surplus(s, d)
  PROVE  Cardinality(Known(s) \cap Alike(c))
           <= Cardinality({r \in ledger \cup {RowFor(s, d) : d \in new} : r.charge \in Alike(c)})
<1> DEFINE H == HeldRows(s, c)
           K == Resolved(s) \cap Alike(c)
           M == Seen(s) \cap Alike(c)
           N == new \cap Alike(c)
           F == {RowFor(s, d) : d \in N}
           All == {r \in ledger \cup {RowFor(s, d) : d \in new} : r.charge \in Alike(c)}
<1>1. c \in Posted /\ c \in Charges /\ Known(s) \subseteq Posted
  BY DEF LedgerFinite, Known, Posted
<1>2. /\ IsFiniteSet(H) /\ Cardinality(H) \in Nat /\ Cardinality(M) <= Cardinality(H)
      /\ IsFiniteSet(M) /\ Cardinality(M) \in Nat
  BY <1>1, SeenAreHeld, FS_CardinalityType
<1>3. /\ IsFiniteSet(K) /\ Cardinality(K) \in Nat /\ IsFiniteSet(N) /\ Cardinality(N) \in Nat
      /\ IsFiniteSet(Alike(c))
  <2>1. K \in SUBSET Alike(c) /\ N \in SUBSET Alike(c)
    OBVIOUS
  <2>2. QED
    BY <1>1, <2>1, AlikeFinite, FS_Subset, FS_CardinalityType
<1>4. Cardinality(Known(s) \cap Alike(c)) = Cardinality(K) + Cardinality(M)
  <2>1. Known(s) \cap Alike(c) = K \cup M /\ K \cap M = {}
    BY DEF Resolved, Seen
  <2>2. QED
    BY <1>2, <1>3, <2>1, FS_Union, FS_EmptySet
<1>5. Cardinality(K) + Cardinality(M) <= Cardinality(H) + Cardinality(N)
  <2>1. CASE K = {}
    BY <1>2, <1>3, <2>1, FS_EmptySet
  <2>2. CASE K # {}
    <3>1. PICK d \in K : TRUE
      BY <2>2
    <3>2. d \in Resolved(s) /\ Alike(d) = Alike(c) /\ AccountOf[d] = AccountOf[c]
      BY <1>1, <3>1, AlikeIsEquivalence DEF Alike
    <3>3. Held(s, d) = Cardinality(H) - Cardinality(M)
      BY <3>2 DEF Held, HeldRows
    <3>4. Cardinality(N) = IF Held(s, d) <= 0 THEN Cardinality(K)
                           ELSE IF Held(s, d) >= Cardinality(K) THEN 0
                           ELSE Cardinality(K) - Held(s, d)
      BY <3>2 DEF Surplus
    <3> HIDE DEF H, K, M, N
    <3>5. QED
      BY <1>2, <1>3, <3>3, <3>4
  <2>3. QED
    BY <2>1, <2>2
<1>6. IsFiniteSet(F) /\ Cardinality(F) = Cardinality(N)
  <2> DEFINE f == [d \in N |-> RowFor(s, d)]
  <2>1. f \in Surjection(N, F) /\ f \in Injection(N, F)
    BY DEF Surjection, Injection, IsInjective, RowFor
  <2>2. QED
    BY <1>3, <2>1, FS_Surjection
<1>7. H \cap F = {}
  <2> SUFFICES ASSUME NEW d \in N, RowFor(s, d) \in H PROVE FALSE
    OBVIOUS
  <2>1. d \in Known(s) /\ d \notin Seen(s)
    BY DEF Resolved
  <2>2. RowFor(s, d) \in ledger
    BY DEF HeldRows
  <2>3. d \in Seen(s)
    BY <2>1, <2>2 DEF Seen, RowFor
  <2>4. QED
    BY <2>1, <2>3
<1>8. Cardinality(H \cup F) = Cardinality(H) + Cardinality(N)
  <2> HIDE DEF H, F, N
  <2>1. Cardinality(H \cup F) = Cardinality(H) + Cardinality(F) - Cardinality(H \cap F)
    BY <1>2, <1>6, FS_Union
  <2>2. Cardinality(H \cap F) = 0
    BY <1>7, FS_EmptySet
  <2>3. QED
    BY <1>2, <1>3, <1>6, <2>1, <2>2
<1>9. H \cup F \in SUBSET All
  BY DEF HeldRows, RowFor
<1>10. IsFiniteSet(All)
  <2> DEFINE f == [d \in new |-> RowFor(s, d)]
             rows == {RowFor(s, d) : d \in new}
  <2>1. f \in Surjection(new, rows)
    BY DEF Surjection
  <2>2. IsFiniteSet(new)
    <3>1. new \in SUBSET Charges
      BY <1>1 DEF Resolved, Posted
    <3>2. QED
      BY <3>1, ChargesAssumption, FS_Subset
  <2>3. IsFiniteSet(rows)
    BY <2>1, <2>2, FS_Surjection
  <2>4. IsFiniteSet(ledger \cup rows)
    BY <2>3, FS_Union DEF LedgerFinite
  <2>5. All \in SUBSET (ledger \cup rows)
    OBVIOUS
  <2>6. QED
    BY <2>4, <2>5, FS_Subset
<1>11. Cardinality(H \cup F) <= Cardinality(All) /\ Cardinality(All) \in Nat
  BY <1>9, <1>10, FS_Subset, FS_CardinalityType
<1> HIDE DEF H, K, M, N, F, All
<1>12. Cardinality(Known(s) \cap Alike(c)) <= Cardinality(All)
  BY <1>2, <1>3, <1>4, <1>5, <1>8, <1>11
<1>13. QED
  BY <1>12 DEF All

\* Whoever else syncs, types in or deletes rows, and whatever ids the bank uses: a sync that
\* reads the ledger finds or inserts a row for every charge of the bank's answer.
THEOREM ReportIsKept == Spec => KeepsItsReport
<1> DEFINE Covers(s) ==
      ReadHeld(s) =>
         \A c \in Known(s) :
            Cardinality(Known(s) \cap Alike(c))
              <= Cardinality({r \in ledger \cup sync'[s].added : r.charge \in Alike(c)})
<1>1. Init => LedgerFinite
  <2> SUFFICES ASSUME Init PROVE LedgerFinite
    OBVIOUS
  <2>1. TypeOK
    BY IdleType, BoundsAssumption DEF Init, TypeOK, Never, NoRow, Time
  <2>2. QED
    BY <2>1, FS_EmptySet DEF Init, LedgerFinite, IdleSync
<1>2. ASSUME LedgerFinite, NEW s \in Sessions PROVE Covers(s)
  <2> SUFFICES ASSUME ReadHeld(s), NEW c \in Known(s)
               PROVE  Cardinality(Known(s) \cap Alike(c))
                        <= Cardinality({r \in ledger \cup sync'[s].added : r.charge \in Alike(c)})
    OBVIOUS
  <2>1. PICK new \in SUBSET Resolved(s) :
          /\ \A d \in Resolved(s) : Cardinality(new \cap Alike(d)) = Surplus(s, d)
          /\ sync'[s].added = {RowFor(s, d) : d \in new}
    BY <1>2, ReadStep DEF LedgerFinite
  <2>2. QED
    BY <1>2, <2>1, ReportCovered
<1>3. LedgerFinite => [\A s \in Sessions : Covers(s)]_vars
  BY <1>2
<1>4. QED
  BY <1>1, <1>3, LedgerFiniteInductive, PTL DEF Spec, KeepsItsReport
-------------------------------------------------------------------------------
(* What a sync loaded is still so when it writes, as long as one session syncs at a time. *)

\* What a session has read of the accounts is still so, and what it is to insert is not there.
SyncAgrees(s) ==
    /\ \A r \in sync[s].added : r.issue # NoId /\ r \notin ledger
    /\ sync[s].pc \in {"loaded", "listed", "fetched", "resolved"} =>
         \A a \in Accounts : sync[s].loaded[a] = balance[<<a, s>>]
    /\ \A a \in Accounts :
         sync[s].listed[a] # NoRow =>
           /\ sync[s].pc \in {"listed", "fetched", "resolved"}
           /\ sync[s].byExternal[a] = s
           /\ balance[<<a, s>>] <= sync[s].listed[a]
           /\ sync[s].listed[a] <= BankBalance(a)

\* The inductive invariant behind InsertsAreNew and BalanceNeverRegresses.
SerialInvariant ==
    /\ TypeOK
    /\ \A s \in Sessions : SyncAgrees(s)
    /\ \A r \in AccountRows : balance[r] <= BankBalance(r[1])

\* The bank's balance of an account is a number, and no step takes a charge back.
LEMMA BankBalanceIsNat == \A a \in Accounts : BankBalance(a) \in Nat
<1> SUFFICES ASSUME NEW a \in Accounts PROVE BankBalance(a) \in Nat
  OBVIOUS
<1>1. IsFiniteSet({c \in Posted : AccountOf[c] = a})
  BY ChargesAssumption, FS_Subset DEF Posted
<1>2. QED
  BY <1>1, FS_CardinalityType DEF BankBalance

LEMMA BankBalanceGrows ==
  ASSUME Posted \subseteq Posted', NEW a \in Accounts
  PROVE  BankBalance(a) <= BankBalance(a)' /\ BankBalance(a)' \in Nat
<1> DEFINE old == {c \in Posted : AccountOf[c] = a}
           new == {c \in Posted' : AccountOf[c] = a}
<1>1. new \in SUBSET Charges /\ old \in SUBSET new
  BY DEF Posted
<1>2. IsFiniteSet(new)
  BY <1>1, ChargesAssumption, FS_Subset
<1>3. Cardinality(old) <= Cardinality(new) /\ Cardinality(new) \in Nat
  BY <1>1, <1>2, FS_Subset, FS_CardinalityType
<1>4. BankBalance(a) = Cardinality(old) /\ BankBalance(a)' = Cardinality(new)
  BY DEF BankBalance
<1>5. QED
  BY <1>3, <1>4

\* A step that leaves the account rows and the sync records alone keeps the invariant.
LEMMA AgreesElsewhere ==
  ASSUME SerialInvariant, TypeOK', Posted \subseteq Posted', balance' = balance, sync' = sync,
         \A s \in Sessions : \A r \in sync[s].added : r \notin ledger'
  PROVE  SerialInvariant'
<1>1. \A a \in Accounts : /\ BankBalance(a) <= BankBalance(a)'
                          /\ BankBalance(a) \in Nat /\ BankBalance(a)' \in Nat
  BY BankBalanceGrows, BankBalanceIsNat
<1>2. \A r \in AccountRows : balance'[r] <= BankBalance(r[1])'
  <2> SUFFICES ASSUME NEW r \in AccountRows PROVE balance[r] <= BankBalance(r[1])'
    OBVIOUS
  <2>1. r[1] \in Accounts /\ balance[r] \in Int /\ balance[r] <= BankBalance(r[1])
    BY DEF AccountRows, SerialInvariant, TypeOK
  <2>2. QED
    BY <1>1, <2>1
<1>3. ASSUME NEW s \in Sessions, NEW a \in Accounts, sync[s].listed[a] # NoRow
      PROVE  /\ sync[s].listed[a] <= BankBalance(a)'
             /\ sync[s].pc \in {"listed", "fetched", "resolved"}
             /\ sync[s].byExternal[a] = s
             /\ balance[<<a, s>>] <= sync[s].listed[a]
  <2>1. sync[s].listed[a] \in Int
    BY DEF SerialInvariant, TypeOK, SyncType
  <2>2. /\ sync[s].listed[a] <= BankBalance(a)
        /\ sync[s].pc \in {"listed", "fetched", "resolved"}
        /\ sync[s].byExternal[a] = s
        /\ balance[<<a, s>>] <= sync[s].listed[a]
    BY <1>3 DEF SerialInvariant, SyncAgrees
  <2>3. QED
    BY <1>1, <2>1, <2>2
<1>4. ASSUME NEW s \in Sessions PROVE SyncAgrees(s)'
  BY <1>3 DEF SerialInvariant, SyncAgrees
<1>5. QED
  BY <1>2, <1>4 DEF SerialInvariant

\* A step of the session's own sync keeps the invariant if it keeps what it says of its record.
LEMMA AgreesInSync ==
  ASSUME OneAtATime, SerialInvariant, TypeOK', NEW s \in Sessions, SyncAgrees(s)',
         postedAt' = postedAt, balance' = balance
  PROVE  SerialInvariant'
<1>1. \A u \in Sessions : SyncAgrees(u)'
  BY DEF OneAtATime
<1>2. \A r \in AccountRows : balance'[r] <= BankBalance(r[1])'
  BY DEF SerialInvariant, BankBalance, Posted
<1>3. QED
  BY <1>1, <1>2 DEF SerialInvariant

LEMMA BeginAgrees ==
  ASSUME OneAtATime, SerialInvariant, TypeOK', NEW s \in Sessions, Begin(s)
  PROVE  SerialInvariant'
<1>1. TypeOK /\ SyncAgrees(s)
  BY DEF SerialInvariant
<1>2. \A a \in Accounts : sync'[s].listed[a] = NoRow
  BY <1>1, BeginStep DEF SyncAgrees
<1>3. SyncAgrees(s)'
  BY <1>1, <1>2, BeginStep DEF SyncAgrees, dbVars
<1>4. QED
  BY <1>1, <1>3, BeginStep, AgreesInSync DEF bankVars, dbVars

LEMMA LoadAgrees ==
  ASSUME OneAtATime, SerialInvariant, TypeOK', NEW s \in Sessions, LoadAccounts(s)
  PROVE  SerialInvariant'
<1>1. TypeOK /\ SyncAgrees(s)
  BY DEF SerialInvariant
<1>2. \A a \in Accounts : sync'[s].listed[a] = NoRow
  BY <1>1, LoadStep DEF SyncAgrees
<1>3. \A a \in Accounts : sync'[s].loaded[a] = balance[<<a, s>>]
  <2> SUFFICES ASSUME NEW a \in Accounts PROVE sync'[s].loaded[a] = balance[<<a, s>>]
    OBVIOUS
  <2> DEFINE by == sync'[s].byExternal[a]
  <2>1. /\ IF RowsFor(a) = {} THEN by = NoSession ELSE by \in RowsFor(a)
        /\ sync'[s].loaded[a] = IF by = NoSession THEN NoRow ELSE balance[<<a, by>>]
    BY <1>1, LoadStep
  <2> HIDE DEF by
  <2>2. CASE RowsFor(a) = {}
    BY <2>1, <2>2 DEF RowsFor
  <2>3. CASE RowsFor(a) # {}
    <3>1. by \in Sessions
      BY <2>1, <2>3 DEF RowsFor
    <3>2. by = s /\ by # NoSession
      BY <3>1, SchedulerAssumption DEF OneAtATime
    <3>3. QED
      BY <2>1, <3>2
  <2>4. QED
    BY <2>2, <2>3
<1>4. SyncAgrees(s)'
  BY <1>1, <1>2, <1>3, LoadStep DEF SyncAgrees, dbVars
<1>5. QED
  BY <1>1, <1>4, LoadStep, AgreesInSync DEF bankVars, dbVars

LEMMA ListAgrees ==
  ASSUME OneAtATime, SerialInvariant, TypeOK', NEW s \in Sessions, FetchAccounts(s)
  PROVE  SerialInvariant'
<1>1. TypeOK /\ SyncAgrees(s)
  BY DEF SerialInvariant
<1>2. /\ postedAt' = postedAt /\ balance' = balance /\ ledger' = ledger
      /\ sync[s].pc = "loaded" /\ sync'[s].pc = "listed"
      /\ sync'[s].loaded = sync[s].loaded /\ sync'[s].added = sync[s].added
  BY <1>1, ListStep DEF bankVars, dbVars
<1>3. ASSUME NEW a \in Accounts, sync'[s].listed[a] # NoRow
      PROVE  /\ sync'[s].byExternal[a] = s
             /\ balance[<<a, s>>] <= sync'[s].listed[a]
             /\ sync'[s].listed[a] <= BankBalance(a)'
  <2>1. sync'[s].listed[a] = BankBalance(a) /\ a \in open
    BY <1>1, <1>3, ListStep
  <2>2. sync'[s].byExternal[a] = s
    <3>1. sync[s].byExternal[a] \in Sessions \cup {NoSession}
      BY <1>1 DEF TypeOK, SyncType
    <3>2. QED
      BY <1>1, <2>1, <3>1, ListStep DEF OneAtATime
  <2>3. balance[<<a, s>>] <= BankBalance(a) /\ BankBalance(a)' = BankBalance(a)
    BY <1>2 DEF SerialInvariant, AccountRows, BankBalance, Posted
  <2>4. BankBalance(a) \in Nat
    BY BankBalanceIsNat
  <2>5. QED
    BY <2>1, <2>2, <2>3, <2>4
<1>4. SyncAgrees(s)'
  BY <1>1, <1>2, <1>3 DEF SyncAgrees
<1>5. QED
  BY <1>2, <1>4, AgreesInSync

LEMMA FetchAgrees ==
  ASSUME OneAtATime, SerialInvariant, TypeOK', NEW s \in Sessions, FetchTransactions(s)
  PROVE  SerialInvariant'
<1>1. TypeOK /\ SyncAgrees(s)
  BY DEF SerialInvariant
<1>2. /\ postedAt' = postedAt /\ balance' = balance /\ ledger' = ledger
      /\ sync[s].pc = "listed" /\ sync'[s].pc = "fetched"
      /\ sync'[s].loaded = sync[s].loaded /\ sync'[s].added = sync[s].added
      /\ sync'[s].listed = sync[s].listed /\ sync'[s].byExternal = sync[s].byExternal
  BY <1>1, FetchStep DEF bankVars, dbVars
<1>3. \A a \in Accounts : BankBalance(a)' = BankBalance(a)
  BY <1>2 DEF BankBalance, Posted
<1>4. SyncAgrees(s)'
  BY <1>1, <1>2, <1>3 DEF SyncAgrees
<1>5. QED
  BY <1>2, <1>4, AgreesInSync

LEMMA ReadAgrees ==
  ASSUME OneAtATime, SerialInvariant, TypeOK', NEW s \in Sessions, ReadHeld(s)
  PROVE  SerialInvariant'
<1>1. TypeOK /\ SyncAgrees(s)
  BY DEF SerialInvariant
<1>2. /\ postedAt' = postedAt /\ balance' = balance /\ ledger' = ledger
      /\ sync[s].pc = "fetched" /\ sync'[s].pc = "resolved"
      /\ sync'[s].loaded = sync[s].loaded
      /\ sync'[s].listed = sync[s].listed /\ sync'[s].byExternal = sync[s].byExternal
  BY <1>1, ReadStep DEF bankVars, dbVars
<1>3. \A a \in Accounts : BankBalance(a)' = BankBalance(a)
  BY <1>2 DEF BankBalance, Posted
<1>4. ASSUME NEW c \in Resolved(s)
      PROVE  RowFor(s, c).issue # NoId /\ RowFor(s, c) \notin ledger
  <2>1. c \in Known(s) /\ c \notin Seen(s) /\ c \in Charges
    BY <1>1 DEF Resolved, Known, TypeOK, SyncType
  <2>2. sync[s].ids[c] \in Nat
    BY <1>1, <2>1 DEF TypeOK, SyncType
  <2>3. RowFor(s, c).issue # NoId
    BY <2>2 DEF RowFor, NoId
  <2>4. RowFor(s, c) \notin ledger
    BY <2>1 DEF RowFor, Seen
  <2>5. QED
    BY <2>3, <2>4
<1>5. \A r \in sync'[s].added : r.issue # NoId /\ r \notin ledger
  BY <1>1, <1>4, ReadStep
<1>6. SyncAgrees(s)'
  BY <1>1, <1>2, <1>3, <1>5 DEF SyncAgrees
<1>7. QED
  BY <1>2, <1>6, AgreesInSync

\* A session writes rows of its own only, each with the balance the bank last named for it.
LEMMA FlushRises ==
  ASSUME OneAtATime, SerialInvariant, NEW s \in Sessions, NEW r \in AccountRows
  PROVE  /\ FlushedBalance(s)[r] >= balance[r]
         /\ FlushedBalance(s)[r] <= BankBalance(r[1])
<1>1. /\ r[1] \in Accounts /\ r = <<r[1], s>> /\ balance[r] \in Int
      /\ balance[r] <= BankBalance(r[1])
  BY DEF SerialInvariant, AccountRows, TypeOK, OneAtATime
<1>2. FlushedBalance(s)[r] = IF r \in DirtyRows(s) \cup CreatedRows(s)
                             THEN sync[s].listed[r[1]] ELSE balance[r]
  BY DEF FlushedBalance
<1>3. CASE r \in DirtyRows(s) \cup CreatedRows(s)
  <2>1. sync[s].listed[r[1]] # NoRow
    BY <1>1, <1>3 DEF DirtyRows, CreatedRows, Target
  <2>2. balance[r] <= sync[s].listed[r[1]] /\ sync[s].listed[r[1]] <= BankBalance(r[1])
    BY <1>1, <2>1 DEF SerialInvariant, SyncAgrees
  <2>3. sync[s].listed[r[1]] \in Int
    BY <1>1 DEF SerialInvariant, TypeOK, SyncType
  <2>4. QED
    BY <1>1, <1>2, <1>3, <2>2, <2>3
<1>4. CASE r \notin DirtyRows(s) \cup CreatedRows(s)
  BY <1>1, <1>2, <1>4
<1>5. QED
  BY <1>3, <1>4

LEMMA EndAgrees ==
  ASSUME OneAtATime, SerialInvariant, TypeOK', NEW s \in Sessions,
         Commit(s) \/ FailSync(s) \/ Abort(s)
  PROVE  SerialInvariant'
<1>1. sync'[s] = IdleSync
  BY EndStep DEF SerialInvariant
<1>2. SyncAgrees(s)'
  BY <1>1 DEF SyncAgrees, IdleSync
<1>3. postedAt' = postedAt /\ (balance' = balance \/ balance' = FlushedBalance(s))
  BY DEF Commit, FailSync, Abort, bankVars, dbVars
<1>4. CASE balance' = balance
  BY <1>2, <1>3, <1>4, AgreesInSync
<1>5. CASE balance' = FlushedBalance(s)
  <2>1. \A r \in AccountRows : balance'[r] <= BankBalance(r[1])'
    BY <1>3, <1>5, FlushRises DEF BankBalance, Posted
  <2>2. QED
    BY <1>2, <2>1 DEF SerialInvariant, OneAtATime
<1>6. QED
  BY <1>3, <1>4, <1>5

LEMMA SerialInductive ==
  ASSUME OneAtATime, SerialInvariant, [Next]_vars
  PROVE  SerialInvariant'
<1> TypeOK /\ TypeOK'
  BY TypeInductive DEF SerialInvariant
<1> USE DEF bankVars, dbVars
<1>1. \A s \in Sessions : \A r \in sync[s].added : r.issue # NoId /\ r \notin ledger
  BY DEF SerialInvariant, SyncAgrees
<1>2. ASSUME Tick \/ (\E a \in Accounts : OpenAccount(a)) \/ (\E c \in Charges : Reissue(c))
               \/ UNCHANGED vars
      PROVE  SerialInvariant'
  <2>1. /\ postedAt' = postedAt /\ ledger' = ledger /\ balance' = balance /\ sync' = sync
    BY <1>2 DEF Tick, OpenAccount, Reissue, vars
  <2>2. QED
    BY <1>1, <2>1, AgreesElsewhere DEF Posted
<1>3. ASSUME NEW c \in Charges, Post(c) PROVE SerialInvariant'
  <2>1. /\ ledger' = ledger /\ balance' = balance /\ sync' = sync
        /\ \A d \in Charges : postedAt[d] # Never => postedAt'[d] = postedAt[d]
    BY <1>3 DEF Post, TypeOK
  <2>2. QED
    BY <1>1, <2>1, AgreesElsewhere DEF Posted
<1>4. ASSUME NEW c \in Charges, CreateTransaction(c) PROVE SerialInvariant'
  <2>1. PICK row : row.issue = NoId /\ ledger' = ledger \cup {row}
    BY <1>4 DEF CreateTransaction
  <2>2. postedAt' = postedAt /\ balance' = balance /\ sync' = sync
    BY <1>4 DEF CreateTransaction
  <2>3. QED
    BY <1>1, <2>1, <2>2, AgreesElsewhere DEF Posted
<1>5. ASSUME NEW r \in ledger, DeleteTransaction(r) PROVE SerialInvariant'
  <2>1. /\ ledger' = ledger \ {r} /\ postedAt' = postedAt
        /\ balance' = balance /\ sync' = sync
    BY <1>5 DEF DeleteTransaction
  <2>2. QED
    BY <1>1, <2>1, AgreesElsewhere DEF Posted
<1>6. QED
  BY <1>2, <1>3, <1>4, <1>5, BeginAgrees, LoadAgrees, ListAgrees, FetchAgrees, ReadAgrees,
     EndAgrees DEF Next, SyncStep

LEMMA SerialInit == Init => SerialInvariant
<1> SUFFICES ASSUME Init PROVE SerialInvariant
  OBVIOUS
<1>1. TypeOK
  BY IdleType, BoundsAssumption DEF Init, TypeOK, Never, NoRow, Time
<1>2. \A s \in Sessions : SyncAgrees(s)
  BY DEF Init, SyncAgrees, IdleSync
<1>3. \A r \in AccountRows : balance[r] <= BankBalance(r[1])
  <2> SUFFICES ASSUME NEW r \in AccountRows PROVE balance[r] <= BankBalance(r[1])
    OBVIOUS
  <2>1. balance[r] = -1 /\ BankBalance(r[1]) \in Nat
    BY BankBalanceIsNat DEF Init, NoRow, AccountRows
  <2>2. QED
    BY <2>1
<1>4. QED
  BY <1>1, <1>2, <1>3 DEF SerialInvariant

\* As long as one session syncs at a time it inserts no account and no transaction that the
\* tables already hold, though no constraint of theirs would stop it.
THEOREM NothingIsInsertedTwice ==
  ASSUME OneAtATime PROVE Spec => []InsertsAreNew
<1>1. SerialInvariant /\ [Next]_vars => SerialInvariant'
  BY SerialInductive
<1>2. SerialInvariant => InsertsAreNew
  <2> SUFFICES ASSUME SerialInvariant, NEW s \in Sessions
               PROVE  /\ \A r \in CreatedRows(s) : balance[r] = NoRow
                      /\ sync[s].added \cap ledger = {}
    BY DEF InsertsAreNew
  <2>1. sync[s].added \cap ledger = {}
    BY DEF SerialInvariant, SyncAgrees
  <2>2. ASSUME NEW a \in Accounts, sync[s].listed[a] # NoRow, sync[s].loaded[a] = NoRow
        PROVE  balance[Target(s, a)] = NoRow
    <3>1. SyncAgrees(s)
      BY DEF SerialInvariant
    <3>2. sync[s].pc \in {"listed", "fetched", "resolved"} /\ sync[s].byExternal[a] = s
      BY <2>2, <3>1 DEF SyncAgrees
    <3>3. sync[s].loaded[a] = balance[<<a, s>>]
      BY <3>1, <3>2 DEF SyncAgrees
    <3>4. QED
      BY <2>2, <3>2, <3>3 DEF Target
  <2>3. QED
    BY <2>1, <2>2 DEF CreatedRows
<1>3. QED
  BY <1>1, <1>2, SerialInit, PTL DEF Spec

\* As long as one session syncs at a time no account's balance is ever put back to an older
\* one: not by a late answer, a failed sync that commits what it wrote, or a year asked again.
THEOREM BalancesOnlyRise ==
  ASSUME OneAtATime PROVE Spec => BalanceNeverRegresses
<1>1. SerialInvariant /\ [Next]_vars => SerialInvariant'
  BY SerialInductive
<1>2. SerialInvariant /\ [Next]_vars => [\A r \in AccountRows : balance'[r] >= balance[r]]_balance
  <2> SUFFICES ASSUME SerialInvariant, [Next]_vars, balance' # balance, NEW r \in AccountRows
               PROVE  balance'[r] >= balance[r]
    OBVIOUS
  <2>1. PICK s \in Sessions : Commit(s) \/ FailSync(s)
    BY DEF Next, Tick, OpenAccount, Post, Reissue, SyncStep, Begin, LoadAccounts, FetchAccounts,
           FetchTransactions, ReadHeld, Abort, CreateTransaction, DeleteTransaction, vars,
           dbVars
  <2>2. balance' = FlushedBalance(s)
    BY <2>1 DEF Commit, FailSync
  <2>3. QED
    BY <2>2, FlushRises
<1>3. QED
  BY <1>1, <1>2, SerialInit, PTL DEF Spec, BalanceNeverRegresses
-------------------------------------------------------------------------------
(* One session's syncs are those of BankLedger. *)

\* What each step of a session knows of the steps before it.
SyncFits(s) ==
    /\ sync[s].pc # "resolved" => sync[s].added = {}
    /\ sync[s].pc \notin {"fetched", "resolved"} => sync[s].txns = {}
    /\ sync[s].pc # "idle" => /\ sync[s].status = status
                              /\ sync[s].since = 0 \/ sync[s].since = lastSyncedAt
    /\ sync[s].pc \notin {"idle", "begun"} =>
         \A a \in Accounts : sync[s].byExternal[a] # NoSession
                               <=> sync[s].loaded[a] # NoRow \/ sync[s].listed[a] # NoRow
    /\ \A r \in sync[s].added : sync[s].byExternal[AccountOf[r.charge]] # NoSession

\* The inductive invariant behind KeepsBankLedger.
BookInvariant ==
    /\ NoDoublesInvariant
    /\ SerialInvariant
    /\ lastSyncedAt <= now
    /\ \A s \in Sessions : SyncFits(s)

LEMMA FitsElsewhere ==
  ASSUME NEW s \in Sessions, SyncFits(s), sync' = sync, status' = status,
         lastSyncedAt' = lastSyncedAt
  PROVE  SyncFits(s)'
BY DEF SyncFits

LEMMA BeginFits ==
  ASSUME BookInvariant, NEW s \in Sessions, Begin(s)
  PROVE  SyncFits(s)'
<1>1. TypeOK /\ SyncFits(s)
  BY DEF BookInvariant, SerialInvariant
<1>2. QED
  BY <1>1, BeginStep DEF SyncFits, dbVars

LEMMA LoadFits ==
  ASSUME BookInvariant, NEW s \in Sessions, LoadAccounts(s)
  PROVE  SyncFits(s)'
<1>1. TypeOK /\ SyncFits(s) /\ SyncAgrees(s)
  BY DEF BookInvariant, SerialInvariant
<1>2. /\ sync[s].pc = "begun" /\ sync'[s].pc = "loaded" /\ sync'[s].listed = sync[s].listed
      /\ sync'[s].txns = sync[s].txns /\ sync'[s].added = sync[s].added
      /\ sync'[s].since = sync[s].since /\ sync'[s].status = sync[s].status
      /\ status' = status /\ lastSyncedAt' = lastSyncedAt
  BY <1>1, LoadStep DEF dbVars
<1>3. ASSUME NEW a \in Accounts
      PROVE  sync'[s].byExternal[a] # NoSession
               <=> sync'[s].loaded[a] # NoRow \/ sync'[s].listed[a] # NoRow
  <2> DEFINE by == sync'[s].byExternal[a]
  <2>1. /\ IF RowsFor(a) = {} THEN by = NoSession ELSE by \in RowsFor(a)
        /\ sync'[s].loaded[a] = IF by = NoSession THEN NoRow ELSE balance[<<a, by>>]
    BY <1>1, LoadStep
  <2>2. sync'[s].listed[a] = NoRow
    BY <1>1, <1>2 DEF SyncAgrees
  <2> HIDE DEF by
  <2>3. by # NoSession => balance[<<a, by>>] # NoRow
    BY <2>1 DEF RowsFor
  <2>4. QED
    BY <2>1, <2>2, <2>3 DEF by
<1>4. sync'[s].added = {} /\ sync'[s].txns = {}
  BY <1>1, <1>2 DEF SyncFits
<1>5. QED
  BY <1>1, <1>2, <1>3, <1>4 DEF SyncFits

LEMMA ListFits ==
  ASSUME BookInvariant, NEW s \in Sessions, FetchAccounts(s)
  PROVE  SyncFits(s)'
<1>1. TypeOK /\ SyncFits(s) /\ SyncAgrees(s)
  BY DEF BookInvariant, SerialInvariant
<1>2. /\ sync[s].pc = "loaded" /\ sync'[s].pc = "listed" /\ sync'[s].loaded = sync[s].loaded
      /\ sync'[s].txns = sync[s].txns /\ sync'[s].added = sync[s].added
      /\ sync'[s].since = sync[s].since /\ sync'[s].status = sync[s].status
      /\ status' = status /\ lastSyncedAt' = lastSyncedAt
  BY <1>1, ListStep DEF dbVars
<1>3. ASSUME NEW a \in Accounts
      PROVE  sync'[s].byExternal[a] # NoSession
               <=> sync'[s].loaded[a] # NoRow \/ sync'[s].listed[a] # NoRow
  <2>1. /\ sync'[s].listed[a] = IF a \in open THEN BankBalance(a) ELSE NoRow
        /\ sync'[s].byExternal[a] = IF a \in open /\ sync[s].byExternal[a] = NoSession
                                    THEN s ELSE sync[s].byExternal[a]
    BY <1>1, ListStep
  <2>2. sync[s].listed[a] = NoRow
    BY <1>1, <1>2 DEF SyncAgrees
  <2>3. BankBalance(a) # NoRow /\ s # NoSession
    BY BankBalanceIsNat, SchedulerAssumption DEF NoRow
  <2>4. sync[s].byExternal[a] # NoSession <=> sync[s].loaded[a] # NoRow
    BY <1>1, <1>2, <2>2 DEF SyncFits
  <2>5. QED
    BY <1>2, <2>1, <2>3, <2>4
<1>4. sync'[s].added = {} /\ sync'[s].txns = {}
  BY <1>1, <1>2 DEF SyncFits
<1>5. QED
  BY <1>1, <1>2, <1>3, <1>4 DEF SyncFits

LEMMA FetchFits ==
  ASSUME BookInvariant, NEW s \in Sessions, FetchTransactions(s)
  PROVE  SyncFits(s)'
<1>1. TypeOK /\ SyncFits(s)
  BY DEF BookInvariant, SerialInvariant
<1>2. QED
  BY <1>1, FetchStep DEF SyncFits, dbVars

LEMMA ReadFits ==
  ASSUME BookInvariant, NEW s \in Sessions, ReadHeld(s)
  PROVE  SyncFits(s)'
<1>1. TypeOK /\ SyncFits(s)
  BY DEF BookInvariant, SerialInvariant
<1>2. /\ sync[s].pc = "fetched" /\ sync'[s].pc = "resolved"
      /\ sync'[s].byExternal = sync[s].byExternal
      /\ sync'[s].loaded = sync[s].loaded /\ sync'[s].listed = sync[s].listed
      /\ sync'[s].since = sync[s].since /\ sync'[s].status = sync[s].status
      /\ status' = status /\ lastSyncedAt' = lastSyncedAt
  BY <1>1, ReadStep DEF dbVars
<1>3. \A r \in sync'[s].added : sync[s].byExternal[AccountOf[r.charge]] # NoSession
  <2>1. PICK new \in SUBSET Resolved(s) : sync'[s].added = {RowFor(s, c) : c \in new}
    BY <1>1, ReadStep
  <2>2. QED
    BY <2>1 DEF RowFor, Resolved, Known
<1>4. QED
  BY <1>1, <1>2, <1>3 DEF SyncFits

LEMMA EndFits ==
  ASSUME BookInvariant, NEW s \in Sessions, Commit(s) \/ FailSync(s) \/ Abort(s)
  PROVE  SyncFits(s)'
<1>1. sync'[s] = IdleSync
  BY EndStep DEF BookInvariant, SerialInvariant
<1>2. QED
  BY <1>1 DEF SyncFits, IdleSync

LEMMA BookInductive ==
  ASSUME OneAtATime, BookInvariant, [Next]_vars
  PROVE  BookInvariant'
<1>1. NoDoublesInvariant' /\ SerialInvariant'
  BY NoDoublesInductive, SerialInductive DEF BookInvariant
<1>2. \A s \in Sessions : SyncFits(s)'
  <2>1. ASSUME NEW s \in Sessions, SyncStep(s) \/ FailSync(s) \/ Abort(s)
        PROVE  \A u \in Sessions : SyncFits(u)'
    <3>1. SyncFits(s)'
      BY <2>1, BeginFits, LoadFits, ListFits, FetchFits, ReadFits, EndFits DEF SyncStep
    <3>2. QED
      BY <3>1 DEF OneAtATime
  <2>2. CASE \/ Tick \/ \E a \in Accounts : OpenAccount(a)
             \/ \E c \in Charges : Post(c) \/ Reissue(c) \/ CreateTransaction(c)
             \/ \E r \in ledger : DeleteTransaction(r)
             \/ UNCHANGED vars
    <3>1. sync' = sync /\ status' = status /\ lastSyncedAt' = lastSyncedAt
      BY <2>2 DEF Tick, OpenAccount, Post, Reissue, CreateTransaction, DeleteTransaction, vars, dbVars
    <3>2. QED
      BY <3>1, FitsElsewhere DEF BookInvariant
  <2>3. QED
    BY <2>1, <2>2 DEF Next
<1>3. lastSyncedAt' <= now'
  <2>1. now \in Int /\ lastSyncedAt \in Int /\ now' \in Int
    BY <1>1, BoundsAssumption DEF BookInvariant, SerialInvariant, TypeOK, Time, Never
  <2>2. \/ lastSyncedAt' = lastSyncedAt /\ (now' = now \/ now' = now + 1)
        \/ lastSyncedAt' = now /\ now' = now
    BY DEF Next, SyncStep, Tick, OpenAccount, Post, Reissue, CreateTransaction, DeleteTransaction,
           Begin, LoadAccounts, FetchAccounts, FetchTransactions, ReadHeld, Commit, FailSync,
           Abort, vars, dbVars, bankVars
  <2>3. QED
    BY <2>1, <2>2 DEF BookInvariant
<1>4. QED
  BY <1>1, <1>2, <1>3 DEF BookInvariant

-------------------------------------------------------------------------------
(* The steps of BankSync are steps of BankLedger. *)

LEMMA OnlyScheduler ==
  ASSUME OneAtATime
  PROVE  \A s \in Sessions : s = Scheduler
BY SchedulerAssumption DEF OneAtATime

LEMMA StageIs ==
  /\ sync[Scheduler].pc = "fetched" => Stage = "told"
  /\ sync[Scheduler].pc = "resolved" => Stage = "decided"
  /\ sync[Scheduler].pc \notin {"fetched", "resolved"} => Stage = "quiet"
  /\ sync'[Scheduler].pc = "fetched" => Stage' = "told"
  /\ sync'[Scheduler].pc = "resolved" => Stage' = "decided"
  /\ sync'[Scheduler].pc \notin {"fetched", "resolved"} => Stage' = "quiet"
BY DEF Stage

\* A posted charge has a description, and those with the same one look alike.
LEMMA LooksAlike ==
  ASSUME TypeOK, NEW c \in Posted
  PROVE  Looks(c) \in Shapes /\ Alike(c) = {d \in Posted : Looks(d) = Looks(c)}
<1>1. c \in Charges /\ postedAt[c] \in Time /\ AccountOf[c] \in Accounts
  BY ChargesAssumption DEF Posted, TypeOK
<1>2. Looks(c) \in Shapes
  BY <1>1 DEF Looks, Shapes, DaysOfCharges, KindsOfCharges
<1>3. \A d \in Posted : Looks(d) = Looks(c) <=> /\ AccountOf[d] = AccountOf[c]
                                                /\ Day(postedAt[d]) = Day(postedAt[c])
                                                /\ KindOf[d] = KindOf[c]
  BY DEF Looks
<1>4. QED
  BY <1>2, <1>3 DEF Alike

LEMMA QuietPromise ==
  ASSUME postedAt' = postedAt, ledger' = ledger, balance' = balance,
         lastSyncedAt' = lastSyncedAt, status' = status, Stage' = Stage,
         Known(Scheduler)' = Known(Scheduler),
         sync'[Scheduler].added = sync[Scheduler].added
  PROVE  UNCHANGED Promise!vars
<1>1. Posted' = Posted /\ \A c : Looks(c)' = Looks(c)
  BY DEF Posted, Looks
<1>2. ChargeTally(Posted)' = ChargeTally(Posted)
  BY <1>1 DEF ChargeTally
<1>3. ChargeTally(Known(Scheduler))' = ChargeTally(Known(Scheduler))
  BY <1>1 DEF ChargeTally
<1>4. RowTally(sync[Scheduler].added)' = RowTally(sync[Scheduler].added)
  BY <1>1 DEF RowTally
<1>5. RowTally({r \in ledger : r.issue # NoId})' = RowTally({r \in ledger : r.issue # NoId})
  BY <1>1 DEF RowTally
<1>6. RowTally({r \in ledger : r.issue = NoId})' = RowTally({r \in ledger : r.issue = NoId})
  BY <1>1 DEF RowTally
<1>7. [a \in Accounts |-> BankBalance(a)]' = [a \in Accounts |-> BankBalance(a)]
  BY <1>1 DEF BankBalance
<1>8. QED
  BY <1>2, <1>3, <1>4, <1>5, <1>6, <1>7
  DEF Promise!vars, Promise!bankVars, Promise!syncVars, Promise!bookVars

LEMMA DayIsNat ==
  ASSUME NEW t \in Nat
  PROVE  Day(t) \in Nat
<1> DEFINE k == TicksPerDay
           p == t \div k
<1>1. k \in Nat /\ k > 0
  BY BoundsAssumption
<1>2. p \in Int /\ t = k * p + (t % k) /\ t % k \in 0 .. (k - 1)
  BY <1>1
<1>3. p >= 0
  <2> SUFFICES ASSUME p <= -1 PROVE FALSE
    BY <1>2
  <2> HIDE DEF p, k
  <2>1. -p - 1 \in Nat /\ k * (-p - 1) >= 0 /\ k * (-p - 1) \in Int
    BY <1>1, <1>2
  <2>2. k * p = -k - k * (-p - 1) /\ k * p \in Int
    BY <1>1, <1>2
  <2>3. QED
    BY <1>1, <1>2, <2>1, <2>2
<1>4. QED
  BY <1>2, <1>3 DEF Day

LEMMA DayMonotone ==
  ASSUME NEW t \in Nat, NEW u \in Nat, Day(t) < Day(u)
  PROVE  t < u
<1> DEFINE k == TicksPerDay
<1>1. k \in Nat /\ k > 0
  BY BoundsAssumption
<1>2. /\ t \div k \in Int /\ u \div k \in Int
      /\ t = k * (t \div k) + (t % k) /\ u = k * (u \div k) + (u % k)
      /\ t % k \in 0 .. (k - 1) /\ u % k \in 0 .. (k - 1)
  BY <1>1
<1>3. t \div k < u \div k
  BY DEF Day
<1> DEFINE p == t \div k
           q == u \div k
<1>4. k * p + k <= k * q
  <2>1. p + 1 <= q /\ p \in Int /\ q \in Int
    BY <1>2, <1>3
  <2> HIDE DEF p, q, k
  <2>2. q = p + 1 + (q - p - 1) /\ q - p - 1 \in Nat
    BY <2>1
  <2>3. k * (q - p - 1) >= 0
    BY <1>1, <2>2
  <2>4. k * q = k * p + k + k * (q - p - 1)
    BY <1>1, <2>1
  <2>5. k * q \in Int /\ k * p \in Int /\ k * (q - p - 1) \in Int
    BY <1>1, <2>1
  <2>6. QED
    BY <1>1, <2>3, <2>4, <2>5
<1>5. k * p \in Int /\ k * q \in Int
  BY <1>1, <1>2
<1> HIDE DEF p, q, k
<1>6. t = k * p + (t % k) /\ u = k * q + (u % k)
  BY <1>2 DEF p, q
<1>7. QED
  BY <1>1, <1>2, <1>4, <1>5, <1>6

\* A tally of posted charges is a number for each description.
LEMMA ChargeTallyType ==
  ASSUME NEW S \in SUBSET Posted, NEW x \in Shapes
  PROVE  /\ IsFiniteSet({c \in S : Looks(c) = x})
         /\ ChargeTally(S)[x] = Cardinality({c \in S : Looks(c) = x})
         /\ ChargeTally(S)[x] \in Nat
<1>1. {c \in S : Looks(c) = x} \in SUBSET Charges
  BY DEF Posted
<1>2. IsFiniteSet({c \in S : Looks(c) = x})
  BY <1>1, ChargesAssumption, FS_Subset
<1>3. QED
  BY <1>2, FS_CardinalityType DEF ChargeTally

LEMMA RowTallyType ==
  ASSUME NEW rows, IsFiniteSet(rows), NEW x \in Shapes
  PROVE  /\ IsFiniteSet({r \in rows : Looks(r.charge) = x})
         /\ RowTally(rows)[x] = Cardinality({r \in rows : Looks(r.charge) = x})
         /\ RowTally(rows)[x] \in Nat
<1>1. {r \in rows : Looks(r.charge) = x} \in SUBSET rows
  OBVIOUS
<1>2. IsFiniteSet({r \in rows : Looks(r.charge) = x})
  BY <1>1, FS_Subset
<1>3. QED
  BY <1>2, FS_CardinalityType DEF RowTally

\* The answer of the bank covers what it posted after the day of the last completed sync.
LEMMA FetchHears ==
  ASSUME OneAtATime, BookInvariant, FetchTransactions(Scheduler)
  PROVE  Promise!Hear
<1> DEFINE s == Scheduler
<1>1. /\ TypeOK /\ SyncFits(s) /\ SyncAgrees(s) /\ s \in Sessions
      /\ \A u \in Sessions : sync[u].txns \subseteq Posted
  BY SchedulerAssumption DEF BookInvariant, SerialInvariant, NoDoublesInvariant
<1>2. /\ UNCHANGED <<bankVars, dbVars>>
      /\ sync[s].pc = "listed" /\ sync'[s].pc = "fetched"
      /\ sync'[s].byExternal = sync[s].byExternal /\ sync'[s].txns = Statement(sync[s].since)
      /\ sync'[s].added = sync[s].added
  BY <1>1, FetchStep
<1>3. Posted' = Posted /\ \A c : Looks(c)' = Looks(c)
  BY <1>2 DEF bankVars, Posted, Looks
<1>4. Known(s)' = {c \in Statement(sync[s].since) : sync[s].byExternal[AccountOf[c]] # NoSession}
  BY <1>2 DEF Known
<1> DEFINE told == Known(s)'
<1>5. told \in SUBSET Posted
  BY <1>4 DEF Statement
<1> DEFINE heard == ChargeTally(told)
<1>6. ChargeTally(Known(s))' = heard
  BY <1>3 DEF ChargeTally
<1>7. heard \in [Shapes -> Nat]
  BY <1>5, ChargeTallyType DEF ChargeTally
<1>8. ASSUME NEW x \in Shapes PROVE heard[x] <= ChargeTally(Posted)[x]
  <2>1. {c \in told : Looks(c) = x} \in SUBSET {c \in Posted : Looks(c) = x}
    BY <1>5
  <2>2. /\ IsFiniteSet({c \in Posted : Looks(c) = x})
        /\ ChargeTally(Posted)[x] = Cardinality({c \in Posted : Looks(c) = x})
        /\ heard[x] = Cardinality({c \in told : Looks(c) = x})
    BY <1>5, ChargeTallyType
  <2>3. QED
    BY <2>1, <2>2, FS_Subset
<1>9. ASSUME NEW x \in Shapes, balance[<<x[1], s>>] # NoRow,
             x[2] > IF lastSyncedAt = Never THEN -1 ELSE Day(lastSyncedAt)
      PROVE  heard[x] = ChargeTally(Posted)[x]
  <2>1. ASSUME NEW c \in Posted, Looks(c) = x PROVE c \in told
    <3>1. AccountOf[c] = x[1] /\ Day(postedAt[c]) = x[2] /\ AccountOf[c] \in Accounts
      BY <2>1, ChargesAssumption DEF Looks, Posted
    <3>2. sync[s].byExternal[AccountOf[c]] # NoSession
      BY <1>1, <1>2, <1>9, <3>1 DEF SyncAgrees, SyncFits
    <3>3. postedAt[c] \in Nat /\ sync[s].since \in Nat
      BY <1>1 DEF TypeOK, SyncType, Time, Posted
    <3>4. postedAt[c] >= sync[s].since
      <4>1. CASE sync[s].since = 0
        BY <3>3, <4>1
      <4>2. CASE sync[s].since = lastSyncedAt
        <5>1. lastSyncedAt # Never
          BY <3>3, <4>2 DEF Never
        <5>2. Day(lastSyncedAt) < Day(postedAt[c])
          BY <1>9, <3>1, <3>3, <4>2, <5>1, BoundsAssumption DEF Day
        <5>3. QED
          BY <3>3, <4>2, <5>2, DayMonotone
      <4>3. QED
        BY <1>1, <1>2, <4>1, <4>2 DEF SyncFits
    <3>5. QED
      BY <1>4, <2>1, <3>2, <3>4 DEF Statement
  <2>2. {c \in told : Looks(c) = x} = {c \in Posted : Looks(c) = x}
    BY <1>5, <2>1
  <2>3. QED
    BY <1>5, <2>2, ChargeTallyType
<1>10. Stage = "quiet" /\ Stage' = "told"
  BY <1>2, StageIs
<1>11. /\ ChargeTally(Posted)' = ChargeTally(Posted)
       /\ [a \in Accounts |-> BankBalance(a)]' = [a \in Accounts |-> BankBalance(a)]
       /\ RowTally(sync[Scheduler].added)' = RowTally(sync[Scheduler].added)
       /\ RowTally({r \in ledger : r.issue # NoId})' = RowTally({r \in ledger : r.issue # NoId})
       /\ RowTally({r \in ledger : r.issue = NoId})' = RowTally({r \in ledger : r.issue = NoId})
  BY <1>2, <1>3 DEF ChargeTally, RowTally, BankBalance, dbVars
<1>12. balance' = balance /\ lastSyncedAt' = lastSyncedAt /\ status' = status
  BY <1>2 DEF dbVars
<1>13. \A x \in Shapes : x[1] \in Accounts
  BY DEF Shapes
<1> HIDE DEF heard, told
<1>14. \A x \in Shapes :
          /\ heard[x] <= ChargeTally(Posted)[x]
          /\ /\ [a \in Accounts |-> balance[<<a, Scheduler>>]][x[1]] # NoRow
             /\ x[2] > IF lastSyncedAt = Never THEN -1 ELSE Day(lastSyncedAt)
             => heard[x] = ChargeTally(Posted)[x]
  BY <1>8, <1>9, <1>13
<1>15. QED
  BY <1>6, <1>7, <1>10, <1>11, <1>12, <1>14
  DEF Promise!Hear, Promise!bankVars, Promise!bookVars, Promise!Shapes, Shapes, Promise!NoRow, NoRow

\* Imported rows and rows typed in are all the rows there are.
LEMMA TwoTallies ==
  ASSUME NEW rows, IsFiniteSet(rows), NEW x \in Shapes
  PROVE  RowTally({r \in rows : r.issue # NoId})[x] + RowTally({r \in rows : r.issue = NoId})[x]
           = Cardinality({r \in rows : Looks(r.charge) = x})
<1> DEFINE I == {r \in {q \in rows : q.issue # NoId} : Looks(r.charge) = x}
           T == {r \in {q \in rows : q.issue = NoId} : Looks(r.charge) = x}
<1>1. {q \in rows : q.issue # NoId} \in SUBSET rows /\ {q \in rows : q.issue = NoId} \in SUBSET rows
  OBVIOUS
<1>2. IsFiniteSet({q \in rows : q.issue # NoId}) /\ IsFiniteSet({q \in rows : q.issue = NoId})
  BY <1>1, FS_Subset
<1>3. /\ IsFiniteSet(I) /\ RowTally({r \in rows : r.issue # NoId})[x] = Cardinality(I)
      /\ IsFiniteSet(T) /\ RowTally({r \in rows : r.issue = NoId})[x] = Cardinality(T)
      /\ Cardinality(I) \in Nat /\ Cardinality(T) \in Nat
  BY <1>2, RowTallyType, FS_CardinalityType
<1>4. I \cap T = {} /\ I \cup T = {r \in rows : Looks(r.charge) = x}
  OBVIOUS
<1> HIDE DEF I, T
<1>5. Cardinality(I \cup T) = Cardinality(I) + Cardinality(T) - Cardinality(I \cap T)
  BY <1>3, FS_Union
<1>6. Cardinality(I \cap T) = 0
  BY <1>4, FS_EmptySet
<1>7. Cardinality(I \cup T) = Cardinality(I) + Cardinality(T)
  BY <1>3, <1>5, <1>6
<1>8. QED
  BY <1>3, <1>4, <1>7

\* The rows a session is to insert are as many of each description as the charges they are for.
LEMMA AddedTally ==
  ASSUME NEW s \in Sessions, NEW new \in SUBSET Posted, NEW x \in Shapes
  PROVE  RowTally({RowFor(s, c) : c \in new})[x] = Cardinality({c \in new : Looks(c) = x})
<1> DEFINE N == {c \in new : Looks(c) = x}
           F == {r \in {RowFor(s, c) : c \in new} : Looks(r.charge) = x}
           f == [c \in N |-> RowFor(s, c)]
<1>1. \A c : RowFor(s, c).charge = c
  BY DEF RowFor
<1>2. IsFiniteSet(N)
  <2>1. N \in SUBSET Charges
    BY DEF Posted
  <2>2. QED
    BY <2>1, ChargesAssumption, FS_Subset
<1>3. f \in Bijection(N, F)
  <2>1. \A c \in N : RowFor(s, c) \in F
    BY <1>1
  <2>2. \A r \in F : \E c \in N : r = RowFor(s, c)
    BY <1>1
  <2> HIDE DEF N, F
  <2>3. f \in Surjection(N, F)
    BY <2>1, <2>2 DEF Surjection
  <2>4. f \in Injection(N, F)
    <3>1. f \in [N -> F] /\ \A a, b \in N : f[a] = f[b] => a = b
      BY <1>1, <2>1
    <3>2. QED
      BY <3>1 DEF Injection, IsInjective
  <2>5. QED
    BY <2>3, <2>4 DEF Bijection
<1>4. ExistsBijection(N, F)
  BY <1>3 DEF ExistsBijection
<1>5. Cardinality(F) = Cardinality(N)
  BY <1>2, <1>4, FS_Bijection
<1>6. QED
  BY <1>5 DEF RowTally

\* Matching by id first and counting look-alikes after adds exactly what is missing, as if
\* there were no ids: of w charges no row matches by id and m that one does, with h rows held,
\* w - max(0, h - m) are added, which is max(0, w + m - h).
LEMMA SurplusIsMissing ==
  ASSUME OneAtATime, BookInvariant, NEW s \in Sessions, NEW c \in Resolved(s)
  PROVE  LET told == Cardinality({d \in Known(s) : Looks(d) = Looks(c)})
             held == Cardinality({r \in ledger : Looks(r.charge) = Looks(c)})
         IN  Surplus(s, c) = IF told <= held THEN 0 ELSE told - held
<1> DEFINE H == {r \in ledger : Looks(r.charge) = Looks(c)}
           T == {d \in Known(s) : Looks(d) = Looks(c)}
           K == Resolved(s) \cap Alike(c)
           M == Seen(s) \cap Alike(c)
<1>1. /\ TypeOK /\ IsFiniteSet(ledger) /\ LedgerFinite
      /\ \A r \in ledger : GenuineRow(r)
      /\ c \in Posted /\ c \in Charges /\ Known(s) \in SUBSET Posted
  BY DEF BookInvariant, NoDoublesInvariant, LedgerFinite, Resolved, Known, Posted
<1>2. Alike(c) = {d \in Posted : Looks(d) = Looks(c)}
  BY <1>1, LooksAlike
<1>3. H = HeldRows(s, c)
  <2>1. ASSUME NEW r \in ledger PROVE r.account = Target(s, AccountOf[c]) <=> AccountOf[r.charge] = AccountOf[c]
    <3>1. r.account \in AccountRows /\ r.account[1] = AccountOf[r.charge]
      BY <1>1 DEF TypeOK, Rows, GenuineRow
    <3>2. r.account = <<r.account[1], s>>
      BY <3>1 DEF AccountRows, OneAtATime
    <3>3. sync[s].byExternal[AccountOf[c]] = s
      <4>1. /\ sync[s].byExternal[AccountOf[c]] \in Sessions \cup {NoSession}
            /\ sync[s].byExternal[AccountOf[c]] # NoSession
        BY <1>1, ChargesAssumption DEF TypeOK, SyncType, Resolved, Known
      <4>2. QED
        BY <4>1 DEF OneAtATime
    <3>4. QED
      BY <3>1, <3>2, <3>3 DEF Target
  <2>2. ASSUME NEW r \in ledger PROVE Looks(r.charge) = Looks(c) <=> r.charge \in Alike(c)
    BY <1>1, <1>2 DEF GenuineRow
  <2>3. \A r \in ledger : r.charge \in Alike(c) => AccountOf[r.charge] = AccountOf[c]
    BY DEF Alike
  <2>4. QED
    BY <2>1, <2>2, <2>3 DEF HeldRows
<1>4. /\ IsFiniteSet(H) /\ Cardinality(H) \in Nat /\ IsFiniteSet(M) /\ Cardinality(M) \in Nat
      /\ Cardinality(M) <= Cardinality(H)
  BY <1>1, <1>3, SeenAreHeld, FS_CardinalityType
<1>5. IsFiniteSet(K) /\ Cardinality(K) \in Nat
  <2>1. K \in SUBSET Alike(c)
    OBVIOUS
  <2>2. QED
    BY <1>1, <2>1, AlikeFinite, FS_Subset, FS_CardinalityType
<1>6. T = K \cup M /\ K \cap M = {}
  BY <1>1, <1>2 DEF Resolved, Seen
<1> HIDE DEF H, T, K, M
<1>7. Cardinality(T) = Cardinality(K) + Cardinality(M)
  <2>1. Cardinality(K \cup M) = Cardinality(K) + Cardinality(M) - Cardinality(K \cap M)
    BY <1>4, <1>5, FS_Union
  <2>2. Cardinality(K \cap M) = 0
    BY <1>6, FS_EmptySet
  <2>3. QED
    BY <1>4, <1>5, <1>6, <2>1, <2>2
<1>8. Held(s, c) = Cardinality(H) - Cardinality(M)
  BY <1>3 DEF Held, M
<1>9. Surplus(s, c) = IF Held(s, c) <= 0 THEN Cardinality(K)
                      ELSE IF Held(s, c) >= Cardinality(K) THEN 0
                      ELSE Cardinality(K) - Held(s, c)
  BY DEF Surplus, K
<1>10. Surplus(s, c) = IF Cardinality(T) <= Cardinality(H) THEN 0
                       ELSE Cardinality(T) - Cardinality(H)
  BY <1>4, <1>5, <1>7, <1>8, <1>9
<1>11. QED
  BY <1>10 DEF T, H

LEMMA ReadDecides ==
  ASSUME OneAtATime, BookInvariant, ReadHeld(Scheduler)
  PROVE  Promise!Decide
<1> DEFINE s == Scheduler
           I == RowTally({r \in ledger : r.issue # NoId})
           T == RowTally({r \in ledger : r.issue = NoId})
           R == ChargeTally(Known(s))
           Added == sync'[s].added
<1>1. /\ TypeOK /\ s \in Sessions /\ IsFiniteSet(ledger)
      /\ Known(s) \in SUBSET Posted
  BY SchedulerAssumption DEF BookInvariant, NoDoublesInvariant, Known
<1>2. /\ UNCHANGED <<bankVars, dbVars>>
      /\ sync[s].pc = "fetched" /\ sync'[s].pc = "resolved"
      /\ sync'[s].byExternal = sync[s].byExternal /\ sync'[s].txns = sync[s].txns
  BY <1>1, ReadStep
<1>3. PICK new \in SUBSET Resolved(s) :
        /\ \A c \in Resolved(s) : Cardinality(new \cap Alike(c)) = Surplus(s, c)
        /\ Added = {RowFor(s, c) : c \in new}
  BY <1>1, ReadStep
<1>4. new \in SUBSET Posted /\ new \in SUBSET Known(s)
  BY <1>1 DEF Resolved
<1>5. Posted' = Posted /\ \A c : Looks(c)' = Looks(c)
  BY <1>2 DEF bankVars, Posted, Looks
<1>6. ASSUME NEW x \in Shapes
      PROVE  RowTally(Added)[x] = IF R[x] <= I[x] + T[x] THEN 0 ELSE R[x] - (I[x] + T[x])
  <2> DEFINE told == Cardinality({d \in Known(s) : Looks(d) = x})
             held == Cardinality({r \in ledger : Looks(r.charge) = x})
  <2>1. R[x] = told /\ told \in Nat /\ IsFiniteSet({d \in Known(s) : Looks(d) = x})
    BY <1>1, ChargeTallyType
  <2>2. I[x] + T[x] = held /\ held \in Nat
    BY <1>1, TwoTallies, RowTallyType
  <2>3. RowTally(Added)[x] = Cardinality({c \in new : Looks(c) = x})
    <3>1. RowTally({RowFor(s, c) : c \in new})[x] = Cardinality({c \in new : Looks(c) = x})
      BY <1>1, <1>4, AddedTally
    <3> HIDE DEF Added
    <3>2. QED
      BY <1>3, <3>1
  <2> HIDE DEF R, I, T, Added
  <2>4. Cardinality({c \in new : Looks(c) = x}) = IF told <= held THEN 0 ELSE told - held
    <3>1. CASE \E c \in Resolved(s) : Looks(c) = x
      <4>1. PICK c \in Resolved(s) : Looks(c) = x
        BY <3>1
      <4>2. c \in Posted /\ Alike(c) = {d \in Posted : Looks(d) = x}
        BY <1>1, <4>1, LooksAlike DEF Resolved
      <4>3. new \cap Alike(c) = {d \in new : Looks(d) = x}
        BY <1>4, <4>2
      <4>4. Surplus(s, c) = IF told <= held THEN 0 ELSE told - held
        BY <1>1, <4>1, SurplusIsMissing
      <4>5. QED
        BY <1>3, <4>3, <4>4
    <3>2. CASE ~ \E c \in Resolved(s) : Looks(c) = x
      <4>1. {c \in new : Looks(c) = x} = {}
        BY <3>2
      <4>2. told <= held
        <5>1. CASE {d \in Known(s) : Looks(d) = x} = {}
          <6>1. told = 0
            BY <5>1, FS_EmptySet
          <6> HIDE DEF told, held
          <6>2. QED
            BY <2>2, <6>1
        <5>2. CASE {d \in Known(s) : Looks(d) = x} # {}
          <6>1. PICK c \in Known(s) : Looks(c) = x
            BY <5>2
          <6>2. c \in Posted /\ c \in Charges /\ Alike(c) = {d \in Posted : Looks(d) = x}
            BY <1>1, <6>1, LooksAlike DEF Posted
          <6>3. {d \in Known(s) : Looks(d) = x} = Seen(s) \cap Alike(c)
            BY <1>1, <3>2, <6>2 DEF Resolved, Seen
          <6>4. /\ Cardinality(Seen(s) \cap Alike(c)) <= Cardinality(HeldRows(s, c))
                /\ IsFiniteSet(HeldRows(s, c))
            BY <1>1, <6>2, SeenAreHeld DEF BookInvariant, NoDoublesInvariant, LedgerFinite
          <6>5. HeldRows(s, c) \in SUBSET {r \in ledger : Looks(r.charge) = x}
            BY <6>2 DEF HeldRows
          <6>6. IsFiniteSet({r \in ledger : Looks(r.charge) = x})
            BY <1>1, RowTallyType
          <6>7. Cardinality(HeldRows(s, c)) <= held /\ Cardinality(HeldRows(s, c)) \in Nat
            BY <6>4, <6>5, <6>6, FS_Subset, FS_CardinalityType
          <6>8. told <= Cardinality(HeldRows(s, c))
            BY <6>3, <6>4
          <6> HIDE DEF told, held
          <6>9. QED
            BY <2>1, <2>2, <6>7, <6>8
        <5>3. QED
          BY <5>1, <5>2
      <4>3. Cardinality({c \in new : Looks(c) = x}) = 0
        BY <4>1, FS_EmptySet
      <4>4. QED
        BY <4>2, <4>3
    <3>3. QED
      BY <3>1, <3>2
  <2>5. QED
    BY <2>1, <2>2, <2>3, <2>4
<1>7. RowTally(sync[s].added)' = [x \in Shapes |-> IF R[x] <= I[x] + T[x] THEN 0
                                                   ELSE R[x] - (I[x] + T[x])]
  <2>1. RowTally(sync[s].added)' = RowTally(Added)
    BY <1>5 DEF RowTally
  <2>2. RowTally(Added) = [x \in Shapes |-> RowTally(Added)[x]]
    BY DEF RowTally
  <2> HIDE DEF Added, R, I, T
  <2>3. QED
    BY <1>6, <2>1, <2>2
<1>8. Stage = "told" /\ Stage' = "decided"
  BY <1>2, StageIs
<1>9. Known(s)' = Known(s)
  BY <1>2 DEF Known
<1>10. /\ ChargeTally(Posted)' = ChargeTally(Posted)
       /\ ChargeTally(Known(s))' = R
       /\ [a \in Accounts |-> BankBalance(a)]' = [a \in Accounts |-> BankBalance(a)]
       /\ RowTally({r \in ledger : r.issue # NoId})' = I
       /\ RowTally({r \in ledger : r.issue = NoId})' = T
  BY <1>2, <1>5, <1>9 DEF ChargeTally, RowTally, BankBalance, dbVars
<1>11. balance' = balance /\ lastSyncedAt' = lastSyncedAt /\ status' = status
  BY <1>2 DEF dbVars
<1>12. QED
  BY <1>7, <1>8, <1>10, <1>11
  DEF Promise!Decide, Promise!Missing, Promise!bankVars, Promise!bookVars, Promise!Shapes, Shapes

\* When a sync ends nothing is left of what the bank told it and of what it was to add.
LEMMA EndForgets ==
  ASSUME TypeOK, Commit(Scheduler) \/ FailSync(Scheduler) \/ Abort(Scheduler)
  PROVE  Promise!Forget
<1> DEFINE s == Scheduler
<1>1. sync'[s].pc = "idle" /\ sync'[s].txns = {} /\ sync'[s].added = {}
  BY SchedulerAssumption, EndStep DEF IdleSync
<1>2. Stage' = "quiet"
  BY <1>1, StageIs
<1>3. Known(s)' = {}
  BY <1>1 DEF Known
<1>4. /\ ChargeTally(Known(s))' = [x \in Shapes |-> 0]
      /\ RowTally(sync[s].added)' = [x \in Shapes |-> 0]
  BY <1>1, <1>3, FS_EmptySet DEF ChargeTally, RowTally
<1>5. QED
  BY <1>2, <1>4 DEF Promise!Forget, Promise!Nothing, Promise!Shapes, Shapes

\* What a session flushes is, account by account, the bank's balance or what was there.
LEMMA FlushRefreshes ==
  ASSUME OneAtATime, BookInvariant, balance' = FlushedBalance(Scheduler)
  PROVE  Promise!Refresh
<1> DEFINE old == [a \in Accounts |-> balance[<<a, Scheduler>>]]
           new == [a \in Accounts |-> balance'[<<a, Scheduler>>]]
<1>1. \A a \in Accounts : <<a, Scheduler>> \in AccountRows /\ <<a, Scheduler>>[1] = a
  BY SchedulerAssumption DEF AccountRows
<1>2. \A a \in Accounts : /\ new[a] >= old[a] /\ new[a] <= BankBalance(a)
                          /\ old[a] \in Int /\ BankBalance(a) \in Int
  BY <1>1, FlushRises, BankBalanceIsNat, SchedulerAssumption
  DEF BookInvariant, SerialInvariant, TypeOK
<1>3. \A a \in Accounts : new[a] \in Int
  <2> SUFFICES ASSUME NEW a \in Accounts PROVE balance'[<<a, Scheduler>>] \in Int
    OBVIOUS
  <2>1. FlushedBalance(Scheduler)[<<a, Scheduler>>] \in {sync[Scheduler].listed[a], balance[<<a, Scheduler>>]}
    BY <1>1 DEF FlushedBalance
  <2>2. sync[Scheduler].listed[a] \in Int /\ balance[<<a, Scheduler>>] \in Int
    BY <1>1, SchedulerAssumption DEF BookInvariant, SerialInvariant, TypeOK, SyncType
  <2>3. QED
    BY <2>1, <2>2
<1>4. \A a \in Accounts : old[a] <= new[a] /\ new[a] <= [b \in Accounts |-> BankBalance(b)][a]
  BY <1>2, <1>3
<1>5. new \in [Accounts -> Int]
  BY <1>3
<1>6. QED
  BY <1>4, <1>5 DEF Promise!Refresh

\* The rows a commit inserts are new, so the tallies add up.
LEMMA InsertTally ==
  ASSUME NEW rows, NEW more, IsFiniteSet(rows), IsFiniteSet(more), rows \cap more = {},
         \A r \in more : r.issue # NoId, NEW x \in Shapes
  PROVE  /\ RowTally({r \in rows \cup more : r.issue # NoId})[x]
              = RowTally({r \in rows : r.issue # NoId})[x] + RowTally(more)[x]
         /\ {r \in rows \cup more : r.issue = NoId} = {r \in rows : r.issue = NoId}
<1> DEFINE old == {r \in rows : r.issue # NoId}
           A == {r \in old : Looks(r.charge) = x}
           B == {r \in more : Looks(r.charge) = x}
<1>1. old \in SUBSET rows
  OBVIOUS
<1>2. IsFiniteSet(old)
  BY <1>1, FS_Subset
<1>3. {r \in rows \cup more : r.issue # NoId} = old \cup more
  OBVIOUS
<1>4. {r \in old \cup more : Looks(r.charge) = x} = A \cup B /\ A \cap B = {}
  BY <1>1
<1>5. /\ RowTally(old)[x] = Cardinality(A) /\ IsFiniteSet(A) /\ Cardinality(A) \in Nat
      /\ RowTally(more)[x] = Cardinality(B) /\ IsFiniteSet(B) /\ Cardinality(B) \in Nat
  BY <1>2, RowTallyType, FS_CardinalityType
<1>6. RowTally(old \cup more)[x] = Cardinality({r \in old \cup more : Looks(r.charge) = x})
  BY DEF RowTally
<1> HIDE DEF A, B
<1>7. Cardinality(A \cup B) = Cardinality(A) + Cardinality(B)
  <2>1. Cardinality(A \cup B) = Cardinality(A) + Cardinality(B) - Cardinality(A \cap B)
    BY <1>5, FS_Union
  <2>2. Cardinality(A \cap B) = 0
    BY <1>4, FS_EmptySet
  <2>3. QED
    BY <1>5, <2>1, <2>2
<1>8. RowTally(old \cup more)[x] = RowTally(old)[x] + RowTally(more)[x]
  BY <1>4, <1>5, <1>6, <1>7
<1>9. {r \in rows \cup more : r.issue = NoId} = {r \in rows : r.issue = NoId}
  OBVIOUS
<1> HIDE DEF old
<1>10. QED
  BY <1>3, <1>8, <1>9 DEF old

\* Whoever has rows to add has the account they belong to, and writes it with them.
LEMMA RowsHaveAccounts ==
  ASSUME OneAtATime, BookInvariant, sync[Scheduler].pc = "resolved",
         NEW r \in sync[Scheduler].added
  PROVE  FlushedBalance(Scheduler)[<<AccountOf[r.charge], Scheduler>>] # NoRow
<1> DEFINE s == Scheduler
           a == AccountOf[r.charge]
<1>1. /\ TypeOK /\ SyncFits(s) /\ SyncAgrees(s) /\ s \in Sessions /\ GenuineRow(r)
  BY SchedulerAssumption DEF BookInvariant, SerialInvariant, NoDoublesInvariant
<1>2. a \in Accounts /\ <<a, s>> \in AccountRows /\ <<a, s>>[1] = a
  BY <1>1, ChargesAssumption DEF GenuineRow, Posted, AccountRows
<1> HIDE DEF a
<1>3. sync[s].byExternal[a] # NoSession
  BY <1>1 DEF SyncFits, a
<1>4. sync[s].loaded[a] # NoRow \/ sync[s].listed[a] # NoRow
  BY <1>1, <1>2, <1>3 DEF SyncFits
<1>5. sync[s].byExternal[a] = s /\ Target(s, a) = <<a, s>>
  <2>1. sync[s].byExternal[a] \in Sessions \cup {NoSession}
    BY <1>1, <1>2 DEF TypeOK, SyncType
  <2>2. QED
    BY <1>1, <1>3, <2>1 DEF OneAtATime, Target
<1>6. sync[s].loaded[a] = balance[<<a, s>>]
  BY <1>1, <1>2 DEF SyncAgrees
<1>7. FlushedBalance(s)[<<a, s>>] = IF <<a, s>> \in DirtyRows(s) \cup CreatedRows(s)
                                    THEN sync[s].listed[a] ELSE balance[<<a, s>>]
  BY <1>2 DEF FlushedBalance
<1>8. CASE <<a, s>> \in DirtyRows(s) \cup CreatedRows(s)
  <2>1. PICK b \in Accounts : Target(s, b) = <<a, s>> /\ sync[s].listed[b] # NoRow
    BY <1>8 DEF DirtyRows, CreatedRows
  <2>2. b = a
    BY <2>1 DEF Target
  <2>3. QED
    BY <1>7, <1>8, <2>1, <2>2 DEF a
<1>9. CASE <<a, s>> \notin DirtyRows(s) \cup CreatedRows(s)
  <2>1. sync[s].loaded[a] # NoRow
    BY <1>2, <1>4, <1>5, <1>9 DEF CreatedRows
  <2>2. QED
    BY <1>6, <1>7, <1>9, <2>1 DEF a
<1>10. QED
  BY <1>8, <1>9

LEMMA CommitCompletes ==
  ASSUME OneAtATime, BookInvariant, BookInvariant', Commit(Scheduler)
  PROVE  Promise!Complete
<1> DEFINE s == Scheduler
           I == RowTally({r \in ledger : r.issue # NoId})
           P == RowTally(sync[s].added)
<1>1. /\ TypeOK /\ SyncFits(s) /\ SyncAgrees(s) /\ s \in Sessions /\ sync[s] \in SyncType
      /\ IsFiniteSet(ledger) /\ IsFiniteSet(sync[s].added)
      /\ \A r \in sync[s].added : GenuineRow(r)
  BY SchedulerAssumption DEF BookInvariant, SerialInvariant, NoDoublesInvariant, TypeOK
<1>2. /\ sync[s].pc = "resolved" /\ balance' = FlushedBalance(s)
      /\ ledger' = ledger \cup sync[s].added /\ lastSyncedAt' = now
      /\ status' = FlushedStatus(s, "active") /\ postedAt' = postedAt
  BY DEF Commit, bankVars
<1>3. Posted' = Posted /\ \A c : Looks(c)' = Looks(c)
  BY <1>2 DEF Posted, Looks
<1>4. Stage = "decided"
  BY <1>2, StageIs
<1>5. status' = "active"
  BY <1>1, <1>2 DEF FlushedStatus, SyncFits
<1>6. ledger \cap sync[s].added = {} /\ \A r \in sync[s].added : r.issue # NoId
  BY <1>1 DEF SyncAgrees
<1>7. \A x \in Shapes :
         /\ RowTally({r \in ledger' : r.issue # NoId})[x] = I[x] + P[x]
         /\ {r \in ledger' : r.issue = NoId} = {r \in ledger : r.issue = NoId}
  <2> SUFFICES ASSUME NEW x \in Shapes
               PROVE  /\ RowTally({r \in ledger' : r.issue # NoId})[x] = I[x] + P[x]
                      /\ {r \in ledger' : r.issue = NoId} = {r \in ledger : r.issue = NoId}
    OBVIOUS
  <2> DEFINE more == sync[s].added
  <2>1. IsFiniteSet(more) /\ ledger \cap more = {} /\ \A r \in more : r.issue # NoId
    BY <1>1, <1>6
  <2> HIDE DEF more
  <2>2. /\ RowTally({r \in ledger \cup more : r.issue # NoId})[x] = I[x] + RowTally(more)[x]
        /\ {r \in ledger \cup more : r.issue = NoId} = {r \in ledger : r.issue = NoId}
    BY <1>1, <2>1, InsertTally
  <2>3. QED
    BY <1>2, <2>2 DEF more
<1>8. /\ RowTally({r \in ledger : r.issue # NoId})' = RowTally({r \in ledger' : r.issue # NoId})
      /\ RowTally({r \in ledger : r.issue = NoId})' = RowTally({r \in ledger' : r.issue = NoId})
      /\ RowTally({r \in ledger' : r.issue # NoId})
           = [x \in Shapes |-> RowTally({r \in ledger' : r.issue # NoId})[x]]
  BY <1>3 DEF RowTally
<1>9. {r \in ledger' : r.issue = NoId} = {r \in ledger : r.issue = NoId}
  BY <1>2, <1>6
<1>10. RowTally({r \in ledger : r.issue # NoId})' = [x \in Shapes |-> I[x] + P[x]]
  <2> HIDE DEF I, P
  <2>1. QED
    BY <1>7, <1>8
<1>11. ASSUME NEW x \in Shapes, P[x] > 0
       PROVE  balance'[<<x[1], s>>] # NoRow
  <2>1. P[x] = Cardinality({r \in sync[s].added : Looks(r.charge) = x})
    BY <1>1, RowTallyType
  <2>2. {r \in sync[s].added : Looks(r.charge) = x} # {}
    BY <1>11, <2>1, FS_EmptySet
  <2>3. PICK r \in sync[s].added : Looks(r.charge) = x
    BY <2>2
  <2>4. AccountOf[r.charge] = x[1]
    BY <2>3 DEF Looks
  <2>5. QED
    BY <1>2, <2>4, RowsHaveAccounts
<1>12. (IF lastSyncedAt' = Never THEN -1 ELSE Day(lastSyncedAt'))
         >= (IF lastSyncedAt = Never THEN -1 ELSE Day(lastSyncedAt))
  <2>1. lastSyncedAt' \in Nat /\ lastSyncedAt' # Never
    BY <1>1, <1>2, BoundsAssumption DEF TypeOK, Time, Never
  <2>2. Day(lastSyncedAt') \in Nat
    BY <2>1, DayIsNat
  <2>3. CASE lastSyncedAt = Never
    BY <2>1, <2>2, <2>3
  <2>4. CASE lastSyncedAt # Never
    <3>1. lastSyncedAt \in Nat /\ lastSyncedAt <= lastSyncedAt'
      BY <1>1, <1>2, <2>4 DEF BookInvariant, TypeOK, Time
    <3>2. ~ (Day(lastSyncedAt') < Day(lastSyncedAt))
      BY <2>1, <3>1, DayMonotone
    <3>3. Day(lastSyncedAt) \in Nat
      BY <3>1, DayIsNat
    <3>4. QED
      BY <2>1, <2>2, <2>4, <3>2, <3>3
  <2>5. QED
    BY <2>3, <2>4
<1>13. Promise!Refresh /\ Promise!Forget
  BY <1>1, <1>2, FlushRefreshes, EndForgets
<1>14. /\ ChargeTally(Posted)' = ChargeTally(Posted)
       /\ [a \in Accounts |-> BankBalance(a)]' = [a \in Accounts |-> BankBalance(a)]
  BY <1>3 DEF ChargeTally, BankBalance
<1>15. \A x \in Shapes : P[x] > 0 => [a \in Accounts |-> balance'[<<a, Scheduler>>]][x[1]] # NoRow
  <2>1. \A x \in Shapes : x[1] \in Accounts
    BY DEF Shapes
  <2> HIDE DEF P
  <2>2. QED
    BY <1>11, <2>1
<1>16. (IF lastSyncedAt = Never THEN -1 ELSE Day(lastSyncedAt))'
         = IF lastSyncedAt' = Never THEN -1 ELSE Day(lastSyncedAt')
  BY DEF Day
<1>17. QED
  BY <1>4, <1>5, <1>8, <1>9, <1>10, <1>12, <1>13, <1>14, <1>15, <1>16
  DEF Promise!Complete, Promise!bankVars, Promise!Shapes, Shapes, Promise!NoRow, NoRow

LEMMA FailFails ==
  ASSUME OneAtATime, BookInvariant, FailSync(Scheduler)
  PROVE  Promise!Fail
<1> DEFINE s == Scheduler
<1>1. /\ TypeOK /\ SyncFits(s) /\ s \in Sessions /\ sync[s] \in SyncType
  BY SchedulerAssumption DEF BookInvariant, SerialInvariant, NoDoublesInvariant, TypeOK
<1>2. /\ sync[s].pc \in {"loaded", "listed"} /\ balance' = FlushedBalance(s)
      /\ ledger' = ledger /\ lastSyncedAt' = lastSyncedAt
      /\ status' = FlushedStatus(s, "error") /\ postedAt' = postedAt
  BY DEF FailSync
<1>3. Posted' = Posted /\ \A c : Looks(c)' = Looks(c)
  BY <1>2 DEF Posted, Looks
<1>4. status' = "error"
  BY <1>1, <1>2 DEF FlushedStatus, SyncFits
<1>5. sync[s].added = {} /\ sync[s].txns = {} /\ sync'[s].added = {} /\ sync'[s].txns = {}
      /\ sync'[s].pc = "idle"
  BY <1>1, <1>2, EndStep DEF SyncFits, IdleSync
<1>6. Stage = "quiet" /\ Stage' = "quiet"
  BY <1>2, <1>5, StageIs
<1>7. Known(s) = {} /\ Known(s)' = {}
  BY <1>5 DEF Known
<1>8. /\ ChargeTally(Posted)' = ChargeTally(Posted)
      /\ [a \in Accounts |-> BankBalance(a)]' = [a \in Accounts |-> BankBalance(a)]
      /\ ChargeTally(Known(s))' = ChargeTally(Known(s))
      /\ RowTally(sync[s].added)' = RowTally(sync[s].added)
      /\ RowTally({r \in ledger : r.issue # NoId})' = RowTally({r \in ledger : r.issue # NoId})
      /\ RowTally({r \in ledger : r.issue = NoId})' = RowTally({r \in ledger : r.issue = NoId})
  BY <1>2, <1>3, <1>5, <1>7 DEF ChargeTally, RowTally, BankBalance
<1>9. Promise!Refresh
  BY <1>2, FlushRefreshes
<1>10. (IF lastSyncedAt = Never THEN -1 ELSE Day(lastSyncedAt))'
         = IF lastSyncedAt = Never THEN -1 ELSE Day(lastSyncedAt)
  BY <1>2 DEF Day
<1>11. QED
  BY <1>4, <1>6, <1>8, <1>9, <1>10
  DEF Promise!Fail, Promise!bankVars, Promise!syncVars

LEMMA AbortGivesUp ==
  ASSUME BookInvariant, Abort(Scheduler)
  PROVE  Promise!GiveUp
<1>1. /\ postedAt' = postedAt /\ ledger' = ledger /\ balance' = balance
      /\ lastSyncedAt' = lastSyncedAt /\ status' = status
  BY DEF Abort, dbVars
<1>2. Posted' = Posted /\ \A c : Looks(c)' = Looks(c)
  BY <1>1 DEF Posted, Looks
<1>3. Promise!Forget
  BY EndForgets DEF BookInvariant, SerialInvariant
<1>4. /\ ChargeTally(Posted)' = ChargeTally(Posted)
      /\ [a \in Accounts |-> BankBalance(a)]' = [a \in Accounts |-> BankBalance(a)]
      /\ RowTally({r \in ledger : r.issue # NoId})' = RowTally({r \in ledger : r.issue # NoId})
      /\ RowTally({r \in ledger : r.issue = NoId})' = RowTally({r \in ledger : r.issue = NoId})
  BY <1>1, <1>2 DEF ChargeTally, RowTally, BankBalance
<1>5. QED
  BY <1>1, <1>3, <1>4 DEF Promise!GiveUp, Promise!bankVars, Promise!bookVars

\* A row more, or a row less, of one description.
LEMMA OneRowMore ==
  ASSUME NEW rows, IsFiniteSet(rows), NEW r, r \notin rows, Looks(r.charge) \in Shapes
  PROVE  RowTally(rows \cup {r}) = [RowTally(rows) EXCEPT ![Looks(r.charge)] = @ + 1]
<1>1. ASSUME NEW x \in Shapes, x # Looks(r.charge)
      PROVE  RowTally(rows \cup {r})[x] = RowTally(rows)[x]
  <2>1. {q \in rows \cup {r} : Looks(q.charge) = x} = {q \in rows : Looks(q.charge) = x}
    BY <1>1
  <2>2. QED
    BY <2>1 DEF RowTally
<1>2. ASSUME NEW x \in Shapes, x = Looks(r.charge)
      PROVE  RowTally(rows \cup {r})[x] = RowTally(rows)[x] + 1
  <2> DEFINE A == {q \in rows : Looks(q.charge) = x}
  <2>1. {q \in rows \cup {r} : Looks(q.charge) = x} = A \cup {r} /\ r \notin A
    BY <1>2
  <2>2. IsFiniteSet(A) /\ RowTally(rows)[x] = Cardinality(A)
    BY RowTallyType
  <2>3. RowTally(rows \cup {r})[x] = Cardinality(A \cup {r})
    BY <2>1 DEF RowTally
  <2> HIDE DEF A
  <2>4. Cardinality(A \cup {r}) = Cardinality(A) + 1
    BY <2>1, <2>2, FS_AddElement
  <2>5. QED
    BY <2>2, <2>3, <2>4
<1>3. /\ DOMAIN RowTally(rows) = Shapes
      /\ RowTally(rows \cup {r}) = [x \in Shapes |-> RowTally(rows \cup {r})[x]]
      /\ RowTally(rows) = [x \in Shapes |-> RowTally(rows)[x]]
  BY DEF RowTally
<1>4. QED
  BY <1>1, <1>2, <1>3

\* A tally of rows, or of charges, that posted before does not change when another posts.
LEMMA TalliesStay ==
  ASSUME \A c \in Posted : Looks(c)' = Looks(c)
  PROVE  /\ \A S \in SUBSET Posted : \A x \in Shapes :
               {c \in S : Looks(c)' = x} = {c \in S : Looks(c) = x}
         /\ \A rows : (\A r \in rows : r.charge \in Posted) =>
               \A x \in Shapes : {r \in rows : Looks(r.charge)' = x} = {r \in rows : Looks(r.charge) = x}
OBVIOUS

LEMMA PostPosts ==
  ASSUME BookInvariant, BookInvariant', NEW c \in Charges, Post(c)
  PROVE  \E x \in Promise!Shapes : Promise!Post(x)
<1> DEFINE s == Scheduler
           look == Looks(c)'
<1>1. /\ TypeOK /\ TypeOK' /\ now \in Nat /\ s \in Sessions
      /\ \A r \in ledger : r.charge \in Posted
      /\ \A r \in sync[s].added : r.charge \in Posted
      /\ sync[s].txns \in SUBSET Posted
  <2>1. TypeOK /\ TypeOK' /\ s \in Sessions /\ sync[s].txns \in SUBSET Posted
    BY SchedulerAssumption DEF BookInvariant, NoDoublesInvariant
  <2>2. now \in Nat
    BY <2>1, BoundsAssumption DEF TypeOK, Time
  <2>3. /\ \A r \in ledger : r.charge \in Posted
        /\ \A r \in sync[s].added : r.charge \in Posted
    BY <2>1 DEF BookInvariant, NoDoublesInvariant, GenuineRow
  <2>4. QED
    BY <2>1, <2>2, <2>3
<1>2. /\ postedAt' = [postedAt EXCEPT ![c] = now] /\ postedAt[c] = Never
      /\ ledger' = ledger /\ balance' = balance /\ sync' = sync
      /\ lastSyncedAt' = lastSyncedAt /\ status' = status
  BY DEF Post, dbVars
<1>3. /\ Posted' = Posted \cup {c} /\ c \notin Posted
      /\ \A d \in Posted : postedAt'[d] = postedAt[d]
  <2>1. now # Never /\ postedAt \in [Charges -> Time \cup {Never}]
    BY <1>1 DEF TypeOK, Never
  <2>2. QED
    BY <1>2, <2>1 DEF Posted
<1>4. \A d \in Posted : Looks(d)' = Looks(d)
  BY <1>3 DEF Looks
<1>5. look \in Shapes /\ look[1] = AccountOf[c] /\ AccountOf[c] \in Accounts
  <2>1. postedAt'[c] \in Time /\ AccountOf[c] \in Accounts
    BY <1>1, <1>2, ChargesAssumption DEF TypeOK
  <2>2. QED
    BY <2>1 DEF Looks, Shapes, DaysOfCharges, KindsOfCharges
<1> HIDE DEF look
<1>6. ChargeTally(Posted)' = [ChargeTally(Posted) EXCEPT ![look] = @ + 1]
  <2> DEFINE N(x) == {d \in Posted' : Looks(d)' = x}
             O(x) == {d \in Posted : Looks(d) = x}
  <2>1. \A x \in Shapes : N(x) = IF x = look THEN O(x) \cup {c} ELSE O(x)
    BY <1>3, <1>4 DEF look
  <2>2. \A x \in Shapes : IsFiniteSet(O(x)) /\ c \notin O(x)
    BY <1>3, ChargeTallyType
  <2>3. ChargeTally(Posted)' = [x \in Shapes |-> Cardinality(N(x))]
    BY DEF ChargeTally
  <2>4. ChargeTally(Posted) = [x \in Shapes |-> Cardinality(O(x))]
    BY DEF ChargeTally
  <2> HIDE DEF N, O
  <2>5. Cardinality(N(look)) = Cardinality(O(look)) + 1
    BY <1>5, <2>1, <2>2, FS_AddElement
  <2>6. \A x \in Shapes : x # look => Cardinality(N(x)) = Cardinality(O(x))
    BY <2>1
  <2>7. QED
    BY <1>5, <2>3, <2>4, <2>5, <2>6
<1>7. [a \in Accounts |-> BankBalance(a)]'
        = [[a \in Accounts |-> BankBalance(a)] EXCEPT ![look[1]] = @ + 1]
  <2> DEFINE N(a) == {d \in Posted' : AccountOf[d] = a}
             O(a) == {d \in Posted : AccountOf[d] = a}
  <2>1. \A a \in Accounts : N(a) = IF a = look[1] THEN O(a) \cup {c} ELSE O(a)
    BY <1>3, <1>5
  <2>2. \A a \in Accounts : IsFiniteSet(O(a)) /\ c \notin O(a)
    <3> SUFFICES ASSUME NEW a \in Accounts PROVE IsFiniteSet(O(a)) /\ c \notin O(a)
      OBVIOUS
    <3>1. O(a) \in SUBSET Charges
      BY DEF Posted
    <3>2. QED
      BY <1>3, <3>1, ChargesAssumption, FS_Subset
  <2>3. \A a \in Accounts : BankBalance(a)' = Cardinality(N(a)) /\ BankBalance(a) = Cardinality(O(a))
    BY DEF BankBalance
  <2> HIDE DEF N, O
  <2>4. Cardinality(N(look[1])) = Cardinality(O(look[1])) + 1
    BY <1>5, <2>1, <2>2, FS_AddElement
  <2>5. \A a \in Accounts : a # look[1] => Cardinality(N(a)) = Cardinality(O(a))
    BY <2>1
  <2>6. QED
    BY <1>5, <2>3, <2>4, <2>5
<1>8. ChargeTally(Known(s))' = ChargeTally(Known(s))
  <2>1. Known(s)' = Known(s) /\ Known(s) \in SUBSET Posted
    BY <1>1, <1>2 DEF Known
  <2>2. \A x \in Shapes : {d \in Known(s) : Looks(d)' = x} = {d \in Known(s) : Looks(d) = x}
    BY <1>4, <2>1, TalliesStay
  <2>3. ChargeTally(Known(s))' = [x \in Shapes |-> Cardinality({d \in Known(s) : Looks(d)' = x})]
    BY <2>1 DEF ChargeTally
  <2>4. QED
    BY <2>2, <2>3 DEF ChargeTally
<1>9. ASSUME NEW rows, \A r \in rows : r.charge \in Posted
      PROVE  [x \in Shapes |-> Cardinality({r \in rows : Looks(r.charge)' = x})] = RowTally(rows)
  <2>1. \A x \in Shapes : {r \in rows : Looks(r.charge)' = x} = {r \in rows : Looks(r.charge) = x}
    BY <1>4, <1>9, TalliesStay
  <2>2. QED
    BY <2>1 DEF RowTally
<1>10. /\ RowTally(sync[s].added)' = RowTally(sync[s].added)
       /\ RowTally({r \in ledger : r.issue # NoId})' = RowTally({r \in ledger : r.issue # NoId})
       /\ RowTally({r \in ledger : r.issue = NoId})' = RowTally({r \in ledger : r.issue = NoId})
  <2>1. RowTally(sync[s].added)'
          = [x \in Shapes |-> Cardinality({r \in sync[s].added : Looks(r.charge)' = x})]
    BY <1>2 DEF RowTally
  <2>2. RowTally({r \in ledger : r.issue # NoId})'
          = [x \in Shapes |-> Cardinality({r \in {q \in ledger : q.issue # NoId} : Looks(r.charge)' = x})]
    BY <1>2 DEF RowTally
  <2>3. RowTally({r \in ledger : r.issue = NoId})'
          = [x \in Shapes |-> Cardinality({r \in {q \in ledger : q.issue = NoId} : Looks(r.charge)' = x})]
    BY <1>2 DEF RowTally
  <2>4. /\ \A r \in {q \in ledger : q.issue # NoId} : r.charge \in Posted
        /\ \A r \in {q \in ledger : q.issue = NoId} : r.charge \in Posted
    BY <1>1
  <2>5. QED
    BY <1>1, <1>9, <2>1, <2>2, <2>3, <2>4
<1>11. Stage' = Stage
  BY <1>2 DEF Stage
<1>12. (IF lastSyncedAt = Never THEN -1 ELSE Day(lastSyncedAt))'
         = IF lastSyncedAt = Never THEN -1 ELSE Day(lastSyncedAt)
  BY <1>2 DEF Day
<1>13. Promise!Post(look)
  BY <1>2, <1>6, <1>7, <1>8, <1>10, <1>11, <1>12
  DEF Promise!Post, Promise!syncVars, Promise!bookVars
<1>14. look \in Promise!Shapes
  BY <1>5 DEF Promise!Shapes, Shapes
<1>15. QED
  BY <1>13, <1>14

\* A step of the user's that changes only one of the two tallies of the ledger.
LEMMA EditKeepsTheRest ==
  ASSUME postedAt' = postedAt, sync' = sync, balance' = balance, lastSyncedAt' = lastSyncedAt,
         status' = status
  PROVE  /\ UNCHANGED Promise!bankVars
         /\ UNCHANGED Promise!syncVars
         /\ [a \in Accounts |-> balance[<<a, Scheduler>>]]' = [a \in Accounts |-> balance[<<a, Scheduler>>]]
         /\ (IF lastSyncedAt = Never THEN -1 ELSE Day(lastSyncedAt))'
              = IF lastSyncedAt = Never THEN -1 ELSE Day(lastSyncedAt)
         /\ status' = status
         /\ \A rows : RowTally(rows) = [x \in Shapes |-> Cardinality({r \in rows : Looks(r.charge)' = x})]
<1>1. Posted' = Posted /\ \A c : Looks(c)' = Looks(c)
  BY DEF Posted, Looks
<1>2. Known(Scheduler)' = Known(Scheduler) /\ Stage' = Stage
  BY DEF Known, Stage
<1>3. /\ ChargeTally(Posted)' = ChargeTally(Posted)
      /\ [a \in Accounts |-> BankBalance(a)]' = [a \in Accounts |-> BankBalance(a)]
      /\ ChargeTally(Known(Scheduler))' = ChargeTally(Known(Scheduler))
      /\ RowTally(sync[Scheduler].added)' = RowTally(sync[Scheduler].added)
  BY <1>1, <1>2 DEF ChargeTally, RowTally, BankBalance
<1>4. \A rows : RowTally(rows) = [x \in Shapes |-> Cardinality({r \in rows : Looks(r.charge)' = x})]
  BY <1>1 DEF RowTally
<1>5. QED
  BY <1>2, <1>3, <1>4 DEF Promise!bankVars, Promise!syncVars, Day

LEMMA CreateTypesIn ==
  ASSUME OneAtATime, BookInvariant, NEW c \in Charges, CreateTransaction(c)
  PROVE  \E x \in Promise!Shapes : Promise!TypeIn(x)
<1> DEFINE look == Looks(c)
           typed == {r \in ledger : r.issue = NoId}
           others == {r \in ledger : r.issue # NoId}
<1>1. TypeOK /\ IsFiniteSet(ledger)
  BY DEF BookInvariant, NoDoublesInvariant
<1>2. PICK u, row :
        /\ u \in RowsFor(AccountOf[c])
        /\ row = [charge |-> c, issue |-> NoId, account |-> <<AccountOf[c], u>>, by |-> NoSession]
        /\ row \notin ledger /\ ledger' = ledger \cup {row}
  BY DEF CreateTransaction
<1>3. /\ c \in Posted /\ postedAt' = postedAt /\ sync' = sync /\ balance' = balance
      /\ lastSyncedAt' = lastSyncedAt /\ status' = status
  BY DEF CreateTransaction, bankVars
<1>4. row.charge = c /\ row.issue = NoId
  BY <1>2
<1>5. look \in Shapes /\ look[1] = AccountOf[c] /\ AccountOf[c] \in Accounts
  BY <1>1, <1>3, LooksAlike, ChargesAssumption DEF Looks, Posted
<1>6. balance[<<look[1], Scheduler>>] # NoRow
  BY <1>2, <1>5, OnlyScheduler DEF RowsFor
<1>7. /\ {r \in ledger' : r.issue = NoId} = typed \cup {row}
      /\ {r \in ledger' : r.issue # NoId} = others
      /\ row \notin typed
  BY <1>2, <1>4
<1>8. IsFiniteSet(typed)
  <2>1. typed \in SUBSET ledger
    OBVIOUS
  <2>2. QED
    BY <1>1, <2>1, FS_Subset
<1> HIDE DEF look, typed, others
<1>9. RowTally(typed \cup {row}) = [RowTally(typed) EXCEPT ![look] = @ + 1]
  BY <1>4, <1>5, <1>7, <1>8, OneRowMore DEF look
<1>10. /\ RowTally({r \in ledger : r.issue = NoId})' = RowTally(typed \cup {row})
       /\ RowTally({r \in ledger : r.issue # NoId})' = RowTally(others)
  <2>1. \A rows : RowTally(rows) = [x \in Shapes |-> Cardinality({r \in rows : Looks(r.charge)' = x})]
    BY <1>3, EditKeepsTheRest
  <2>2. /\ RowTally({r \in ledger : r.issue = NoId})'
             = [x \in Shapes |-> Cardinality({r \in typed \cup {row} : Looks(r.charge)' = x})]
        /\ RowTally({r \in ledger : r.issue # NoId})'
             = [x \in Shapes |-> Cardinality({r \in others : Looks(r.charge)' = x})]
    BY <1>7 DEF RowTally
  <2>3. QED
    BY <2>1, <2>2
<1>11. [a \in Accounts |-> balance[<<a, Scheduler>>]][look[1]] # NoRow
  BY <1>5, <1>6
<1>12. Promise!TypeIn(look)
  BY <1>3, <1>9, <1>10, <1>11, EditKeepsTheRest
  DEF Promise!TypeIn, Promise!NoRow, NoRow, typed, others
<1>13. look \in Promise!Shapes
  BY <1>5 DEF Promise!Shapes, Shapes
<1>14. QED
  BY <1>12, <1>13

LEMMA DeleteDeletes ==
  ASSUME OneAtATime, BookInvariant, NEW r \in ledger, DeleteTransaction(r)
  PROVE  \E x \in Promise!Shapes : Promise!DeleteImported(x) \/ Promise!DeleteTyped(x)
<1> DEFINE look == Looks(r.charge)
           typed == {q \in ledger : q.issue = NoId}
           others == {q \in ledger : q.issue # NoId}
           rest(S) == S \ {r}
<1>1. TypeOK /\ IsFiniteSet(ledger) /\ r.charge \in Posted
  BY DEF BookInvariant, NoDoublesInvariant, GenuineRow
<1>2. /\ ledger' = ledger \ {r} /\ postedAt' = postedAt /\ sync' = sync /\ balance' = balance
      /\ lastSyncedAt' = lastSyncedAt /\ status' = status
  BY DEF DeleteTransaction, bankVars
<1>3. look \in Shapes
  BY <1>1, LooksAlike
<1>4. /\ {q \in ledger' : q.issue = NoId} = rest(typed)
      /\ {q \in ledger' : q.issue # NoId} = rest(others)
  BY <1>2
<1>5. IsFiniteSet(typed) /\ IsFiniteSet(others) /\ typed \in SUBSET ledger /\ others \in SUBSET ledger
  <2>1. typed \in SUBSET ledger /\ others \in SUBSET ledger
    OBVIOUS
  <2>2. QED
    BY <1>1, <2>1, FS_Subset
<1>6. ASSUME NEW S \in SUBSET ledger, IsFiniteSet(S), r \in S
      PROVE  /\ RowTally(S)[look] > 0
             /\ RowTally(rest(S)) = [RowTally(S) EXCEPT ![look] = @ - 1]
  <2> DEFINE less == rest(S)
  <2>1. S = less \cup {r} /\ r \notin less
    BY <1>6
  <2>2. IsFiniteSet(less)
    BY <1>6, FS_RemoveElement
  <2>3. RowTally(less \cup {r}) = [RowTally(less) EXCEPT ![look] = @ + 1]
    BY <1>3, <2>1, <2>2, OneRowMore
  <2>4. \A x \in Shapes : RowTally(less)[x] \in Nat
    BY <2>2, RowTallyType
  <2>5. RowTally(less) = [x \in Shapes |-> RowTally(less)[x]]
    BY DEF RowTally
  <2> HIDE DEF less, look
  <2>6. /\ [RowTally(less) EXCEPT ![look] = @ + 1][look] > 0
        /\ RowTally(less) = [[RowTally(less) EXCEPT ![look] = @ + 1] EXCEPT ![look] = @ - 1]
    BY <1>3, <2>4, <2>5
  <2>7. RowTally(S) = [RowTally(less) EXCEPT ![look] = @ + 1]
    BY <2>1, <2>3
  <2>8. QED
    BY <2>6, <2>7 DEF less
<1>7. /\ RowTally({q \in ledger : q.issue = NoId})' = RowTally(rest(typed))
      /\ RowTally({q \in ledger : q.issue # NoId})' = RowTally(rest(others))
  <2>1. \A rows : RowTally(rows) = [x \in Shapes |-> Cardinality({q \in rows : Looks(q.charge)' = x})]
    BY <1>2, EditKeepsTheRest
  <2>2. /\ RowTally({q \in ledger : q.issue = NoId})'
             = [x \in Shapes |-> Cardinality({q \in {p \in ledger' : p.issue = NoId} : Looks(q.charge)' = x})]
        /\ RowTally({q \in ledger : q.issue # NoId})'
             = [x \in Shapes |-> Cardinality({q \in {p \in ledger' : p.issue # NoId} : Looks(q.charge)' = x})]
    BY DEF RowTally
  <2>3. QED
    BY <1>4, <2>1, <2>2
<1>8. look \in Promise!Shapes
  BY <1>3 DEF Promise!Shapes, Shapes
<1>9. CASE r \in typed
  <2>1. rest(others) = others
    BY <1>9
  <2>2. RowTally(typed)[look] > 0 /\ RowTally(rest(typed)) = [RowTally(typed) EXCEPT ![look] = @ - 1]
    BY <1>5, <1>6, <1>9
  <2> HIDE DEF look, rest
  <2>3. Promise!DeleteTyped(look)
    BY <1>2, <1>7, <2>1, <2>2, EditKeepsTheRest DEF Promise!DeleteTyped
  <2>4. QED
    BY <1>8, <2>3
<1>10. CASE r \in others
  <2>1. rest(typed) = typed
    BY <1>10
  <2>2. RowTally(others)[look] > 0 /\ RowTally(rest(others)) = [RowTally(others) EXCEPT ![look] = @ - 1]
    BY <1>5, <1>6, <1>10
  <2> HIDE DEF look, rest
  <2>3. Promise!DeleteImported(look)
    BY <1>2, <1>7, <2>1, <2>2, EditKeepsTheRest DEF Promise!DeleteImported
  <2>4. QED
    BY <1>8, <2>3
<1>11. r \in typed \/ r \in others
  OBVIOUS
<1>12. QED
  BY <1>9, <1>10, <1>11

\* Steps that neither the book nor the bank's charges show.
LEMMA HiddenSteps ==
  ASSUME OneAtATime, BookInvariant,
         \/ Tick \/ (\E a \in Accounts : OpenAccount(a)) \/ (\E c \in Charges : Reissue(c))
         \/ Begin(Scheduler) \/ LoadAccounts(Scheduler) \/ FetchAccounts(Scheduler)
         \/ UNCHANGED vars
  PROVE  UNCHANGED Promise!vars
<1>1. TypeOK /\ SyncFits(Scheduler) /\ Scheduler \in Sessions
  BY SchedulerAssumption DEF BookInvariant, SerialInvariant
<1>2. CASE Begin(Scheduler) \/ LoadAccounts(Scheduler) \/ FetchAccounts(Scheduler)
  <2>1. /\ sync[Scheduler].pc \in {"idle", "begun", "loaded"}
        /\ sync'[Scheduler].pc \in {"begun", "loaded", "listed"}
        /\ sync'[Scheduler].txns = sync[Scheduler].txns
        /\ sync'[Scheduler].added = sync[Scheduler].added
        /\ UNCHANGED <<bankVars, dbVars>>
    BY <1>1, <1>2, BeginStep, LoadStep, ListStep
  <2>2. Known(Scheduler) = {} /\ Known(Scheduler)' = {}
    BY <1>1, <2>1 DEF SyncFits, Known
  <2>3. Stage = "quiet" /\ Stage' = "quiet"
    BY <2>1, StageIs
  <2>4. QED
    BY <2>1, <2>2, <2>3, QuietPromise DEF bankVars, dbVars
<1>3. CASE Tick \/ (\E a \in Accounts : OpenAccount(a)) \/ (\E c \in Charges : Reissue(c))
             \/ UNCHANGED vars
  <2>1. postedAt' = postedAt /\ sync' = sync /\ UNCHANGED dbVars
    BY <1>3 DEF Tick, OpenAccount, Reissue, vars, bankVars
  <2>2. Known(Scheduler)' = Known(Scheduler) /\ Stage' = Stage
    BY <2>1 DEF Known, Stage
  <2>3. QED
    BY <2>1, <2>2, QuietPromise DEF dbVars
<1>4. QED
  BY <1>2, <1>3

LEMMA BookStep ==
  ASSUME OneAtATime, BookInvariant, BookInvariant', [Next]_vars
  PROVE  [Promise!Next]_(Promise!vars)
<1>1. ASSUME NEW s \in Sessions, SyncStep(s) \/ FailSync(s) \/ Abort(s)
      PROVE  [Promise!Next]_(Promise!vars)
  <2>1. s = Scheduler
    BY OnlyScheduler
  <2>2. CASE Begin(s) \/ LoadAccounts(s) \/ FetchAccounts(s)
    BY <2>1, <2>2, HiddenSteps
  <2>3. CASE FetchTransactions(s)
    BY <2>1, <2>3, FetchHears DEF Promise!Next
  <2>4. CASE ReadHeld(s)
    BY <2>1, <2>4, ReadDecides DEF Promise!Next
  <2>5. CASE Commit(s)
    BY <2>1, <2>5, CommitCompletes DEF Promise!Next
  <2>6. CASE FailSync(s)
    BY <2>1, <2>6, FailFails DEF Promise!Next
  <2>7. CASE Abort(s)
    BY <2>1, <2>7, AbortGivesUp DEF Promise!Next
  <2>8. QED
    BY <1>1, <2>2, <2>3, <2>4, <2>5, <2>6, <2>7 DEF SyncStep
<1>2. ASSUME NEW c \in Charges, Post(c) PROVE Promise!Next
  BY <1>2, PostPosts DEF Promise!Next
<1>3. ASSUME NEW c \in Charges, CreateTransaction(c) PROVE Promise!Next
  BY <1>3, CreateTypesIn DEF Promise!Next
<1>4. ASSUME NEW r \in ledger, DeleteTransaction(r) PROVE Promise!Next
  BY <1>4, DeleteDeletes DEF Promise!Next
<1>5. CASE Tick \/ (\E a \in Accounts : OpenAccount(a)) \/ (\E c \in Charges : Reissue(c))
             \/ UNCHANGED vars
  BY <1>5, HiddenSteps
<1>6. QED
  BY <1>1, <1>2, <1>3, <1>4, <1>5 DEF Next

LEMMA BookInit == Init => BookInvariant /\ Promise!Init
<1> SUFFICES ASSUME Init PROVE BookInvariant /\ Promise!Init
  OBVIOUS
<1>1. /\ TypeOK /\ SerialInvariant /\ Posted = {} /\ ledger = {}
      /\ \A s \in Sessions : sync[s] = IdleSync
  BY SerialInit DEF SerialInvariant, Init, Posted
<1>2. NoDoublesInvariant
  BY <1>1, FS_EmptySet DEF NoDoublesInvariant, NoDoubleCount, IdleSync
<1>3. \A s \in Sessions : SyncFits(s)
  BY <1>1 DEF SyncFits, IdleSync
<1>4. lastSyncedAt <= now
  BY DEF Init, Never
<1>5. sync[Scheduler].pc = "idle" /\ sync[Scheduler].txns = {} /\ sync[Scheduler].added = {}
  BY <1>1, SchedulerAssumption DEF IdleSync
<1>6. Known(Scheduler) = {} /\ Stage = "quiet"
  BY <1>5, StageIs DEF Known
<1>7. ChargeTally({}) = [x \in Shapes |-> 0] /\ RowTally({}) = [x \in Shapes |-> 0]
  BY FS_EmptySet DEF ChargeTally, RowTally
<1>8. {r \in ledger : r.issue # NoId} = {} /\ {r \in ledger : r.issue = NoId} = {}
  BY <1>1
<1>9. \A a \in Accounts : BankBalance(a) = 0
  <2>1. \A a \in Accounts : {c \in Posted : AccountOf[c] = a} = {}
    BY <1>1
  <2>2. QED
    BY <2>1, FS_EmptySet DEF BankBalance
<1>10. \A a \in Accounts : balance[<<a, Scheduler>>] = NoRow
  BY SchedulerAssumption DEF Init, AccountRows
<1>11. (IF lastSyncedAt = Never THEN -1 ELSE Day(lastSyncedAt)) = -1 /\ status = "active"
  BY DEF Init
<1>12. Promise!Init
  BY <1>1, <1>5, <1>6, <1>7, <1>8, <1>9, <1>10, <1>11
  DEF Promise!Init, Promise!Nothing, Promise!Shapes, Shapes, Promise!NoRow, NoRow
<1>13. QED
  BY <1>1, <1>2, <1>3, <1>4, <1>12 DEF BookInvariant

\* As long as one session syncs at a time, the whole of sync_connection is a sync of the
\* abstract ledger: the bank tells what it has posted since the day of the last completed
\* sync, exactly the rows missing by description are added whatever ids the bank gave its
\* charges, they appear with the balances, the day and the status in one step or not at all,
\* and a sync the bank lets down changes balances and status only.
THEOREM BankLedgerIsKept ==
  ASSUME OneAtATime PROVE Spec => KeepsBankLedger
<1>1. BookInvariant /\ [Next]_vars => BookInvariant'
  BY BookInductive
<1>2. BookInvariant /\ BookInvariant' /\ [Next]_vars => [Promise!Next]_(Promise!vars)
  BY BookStep
<1>3. QED
  BY <1>1, <1>2, BookInit, PTL DEF Spec, KeepsBankLedger, Promise!Spec
===============================================================================
