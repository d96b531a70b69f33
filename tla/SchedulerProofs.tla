---------------------------- MODULE SchedulerProofs ----------------------------
(***************************************************************************)
(* Proofs about Scheduler, for any households, accounts, securities and    *)
(* requests: the type invariant, and that it implements PriceBook.         *)
(***************************************************************************)
EXTENDS Scheduler, TLAPS

-------------------------------------------------------------------------------
(* The type invariant *)

LEMMA InitType == Init => TypeOK
<1> SUFFICES ASSUME Init PROVE TypeOK
  OBVIOUS
<1> USE BoundsAssumption
<1>1. /\ today \in Days /\ bank \in [BankAccounts -> Balances]
      /\ balance \in [Accounts -> Balances] /\ failures \in 0 .. MaxFailures
  BY DEF Init, Days, Balances
<1>6. born \in [BankAccounts -> 1 .. MaxRows] /\ open \subseteq {<<b, born[b]>> : b \in BankAccounts}
  BY DEF Init
<1>2. /\ snapshots \in [Accounts \X Days -> Balances \cup {NoSnapshot}]
      /\ prices \in [PriceKeys -> {"none", "fetched", "manual"}]
  BY DEF Init
<1>3. tick \in TickType /\ (tick.pc # "quoted" => tick.locked = {})
  BY DEF Init, IdleTick, TickType
<1>4. IdleCapture \in CaptureType
  BY DEF IdleCapture, CaptureType, Days, Balances
<1>5. capture \in [Sessions -> CaptureType]
  BY <1>4 DEF Init
<1> QED
  BY <1>1, <1>2, <1>3, <1>5, <1>6 DEF TypeOK

\* The idle states of a tick and of a capture are well typed.
LEMMA IdleTypes == IdleTick \in TickType /\ IdleCapture \in CaptureType
<1> USE BoundsAssumption
<1>1. IdleTick \in TickType
  BY DEF IdleTick, TickType
<1>2. IdleCapture \in CaptureType
  BY DEF IdleCapture, CaptureType, Days, Balances
<1> QED
  BY <1>1, <1>2

\* The rows of the accounts of some households are accounts.
LEMMA AccountsOfType == ASSUME TypeOK, NEW H PROVE AccountsOf(H) \subseteq open /\ open \subseteq Accounts
BY DEF TypeOK, AccountsOf, Accounts

\* A sync leaves the rows and their balances well typed, one row at most to an account at the bank.
LEMMA SyncedType ==
  ASSUME TypeOK, NEW H, Synced(H)
  PROVE  /\ born' \in [BankAccounts -> 1 .. MaxRows]
         /\ open' \subseteq {<<b, born'[b]>> : b \in BankAccounts}
         /\ balance' \in [Accounts -> Balances]
<1> USE BoundsAssumption
<1> DEFINE missing == {b \in Of(H, BankAccounts) : born[b] < MaxRows /\ \A a \in open : a[1] # b}
<1>1. /\ born' = [b \in BankAccounts |-> IF b \in missing THEN born[b] + 1 ELSE born[b]]
      /\ open' = open \cup {<<b, born[b] + 1>> : b \in missing}
  BY DEF Synced
<1>2. /\ born \in [BankAccounts -> 1 .. MaxRows] /\ open \subseteq {<<b, born[b]>> : b \in BankAccounts}
      /\ bank \in [BankAccounts -> Balances] /\ balance \in [Accounts -> Balances]
  BY DEF TypeOK
<1>3. \A b \in missing : b \in BankAccounts /\ born[b] + 1 \in 1 .. MaxRows /\ \A a \in open : a[1] # b
  BY <1>2 DEF Of
<1> HIDE DEF missing
<1>4. born' \in [BankAccounts -> 1 .. MaxRows]
  BY <1>1, <1>2, <1>3
<1>5. ASSUME NEW a \in open'
      PROVE  a \in {<<b, born'[b]>> : b \in BankAccounts}
  <2>1. CASE a \in open
    <3>1. PICK b \in BankAccounts : a = <<b, born[b]>>
      BY <1>2, <2>1
    <3>2. b \notin missing
      BY <1>3, <2>1, <3>1
    <3> QED
      BY <1>1, <3>1, <3>2
  <2>2. CASE a \notin open
    <3>1. PICK b \in missing : a = <<b, born[b] + 1>>
      BY <1>1, <1>5, <2>2
    <3>2. b \in BankAccounts /\ born'[b] = born[b] + 1
      BY <1>1, <1>3
    <3> QED
      BY <3>1, <3>2
  <2> QED
    BY <2>1, <2>2
<1>6. \A a \in Accounts : a[1] \in BankAccounts /\ bank[a[1]] \in Balances
  BY <1>2 DEF Accounts
<1>7. balance' \in [Accounts -> Balances]
  BY <1>2, <1>6 DEF Synced
<1> QED
  BY <1>4, <1>5, <1>7

\* Reading the accounts of some households keeps captures well typed.
LEMMA ReadAccountsType ==
  ASSUME TypeOK, NEW s \in Sessions, NEW H, ReadAccounts(s, H)
  PROVE  capture' \in [Sessions -> CaptureType]
<1> DEFINE C == [pc |-> "accounts", accounts |-> AccountsOf(H), day |-> today,
                 unread |-> {}, read |-> [a \in Accounts |-> IF a \in AccountsOf(H) THEN balance[a] ELSE 0],
                 loaded |-> [a \in Accounts |-> NoSnapshot]]
<1>1. /\ AccountsOf(H) \subseteq Accounts /\ today \in Days
      /\ balance \in [Accounts -> Balances] /\ 0 \in Balances
  BY BoundsAssumption, AccountsOfType DEF TypeOK, Balances
<1>2. C \in CaptureType
  BY <1>1 DEF CaptureType
<1>3. capture' = [capture EXCEPT ![s] = C]
  BY DEF ReadAccounts
<1> HIDE DEF C
<1> QED
  BY <1>2, <1>3 DEF TypeOK

\* So does reading the snapshots of the day.
LEMMA ReadsType ==
  ASSUME TypeOK, NEW s \in Sessions, Reads(s)
  PROVE  capture' \in [Sessions -> CaptureType]
<1> DEFINE c == capture[s]
<1>1. c \in CaptureType /\ capture \in [Sessions -> CaptureType]
      /\ snapshots \in [Accounts \X Days -> Balances \cup {NoSnapshot}]
  BY DEF TypeOK
<1>2. CASE ReadExisting(s)
  <2> DEFINE unread == {a \in c.accounts : snapshots[<<a, c.day>>] # NoSnapshot}
  <2>1. capture' = [capture EXCEPT ![s].pc = "snapshots", ![s].unread = unread]
    BY <1>2 DEF ReadExisting
  <2>2. unread \in SUBSET Accounts
    BY <1>1 DEF CaptureType
  <2> HIDE DEF unread
  <2>3. capture' = [capture EXCEPT ![s] = [c EXCEPT !.pc = "snapshots", !.unread = unread]]
    BY <1>1, <2>1
  <2> HIDE DEF c
  <2>4. [c EXCEPT !.pc = "snapshots", !.unread = unread] \in CaptureType
    BY <1>1, <2>2 DEF CaptureType
  <2> QED
    BY <1>1, <2>3, <2>4
<1>3. ASSUME NEW a \in Accounts, ReadSnapshot(s, a)
      PROVE  capture' \in [Sessions -> CaptureType]
  <2> DEFINE unread == c.unread \ {a}
             found == snapshots[<<a, c.day>>]
             loaded == [c.loaded EXCEPT ![a] = found]
  <2>1. capture' = [capture EXCEPT ![s].unread = @ \ {a}, ![s].loaded[a] = found]
    BY <1>3 DEF ReadSnapshot
  <2>2. c.day \in Days /\ c.unread \in SUBSET Accounts /\ c.loaded \in [Accounts -> Balances \cup {NoSnapshot}]
    BY <1>1 DEF CaptureType
  <2>3. found \in Balances \cup {NoSnapshot}
    BY <1>1, <2>2
  <2> HIDE DEF found
  <2>4. unread \in SUBSET Accounts /\ loaded \in [Accounts -> Balances \cup {NoSnapshot}]
    BY <2>2, <2>3
  <2>5. capture' = [capture EXCEPT ![s] = [c EXCEPT !.unread = unread, !.loaded = loaded]]
    BY <1>1, <2>1
  <2> HIDE DEF unread, loaded, c
  <2>6. [c EXCEPT !.unread = unread, !.loaded = loaded] \in CaptureType
    BY <1>1, <2>4 DEF CaptureType
  <2> QED
    BY <1>1, <2>5, <2>6
<1> QED
  BY <1>2, <1>3 DEF Reads

\* The end of a capture keeps captures well typed.
LEMMA EndsType ==
  ASSUME TypeOK, NEW s \in Sessions, Ends(s)
  PROVE  capture' \in [Sessions -> CaptureType]
BY IdleTypes DEF Ends, TypeOK

\* What a capture commits are balances that it has read.
LEMMA CommitType ==
  ASSUME TypeOK, NEW s \in Sessions, CommitCapture(s)
  PROVE  /\ snapshots' \in [Accounts \X Days -> Balances \cup {NoSnapshot}]
         /\ capture' \in [Sessions -> CaptureType]
<1>1. capture[s] \in CaptureType
  BY DEF TypeOK
<1>2. capture[s].read \in [Accounts -> Balances]
  BY <1>1 DEF CaptureType
<1>3. snapshots' \in [Accounts \X Days -> Balances \cup {NoSnapshot}]
  BY <1>2 DEF CommitCapture, TypeOK
<1> QED
  BY <1>3, EndsType DEF CommitCapture

\* Every step of a tick leaves it well typed, with prices locked in its refresh only.
TickTyped == tick \in TickType /\ (tick.pc # "quoted" => tick.locked = {})

LEMMA IdleTickTyped == ASSUME tick' = IdleTick PROVE TickTyped'
BY IdleTypes DEF TickTyped, TickType, IdleTick, PriceKeys, Days

\* The actions that move a tick along and change nothing else of it but `broken`.
LEMMA MovesOnTyped ==
  ASSUME TickTyped, NEW p \in {"next", "sync", "capture", "capturing", "detect", "refresh"},
         tick.pc # "quoted",
         \/ tick' = [tick EXCEPT !.pc = p]
         \/ tick' = [tick EXCEPT !.pc = p, !.broken = TRUE]
  PROVE  TickTyped'
BY DEF TickTyped, TickType, PriceKeys, Days

LEMMA BeginTickTyped == ASSUME BeginTick PROVE TickTyped'
<1>1. tick' = [pc |-> "next", left |-> Households, serving |-> {}, broken |-> FALSE,
               quotes |-> {}, locked |-> {}, wrote |-> {}]
  BY DEF BeginTick, IdleTick
<1> QED
  BY <1>1 DEF TickTyped, TickType, PriceKeys, Days

LEMMA ServeTyped ==
  ASSUME TickTyped, NEW h \in Households, Serve(h) PROVE TickTyped'
<1> DEFINE left == tick.left \ {h}
<1>1. tick' = [tick EXCEPT !.pc = "sync", !.left = left, !.serving = {h}] /\ tick.pc = "next"
  BY DEF Serve
<1>2. left \in SUBSET Households /\ {h} \in SUBSET Households
  BY DEF TickTyped, TickType
<1> HIDE DEF left
<1> QED
  BY <1>1, <1>2 DEF TickTyped, TickType, PriceKeys, Days

LEMMA QuoteTyped ==
  ASSUME TickTyped, today \in Days, NEW K \in SUBSET Securities, Quote(K) PROVE TickTyped'
<1> DEFINE quotes == K \X {today}
<1>1. tick' = [tick EXCEPT !.pc = "quoted", !.quotes = quotes]
  BY DEF Quote
<1>2. quotes \in SUBSET PriceKeys
  BY DEF PriceKeys
<1> HIDE DEF quotes
<1> QED
  BY <1>1, <1>2 DEF TickTyped, TickType, PriceKeys, Days

LEMMA UpsertTyped ==
  ASSUME TickTyped, NEW k \in PriceKeys, Upsert(k) PROVE TickTyped'
<1> DEFINE quotes == tick.quotes \ {k}
           locked == tick.locked \cup {k}
           wrote == IF Overwritable(k) THEN tick.wrote \cup {k} ELSE tick.wrote
<1>1. tick' = [tick EXCEPT !.quotes = quotes, !.locked = locked, !.wrote = wrote]
  BY DEF Upsert
<1>2. quotes \in SUBSET PriceKeys /\ locked \in SUBSET PriceKeys /\ wrote \in SUBSET PriceKeys
  BY DEF TickTyped, TickType
<1>3. tick.pc = "quoted"
  BY DEF Upsert
<1> HIDE DEF quotes, locked, wrote
<1> QED
  BY <1>1, <1>2, <1>3 DEF TickTyped, TickType, PriceKeys, Days

LEMMA EndsRefreshTyped ==
  ASSUME TickTyped, \/ tick' = EndsRefresh
                    \/ tick' = [EndsRefresh EXCEPT !.broken = TRUE]
  PROVE  TickTyped'
BY DEF EndsRefresh, TickTyped, TickType, PriceKeys, Days
-------------------------------------------------------------------------------
\* Each of the other variables keeps its shape.
LEMMA NextType == TypeOK /\ [Next]_vars => TypeOK'
<1> SUFFICES ASSUME TypeOK, [Next]_vars PROVE TypeOK'
  OBVIOUS
<1>t. TickTyped
  BY DEF TypeOK, TickTyped
<1>r. \A H : Of(H, Securities) \subseteq Securities
  BY DEF Of
<1>1. CASE BeginTick
  BY <1>1, BeginTickTyped DEF BeginTick, TypeOK, TickTyped, accountVars
<1>2. ASSUME NEW h \in Households, Serve(h) PROVE TypeOK'
  BY <1>2, <1>t, ServeTyped DEF Serve, TypeOK, TickTyped, accountVars
<1>3. CASE TickRaises \/ TickEnds
  BY <1>3, IdleTickTyped DEF TickRaises, TickEnds, TypeOK, TickTyped, accountVars
<1>4. CASE Sync
  <2>1. TickTyped'
    BY <1>4, <1>t, MovesOnTyped DEF Sync
  <2> QED
    BY <1>4, <2>1, SyncedType DEF Sync, TypeOK, TickTyped
<1>5. CASE SkipCapture \/ Detect \/ SkipBroken
  <2>1. TickTyped'
    BY <1>5, <1>t, MovesOnTyped DEF SkipCapture, Detect, SkipBroken
  <2> QED
    BY <1>5, <2>1 DEF SkipCapture, Detect, SkipBroken, TypeOK, TickTyped, accountVars
<1>6. CASE TickReadsAccounts
  <2>1. TickTyped'
    BY <1>6, <1>t, MovesOnTyped DEF TickReadsAccounts
  <2>2. capture' \in [Sessions -> CaptureType]
    BY <1>6, ReadAccountsType DEF TickReadsAccounts, Sessions
  <2> QED
    BY <1>6, <2>1, <2>2 DEF TickReadsAccounts, TypeOK, TickTyped, accountVars
<1>7. CASE TickReadsSnapshots
  <2>1. capture' \in [Sessions -> CaptureType]
    BY <1>7, ReadsType DEF TickReadsSnapshots, Sessions
  <2> QED
    BY <1>7, <2>1 DEF TickReadsSnapshots, TypeOK, accountVars
<1>8. CASE TickCommitsCapture
  <2>1. TickTyped'
    BY <1>8, <1>t, MovesOnTyped DEF TickCommitsCapture
  <2>2. /\ snapshots' \in [Accounts \X Days -> Balances \cup {NoSnapshot}]
        /\ capture' \in [Sessions -> CaptureType]
    BY <1>8, CommitType DEF TickCommitsCapture, Sessions
  <2> QED
    BY <1>8, <2>1, <2>2 DEF TickCommitsCapture, TypeOK, TickTyped, accountVars
<1>9. CASE TickCaptureRefused
  <2>1. TickTyped'
    BY <1>9, <1>t, MovesOnTyped DEF TickCaptureRefused
  <2>2. capture' \in [Sessions -> CaptureType]
    BY <1>9, EndsType DEF TickCaptureRefused, RefuseCapture, Sessions
  <2> QED
    BY <1>9, <2>1, <2>2 DEF TickCaptureRefused, RefuseCapture, TypeOK, TickTyped, accountVars
<1>10. ASSUME NEW K \in SUBSET Of(tick.serving, Securities), Quote(K) PROVE TypeOK'
  <2>1. K \in SUBSET Securities
    BY <1>r
  <2>2. TickTyped'
    BY <1>10, <1>t, <2>1, QuoteTyped DEF TypeOK
  <2> QED
    BY <1>10, <2>2 DEF Quote, TypeOK, TickTyped, accountVars
<1>11. ASSUME NEW k \in PriceKeys, Upsert(k) PROVE TypeOK'
  BY <1>11, <1>t, UpsertTyped DEF Upsert, TypeOK, TickTyped, accountVars
<1>12. CASE CommitPrices
  <2>1. TickTyped'
    BY <1>12, <1>t, EndsRefreshTyped DEF CommitPrices
  <2>2. prices' \in [PriceKeys -> {"none", "fetched", "manual"}]
    BY <1>12 DEF CommitPrices, TypeOK
  <2> QED
    BY <1>12, <2>1, <2>2 DEF CommitPrices, TypeOK, TickTyped, accountVars
<1>13. CASE Failure
  <2>1. failures' \in 0 .. MaxFailures
    BY <1>13, BoundsAssumption
       DEF Failure, SyncFails, SyncBreaks, DetectBreaks, RefreshBreaks, Restart, Fails, TypeOK
  <2>2. CASE SyncFails \/ DetectBreaks
    <3>1. TickTyped'
      BY <2>2, <1>t, MovesOnTyped DEF SyncFails, DetectBreaks
    <3> QED
      BY <2>1, <2>2, <3>1 DEF SyncFails, DetectBreaks, TypeOK, TickTyped, accountVars
  <2>3. CASE SyncBreaks
    BY <2>1, <2>3, IdleTickTyped DEF SyncBreaks, TypeOK, TickTyped, accountVars
  <2>4. CASE RefreshBreaks
    BY <2>1, <2>4, <1>t, EndsRefreshTyped DEF RefreshBreaks, TypeOK, TickTyped, accountVars
  <2>5. CASE Restart
    <3>1. capture' \in [Sessions -> CaptureType]
      BY <2>5, IdleTypes DEF Restart
    <3> QED
      BY <2>1, <2>5, <3>1, IdleTickTyped DEF Restart, TypeOK, TickTyped, accountVars
  <2> QED
    BY <1>13, <2>2, <2>3, <2>4, <2>5 DEF Failure
<1>14. ASSUME NEW s \in Requests, NEW h \in Households, RequestReadsAccounts(s, h) PROVE TypeOK'
  <2>1. capture' \in [Sessions -> CaptureType]
    BY <1>14, ReadAccountsType DEF RequestReadsAccounts, Sessions
  <2> QED
    BY <1>14, <2>1 DEF RequestReadsAccounts, TypeOK, accountVars
<1>15. ASSUME NEW s \in Requests, RequestCaptureStep(s) PROVE TypeOK'
  <2>1. s \in Sessions
    BY DEF Sessions
  <2>2. /\ capture' \in [Sessions -> CaptureType]
        /\ snapshots' \in [Accounts \X Days -> Balances \cup {NoSnapshot}]
    <3>1. CASE Reads(s) /\ UNCHANGED snapshots
      BY <2>1, <3>1, ReadsType DEF TypeOK
    <3>2. CASE CommitCapture(s)
      BY <2>1, <3>2, CommitType
    <3>3. CASE RefuseCapture(s)
      BY <2>1, <3>3, EndsType DEF RefuseCapture, TypeOK
    <3> QED
      BY <1>15, <3>1, <3>2, <3>3 DEF RequestCaptureStep
  <2> QED
    BY <1>15, <2>2 DEF RequestCaptureStep, TypeOK, accountVars
<1>16. ASSUME NEW h \in Households, RequestSyncs(h) PROVE TypeOK'
  BY <1>16, SyncedType DEF RequestSyncs, TypeOK
<1>17. ASSUME NEW k \in PriceKeys, SetManualPrice(k) PROVE TypeOK'
  <2>1. prices' \in [PriceKeys -> {"none", "fetched", "manual"}]
    BY <1>17 DEF SetManualPrice, TypeOK
  <2> QED
    BY <1>17, <2>1 DEF SetManualPrice, TypeOK, accountVars
<1>18. ASSUME NEW a \in Accounts, DeleteAccount(a) PROVE TypeOK'
  <2>1. /\ snapshots' \in [Accounts \X Days -> Balances \cup {NoSnapshot}]
        /\ open' \subseteq open /\ born' = born
    BY <1>18 DEF DeleteAccount, TypeOK
  <2>2. balance' \in [Accounts -> Balances]
    BY <1>18, BoundsAssumption DEF DeleteAccount, TypeOK, Balances
  <2> QED
    BY <1>18, <2>1, <2>2 DEF DeleteAccount, TypeOK
<1>19. ASSUME NEW b \in BankAccounts, Moves(b) PROVE TypeOK'
  <2>1. bank[b] + 1 \in Balances
    BY <1>19, BoundsAssumption DEF Moves, TypeOK, Balances
  <2>2. bank' \in [BankAccounts -> Balances]
    BY <1>19, <2>1 DEF Moves, TypeOK
  <2> QED
    BY <1>19, <2>2 DEF Moves, TypeOK
<1>20. CASE NextDay
  BY <1>20, BoundsAssumption DEF NextDay, TypeOK, Days, accountVars
<1>21. CASE UNCHANGED vars
  BY <1>21 DEF vars, accountVars, TypeOK
<1> QED
  BY <1>1, <1>2, <1>3, <1>4, <1>5, <1>6, <1>7, <1>8, <1>9, <1>10, <1>11, <1>12, <1>13, <1>14,
     <1>15, <1>16, <1>17, <1>18, <1>19, <1>20, <1>21 DEF Next, TickStep

\* Every variable of the scheduler, its sessions and the rows they write keeps its shape,
\* whatever requests, failures and restarts a tick meets.
THEOREM TypeCorrect == Spec => []TypeOK
BY InitType, NextType, PTL DEF Spec
-------------------------------------------------------------------------------
(* The price book *)

\* A row that a refresh has written and not yet committed is locked, so that nobody can
\* correct its price before the commit.
WroteNoManual ==
    tick.wrote \subseteq tick.locked /\ \A k \in tick.wrote : prices[k] # "manual"

LEMMA IdleWroteNothing == ASSUME tick' = IdleTick PROVE WroteNoManual'
BY DEF WroteNoManual, IdleTick

\* A step that leaves prices and the rows of the refresh alone keeps WroteNoManual.
LEMMA RowsAlone ==
  ASSUME WroteNoManual, tick'.wrote = tick.wrote, tick'.locked = tick.locked, prices' = prices
  PROVE  WroteNoManual'
BY DEF WroteNoManual

\* Upserting a row whose price is manual locks it and leaves it unwritten.
LEMMA UpsertWrote ==
  ASSUME TypeOK, WroteNoManual, NEW k \in PriceKeys, Upsert(k) PROVE WroteNoManual'
<1>1. tick \in TickType
  BY DEF TypeOK
<1>2. /\ tick'.locked = tick.locked \cup {k}
      /\ tick'.wrote = IF Overwritable(k) THEN tick.wrote \cup {k} ELSE tick.wrote
      /\ prices' = prices
  BY <1>1 DEF Upsert, TickType
<1> QED
  BY <1>2 DEF WroteNoManual, Overwritable

LEMMA WroteStep == TypeOK /\ WroteNoManual /\ [Next]_vars => WroteNoManual'
<1> SUFFICES ASSUME TypeOK, WroteNoManual, [Next]_vars PROVE WroteNoManual'
  OBVIOUS
<1>t. tick \in TickType
  BY DEF TypeOK
<1>1. CASE BeginTick \/ TickRaises \/ TickEnds \/ SyncBreaks \/ Restart
  BY <1>1, IdleWroteNothing DEF BeginTick, TickRaises, TickEnds, SyncBreaks, Restart, IdleTick,
     WroteNoManual
<1>2. CASE Sync \/ SyncFails \/ SkipCapture \/ Detect \/ DetectBreaks \/ SkipBroken
  BY <1>2, <1>t, RowsAlone
     DEF Sync, SyncFails, SkipCapture, Detect, DetectBreaks, SkipBroken, TickType
<1>3. CASE TickReadsAccounts \/ TickReadsSnapshots \/ TickCommitsCapture \/ TickCaptureRefused
  BY <1>3, <1>t, RowsAlone
     DEF TickReadsAccounts, TickReadsSnapshots, TickCommitsCapture, TickCaptureRefused, TickType
<1>4. ASSUME NEW h \in Households, Serve(h) PROVE WroteNoManual'
  BY <1>4, <1>t, RowsAlone DEF Serve, TickType
<1>5. ASSUME NEW K, Quote(K) PROVE WroteNoManual'
  BY <1>5, <1>t, RowsAlone DEF Quote, TickType
<1>6. ASSUME NEW k \in PriceKeys, Upsert(k) PROVE WroteNoManual'
  BY <1>6, UpsertWrote
<1>7. CASE CommitPrices \/ RefreshBreaks
  <2>1. tick'.wrote = {} /\ tick'.locked = {}
    BY <1>7, <1>t DEF CommitPrices, RefreshBreaks, EndsRefresh, TickType
  <2> QED
    BY <2>1 DEF WroteNoManual
<1>8. ASSUME NEW k \in PriceKeys, SetManualPrice(k) PROVE WroteNoManual'
  <2>1. k \notin tick.locked /\ tick' = tick /\ prices' = [prices EXCEPT ![k] = "manual"]
    BY <1>8 DEF SetManualPrice
  <2>2. \A j \in tick.wrote : j # k /\ j \in PriceKeys
    BY <2>1, <1>t DEF WroteNoManual, TickType
  <2> QED
    BY <2>1, <2>2 DEF WroteNoManual, TypeOK
<1>9. ASSUME NEW s \in Requests, NEW h \in Households, RequestReadsAccounts(s, h)
      PROVE  WroteNoManual'
  BY <1>9, RowsAlone DEF RequestReadsAccounts
<1>10. ASSUME NEW s \in Requests, RequestCaptureStep(s) PROVE WroteNoManual'
  BY <1>10, RowsAlone DEF RequestCaptureStep
<1>11. ASSUME NEW h \in Households, RequestSyncs(h) PROVE WroteNoManual'
  BY <1>11, RowsAlone DEF RequestSyncs
<1>12. ASSUME NEW a, Moves(a) \/ DeleteAccount(a) PROVE WroteNoManual'
  BY <1>12, RowsAlone DEF Moves, DeleteAccount
<1>13. CASE NextDay
  BY <1>13, RowsAlone DEF NextDay
<1>14. CASE UNCHANGED vars
  BY <1>14, RowsAlone DEF vars
<1> QED
  BY <1>1, <1>2, <1>3, <1>4, <1>5, <1>6, <1>7, <1>8, <1>9, <1>10, <1>11, <1>12, <1>13, <1>14
     DEF Next, TickStep, Failure

\* A refresh's commit is a Fetch of what it wrote, a correction is a Correct, and no other
\* step changes a price.
LEMMA BookStep == TypeOK /\ WroteNoManual /\ [Next]_vars => [Book!Next]_prices
<1> SUFFICES ASSUME TypeOK, WroteNoManual, [Next]_vars PROVE [Book!Next]_prices
  OBVIOUS
<1>1. CASE CommitPrices
  <2>1. tick.wrote \in SUBSET PriceKeys
    BY DEF TypeOK, TickType
  <2>2. Book!Fetch(tick.wrote)
    BY <1>1 DEF CommitPrices, Book!Fetch, WroteNoManual
  <2> QED
    BY <2>1, <2>2 DEF Book!Next
<1>2. ASSUME NEW k \in PriceKeys, SetManualPrice(k) PROVE Book!Next
  BY <1>2 DEF SetManualPrice, Book!Correct, Book!Next
<1>3. CASE BeginTick \/ TickRaises \/ TickEnds \/ Sync \/ SkipCapture \/ Detect \/ SkipBroken
  BY <1>3 DEF BeginTick, TickRaises, TickEnds, Sync, SkipCapture, Detect, SkipBroken
<1>4. CASE TickReadsAccounts \/ TickReadsSnapshots \/ TickCommitsCapture \/ TickCaptureRefused
  BY <1>4 DEF TickReadsAccounts, TickReadsSnapshots, TickCommitsCapture, TickCaptureRefused
<1>5. CASE Failure
  BY <1>5 DEF Failure, SyncFails, SyncBreaks, DetectBreaks, RefreshBreaks, Restart
<1>6. ASSUME NEW h \in Households, Serve(h) \/ RequestSyncs(h) PROVE prices' = prices
  BY <1>6 DEF Serve, RequestSyncs
<1>7. ASSUME NEW K, Quote(K) PROVE prices' = prices
  BY <1>7 DEF Quote
<1>8. ASSUME NEW k, Upsert(k) PROVE prices' = prices
  BY <1>8 DEF Upsert
<1>9. ASSUME NEW s \in Requests, RequestCaptureStep(s) PROVE prices' = prices
  BY <1>9 DEF RequestCaptureStep
<1>10. ASSUME NEW s \in Requests, NEW h \in Households, RequestReadsAccounts(s, h)
       PROVE  prices' = prices
  BY <1>10 DEF RequestReadsAccounts
<1>11. ASSUME NEW a, Moves(a) \/ DeleteAccount(a) PROVE prices' = prices
  BY <1>11 DEF Moves, DeleteAccount
<1>12. CASE NextDay \/ UNCHANGED vars
  BY <1>12 DEF NextDay, vars
<1> QED
  BY <1>1, <1>2, <1>3, <1>4, <1>5, <1>6, <1>7, <1>8, <1>9, <1>10, <1>11, <1>12
     DEF Next, TickStep

\* "A manual row always wins over a fetched one": the scheduler and the requests implement
\* PriceBook, in which a fetched price never replaces a manual one.
THEOREM PriceBookIsKept == Spec => KeepsPriceBook
<1>1. Init => WroteNoManual /\ Book!Init
  BY DEF Init, IdleTick, WroteNoManual, Book!Init
<1> QED
  BY <1>1, InitType, NextType, WroteStep, BookStep, PTL DEF Spec, KeepsPriceBook, Book!Spec
===============================================================================
