------------------------------ MODULE BankLedger ------------------------------
(***************************************************************************)
(* What services/sync.py promises of one connection, without sessions,     *)
(* statements, the order of the bank's answer, ids or times of day.  A     *)
(* charge is only its description (account, day, amount with merchant) and *)
(* a ledger only counts rows by description.  A sync hears what the bank   *)
(* has and decides at one moment how many rows of each description are     *)
(* missing, whatever their ids: "the provider reports two, so we keep      *)
(* two".  Then "either the rows and their categories land together, or     *)
(* neither does".  Start dates are only days here.                         *)
(***************************************************************************)
EXTENDS Integers

CONSTANTS Accounts, Days, Kinds

VARIABLES
    charged,    \* how many charges of each description the bank has posted
    bank,       \* the balance of each account at the bank
    imported,   \* how many imported rows of each description the ledger holds
    typed,      \* how many rows of each description the user typed in
    stage,      \* "quiet", or how far a sync is: "told" or "decided"
    reported,   \* how many charges of each description the bank told that sync of
    pending,    \* how many rows of each description it will add
    shown,      \* the balance shown for each account, or NoRow
    through,    \* the day the last completed sync ended, or -1
    status      \* what the last sync that ended left the connection in

bankVars == <<charged, bank>>
syncVars == <<stage, reported, pending>>
bookVars == <<imported, typed, shown, through, status>>
vars == <<bankVars, syncVars, bookVars>>

NoRow == -1
Shapes == Accounts \X Days \X Kinds
Nothing == [x \in Shapes |-> 0]

Init ==
    /\ charged = Nothing /\ bank = [a \in Accounts |-> 0]
    /\ stage = "quiet" /\ reported = Nothing /\ pending = Nothing
    /\ imported = Nothing /\ typed = Nothing
    /\ shown = [a \in Accounts |-> NoRow]
    /\ through = -1 /\ status = "active"

Post(x) ==
    /\ charged' = [charged EXCEPT ![x] = @ + 1]
    /\ bank' = [bank EXCEPT ![x[1]] = @ + 1]
    /\ UNCHANGED <<syncVars, bookVars>>

\* The bank tells only what it has posted, and for the accounts that are there all that it
\* posted on a later day than that of the last completed sync.
Hear ==
    /\ stage = "quiet" /\ stage' = "told"
    /\ reported' \in [Shapes -> Nat]
    /\ \A x \in Shapes : /\ reported'[x] <= charged[x]
                         /\ shown[x[1]] # NoRow /\ x[2] > through => reported'[x] = charged[x]
    /\ UNCHANGED <<pending, bankVars, bookVars>>

\* What the ledger lacks of the reported charges that look alike, hand-typed rows counting.
Missing(x) == IF reported[x] <= imported[x] + typed[x] THEN 0
              ELSE reported[x] - (imported[x] + typed[x])

Decide ==
    /\ stage = "told" /\ stage' = "decided"
    /\ pending' = [x \in Shapes |-> Missing(x)]
    /\ UNCHANGED <<reported, bankVars, bookVars>>

Forget == stage' = "quiet" /\ reported' = Nothing /\ pending' = Nothing

\* A balance is only replaced by a later one of the bank's.
Refresh ==
    /\ shown' \in [Accounts -> Int]
    /\ \A a \in Accounts : shown[a] <= shown'[a] /\ shown'[a] <= bank[a]

\* A sync that completes: its rows, their accounts, the balances and the day, at once.
Complete ==
    /\ stage = "decided"
    /\ imported' = [x \in Shapes |-> imported[x] + pending[x]]
    /\ Refresh
    /\ \A x \in Shapes : pending[x] > 0 => shown'[x[1]] # NoRow
    /\ through' >= through /\ status' = "active"
    /\ Forget
    /\ UNCHANGED <<bankVars, typed>>

\* A sync the bank lets down keeps the balances it has, adds no row and leaves the day alone.
Fail ==
    /\ stage = "quiet"
    /\ Refresh
    /\ status' = "error"
    /\ UNCHANGED <<bankVars, syncVars, imported, typed, through>>

\* A sync that is cut off leaves nothing.
GiveUp == Forget /\ UNCHANGED <<bankVars, bookVars>>

TypeIn(x) ==
    /\ shown[x[1]] # NoRow
    /\ typed' = [typed EXCEPT ![x] = @ + 1]
    /\ UNCHANGED <<bankVars, syncVars, imported, shown, through, status>>

DeleteImported(x) ==
    /\ imported[x] > 0
    /\ imported' = [imported EXCEPT ![x] = @ - 1]
    /\ UNCHANGED <<bankVars, syncVars, typed, shown, through, status>>

DeleteTyped(x) ==
    /\ typed[x] > 0
    /\ typed' = [typed EXCEPT ![x] = @ - 1]
    /\ UNCHANGED <<bankVars, syncVars, imported, shown, through, status>>

Next ==
    \/ \E x \in Shapes : Post(x) \/ TypeIn(x) \/ DeleteImported(x) \/ DeleteTyped(x)
    \/ Hear \/ Decide \/ Complete \/ Fail \/ GiveUp

Spec == Init /\ [][Next]_vars
===============================================================================
