-------------------------------- MODULE MCAlerts --------------------------------
(* Alerts over a few days of the calendar, from weeks of charges already detected: of two      *)
(* merchants, or of one whose charges may also be of a price that breaks the pattern, and be   *)
(* ignored.                                                                                    *)
EXTENDS Alerts, TLC

CONSTANTS c1, m1, m2, a1,
    LastDay,    \* bound: the last day
    MaxRequests \* bound: charges of m1, changes, and dismissals from the start on

VARIABLE left \* requests still to come

Year == <<31, 28, 31, 30, 31, 30, 31, 31, 30, 31, 30, 31>>
OneCategory == {c1}
NoGroups == (c1 :> None)
OneMerchant == {m1}
TwoMerchants == {m1, m2}
OneAccount == {a1}
Prices == {-1000, -1200, -1900, -2500}
Nothing == {}
SmallBalance == {2000}

Charged(id, merchant, day, amount) ==
    [id |-> id, merchant |-> merchant, category |-> c1, day |-> day, amount |-> amount, ignored |-> FALSE]

Weekly(merchant, first) == {Charged(first + i, merchant, 7 * i + 1, -1000) : i \in 0 .. 3}

Alone == series[m2] = None

\* Four weekly charges of each merchant, with the next due on the next day, or of m1 alone, with the
\* fifth at a higher price.
Start ==
    /\ \/ today = 28 /\ txns = Weekly(m1, 1) \cup Weekly(m2, 5)
       \/ today = 29 /\ txns = Weekly(m1, 1) \cup {Charged(5, m1, 29, -1200)}
    /\ budget = [key \in Category \X Month |-> [amount |-> 5000, rollover |-> FALSE]]
    /\ series = [m \in Merchants |-> IF Candidates(m) = {} THEN None ELSE Applied(None, Strongest(Candidates(m), -1))]
    /\ born = [m \in Merchants |-> IF series[m] = None THEN 0 ELSE 1]
    /\ balance = (a1 :> 2000)
    /\ goals = [g \in Goals |-> None]
    /\ page = {} /\ dismissed = {}
    /\ left = IF Alone THEN MaxRequests + 1 ELSE MaxRequests

Request ==
    \/ /\ today \in TxnDays
       /\ \E amount \in Amounts : amount \in (IF Alone THEN {-1200, -1900, -2500} ELSE {-1000, -1200}) /\ Post(m1, c1, today, amount)
       /\ UNCHANGED <<series, born, balance, goals, page, dismissed>>
    \/ /\ \E t \in txns : t.amount < -1200 /\ EditTxn(t, t.category, ~t.ignored)
       /\ UNCHANGED <<series, born, balance, goals, page, dismissed>>
    \/ /\ \E m \in Merchants, status \in {"active", "cancelled"} : UpdateSeries(m, status, FALSE)
       /\ UNCHANGED <<page, dismissed>>
    \/ Alone /\ UpdateSeries(m1, None, TRUE) /\ UNCHANGED <<page, dismissed>>
    \/ Listed # {} /\ Load

BoundedNext ==
    \/ left > 0 /\ left' = left - 1 /\ Request
    \/ UNCHANGED left /\ today < LastDay /\ NextDay /\ UNCHANGED <<series, born, balance, goals, page, dismissed>>
    \/ UNCHANGED <<left, page, dismissed>> /\ Detect
    \/ UNCHANGED left /\ \E alert \in page : alert \notin dismissed /\ Dismiss(alert)
    \/ today = LastDay /\ UNCHANGED <<allVars, left>>

BoundedSpec == Start /\ [][BoundedNext]_<<allVars, left>>
===============================================================================
