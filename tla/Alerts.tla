--------------------------------- MODULE Alerts ---------------------------------
(***************************************************************************)
(* Alerts (services/alerts.py): rebuilt on every read from the rows of     *)
(* the others, and hidden by a stored key that names the fact behind one.  *)
(* An alert is its key: a kind, the id of a row, and the date of the       *)
(* occurrence, of the month, or, for a price, the new price.  A user       *)
(* dismisses what a page shows that was loaded earlier.                    *)
(***************************************************************************)
EXTENDS Forecast

CONSTANTS
    LargeUnknown, \* LARGE_CHARGE_UNKNOWN_MERCHANT, in cents
    Transfers     \* the categories under Transfers

ASSUME LargeAssumption == LargeUnknown \in Nat /\ Transfers \subseteq Category

VARIABLES
    page,     \* what the client was shown last: keys, with the day and the series, which are history
    dismissed \* db: the keys of alert_dismissals, each as it was shown

allVars == <<vars, page, dismissed>>

BillDueDays == 3
YearlyRenewalDays == 30
LowBalanceDays == 14
LargeLookbackDays == 7
LargeMultiple == 3
-------------------------------------------------------------------------------
\* _key
Key(kind, subject, on) == <<kind, subject, on>>

\* _upcoming
Upcoming(m, days) ==
    /\ series[m].status = "active" /\ series[m].direction = -1
    /\ today <= series[m].next /\ series[m].next <= today + days

Rows == {m \in Merchants : series[m] # None}

\* A yearly charge gets the renewal alert with its longer lead, every other the bill.
Renewals == {Key("yearly_renewal", Id(m), series[m].next) :
               m \in {n \in Rows : series[n].cadence = "yearly" /\ Upcoming(n, YearlyRenewalDays)}}
Bills == {Key("bill_due", Id(m), series[m].next) :
            m \in {n \in Rows : series[n].cadence # "yearly" /\ Upcoming(n, BillDueDays)}}

\* Mutant of PriceIncreases: keyed on the day of the charge.
PriceIncreasesByDay == {Key("price_increase", Id(m), series[m].lastDay) :
                          m \in {n \in Active : series[n].direction = -1 /\ series[n].increase > 0}}

PriceIncreases == {Key("price_increase", Id(m), series[m].last) :
                     m \in {n \in Active : series[n].direction = -1 /\ series[n].increase > 0}}

Cancelled == {m \in Rows : series[m].status = "cancelled" /\ series[m].cancelledOn # None}

\* Mutant of SinceCancellation: only the charges since the last cancellation are asked for.
SinceLastCancellation ==
    IF Cancelled = {} THEN {} ELSE {t \in txns : t.day >= Max({series[m].cancelledOn : m \in Cancelled})}

\* One query for every cancelled series together.
SinceCancellation ==
    IF Cancelled = {} THEN {} ELSE {t \in txns : t.day >= Min({series[m].cancelledOn : m \in Cancelled})}

\* _latest_charges_since_cancellation
LatestCharge(m) ==
    LET days == {t.day : t \in SinceCancellation \cap Matching(m, series[m].direction)}
    IN  IF days = {} THEN None ELSE Max(days)

StillBilling == {Key("still_billing", Id(m), LatestCharge(m)) :
                   m \in {n \in Cancelled : LatestCharge(n) # None /\ LatestCharge(n) > series[n].cancelledOn}}

\* _low_balance: the first day below zero, if there is a cash account to start from.
LowBalance ==
    LET walk == Project(today + LowBalanceDays, {})
        below == {d \in DOMAIN walk : walk[d] < 0}
    IN  IF CashAccounts \cap DOMAIN balance = {} \/ below = {} THEN {}
        ELSE {Key("low_balance", "cash", FirstOf[MonthOf(Min(below))])}

\* _over_budget
OverBudget ==
    LET month == MonthOf(today)
        over == {c \in LeafCategories : Status(c, month).effective > 0 /\ Status(c, month).remaining < 0}
    IN  {Key("over_budget", c, FirstOf[month]) : c \in over}

\* What a merchant's outgoing series says is usual.
Usual(m) == IF series[m] # None /\ series[m].direction = -1 THEN series[m].twiceTypical ELSE None

\* _large_charges
LargeCharges ==
    {Key("large_charge", t.id, t.day) :
       t \in {u \in txns :
                /\ u.day >= today - LargeLookbackDays /\ u.amount < 0 /\ ~u.ignored
                /\ u.category \notin Transfers
                /\ IF Usual(u.merchant) = None THEN -u.amount >= LargeUnknown
                   ELSE -2 * u.amount >= LargeMultiple * Usual(u.merchant)}}

\* list_for, before what was dismissed is taken out
Found == Renewals \cup Bills \cup PriceIncreases \cup StillBilling \cup LowBalance \cup OverBudget \cup LargeCharges

Dismissed == {d.key : d \in dismissed}

\* Mutant of Visible: what was dismissed of a subject hides all of its kind.
VisibleBySubject(found) ==
    {key \in found : \A other \in Dismissed : <<key[1], key[2]>> # <<other[1], other[2]>>}

Visible(found) == found \ Dismissed

\* list_for
Listed == Visible(Found)

\* An alert as it is shown, with the series if it is about one.
Shown(key) ==
    [key |-> key, on |-> today,
     row |-> IF key[1] \in {"yearly_renewal", "bill_due", "price_increase", "still_billing"}
             THEN series[key[2][1]] ELSE None]

\* A page is loaded.
Load ==
    /\ page' = {Shown(key) : key \in Listed}
    /\ UNCHANGED <<vars, dismissed>>

\* dismiss: once, and "the alert may have resolved between the page load and the click".
Dismiss(alert) ==
    /\ dismissed' = IF alert.key \in Dismissed THEN dismissed ELSE dismissed \cup {alert}
    /\ UNCHANGED <<vars, page>>

AlertsInit == Init /\ page = {} /\ dismissed = {}

AlertsNext ==
    \/ Next /\ UNCHANGED <<page, dismissed>>
    \/ Load
    \/ \E alert \in page : Dismiss(alert)

AlertsSpec == AlertsInit /\ [][AlertsNext]_allVars
-------------------------------------------------------------------------------
(* Properties *)

TypeOK ==
    /\ today \in Nat
    /\ txns \subseteq TxnRow
    /\ \A t, u \in txns : t.id = u.id => t = u
    /\ budget \in [Category \X Month -> BudgetRow \cup {None}]
    /\ series \in [Merchants -> SeriesRow \cup {None}]
    /\ born \in [Merchants -> Nat]
    /\ \A m \in Rows : series[m].status = "cancelled" <=> series[m].cancelledOn # None
    /\ DOMAIN balance \subseteq Accounts
    /\ \A a \in DOMAIN balance : balance[a] \in Balances
    /\ goals \in [Goals -> GoalRow \cup {None}]
    /\ \A key \in Dismissed :
          key[1] \in {"bill_due", "price_increase", "yearly_renewal", "still_billing", "low_balance",
                      "over_budget", "large_charge"}

\* "A later charge is what the still_billing alert reports": a series marked cancelled whose merchant
\* has charged after that day says so, whatever else was cancelled earlier or later and however often
\* detection has rewritten the row since; and a series that is not marked is of no such alert.
CancelledChargesAreTold ==
    /\ TypeOK
    /\ \A m \in Rows :
          (\E key \in StillBilling : key[2] = Id(m)) <=>
              m \in Cancelled /\ \E t \in Matching(m, series[m].direction) : t.day > series[m].cancelledOn

\* "Dismissing one occurrence leaves the next one visible": a bill that was charged after the alert
\* that was dismissed had been shown is announced again, and a cancelled series that charged since
\* says so again, however long ago the page was loaded.
NextOccurrenceShows ==
    \A m \in Rows :
        LET dismissals(kinds) == {d \in dismissed : d.key[1] \in kinds /\ d.key[2] = Id(m)}
        IN  /\ (\E t \in Matching(m, series[m].direction) :
                   /\ m \in Cancelled /\ t.day > series[m].cancelledOn
                   /\ \A d \in dismissals({"still_billing"}) : t.day > d.on)
               => \E key \in Visible(StillBilling) : key[2] = Id(m)
            /\ Upcoming(m, BillDueDays)
               /\ (\A d \in dismissals({"bill_due", "yearly_renewal"}) : series[m].lastDay > d.on)
               => \E key \in Visible(Bills \cup Renewals) : key[2] = Id(m)

\* "A dismissal has to outlive every charge at the same price": if an increase of a series was
\* dismissed and what its merchant has charged since the charge it was about was all at that price,
\* a detection lists no increase of it, whatever prices came, were ignored or were told of in
\* between.  That is for as long as the row lives: detection deletes one that no longer shows a
\* pattern, and what it inserts later has another id.
DismissedPriceStays ==
    [][\A m \in Rows', d \in dismissed :
         LET since == {t \in Matching(m, -1) : ~t.ignored /\ t.day >= d.row.lastDay}
         IN  /\ d.key[1] = "price_increase" /\ d.key[2] = Id(m)'
             /\ since # {} /\ \A t \in since : t.amount = -d.row.last
             /\ Detect
             => \A key \in Visible(PriceIncreases)' : key[2] # Id(m)']_allVars
===============================================================================
