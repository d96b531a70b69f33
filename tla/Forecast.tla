-------------------------------- MODULE Forecast --------------------------------
(***************************************************************************)
(* The daily walk from today's cash and what is read from it               *)
(* (services/forecast.py), with what it walks over: recurring series as    *)
(* detection leaves them (services/recurring.py), accounts and goals       *)
(* (services/goals.py).  A series here is the row of a merchant, of whom   *)
(* there is one at a time; detect is one step, and its interleavings are   *)
(* the matter of Recurring.                                                *)
(***************************************************************************)
EXTENDS Budgets

CONSTANTS
    Accounts,     \* the household's accounts, but for the card the charges are on, which stays
    CashAccounts, \* those of CASH_ACCOUNT_TYPES
    Balances, Targets, Fundings, \* amounts of accounts and goals
    Goals         \* ids for goals

ASSUME AccountsAssumption == CashAccounts \subseteq Accounts /\ IsFiniteSet(Accounts)
ASSUME MoneyAssumption == Balances \subseteq Int /\ Targets \subseteq Int /\ Fundings \subseteq Nat

VARIABLES
    series,  \* db: the row of each merchant
    born,    \* how many rows each merchant has had, which tells them apart as their uuids do
    balance, \* db: the balance of each account that exists
    goals    \* db: the row of each goal, with the accounts it is linked to

vars == <<ledger, series, born, balance, goals>>
-------------------------------------------------------------------------------
(* Recurring series *)

SeriesRow ==
    [cadence : Cadence, direction : {1, -1}, twiceTypical : Nat, last : Nat, increase : Nat,
     lastDay : Nat, next : Nat, status : {"active", "ended", "cancelled", "ignored"},
     cancelledOn : Nat \cup {None},
     noted : BOOLEAN] \* it has notes or a cancel_url

\* The id of the row a merchant has.
Id(m) == <<m, born[m]>>

\* _group, without the ignored.  (The look-back of 548 days is longer than the model runs.)
Matching(merchant, direction) ==
    {t \in txns : t.merchant = merchant /\ Direction(t.amount) = direction}

Candidates(merchant) ==
    {Candidate({t \in Matching(merchant, d) : ~t.ignored}) : d \in {1, -1}} \ {NoCandidate}

\* Of the two directions of a merchant the one with more charges has the row; of two as strong, the
\* one the query, which has no order, returned first.
Strongest(candidates, first) ==
    CHOOSE c \in candidates :
        \A d \in candidates \ {c} :
            d.charges < c.charges \/ (d.charges = c.charges /\ c.direction = first)

\* _apply_candidate and detect's status rule
Applied(row, c) ==
    [cadence |-> c.cadence, direction |-> c.direction, twiceTypical |-> c.twiceTypical, last |-> c.last,
     increase |-> c.increase, lastDay |-> c.lastDay, next |-> c.next,
     status |-> IF row # None /\ row.status \in {"cancelled", "ignored"} THEN row.status
                ELSE IF PastGrace(c.next, c.gap, today) THEN "ended" ELSE "active",
     cancelledOn |-> IF row = None THEN None ELSE row.cancelledOn,
     noted |-> row # None /\ row.noted]

\* _is_user_touched
Touched(row) == row.status \in {"cancelled", "ignored"} \/ row.noted

\* A row without a candidate ends where the user has touched it, and goes where not.
Detected(merchant, first) ==
    LET row == series[merchant]
        candidates == Candidates(merchant)
    IN  CASE candidates # {} -> Applied(row, Strongest(candidates, first))
          [] candidates = {} /\ row # None /\ Touched(row) ->
               [row EXCEPT !.status = IF @ \in {"cancelled", "ignored"} THEN @ ELSE "ended"]
          [] OTHER -> None

\* A row that is inserted has an id of its own.
Detect ==
    /\ \E first \in {1, -1} : series' = [merchant \in Merchants |-> Detected(merchant, first)]
    /\ born' = [m \in Merchants |-> IF series[m] = None /\ series'[m] # None THEN born[m] + 1 ELSE born[m]]
    /\ UNCHANGED <<ledger, balance, goals>>

\* recurring.update: a status, if one is given (None if not), and whether there are notes or a link.
\* The day of a cancellation is set once.
UpdateSeries(merchant, status, noted) ==
    /\ series[merchant] # None
    /\ LET row == series[merchant]
           to == IF status = None THEN row.status ELSE status
           since == CASE status = None -> row.cancelledOn
                      [] status \notin {None, "cancelled"} -> None
                      [] OTHER -> IF row.cancelledOn = None THEN today ELSE row.cancelledOn
       IN  series' = [series EXCEPT ![merchant] =
                        [row EXCEPT !.status = to, !.cancelledOn = since, !.noted = noted]]
    /\ UNCHANGED <<ledger, born, balance, goals>>

Active == {m \in Merchants : series[m] # None /\ series[m].status = "active"}
Signed(m) == (series[m].twiceTypical * series[m].direction) \div 2
-------------------------------------------------------------------------------
(* Accounts and goals *)

GoalRow == [kind : {"savings", "debt_payoff"}, target : Targets, funding : Fundings \cup {None},
            status : {"active", "achieved", "archived"}, accounts : SUBSET Accounts]

SetBalance(a, amount) ==
    /\ a \in DOMAIN balance
    /\ balance' = [balance EXCEPT ![a] = amount]
    /\ UNCHANGED <<ledger, series, born, goals>>

\* The links of an account go with it: ON DELETE CASCADE.
DeleteAccount(a) ==
    /\ a \in DOMAIN balance
    /\ balance' = [b \in DOMAIN balance \ {a} |-> balance[b]]
    /\ goals' = [g \in Goals |->
                   IF goals[g] = None THEN None ELSE [goals[g] EXCEPT !.accounts = @ \ {a}]]
    /\ UNCHANGED <<ledger, series, born>>

\* create and update: every account must be one the household can see.
PutGoal(g, row) ==
    /\ row.accounts \subseteq DOMAIN balance
    /\ goals[g] = None => row.status = "active"
    /\ goals' = [goals EXCEPT ![g] = row]
    /\ UNCHANGED <<ledger, series, born, balance>>

DeleteGoal(g) ==
    /\ goals[g] # None
    /\ goals' = [goals EXCEPT ![g] = None]
    /\ UNCHANGED <<ledger, series, born, balance>>

\* progress_for
Progress(g) ==
    LET row == goals[g]
        linked == row.accounts
    IN  CASE linked = {} -> 0
          [] linked # {} /\ row.kind = "savings" -> SumFunction([a \in linked |-> balance[a]])
          [] OTHER -> row.target - SumFunction([a \in linked |-> Abs(balance[a])])
-------------------------------------------------------------------------------
(* The walk *)

\* _cash_balance
CashBalance == SumFunction([a \in CashAccounts \cap DOMAIN balance |-> balance[a]])

\* _first_occurrence_on_or_after
FirstOnOrAfter(m, day) ==
    LET walk[cursor \in Nat \ {0}] ==
          IF cursor >= day THEN cursor ELSE walk[StepForward(cursor, series[m].cadence)]
    IN  walk[series[m].next]

\* The days from today to `end` on which the cursor of the series lands.
Occurrences(m, end) ==
    LET from[cursor \in Nat \ {0}] ==
          IF cursor > end THEN {} ELSE {cursor} \cup from[StepForward(cursor, series[m].cadence)]
    IN  from[FirstOnOrAfter(m, today)]

\* _recurring_covered_categories
Covered == {t.category : t \in {u \in txns : \E m \in Active : u \in Matching(m, series[m].direction)}} \ {None}

\* Budgeted this month for what no series covers, spread over its days to the cent.
DailyDiscretionary ==
    LET month == MonthOf(today)
        free == (LeafCategories \ Covered) \cap Budgeted(month)
    IN  RoundDiv(SumFunction([c \in free |-> Status(c, month).budgeted]), DaysIn(month))

Landings(end) == UNION {{<<m, d>> : d \in Occurrences(m, end)} : m \in Active}

\* Mutant of Project: what the user adds counts from the day after.
ProjectLate(end, extra) ==
    LET landings == Landings(end)
        cash == CashBalance
        daily == DailyDiscretionary
        paid(d) == SumFunction([l \in {k \in landings : k[2] <= d} |-> Signed(l[1])])
    IN  [d \in today .. end |->
           cash + paid(d) - (d - today + 1) * daily + Total({h \in extra : today <= h.day /\ h.day < d})]

\* project: the balance of each day from today to `end`, with the hypotheticals `extra`; a day's is
\* the one before, with what lands on the day, less a day's spending.
Project(end, extra) ==
    LET landings == Landings(end)
        cash == CashBalance
        daily == DailyDiscretionary
        paid(d) == SumFunction([l \in {k \in landings : k[2] <= d} |-> Signed(l[1])])
    IN  [d \in today .. end |->
           cash + paid(d) - (d - today + 1) * daily + Total({h \in extra : today <= h.day /\ h.day <= d})]

Lowest(walk) == Min(Range(walk))

\* can_i_afford
Purchase(amount, day) == {[amount |-> -Abs(amount), day |-> day]}
WithPurchase(amount, day, end) == Project(end, Purchase(amount, day))
-------------------------------------------------------------------------------
(* Safe to spend *)

\* The wait is for the next payday, not for today's.
Paydays ==
    {IF FirstOnOrAfter(m, today) = today THEN StepForward(today, series[m].cadence)
     ELSE FirstOnOrAfter(m, today) : m \in {n \in Active : series[n].direction = 1}}

\* The day after the window.
WindowEnd == IF Paydays = {} THEN today + 30 ELSE Min(Paydays)

\* Mutant of SafeToSpend: the balance on payday itself is in the window.
SafeToSpendToPayday == Max({0, Lowest(Project(WindowEnd, {}))})

\* safe_to_spend
SafeToSpend == Max({0, Lowest(Project(WindowEnd - 1, {}))})
-------------------------------------------------------------------------------
(* When a goal is reached *)

CeilDiv(a, b) == -((-a) \div b)

MaxFundedMonths == 1200

\* _goal_date_from_series: by the goal's own funding, month by month, or by the surplus of the walk.
GoalDate(g, walk) ==
    LET left == goals[g].target - Progress(g)
        funded[n \in Nat] == IF n = 0 THEN today ELSE AddMonths(funded[n - 1], 1)
        months == CeilDiv(left, goals[g].funding)
        last == Max(DOMAIN walk)
        surplus == walk[last] - walk[today]
    IN  IF left <= 0 THEN today
        ELSE IF goals[g].funding \notin {None, 0}
        THEN IF months > MaxFundedMonths THEN None ELSE funded[months]
        ELSE IF surplus <= 0 THEN None
        ELSE today + CeilDiv(left * (last - today), surplus)

\* goal_projection, and goals_overview for all goals from one walk
GoalProjection(g, end) == GoalDate(g, Project(end, {}))
-------------------------------------------------------------------------------
Init ==
    /\ LedgerInit
    /\ series = [m \in Merchants |-> None]
    /\ born = [m \in Merchants |-> 0]
    /\ balance \in [Accounts -> Balances]
    /\ goals = [g \in Goals |-> None]

GoalNext ==
    \/ \E a \in Accounts, amount \in Balances : SetBalance(a, amount)
    \/ \E a \in Accounts : DeleteAccount(a)
    \/ \E g \in Goals, row \in GoalRow : PutGoal(g, row)
    \/ \E g \in Goals : DeleteGoal(g)

SeriesNext ==
    \/ Detect
    \/ \E m \in Merchants, status \in {"active", "cancelled", "ignored", None}, noted \in BOOLEAN :
         UpdateSeries(m, status, noted)

Next == (LedgerNext /\ UNCHANGED <<series, born, balance, goals>>) \/ GoalNext \/ SeriesNext

Spec == Init /\ [][Next]_vars
-------------------------------------------------------------------------------
(* Properties *)

Horizon == AddMonths(today, 2)

\* "The 31st in a 30-day month becomes the 30th": however the cursor is clamped, and however old the
\* date detection left, the walk pays a monthly series once in every month between the first payment
\* and the end of the horizon, and a weekly one once in any seven days.
PaysOncePerPeriod ==
    \A m \in Active :
        LET days == Occurrences(m, Horizon)
            during(first, last) == Cardinality({d \in days : first <= d /\ d <= last})
            start == Max({today, series[m].next})
        IN  CASE series[m].cadence = "monthly" ->
                   \A month \in MonthOf(start) + 1 .. MonthOf(Horizon) - 1 :
                       during(FirstOf[month], FirstOf[month + 1] - 1) = 1
              [] series[m].cadence = "weekly" -> \A d \in start .. Horizon - 6 : during(d, d + 6) = 1
              [] OTHER -> TRUE

\* "What can leave the cash accounts before the next payday without going negative": a purchase of
\* that much today leaves every day before the next payday at zero or more, one of a cent more does
\* not, and nothing is offered where the walk is negative already.
SafeToSpendIsTheMost ==
    LET staysNonNegative(amount) == Lowest(WithPurchase(amount, today, WindowEnd - 1)) >= 0
    IN  /\ SafeToSpend > 0 => staysNonNegative(SafeToSpend)
        /\ ~staysNonNegative(SafeToSpend + 1)

\* "Every number on the screen traces to the same walk": a purchase changes nothing before its day,
\* takes its amount off every day from then on, and brings the day a goal is reached no nearer.
PurchaseIsFelt ==
    \A amount \in BudgetAmounts, day \in {today, today + 1, Horizon} :
        LET with == WithPurchase(amount, day, Horizon)
            baseline == Project(Horizon, {})
        IN  /\ \A d \in today .. Horizon : baseline[d] - with[d] = IF d < day THEN 0 ELSE Abs(amount)
            /\ \A g \in {h \in Goals : goals[h] # None /\ goals[h].status = "active"} :
                  GoalDate(g, with) # None =>
                     /\ GoalProjection(g, Horizon) # None
                     /\ GoalProjection(g, Horizon) <= GoalDate(g, with)
===============================================================================
