------------------------------- MODULE MCPlanning -------------------------------
(* Budgets and the forecast over a short year of short months, from histories of budgets,    *)
(* spending, series and goals that requests served one after the other have left.            *)
EXTENDS Forecast, TLC

CONSTANTS c1, g1, m1, a1, a2, goal,
    MaxRequests \* bound: requests from the start on

VARIABLE left \* requests still to come

ShortYear == <<10, 8, 10, 9, 10>>
LeafAndGroup == {c1, g1}
UnderGroup == (c1 :> g1 @@ g1 :> None)
OneMerchant == {m1}
CashAndLoan == {a1, a2}
Cash == {a1}
OneGoal == {goal}
ThreeDays == {3, 12, 20}
SpentAmounts == {-600, -1400}
OneBudget == {1000}
TwoBalances == {200, 2000}
OneTarget == {3000}
OneFunding == {500}

SpentOn(id, day, amount) ==
    [id |-> id, merchant |-> m1, category |-> c1, day |-> day, amount |-> amount, ignored |-> FALSE]

\* Four months behind, the last two with budgets, and something spent in some of them.
BudgetHistory ==
    /\ today = FirstOf[4]
    /\ txns \in {{SpentOn(1, 3, -600), SpentOn(2, 12, a), SpentOn(3, 20, -600)} : a \in SpentAmounts}
                  \cup {{SpentOn(1, 20, -1400)}}
    /\ \E rows \in [Month -> {None} \cup [amount : {1000}, rollover : BOOLEAN]] :
         budget = [key \in Category \X Month |-> IF key[1] = c1 THEN rows[key[2]] ELSE None]
    /\ series = [m \in Merchants |-> None]
    /\ born = [m \in Merchants |-> 0]
    /\ balance = (a1 :> 2000 @@ a2 :> 200)
    /\ goals = [g \in Goals |-> None]

Row(cadence, direction, amount, next) ==
    [cadence |-> cadence, direction |-> direction, twiceTypical |-> 2 * amount, last |-> amount,
     increase |-> 0, lastDay |-> 1, next |-> next, status |-> "active", cancelledOn |-> None,
     noted |-> FALSE]

\* A series, due or overdue, on the last days of a month or in it; a goal on the cash or the loan.
ForecastHistory ==
    /\ today \in {10, 18}
    /\ txns = {}
    /\ \E amount \in {0, 1000} :
         budget = [key \in Category \X Month |->
                     IF key = <<c1, MonthOf(today)>> /\ amount > 0
                     THEN [amount |-> amount, rollover |-> FALSE] ELSE None]
    /\ \E cadence \in {"weekly", "monthly"}, direction \in {1, -1}, amount \in {300, 900}, next \in {8, 10, 18, 21} :
         series = (m1 :> Row(cadence, direction, amount, next)) /\ born = (m1 :> 1)
    /\ \E cash \in Balances : balance = (a1 :> cash @@ a2 :> 200)
    /\ goals = (goal :> None)
       \/ \E kind \in {"savings", "debt_payoff"}, funding \in {None, 500} :
            goals = (goal :> [kind |-> kind, target |-> 3000, funding |-> funding, status |-> "active",
                              accounts |-> {IF kind = "savings" THEN a1 ELSE a2}])

Start == (BudgetHistory \/ ForecastHistory) /\ left = MaxRequests

BoundedNext ==
    \/ left > 0 /\ left' = left - 1 /\ Next
    \/ left = 0 /\ UNCHANGED <<vars, left>>

BoundedSpec == Start /\ [][BoundedNext]_<<vars, left>>
===============================================================================
