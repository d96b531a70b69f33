------------------------------- MODULE Calendar -------------------------------
(***************************************************************************)
(* Dates as day numbers.  The lengths of the months repeat with the years, *)
(* so that of one year gives the calendar without leap days.               *)
(***************************************************************************)
EXTENDS Integers, Sequences, FiniteSetsExt

CONSTANT MonthDays \* the lengths of the months of a year

ASSUME MonthDaysAssumption == MonthDays \in Seq(Nat \ {0}) /\ MonthDays # <<>>

MonthsInYear == Len(MonthDays)
DaysIn(month) == MonthDays[((month - 1) % MonthsInYear) + 1]

\* _first_of_month of the months 1, 2, ...
FirstOf[month \in Nat \ {0}] == IF month = 1 THEN 1 ELSE FirstOf[month - 1] + DaysIn(month - 1)

MonthOf(day) == CHOOSE month \in 1 .. day : FirstOf[month] <= day /\ day < FirstOf[month + 1]

DayInMonth(day) == day - FirstOf[MonthOf(day)] + 1

\* Mutant of AddMonths: the 31st runs over into the month after.
AddMonthsRunningOver(day, n) == FirstOf[MonthOf(day) + n] + DayInMonth(day) - 1

\* _add_months: "the 31st in a 30-day month becomes the 30th".
AddMonths(day, n) ==
    LET month == MonthOf(day) + n
    IN  FirstOf[month] + Min({DayInMonth(day), DaysIn(month)}) - 1

\* _CADENCE_STEP_DAYS, _CADENCE_STEP_MONTHS
StepDays == [weekly |-> 7, biweekly |-> 14]
StepMonths == [monthly |-> 1, quarterly |-> 3, yearly |-> 12]
Cadence == DOMAIN StepDays \cup DOMAIN StepMonths

\* _step_forward
StepForward(day, cadence) ==
    IF cadence \in DOMAIN StepDays THEN day + StepDays[cadence] ELSE AddMonths(day, StepMonths[cadence])
===============================================================================
