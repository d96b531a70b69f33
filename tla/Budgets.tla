-------------------------------- MODULE Budgets --------------------------------
(***************************************************************************)
(* Budgets (services/budgets.py): an amount per category and month, and    *)
(* what status, rollover_carry and suggest read out of it and of the       *)
(* transactions.  Nothing they say is stored: a transaction that arrives   *)
(* late, is filed elsewhere or ignored moves every month that carries.     *)
(* Months are numbered from the first, amounts are in cents.               *)
(***************************************************************************)
EXTENDS Detection

CONSTANTS
    Category, ParentOf, \* the tree of categories
    Merchants,
    None,        \* NULL
    Lookback,    \* _MAX_ROLLOVER_LOOKBACK, 24 in the code
    Amounts,     \* the amounts of transactions, outflows negative
    BudgetAmounts,
    TxnDays,     \* bound: the days transactions are of
    LastMonth, MaxTxns \* bounds: months with budgets; transactions

ASSUME FiniteAssumption == IsFiniteSet(Category) /\ IsFiniteSet(Merchants)
ASSUME LookbackAssumption == Lookback \in Nat
ASSUME AmountsAssumption == Amounts \subseteq Int /\ BudgetAmounts \subseteq Int
ASSUME NoneAssumption == None \notin Int
ASSUME BoundsAssumption == TxnDays \subseteq Nat \ {0} /\ LastMonth \in Nat \ {0} /\ MaxTxns \in Nat

VARIABLES
    today,  \* the clock
    txns,   \* db: the rows of transactions
    budget  \* db: the row of each category and month

ledger == <<today, txns, budget>>
-------------------------------------------------------------------------------
Month == 1 .. LastMonth

BudgetRow == [amount : BudgetAmounts, rollover : BOOLEAN]

TxnRow == [id : 1 .. MaxTxns, merchant : Merchants, category : Category \cup {None},
           day : Nat \ {0}, amount : Amounts, ignored : BOOLEAN]

LedgerInit ==
    /\ today = 1
    /\ txns = {}
    /\ budget = [key \in Category \X Month |-> None]

NextDay ==
    /\ MonthOf(today + 1) <= LastMonth
    /\ today' = today + 1
    /\ UNCHANGED <<txns, budget>>

\* A transaction is typed in, imported or synced, on the day it is of or later.
Post(merchant, category, day, amount) ==
    /\ Cardinality(txns) < MaxTxns
    /\ txns' = txns \cup {[id |-> Cardinality(txns) + 1, merchant |-> merchant, category |-> category,
                           day |-> day, amount |-> amount, ignored |-> FALSE]}
    /\ UNCHANGED <<today, budget>>

\* transactions.update
EditTxn(t, category, ignored) ==
    /\ txns' = (txns \ {t}) \cup {[t EXCEPT !.category = category, !.ignored = ignored]}
    /\ UNCHANGED <<today, budget>>

Upserted(month, items) ==
    [key \in DOMAIN budget |->
       IF key[2] = month /\ key[1] \in DOMAIN items THEN items[key[1]] ELSE budget[key]]

\* upsert
PutBudgets(month, items) ==
    /\ budget' = Upserted(month, items)
    /\ UNCHANGED <<today, txns>>

Budgeted(month) == {c \in Category : budget[<<c, month>>] # None}

\* copy_from
CopyBudgets(from, to) ==
    PutBudgets(to, [c \in Budgeted(from) |-> budget[<<c, from>>]])

LedgerNext ==
    \/ NextDay
    \/ \E merchant \in Merchants, category \in Category \cup {None}, day \in TxnDays, amount \in Amounts :
         day <= today /\ Post(merchant, category, day, amount)
    \/ \E t \in txns, category \in Category \cup {None}, ignored \in BOOLEAN : EditTxn(t, category, ignored)
    \/ \E month \in Month, c \in Category, row \in BudgetRow : PutBudgets(month, [only \in {c} |-> row])
    \/ \E from, to \in Month : CopyBudgets(from, to)
-------------------------------------------------------------------------------
(* What is read *)

\* _leaf_categories
LeafCategories == {c \in Category : \A d \in Category : ParentOf[d] # c}

Total(rows) == SumFunction([t \in rows |-> t.amount])

\* The rows behind _actuals_for_month.
SpentIn(c, month) == {t \in txns : t.category = c /\ ~t.ignored /\ MonthOf(t.day) = month}

\* _actuals_for_month, with 0 where there is no row.
Actual(c, month) == -Total(SpentIn(c, month))

\* _elapsed_fraction, of which this is the numerator; DaysIn(month) is the denominator.
ElapsedDays(month) ==
    IF today < FirstOf[month] THEN 0 ELSE Min({today - FirstOf[month] + 1, DaysIn(month)})

Carries(c, month) ==
    /\ month > 1
    /\ budget[<<c, month>>] # None /\ budget[<<c, month>>].rollover
    /\ budget[<<c, month - 1>>] # None

\* Mutant of CarryInto: what the month before had carried in itself is left out.
CarryOfOneMonth(c, month) ==
    IF Carries(c, month) THEN budget[<<c, month - 1>>].amount - Actual(c, month - 1) ELSE 0

\* _carry_into: "unspent *effective* budget from the month before".
CarryInto(c, month) ==
    LET carry[at \in (0 .. month) \X (0 .. Lookback)] ==
          LET m == at[1]
              depth == at[2]
          IN  IF depth = Lookback \/ ~Carries(c, m) THEN 0
              ELSE budget[<<c, m - 1>>].amount + carry[<<m - 1, depth + 1>>] - Actual(c, m - 1)
    IN  carry[<<month, 0>>]

\* status, of one category.  The pace is spent / effective over elapsed / days, as a fraction.
Status(c, month) ==
    LET row == budget[<<c, month>>]
        budgeted == IF row = None THEN 0 ELSE row.amount
        carryIn == IF row # None /\ row.rollover THEN CarryInto(c, month) ELSE 0
        effective == budgeted + carryIn
        actual == Actual(c, month)
        paced == effective > 0 /\ ElapsedDays(month) > 0
    IN  [budgeted |-> budgeted, carryIn |-> carryIn, effective |-> effective, actual |-> actual,
         remaining |-> effective - actual,
         pace |-> IF paced THEN <<actual * DaysIn(month), effective * ElapsedDays(month)>> ELSE None]

\* suggest: the months before with any spending.
Samples(c, month) ==
    LET months == {m \in Month : month - 3 <= m /\ m < month /\ SpentIn(c, m) # {}}
    IN  [i \in 1 .. Cardinality(months) |-> Actual(c, InOrder(months)[i])]

\* Mutant of Suggestion: the largest month stands for all.
SuggestionOfLargest(c, month) ==
    IF Samples(c, month) = <<>> THEN None ELSE 500 * (Max(Range(Samples(c, month))) \div 500)

\* _round_to_5 of the median, halves away from zero.
Suggestion(c, month) ==
    IF Samples(c, month) = <<>> THEN None
    ELSE LET twice == TwiceMedian(Samples(c, month))
             fives == (Abs(twice) + 500) \div 1000
         IN  500 * (IF twice < 0 THEN -fives ELSE fives)
-------------------------------------------------------------------------------
(* Properties *)

\* The months a carry adds up: those before, as far as each opts in and the one before it has a
\* row, and no more than the limit.
Chain(c, month) ==
    {m \in Month : /\ m < month /\ month - m <= Lookback
                   /\ \A k \in m + 1 .. month : Carries(c, k)}

\* "Recomputed from history every call, never stored": whatever was budgeted, copied, spent, refiled
\* or ignored since, in whatever order, a month carries in what its chain budgeted and did not spend.
\* And, as long as the limit does not cut the chain, that is what the month before shows as remaining.
CarryIsHistory ==
    \A c \in LeafCategories, month \in Month :
        LET carryIn == Status(c, month).carryIn
        IN  /\ carryIn = SumFunction([m \in Chain(c, month) |-> budget[<<c, m>>].amount - Actual(c, m)])
            /\ Carries(c, month) /\ Cardinality(Chain(c, month)) < Lookback =>
                  carryIn = Status(c, month - 1).remaining

\* "Trailing-3-month median actual per category, rounded to the nearest 5": a multiple of five with
\* half of the months that spent not above it and half not below, to within the rounding, and
\* there is one exactly if a month of the three spent.
SuggestionIsTypical ==
    \A c \in LeafCategories, month \in Month :
        LET amount == Suggestion(c, month)
            samples == Samples(c, month)
            half(test) == 2 * Cardinality(test) >= Len(samples)
        IN  /\ amount = None <=> \A m \in Month : m < month /\ month - m <= 3 => SpentIn(c, m) = {}
            /\ amount # None =>
                 /\ amount % 500 = 0
                 /\ half({i \in DOMAIN samples : samples[i] <= amount + 250})
                 /\ half({i \in DOMAIN samples : samples[i] >= amount - 250})
===============================================================================
