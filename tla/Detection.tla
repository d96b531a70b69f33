------------------------------- MODULE Detection -------------------------------
(***************************************************************************)
(* What services/recurring.py reads out of the charges of one merchant in  *)
(* one direction (_build_candidate).  A transaction has a day, an amount   *)
(* in cents and what else it may have; medians and scores are kept as      *)
(* whole numbers, twice a median and sixty times a share of charges.       *)
(***************************************************************************)
EXTENDS Calendar, SequencesExt

CONSTANT NoCandidate \* None

Abs(n) == IF n < 0 THEN -n ELSE n
Direction(amount) == IF amount >= 0 THEN 1 ELSE -1

MinCharges == 3
MinSpanDays == 21
MinConfidence == 55
IncreaseFloor == 100 \* cents

\* CADENCE_BUCKETS
Buckets == [weekly |-> <<5, 9>>, biweekly |-> <<12, 16>>, monthly |-> <<25, 35>>,
            quarterly |-> <<80, 100>>, yearly |-> <<350, 380>>]

\* Equal numbers stay as they come.
Ascending(numbers) ==
    LET placed == {<<numbers[k], k>> : k \in DOMAIN numbers}
        upTo(p) == {q \in placed : q[1] < p[1] \/ (q[1] = p[1] /\ q[2] <= p[2])}
    IN  [i \in DOMAIN numbers |-> (CHOOSE p \in placed : Cardinality(upTo(p)) = i)[1]]

InOrder(numbers) ==
    [i \in 1 .. Cardinality(numbers) |->
       CHOOSE n \in numbers : Cardinality({k \in numbers : k < n}) = i - 1]

\* Twice statistics.median.
TwiceMedian(numbers) ==
    LET n == Len(numbers)
        sorted == Ascending(numbers)
    IN  sorted[(n + 1) \div 2] + sorted[n \div 2 + 1]

\* round(a / b), halves to the even neighbour.
RoundDiv(a, b) ==
    LET floor == a \div b
        up == 2 * (a % b) > b \/ (2 * (a % b) = b /\ floor % 2 = 1)
    IN  IF up THEN floor + 1 ELSE floor
-------------------------------------------------------------------------------
\* _dedupe_same_day: the larger charge of each day, the days in order.
DedupeSameDay(txns) ==
    LET days == InOrder({t.day : t \in txns})
        largest(ofDay) == CHOOSE t \in ofDay : \A u \in ofDay : Abs(u.amount) <= Abs(t.amount)
    IN  [i \in DOMAIN days |-> largest({t \in txns : t.day = days[i]})]

\* _classify_cadence
CadencesOf(twiceGap) ==
    {c \in Cadence : 2 * Buckets[c][1] <= twiceGap /\ twiceGap <= 2 * Buckets[c][2]}

InBucket(gap, cadence, n) == n * Buckets[cadence][1] <= gap /\ gap <= n * Buckets[cadence][2]

\* Of the gaps, two points for one in the bucket and one for a multiple of it.
CadencePoints(gaps, cadence, twiceGap) ==
    LET whole == {i \in DOMAIN gaps : InBucket(gaps[i], cadence, 1)}
        missed == {i \in DOMAIN gaps \ whole :
                     LET n == RoundDiv(2 * gaps[i], twiceGap) IN n >= 2 /\ InBucket(gaps[i], cadence, n)}
    IN  2 * Cardinality(whole) + Cardinality(missed)

\* 30 points for a spread up to 5 % of the median amount, 24 up to 25 %, 15 up to 100 %.
AmountPoints(spread, twiceTypical) ==
    CASE 40 * spread <= twiceTypical \/ twiceTypical = 0 -> 30
      [] 40 * spread > twiceTypical /\ 8 * spread <= twiceTypical -> 24
      [] 8 * spread > twiceTypical /\ 2 * spread <= twiceTypical /\ twiceTypical # 0 -> 15
      [] OTHER -> 0

\* 50 points for the cadence, 30 for the amounts, 20 for six charges or more.
Confidence(cadencePoints, gaps, amountPoints, charges) ==
    RoundDiv(75 * cadencePoints + gaps * (3 * amountPoints + 10 * Min({charges, 6})), 3 * gaps)

\* Twice what the last charge is above the median of those before, 0 if it is no increase.
PriceIncrease(last, twicePrior) ==
    LET above == 2 * last - twicePrior
    IN  IF twicePrior > 0 /\ above >= 2 * IncreaseFloor /\ 10 * above >= twicePrior THEN above ELSE 0

\* _next_expected_on
NextExpectedOn(last, cadence, gap) ==
    IF cadence \in DOMAIN StepMonths THEN AddMonths(last, StepMonths[cadence]) ELSE last + gap

\* _build_candidate
Candidate(txns) ==
    LET charges == DedupeSameDay(txns)
        n == Len(charges)
        gaps == [i \in 1 .. n - 1 |-> charges[i + 1].day - charges[i].day]
        twiceGap == TwiceMedian(gaps)
        cadence == CHOOSE c \in CadencesOf(twiceGap) : TRUE
        points == CadencePoints(gaps, cadence, twiceGap)
        amounts == Ascending([i \in 1 .. n |-> Abs(charges[i].amount)])
        spread == amounts[n] - amounts[1]
        amountPoints == AmountPoints(spread, TwiceMedian(amounts))
        last == charges[n]
        gap == RoundDiv(twiceGap, 2)
    IN  IF \/ n < MinCharges
           \/ charges[n].day - charges[1].day < MinSpanDays
           \/ CadencesOf(twiceGap) = {}
           \/ 5 * points < 6 * (n - 1) \* MIN_CADENCE_SCORE, 60 %
           \/ amountPoints = 0
           \/ Confidence(points, n - 1, amountPoints, n) < MinConfidence
        THEN NoCandidate
        ELSE [cadence |-> cadence, direction |-> Direction(last.amount),
              twiceTypical |-> TwiceMedian(amounts), last |-> Abs(last.amount),
              increase |-> PriceIncrease(Abs(last.amount),
                                         TwiceMedian([i \in 1 .. n - 1 |-> Abs(charges[i].amount)])),
              charges |-> n, lastDay |-> last.day, gap |-> gap,
              next |-> NextExpectedOn(last.day, cadence, gap),
              confidence |-> Confidence(points, n - 1, amountPoints, n)]

\* _past_grace
PastGrace(next, gap, today) == today > next + Max({7, gap \div 2})
===============================================================================
