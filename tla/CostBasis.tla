------------------------------- MODULE CostBasis -------------------------------
(***************************************************************************)
(* What the trade log says in money: the running average cost and realized *)
(* gain of services/portfolio.py, the holdings page built from it, and the *)
(* lot by lot gains of services/tax.py.  The two replay one log by two     *)
(* methods; fees go into what a buy costs and out of what a sell brings.   *)
(*                                                                         *)
(* Prices and fees are in cents, a price is that of one unit of quantity,  *)
(* and a trade is made at the price of its day.  What divides is kept as a *)
(* fraction: Python's decimals carry 28 digits, which stands for exact,    *)
(* and only tax.py rounds, each proceeds and each basis by itself.         *)
(***************************************************************************)
EXTENDS Trades

CONSTANTS
    PriceOn, \* the price on each day
    Fees     \* of each buy and each sell

ASSUME MoneyAssumption == PriceOn \in [Day -> Nat] /\ Fees \in Nat
-------------------------------------------------------------------------------
(* Fractions: <<numerator, denominator>> *)

Whole(n) == <<n, 1>>
Times(k, a) == <<k * a[1], a[2]>>
Over(a, k) == <<a[1], k * a[2]>>
Plus(a, b) == <<a[1] * b[2] + b[1] * a[2], a[2] * b[2]>>
Minus(a, b) == Plus(a, Times(-1, b))

\* _money: halves go to the even cent.
Cents(a) ==
    LET floor == a[1] \div a[2]
        rest == 2 * (a[1] % a[2])
    IN  IF rest > a[2] \/ (rest = a[2] /\ floor % 2 = 1) THEN floor + 1 ELSE floor
-------------------------------------------------------------------------------
(* portfolio *)

NoCost == [units |-> 0, oversold |-> FALSE, cost_base |-> Whole(0), realized |-> Whole(0)]

Gross(t) == t.quantity * PriceOn[t.day]

\* _apply, all of it; `Apply` has what it does to the units.
ApplyCost(position, t) ==
    LET after == Apply(position, t)
        sold == IF position.units = 0 THEN Whole(0) ELSE Times(t.quantity, Over(position.cost_base, position.units))
    IN  IF after.oversold THEN after
        ELSE CASE t.type = "buy" -> [after EXCEPT !.cost_base = Plus(@, Whole(Gross(t) + Fees))]
               [] t.type = "sell" ->
                    [after EXCEPT !.realized = Plus(@, Minus(Whole(Gross(t) - Fees), sold)),
                                  !.cost_base = IF after.units = 0 THEN Whole(0) ELSE Minus(@, sold)]
               [] t.type = "split" -> after

Cost(a) == ReplayTrades(ApplyCost, NoCost, Of(a, trades))

Sum(figures) == FoldFunction(Plus, Whole(0), figures)

\* holdings, of the security over its accounts: what it is worth less what it cost.
Unrealized(costs, price) ==
    LET units == FoldFunction(+, 0, [a \in DOMAIN costs |-> costs[a].units])
    IN  IF units = 0 THEN Whole(0)
        ELSE Minus(Whole(units * price), Sum([a \in DOMAIN costs |-> costs[a].cost_base]))
-------------------------------------------------------------------------------
(* tax *)

NoGains == [lots |-> <<>>, gains |-> <<>>]

\* A sell against the lots, the oldest first: what it takes of a lot is a gain of its own.
Matched(sell, lot) ==
    LET taken == IF lot.quantity < sell.remaining THEN lot.quantity ELSE sell.remaining
        gain == Cents(Times(taken, sell.each)) - Cents(Times(taken, lot.each))
    IN  IF sell.remaining = 0 THEN [sell EXCEPT !.lots = Append(@, lot)]
        ELSE [sell EXCEPT !.remaining = @ - taken,
                          !.gains = Append(@, gain),
                          !.lots = IF taken = lot.quantity THEN @
                                   ELSE Append(@, [lot EXCEPT !.quantity = @ - taken])]

SoldLots(book, t) ==
    LET sell == FoldLeft(Matched, [remaining |-> t.quantity, each |-> Over(Whole(Gross(t) - Fees), t.quantity),
                                   lots |-> <<>>, gains |-> book.gains], book.lots)
    IN  [lots |-> sell.lots, gains |-> sell.gains]

\* A split leaves what a lot cost in all as it was.
SplitEach(each, ratio) ==
    CASE ratio = "double" -> Over(each, 2)
      [] ratio = "halve" -> Times(2, each)
      [] OTHER -> each

\* Mutant of SplitLot: the cost of one unit is what it was before the split.
SplitLotUnits(lot, ratio) == [lot EXCEPT !.quantity = Scaled(@, ratio)]

SplitLot(lot, ratio) == [quantity |-> Scaled(lot.quantity, ratio), each |-> SplitEach(lot.each, ratio)]

\* _replay, all of it; a quantity or a ratio of zero is falsy.
ApplyGains(book, t) ==
    CASE t.type = "buy" /\ t.quantity # 0 ->
           [book EXCEPT !.lots = Append(@, [quantity |-> t.quantity,
                                            each |-> Over(Whole(Gross(t) + Fees), t.quantity)])]
      [] t.type = "sell" /\ t.quantity # 0 -> SoldLots(book, t)
      [] t.type = "split" /\ t.ratio # "zero" ->
           [book EXCEPT !.lots = [i \in DOMAIN @ |-> SplitLot(@[i], t.ratio)]]
      [] OTHER -> book

Gains(a) == ReplayTrades(ApplyGains, NoGains, Of(a, trades))

Realized(book) == FoldLeft(LAMBDA sum, gain : sum + gain, 0, book.gains)
-------------------------------------------------------------------------------
(* Properties *)

\* What the lots would gain if they were sold at the price, without fees.
IfSold(book, price) ==
    FoldLeft(LAMBDA sum, lot : Plus(sum, Times(lot.quantity, Minus(Whole(price), lot.each))), Whole(0), book.lots)

\* "Different methods for different questions" of one log: which gain comes first depends on the
\* method, what has been made in all does not.  At any price, and between requests, what the
\* holdings show as gained, realized and not, is what the tax report has and would have once all
\* lots are sold, but for the cents it rounds, at most one a gain.
SameProfit ==
    LET costs == [a \in Traded(trades) |-> Cost(a)]
        books == [a \in Traded(trades) |-> Gains(a)]
        realized == Sum([a \in DOMAIN costs |-> costs[a].realized])
        gained == FoldFunction(+, 0, [a \in DOMAIN books |-> Realized(books[a])])
        roundings == FoldFunction(+, 0, [a \in DOMAIN books |-> Len(books[a].gains)])
    IN  \A day \in Day : (\A s \in Sessions : pc[s] = "idle") =>
          LET shown == Plus(realized, Unrealized(costs, PriceOn[day]))
              taxed == Plus(Whole(gained), Sum([a \in DOMAIN books |-> IfSold(books[a], PriceOn[day])]))
              apart == Minus(shown, taxed)
          IN  apart[1] \in -roundings * apart[2] .. roundings * apart[2]
===============================================================================
