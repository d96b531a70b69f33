------------------------------ MODULE TradeReplay ------------------------------
(***************************************************************************)
(* What a trade log says of one position: portfolio.py's running units and *)
(* tax.py's queue of lots, both computed by replaying the trades of one    *)
(* account in the order (traded_on, created_at).                           *)
(*                                                                         *)
(* Money is left out (prices and fees move only cost and gain), and with   *)
(* it dividends, which move no units.  Quantities are counted in fractions *)
(* of the smallest quantity a NUMERIC(19, 8) column holds: Quantum of them *)
(* make one, and a replay that halves a position may leave a fraction.     *)
(***************************************************************************)
EXTENDS Integers, Sequences, SequencesExt, Folds

\* t was traded, or for one day entered, no later than u.
NotAfter(t, u) == t.day < u.day \/ (t.day = u.day /\ t.id[1] <= u.id[1])

Latest(trades) == CHOOSE t \in trades : \A u \in trades : NotAfter(u, t)

\* The trades one by one in replay order.
ReplayTrades(apply(_, _), start, trades) ==
    MapThenFoldSet(LAMBDA t, result : apply(result, t), start, LAMBDA t : t, Latest, trades)

Scaled(units, ratio) ==
    CASE ratio = "double" -> 2 * units
      [] ratio = "halve" -> units \div 2
      [] ratio = "zero" -> 0
      [] ratio = "none" -> units      \* split_ratio IS NULL
-------------------------------------------------------------------------------
(* portfolio.positions *)

\* `oversold` once InsufficientUnitsError is raised: no later trade is applied.
NoPosition == [units |-> 0, oversold |-> FALSE]

Apply(position, t) ==
    IF position.oversold THEN position
    ELSE CASE t.type = "buy"   -> [position EXCEPT !.units = @ + t.quantity]
           [] t.type = "sell"  -> IF t.quantity > position.units
                                  THEN [position EXCEPT !.oversold = TRUE]
                                  ELSE [position EXCEPT !.units = @ - t.quantity]
           [] t.type = "split" -> [position EXCEPT !.units = Scaled(@, t.ratio)]

Position(trades) == ReplayTrades(Apply, NoPosition, trades)
-------------------------------------------------------------------------------
(* tax._replay *)

\* The open lots, oldest first; `short` once a sell has outrun them.
NoLots == [lots |-> <<>>, short |-> FALSE]

\* What a sell takes from the lots, the oldest first; what is left of a lot stays.
Take(left, lot) ==
    LET taken == IF left.remaining <= 0 THEN 0
                 ELSE IF lot < left.remaining THEN lot ELSE left.remaining
    IN  [remaining |-> left.remaining - taken,
         lots |-> IF lot = taken THEN left.lots ELSE Append(left.lots, lot - taken)]

Sold(book, quantity) ==
    LET left == FoldLeft(Take, [remaining |-> quantity, lots |-> <<>>], book.lots)
    IN  [lots |-> left.lots, short |-> book.short \/ left.remaining > 0]

\* Mutant of ApplyToLots: a split scales the newest lot only.
ApplyToLastLot(book, t) ==
    CASE t.type = "buy"   -> IF t.quantity = 0 THEN book
                             ELSE [book EXCEPT !.lots = Append(@, t.quantity)]
      [] t.type = "sell"  -> Sold(book, t.quantity)
      [] t.type = "split" -> IF t.ratio = "zero" \/ book.lots = <<>> THEN book
                             ELSE [book EXCEPT !.lots[Len(book.lots)] = Scaled(@, t.ratio)]

\* A ratio of zero, like none, is falsy and leaves the lots as they are.
ApplyToLots(book, t) ==
    CASE t.type = "buy"   -> IF t.quantity = 0 THEN book
                             ELSE [book EXCEPT !.lots = Append(@, t.quantity)]
      [] t.type = "sell"  -> Sold(book, t.quantity)
      [] t.type = "split" -> IF t.ratio = "zero" THEN book
                             ELSE [book EXCEPT !.lots = [i \in DOMAIN @ |-> Scaled(@[i], t.ratio)]]

Lots(trades) == ReplayTrades(ApplyToLots, NoLots, trades)

LotUnits(book) == FoldLeft(LAMBDA sum, lot : sum + lot, 0, book.lots)
===============================================================================
