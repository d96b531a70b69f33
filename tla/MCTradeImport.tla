----------------------------- MODULE MCTradeImport -----------------------------
(* Two sessions import a file each, or one of them two. *)
EXTENDS TradeImport

CONSTANTS i1, i2, x, y

TwoImporters == {i1, i2}
TwoSymbols == {x, y}

Buy(first, second, symbol) == [first |-> first, second |-> second, symbol |-> symbol, type |-> "buy", quantity |-> 1]
Sell(first, second, symbol) == [Buy(first, second, symbol) EXCEPT !.type = "sell"]
Unknown(first, second, symbol) == [Buy(first, second, symbol) EXCEPT !.type = "unknown"]

\* With three months in a year: newest first; the day first, beyond doubt in its last row only, with
\* a row that is there twice; a sell that nothing covers before a good row, of two symbols and the
\* other way round; no date in either order.
FewFiles == {
    <<Sell(2, 2, x), Sell(2, 1, x), Buy(1, 2, x), Buy(1, 1, x)>>,
    <<Buy(1, 2, x), Buy(1, 2, x), Unknown(4, 1, x)>>,
    <<Sell(1, 1, x), Buy(1, 2, y)>>,
    <<Sell(1, 1, y), Sell(1, 2, x)>>,
    <<Buy(4, 4, x)>>}
===============================================================================
