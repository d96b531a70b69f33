------------------------------- MODULE PriceBook -------------------------------
(***************************************************************************)
(* What services/prices.py promises, without sessions and transactions:    *)
(* "for a given (security, day), a `manual` row always wins over a fetched *)
(* one".  Prices appear all at once, fetched ones for any set of securities*)
(* and days, and a fetched price never replaces a manual one.              *)
(***************************************************************************)
CONSTANT PriceKeys   \* the pairs of a security and a day

VARIABLE prices      \* the source of the price of each key, or "none"

Sources == {"none", "fetched", "manual"}

Init == prices = [k \in PriceKeys |-> "none"]

Fetch(K) == prices' = [k \in PriceKeys |-> IF k \in K /\ prices[k] # "manual"
                                           THEN "fetched" ELSE prices[k]]

Correct(k) == prices' = [prices EXCEPT ![k] = "manual"]

Next == \/ \E K \in SUBSET PriceKeys : Fetch(K)
        \/ \E k \in PriceKeys : Correct(k)

Spec == Init /\ [][Next]_prices
===============================================================================
