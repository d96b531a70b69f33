-------------------------------- MODULE MCTrades --------------------------------
(* Trades with one session, two accounts and a few quantities. *)
EXTENDS CostBasis, TLC

CONSTANTS a1, a2, s1

TwoAccounts == {a1, a2}
OneAccount == {a1}
OneSession == {s1}

OneAndTwo == {Quantum, 2 * Quantum}
HalfAndOne == {Quantum \div 2, Quantum}

Halving == {"halve"}

\* Bound: a price that rises, and fees that no quantity divides.
Rising == [day \in Day |-> 3 + 4 * day]

\* Bound: a run ends when a trade has been moved to another account.
Moved == \E t \in trades : t.account # t.id[2]

BoundedNext == IF Moved THEN UNCHANGED vars ELSE Next

BoundedSpec == Init /\ [][BoundedNext]_vars

InterchangeableAccounts == Permutations(Accounts)
===============================================================================
