---------------------------- MODULE BankInstances -----------------------------
(* Small banks for the MC modules: charges, accounts and who syncs. *)
CONSTANTS c1, c2, a1, s1, s2

\* Two charges on one account that look alike when they post on one day.
PairCharges == {c1, c2}
OneAccount == {a1}
PairAccountOf == [c \in PairCharges |-> a1]
PairKindOf == [c \in PairCharges |-> "coffee"]

\* One charge.
OneCharge == {c1}
OneAccountOf == [c \in OneCharge |-> a1]
OneKindOf == [c \in OneCharge |-> "coffee"]

\* Two charges on one account that do not look alike.
DistinctKindOf == [c \in PairCharges |-> IF c = c1 THEN "coffee" ELSE "rent"]

OneSession == {s1}
TwoSessions == {s1, s2}
===============================================================================
