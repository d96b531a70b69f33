------------------------------ MODULE MCRecurring ------------------------------
(* Recurring with one or two merchants and one or two sessions. *)
EXTENDS Recurring

CONSTANTS m1, m2, s1, s2

OneKey == {m1}
TwoKeys == {m1, m2}
OneSession == {s1}
TwoSessions == {s1, s2}
===============================================================================
