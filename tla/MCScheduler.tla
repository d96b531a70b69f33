------------------------------ MODULE MCScheduler ------------------------------
(* Two households: one has an account, the other a security. *)
EXTENDS Scheduler

CONSTANTS h1, h2, a1, k1, r1

Two == {h1, h2}
OneAccount == {a1}
OneSecurity == {k1}
Owners == [x \in BankAccounts \cup Securities |-> IF x = a1 THEN h1 ELSE h2]
OneRequest == {r1}
===============================================================================
