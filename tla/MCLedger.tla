-------------------------------- MODULE MCLedger --------------------------------
(* Ledger with two sessions and a few requests, from tables already in use. *)
EXTENDS Ledger, TLC

CONSTANTS g, l, c1, c2, m1, m2, s1, s2,
    MaxRequests \* bound: requests from the start on

VARIABLE left \* requests still to come

OneGroup == {g}
OneLeaf == {l}
TwoCustom == {c1, c2}
TwoShapes == {m1, m2}
TwoPatterns == {{m1}, {m1, m2}}
TwoPriorities == {10, 100}
TwoFiles == {<<m1, m2>>, <<m2, m2>>}
TwoSessions == {s1, s2}

Interchangeable == Permutations(Sessions)

RuleOf(id, pattern, category) ==
    [id |-> id, pattern |-> pattern, category |-> category, priority |-> 100]

\* What requests served one after the other have left.
Start ==
    /\ parent = (g :> None @@ l :> g @@ c1 :> None)
    /\ rules \in {{}, {RuleOf(1, {m1}, g), RuleOf(2, {m1, m2}, l)}}
    /\ txns \in {{}, {[id |-> 1, shape |-> m1, category |-> c1, text |-> FALSE, by |-> "user"]}}
    /\ budgets = {}
    /\ pc = [s \in Sessions |-> "idle"]
    /\ request = [s \in Sessions |-> NoRequest]
    /\ left = MaxRequests

BoundedNext ==
    \/ left > 0 /\ left' = left - 1 /\ \E s \in Sessions : Request(s)
    \/ UNCHANGED left /\ \E s \in Sessions : Commit(s) \/ Refuse(s)
    \/ left = 0 /\ (\A s \in Sessions : pc[s] = "idle") /\ UNCHANGED <<vars, left>>

BoundedSpec == Start /\ [][BoundedNext]_<<vars, left>>
===============================================================================
