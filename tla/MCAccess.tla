-------------------------------- MODULE MCAccess --------------------------------
(* Two requests at a time, from a household whose owner is logged in. *)
EXTENDS Vault, TLC

CONSTANTS e1, e2, e3, r1, r2,
    MaxTime,    \* bound: ticks
    MaxArrivals \* bound: requests from the start on

VARIABLE left \* requests still to come, and whether the process may still die

ThreeEmails == {e1, e2, e3}
TwoRequests == {r1, r2}

\* e1 has registered, and may have a second factor.
Start ==
    /\ \E owner \in {NewUser(e1, "owner", 0),
                    [NewUser(e1, "owner", 0) EXCEPT !.secret = 1, !.enabled = TRUE, !.proved = 1]} :
         users = [e \in Emails |-> IF e = e1 THEN owner ELSE None]
    /\ sessions = {[token |-> 1, email |-> e1, created |-> 0, expires |-> SessionTtl,
                    seen |-> None, password |-> 0, used |-> 0]}
    /\ issued = 1
    /\ invites = {} /\ audit = {} /\ preauths = {}
    /\ now = 0
    /\ pc = [r \in Requests |-> "idle"]
    /\ request = [r \in Requests |-> NoRequest]
    /\ raced = {} /\ straddled = {}
    /\ documents = {} /\ files = {} /\ torn = {}
    /\ left = [arrivals |-> MaxArrivals, restarts |-> 1]

Stays == UNCHANGED <<documents, files, torn>>

BoundedNext ==
    \/ /\ left.arrivals > 0 /\ left' = [left EXCEPT !.arrivals = @ - 1]
       /\ \E r \in Requests : Arrive(r) /\ Stays
    \/ \E r \in Requests : ((Advance(r) /\ Stays) \/ VaultStep(r)) /\ UNCHANGED left
    \/ now < MaxTime /\ Tick /\ Stays /\ UNCHANGED left
    \/ left.restarts > 0 /\ left' = [left EXCEPT !.restarts = @ - 1] /\ VaultRestart
    \/ now = MaxTime /\ UNCHANGED <<vaultVars, left>>

BoundedSpec == Start /\ [][BoundedNext]_<<vaultVars, left>>

Interchangeable == Permutations(Requests) \cup Permutations(Emails \ {e1})
===============================================================================
