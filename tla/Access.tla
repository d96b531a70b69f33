--------------------------------- MODULE Access ---------------------------------
(***************************************************************************)
(* Users, sessions, two-factor login and invites (services/auth.py,        *)
(* twofa.py, invites.py, audit.py and the routes of api/auth.py).  Every   *)
(* transaction is a step: what a handler has read before its commit may be *)
(* stale by then, and a restart between two commits leaves the first.      *)
(*                                                                         *)
(* A password is the number of times it was changed, a TOTP secret the     *)
(* number of times one was generated; a wrong password or code changes no  *)
(* state and is left out, with rate limits, cookies and LOCAL_MODE.        *)
(* A household is named, as in the code, by the address that founded it.   *)
(***************************************************************************)
EXTENDS Integers, Sequences, FiniteSets

CONSTANTS
    Emails,
    Requests,      \* handlers that run at once
    None,
    SessionTtl,    \* SESSION_TTL, in ticks
    IdleTimeout,   \* IDLE_TIMEOUT
    InviteTtl,     \* INVITE_TTL
    PreauthTtl     \* PREAUTH_TTL_SECONDS

ASSUME LifetimesAssumption ==
    /\ {SessionTtl, IdleTimeout, InviteTtl, PreauthTtl} \subseteq Nat
    /\ PreauthTtl <= InviteTtl /\ InviteTtl <= IdleTimeout /\ IdleTimeout <= SessionTtl

VARIABLES
    users,     \* db: by address, with two fields that are history: the invite and the secret proved
    sessions,  \* db: the rows, with two fields that are history: the password and the last use
    invites,   \* db: the rows
    audit,     \* db: the deeds recorded
    preauths,  \* signed tokens given out, no rows
    now,
    pc,        \* how far each request has come
    request,   \* what it has read
    issued,    \* history: the numbers of tokens, invites and documents used so far
    raced,     \* history: the invites two joins read at once
    straddled  \* history: the users whose password changed while a login of theirs was under way

db == <<users, sessions, invites, audit>>
history == <<issued, raced, straddled>>
accessVars == <<db, preauths, now, pc, request, history>>
-------------------------------------------------------------------------------
NoRequest == [email |-> None, token |-> 0, id |-> 0, at |-> 0, password |-> 0, secret |-> 0, deed |-> <<>>]

Init ==
    /\ users = [e \in Emails |-> None]
    /\ sessions = {} /\ invites = {} /\ audit = {} /\ preauths = {}
    /\ now = 0
    /\ pc = [r \in Requests |-> "idle"]
    /\ request = [r \in Requests |-> NoRequest]
    /\ issued = 0
    /\ raced = {} /\ straddled = {}

IsUser(e) == users[e] # None
Household(e) == users[e].household

\* The request goes on to its next transaction with what it has read.
Goes(r, stage, what) ==
    /\ pc' = [pc EXCEPT ![r] = stage]
    /\ request' = [request EXCEPT ![r] = what]

Ends(r) == Goes(r, "idle", NoRequest)

\* The deed is committed; audit.record is a transaction of its own.
Done(r, deed) == Goes(r, "recording", [NoRequest EXCEPT !.deed = deed])

\* audit.record
Record(r) ==
    /\ pc[r] = "recording"
    /\ audit' = audit \cup {request[r].deed}
    /\ Ends(r)
    /\ UNCHANGED <<users, sessions, invites, preauths, now, history>>
-------------------------------------------------------------------------------
(* Registering, logging in *)

NewUser(household, role, invite) ==
    [household |-> household, role |-> role, password |-> 0, secret |-> 0, enabled |-> FALSE,
     invite |-> invite, proved |-> 0]

AskRegister(r, e) ==
    /\ pc[r] = "idle" /\ ~IsUser(e)
    /\ Goes(r, "registering", [NoRequest EXCEPT !.email = e])
    /\ UNCHANGED <<db, preauths, now, history>>

\* The household and its owner, or neither when another has taken the address since.
CommitRegister(r) ==
    /\ pc[r] = "registering"
    /\ LET e == request[r].email
       IN  IF IsUser(e) THEN Ends(r) /\ UNCHANGED users
           ELSE /\ users' = [users EXCEPT ![e] = NewUser(e, "owner", 0)]
                /\ Goes(r, "issuing", request[r])
    /\ UNCHANGED <<sessions, invites, audit, preauths, now, history>>

\* login: authenticate, and for a user with a second factor a signed token that takes no row.
Login(r, e) ==
    /\ pc[r] = "idle" /\ IsUser(e)
    /\ IF users[e].enabled
       THEN /\ preauths' = preauths \cup {[email |-> e, at |-> now, password |-> users[e].password]}
            /\ UNCHANGED <<pc, request>>
       ELSE /\ Goes(r, "issuing", [NoRequest EXCEPT !.email = e, !.password = users[e].password,
                                                    !.deed = <<"session.login">>])
            /\ UNCHANGED preauths
    /\ UNCHANGED <<db, now, history>>

\* resolve_preauth and verify_login_code
LoginVerify(r, preauth) ==
    /\ pc[r] = "idle"
    /\ now - preauth.at <= PreauthTtl
    /\ users[preauth.email].enabled /\ users[preauth.email].secret # 0
    /\ Goes(r, "issuing", [NoRequest EXCEPT !.email = preauth.email, !.password = preauth.password,
                                            !.deed = <<"session.login">>])
    /\ UNCHANGED <<db, preauths, now, history>>

\* issue_session; a login and a join record it, register and change_password do not.
Issue(r) ==
    /\ pc[r] = "issuing"
    /\ issued' = issued + 1
    /\ sessions' = sessions \cup
         {[token |-> issued', email |-> request[r].email, created |-> now, expires |-> now + SessionTtl,
           seen |-> None, password |-> request[r].password, used |-> now]}
    /\ IF request[r].deed = <<>> THEN Ends(r)
       ELSE Done(r, <<request[r].deed[1], issued'>>)
    /\ UNCHANGED <<users, invites, audit, preauths, now, raced, straddled>>
-------------------------------------------------------------------------------
(* A request with a session *)

LastSeen(s) == IF s.seen = None THEN s.created ELSE s.seen

\* Mutant of Lives: a session in use does not expire.
LivesWhileUsed(s) == now - LastSeen(s) <= IdleTimeout

Lives(s) == now <= s.expires /\ now - LastSeen(s) <= IdleTimeout

\* resolve_session up to its commit.
Resolve(r, s) ==
    /\ pc[r] = "idle" /\ Lives(s)
    /\ Goes(r, "resolving", [NoRequest EXCEPT !.email = s.email, !.token = s.token, !.at = now])
    /\ sessions' = (sessions \ {s}) \cup {[s EXCEPT !.used = now]}
    /\ UNCHANGED <<users, invites, audit, preauths, now, history>>

\* The row is touched, which fails when it is gone, and the user read.
Touch(r) ==
    /\ pc[r] = "resolving"
    /\ LET mine == {s \in sessions : s.token = request[r].token}
           e == request[r].email
       IN  IF mine = {} THEN Ends(r) /\ UNCHANGED sessions
           ELSE /\ sessions' = (sessions \ mine) \cup {[s EXCEPT !.seen = request[r].at] : s \in mine}
                /\ Goes(r, "in", [request[r] EXCEPT !.password = users[e].password, !.secret = users[e].secret])
    /\ UNCHANGED <<users, invites, audit, preauths, now, history>>

In(r) == pc[r] = "in"
Owner(r) == In(r) /\ users[request[r].email].role = "owner"

LoginUnderWay(e) ==
    \/ \E r \in Requests : pc[r] = "issuing" /\ request[r].email = e
    \/ \E p \in preauths : p.email = e /\ now - p.at <= PreauthTtl

\* Mutant of ChangePassword: only the session that asked for it is replaced.
ChangePasswordHere(r) ==
    /\ In(r)
    /\ LET e == request[r].email
       IN  /\ users' = [users EXCEPT ![e].password = @ + 1]
           /\ sessions' = {s \in sessions : s.token # request[r].token}
           /\ straddled' = straddled \cup {u \in {e} : LoginUnderWay(u)}
           /\ Goes(r, "issuing", [NoRequest EXCEPT !.email = e, !.password = users[e].password + 1])
    /\ UNCHANGED <<invites, audit, preauths, now, issued, raced>>

\* The new password and the end of every session in one commit; the fresh one comes in the next.
ChangePassword(r) ==
    /\ In(r)
    /\ LET e == request[r].email
       IN  /\ users' = [users EXCEPT ![e].password = @ + 1]
           /\ sessions' = {s \in sessions : s.email # e}
           /\ straddled' = straddled \cup {u \in {e} : LoginUnderWay(u)}
           /\ Goes(r, "issuing", [NoRequest EXCEPT !.email = e, !.password = users[e].password + 1])
    /\ UNCHANGED <<invites, audit, preauths, now, issued, raced>>

RevokeSession(r, s) ==
    /\ In(r) /\ s.email = request[r].email
    /\ sessions' = sessions \ {s}
    /\ Done(r, <<"session.revoked", s.token>>)
    /\ UNCHANGED <<users, invites, audit, preauths, now, history>>

RevokeOtherSessions(r) ==
    /\ In(r)
    /\ sessions' = {s \in sessions : s.email = request[r].email => s.token = request[r].token}
    /\ Ends(r)
    /\ UNCHANGED <<users, invites, audit, preauths, now, history>>

\* start_enrollment: the secret is stored at once, and whether it is in force left as it was.
StartEnrollment(r) ==
    /\ In(r)
    /\ users' = [users EXCEPT ![request[r].email].secret = @ + 1]
    /\ Ends(r)
    /\ UNCHANGED <<sessions, invites, audit, preauths, now, history>>

\* confirm_enrollment, of the secret the request has read.
ConfirmEnrollment(r) ==
    /\ In(r) /\ request[r].secret # 0
    /\ users' = [users EXCEPT ![request[r].email].enabled = TRUE,
                              ![request[r].email].proved = request[r].secret]
    /\ Done(r, <<"2fa.enrolled", request[r].email>>)
    /\ UNCHANGED <<sessions, invites, audit, preauths, now, history>>

\* Any handler that writes nothing here.
Leave(r) ==
    /\ In(r)
    /\ Ends(r)
    /\ UNCHANGED <<db, preauths, now, history>>
-------------------------------------------------------------------------------
(* Invites *)

CreateInvite(r) ==
    /\ Owner(r)
    /\ issued' = issued + 1
    /\ invites' = invites \cup {[id |-> issued', household |-> Household(request[r].email),
                                 expires |-> now + InviteTtl, used |-> FALSE]}
    /\ Done(r, <<"invite.created", issued'>>)
    /\ UNCHANGED <<users, sessions, audit, preauths, now, raced, straddled>>

\* revoke_invite finds the invite unused ...
AskRevokeInvite(r, i) ==
    /\ Owner(r) /\ i.household = Household(request[r].email) /\ ~i.used
    /\ Goes(r, "revoking", [request[r] EXCEPT !.id = i.id])
    /\ UNCHANGED <<db, preauths, now, history>>

\* ... and deletes it, used by now or not.
CommitRevokeInvite(r) ==
    /\ pc[r] = "revoking"
    /\ invites' = {i \in invites : i.id # request[r].id}
    /\ Done(r, <<"invite.revoked", request[r].id>>)
    /\ UNCHANGED <<users, sessions, audit, preauths, now, history>>

\* join up to its commit
AskJoin(r, i, e) ==
    /\ pc[r] = "idle" /\ ~i.used /\ now <= i.expires /\ ~IsUser(e)
    /\ raced' = raced \cup {j \in {i.id} : \E q \in Requests : pc[q] = "joining" /\ request[q].id = j}
    /\ Goes(r, "joining", [NoRequest EXCEPT !.email = e, !.id = i.id])
    /\ UNCHANGED <<db, preauths, now, issued, straddled>>

\* Mutant of CommitJoin: the invite is not marked.
CommitJoinUnmarked(r) ==
    /\ pc[r] = "joining"
    /\ LET e == request[r].email
           mine == {i \in invites : i.id = request[r].id}
       IN  IF IsUser(e) \/ mine = {} THEN Ends(r) /\ UNCHANGED <<users, invites>>
           ELSE /\ users' = [users EXCEPT ![e] = NewUser((CHOOSE i \in mine : TRUE).household, "member", request[r].id)]
                /\ UNCHANGED invites
                /\ Goes(r, "issuing", [request[r] EXCEPT !.deed = <<"invite.accepted">>])
    /\ UNCHANGED <<sessions, audit, preauths, now, history>>

\* The member and the mark on the invite, or neither when the address was taken or the row is gone.
CommitJoin(r) ==
    /\ pc[r] = "joining"
    /\ LET e == request[r].email
           mine == {i \in invites : i.id = request[r].id}
       IN  IF IsUser(e) \/ mine = {} THEN Ends(r) /\ UNCHANGED <<users, invites>>
           ELSE LET invite == CHOOSE i \in mine : TRUE
                IN  /\ users' = [users EXCEPT ![e] = NewUser(invite.household, "member", invite.id)]
                    /\ invites' = (invites \ mine) \cup {[invite EXCEPT !.used = TRUE]}
                    /\ Goes(r, "issuing", [request[r] EXCEPT !.deed = <<"invite.accepted">>])
    /\ UNCHANGED <<sessions, audit, preauths, now, history>>
-------------------------------------------------------------------------------
Tick ==
    /\ now' = now + 1
    /\ UNCHANGED <<db, preauths, pc, request, history>>

\* The process dies and comes back: what was committed stays.
Restart ==
    /\ \E r \in Requests : pc[r] # "idle"
    /\ pc' = [r \in Requests |-> "idle"]
    /\ request' = [r \in Requests |-> NoRequest]
    /\ UNCHANGED <<db, preauths, now, history>>

\* A request comes in, with no session or with one.
Arrive(r) ==
    \/ \E e \in Emails : AskRegister(r, e) \/ Login(r, e)
    \/ \E p \in preauths : LoginVerify(r, p)
    \/ \E s \in sessions : Resolve(r, s)
    \/ \E i \in invites, e \in Emails : AskJoin(r, i, e)

\* It takes its next transaction.
Advance(r) ==
    \/ CommitRegister(r) \/ Issue(r) \/ Touch(r) \/ CommitRevokeInvite(r) \/ CommitJoin(r) \/ Record(r)
    \/ ChangePassword(r) \/ RevokeOtherSessions(r) \/ StartEnrollment(r) \/ ConfirmEnrollment(r)
    \/ Leave(r) \/ CreateInvite(r)
    \/ \E s \in sessions : RevokeSession(r, s)
    \/ \E i \in invites : AskRevokeInvite(r, i)

Next == (\E r \in Requests : Arrive(r) \/ Advance(r)) \/ Tick \/ Restart

Spec == Init /\ [][Next]_accessVars
-------------------------------------------------------------------------------
(* Properties *)

UserRow == [household : Emails, role : {"owner", "member"}, password : Nat, secret : Nat,
            enabled : BOOLEAN, invite : Nat, proved : Nat]

TypeOK ==
    /\ users \in [Emails -> UserRow \cup {None}]
    /\ \A s \in sessions : IsUser(s.email) /\ s.created <= LastSeen(s) /\ LastSeen(s) <= s.used /\ s.used <= now
    /\ \A s, t \in sessions : s.token = t.token => s = t
    /\ \A i \in invites : IsUser(i.household) /\ users[i.household].role = "owner"
    /\ \A p \in preauths : IsUser(p.email) /\ p.at <= now
    /\ \A r \in Requests : pc[r] = "idle" <=> request[r] = NoRequest

\* A household has the owner who founded it and members who came by its invites: an invite admits
\* one of them, or one for each of the joins that had read it unused at once.  (With the types:
\* tokens name one session, sessions and households one user.)
InviteAdmitsOnce ==
    /\ TypeOK
    /\ \A e \in Emails : IsUser(e) =>
           /\ users[e].invite = 0 <=> users[e].role = "owner" /\ Household(e) = e
           /\ users[e].invite # 0 =>
                /\ IsUser(Household(e)) /\ users[Household(e)].role = "owner"
                /\ \A f \in Emails : IsUser(f) /\ f # e /\ users[f].invite = users[e].invite
                                        => users[e].invite \in raced

\* A password change "invalidates every other session": each session left stems from the password
\* that is in force, unless a login of the user was under way at a change.
RotationEndsSessions ==
    \A s \in sessions : s.password = users[s.email].password \/ s.email \in straddled

\* A session that went unused for longer than the idle timeout, or outlived its lifetime, opens no
\* request any more, in whatever order requests that overlap have touched it.
SessionsLapse ==
    [][\A r \in Requests, s \in sessions : Resolve(r, s) =>
         now - s.used <= IdleTimeout /\ now - s.created <= SessionTtl]_accessVars

\* "A half-finished enrollment can't lock anyone out": a code that logs a user in is of the secret
\* they have proved to have.
EnrolledCanLogIn ==
    \A e \in Emails : IsUser(e) /\ users[e].enabled => users[e].proved = users[e].secret
===============================================================================
