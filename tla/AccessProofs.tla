------------------------------- MODULE AccessProofs -------------------------------
(***************************************************************************)
(* What holds of users, sessions, invites and the vault for any addresses, *)
(* requests and lifetimes: a password change ends the sessions of the old  *)
(* one, an unused session lapses, an invite admits one, and rows of the    *)
(* vault and their files go together.                                      *)
(***************************************************************************)
EXTENDS Vault, TLAPS

\* None is no address and no row.
NoneIsNobody == None \notin Emails /\ None \notin UserRow

Fields == {"email", "token", "id", "at", "password", "secret", "deed"}

SessionRow == [token : Nat, email : Emails, created : Nat, expires : Nat, seen : Nat \cup {None},
               password : Nat, used : Nat]
InviteRow == [id : Nat, household : Emails, expires : Nat, used : BOOLEAN]
PreauthRow == [email : Emails, at : Nat, password : Nat]

\* What a user came with, and whom the user's household is of.
UsersSound ==
    /\ users \in [Emails -> UserRow \cup {None}]
    /\ \A e \in Emails : IsUser(e) =>
         /\ users[e].invite = 0 <=> users[e].role = "owner" /\ Household(e) = e
         /\ users[e].invite # 0 => IsUser(Household(e)) /\ users[Household(e)].role = "owner"

SessionsSound ==
    /\ sessions \subseteq SessionRow
    /\ \A s \in sessions :
         /\ IsUser(s.email)
         /\ s.token \in 1 .. issued
         /\ s.created <= LastSeen(s) /\ LastSeen(s) <= s.used /\ s.used <= now
         /\ s.expires = s.created + SessionTtl
    /\ \A s, t \in sessions : s.token = t.token => s = t

\* A password that was in force when it was checked still is, unless it changed in between.
PasswordsSound ==
    /\ \A s \in sessions : s.password = users[s.email].password \/ s.email \in straddled
    /\ preauths \subseteq PreauthRow
    /\ \A p \in preauths :
         /\ IsUser(p.email) /\ p.at <= now
         /\ p.password = users[p.email].password \/ p.email \in straddled \/ now - p.at > PreauthTtl

\* An invite that has admitted somebody is marked, if it is still there.
InvitesSound ==
    /\ invites \subseteq InviteRow
    /\ \A i \in invites :
         /\ i.id \in 1 .. issued
         /\ IsUser(i.household) /\ users[i.household].role = "owner"
    /\ \A i, j \in invites : i.id = j.id => i = j
    /\ \A e \in Emails : IsUser(e) => users[e].invite \in 0 .. issued
    /\ \A e \in Emails, i \in invites : IsUser(e) /\ users[e].invite = i.id => i.used

AdmittedOnce ==
    \A e, f \in Emails :
        IsUser(e) /\ IsUser(f) /\ f # e /\ users[e].invite # 0 /\ users[f].invite = users[e].invite
            => users[e].invite \in raced

\* Two joins by one invite raced for it.
JoinsSound ==
    \A r, q \in Requests :
        pc[r] = "joining" /\ pc[q] = "joining" /\ q # r /\ request[q].id = request[r].id
            => request[r].id \in raced

Anonymous == {"registering", "joining"}

\* What a request may rely on of what it has read.
RequestSound(r) ==
    /\ DOMAIN request[r] = Fields
    /\ request[r].at \in Nat /\ request[r].password \in Nat /\ request[r].secret \in Nat
    /\ pc[r] = "idle" => request[r] = NoRequest
    /\ pc[r] = "recording" => request[r].deed # <<>>
    /\ pc[r] \notin {"idle", "recording"} => request[r].email \in Emails
    /\ pc[r] \notin {"idle", "recording"} \cup Anonymous => IsUser(request[r].email)
    /\ pc[r] \in Anonymous => request[r].password = 0
    /\ pc[r] = "resolving" =>
         /\ request[r].token \in 1 .. issued
         /\ \A s \in sessions : s.token = request[r].token => s.created <= request[r].at /\ request[r].at <= s.used
    /\ pc[r] = "issuing" =>
         request[r].password = users[request[r].email].password \/ request[r].email \in straddled
    /\ pc[r] = "joining" =>
         /\ request[r].id \in 1 .. issued
         /\ \A e \in Emails : IsUser(e) /\ users[e].invite = request[r].id => request[r].id \in raced

AccessInvariant ==
    /\ issued \in Nat /\ now \in Nat
    /\ DOMAIN pc = Requests /\ DOMAIN request = Requests
    /\ UsersSound /\ SessionsSound /\ PasswordsSound /\ InvitesSound /\ AdmittedOnce /\ JoinsSound
    /\ \A r \in Requests : RequestSound(r)
-------------------------------------------------------------------------------
(* Steps that give nobody more than they had *)

\* Only one request moves.
Moved(r) ==
    /\ DOMAIN pc' = Requests /\ DOMAIN request' = Requests
    /\ \A q \in Requests \ {r} : pc'[q] = pc[q] /\ request'[q] = request[q]

\* Nobody comes, goes or changes the password.
SameAccounts ==
    /\ users' \in [Emails -> UserRow \cup {None}]
    /\ \A e \in Emails :
         /\ IsUser(e)' <=> IsUser(e)
         /\ IsUser(e) => /\ users'[e].password = users[e].password
                         /\ users'[e].household = users[e].household
                         /\ users'[e].role = users[e].role
                         /\ users'[e].invite = users[e].invite

Fewer ==
    /\ SameAccounts
    /\ sessions' \subseteq sessions /\ invites' \subseteq invites
    /\ issued' \in Nat /\ issued <= issued'
    /\ UNCHANGED <<preauths, now, raced, straddled>>

LEMMA FewerKeeps ==
  ASSUME AccessInvariant, NEW r \in Requests, Moved(r), Fewer, RequestSound(r)', pc'[r] # "joining"
  PROVE  AccessInvariant'
<1>1. /\ \A i \in invites : i.household \in Emails
      /\ \A s \in sessions : s.email \in Emails
      /\ \A p \in preauths : p.email \in Emails
  BY DEF AccessInvariant, InvitesSound, SessionsSound, PasswordsSound, InviteRow, SessionRow, PreauthRow
<1>2. UsersSound'
  <2>1. \A e \in Emails : IsUser(e) => users[e].household \in Emails
    BY DEF AccessInvariant, UsersSound, UserRow, IsUser
  <2>2. QED
    BY <2>1 DEF AccessInvariant, UsersSound, Fewer, SameAccounts, Household
<1>3. SessionsSound'
  <2>1. ASSUME NEW s \in sessions
        PROVE  s.email \in Emails /\ s.token \in 1 .. issued'
    BY <1>1 DEF AccessInvariant, SessionsSound, Fewer
  <2>2. QED
    BY <2>1 DEF AccessInvariant, SessionsSound, Fewer, SameAccounts, LastSeen, IsUser
<1>4. PasswordsSound'
  BY <1>1 DEF AccessInvariant, SessionsSound, PasswordsSound, Fewer, SameAccounts, IsUser
<1>5. InvitesSound'
  <2>1. ASSUME NEW i \in invites
        PROVE  i.household \in Emails /\ i.id \in 1 .. issued'
    BY <1>1 DEF AccessInvariant, InvitesSound, Fewer
  <2>2. QED
    BY <2>1 DEF AccessInvariant, InvitesSound, Fewer, SameAccounts, IsUser
<1>6. AdmittedOnce'
  BY DEF AccessInvariant, AdmittedOnce, Fewer, SameAccounts
<1>7. JoinsSound'
  BY DEF AccessInvariant, JoinsSound, Fewer, Moved
<1>8. ASSUME NEW q \in Requests \ {r}
      PROVE  RequestSound(q)'
  <2>1. RequestSound(q) /\ pc'[q] = pc[q] /\ request'[q] = request[q]
    BY DEF AccessInvariant, Moved
  <2> DEFINE what == request[q]
             stage == pc[q]
  <2>2. stage = "resolving" =>
          /\ what.token \in 1 .. issued'
          /\ \A s \in sessions' : s.token = what.token => s.created <= what.at /\ what.at <= s.used
    BY <2>1 DEF AccessInvariant, RequestSound, Fewer
  <2>3. stage = "joining" =>
          /\ what.id \in 1 .. issued'
          /\ \A e \in Emails : IsUser(e)' /\ users'[e].invite = what.id => what.id \in raced'
    BY <2>1 DEF AccessInvariant, RequestSound, Fewer, SameAccounts
  <2>4. /\ stage \notin {"idle", "recording"} \cup Anonymous => IsUser(what.email)'
        /\ stage = "issuing" => what.password = users'[what.email].password \/ what.email \in straddled'
    BY <2>1 DEF RequestSound, Fewer, SameAccounts, Anonymous
  <2>5. QED
    BY <2>1, <2>2, <2>3, <2>4 DEF RequestSound, Anonymous, IsUser
<1>9. QED
  BY <1>2, <1>3, <1>4, <1>5, <1>6, <1>7, <1>8 DEF AccessInvariant, Fewer, Moved

LEMMA QuietStep ==
  ASSUME AccessInvariant, NEW r \in Requests, NEW stage, NEW what, Goes(r, stage, what), Fewer,
         stage \notin {"joining", "resolving"},
         DOMAIN what = Fields, what.at \in Nat, what.password \in Nat, what.secret \in Nat,
         stage = "idle" => what = NoRequest,
         stage = "recording" => what.deed # <<>>,
         stage \notin {"idle", "recording"} => what.email \in Emails,
         stage \notin {"idle", "recording", "registering"} => IsUser(what.email),
         stage = "registering" => what.password = 0,
         stage = "issuing" => what.password = users[what.email].password \/ what.email \in straddled
  PROVE  AccessInvariant'
<1>1. Moved(r) /\ pc'[r] = stage /\ request'[r] = what
  BY DEF AccessInvariant, Goes, Moved
<1>2. /\ stage \notin {"idle", "recording"} \cup Anonymous => users'[what.email] # None
      /\ stage = "issuing" => what.password = users'[what.email].password \/ what.email \in straddled'
  BY DEF Fewer, SameAccounts, Anonymous, IsUser
<1>3. RequestSound(r)'
  BY <1>1, <1>2 DEF RequestSound, Anonymous, IsUser
<1>4. QED
  BY <1>1, <1>3, FewerKeeps

LEMMA SameUsers ==
  ASSUME AccessInvariant, UNCHANGED users
  PROVE  SameAccounts
BY DEF AccessInvariant, UsersSound, SameAccounts, IsUser

\* The request is over, or all that is left of it is its record.
LEMMA LastStep ==
  ASSUME AccessInvariant, NEW r \in Requests, Fewer, Ends(r) \/ \E kind, id : Done(r, <<kind, id>>)
  PROVE  AccessInvariant'
<1>1. DOMAIN NoRequest = Fields /\ NoRequest.at \in Nat /\ NoRequest.password \in Nat /\ NoRequest.secret \in Nat
  BY DEF NoRequest, Fields
<1>2. CASE Ends(r)
  BY <1>1, <1>2, QuietStep DEF Ends
<1>3. ASSUME NEW kind, NEW id, Done(r, <<kind, id>>)
      PROVE  AccessInvariant'
  <2> DEFINE what == [NoRequest EXCEPT !.deed = <<kind, id>>]
  <2>1. Goes(r, "recording", what)
    BY <1>3 DEF Done
  <2>2. DOMAIN what = Fields /\ what.at \in Nat /\ what.password \in Nat /\ what.secret \in Nat /\ what.deed # <<>>
    BY DEF NoRequest, Fields
  <2> HIDE DEF what
  <2>3. QED
    BY <2>1, <2>2, QuietStep
<1>4. QED
  BY <1>2, <1>3

\* The request of a user goes on, with another row in mind.
LEMMA NextStep ==
  ASSUME AccessInvariant, NEW r \in Requests, Fewer, IsUser(request[r].email), request[r].email \in Emails,
         NEW stage, stage \notin {"idle", "recording", "joining", "resolving", "registering", "issuing"},
         NEW id, Goes(r, stage, [request[r] EXCEPT !.id = id]) \/ Goes(r, stage, request[r])
  PROVE  AccessInvariant'
<1>1. RequestSound(r)
  BY DEF AccessInvariant
<1>2. CASE Goes(r, stage, request[r])
  BY <1>1, <1>2, QuietStep DEF RequestSound
<1>3. CASE Goes(r, stage, [request[r] EXCEPT !.id = id])
  <2> DEFINE what == [request[r] EXCEPT !.id = id]
  <2>1. /\ DOMAIN what = Fields /\ what.at \in Nat /\ what.password \in Nat /\ what.secret \in Nat
        /\ what.email = request[r].email
    BY <1>1 DEF RequestSound, Fields
  <2>2. Goes(r, stage, what)
    BY <1>3
  <2> HIDE DEF what
  <2>3. QED
    BY <2>1, <2>2, QuietStep
<1>4. QED
  BY <1>2, <1>3

\* A request that has a user's rights is one of that user.
LEMMA InIsUser ==
  ASSUME AccessInvariant, NEW r \in Requests, pc[r] \notin {"idle", "recording"} \cup Anonymous
  PROVE  request[r].email \in Emails /\ IsUser(request[r].email)
BY DEF AccessInvariant, RequestSound

\* What only ends sessions or invites, or touches nothing.
LEMMA RemovalsKeep ==
  ASSUME AccessInvariant, NEW r \in Requests,
         \/ Record(r) \/ Leave(r) \/ RevokeOtherSessions(r) \/ CommitRevokeInvite(r)
         \/ \E s \in sessions : RevokeSession(r, s)
         \/ \E i \in invites : AskRevokeInvite(r, i)
  PROVE  AccessInvariant'
<1>1. CASE Record(r)
  <2>1. Ends(r) /\ Fewer
    BY <1>1, SameUsers DEF Record, Fewer, history, AccessInvariant
  <2>2. QED
    BY <2>1, LastStep
<1>2. CASE Leave(r)
  <2>1. Ends(r) /\ Fewer
    BY <1>2, SameUsers DEF Leave, Fewer, history, db, AccessInvariant
  <2>2. QED
    BY <2>1, LastStep
<1>3. CASE RevokeOtherSessions(r)
  <2>1. Ends(r) /\ Fewer
    BY <1>3, SameUsers DEF RevokeOtherSessions, Fewer, history, AccessInvariant
  <2>2. QED
    BY <2>1, LastStep
<1>4. CASE CommitRevokeInvite(r)
  <2>1. Done(r, <<"invite.revoked", request[r].id>>) /\ Fewer
    BY <1>4, SameUsers DEF CommitRevokeInvite, Fewer, history, AccessInvariant
  <2>2. QED
    BY <2>1, LastStep
<1>5. ASSUME NEW s \in sessions, RevokeSession(r, s)
      PROVE  AccessInvariant'
  <2>1. Done(r, <<"session.revoked", s.token>>) /\ Fewer
    BY <1>5, SameUsers DEF RevokeSession, Fewer, history, AccessInvariant
  <2>2. QED
    BY <2>1, LastStep
<1>6. ASSUME NEW i \in invites, AskRevokeInvite(r, i)
      PROVE  AccessInvariant'
  <2>1. Goes(r, "revoking", [request[r] EXCEPT !.id = i.id]) /\ pc[r] = "in" /\ Fewer
    BY <1>6, SameUsers DEF AskRevokeInvite, Owner, In, Fewer, db, history, AccessInvariant
  <2>2. QED
    BY <2>1, InIsUser, NextStep DEF Anonymous
<1>7. QED
  BY <1>1, <1>2, <1>3, <1>4, <1>5, <1>6

\* A second factor changes neither password nor household.
LEMMA EnrolmentKeeps ==
  ASSUME NoneIsNobody, AccessInvariant, NEW r \in Requests, StartEnrollment(r) \/ ConfirmEnrollment(r)
  PROVE  AccessInvariant'
<1> DEFINE e == request[r].email
           row == users[e]
<1>1. e \in Emails /\ row \in UserRow /\ row # None /\ request[r].secret \in Nat
  <2>1. pc[r] = "in"
    BY DEF StartEnrollment, ConfirmEnrollment, In
  <2>2. QED
    BY <2>1, InIsUser DEF AccessInvariant, RequestSound, UsersSound, IsUser, Anonymous
<1>2. CASE StartEnrollment(r)
  <2> DEFINE new == [row EXCEPT !.secret = @ + 1]
  <2>1. users' = [users EXCEPT ![e] = new] /\ Ends(r) /\ UNCHANGED <<sessions, invites, preauths, now, history>>
    BY <1>2 DEF StartEnrollment
  <2>2. /\ new \in UserRow /\ new.password = row.password /\ new.household = row.household
        /\ new.role = row.role /\ new.invite = row.invite
    BY <1>1 DEF UserRow
  <2> HIDE DEF new, row, e
  <2>3. SameAccounts
    BY <1>1, <2>1, <2>2 DEF NoneIsNobody, SameAccounts, AccessInvariant, UsersSound, IsUser, row
  <2>4. Fewer
    BY <2>1, <2>3 DEF Fewer, history, AccessInvariant
  <2>5. QED
    BY <2>1, <2>4, LastStep
<1>3. CASE ConfirmEnrollment(r)
  <2> DEFINE enabled == [row EXCEPT !.enabled = TRUE]
             new == [enabled EXCEPT !.proved = request[r].secret]
  <2>1. /\ users' = [users EXCEPT ![e].enabled = TRUE, ![e].proved = request[r].secret]
        /\ Done(r, <<"2fa.enrolled", request[r].email>>) /\ UNCHANGED <<sessions, invites, preauths, now, history>>
    BY <1>3 DEF ConfirmEnrollment
  <2>2. users' = [users EXCEPT ![e] = new]
    BY <1>1, <2>1 DEF AccessInvariant, UsersSound
  <2>3. /\ enabled \in UserRow /\ enabled.password = row.password /\ enabled.household = row.household
        /\ enabled.role = row.role /\ enabled.invite = row.invite
    BY <1>1 DEF UserRow
  <2> HIDE DEF enabled
  <2>4. /\ new \in UserRow /\ new.password = row.password /\ new.household = row.household
        /\ new.role = row.role /\ new.invite = row.invite
    BY <1>1, <2>3 DEF UserRow
  <2> HIDE DEF new, row, e
  <2>5. SameAccounts
    BY <1>1, <2>2, <2>4 DEF NoneIsNobody, SameAccounts, AccessInvariant, UsersSound, IsUser, row
  <2>6. Fewer
    BY <2>1, <2>5 DEF Fewer, history, AccessInvariant
  <2>7. QED
    BY <2>1, <2>6, LastStep
<1>4. QED
  BY <1>2, <1>3

LEMMA AskRegisterKeeps ==
  ASSUME AccessInvariant, NEW r \in Requests, NEW e \in Emails, AskRegister(r, e)
  PROVE  AccessInvariant'
<1> DEFINE what == [NoRequest EXCEPT !.email = e]
<1>1. Goes(r, "registering", what) /\ Fewer
  BY SameUsers DEF AskRegister, Fewer, db, history, AccessInvariant
<1>2. /\ DOMAIN what = Fields /\ what.at \in Nat /\ what.password = 0 /\ what.secret \in Nat
      /\ what.email = e
  BY DEF NoRequest, Fields
<1> HIDE DEF what
<1>3. QED
  BY <1>1, <1>2, QuietStep

\* A login brings a password that was in force when it was checked.
LEMMA LoginGoesOn ==
  ASSUME AccessInvariant, NEW r \in Requests, Fewer, NEW e \in Emails, IsUser(e), NEW password \in Nat,
         password = users[e].password \/ e \in straddled,
         Goes(r, "issuing", [NoRequest EXCEPT !.email = e, !.password = password, !.deed = <<"session.login">>])
  PROVE  AccessInvariant'
<1> DEFINE what == [NoRequest EXCEPT !.email = e, !.password = password, !.deed = <<"session.login">>]
<1>1. /\ DOMAIN what = Fields /\ what.at \in Nat /\ what.password = password /\ what.secret \in Nat
      /\ what.email = e
  BY DEF NoRequest, Fields
<1>2. Goes(r, "issuing", what)
  OBVIOUS
<1> HIDE DEF what
<1>3. QED
  BY <1>1, <1>2, QuietStep

LEMMA LoginKeeps ==
  ASSUME NoneIsNobody, AccessInvariant, NEW r \in Requests, NEW e \in Emails, Login(r, e)
  PROVE  AccessInvariant'
<1>1. users[e] \in UserRow /\ users[e].password \in Nat /\ IsUser(e)
  BY DEF Login, AccessInvariant, UsersSound, IsUser, UserRow
<1>2. CASE users[e].enabled
  <2> DEFINE p == [email |-> e, at |-> now, password |-> users[e].password]
  <2>1. preauths' = preauths \cup {p} /\ UNCHANGED <<users, sessions, invites, now, issued, raced, straddled, pc, request>>
    BY <1>2 DEF Login, db, history
  <2>2. p \in PreauthRow /\ p.email = e /\ p.at = now /\ p.password = users[e].password
    BY <1>1 DEF PreauthRow, AccessInvariant
  <2> HIDE DEF p
  <2>3. PasswordsSound'
    BY <1>1, <2>1, <2>2 DEF AccessInvariant, PasswordsSound, IsUser
  <2>4. UsersSound' /\ SessionsSound' /\ InvitesSound' /\ AdmittedOnce' /\ JoinsSound'
    BY <2>1 DEF AccessInvariant, UsersSound, SessionsSound, InvitesSound, AdmittedOnce, JoinsSound, IsUser,
       Household, LastSeen
  <2>5. ASSUME NEW q \in Requests
        PROVE  RequestSound(q)'
    BY <2>1 DEF AccessInvariant, RequestSound, IsUser
  <2>6. QED
    BY <2>1, <2>3, <2>4, <2>5 DEF AccessInvariant
<1>3. CASE ~users[e].enabled
  <2>1. /\ Goes(r, "issuing", [NoRequest EXCEPT !.email = e, !.password = users[e].password, !.deed = <<"session.login">>])
        /\ Fewer
    BY <1>3, SameUsers DEF Login, Fewer, db, history, AccessInvariant
  <2>2. QED
    BY <1>1, <2>1, LoginGoesOn
<1>4. QED
  BY <1>2, <1>3

LEMMA LoginVerifyKeeps ==
  ASSUME AccessInvariant, NEW r \in Requests, NEW p \in preauths, LoginVerify(r, p)
  PROVE  AccessInvariant'
<1>1. p.email \in Emails /\ IsUser(p.email) /\ p.password \in Nat /\ p.at \in Nat
  BY DEF AccessInvariant, PasswordsSound, PreauthRow
<1>2. p.password = users[p.email].password \/ p.email \in straddled
  BY <1>1, LifetimesAssumption DEF LoginVerify, AccessInvariant, PasswordsSound
<1>3. /\ Goes(r, "issuing", [NoRequest EXCEPT !.email = p.email, !.password = p.password, !.deed = <<"session.login">>])
      /\ Fewer
  BY SameUsers DEF LoginVerify, Fewer, db, history, AccessInvariant
<1>4. QED
  BY <1>1, <1>2, <1>3, LoginGoesOn
-------------------------------------------------------------------------------
(* Sessions *)

\* A session's row is written again: who has it, since when and with which password stays.
SameSession(s, new) ==
    /\ new \in SessionRow /\ new.token = s.token /\ new.email = s.email /\ new.password = s.password
    /\ new.created = s.created /\ new.expires = s.expires
    /\ s.created <= LastSeen(new) /\ LastSeen(new) <= new.used
    /\ s.used <= new.used /\ new.used <= now

LEMMA SessionRewritten ==
  ASSUME AccessInvariant, NEW s \in sessions, NEW new, SameSession(s, new),
         sessions' = (sessions \ {s}) \cup {new}, UNCHANGED <<users, preauths, now, issued, straddled>>
  PROVE  SessionsSound' /\ PasswordsSound'
<1>1. \A t \in sessions : t # s => t.token # s.token
  BY DEF AccessInvariant, SessionsSound
<1>2. ASSUME NEW t \in sessions'
      PROVE  /\ t \in SessionRow
             /\ IsUser(t.email)
             /\ t.token \in 1 .. issued
             /\ t.created <= LastSeen(t) /\ LastSeen(t) <= t.used /\ t.used <= now
             /\ t.expires = t.created + SessionTtl
  BY DEF AccessInvariant, SessionsSound, SameSession
<1>3. ASSUME NEW t \in sessions', NEW u \in sessions', t.token = u.token
      PROVE  t = u
  BY <1>1, <1>3 DEF AccessInvariant, SessionsSound, SameSession
<1>4. SessionsSound'
  BY <1>2, <1>3 DEF SessionsSound, LastSeen, IsUser
<1>5. PasswordsSound'
  BY DEF AccessInvariant, PasswordsSound, SameSession, IsUser
<1>6. QED
  BY <1>4, <1>5

LEMMA ResolveKeeps ==
  ASSUME AccessInvariant, NEW r \in Requests, NEW s \in sessions, Resolve(r, s)
  PROVE  AccessInvariant'
<1> DEFINE what == [NoRequest EXCEPT !.email = s.email, !.token = s.token, !.at = now]
           touched == [s EXCEPT !.used = now]
<1>1. /\ Goes(r, "resolving", what) /\ sessions' = (sessions \ {s}) \cup {touched}
      /\ UNCHANGED <<users, invites, preauths, now, issued, raced, straddled>>
  BY DEF Resolve, history
<1>2. /\ DOMAIN what = Fields /\ what.at = now /\ what.password = 0 /\ what.secret = 0
      /\ what.email = s.email /\ what.token = s.token
  BY DEF NoRequest, Fields
<1>3. /\ s \in SessionRow /\ s.email \in Emails /\ IsUser(s.email) /\ s.token \in 1 .. issued
      /\ s.created \in Nat /\ s.used \in Nat /\ LastSeen(s) <= s.used /\ s.created <= LastSeen(s) /\ s.used <= now
      /\ s.expires = s.created + SessionTtl /\ now \in Nat
  BY DEF AccessInvariant, SessionsSound, SessionRow
<1>4. /\ touched \in SessionRow /\ touched.email = s.email /\ touched.token = s.token
      /\ touched.created = s.created /\ touched.expires = s.expires /\ touched.seen = s.seen
      /\ touched.used = now /\ touched.password = s.password
  BY <1>3 DEF SessionRow
<1> HIDE DEF what, touched
<1>5. LastSeen(touched) = LastSeen(s)
  BY <1>4 DEF LastSeen
<1>6. Moved(r) /\ pc'[r] = "resolving" /\ request'[r] = what
  BY <1>1 DEF AccessInvariant, Goes, Moved
<1>7. SameSession(s, touched)
  BY <1>3, <1>4, <1>5 DEF SameSession, LastSeen, SessionRow
<1>8. SessionsSound' /\ PasswordsSound'
  BY <1>1, <1>7, SessionRewritten
<1>9. UsersSound' /\ InvitesSound' /\ AdmittedOnce' /\ JoinsSound'
  BY <1>1, <1>6 DEF AccessInvariant, UsersSound, InvitesSound, AdmittedOnce, JoinsSound, IsUser, Household, Moved
<1>10. ASSUME NEW q \in Requests
       PROVE  RequestSound(q)'
  <2>1. CASE q = r
    <3>1. \A t \in sessions' : t.token = s.token => t = touched
      BY <1>1 DEF AccessInvariant, SessionsSound
    <3>2. s.created <= now
      BY <1>3 DEF LastSeen, SessionRow
    <3>3. QED
      BY <1>1, <1>2, <1>3, <1>4, <1>6, <2>1, <3>1, <3>2 DEF RequestSound, Anonymous, IsUser
  <2>2. CASE q # r
    <3>1. RequestSound(q) /\ pc'[q] = pc[q] /\ request'[q] = request[q]
      BY <1>6, <2>2 DEF AccessInvariant, Moved
    <3>2. pc[q] = "resolving" =>
            \A t \in sessions' : t.token = request[q].token => t.created <= request[q].at /\ request[q].at <= t.used
      BY <1>1, <1>3, <1>4, <3>1 DEF RequestSound
    <3>3. QED
      BY <1>1, <3>1, <3>2 DEF RequestSound, Anonymous, IsUser
  <2>3. QED
    BY <2>1, <2>2
<1>11. QED
  BY <1>1, <1>6, <1>8, <1>9, <1>10 DEF AccessInvariant, Moved

LEMMA TouchKeeps ==
  ASSUME NoneIsNobody, AccessInvariant, NEW r \in Requests, Touch(r)
  PROVE  AccessInvariant'
<1> DEFINE e == request[r].email
           at == request[r].at
           mine == {s \in sessions : s.token = request[r].token}
<1>1. pc[r] = "resolving" /\ UNCHANGED <<users, invites, preauths, now, issued, raced, straddled>>
  BY DEF Touch, history
<1>2. RequestSound(r) /\ e \in Emails /\ IsUser(e) /\ at \in Nat
  BY <1>1, InIsUser DEF Anonymous, AccessInvariant, RequestSound
<1>3. users[e] \in UserRow /\ users[e].password \in Nat /\ users[e].secret \in Nat
  BY <1>2 DEF AccessInvariant, UsersSound, IsUser, UserRow
<1>4. CASE mine = {}
  <2>1. Ends(r) /\ UNCHANGED sessions
    BY <1>4 DEF Touch
  <2>2. Fewer
    BY <1>1, <2>1, SameUsers DEF Fewer, AccessInvariant
  <2>3. QED
    BY <2>1, <2>2, LastStep
<1>5. ASSUME NEW s \in mine
      PROVE  AccessInvariant'
  <2> DEFINE half == [request[r] EXCEPT !.password = users[e].password]
             what == [half EXCEPT !.secret = users[e].secret]
             touched == [s EXCEPT !.seen = at]
  <2>1. mine = {s} /\ s \in sessions /\ s.token = request[r].token
    BY <1>5 DEF AccessInvariant, SessionsSound
  <2>2. /\ Goes(r, "in", [request[r] EXCEPT !.password = users[e].password, !.secret = users[e].secret])
        /\ sessions' = (sessions \ {s}) \cup {touched}
    BY <2>1 DEF Touch
  <2>3. Goes(r, "in", what)
    BY <1>2, <2>2 DEF RequestSound
  <2>4. /\ DOMAIN half = Fields /\ half.at = at /\ half.email = e /\ half.password = users[e].password
    BY <1>2 DEF RequestSound, Fields
  <2> HIDE DEF half
  <2>5. /\ DOMAIN what = Fields /\ what.at = at /\ what.email = e /\ what.password = users[e].password
        /\ what.secret = users[e].secret
    BY <2>4 DEF Fields
  <2>6. /\ s \in SessionRow /\ s.created <= at /\ at <= s.used /\ s.used <= now
        /\ s.created \in Nat /\ s.used \in Nat /\ s.created <= LastSeen(s) /\ LastSeen(s) <= s.used
    BY <1>1, <1>2, <2>1 DEF AccessInvariant, SessionsSound, SessionRow, RequestSound
  <2>7. /\ touched \in SessionRow /\ touched.email = s.email /\ touched.token = s.token
        /\ touched.created = s.created /\ touched.expires = s.expires /\ touched.seen = at
        /\ touched.used = s.used /\ touched.password = s.password
    BY <1>2, <2>6 DEF SessionRow
  <2> HIDE DEF what, touched, mine, at
  <2>8. SameSession(s, touched)
    <3>1. LastSeen(touched) = at \/ LastSeen(touched) = s.created
      BY <2>7 DEF LastSeen
    <3>2. QED
      BY <1>2, <2>6, <2>7, <3>1 DEF SameSession, AccessInvariant
  <2>9. SessionsSound' /\ PasswordsSound'
    BY <1>1, <2>1, <2>2, <2>8, SessionRewritten
  <2>10. Moved(r) /\ pc'[r] = "in" /\ request'[r] = what
    BY <2>3 DEF AccessInvariant, Goes, Moved
  <2>11. UsersSound' /\ InvitesSound' /\ AdmittedOnce' /\ JoinsSound'
    BY <1>1, <2>10 DEF AccessInvariant, UsersSound, InvitesSound, AdmittedOnce, JoinsSound, IsUser, Household, Moved
  <2>12. ASSUME NEW q \in Requests
         PROVE  RequestSound(q)'
    <3>1. CASE q = r
      BY <1>1, <1>2, <1>3, <2>5, <2>10, <3>1 DEF RequestSound, Anonymous, IsUser
    <3>2. CASE q # r
      <4>1. RequestSound(q) /\ pc'[q] = pc[q] /\ request'[q] = request[q]
        BY <2>10, <3>2 DEF AccessInvariant, Moved
      <4>2. pc[q] = "resolving" =>
              \A t \in sessions' : t.token = request[q].token => t.created <= request[q].at /\ request[q].at <= t.used
        BY <2>1, <2>2, <2>7, <4>1 DEF RequestSound
      <4>3. QED
        BY <1>1, <4>1, <4>2 DEF RequestSound, Anonymous, IsUser
    <3>3. QED
      BY <3>1, <3>2
  <2>13. QED
    BY <1>1, <2>9, <2>10, <2>11, <2>12 DEF AccessInvariant, Moved
<1>6. QED
  BY <1>4, <1>5

LEMMA LastIsSound ==
  ASSUME AccessInvariant, NEW r \in Requests, Ends(r) \/ \E kind, id : Done(r, <<kind, id>>)
  PROVE  Moved(r) /\ RequestSound(r)' /\ pc'[r] \in {"idle", "recording"}
<1>1. Moved(r)
  BY DEF AccessInvariant, Moved, Ends, Done, Goes
<1>2. CASE Ends(r)
  <2>1. /\ DOMAIN NoRequest = Fields
        /\ NoRequest.at \in Nat /\ NoRequest.password \in Nat /\ NoRequest.secret \in Nat
    BY DEF NoRequest, Fields
  <2>2. pc'[r] = "idle" /\ request'[r] = NoRequest
    BY <1>2 DEF AccessInvariant, Ends, Goes
  <2>3. QED
    BY <1>1, <2>1, <2>2 DEF RequestSound, Anonymous
<1>3. ASSUME NEW kind, NEW id, Done(r, <<kind, id>>)
      PROVE  RequestSound(r)' /\ pc'[r] = "recording"
  <2> DEFINE what == [NoRequest EXCEPT !.deed = <<kind, id>>]
  <2>1. pc'[r] = "recording" /\ request'[r] = what
    BY <1>3 DEF AccessInvariant, Done, Goes
  <2>2. DOMAIN what = Fields /\ what.at \in Nat /\ what.password \in Nat /\ what.secret \in Nat /\ what.deed # <<>>
    BY DEF NoRequest, Fields
  <2> HIDE DEF what
  <2>3. QED
    BY <2>1, <2>2 DEF RequestSound, Anonymous
<1>4. QED
  BY <1>1, <1>2, <1>3

\* A session is opened with the password that was checked.
LEMMA IssueKeeps ==
  ASSUME NoneIsNobody, AccessInvariant, NEW r \in Requests, Issue(r)
  PROVE  AccessInvariant'
<1> DEFINE new == [token |-> issued + 1, email |-> request[r].email, created |-> now,
                   expires |-> now + SessionTtl, seen |-> None, password |-> request[r].password, used |-> now]
<1>1. /\ pc[r] = "issuing" /\ issued' = issued + 1 /\ sessions' = sessions \cup {new}
      /\ UNCHANGED <<users, invites, preauths, now, raced, straddled>>
      /\ Ends(r) \/ \E kind, id : Done(r, <<kind, id>>)
  BY DEF Issue
<1>2. /\ RequestSound(r) /\ request[r].email \in Emails /\ IsUser(request[r].email)
      /\ request[r].password \in Nat /\ now \in Nat /\ issued \in Nat
      /\ request[r].password = users[request[r].email].password \/ request[r].email \in straddled
  BY <1>1, InIsUser DEF Anonymous, AccessInvariant, RequestSound
<1>3. /\ new \in SessionRow /\ new.token = issued + 1 /\ new.email = request[r].email
      /\ new.created = now /\ new.used = now /\ LastSeen(new) = now /\ new.expires = new.created + SessionTtl
      /\ new.password = request[r].password
  BY <1>2, LifetimesAssumption DEF SessionRow, LastSeen
<1> HIDE DEF new
<1>4. Moved(r) /\ RequestSound(r)' /\ pc'[r] \in {"idle", "recording"}
  BY <1>1, LastIsSound
<1>5. \A s \in sessions : s.token \in 1 .. issued
  BY DEF AccessInvariant, SessionsSound
<1>6. SessionsSound'
  <2>1. ASSUME NEW s \in sessions'
        PROVE  /\ s \in SessionRow
               /\ IsUser(s.email)
               /\ s.token \in 1 .. issued + 1
               /\ s.created <= LastSeen(s) /\ LastSeen(s) <= s.used /\ s.used <= now
               /\ s.expires = s.created + SessionTtl
    BY <1>1, <1>2, <1>3 DEF AccessInvariant, SessionsSound
  <2>2. ASSUME NEW s \in sessions', NEW t \in sessions', s.token = t.token
        PROVE  s = t
    BY <1>1, <1>2, <1>3, <1>5, <2>2 DEF AccessInvariant, SessionsSound
  <2>3. QED
    BY <1>1, <2>1, <2>2 DEF SessionsSound, LastSeen, IsUser
<1>7. PasswordsSound'
  BY <1>1, <1>2, <1>3 DEF AccessInvariant, PasswordsSound, IsUser
<1>8. UsersSound' /\ AdmittedOnce' /\ JoinsSound'
  BY <1>1, <1>4 DEF AccessInvariant, UsersSound, AdmittedOnce, JoinsSound, IsUser, Household, Moved
<1>9. InvitesSound'
  BY <1>1, <1>2 DEF AccessInvariant, InvitesSound, IsUser
<1>10. ASSUME NEW q \in Requests \ {r}
       PROVE  RequestSound(q)'
  <2>1. RequestSound(q) /\ pc'[q] = pc[q] /\ request'[q] = request[q]
    BY <1>4 DEF AccessInvariant, Moved
  <2>2. pc[q] = "resolving" =>
          /\ request[q].token \in 1 .. issued'
          /\ \A s \in sessions' : s.token = request[q].token => s.created <= request[q].at /\ request[q].at <= s.used
    BY <1>1, <1>2, <1>3, <2>1 DEF RequestSound
  <2>3. pc[q] = "joining" => request[q].id \in 1 .. issued'
    BY <1>1, <1>2, <2>1 DEF RequestSound
  <2>4. QED
    BY <1>1, <2>1, <2>2, <2>3 DEF RequestSound, Anonymous, IsUser
<1>11. QED
  BY <1>1, <1>2, <1>4, <1>6, <1>7, <1>8, <1>9, <1>10 DEF AccessInvariant, Moved

\* What a change of password cannot reach has been under way: a session about to be opened, a code
\* about to be asked for.
LEMMA ChangePasswordKeeps ==
  ASSUME NoneIsNobody, AccessInvariant, NEW r \in Requests, ChangePassword(r)
  PROVE  AccessInvariant'
<1> DEFINE e == request[r].email
           row == users[e]
           new == [row EXCEPT !.password = @ + 1]
           what == [NoRequest EXCEPT !.email = e, !.password = row.password + 1]
<1>1. /\ pc[r] = "in" /\ users' = [users EXCEPT ![e] = new]
      /\ sessions' = {s \in sessions : s.email # e}
      /\ straddled' = straddled \cup {u \in {e} : LoginUnderWay(u)}
      /\ Goes(r, "issuing", what)
      /\ UNCHANGED <<invites, preauths, now, issued, raced>>
  BY DEF ChangePassword, In
<1>2. e \in Emails /\ IsUser(e) /\ row \in UserRow
  BY <1>1, InIsUser DEF Anonymous, AccessInvariant, UsersSound, IsUser
<1>3. /\ new \in UserRow /\ new.password = row.password + 1 /\ new.household = row.household
      /\ new.role = row.role /\ new.invite = row.invite /\ row.password \in Nat
  BY <1>2 DEF UserRow
<1>4. /\ DOMAIN what = Fields /\ what.at = 0 /\ what.password = row.password + 1 /\ what.secret = 0 /\ what.email = e
  BY DEF NoRequest, Fields
<1>5. LoginUnderWay(e) => e \in straddled'
  BY <1>1
<1>6. /\ \A q \in Requests : pc[q] = "issuing" /\ request[q].email = e => e \in straddled'
      /\ \A p \in preauths : p.email = e => e \in straddled' \/ ~(now - p.at <= PreauthTtl)
  BY <1>5 DEF LoginUnderWay
<1> HIDE DEF new, what, e, row
<1>7. /\ users' \in [Emails -> UserRow \cup {None}]
      /\ \A f \in Emails :
           /\ IsUser(f)' <=> IsUser(f)
           /\ IsUser(f) => /\ users'[f].household = users[f].household
                           /\ users'[f].role = users[f].role
                           /\ users'[f].invite = users[f].invite
           /\ f # e => users'[f] = users[f]
      /\ users'[e].password = row.password + 1
  BY <1>1, <1>2, <1>3 DEF NoneIsNobody, AccessInvariant, UsersSound, IsUser, row
<1>8. Moved(r) /\ pc'[r] = "issuing" /\ request'[r] = what
  BY <1>1 DEF AccessInvariant, Goes, Moved
<1>9. UsersSound' /\ AdmittedOnce' /\ JoinsSound'
  <2>1. \A f \in Emails : IsUser(f) => users[f].household \in Emails
    BY DEF AccessInvariant, UsersSound, UserRow, IsUser
  <2>2. QED
    BY <1>1, <1>7, <1>8, <2>1 DEF AccessInvariant, UsersSound, AdmittedOnce, JoinsSound, Household, Moved
<1>10. SessionsSound'
  <2>1. \A s \in sessions : s.email \in Emails
    BY DEF AccessInvariant, SessionsSound, SessionRow
  <2>2. QED
    BY <1>1, <1>7, <2>1 DEF AccessInvariant, SessionsSound, LastSeen, IsUser
<1>11. InvitesSound'
  <2>1. \A i \in invites : i.household \in Emails
    BY DEF AccessInvariant, InvitesSound, InviteRow
  <2>2. QED
    BY <1>1, <1>7, <2>1 DEF AccessInvariant, InvitesSound, IsUser
<1>12. PasswordsSound'
  <2>1. /\ \A s \in sessions : s.email \in Emails
        /\ \A p \in preauths : p.email \in Emails /\ p.at \in Nat
    BY DEF AccessInvariant, SessionsSound, SessionRow, PasswordsSound, PreauthRow
  <2>2. \A p \in preauths : p.password = users'[p.email].password \/ p.email \in straddled' \/ now - p.at > PreauthTtl
    BY <1>1, <1>6, <1>7, <2>1, LifetimesAssumption DEF AccessInvariant, PasswordsSound
  <2>3. \A s \in sessions' : s.password = users'[s.email].password \/ s.email \in straddled'
    BY <1>1, <1>7, <2>1 DEF AccessInvariant, PasswordsSound
  <2>4. QED
    BY <1>1, <1>7, <2>1, <2>2, <2>3 DEF AccessInvariant, PasswordsSound, IsUser
<1>13. ASSUME NEW q \in Requests
       PROVE  RequestSound(q)'
  <2>1. CASE q = r
    BY <1>2, <1>3, <1>4, <1>7, <1>8, <2>1 DEF RequestSound, Anonymous, IsUser
  <2>2. CASE q # r
    <3>1. RequestSound(q) /\ pc'[q] = pc[q] /\ request'[q] = request[q]
      BY <1>8, <2>2 DEF AccessInvariant, Moved
    <3>2. pc[q] = "issuing" => request[q].password = users'[request[q].email].password \/ request[q].email \in straddled'
      BY <1>1, <1>6, <1>7, <3>1 DEF RequestSound
    <3>3. pc[q] = "joining" =>
            \A f \in Emails : IsUser(f)' /\ users'[f].invite = request[q].id => request[q].id \in raced'
      BY <1>1, <1>7, <3>1 DEF RequestSound
    <3>4. pc[q] \notin {"idle", "recording"} \cup Anonymous => IsUser(request[q].email)'
      BY <1>7, <3>1 DEF RequestSound
    <3>5. QED
      BY <1>1, <3>1, <3>2, <3>3, <3>4 DEF RequestSound, Anonymous, IsUser
  <2>3. QED
    BY <2>1, <2>2
<1>14. QED
  BY <1>1, <1>8, <1>9, <1>10, <1>11, <1>12, <1>13 DEF AccessInvariant, Moved
-------------------------------------------------------------------------------
(* Joining *)

\* A user without invite, or one with an invite that is marked with it.
AdmittedWith(r, row) ==
    \/ pc[r] = "registering" /\ row.invite = 0 /\ row.role = "owner" /\ row.household = request[r].email
       /\ UNCHANGED invites
    \/ \E i \in invites, marked \in InviteRow :
         /\ pc[r] = "joining" /\ i.id = request[r].id
         /\ row.invite = i.id /\ row.role = "member" /\ row.household = i.household
         /\ marked.id = i.id /\ marked.household = i.household /\ marked.used
         /\ invites' = (invites \ {i}) \cup {marked}

LEMMA AdmissionKeeps ==
  ASSUME NoneIsNobody, AccessInvariant, NEW r \in Requests, ~IsUser(request[r].email),
         NEW row \in UserRow, row.password = 0, AdmittedWith(r, row),
         users' = [users EXCEPT ![request[r].email] = row],
         NEW what, Goes(r, "issuing", what), DOMAIN what = Fields, what.at = request[r].at,
         what.password = request[r].password, what.secret = request[r].secret, what.email = request[r].email,
         UNCHANGED <<sessions, preauths, now, issued, raced, straddled>>
  PROVE  AccessInvariant'
<1> DEFINE e == request[r].email
<1>1. RequestSound(r) /\ pc[r] \in Anonymous /\ e \in Emails
  BY DEF AdmittedWith, Anonymous, AccessInvariant, RequestSound
<1>2. Moved(r) /\ pc'[r] = "issuing" /\ request'[r] = what
  BY DEF AccessInvariant, Goes, Moved
<1>3. ~IsUser(e)
  OBVIOUS
<1> HIDE DEF e
<1>4. /\ users' \in [Emails -> UserRow \cup {None}] /\ users'[e] = row /\ users'[e] # None
      /\ \A f \in Emails \ {e} : users'[f] = users[f] /\ (IsUser(f)' <=> IsUser(f))
  <2>1. users' = [users EXCEPT ![e] = row] /\ users \in [Emails -> UserRow \cup {None}] /\ row # None
    BY DEF NoneIsNobody, AccessInvariant, UsersSound, e
  <2>2. users' \in [Emails -> UserRow \cup {None}] /\ users'[e] = row /\ \A f \in Emails \ {e} : users'[f] = users[f]
    BY <1>1, <2>1
  <2>3. QED
    BY <2>1, <2>2 DEF IsUser
<1>5. UsersSound'
  <2>1. ASSUME NEW f \in Emails \ {e}, IsUser(f)
        PROVE  /\ users[f].household \in Emails
               /\ users[f].invite = 0 <=> users[f].role = "owner" /\ users[f].household = f
               /\ users[f].invite # 0 => IsUser(users[f].household)' /\ users'[users[f].household].role = "owner"
    BY <1>3, <1>4, <2>1 DEF AccessInvariant, UsersSound, UserRow, IsUser, Household
  <2>2. /\ row.invite = 0 <=> row.role = "owner" /\ row.household = e
        /\ row.invite # 0 => IsUser(row.household)' /\ users'[row.household].role = "owner"
    <3>1. CASE row.invite = 0 /\ row.role = "owner" /\ row.household = e
      BY <3>1
    <3>2. ASSUME NEW i \in invites, row.invite = i.id, row.role = "member", row.household = i.household
          PROVE  row.invite # 0 /\ IsUser(row.household)' /\ users'[row.household].role = "owner"
      BY <1>3, <1>4, <3>2 DEF AccessInvariant, InvitesSound, InviteRow
    <3>3. QED
      BY <3>1, <3>2 DEF AdmittedWith, e
  <2>3. QED
    BY <1>4, <2>1, <2>2 DEF UsersSound, Household
<1>6. SessionsSound' /\ PasswordsSound'
  <2>1. /\ \A s \in sessions : s.email \in Emails \ {e}
        /\ \A p \in preauths : p.email \in Emails \ {e}
    BY <1>3 DEF AccessInvariant, SessionsSound, SessionRow, PasswordsSound, PreauthRow
  <2>2. SessionsSound'
    BY <1>4, <2>1 DEF AccessInvariant, SessionsSound, LastSeen
  <2>3. PasswordsSound'
    BY <1>4, <2>1 DEF AccessInvariant, PasswordsSound
  <2>4. QED
    BY <2>2, <2>3
<1>7. InvitesSound'
  <2>1. \A i \in invites : i.household \in Emails \ {e}
    BY <1>3 DEF AccessInvariant, InvitesSound, InviteRow
  <2>2. CASE row.invite = 0 /\ UNCHANGED invites
    BY <1>4, <2>1, <2>2 DEF AccessInvariant, InvitesSound
  <2>3. ASSUME NEW i \in invites, NEW marked \in InviteRow, row.invite = i.id,
               marked.id = i.id, marked.household = i.household, marked.used,
               invites' = (invites \ {i}) \cup {marked}
        PROVE  InvitesSound'
    <3>1. /\ \A j \in invites \ {i} : j.id # i.id
          /\ i.id \in 1 .. issued
      BY DEF AccessInvariant, InvitesSound
    <3>2. ASSUME NEW j \in invites'
          PROVE  /\ j \in InviteRow /\ j.id \in 1 .. issued
                 /\ IsUser(j.household)' /\ users'[j.household].role = "owner"
      BY <1>4, <2>1, <2>3, <3>1 DEF AccessInvariant, InvitesSound
    <3>3. ASSUME NEW j \in invites', NEW k \in invites', j.id = k.id
          PROVE  j = k
      BY <2>3, <3>1, <3>3 DEF AccessInvariant, InvitesSound
    <3>4. ASSUME NEW f \in Emails, IsUser(f)'
          PROVE  /\ users'[f].invite \in 0 .. issued
                 /\ \A j \in invites' : users'[f].invite = j.id => j.used
      BY <1>4, <2>3, <3>1, <3>4 DEF AccessInvariant, InvitesSound
    <3>5. QED
      BY <3>2, <3>3, <3>4 DEF InvitesSound
  <2>4. QED
    BY <2>2, <2>3 DEF AdmittedWith
<1>8. AdmittedOnce'
  <2>1. row.invite = 0 \/ \A f \in Emails : IsUser(f) /\ users[f].invite = row.invite => row.invite \in raced
    BY <1>1 DEF AdmittedWith, RequestSound
  <2>2. QED
    BY <1>4, <2>1 DEF AccessInvariant, AdmittedOnce
<1>9. JoinsSound'
  BY <1>2 DEF AccessInvariant, JoinsSound, Moved
<1>10. ASSUME NEW q \in Requests
       PROVE  RequestSound(q)'
  <2>1. CASE q = r
    BY <1>1, <1>2, <1>4, <2>1 DEF RequestSound, Anonymous, IsUser, e
  <2>2. CASE q # r
    <3>1. RequestSound(q) /\ pc'[q] = pc[q] /\ request'[q] = request[q]
      BY <1>2, <2>2 DEF AccessInvariant, Moved
    <3>2. pc[q] \notin {"idle", "recording"} \cup Anonymous => IsUser(request[q].email)' /\ request[q].email # e
      BY <1>3, <1>4, <3>1 DEF RequestSound
    <3>3. pc[q] = "joining" =>
            \A f \in Emails : IsUser(f)' /\ users'[f].invite = request[q].id => request[q].id \in raced
      <4>1. pc[q] = "joining" /\ row.invite = request[q].id => request[q].id \in raced
        BY <2>2, <3>1 DEF AdmittedWith, AccessInvariant, JoinsSound, RequestSound
      <4>2. QED
        BY <1>4, <3>1, <4>1 DEF RequestSound
    <3>4. pc[q] = "issuing" => users'[request[q].email] = users[request[q].email]
      BY <1>4, <3>1, <3>2 DEF RequestSound, Anonymous
    <3>5. QED
      BY <3>1, <3>2, <3>3, <3>4 DEF RequestSound, Anonymous
  <2>3. QED
    BY <2>1, <2>2
<1>11. QED
  BY <1>2, <1>5, <1>6, <1>7, <1>8, <1>9, <1>10 DEF AccessInvariant, Moved

LEMMA CommitRegisterKeeps ==
  ASSUME NoneIsNobody, AccessInvariant, NEW r \in Requests, CommitRegister(r)
  PROVE  AccessInvariant'
<1> DEFINE e == request[r].email
           row == NewUser(e, "owner", 0)
<1>1. RequestSound(r) /\ pc[r] = "registering" /\ e \in Emails
      /\ UNCHANGED <<sessions, invites, preauths, now, issued, raced, straddled>>
  BY DEF CommitRegister, history, AccessInvariant, RequestSound
<1>2. CASE IsUser(e)
  <2>1. Ends(r) /\ Fewer
    BY <1>1, <1>2, SameUsers DEF CommitRegister, Fewer, AccessInvariant
  <2>2. QED
    BY <2>1, LastStep
<1>3. CASE ~IsUser(e)
  <2>1. users' = [users EXCEPT ![e] = row] /\ Goes(r, "issuing", request[r])
    BY <1>3 DEF CommitRegister
  <2>2. row \in UserRow /\ row.password = 0 /\ row.invite = 0 /\ row.role = "owner" /\ row.household = e
    BY <1>1 DEF NewUser, UserRow
  <2> HIDE DEF row
  <2>3. AdmittedWith(r, row)
    BY <1>1, <2>2 DEF AdmittedWith
  <2>4. QED
    BY <1>1, <1>3, <2>1, <2>2, <2>3, AdmissionKeeps DEF RequestSound
<1>4. QED
  BY <1>2, <1>3

LEMMA CommitJoinKeeps ==
  ASSUME NoneIsNobody, AccessInvariant, NEW r \in Requests, CommitJoin(r)
  PROVE  AccessInvariant'
<1> DEFINE e == request[r].email
           mine == {i \in invites : i.id = request[r].id}
<1>1. RequestSound(r) /\ pc[r] = "joining" /\ e \in Emails
      /\ UNCHANGED <<sessions, preauths, now, issued, raced, straddled>>
  BY DEF CommitJoin, history, AccessInvariant, RequestSound
<1>2. CASE IsUser(e) \/ mine = {}
  <2>1. Ends(r) /\ Fewer
    BY <1>1, <1>2, SameUsers DEF CommitJoin, Fewer, AccessInvariant
  <2>2. QED
    BY <2>1, LastStep
<1>3. ASSUME ~IsUser(e), NEW i \in mine
      PROVE  AccessInvariant'
  <2> DEFINE row == NewUser(i.household, "member", i.id)
             marked == [i EXCEPT !.used = TRUE]
             what == [request[r] EXCEPT !.deed = <<"invite.accepted">>]
  <2>1. mine = {i} /\ i \in invites /\ i \in InviteRow /\ i.id = request[r].id
    BY <1>3 DEF AccessInvariant, InvitesSound
  <2>2. /\ users' = [users EXCEPT ![e] = row] /\ Goes(r, "issuing", what)
        /\ invites' = (invites \ {i}) \cup {marked}
    BY <1>3, <2>1 DEF CommitJoin
  <2>3. /\ row \in UserRow /\ row.password = 0 /\ row.invite = i.id /\ row.role = "member"
        /\ row.household = i.household
    BY <2>1 DEF NewUser, UserRow, InviteRow
  <2>4. marked \in InviteRow /\ marked.id = i.id /\ marked.household = i.household /\ marked.used
    BY <2>1 DEF InviteRow
  <2>5. /\ DOMAIN what = Fields /\ what.at = request[r].at /\ what.email = e
        /\ what.password = request[r].password /\ what.secret = request[r].secret
    BY <1>1 DEF RequestSound, Fields
  <2> HIDE DEF row, marked, what, mine
  <2>6. AdmittedWith(r, row)
    BY <1>1, <2>1, <2>2, <2>3, <2>4 DEF AdmittedWith
  <2>7. QED
    BY <1>1, <1>3, <2>2, <2>3, <2>5, <2>6, AdmissionKeeps
<1>4. QED
  BY <1>2, <1>3

\* Of two joins that have read an invite unused, the second one raced for it.
LEMMA AskJoinKeeps ==
  ASSUME AccessInvariant, NEW r \in Requests, NEW i \in invites, NEW e \in Emails, AskJoin(r, i, e)
  PROVE  AccessInvariant'
<1> DEFINE what == [NoRequest EXCEPT !.email = e, !.id = i.id]
<1>1. /\ ~i.used /\ Goes(r, "joining", what)
      /\ raced' = raced \cup {j \in {i.id} : \E q \in Requests : pc[q] = "joining" /\ request[q].id = j}
      /\ pc[r] = "idle"
      /\ UNCHANGED <<users, sessions, invites, preauths, now, issued, straddled>>
  BY DEF AskJoin, db
<1>2. DOMAIN what = Fields /\ what.at = 0 /\ what.password = 0 /\ what.secret = 0 /\ what.email = e /\ what.id = i.id
  BY DEF NoRequest, Fields
<1> HIDE DEF what
<1>3. Moved(r) /\ pc'[r] = "joining" /\ request'[r] = what
  BY <1>1 DEF AccessInvariant, Goes, Moved
<1>4. i.id \in 1 .. issued /\ \A f \in Emails : ~(IsUser(f) /\ users[f].invite = i.id)
  BY <1>1 DEF AccessInvariant, InvitesSound
<1>5. /\ raced \subseteq raced'
      /\ \A q \in Requests : pc[q] = "joining" /\ request[q].id = i.id => i.id \in raced'
  BY <1>1
<1>6. JoinsSound'
  BY <1>1, <1>2, <1>3, <1>5 DEF AccessInvariant, JoinsSound, Moved
<1>7. UsersSound' /\ SessionsSound' /\ PasswordsSound'
  BY <1>1 DEF AccessInvariant, UsersSound, SessionsSound, PasswordsSound, IsUser, Household, LastSeen
<1>8. InvitesSound' /\ AdmittedOnce'
  BY <1>1, <1>5 DEF AccessInvariant, InvitesSound, AdmittedOnce, IsUser
<1>9. ASSUME NEW q \in Requests
      PROVE  RequestSound(q)'
  <2>1. CASE q = r
    BY <1>1, <1>2, <1>3, <1>4, <2>1 DEF RequestSound, Anonymous, IsUser
  <2>2. CASE q # r
    BY <1>1, <1>3, <1>5, <2>2 DEF AccessInvariant, RequestSound, Moved, IsUser
  <2>3. QED
    BY <2>1, <2>2
<1>10. QED
  BY <1>1, <1>3, <1>6, <1>7, <1>8, <1>9 DEF AccessInvariant, Moved

LEMMA CreateInviteKeeps ==
  ASSUME AccessInvariant, NEW r \in Requests, CreateInvite(r)
  PROVE  AccessInvariant'
<1> DEFINE e == request[r].email
           new == [id |-> issued + 1, household |-> Household(e), expires |-> now + InviteTtl, used |-> FALSE]
<1>1. /\ pc[r] = "in" /\ users[e].role = "owner" /\ issued' = issued + 1 /\ invites' = invites \cup {new}
      /\ Done(r, <<"invite.created", issued'>>)
      /\ UNCHANGED <<users, sessions, preauths, now, raced, straddled>>
  BY DEF CreateInvite, Owner, In
<1>2. e \in Emails /\ IsUser(e) /\ users[e] \in UserRow /\ issued \in Nat /\ now \in Nat
  BY <1>1, InIsUser DEF Anonymous, AccessInvariant, UsersSound, IsUser
<1>3. users[e].invite = 0 => Household(e) = e
  BY <1>2 DEF AccessInvariant, UsersSound
<1>4. Household(e) \in Emails /\ IsUser(Household(e)) /\ users[Household(e)].role = "owner"
  BY <1>1, <1>2, <1>3 DEF AccessInvariant, UsersSound, UserRow, Household
<1>5. new \in InviteRow /\ new.id = issued + 1 /\ new.household = Household(e)
  BY <1>2, <1>4, LifetimesAssumption DEF InviteRow
<1> HIDE DEF new, e
<1>6. Moved(r) /\ RequestSound(r)' /\ pc'[r] \in {"idle", "recording"}
  BY <1>1, LastIsSound
<1>7. InvitesSound'
  <2>1. \A i \in invites : i.id \in 1 .. issued
    BY DEF AccessInvariant, InvitesSound
  <2>2. ASSUME NEW i \in invites'
        PROVE  i \in InviteRow /\ i.id \in 1 .. issued + 1 /\ users[i.household] # None /\ users[i.household].role = "owner"
    BY <1>1, <1>2, <1>4, <1>5, <2>1 DEF AccessInvariant, InvitesSound, IsUser
  <2>3. ASSUME NEW i \in invites', NEW j \in invites', i.id = j.id
        PROVE  i = j
    BY <1>1, <1>2, <1>5, <2>1, <2>3 DEF AccessInvariant, InvitesSound
  <2>4. ASSUME NEW f \in Emails, IsUser(f)
        PROVE  users[f].invite \in 0 .. issued + 1 /\ \A i \in invites' : users[f].invite = i.id => i.used
    BY <1>1, <1>2, <1>5, <2>4 DEF AccessInvariant, InvitesSound
  <2>5. QED
    BY <1>1, <2>2, <2>3, <2>4 DEF InvitesSound, IsUser
<1>8. UsersSound' /\ PasswordsSound' /\ AdmittedOnce'
  BY <1>1 DEF AccessInvariant, UsersSound, PasswordsSound, AdmittedOnce, IsUser, Household
<1>9. JoinsSound'
  BY <1>1, <1>6 DEF AccessInvariant, JoinsSound, Moved
<1>10. SessionsSound'
  BY <1>1, <1>2 DEF AccessInvariant, SessionsSound, LastSeen, IsUser
<1>11. ASSUME NEW q \in Requests \ {r}
       PROVE  RequestSound(q)'
  <2>1. RequestSound(q) /\ pc'[q] = pc[q] /\ request'[q] = request[q]
    BY <1>6 DEF AccessInvariant, Moved
  <2>2. \A n \in 1 .. issued : n \in 1 .. issued'
    BY <1>1, <1>2
  <2>3. UNCHANGED <<users, sessions, raced, straddled>>
    BY <1>1
  <2> HIDE <1>1, <1>6
  <2>4. QED
    BY <2>1, <2>2, <2>3 DEF RequestSound, IsUser
<1>12. QED
  BY <1>1, <1>2, <1>6, <1>7, <1>8, <1>9, <1>10, <1>11 DEF AccessInvariant, Moved
-------------------------------------------------------------------------------
(* Time, restarts and the vault *)

LEMMA TickKeeps ==
  ASSUME AccessInvariant, Tick
  PROVE  AccessInvariant'
<1>1. now' = now + 1 /\ now \in Nat
      /\ UNCHANGED <<users, sessions, invites, preauths, pc, request, issued, raced, straddled>>
  BY DEF Tick, db, history, AccessInvariant
<1>2. SessionsSound'
  <2>1. ASSUME NEW s \in sessions
        PROVE  s.used <= now + 1
    BY <1>1 DEF AccessInvariant, SessionsSound, SessionRow
  <2>2. QED
    BY <1>1, <2>1 DEF AccessInvariant, SessionsSound, LastSeen, IsUser
<1>3. PasswordsSound'
  <2>1. ASSUME NEW p \in preauths
        PROVE  p.at <= now' /\ (now - p.at > PreauthTtl => now' - p.at > PreauthTtl)
    BY <1>1, LifetimesAssumption DEF AccessInvariant, PasswordsSound, PreauthRow
  <2>2. \A p \in preauths :
          IsUser(p.email) /\ (p.password = users[p.email].password \/ p.email \in straddled \/ now' - p.at > PreauthTtl)
    BY <2>1 DEF AccessInvariant, PasswordsSound
  <2>3. preauths \subseteq PreauthRow
        /\ \A s \in sessions : s.password = users[s.email].password \/ s.email \in straddled
    BY DEF AccessInvariant, PasswordsSound
  <2>4. QED
    BY <1>1, <2>1, <2>2, <2>3 DEF PasswordsSound, IsUser
<1>4. UsersSound' /\ InvitesSound' /\ AdmittedOnce' /\ JoinsSound'
  BY <1>1 DEF AccessInvariant, UsersSound, InvitesSound, AdmittedOnce, JoinsSound, IsUser, Household
<1>5. ASSUME NEW r \in Requests
      PROVE  RequestSound(r)'
  BY <1>1 DEF AccessInvariant, RequestSound, IsUser
<1>6. QED
  BY <1>1, <1>2, <1>3, <1>4, <1>5 DEF AccessInvariant

LEMMA IdleIsSound ==
  /\ DOMAIN NoRequest = Fields
  /\ NoRequest.at \in Nat /\ NoRequest.password \in Nat /\ NoRequest.secret \in Nat
BY DEF NoRequest, Fields

LEMMA RestartKeeps ==
  ASSUME AccessInvariant, Restart
  PROVE  AccessInvariant'
<1>1. /\ pc' = [r \in Requests |-> "idle"] /\ request' = [r \in Requests |-> NoRequest]
      /\ UNCHANGED <<users, sessions, invites, preauths, now, issued, raced, straddled>>
  BY DEF Restart, db, history
<1>2. SessionsSound' /\ PasswordsSound' /\ UsersSound' /\ InvitesSound' /\ AdmittedOnce' /\ JoinsSound'
  BY <1>1 DEF AccessInvariant, SessionsSound, PasswordsSound, UsersSound, InvitesSound, AdmittedOnce, JoinsSound,
     IsUser, Household, LastSeen
<1>3. ASSUME NEW r \in Requests
      PROVE  RequestSound(r)'
  BY <1>1, IdleIsSound DEF RequestSound, Anonymous
<1>4. QED
  BY <1>1, <1>2, <1>3 DEF AccessInvariant

\* To users, sessions and invites the vault is a number given out and a request that goes on.
LEMMA VaultStepKeeps ==
  ASSUME AccessInvariant, NEW r \in Requests, VaultStep(r)
  PROVE  AccessInvariant'
<1>1. CASE Flush(r)
  <2>1. /\ Goes(r, "flushed", [request[r] EXCEPT !.id = issued + 1]) /\ pc[r] = "in"
        /\ issued' = issued + 1 /\ Fewer
    BY <1>1, SameUsers DEF Flush, Owner, In, Fewer, db, AccessInvariant
  <2>2. QED
    BY <2>1, InIsUser, NextStep DEF Anonymous
<1>2. CASE WriteFile(r)
  <2>1. Goes(r, "written", request[r]) /\ pc[r] = "flushed" /\ Fewer
    BY <1>2, SameUsers DEF WriteFile, Fewer, db, history, AccessInvariant
  <2>2. QED
    BY <2>1, InIsUser, NextStep DEF Anonymous
<1>3. CASE CommitSave(r)
  <2>1. Ends(r) /\ Fewer
    BY <1>3, SameUsers DEF CommitSave, Fewer, db, history, AccessInvariant
  <2>2. QED
    BY <2>1, LastStep
<1>4. CASE CommitDelete(r)
  <2>1. Done(r, <<"vault.document_deleted", request[r].id>>) /\ Fewer
    BY <1>4, SameUsers DEF CommitDelete, Fewer, db, history, AccessInvariant
  <2>2. QED
    BY <2>1, LastStep
<1>5. CASE Download(r)
  <2>1. Ends(r) \/ Done(r, <<"vault.document_downloaded", request[r].id>>)
    BY <1>5 DEF Download
  <2>2. Fewer
    BY <1>5, SameUsers DEF Download, Fewer, db, history, AccessInvariant
  <2>3. QED
    BY <2>1, <2>2, LastStep
<1>6. ASSUME NEW d \in documents, Unlink(r, d)
      PROVE  AccessInvariant'
  <2>1. Goes(r, "unlinked", [request[r] EXCEPT !.id = d.id]) /\ pc[r] = "in" /\ Fewer
    BY <1>6, SameUsers DEF Unlink, Owner, In, Fewer, db, history, AccessInvariant
  <2>2. QED
    BY <2>1, InIsUser, NextStep DEF Anonymous
<1>7. ASSUME NEW d \in documents, AskDownload(r, d)
      PROVE  AccessInvariant'
  <2>1. Goes(r, "downloading", [request[r] EXCEPT !.id = d.id]) /\ pc[r] = "in" /\ Fewer
    BY <1>7, SameUsers DEF AskDownload, Owner, In, Fewer, db, history, AccessInvariant
  <2>2. QED
    BY <2>1, InIsUser, NextStep DEF Anonymous
<1>8. QED
  BY <1>1, <1>2, <1>3, <1>4, <1>5, <1>6, <1>7 DEF VaultStep
-------------------------------------------------------------------------------
(* The theorems *)

LEMMA InitInvariant == NoneIsNobody /\ VaultInit => AccessInvariant
<1> SUFFICES ASSUME NoneIsNobody, VaultInit PROVE AccessInvariant
  OBVIOUS
<1>1. /\ users = [e \in Emails |-> None] /\ sessions = {} /\ invites = {} /\ preauths = {}
      /\ now = 0 /\ issued = 0 /\ raced = {} /\ straddled = {}
      /\ pc = [r \in Requests |-> "idle"] /\ request = [r \in Requests |-> NoRequest]
  BY DEF VaultInit, Init
<1>2. \A e \in Emails : ~IsUser(e)
  BY <1>1 DEF IsUser
<1>3. UsersSound /\ SessionsSound /\ PasswordsSound /\ InvitesSound /\ AdmittedOnce /\ JoinsSound
  BY <1>1, <1>2 DEF UsersSound, SessionsSound, PasswordsSound, InvitesSound, AdmittedOnce, JoinsSound
<1>4. \A r \in Requests : RequestSound(r)
  BY <1>1, IdleIsSound DEF RequestSound, Anonymous
<1>5. QED
  BY <1>1, <1>3, <1>4 DEF AccessInvariant

LEMMA StepInvariant == NoneIsNobody /\ AccessInvariant /\ [VaultNext]_vaultVars => AccessInvariant'
<1> SUFFICES ASSUME NoneIsNobody, AccessInvariant, [VaultNext]_vaultVars PROVE AccessInvariant'
  OBVIOUS
<1>1. CASE AccessStep
  <2>1. ASSUME NEW r \in Requests, Arrive(r)
        PROVE  AccessInvariant'
    BY <2>1, AskRegisterKeeps, LoginKeeps, LoginVerifyKeeps, ResolveKeeps, AskJoinKeeps DEF Arrive
  <2>2. ASSUME NEW r \in Requests, Advance(r)
        PROVE  AccessInvariant'
    BY <2>2, CommitRegisterKeeps, IssueKeeps, TouchKeeps, CommitJoinKeeps, ChangePasswordKeeps, EnrolmentKeeps,
       CreateInviteKeeps, RemovalsKeep DEF Advance
  <2>3. QED
    BY <1>1, <2>1, <2>2, TickKeeps DEF AccessStep
<1>2. ASSUME NEW r \in Requests, VaultStep(r)
      PROVE  AccessInvariant'
  BY <1>2, VaultStepKeeps
<1>3. CASE VaultRestart
  BY <1>3, RestartKeeps DEF VaultRestart
<1>4. CASE UNCHANGED vaultVars
  <2>1. UNCHANGED <<users, sessions, invites, preauths, now, issued, raced, straddled, pc, request>>
    BY <1>4 DEF vaultVars, accessVars, db, history
  <2>2. QED
    BY <2>1 DEF AccessInvariant, SessionsSound, PasswordsSound, UsersSound, InvitesSound, AdmittedOnce, JoinsSound,
       RequestSound, IsUser, Household, LastSeen
<1>5. QED
  BY <1>1, <1>2, <1>3, <1>4 DEF VaultNext

\* Whatever logins, changes and requests of the vault overlap, a session that a password change was
\* to end is not left and not opened, but for those of a login that was under way at a change.
THEOREM RotationAlwaysEndsSessions == ASSUME NoneIsNobody PROVE VaultSpec => []RotationEndsSessions
<1>1. AccessInvariant => RotationEndsSessions
  BY DEF AccessInvariant, PasswordsSound, RotationEndsSessions
<1>2. QED
  BY <1>1, InitInvariant, StepInvariant, PTL DEF VaultSpec

\* For any lifetimes, and in whatever order overlapping requests write back the time each came at.
THEOREM SessionsAlwaysLapse == ASSUME NoneIsNobody PROVE VaultSpec => SessionsLapse
<1>1. ASSUME AccessInvariant, NEW r \in Requests, NEW s \in sessions, Resolve(r, s)
      PROVE  now - s.used <= IdleTimeout /\ now - s.created <= SessionTtl
  <2>1. /\ s.created \in Nat /\ s.used \in Nat /\ now \in Nat /\ s.expires = s.created + SessionTtl
        /\ LastSeen(s) \in Int /\ LastSeen(s) <= s.used
        /\ now <= s.expires /\ now - LastSeen(s) <= IdleTimeout
    BY <1>1 DEF AccessInvariant, SessionsSound, SessionRow, Resolve, Lives, LastSeen
  <2>2. QED
    BY <2>1, LifetimesAssumption
<1>2. AccessInvariant =>
        [\A r \in Requests, s \in sessions :
            Resolve(r, s) => now - s.used <= IdleTimeout /\ now - s.created <= SessionTtl]_accessVars
  BY <1>1
<1>3. QED
  BY <1>2, InitInvariant, StepInvariant, PTL DEF VaultSpec, SessionsLapse

\* An invite admits one, or one for each of the joins that raced for it, in whatever order joins,
\* revocations and restarts come; and a household is of the owner who founded it.
THEOREM InviteAlwaysAdmitsOnce == ASSUME NoneIsNobody PROVE VaultSpec => []InviteAdmitsOnce
<1>1. ASSUME AccessInvariant
      PROVE  InviteAdmitsOnce
  <2>1. \A r \in Requests : pc[r] = "idle" <=> request[r] = NoRequest
    <3>1. NoRequest.email = None /\ NoRequest.deed = <<>>
      BY DEF NoRequest
    <3>2. QED
      BY <1>1, <3>1 DEF NoneIsNobody, AccessInvariant, RequestSound
  <2>2. TypeOK
    BY <1>1, <2>1 DEF TypeOK, AccessInvariant, UsersSound, SessionsSound, PasswordsSound, InvitesSound
  <2>3. QED
    BY <1>1, <2>2 DEF InviteAdmitsOnce, AccessInvariant, UsersSound, AdmittedOnce
<1>2. QED
  BY <1>1, InitInvariant, StepInvariant, PTL DEF VaultSpec
-------------------------------------------------------------------------------
(***************************************************************************)
(* The vault: rows and files go together.  An id is given once, so until   *)
(* its row commits nobody else can reach its file; and one whose deletion  *)
(* was committed is held by nobody any more.                               *)
(***************************************************************************)
\* The requests that hold an id whose row is not committed.
Uploading(r) == pc[r] \in {"flushed", "written"}

OfVault == {"flushed", "written", "unlinked"}

DeletionOf(id) == <<"vault.document_deleted", id>>

\* The deletion is committed, and recorded or about to be.
Gone(id) ==
    \/ DeletionOf(id) \in audit
    \/ \E r \in Requests : pc[r] = "recording" /\ request[r].deed = DeletionOf(id)

IdsAreGiven ==
    /\ issued \in Nat
    /\ \A d \in documents : d.id \in 1 .. issued
    /\ \A r \in Requests : pc[r] \in OfVault => request[r].id \in 1 .. issued

\* No two uploads have the same id, and nobody else has it.
UploadsAreAlone ==
    \A r \in Requests : Uploading(r) =>
        /\ \A q \in Requests : pc[q] \in OfVault /\ request[q].id = request[r].id => q = r
        /\ \A d \in documents : d.id # request[r].id
        /\ ~Gone(request[r].id)
        /\ pc[r] = "written" => request[r].id \in files

RowsAndFiles ==
    /\ \A d \in documents : d.id \in files \cup Under("unlinked") \cup torn
    /\ \A id \in files : id \in {d.id : d \in documents} \cup Under("written") \cup torn

UnlinkedIsOff == \A r \in Requests : pc[r] = "unlinked" => request[r].id \notin files

GoneIsOff == \A id : Gone(id) => id \notin files /\ id \in 1 .. issued /\ \A d \in documents : d.id # id

\* A deed that is carried along is not a deletion.
Carried ==
    \A r \in Requests :
        /\ pc[r] = "registering" => request[r].deed = <<>>
        /\ pc[r] = "issuing" => request[r].deed = <<>> \/ request[r].deed[1] # "vault.document_deleted"

IsDeed(e) == \E kind, id : e = <<kind, id>>

Deeds ==
    /\ \A e \in audit : IsDeed(e)
    /\ \A r \in Requests : pc[r] = "recording" => IsDeed(request[r].deed)

VaultInvariant ==
    /\ DOMAIN pc = Requests /\ DOMAIN request = Requests
    /\ \A r \in Requests : DOMAIN request[r] = Fields
    /\ IdsAreGiven /\ UploadsAreAlone /\ RowsAndFiles /\ UnlinkedIsOff /\ GoneIsOff
    /\ Carried /\ Deeds
-------------------------------------------------------------------------------
(* Steps of Access *)

\* What a request does that is none of the vault's.
Elsewhere(r) ==
    /\ issued' \in {issued, issued + 1}
    /\ audit' = audit \/ (pc[r] = "recording" /\ audit' = audit \cup {request[r].deed})
    /\ \/ UNCHANGED <<pc, request>>
       \/ \E stage, what :
            /\ Goes(r, stage, what)
            /\ DOMAIN what = Fields
            /\ pc[r] \notin OfVault /\ stage \notin OfVault
            /\ stage = "recording" => IsDeed(what.deed) /\ what.deed[1] # "vault.document_deleted"
            /\ stage = "registering" => what.deed = <<>>
            /\ stage = "issuing" => what.deed = <<>> \/ what.deed[1] # "vault.document_deleted"

LEMMA ElsewhereKeeps ==
  ASSUME VaultInvariant, NEW r \in Requests, Elsewhere(r), UNCHANGED <<documents, files, torn>>
  PROVE  VaultInvariant'
<1>1. /\ DOMAIN pc' = Requests /\ DOMAIN request' = Requests
      /\ \A q \in Requests : DOMAIN request'[q] = Fields
      /\ issued' \in Nat /\ issued <= issued'
      /\ \A q \in Requests : pc[q] \in OfVault \/ pc'[q] \in OfVault => pc'[q] = pc[q] /\ request'[q] = request[q]
  BY DEF VaultInvariant, IdsAreGiven, Elsewhere, Goes
<1>2. Carried' /\ Deeds'
  BY DEF VaultInvariant, Elsewhere, Goes, Carried, Deeds
<1>3. ASSUME NEW id, Gone(id)'
      PROVE  Gone(id)
  BY <1>3 DEF VaultInvariant, Elsewhere, Goes, Gone, IsDeed, DeletionOf
<1>5. IdsAreGiven' /\ GoneIsOff'
  BY <1>1, <1>3 DEF VaultInvariant, IdsAreGiven, GoneIsOff
<1>6. UploadsAreAlone' /\ UnlinkedIsOff'
  BY <1>1, <1>3 DEF VaultInvariant, UploadsAreAlone, UnlinkedIsOff, Uploading, OfVault
<1>7. Under("unlinked")' = Under("unlinked") /\ Under("written")' = Under("written")
  BY <1>1 DEF Under, OfVault
<1>8. RowsAndFiles'
  BY <1>7 DEF VaultInvariant, RowsAndFiles
<1>9. QED
  BY <1>1, <1>2, <1>5, <1>6, <1>8 DEF VaultInvariant

LEMMA GoesElsewhere ==
  ASSUME NEW r \in Requests, NEW stage, NEW what, Goes(r, stage, what),
         issued' \in {issued, issued + 1}, UNCHANGED audit,
         DOMAIN what = Fields, pc[r] \notin OfVault, stage \notin OfVault,
         \/ what.deed = <<>> /\ stage # "recording"
         \/ \E kind, id : /\ what.deed \in {<<kind>>, <<kind, id>>}
                          /\ kind # "vault.document_deleted"
                          /\ stage # "registering"
                          /\ stage = "recording" => what.deed = <<kind, id>>
  PROVE  Elsewhere(r)
<1>1. CASE what.deed = <<>> /\ stage # "recording"
  BY <1>1 DEF Elsewhere
<1>2. ASSUME NEW kind, NEW id, what.deed \in {<<kind>>, <<kind, id>>}, kind # "vault.document_deleted",
             stage # "registering", stage = "recording" => what.deed = <<kind, id>>
      PROVE  Elsewhere(r)
  <2>1. what.deed[1] # "vault.document_deleted"
    BY <1>2
  <2>2. stage = "recording" => IsDeed(what.deed)
    BY <1>2 DEF IsDeed
  <2>3. QED
    BY <1>2, <2>1, <2>2 DEF Elsewhere
<1>3. QED
  BY <1>1, <1>2

\* The deed is done and is to be recorded; or there is none to record.
LEMMA DoneElsewhere ==
  ASSUME NEW r \in Requests, NEW kind, NEW id, Done(r, <<kind, id>>), kind # "vault.document_deleted",
         issued' \in {issued, issued + 1}, UNCHANGED audit, pc[r] \notin OfVault
  PROVE  Elsewhere(r)
<1> DEFINE what == [NoRequest EXCEPT !.deed = <<kind, id>>]
<1>1. Goes(r, "recording", what) /\ DOMAIN what = Fields /\ what.deed = <<kind, id>>
  BY DEF Done, NoRequest, Fields
<1> HIDE DEF what
<1>2. "recording" \notin OfVault
  BY DEF OfVault
<1>3. QED
  BY <1>1, <1>2, GoesElsewhere

LEMMA EndsElsewhere ==
  ASSUME NEW r \in Requests, Ends(r), issued' \in {issued, issued + 1}, UNCHANGED audit, pc[r] \notin OfVault
  PROVE  Elsewhere(r)
<1>1. DOMAIN NoRequest = Fields /\ NoRequest.deed = <<>> /\ "idle" \notin OfVault
  BY DEF NoRequest, Fields, OfVault
<1>2. QED
  BY <1>1, GoesElsewhere DEF Ends

\* The requests of Access never touch the stages of the vault.
LEMMA ArrivalIsElsewhere ==
  ASSUME VaultInvariant, NEW r \in Requests, Arrive(r)
  PROVE  Elsewhere(r)
<1>1. ASSUME NEW e \in Emails, AskRegister(r, e)
      PROVE  Elsewhere(r)
  <2> DEFINE what == [NoRequest EXCEPT !.email = e]
  <2>1. Goes(r, "registering", what) /\ pc[r] = "idle" /\ UNCHANGED <<audit, issued>>
    BY <1>1 DEF AskRegister, db, history
  <2>2. DOMAIN what = Fields /\ what.deed = <<>>
    BY DEF NoRequest, Fields
  <2> HIDE DEF what
  <2>3. QED
    BY <2>1, <2>2, GoesElsewhere DEF OfVault
<1>2. ASSUME NEW e \in Emails, Login(r, e)
      PROVE  Elsewhere(r)
  <2> DEFINE what == [NoRequest EXCEPT !.email = e, !.password = users[e].password, !.deed = <<"session.login">>]
  <2>1. /\ Goes(r, "issuing", what) \/ UNCHANGED <<pc, request>>
        /\ pc[r] = "idle" /\ UNCHANGED <<audit, issued>>
    BY <1>2 DEF Login, db, history
  <2>2. DOMAIN what = Fields /\ what.deed = <<"session.login">>
    BY DEF NoRequest, Fields
  <2> HIDE DEF what
  <2>3. CASE Goes(r, "issuing", what)
    BY <2>1, <2>2, <2>3, GoesElsewhere DEF OfVault
  <2>4. QED
    BY <2>1, <2>3 DEF Elsewhere
<1>3. ASSUME NEW p \in preauths, LoginVerify(r, p)
      PROVE  Elsewhere(r)
  <2> DEFINE what == [NoRequest EXCEPT !.email = p.email, !.password = p.password, !.deed = <<"session.login">>]
  <2>1. Goes(r, "issuing", what) /\ pc[r] = "idle" /\ UNCHANGED <<audit, issued>>
    BY <1>3 DEF LoginVerify, db, history
  <2>2. DOMAIN what = Fields /\ what.deed = <<"session.login">>
    BY DEF NoRequest, Fields
  <2> HIDE DEF what
  <2>3. QED
    BY <2>1, <2>2, GoesElsewhere DEF OfVault
<1>4. ASSUME NEW s \in sessions, Resolve(r, s)
      PROVE  Elsewhere(r)
  <2> DEFINE what == [NoRequest EXCEPT !.email = s.email, !.token = s.token, !.at = now]
  <2>1. Goes(r, "resolving", what) /\ pc[r] = "idle" /\ UNCHANGED <<audit, issued>>
    BY <1>4 DEF Resolve, history
  <2>2. DOMAIN what = Fields /\ what.deed = <<>>
    BY DEF NoRequest, Fields
  <2> HIDE DEF what
  <2>3. QED
    BY <2>1, <2>2, GoesElsewhere DEF OfVault
<1>5. ASSUME NEW i \in invites, NEW e \in Emails, AskJoin(r, i, e)
      PROVE  Elsewhere(r)
  <2> DEFINE what == [NoRequest EXCEPT !.email = e, !.id = i.id]
  <2>1. Goes(r, "joining", what) /\ pc[r] = "idle" /\ UNCHANGED <<audit, issued>>
    BY <1>5 DEF AskJoin, db
  <2>2. DOMAIN what = Fields /\ what.deed = <<>>
    BY DEF NoRequest, Fields
  <2> HIDE DEF what
  <2>3. QED
    BY <2>1, <2>2, GoesElsewhere DEF OfVault
<1>6. QED
  BY <1>1, <1>2, <1>3, <1>4, <1>5 DEF Arrive

LEMMA AdvanceIsElsewhere ==
  ASSUME VaultInvariant, NEW r \in Requests, Advance(r)
  PROVE  Elsewhere(r)
<1>1. CASE CommitRegister(r)
  <2>1. /\ Ends(r) \/ Goes(r, "issuing", request[r])
        /\ pc[r] \notin OfVault /\ UNCHANGED <<audit, issued>>
    BY <1>1 DEF CommitRegister, history, OfVault
  <2>2. DOMAIN request[r] = Fields /\ request[r].deed = <<>>
    BY <1>1 DEF VaultInvariant, Carried, CommitRegister
  <2>3. QED
    BY <2>1, <2>2, GoesElsewhere, EndsElsewhere DEF OfVault
<1>2. CASE Issue(r)
  <2> DEFINE kind == request[r].deed[1]
  <2>1. /\ Ends(r) \/ (request[r].deed # <<>> /\ Done(r, <<kind, issued'>>))
        /\ pc[r] = "issuing" /\ issued' = issued + 1 /\ UNCHANGED audit
    BY <1>2 DEF Issue
  <2>2. request[r].deed # <<>> => kind # "vault.document_deleted"
    BY <2>1 DEF VaultInvariant, Carried
  <2> HIDE DEF kind
  <2>3. QED
    BY <2>1, <2>2, EndsElsewhere, DoneElsewhere DEF OfVault
<1>3. CASE Touch(r)
  <2> DEFINE e == request[r].email
             what == [request[r] EXCEPT !.password = users[e].password, !.secret = users[e].secret]
  <2>1. Ends(r) \/ Goes(r, "in", what)
    BY <1>3 DEF Touch
  <2>2. pc[r] \notin OfVault /\ UNCHANGED <<audit, issued>>
    BY <1>3 DEF Touch, history, OfVault
  <2>3. DOMAIN what = Fields
    BY DEF VaultInvariant
  <2> HIDE DEF what
  <2>4. CASE Goes(r, "in", what)
    BY <2>2, <2>3, <2>4 DEF Elsewhere, OfVault
  <2>5. QED
    BY <2>1, <2>2, <2>4, EndsElsewhere
<1>4. CASE CommitRevokeInvite(r)
  <2>1. /\ Done(r, <<"invite.revoked", request[r].id>>)
        /\ pc[r] \notin OfVault /\ UNCHANGED <<audit, issued>>
    BY <1>4 DEF CommitRevokeInvite, history, OfVault
  <2>2. QED
    BY <2>1, DoneElsewhere
<1>5. CASE CommitJoin(r)
  <2> DEFINE what == [request[r] EXCEPT !.deed = <<"invite.accepted">>]
  <2>1. Ends(r) \/ Goes(r, "issuing", what)
    BY <1>5 DEF CommitJoin
  <2>2. pc[r] \notin OfVault /\ UNCHANGED <<audit, issued>>
    BY <1>5 DEF CommitJoin, history, OfVault
  <2>3. DOMAIN what = Fields /\ what.deed = <<"invite.accepted">>
    BY DEF VaultInvariant, Fields
  <2> HIDE DEF what
  <2>4. QED
    BY <2>1, <2>2, <2>3, GoesElsewhere, EndsElsewhere DEF OfVault
<1>6. CASE Record(r)
  <2>1. Ends(r) /\ pc[r] = "recording" /\ audit' = audit \cup {request[r].deed} /\ UNCHANGED issued
    BY <1>6 DEF Record, history
  <2>2. DOMAIN NoRequest = Fields
    BY DEF NoRequest, Fields
  <2>3. QED
    BY <2>1, <2>2 DEF Elsewhere, Ends, OfVault
<1>7. CASE ChangePassword(r)
  <2> DEFINE e == request[r].email
             what == [NoRequest EXCEPT !.email = e, !.password = users[e].password + 1]
  <2>1. Goes(r, "issuing", what) /\ pc[r] \notin OfVault /\ UNCHANGED <<audit, issued>>
    BY <1>7 DEF ChangePassword, In, OfVault
  <2>2. DOMAIN what = Fields /\ what.deed = <<>>
    BY DEF NoRequest, Fields
  <2> HIDE DEF what
  <2>3. QED
    BY <2>1, <2>2, GoesElsewhere DEF OfVault
<1>8. CASE RevokeOtherSessions(r) \/ StartEnrollment(r) \/ Leave(r)
  <2>1. Ends(r) /\ pc[r] \notin OfVault /\ UNCHANGED <<audit, issued>>
    BY <1>8 DEF RevokeOtherSessions, StartEnrollment, Leave, In, history, db, OfVault
  <2>2. QED
    BY <2>1, EndsElsewhere
<1>9. CASE ConfirmEnrollment(r)
  <2>1. /\ Done(r, <<"2fa.enrolled", request[r].email>>)
        /\ pc[r] \notin OfVault /\ UNCHANGED <<audit, issued>>
    BY <1>9 DEF ConfirmEnrollment, In, history, OfVault
  <2>2. QED
    BY <2>1, DoneElsewhere
<1>10. CASE CreateInvite(r)
  <2>1. /\ Done(r, <<"invite.created", issued'>>)
        /\ pc[r] \notin OfVault /\ issued' = issued + 1 /\ UNCHANGED audit
    BY <1>10 DEF CreateInvite, Owner, In, OfVault
  <2>2. QED
    BY <2>1, DoneElsewhere
<1>11. ASSUME NEW s \in sessions, RevokeSession(r, s)
       PROVE  Elsewhere(r)
  <2>1. /\ Done(r, <<"session.revoked", s.token>>)
        /\ pc[r] \notin OfVault /\ UNCHANGED <<audit, issued>>
    BY <1>11 DEF RevokeSession, In, history, OfVault
  <2>2. QED
    BY <2>1, DoneElsewhere
<1>12. ASSUME NEW i \in invites, AskRevokeInvite(r, i)
       PROVE  Elsewhere(r)
  <2> DEFINE what == [request[r] EXCEPT !.id = i.id]
  <2>1. Goes(r, "revoking", what) /\ pc[r] \notin OfVault /\ UNCHANGED <<audit, issued>>
    BY <1>12 DEF AskRevokeInvite, Owner, In, db, history, OfVault
  <2>2. DOMAIN what = Fields
    BY DEF VaultInvariant
  <2> HIDE DEF what
  <2>3. QED
    BY <2>1, <2>2 DEF Elsewhere, OfVault
<1>13. QED
  BY <1>1, <1>2, <1>3, <1>4, <1>5, <1>6, <1>7, <1>8, <1>9, <1>10, <1>11, <1>12 DEF Advance
-------------------------------------------------------------------------------
(* Steps of the vault *)

\* What a step of the vault does to a request: its stage, and the id it is about.
LEMMA StageOf ==
  ASSUME VaultInvariant, NEW r \in Requests, NEW stage, NEW what, Goes(r, stage, what), DOMAIN what = Fields,
         stage \notin {"registering", "issuing", "recording"}
  PROVE  /\ DOMAIN pc' = Requests /\ DOMAIN request' = Requests
         /\ \A q \in Requests : DOMAIN request'[q] = Fields
         /\ pc'[r] = stage /\ request'[r] = what
         /\ \A q \in Requests \ {r} : pc'[q] = pc[q] /\ request'[q] = request[q]
         /\ Carried'
BY DEF VaultInvariant, Goes, Carried

LEMMA IdleShape == DOMAIN NoRequest = Fields /\ NoRequest.deed = <<>>
BY DEF NoRequest, Fields

LEMMA FlushKeeps ==
  ASSUME VaultInvariant, NEW r \in Requests, Flush(r)
  PROVE  VaultInvariant'
<1> DEFINE what == [request[r] EXCEPT !.id = issued']
<1>1. /\ Goes(r, "flushed", what) /\ pc[r] = "in" /\ issued' = issued + 1
      /\ UNCHANGED <<audit, documents, files, torn>>
  BY DEF Flush, Owner, In, db
<1>2. DOMAIN what = Fields /\ what.id = issued'
  BY DEF VaultInvariant, Fields
<1> HIDE DEF what
<1>3. /\ DOMAIN pc' = Requests /\ DOMAIN request' = Requests
      /\ \A q \in Requests : DOMAIN request'[q] = Fields
      /\ pc'[r] = "flushed" /\ request'[r].id = issued'
      /\ \A q \in Requests \ {r} : pc'[q] = pc[q] /\ request'[q] = request[q]
      /\ Carried'
  BY <1>1, <1>2, StageOf
<1>4. \A id : Gone(id)' <=> Gone(id)
  BY <1>1, <1>3 DEF Gone
<1>5. IdsAreGiven' /\ Deeds' /\ GoneIsOff' /\ UnlinkedIsOff'
  BY <1>1, <1>3, <1>4 DEF VaultInvariant, IdsAreGiven, OfVault, Deeds, GoneIsOff, UnlinkedIsOff
<1>6. UploadsAreAlone'
  BY <1>1, <1>3, <1>4 DEF VaultInvariant, UploadsAreAlone, Uploading, IdsAreGiven, OfVault, GoneIsOff
<1>7. RowsAndFiles'
  BY <1>1, <1>3 DEF VaultInvariant, RowsAndFiles, Under
<1>8. QED
  BY <1>3, <1>5, <1>6, <1>7 DEF VaultInvariant

LEMMA WriteFileKeeps ==
  ASSUME VaultInvariant, NEW r \in Requests, WriteFile(r)
  PROVE  VaultInvariant'
<1>1. /\ Goes(r, "written", request[r]) /\ pc[r] = "flushed"
      /\ files' = files \cup {request[r].id}
      /\ UNCHANGED <<audit, issued, documents, torn>>
  BY DEF WriteFile, db, history
<1>2. /\ DOMAIN pc' = Requests /\ DOMAIN request' = Requests
      /\ \A q \in Requests : DOMAIN request'[q] = Fields
      /\ pc'[r] = "written" /\ request'[r] = request[r]
      /\ \A q \in Requests \ {r} : pc'[q] = pc[q] /\ request'[q] = request[q]
      /\ Carried'
  BY <1>1, StageOf DEF VaultInvariant
<1>3. \A id : Gone(id)' <=> Gone(id)
  BY <1>1, <1>2 DEF Gone
<1>4. IdsAreGiven' /\ Deeds'
  BY <1>1, <1>2 DEF VaultInvariant, IdsAreGiven, OfVault, Deeds
<1>5. UploadsAreAlone' /\ UnlinkedIsOff' /\ GoneIsOff'
  BY <1>1, <1>2, <1>3 DEF VaultInvariant, UploadsAreAlone, Uploading, OfVault, UnlinkedIsOff, GoneIsOff
<1>6. RowsAndFiles'
  BY <1>1, <1>2 DEF VaultInvariant, RowsAndFiles, Under
<1>7. QED
  BY <1>2, <1>4, <1>5, <1>6 DEF VaultInvariant

LEMMA CommitSaveKeeps ==
  ASSUME VaultInvariant, NEW r \in Requests, CommitSave(r)
  PROVE  VaultInvariant'
<1> DEFINE row == Row(r)
<1>1. /\ Goes(r, "idle", NoRequest) /\ pc[r] = "written"
      /\ documents' = documents \cup {row} /\ row.id = request[r].id
      /\ UNCHANGED <<audit, issued, files, torn>>
  BY DEF CommitSave, Ends, Row, db, history
<1> HIDE DEF row
<1>2. /\ DOMAIN pc' = Requests /\ DOMAIN request' = Requests
      /\ \A q \in Requests : DOMAIN request'[q] = Fields
      /\ pc'[r] = "idle"
      /\ \A q \in Requests \ {r} : pc'[q] = pc[q] /\ request'[q] = request[q]
      /\ Carried'
  BY <1>1, StageOf, IdleShape
<1>3. \A id : Gone(id)' <=> Gone(id)
  BY <1>1, <1>2 DEF Gone
<1>4. IdsAreGiven' /\ Deeds'
  BY <1>1, <1>2 DEF VaultInvariant, IdsAreGiven, OfVault, Deeds
<1>5. UploadsAreAlone' /\ UnlinkedIsOff' /\ GoneIsOff'
  BY <1>1, <1>2, <1>3 DEF VaultInvariant, UploadsAreAlone, Uploading, OfVault, UnlinkedIsOff, GoneIsOff
<1>6. RowsAndFiles'
  <2>1. request[r].id \in files
    BY <1>1 DEF VaultInvariant, UploadsAreAlone, Uploading
  <2>2. Under("unlinked")' = Under("unlinked") /\ Under("written") \subseteq Under("written")' \cup {request[r].id}
    BY <1>1, <1>2 DEF Under
  <2>3. QED
    BY <1>1, <2>1, <2>2 DEF VaultInvariant, RowsAndFiles
<1>7. QED
  BY <1>2, <1>4, <1>5, <1>6 DEF VaultInvariant

LEMMA UnlinkKeeps ==
  ASSUME VaultInvariant, NEW r \in Requests, NEW d \in documents, Unlink(r, d)
  PROVE  VaultInvariant'
<1> DEFINE what == [request[r] EXCEPT !.id = d.id]
<1>1. /\ Goes(r, "unlinked", what) /\ pc[r] = "in"
      /\ files' = files \ {d.id}
      /\ UNCHANGED <<audit, issued, documents, torn>>
  BY DEF Unlink, Owner, In, db, history
<1>2. DOMAIN what = Fields /\ what.id = d.id
  BY DEF VaultInvariant, Fields
<1> HIDE DEF what
<1>3. /\ DOMAIN pc' = Requests /\ DOMAIN request' = Requests
      /\ \A q \in Requests : DOMAIN request'[q] = Fields
      /\ pc'[r] = "unlinked" /\ request'[r].id = d.id
      /\ \A q \in Requests \ {r} : pc'[q] = pc[q] /\ request'[q] = request[q]
      /\ Carried'
  BY <1>1, <1>2, StageOf
<1>4. \A id : Gone(id)' <=> Gone(id)
  BY <1>1, <1>3 DEF Gone
<1>5. IdsAreGiven' /\ Deeds' /\ GoneIsOff' /\ UnlinkedIsOff'
  BY <1>1, <1>3, <1>4 DEF VaultInvariant, IdsAreGiven, OfVault, Deeds, GoneIsOff, UnlinkedIsOff
<1>6. UploadsAreAlone'
  BY <1>1, <1>3, <1>4 DEF VaultInvariant, UploadsAreAlone, Uploading, OfVault
<1>7. RowsAndFiles'
  <2>1. /\ Under("written")' = Under("written")
        /\ Under("unlinked")' = Under("unlinked") \cup {d.id}
    BY <1>1, <1>3 DEF Under
  <2>2. QED
    BY <1>1, <2>1 DEF VaultInvariant, RowsAndFiles
<1>8. QED
  BY <1>3, <1>5, <1>6, <1>7 DEF VaultInvariant

LEMMA CommitDeleteKeeps ==
  ASSUME VaultInvariant, NEW r \in Requests, CommitDelete(r)
  PROVE  VaultInvariant'
<1> DEFINE gone == request[r].id
           what == [NoRequest EXCEPT !.deed = DeletionOf(gone)]
<1>1. /\ Goes(r, "recording", what) /\ pc[r] = "unlinked"
      /\ documents' = {d \in documents : d.id # gone}
      /\ UNCHANGED <<audit, issued, files, torn>>
  BY DEF CommitDelete, Done, DeletionOf, db, history
<1>2. DOMAIN what = Fields /\ what.deed = DeletionOf(gone)
  BY DEF NoRequest, Fields
<1>3. gone \notin files /\ gone \in 1 .. issued /\ \A q \in Requests : Uploading(q) => request[q].id # gone
  BY <1>1 DEF VaultInvariant, UnlinkedIsOff, IdsAreGiven, UploadsAreAlone, Uploading, OfVault
<1> HIDE DEF what, gone
<1>4. /\ DOMAIN pc' = Requests /\ DOMAIN request' = Requests
      /\ \A q \in Requests : DOMAIN request'[q] = Fields
      /\ pc'[r] = "recording" /\ request'[r].deed = DeletionOf(gone)
      /\ \A q \in Requests \ {r} : pc'[q] = pc[q] /\ request'[q] = request[q]
  BY <1>1, <1>2 DEF VaultInvariant, Goes
<1>5. Carried' /\ Deeds'
  BY <1>1, <1>4 DEF VaultInvariant, Carried, Deeds, IsDeed, DeletionOf
<1>6. ASSUME NEW id, Gone(id)'
      PROVE  Gone(id) \/ id = gone
  BY <1>1, <1>4, <1>6 DEF Gone, DeletionOf
<1>7. IdsAreGiven' /\ UnlinkedIsOff'
  BY <1>1, <1>4 DEF VaultInvariant, IdsAreGiven, UnlinkedIsOff, OfVault
<1>8. GoneIsOff'
  BY <1>1, <1>3, <1>6 DEF VaultInvariant, GoneIsOff
<1>9. UploadsAreAlone'
  BY <1>1, <1>3, <1>4, <1>6 DEF VaultInvariant, UploadsAreAlone, Uploading, OfVault
<1>10. RowsAndFiles'
  <2>1. /\ Under("written")' = Under("written")
        /\ Under("unlinked") \subseteq Under("unlinked")' \cup {gone}
    BY <1>1, <1>4 DEF Under, gone
  <2>2. QED
    BY <1>1, <1>3, <2>1 DEF VaultInvariant, RowsAndFiles
<1>11. QED
  BY <1>4, <1>5, <1>7, <1>8, <1>9, <1>10 DEF VaultInvariant

\* A download leaves the rows and the files alone, and no request of the vault ends with it.
LEMMA DownloadsAreElsewhere ==
  ASSUME VaultInvariant, NEW r \in Requests, Download(r) \/ \E d \in documents : AskDownload(r, d)
  PROVE  Elsewhere(r) /\ UNCHANGED <<documents, files, torn>>
<1>1. CASE Download(r)
  <2>1. /\ Ends(r) \/ Done(r, <<"vault.document_downloaded", request[r].id>>)
        /\ pc[r] \notin OfVault /\ UNCHANGED <<audit, issued, documents, files, torn>>
    BY <1>1 DEF Download, db, history, OfVault
  <2>2. QED
    BY <2>1, EndsElsewhere, DoneElsewhere
<1>2. ASSUME NEW d \in documents, AskDownload(r, d)
      PROVE  Elsewhere(r) /\ UNCHANGED <<documents, files, torn>>
  <2> DEFINE what == [request[r] EXCEPT !.id = d.id]
  <2>1. /\ Goes(r, "downloading", what)
        /\ pc[r] \notin OfVault /\ UNCHANGED <<audit, issued, documents, files, torn>>
    BY <1>2 DEF AskDownload, Owner, In, db, history, OfVault
  <2>2. DOMAIN what = Fields
    BY DEF VaultInvariant
  <2> HIDE DEF what
  <2>3. QED
    BY <2>1, <2>2 DEF Elsewhere, OfVault
<1>3. QED
  BY <1>1, <1>2

LEMMA VaultRestartKeeps ==
  ASSUME VaultInvariant, VaultRestart
  PROVE  VaultInvariant'
<1>1. /\ pc' = [r \in Requests |-> "idle"] /\ request' = [r \in Requests |-> NoRequest]
      /\ torn' = torn \cup Under("written") \cup Under("unlinked")
      /\ UNCHANGED <<audit, issued, documents, files>>
  <2>1. {request[r].id : r \in {q \in Requests : pc[q] \in {"written", "unlinked"}}}
           = Under("written") \cup Under("unlinked")
    BY DEF Under
  <2>2. QED
    BY <2>1 DEF VaultRestart, Restart, db, history
<1>2. ASSUME NEW id, Gone(id)'
      PROVE  Gone(id)
  BY <1>1, <1>2 DEF Gone
<1>3. /\ DOMAIN pc' = Requests /\ DOMAIN request' = Requests
      /\ \A r \in Requests : DOMAIN request'[r] = Fields
      /\ Carried' /\ Deeds'
  BY <1>1, IdleShape DEF VaultInvariant, Carried, Deeds
<1>4. IdsAreGiven' /\ GoneIsOff' /\ UnlinkedIsOff' /\ UploadsAreAlone'
  BY <1>1, <1>2 DEF VaultInvariant, IdsAreGiven, GoneIsOff, UnlinkedIsOff, UploadsAreAlone, Uploading, OfVault
<1>5. RowsAndFiles'
  BY <1>1 DEF VaultInvariant, RowsAndFiles
<1>6. QED
  BY <1>3, <1>4, <1>5 DEF VaultInvariant
-------------------------------------------------------------------------------
(* The theorem *)

LEMMA VaultInit_Invariant == VaultInit => VaultInvariant
BY IdleShape DEF VaultInit, Init, VaultInvariant, IdsAreGiven, UploadsAreAlone, Uploading, OfVault,
   RowsAndFiles, UnlinkedIsOff, GoneIsOff, Gone, Carried, Deeds

LEMMA VaultStep_Invariant == VaultInvariant /\ [VaultNext]_vaultVars => VaultInvariant'
<1> SUFFICES ASSUME VaultInvariant, [VaultNext]_vaultVars PROVE VaultInvariant'
  OBVIOUS
<1>1. CASE AccessStep
  <2>1. ASSUME NEW r \in Requests, Arrive(r) \/ Advance(r)
        PROVE  VaultInvariant'
    BY <1>1, <2>1, ArrivalIsElsewhere, AdvanceIsElsewhere, ElsewhereKeeps DEF AccessStep
  <2>2. CASE Tick
    <3>1. UNCHANGED <<audit, issued, pc, request, documents, files, torn>>
      BY <1>1, <2>2 DEF AccessStep, Tick, db, history
    <3>2. QED
      BY <3>1 DEF VaultInvariant, IdsAreGiven, UploadsAreAlone, Uploading, RowsAndFiles, Under, UnlinkedIsOff,
                  GoneIsOff, Gone, Carried, Deeds
  <2>3. QED
    BY <1>1, <2>1, <2>2 DEF AccessStep
<1>2. ASSUME NEW r \in Requests, VaultStep(r)
      PROVE  VaultInvariant'
  BY <1>2, FlushKeeps, WriteFileKeeps, CommitSaveKeeps, UnlinkKeeps, CommitDeleteKeeps,
     DownloadsAreElsewhere, ElsewhereKeeps DEF VaultStep
<1>3. CASE VaultRestart
  BY <1>3, VaultRestartKeeps
<1>4. CASE UNCHANGED vaultVars
  BY <1>4 DEF vaultVars, accessVars, db, history, VaultInvariant, IdsAreGiven, UploadsAreAlone, Uploading,
              RowsAndFiles, Under, UnlinkedIsOff, GoneIsOff, Gone, Carried, Deeds
<1>5. QED
  BY <1>1, <1>2, <1>3, <1>4 DEF VaultNext

\* Rows and files go together but for what a restart cut short, and a deletion that was recorded
\* left neither.
THEOREM RowsAlwaysHaveFiles == VaultSpec => []RowsHaveFiles
<1>1. VaultInvariant => RowsHaveFiles
  <2> SUFFICES ASSUME VaultInvariant PROVE RowsHaveFiles
    OBVIOUS
  <2>1. ASSUME NEW e \in audit, e[1] = "vault.document_deleted"
        PROVE  e[2] \notin files /\ \A d \in documents : d.id # e[2]
    <3>1. PICK kind, id : e = <<kind, id>>
      BY DEF VaultInvariant, Deeds, IsDeed
    <3>2. Gone(id) /\ e[2] = id
      BY <2>1, <3>1 DEF Gone, DeletionOf
    <3>3. QED
      BY <3>2 DEF VaultInvariant, GoneIsOff
  <2>2. QED
    BY <2>1 DEF VaultInvariant, RowsAndFiles, RowsHaveFiles
<1>2. QED
  BY <1>1, VaultInit_Invariant, VaultStep_Invariant, PTL DEF VaultSpec
===============================================================================
