-------------------------------- MODULE Sessions -------------------------------
(***************************************************************************)
(* Who is signed in: the session middleware, the handlers of               *)
(* handlers_auth.go, the password change, the administrator's endpoints    *)
(* that touch sessions and activation links, and the sweeper, as the       *)
(* interleaving of their store calls.  A request keeps the copies that     *)
(* authenticate made of its session and of the account behind it; whatever *)
(* other requests do in the meantime is not seen in them.                  *)
(***************************************************************************)
EXTENDS SessionStore

CONSTANTS
  Request,      \* slots for requests in flight
  Handler,      \* the handlers that requests may reach in this instance
  Admins,       \* active administrators and users the database starts with
  Users,
  First,        \* their password
  Refresh,      \* slideRefreshInterval
  MaxTime       \* bound on the clock

ASSUME StartAssumption ==
  /\ Admins \cup Users \subseteq Account /\ Admins \cap Users = {}
  /\ First \in Password /\ Refresh \in Nat /\ MaxTime \in Nat

VARIABLES
  clock,        \* store.Now()
  req,          \* what each request in flight knows
  sweep         \* the sweeper's idea of now, Null between two sweeps

vars == <<tables, clock, req, sweep>>

Public == {"login", "logout", "redeem"}
Private == {"me", "stopImpersonation", "changePassword"}
Administrative == {"startImpersonation", "createAccount", "updateAccount",
                   "reissue", "revokeSessions"}
Time == 0..MaxTime

ASSUME HandlerAssumption == Handler \subseteq Public \cup Private \cup Administrative

PC == {"idle", "session", "actor", "touch", "handler",
  "login.supersede", "login.create", "startImpersonation.write",
  "changePassword.revoke", "redeem.create", "updateAccount.write",
  "reissue.write", "revokeSessions.write"}

\* by: the session the cookie names, Null without a cookie or a live session;
\* sess and actor: the copies in the identity; the rest: what the handler holds.
RequestRow == [pc: PC, handler: Public \cup Private \cup Administrative,
  by: SessionId \cup {Null}, now: Time, sess: SessionRow \cup {Null},
  actor: AccountRow \cup {Null}, acct: Account \cup {Null},
  password: Password \cup {Null}, role: {"keep", "admin", "user"},
  set: {"keep", "on", "off"}]

Idle == [pc |-> "idle", handler |-> "me", by |-> Null, now |-> 0, sess |-> Null,
  actor |-> Null, acct |-> Null, password |-> Null, role |-> "keep", set |-> "keep"]

TypeOK ==
  /\ StoreTypeOK
  /\ clock \in Time
  /\ req \in [Request -> RequestRow]
  /\ sweep \in Time \cup {Null}

Init ==
  /\ account = [a \in Admins \cup Users |->
       [role |-> IF a \in Admins THEN "admin" ELSE "user",
        active |-> TRUE, password |-> First]]
  /\ session = NoRows /\ link = NoRows /\ ended = {}
  /\ clock = 0 /\ sweep = Null
  /\ req = [r \in Request |-> Idle]

At(r, pc) == req[r].pc = pc
Become(r, row) == req' = [req EXCEPT ![r] = row]
Goto(r, pc) == Become(r, [req[r] EXCEPT !.pc = pc])
Answer(r) == Become(r, Idle)
Reading == UNCHANGED <<tables, clock, sweep>>         \* a step that only reads
Writing == UNCHANGED <<clock, sweep>>

\* The handler's next call, the identity forgotten but for its session's id.
Hold(r, pc, a) == [Idle EXCEPT !.pc = pc, !.handler = req[r].handler,
                               !.by = req[r].by, !.now = req[r].now, !.acct = a]
\* A store.Now() the handler has called since the request arrived.
Recent(r) == req[r].now..clock

Tick ==
  /\ clock < MaxTime
  /\ clock' = clock + 1
  /\ UNCHANGED <<tables, req, sweep>>

(***************************************************************************)
(* Middleware.  Any cookie ever issued may arrive, at any time.            *)
(***************************************************************************)
Arrive(r, handler, s) ==
  /\ At(r, "idle") /\ handler \in Handler
  /\ s = Null => handler \in Public
  /\ Become(r, [Idle EXCEPT !.pc = IF s = Null THEN "handler" ELSE "session",
                            !.handler = handler, !.by = s, !.now = clock])
  /\ Reading

\* SessionByTokenHash, the row: without a live one only public handlers go on.
LoadSession(r) ==
  /\ At(r, "session")
  /\ \/ /\ Live(req[r].by, req[r].now)
        /\ Become(r, [req[r] EXCEPT !.pc = "actor", !.sess = session[req[r].by]])
     \/ /\ ~Live(req[r].by, req[r].now) /\ req[r].handler \in Public
        /\ Become(r, [req[r] EXCEPT !.pc = "handler", !.by = Null])
  /\ Reading

DeadlineUnbounded(row, now) == now + IdleTTL            \* mutant: no absolute lifetime

Deadline(row, now) ==
  IF now + IdleTTL > row.created + TTL THEN row.created + TTL ELSE now + IdleTTL

SlideDue(row, now) ==
  now >= row.seen + Refresh /\ Deadline(row, now) > row.expires

\* SessionByTokenHash, the account that owns it, and requireAdmin.
HasAdminRights(actor, sess) == actor.role = "admin" /\ sess.as = Null

LoadActor(r) ==
  /\ At(r, "actor")
  /\ LET sess == req[r].sess
         actor == account[sess.account]
     IN Become(r, [req[r] EXCEPT !.actor = actor,
          !.pc = IF SlideDue(sess, req[r].now) THEN "touch" ELSE "handler"])
  /\ Reading

\* slideSession: a failure is logged and the request goes on.
Touch(r) ==
  /\ At(r, "touch")
  /\ \/ TouchSession(req[r].by, req[r].now, Deadline(req[r].sess, req[r].now))
     \/ UNCHANGED tables
  /\ Goto(r, "handler") /\ Writing

\* Every early return, failure, hang-up and crash.
Return(r) == ~At(r, "idle") /\ Answer(r) /\ Reading

In(r, handler) ==
  /\ At(r, "handler") /\ req[r].handler = handler
  /\ handler \notin Public => req[r].sess # Null
  /\ handler \in Administrative => HasAdminRights(req[r].actor, req[r].sess)

(***************************************************************************)
(* POST and DELETE /session                                                *)
(***************************************************************************)
LoginReadInactive(r) ==                                 \* mutant: active unread
  /\ In(r, "login")
  /\ \E a \in DOMAIN account, now \in Recent(r) :
       /\ account[a].password # Null
       /\ Become(r, [Hold(r, IF req[r].by = Null THEN "login.create"
                                                 ELSE "login.supersede", a)
                     EXCEPT !.now = now, !.password = account[a].password])
  /\ Reading

LoginReadKeepsSession(r) ==                             \* mutant: supersedes nothing
  /\ In(r, "login")
  /\ \E a \in DOMAIN account, now \in Recent(r) :
       /\ account[a].password # Null /\ account[a].active
       /\ Become(r, [Hold(r, "login.create", a)
                     EXCEPT !.now = now, !.password = account[a].password])
  /\ Reading

LoginRead(r) ==
  /\ In(r, "login")
  /\ \E a \in DOMAIN account, now \in Recent(r) :
       /\ account[a].password # Null /\ account[a].active
       /\ Become(r, [Hold(r, IF req[r].by = Null THEN "login.create"
                                                 ELSE "login.supersede", a)
                     EXCEPT !.now = now, !.password = account[a].password])
  /\ Reading

LoginSupersede(r) ==
  /\ At(r, "login.supersede")
  /\ DeleteSession(req[r].by)
  /\ Goto(r, "login.create") /\ Writing

LoginCreate(r) ==
  /\ At(r, "login.create")
  /\ \E s \in SessionId : CreateSession(s, req[r].acct, req[r].now, req[r].password)
  /\ Answer(r) /\ Writing

Logout(r) ==
  /\ In(r, "logout") /\ req[r].by # Null
  /\ DeleteSession(req[r].by)
  /\ Answer(r) /\ Writing

(***************************************************************************)
(* POST and DELETE /session/impersonation                                  *)
(***************************************************************************)
MayBeImpersonated(a) ==
  a \in DOMAIN account /\ account[a].role = "user" /\ account[a].active
  /\ account[a].password # Null

StartImpersonationOfAnyone(r) ==                        \* mutant: target unread
  /\ In(r, "startImpersonation")
  /\ \E a \in DOMAIN account :
       /\ a # req[r].sess.account
       /\ Become(r, Hold(r, "startImpersonation.write", a))
  /\ Reading

StartImpersonationRead(r) ==
  /\ In(r, "startImpersonation")
  /\ \E a \in DOMAIN account :
       /\ a # req[r].sess.account
       /\ MayBeImpersonated(a)
       /\ Become(r, Hold(r, "startImpersonation.write", a))
  /\ Reading

StartImpersonationWrite(r) ==
  /\ At(r, "startImpersonation.write")
  /\ SetImpersonation(req[r].by, req[r].acct)
  /\ Answer(r) /\ Writing

StopImpersonation(r) ==
  /\ In(r, "stopImpersonation") /\ req[r].sess.as # Null
  /\ SetImpersonation(req[r].by, Null)
  /\ Answer(r) /\ Writing

(***************************************************************************)
(* PUT /me/password.  The current password is checked against the copy     *)
(* that authenticate loaded; whoever changes it knows it.                  *)
(***************************************************************************)
ChangePasswordSet(r) ==
  /\ In(r, "changePassword") /\ req[r].sess.as = Null
  /\ req[r].actor.password # Null
  /\ \E password \in Password : SetPassword(req[r].sess.account, password, req[r].by)
  /\ Become(r, Hold(r, "changePassword.revoke", req[r].sess.account)) /\ Writing

ChangePasswordRevoke(r) ==
  /\ At(r, "changePassword.revoke")
  /\ DeleteOtherSessionsForAccount(req[r].acct, req[r].by)
  /\ Answer(r) /\ Writing

(***************************************************************************)
(* POST /activation                                                        *)
(***************************************************************************)
RedeemLink(r) ==
  /\ In(r, "redeem")
  /\ \E t \in DOMAIN link, password \in Password, now \in Recent(r) :
       /\ RedeemActivation(t, password, now)
       /\ Become(r, [Hold(r, "redeem.create", link[t].account)
                     EXCEPT !.now = now, !.password = password])
  /\ Writing

RedeemCreate(r) ==
  /\ At(r, "redeem.create")
  /\ \E s \in SessionId : CreateSession(s, req[r].acct, req[r].now, req[r].password)
  /\ Answer(r) /\ Writing

(***************************************************************************)
(* /admin/accounts.  The reads of updateAccount are one step here: Roster  *)
(* interleaves them.                                                       *)
(***************************************************************************)
CreateAccountWrite(r) ==
  /\ In(r, "createAccount")
  /\ \E a \in Account, role \in {"admin", "user"}, active \in BOOLEAN,
        password \in Password \cup {Null}, t \in LinkId, now \in Recent(r) :
       CreateAccount(a, role, active, password, t, now)
  /\ Answer(r) /\ Writing

ActiveAdmins ==
  {a \in DOMAIN account : account[a].role = "admin" /\ account[a].active}

UpdateAccountRead(r) ==
  /\ In(r, "updateAccount")
  /\ \E a \in DOMAIN account, role \in {"keep", "admin", "user"},
        set \in {"keep", "on", "off"} :
       /\ ~(a = req[r].sess.account /\ set = "off")
       /\ (a \in ActiveAdmins /\ (role = "user" \/ set = "off"))
            => Cardinality(ActiveAdmins) > 1
       /\ Become(r, [Hold(r, "updateAccount.write", a)
                     EXCEPT !.role = role, !.set = set])
  /\ Reading

UpdateAccountWrite(r) ==
  /\ At(r, "updateAccount.write")
  /\ LET row == account[req[r].acct]
     IN UpdateAccount(req[r].acct,
          IF req[r].role = "keep" THEN row.role ELSE req[r].role,
          IF req[r].set = "keep" THEN row.active ELSE req[r].set = "on")
  /\ Answer(r) /\ Writing

ReissueRead(r) ==
  /\ In(r, "reissue")
  /\ \E a \in DOMAIN account :
       /\ account[a].active
       /\ Become(r, Hold(r, "reissue.write", a))
  /\ Reading

ReissueWrite(r) ==
  /\ At(r, "reissue.write")
  /\ \E t \in LinkId, now \in Recent(r) : IssueActivationLink(req[r].acct, t, now)
  /\ Answer(r) /\ Writing

RevokeSessionsRead(r) ==
  /\ In(r, "revokeSessions")
  /\ \E a \in DOMAIN account \ {req[r].sess.account} :
       Become(r, Hold(r, "revokeSessions.write", a))
  /\ Reading

RevokeSessionsWrite(r) ==
  /\ At(r, "revokeSessions.write")
  /\ DeleteSessionsForAccount(req[r].acct)
  /\ Answer(r) /\ Writing

(***************************************************************************)
(* sweepExpiredSessions                                                    *)
(***************************************************************************)
SweepTick ==
  /\ sweep = Null
  /\ sweep' = clock
  /\ UNCHANGED <<tables, clock, req>>

SweepDelete ==
  /\ sweep # Null
  /\ DeleteExpiredSessions(sweep) \/ UNCHANGED tables      \* or it fails
  /\ sweep' = Null
  /\ UNCHANGED <<clock, req>>

(***************************************************************************)
(* The service.                                                            *)
(***************************************************************************)
Middleware(r) == LoadSession(r) \/ LoadActor(r) \/ Touch(r) \/ Return(r)

Handle(r) ==
  \/ LoginRead(r) \/ LoginSupersede(r) \/ LoginCreate(r) \/ Logout(r)
  \/ StartImpersonationRead(r) \/ StartImpersonationWrite(r) \/ StopImpersonation(r)
  \/ ChangePasswordSet(r) \/ ChangePasswordRevoke(r)
  \/ RedeemLink(r) \/ RedeemCreate(r)
  \/ CreateAccountWrite(r) \/ UpdateAccountRead(r) \/ UpdateAccountWrite(r)
  \/ ReissueRead(r) \/ ReissueWrite(r)
  \/ RevokeSessionsRead(r) \/ RevokeSessionsWrite(r)

Next ==
  \/ Tick \/ SweepTick \/ SweepDelete
  \/ \E r \in Request :
       \/ \E handler \in Handler, s \in DOMAIN session \cup ended \cup {Null} :
            Arrive(r, handler, s)
       \/ Middleware(r) \/ Handle(r)

Spec == Init /\ [][Next]_vars

(***************************************************************************)
(* Properties that hold however requests interleave.                       *)
(***************************************************************************)
\* config.go: a session "expires this long after login no matter how active it
\* is".  Requests slide the deadline from old copies of the row, and still none
\* pushes it past the absolute lifetime.
AbsoluteLifetime ==
  \A s \in DOMAIN session : session[s].expires <= session[s].created + TTL

\* A session that was logged out, revoked or swept never works again, although
\* requests that authenticated with it before are still about to touch it or to
\* change whom it acts as.
EndedForGood == ended \cap DOMAIN session = {}

\* handleLogin: "a stale or fixated session value can never be reused".  When a
\* login that arrived with a live session is about to create the new one, the
\* old one is gone, and no other request brings it back.
LoginSupersedes ==
  \A r \in Request : At(r, "login.create") => req[r].by \notin DOMAIN session

\* DeleteExpiredSessions compares with a time read before it got the write lock:
\* it still takes no session that a request has just extended.
SweepTakesOnlyTheExpired ==
  [][sweep # Null /\ sweep' = Null =>
       \A s \in DOMAIN session : Live(s, clock) => s \in DOMAIN session']_vars

\* IssueActivationLink: a reissued invitation supersedes the old one; two
\* administrators reissuing at once still leave one link that works.
OneOpenLink ==
  \A t, u \in DOMAIN link :
    link[t].open /\ link[u].open /\ link[t].account = link[u].account => t = u

\* RedeemActivation: "a token cannot be redeemed twice even under concurrent
\* requests".
LinkSetsOnePassword == \A t \in DOMAIN link : link[t].uses <= 1

\* RedeemActivation: "An invitation to an account that has since been
\* deactivated must not produce a usable login", even if the account is
\* deactivated while the link is being redeemed.
InactiveStaysInvited ==
  [][\A a \in DOMAIN account :
       account[a].password = Null /\ ~account[a].active
         => account'[a].password = Null]_account

\* Seen as members and their sessions rather than rows, the tables keep
\* SessionBook's promise.
Enabled == {a \in DOMAIN account : account[a].active}
Members == {a \in DOMAIN account : account[a].password # Null}
EntryOf(row) ==
  [account |-> row.account, start |-> row.created, until |-> row.expires]
EntriesOf(s) == IF s \in DOMAIN session THEN {EntryOf(session[s])} ELSE {}
Entries == [s \in SessionId |-> EntriesOf(s)]
Book == INSTANCE SessionBook WITH Moment <- Time, known <- DOMAIN account,
  enabled <- Enabled, members <- Members, book <- Entries, over <- ended
KeepsTheSessionBook == Book!Spec

(***************************************************************************)
(* Properties the code's comments and the README state.  Those of them     *)
(* that hold when requests run one at a time are checked so (sessions_one);*)
(* the others are refuted, as the README says.                             *)
(***************************************************************************)
\* handleLogin: "An inactive account is refused a new session."
InactiveGetNoSession ==
  [][\A s \in DOMAIN session' \ DOMAIN session :
       account[session'[s].account].active]_session

\* handleChangePassword: "a session created with the old credential does not
\* outlive it": no session starts with a password the account no longer has.
SessionsStartWithTheCurrentPassword ==
  [][\A s \in DOMAIN session' \ DOMAIN session :
       session'[s].with = account[session'[s].account].password]_session

\* The same sentence, of the sessions that were there: unless the handler that
\* changed the password is still at work, none started with an old one is left.
OldCredentialsAreRevoked ==
  \A s \in DOMAIN session :
    \/ session[s].with = account[session[s].account].password
    \/ \E r \in Request :
         At(r, "changePassword.revoke") /\ req[r].acct = session[s].account

\* README, "An administrator may act as an active, activated user account":
\* what a session starts to act as is one.
ImpersonationStartsAtAUser ==
  [][\A s \in DOMAIN session \cap DOMAIN session' :
       session'[s].as \notin {Null, session[s].as}
         => MayBeImpersonated(session'[s].as)]_session

\* README, "Administrators cannot be impersonated."
NoAdministratorIsImpersonated ==
  \A s \in DOMAIN session :
    session[s].as # Null => account[session[s].as].role = "user"
================================================================================
