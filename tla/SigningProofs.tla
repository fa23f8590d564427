------------------------------ MODULE SigningProofs -----------------------------
(***************************************************************************)
(* What a handler has read of an account before it starts a session or an  *)
(* impersonation.  That the account is a member can be relied on, whatever *)
(* else runs: so the tables implement SessionBook.  That it is active, or  *)
(* that the password is still its own, or that it is no administrator, can *)
(* be relied on as long as nobody changes the same account between the     *)
(* read and the write.  The hypotheses name the account: requests about    *)
(* other accounts, and every other handler, run as they like, for any      *)
(* number of requests, accounts, sessions and links.                       *)
(***************************************************************************)
EXTENDS SessionsProofs

\* A session is about to start.
Signing == {"login.supersede", "login.create", "redeem.create"}

\* The request is about to write the role and the flag of account a, or is where
\* its next call may set the password of a.
Updating(r, a) == At(r, "updateAccount.write") /\ req[r].acct = a
MaySetPassword(r, a) ==
  /\ At(r, "handler")
  /\ \/ /\ req[r].handler = "changePassword"
        /\ req[r].sess # Null /\ req[r].sess.account = a
     \/ /\ req[r].handler = "redeem"
        /\ \E t \in DOMAIN link : link[t].open /\ link[t].account = a

\* While a request is at one of the points, no other is about to write the account
\* it holds.
UpdatesApart(points) ==
  \A r, q \in Request :
    r # q /\ req[r].pc \in points => ~Updating(q, req[r].acct)
PasswordsApart(points) ==
  \A r, q \in Request :
    r # q /\ req[r].pc \in points => ~MaySetPassword(q, req[r].acct)

(***************************************************************************)
(* Where a request goes.                                                   *)
(***************************************************************************)
Steps(r) ==
  \/ \E handler \in Handler, s \in DOMAIN session \cup ended \cup {Null} :
       Arrive(r, handler, s)
  \/ Middleware(r) \/ Handle(r)

LEMMA BecomeIs ==
  ASSUME Inv, NEW r \in Request, NEW row, Become(r, row)
  PROVE  /\ req'[r] = row
         /\ \A q \in Request : q # r => req'[q] = req[q]
BY DEF Inv, TypeOK, Become

LEMMA OthersWait ==
  ASSUME Inv, NEW r \in Request, Steps(r)
  PROVE  \A q \in Request : q # r => req'[q] = req[q]
<1>1. PICK row : Become(r, row)
  BY RequestStep DEF Steps
<1> QED
  BY <1>1, BecomeIs

LEMMA RowType == ASSUME Inv, NEW r \in Request PROVE req[r] \in RequestRow
BY DEF Inv, TypeOK

LEMMA HoldIs ==
  ASSUME NEW r \in Request, NEW pc, NEW a
  PROVE  Hold(r, pc, a).pc = pc /\ Hold(r, pc, a).acct = a
BY DEF Hold, Idle

LEMMA HoldGoes ==
  ASSUME Inv, NEW r \in Request, NEW pc, NEW a, Become(r, Hold(r, pc, a))
  PROVE  req'[r].pc = pc /\ req'[r].acct = a
BY BecomeIs, HoldIs

LEMMA AnswerGoes ==
  ASSUME Inv, NEW r \in Request, Answer(r)
  PROVE  req'[r].pc = "idle"
BY BecomeIs DEF Answer, Idle

\* The points that no theorem here is about.
Elsewhere(row) ==
  row.pc \in {"idle", "session", "actor", "touch", "handler", "changePassword.revoke",
              "updateAccount.write", "reissue.write", "revokeSessions.write"}

LEMMA MiddlewareGoes ==
  ASSUME Inv, NEW r \in Request,
         \/ \E handler \in Handler, s \in DOMAIN session \cup ended \cup {Null} :
              Arrive(r, handler, s)
         \/ Middleware(r)
  PROVE  Elsewhere(req'[r])
<1> DEFINE Goal == Elsewhere(req'[r])
<1>1. req[r] \in RequestRow
  BY RowType
<1>2. ASSUME NEW handler, NEW s, Arrive(r, handler, s) PROVE Goal
  <2> DEFINE new(pc) == [Idle EXCEPT !.pc = pc, !.handler = handler, !.by = s, !.now = clock]
  <2>1. PICK pc \in {"handler", "session"} : Become(r, new(pc))
    BY <1>2 DEF Arrive
  <2>2. new(pc).pc = pc
    BY DEF Idle
  <2> HIDE DEF new
  <2> QED
    BY <2>1, <2>2, BecomeIs DEF Elsewhere
<1>3. ASSUME LoadSession(r) PROVE Goal
  <2> DEFINE loaded(row) == [req[r] EXCEPT !.pc = "actor", !.sess = row]
             public == [req[r] EXCEPT !.pc = "handler", !.by = Null]
  <2>1. PICK row : row = session[req[r].by]
    OBVIOUS
  <2>2. loaded(row).pc = "actor" /\ public.pc = "handler"
    BY <1>1 DEF RequestRow
  <2>3. Become(r, loaded(row)) \/ Become(r, public)
    BY <1>3, <2>1 DEF LoadSession
  <2> HIDE DEF loaded, public
  <2> QED
    BY <2>2, <2>3, BecomeIs DEF Elsewhere
<1>4. ASSUME LoadActor(r) PROVE Goal
  <2> DEFINE loaded(pc, row) == [req[r] EXCEPT !.actor = row, !.pc = pc]
  <2>1. PICK row : row = account[req[r].sess.account]
    OBVIOUS
  <2>2. PICK pc \in {"touch", "handler"} : Become(r, loaded(pc, row))
    BY <1>4, <2>1 DEF LoadActor
  <2>3. loaded(pc, row).pc = pc
    BY <1>1 DEF RequestRow
  <2> HIDE DEF loaded
  <2> QED
    BY <2>2, <2>3, BecomeIs DEF Elsewhere
<1>5. ASSUME Touch(r) PROVE Goal
  <2> DEFINE new == [req[r] EXCEPT !.pc = "handler"]
  <2>1. new.pc = "handler" /\ Become(r, new)
    BY <1>1, <1>5 DEF Touch, Goto, RequestRow
  <2> HIDE DEF new
  <2> QED
    BY <2>1, BecomeIs DEF Elsewhere
<1>6. ASSUME Return(r) PROVE Goal
  BY <1>6, AnswerGoes DEF Return, Elsewhere
<1> QED
  BY <1>2, <1>3, <1>4, <1>5, <1>6 DEF Middleware

LEMMA StepGoes ==
  ASSUME Inv, NEW r \in Request, Steps(r)
  PROVE  \/ LoginRead(r) \/ LoginSupersede(r) \/ RedeemLink(r) \/ StartImpersonationRead(r)
         \/ Elsewhere(req'[r])
<1> DEFINE Goal == Elsewhere(req'[r])
<1>1. Answer(r) => Goal
  BY AnswerGoes DEF Elsewhere
<1>2. ASSUME ChangePasswordSet(r) \/ ReissueRead(r) \/ RevokeSessionsRead(r) PROVE Goal
  BY <1>2, HoldGoes DEF ChangePasswordSet, ReissueRead, RevokeSessionsRead, Elsewhere
<1>3. ASSUME UpdateAccountRead(r) PROVE Goal
  <2> DEFINE new(a, role, set) ==
        [Hold(r, "updateAccount.write", a) EXCEPT !.role = role, !.set = set]
  <2>1. PICK a, role, set : Become(r, new(a, role, set))
    BY <1>3 DEF UpdateAccountRead
  <2>2. new(a, role, set).pc = "updateAccount.write"
    BY DEF Hold, Idle
  <2> HIDE DEF new
  <2> QED
    BY <2>1, <2>2, BecomeIs DEF Elsewhere
<1> QED
  BY <1>1, <1>2, <1>3, MiddlewareGoes
     DEF Steps, Handle, LoginCreate, Logout, StartImpersonationWrite, StopImpersonation,
         ChangePasswordRevoke, RedeemCreate, CreateAccountWrite, UpdateAccountWrite,
         ReissueWrite, RevokeSessionsWrite

LEMMA TargetGoes ==
  ASSUME Inv, NEW r \in Request, StartImpersonationRead(r)
  PROVE  /\ req'[r].pc = "startImpersonation.write" /\ MayBeImpersonated(req'[r].acct)
         /\ UNCHANGED tables
<1>1. PICK a \in DOMAIN account :
        MayBeImpersonated(a) /\ Become(r, Hold(r, "startImpersonation.write", a))
  BY DEF StartImpersonationRead
<1> QED
  BY <1>1, HoldGoes DEF StartImpersonationRead, Reading, tables

\* The account is active and the password is its own.
Checked(row) == account[row.acct].active /\ row.password = account[row.acct].password

LEMMA SigningGoes ==
  ASSUME Inv, NEW r \in Request, NEW pc, NEW a, NEW now, NEW p,
         Become(r, [Hold(r, pc, a) EXCEPT !.now = now, !.password = p])
  PROVE  req'[r].pc = pc /\ req'[r].acct = a /\ req'[r].password = p
<1> DEFINE new == [Hold(r, pc, a) EXCEPT !.now = now, !.password = p]
<1>1. new.pc = pc /\ new.acct = a /\ new.password = p
  BY DEF Hold, Idle
<1>2. req'[r] = new
  BY BecomeIs
<1> QED
  BY <1>1, <1>2

LEMMA LoginReadGoes ==
  ASSUME Inv, NEW r \in Request, LoginRead(r)
  PROVE  req'[r].pc \in Signing /\ Checked(req[r])'
<1>1. PICK a \in DOMAIN account, now \in Recent(r), pc \in {"login.create", "login.supersede"} :
        /\ account[a].active
        /\ Become(r, [Hold(r, pc, a) EXCEPT !.now = now, !.password = account[a].password])
  BY DEF LoginRead
<1>2. PICK p : p = account[a].password
  OBVIOUS
<1>3. Become(r, [Hold(r, pc, a) EXCEPT !.now = now, !.password = p])
  BY <1>1, <1>2
<1>4. req'[r].pc = pc /\ req'[r].acct = a /\ req'[r].password = p
  BY <1>3, SigningGoes
<1>5. account' = account
  BY DEF LoginRead, Reading, tables
<1> QED
  BY <1>1, <1>2, <1>4, <1>5 DEF Checked, Signing

LEMMA RedeemLinkGoes ==
  ASSUME Inv, NEW r \in Request, RedeemLink(r)
  PROVE  req'[r].pc \in Signing /\ Checked(req[r])'
<1>1. PICK t \in DOMAIN link, p \in Password, now \in Recent(r) :
        /\ RedeemActivation(t, p, now)
        /\ Become(r, [Hold(r, "redeem.create", link[t].account)
                      EXCEPT !.now = now, !.password = p])
  BY DEF RedeemLink
<1>2. PICK a \in DOMAIN account : a = link[t].account
  BY <1>1 DEF Inv, StoreInv, References
<1>3. req'[r].pc = "redeem.create" /\ req'[r].acct = a /\ req'[r].password = p
  BY <1>1, <1>2, SigningGoes
<1>4. account' = [account EXCEPT ![a].password = p] /\ account[a].active
  BY <1>1, <1>2 DEF RedeemActivation
<1>5. account'[a].password = p /\ account'[a].active
  BY <1>4 DEF Inv, TypeOK, StoreTypeOK, AccountRow
<1> QED
  BY <1>3, <1>5 DEF Checked, Signing

LEMMA SupersedeGoes ==
  ASSUME Inv, NEW r \in Request, LoginSupersede(r)
  PROVE  /\ At(r, "login.supersede") /\ req'[r].pc = "login.create"
         /\ req'[r].acct = req[r].acct /\ req'[r].password = req[r].password
         /\ account' = account
<1> DEFINE new == [req[r] EXCEPT !.pc = "login.create"]
<1>1. new.pc = "login.create" /\ new.acct = req[r].acct /\ new.password = req[r].password
  BY RowType DEF RequestRow
<1>2. req'[r] = new
  BY BecomeIs DEF LoginSupersede, Goto
<1> QED
  BY <1>1, <1>2 DEF LoginSupersede, DeleteSession, Delete

\* Who comes to be about to start a session has just checked the account, or goes
\* on with what it checked.
GoesOn(r) ==
  /\ At(r, "login.supersede") /\ account' = account
  /\ req'[r].acct = req[r].acct /\ req'[r].password = req[r].password

LEMMA SigningStarts ==
  ASSUME Inv, NEW r \in Request, Steps(r), req'[r].pc \in Signing
  PROVE  Checked(req[r])' \/ GoesOn(r)
<1>1. ~Elsewhere(req'[r]) /\ ~StartImpersonationRead(r)
  BY TargetGoes DEF Signing, Elsewhere
<1> QED
  BY <1>1, StepGoes, LoginReadGoes, RedeemLinkGoes, SupersedeGoes DEF GoesOn

LEMMA ImpersonationStarts ==
  ASSUME Inv, NEW r \in Request, Steps(r), req'[r].pc = "startImpersonation.write"
  PROVE  MayBeImpersonated(req'[r].acct) /\ UNCHANGED tables
<1>1. ~Elsewhere(req'[r])
  BY DEF Elsewhere
<1>2. ~(LoginRead(r) \/ LoginSupersede(r) \/ RedeemLink(r))
  BY LoginReadGoes, RedeemLinkGoes, SupersedeGoes DEF Signing
<1> QED
  BY <1>1, <1>2, StepGoes, TargetGoes

(***************************************************************************)
(* What a step does to an account and to the sessions.                     *)
(***************************************************************************)
\* The steps that change no account.
LEMMA RestOfSteps ==
  ASSUME NEW r \in Request, Steps(r)
  PROVE  \/ UpdateAccountWrite(r) \/ ChangePasswordSet(r) \/ RedeemLink(r)
         \/ CreateAccountWrite(r) \/ account' = account
BY DEF Steps, Middleware, Handle, Reading, tables, Arrive, LoadSession, LoadActor, Touch,
   Return, LoginRead, LoginSupersede, LoginCreate, Logout, StartImpersonationRead,
   StartImpersonationWrite, StopImpersonation, ChangePasswordRevoke, RedeemCreate,
   UpdateAccountRead, ReissueRead, ReissueWrite, RevokeSessionsRead, RevokeSessionsWrite,
   TouchSession, CreateSession, SetImpersonation, DeleteSession, DeleteSessionsForAccount,
   DeleteOtherSessionsForAccount, Delete, IssueActivationLink

\* Only the write of updateAccount changes an account's role and flag, only a
\* handler that may set its password sets it, and no account loses its password.
LEMMA AccountFrame ==
  ASSUME Inv, NEW r \in Request, Steps(r), NEW a \in DOMAIN account
  PROVE  /\ ~Updating(r, a) =>
              account'[a].role = account[a].role /\ account'[a].active = account[a].active
         /\ ~MaySetPassword(r, a) => account'[a].password = account[a].password
         /\ account[a].password # Null => account'[a].password # Null
         /\ a \in DOMAIN account'
<1> DEFINE Goal ==
      /\ ~Updating(r, a) =>
           account'[a].role = account[a].role /\ account'[a].active = account[a].active
      /\ ~MaySetPassword(r, a) => account'[a].password = account[a].password
<1>1. /\ a \in DOMAIN account'
      /\ account[a].password # Null => account'[a].password # Null
  BY RequestStep, StoreStep DEF Steps, Kept, Inv
<1>2. /\ account \in [DOMAIN account -> AccountRow]
      /\ \A b \in DOMAIN account : account[b] \in AccountRow
      /\ \A t \in DOMAIN link : link[t].account \in DOMAIN account
  BY DEF Inv, TypeOK, StoreTypeOK, StoreInv, References
<1>3. ASSUME NEW b \in DOMAIN account, NEW p, account' = [account EXCEPT ![b].password = p]
      PROVE  \A c \in DOMAIN account :
               /\ account'[c].role = account[c].role /\ account'[c].active = account[c].active
               /\ c # b => account'[c].password = account[c].password
  BY <1>2, <1>3 DEF AccountRow
<1>4. ASSUME UpdateAccountWrite(r) PROVE Goal
  <2> DEFINE b == req[r].acct
             new(role, active) == [account[b] EXCEPT !.role = role, !.active = active]
  <2>1. PICK role, active : UpdateAccount(b, role, active)
    BY <1>4 DEF UpdateAccountWrite
  <2>2. b \in DOMAIN account /\ account' = [account EXCEPT ![b] = new(role, active)]
    BY <2>1 DEF UpdateAccount
  <2>3. new(role, active).password = account[b].password
    BY <1>2, <2>2 DEF AccountRow
  <2>4. b = a => Updating(r, a)
    BY <1>4 DEF UpdateAccountWrite, Updating
  <2> HIDE DEF new
  <2> QED
    BY <1>2, <2>2, <2>3, <2>4
<1>5. ASSUME ChangePasswordSet(r) PROVE Goal
  <2>1. PICK p \in Password : SetPassword(req[r].sess.account, p, req[r].by)
    BY <1>5 DEF ChangePasswordSet
  <2>2. PICK b \in DOMAIN account : b = req[r].sess.account
    BY <2>1 DEF SetPassword
  <2>3. b = a => MaySetPassword(r, a)
    BY <1>5, <2>2 DEF ChangePasswordSet, In, MaySetPassword, Public
  <2>4. account' = [account EXCEPT ![b].password = p]
    BY <2>1, <2>2 DEF SetPassword
  <2> QED
    BY <1>3, <2>3, <2>4
<1>6. ASSUME RedeemLink(r) PROVE Goal
  <2>1. PICK t \in DOMAIN link, p \in Password, now \in Recent(r) : RedeemActivation(t, p, now)
    BY <1>6 DEF RedeemLink
  <2>2. PICK b \in DOMAIN account : b = link[t].account
    BY <1>2, <2>1
  <2>3. b = a => MaySetPassword(r, a)
    BY <1>6, <2>1, <2>2 DEF RedeemLink, RedeemActivation, In, MaySetPassword
  <2>4. account' = [account EXCEPT ![b].password = p]
    BY <2>1, <2>2 DEF RedeemActivation
  <2> QED
    BY <1>3, <2>3, <2>4
<1>7. ASSUME CreateAccountWrite(r) PROVE Goal
  <2>1. PICK b, row : b \notin DOMAIN account /\ account' = WithRow(account, b, row)
    BY <1>7 DEF CreateAccountWrite, CreateAccount
  <2> QED
    BY <2>1 DEF WithRow
<1>8. CASE account' = account
  BY <1>8
<1> QED
  BY <1>1, <1>4, <1>5, <1>6, <1>7, <1>8, RestOfSteps

\* The other steps start no session and change no target.
SessionsOnlyGo ==
  /\ DOMAIN session' \subseteq DOMAIN session
  /\ \A s \in DOMAIN session' : session'[s].as = session[s].as

LEMMA OtherSessionSteps ==
  ASSUME Inv, NEW r \in Request, Steps(r)
  PROVE  \/ LoginCreate(r) \/ RedeemCreate(r)
         \/ StartImpersonationWrite(r) \/ StopImpersonation(r)
         \/ SessionsOnlyGo
<1>1. \A s \in DOMAIN session : session[s] \in SessionRow
  BY DEF Inv, TypeOK, StoreTypeOK
<1>2. ASSUME Touch(r) PROVE SessionsOnlyGo
  <2>1. CASE UNCHANGED tables
    BY <2>1 DEF SessionsOnlyGo, tables
  <2>2. ASSUME NEW s, NEW now, NEW expires, TouchSession(s, now, expires)
        PROVE  SessionsOnlyGo
    <3> DEFINE new(t) == [session[t] EXCEPT !.seen = now, !.expires = expires]
    <3>1. \A t \in DOMAIN session : new(t).as = session[t].as
      BY <1>1 DEF SessionRow
    <3>2. session' = [t \in DOMAIN session |-> IF t = s THEN new(t) ELSE session[t]]
      BY <2>2 DEF TouchSession
    <3> HIDE DEF new
    <3> QED
      BY <3>1, <3>2 DEF SessionsOnlyGo
  <2> QED
    BY <1>2, <2>1, <2>2 DEF Touch
<1>3. ASSUME NEW gone, Delete(gone) PROVE SessionsOnlyGo
  BY <1>3 DEF Delete, WithoutRows, SessionsOnlyGo
<1>4. ASSUME ChangePasswordSet(r) PROVE SessionsOnlyGo
  <2>1. PICK p, b, s : SetPassword(b, p, s)
    BY <1>4 DEF ChangePasswordSet
  <2> DEFINE new(t) == [session[t] EXCEPT !.with = p]
  <2>2. \A t \in DOMAIN session : new(t).as = session[t].as
    BY <1>1 DEF SessionRow
  <2>3. session' = [t \in DOMAIN session |-> IF t = s THEN new(t) ELSE session[t]]
    BY <2>1 DEF SetPassword
  <2> HIDE DEF new
  <2> QED
    BY <2>2, <2>3 DEF SessionsOnlyGo
<1>5. CASE UNCHANGED session
  BY <1>5 DEF SessionsOnlyGo
<1> QED
  BY <1>2, <1>3, <1>4, <1>5
  DEF Steps, Middleware, Handle, Reading, tables, Arrive, LoadSession, LoadActor,
      Return, LoginRead, LoginSupersede, Logout, StartImpersonationRead,
      ChangePasswordRevoke, RedeemLink, RedeemActivation, CreateAccountWrite,
      CreateAccount, UpdateAccountRead, UpdateAccountWrite, UpdateAccount, ReissueRead,
      ReissueWrite, IssueActivationLink, RevokeSessionsRead, RevokeSessionsWrite,
      DeleteSession, DeleteSessionsForAccount, DeleteOtherSessionsForAccount

\* Sessions start only where a login or a redemption creates them.
LEMMA NewSession ==
  ASSUME Inv, NEW r \in Request, Steps(r), NEW s \in DOMAIN session' \ DOMAIN session
  PROVE  /\ req[r].pc \in {"login.create", "redeem.create"}
         /\ session'[s].account = req[r].acct /\ session'[s].with = req[r].password
<1>1. CASE LoginCreate(r) \/ RedeemCreate(r)
  <2>1. PICK t \in SessionId : CreateSession(t, req[r].acct, req[r].now, req[r].password)
    BY <1>1 DEF LoginCreate, RedeemCreate
  <2>2. s = t
    BY <2>1 DEF CreateSession, WithRow
  <2>3. PICK row : row = [account |-> req[r].acct, as |-> Null, created |-> req[r].now,
                          seen |-> req[r].now, expires |-> req[r].now + IdleTTL,
                          with |-> req[r].password]
    OBVIOUS
  <2>4. session'[s] = row
    BY <2>1, <2>2, <2>3 DEF CreateSession, WithRow
  <2> QED
    BY <1>1, <2>3, <2>4 DEF LoginCreate, RedeemCreate, At
<1>2. CASE ~(LoginCreate(r) \/ RedeemCreate(r))
  <2>1. ASSUME NEW t, NEW a, SetImpersonation(t, a) PROVE DOMAIN session' = DOMAIN session
    BY <2>1 DEF SetImpersonation
  <2>2. StartImpersonationWrite(r) \/ StopImpersonation(r) \/ SessionsOnlyGo
    BY <1>2, OtherSessionSteps
  <2>3. DOMAIN session' \subseteq DOMAIN session
    BY <2>1, <2>2 DEF SessionsOnlyGo, StartImpersonationWrite, StopImpersonation
  <2> QED
    BY <2>3
<1> QED
  BY <1>1, <1>2

\* A session starts to act as an account only where startImpersonation writes.
LEMMA NewTarget ==
  ASSUME Inv, NEW r \in Request, Steps(r), NEW s \in DOMAIN session \cap DOMAIN session',
         session'[s].as \notin {Null, session[s].as}
  PROVE  At(r, "startImpersonation.write") /\ session'[s].as = req[r].acct
<1>1. \A t \in DOMAIN session : session[t] \in SessionRow
  BY DEF Inv, TypeOK, StoreTypeOK
<1>2. ASSUME NEW t, NEW a, SetImpersonation(t, a)
      PROVE  session'[s].as \in {session[s].as, a}
  BY <1>1, <1>2 DEF SetImpersonation, SessionRow
<1>3. CASE StartImpersonationWrite(r)
  <2>1. SetImpersonation(req[r].by, req[r].acct)
    BY <1>3 DEF StartImpersonationWrite
  <2>2. session'[s].as \in {session[s].as, req[r].acct}
    BY <1>2, <2>1
  <2> QED
    BY <1>3, <2>2 DEF StartImpersonationWrite
<1>4. CASE StopImpersonation(r)
  <2>1. SetImpersonation(req[r].by, Null)
    BY <1>4 DEF StopImpersonation
  <2>2. session'[s].as \in {session[s].as, Null}
    BY <1>2, <2>1
  <2> QED
    BY <2>2
<1>5. CASE LoginCreate(r) \/ RedeemCreate(r)
  BY <1>5 DEF LoginCreate, RedeemCreate, CreateSession, WithRow
<1>6. CASE SessionsOnlyGo
  BY <1>6 DEF SessionsOnlyGo
<1> QED
  BY <1>3, <1>4, <1>5, <1>6, OtherSessionSteps

\* A step of the service is one of a request, or of the clock or the sweeper.
LEMMA NextSteps ==
  ASSUME Inv, [Next]_vars
  PROVE  \/ \E r \in Request : Steps(r)
         \/ UNCHANGED <<account, req>> /\ SessionsOnlyGo
<1>1. SweepDelete => UNCHANGED <<account, req>> /\ SessionsOnlyGo
  BY DEF SweepDelete, DeleteExpiredSessions, Delete, WithoutRows, tables, SessionsOnlyGo
<1>2. Tick \/ SweepTick \/ UNCHANGED vars => UNCHANGED <<account, req>> /\ SessionsOnlyGo
  BY DEF Tick, SweepTick, vars, tables, SessionsOnlyGo
<1> QED
  BY <1>1, <1>2 DEF Next, Steps

(***************************************************************************)
(* The tables implement SessionBook.                                       *)
(***************************************************************************)
\* Who is about to get a session has a password, whatever happens meanwhile: no
\* transaction takes one away.
MemberInv ==
  \A r \in Request : req[r].pc \in Signing => account[req[r].acct].password # Null

LEMMA SigningHolds ==
  ASSUME Inv, NEW r \in Request, req[r].pc \in Signing
  PROVE  req[r].acct \in DOMAIN account /\ req[r].password # Null
BY NullAssumption DEF Inv, SoundNow, Sound, Signing

LEMMA MemberPreserved ==
  ASSUME Inv, Inv', MemberInv, [Next]_vars
  PROVE  MemberInv'
<1> SUFFICES ASSUME NEW q \in Request, req'[q].pc \in Signing
             PROVE  account'[req'[q].acct].password # Null
  BY DEF MemberInv
<1>1. CASE UNCHANGED <<account, req>>
  BY <1>1 DEF MemberInv
<1>2. ASSUME Steps(q) PROVE account'[req'[q].acct].password # Null
  <2>1. req'[q].password # Null
    BY NullAssumption DEF Inv, SoundNow, Sound, Signing
  <2> QED
    BY <1>2, <2>1, SigningStarts DEF MemberInv, Checked, GoesOn, At, Signing
<1>3. ASSUME NEW r \in Request, Steps(r), r # q
      PROVE  account'[req'[q].acct].password # Null
  <2>1. req'[q] = req[q]
    BY <1>3, OthersWait
  <2>2. PICK a \in DOMAIN account : a = req[q].acct
    BY <2>1, SigningHolds
  <2>3. account[a].password # Null
    BY <2>1, <2>2 DEF MemberInv
  <2> QED
    BY <1>3, <2>1, <2>2, <2>3, AccountFrame
<1> QED
  BY <1>1, <1>2, <1>3, NextSteps

LEMMA SameBook ==
  ASSUME UNCHANGED <<account, session, ended>>
  PROVE  UNCHANGED Book!vars
BY DEF Book!vars, Book!accounts, Enabled, Members, Entries, EntriesOf, EntryOf

LEMMA SameAccounts ==
  ASSUME UNCHANGED account
  PROVE  UNCHANGED Book!accounts
BY DEF Book!accounts, Enabled, Members

LEMMA OneEntryChanges ==
  ASSUME NEW s \in SessionId, NEW e, EntriesOf(s)' = {e},
         \A t \in SessionId : t # s => EntriesOf(t)' = EntriesOf(t)
  PROVE  Entries' = [Entries EXCEPT ![s] = {e}]
<1>1. Entries' = [t \in SessionId |-> EntriesOf(t)']
  BY DEF Entries
<1> QED
  BY <1>1 DEF Entries

LEMMA SameEntries ==
  ASSUME DOMAIN session' = DOMAIN session,
         \A s \in DOMAIN session : /\ session'[s].account = session[s].account
                                   /\ session'[s].created = session[s].created
                                   /\ session'[s].expires = session[s].expires
  PROVE  Entries' = Entries
<1>1. \A s \in SessionId : EntriesOf(s)' = EntriesOf(s)
  BY DEF EntriesOf, EntryOf
<1>2. Entries' = [s \in SessionId |-> EntriesOf(s)']
  BY DEF Entries
<1> QED
  BY <1>1, <1>2 DEF Entries

LEMMA StartImplements ==
  ASSUME StoreTypeOK, NEW s \in SessionId, NEW a \in Members, NEW now \in Time,
         NEW p \in Password, CreateSession(s, a, now, p)
  PROVE  Book!Next
<1> DEFINE row == [account |-> a, as |-> Null, created |-> now, seen |-> now,
                   expires |-> now + IdleTTL, with |-> p]
<1>1. s \notin DOMAIN session \cup ended /\ session' = WithRow(session, s, row)
  BY DEF CreateSession
<1>2. EntryOf(row) = Book!Entry(a, now, now + IdleTTL)
  BY DEF EntryOf, Book!Entry
<1> HIDE DEF row
<1>3. DOMAIN session' = DOMAIN session \cup {s} /\ session'[s] = row
      /\ \A t \in DOMAIN session : session'[t] = session[t]
  BY <1>1 DEF WithRow
<1>4. EntriesOf(s)' = {EntryOf(row)} /\ Entries[s] = {}
      /\ \A t \in SessionId : t # s => EntriesOf(t)' = EntriesOf(t)
  BY <1>1, <1>3 DEF EntriesOf, EntryOf, Entries
<1>5. Entries' = [Entries EXCEPT ![s] = {Book!Entry(a, now, now + IdleTTL)}]
  BY <1>2, <1>4, OneEntryChanges
<1>6. Book!Start(s, a, now, now + IdleTTL)
  BY <1>1, <1>4, <1>5, SameAccounts DEF Book!Start, CreateSession
<1>7. a \in Account /\ now + IdleTTL \in 0 .. now + TTL
  BY LifetimeAssumption, StartAssumption DEF Members, StoreTypeOK, Time
<1> QED
  BY <1>6, <1>7 DEF Book!Next

LEMMA TouchImplements ==
  ASSUME StoreTypeOK, NEW s \in SessionId \cup {Null}, NEW now \in Nat, NEW expires \in Nat,
         s \in DOMAIN session => expires <= session[s].created + TTL,
         TouchSession(s, now, expires)
  PROVE  [Book!Next]_(Book!vars)
<1> DEFINE new(t) == [session[t] EXCEPT !.seen = now, !.expires = expires]
<1>1. \A t \in DOMAIN session :
        /\ new(t).account = session[t].account /\ new(t).created = session[t].created
        /\ new(t).expires = expires
  BY DEF StoreTypeOK, SessionRow
<1>2. /\ session' = [t \in DOMAIN session |-> IF t = s THEN new(t) ELSE session[t]]
      /\ UNCHANGED <<account, ended>>
  BY DEF TouchSession
<1> HIDE DEF new
<1>3. CASE s \in DOMAIN session
  <2> DEFINE e == EntryOf(session[s])
  <2>1. s \in SessionId /\ session[s].created \in Nat
    BY <1>3 DEF StoreTypeOK, SessionRow
  <2>2. /\ e.account = session[s].account /\ e.start = session[s].created
        /\ e \in Entries[s]
    BY <1>3, <2>1 DEF EntryOf, Entries, EntriesOf
  <2> HIDE DEF e
  <2>3. EntryOf(session'[s]) = Book!Entry(e.account, e.start, expires)
    BY <1>1, <1>2, <1>3, <2>2 DEF EntryOf, Book!Entry
  <2>4. /\ EntriesOf(s)' = {EntryOf(session'[s])}
        /\ \A t \in SessionId : t # s => EntriesOf(t)' = EntriesOf(t)
    BY <1>2, <1>3 DEF EntriesOf, EntryOf
  <2>5. Entries' = [Entries EXCEPT ![s] = {Book!Entry(e.account, e.start, expires)}]
    BY <2>1, <2>3, <2>4, OneEntryChanges
  <2>6. Book!Slide(s, e, expires)
    BY <1>2, <2>5, SameAccounts DEF Book!Slide
  <2>7. expires \in 0 .. e.start + TTL
    BY <1>3, <2>1, <2>2, LifetimeAssumption
  <2> QED
    BY <2>1, <2>2, <2>6, <2>7 DEF Book!Next
<1>4. CASE s \notin DOMAIN session
  BY <1>2, <1>4, SameBook DEF StoreTypeOK
<1> QED
  BY <1>3, <1>4

LEMMA DeleteImplements ==
  ASSUME StoreTypeOK, NEW gone, Delete(gone)
  PROVE  Book!Next
<1> DEFINE out == DOMAIN session \cap gone
<1>1. /\ session' = WithoutRows(session, gone) /\ ended' = ended \cup out
      /\ UNCHANGED account
  BY DEF Delete
<1>2. out \in SUBSET SessionId /\ \A s \in out : Entries[s] # {}
  BY DEF StoreTypeOK, Entries, EntriesOf
<1>3. \A s \in SessionId : EntriesOf(s)' = IF s \in out THEN {} ELSE Entries[s]
  BY <1>1 DEF WithoutRows, EntriesOf, EntryOf, Entries
<1>4. Entries' = [s \in SessionId |-> IF s \in out THEN {} ELSE Entries[s]]
  BY <1>3 DEF Entries
<1>5. Book!End(out)
  BY <1>1, <1>2, <1>4, SameAccounts DEF Book!End
<1> QED
  BY <1>2, <1>5 DEF Book!Next

LEMMA MarksImplement ==
  ASSUME StoreTypeOK,
         \/ \E s, a : SetImpersonation(s, a)
         \/ \E a \in Members, p \in Password : \E by : SetPassword(a, p, by)
  PROVE  UNCHANGED Book!vars
<1>1. \A s \in DOMAIN session : session[s] \in SessionRow
  BY DEF StoreTypeOK
<1>2. Entries' = Entries /\ ended' = ended
  <2>1. ASSUME NEW s, NEW a, SetImpersonation(s, a) PROVE Entries' = Entries /\ ended' = ended
    <3> DEFINE new(t) == [session[t] EXCEPT !.as = a]
    <3>1. \A t \in DOMAIN session :
            /\ new(t).account = session[t].account /\ new(t).created = session[t].created
            /\ new(t).expires = session[t].expires
      BY <1>1 DEF SessionRow
    <3>2. /\ session' = [t \in DOMAIN session |-> IF t = s THEN new(t) ELSE session[t]]
          /\ ended' = ended
      BY <2>1 DEF SetImpersonation
    <3> HIDE DEF new
    <3> QED
      BY <3>1, <3>2, SameEntries
  <2>2. ASSUME NEW a, NEW p, NEW by, SetPassword(a, p, by)
        PROVE  Entries' = Entries /\ ended' = ended
    <3> DEFINE new(t) == [session[t] EXCEPT !.with = p]
    <3>1. \A t \in DOMAIN session :
            /\ new(t).account = session[t].account /\ new(t).created = session[t].created
            /\ new(t).expires = session[t].expires
      BY <1>1 DEF SessionRow
    <3>2. /\ session' = [t \in DOMAIN session |-> IF t = by THEN new(t) ELSE session[t]]
          /\ ended' = ended
      BY <2>2 DEF SetPassword
    <3> HIDE DEF new
    <3> QED
      BY <3>1, <3>2, SameEntries
  <2> QED
    BY <2>1, <2>2
<1>3. UNCHANGED Book!accounts
  <2>1. ASSUME NEW a \in Members, NEW p \in Password, account' = [account EXCEPT ![a].password = p]
        PROVE  UNCHANGED Book!accounts
    <3>1. /\ DOMAIN account' = DOMAIN account
          /\ \A b \in DOMAIN account : /\ account'[b].active = account[b].active
                                       /\ account'[b].password = Null <=> account[b].password = Null
      BY <2>1, NullAssumption DEF Members, StoreTypeOK, AccountRow
    <3> QED
      BY <3>1 DEF Book!accounts, Enabled, Members
  <2> QED
    BY <2>1, SameAccounts DEF SetImpersonation, SetPassword
<1> QED
  BY <1>2, <1>3 DEF Book!vars

LEMMA AccountsImplement ==
  ASSUME StoreTypeOK, References,
         \/ \E a \in Account, role \in {"admin", "user"}, active \in BOOLEAN :
              UpdateAccount(a, role, active)
         \/ \E a \in Account, role \in {"admin", "user"}, active \in BOOLEAN,
               p \in Password \cup {Null}, t \in LinkId, now \in Nat :
              CreateAccount(a, role, active, p, t, now)
         \/ \E t \in LinkId, p \in Password, now \in Nat : RedeemActivation(t, p, now)
  PROVE  Book!Next
<1>0. UNCHANGED <<session, ended>>
  BY DEF UpdateAccount, CreateAccount, RedeemActivation
<1>1. UNCHANGED <<Entries, ended>>
  BY <1>0 DEF Entries, EntriesOf, EntryOf
<1>2. \A a \in DOMAIN account : a \in Account /\ account[a] \in AccountRow
  BY DEF StoreTypeOK
<1>3. ASSUME NEW a \in Account, NEW role, NEW active \in BOOLEAN, UpdateAccount(a, role, active)
      PROVE  Book!Next
  <2> DEFINE new == [account[a] EXCEPT !.role = role, !.active = active]
  <2>1. a \in DOMAIN account /\ account' = [account EXCEPT ![a] = new]
    BY <1>3 DEF UpdateAccount
  <2>2. new.active = active /\ new.password = account[a].password
    BY <1>2, <2>1 DEF AccountRow
  <2> HIDE DEF new
  <2>3. DOMAIN account' = DOMAIN account /\ Members' = Members
        /\ Enabled' \in {Enabled \cup {a}, Enabled \ {a}}
    BY <2>1, <2>2 DEF Members, Enabled
  <2>4. Book!Switch(a)
    BY <1>1, <2>1, <2>3 DEF Book!Switch
  <2> QED
    BY <2>4 DEF Book!Next
<1>4. ASSUME NEW a \in Account, NEW role, NEW active \in BOOLEAN, NEW p, NEW t, NEW now,
             CreateAccount(a, role, active, p, t, now)
      PROVE  Book!Next
  <2> DEFINE row == [role |-> role, active |-> active, password |-> p]
             joined == p # Null
  <2>1. a \notin DOMAIN account /\ account' = WithRow(account, a, row)
    BY <1>4 DEF CreateAccount
  <2>2. row.active = active /\ row.password = p
    OBVIOUS
  <2> HIDE DEF row
  <2>3. /\ DOMAIN account' = DOMAIN account \cup {a}
        /\ Enabled' = IF active THEN Enabled \cup {a} ELSE Enabled
        /\ Members' = IF joined THEN Members \cup {a} ELSE Members
    BY <2>1, <2>2 DEF WithRow, Enabled, Members
  <2>4. Book!Admit(a, active, joined)
    BY <1>1, <2>1, <2>3 DEF Book!Admit
  <2> QED
    BY <2>4 DEF Book!Next
<1>5. ASSUME NEW t \in LinkId, NEW p \in Password, NEW now, RedeemActivation(t, p, now)
      PROVE  Book!Next
  <2>1. PICK a \in DOMAIN account : a = link[t].account
    BY <1>5 DEF RedeemActivation, References
  <2>2. account' = [account EXCEPT ![a].password = p] /\ account[a].active
    BY <1>5, <2>1 DEF RedeemActivation
  <2> DEFINE new == [account[a] EXCEPT !.password = p]
  <2>3. account' = [account EXCEPT ![a] = new] /\ new.password # Null
        /\ new.active = account[a].active
    BY <1>2, <2>2, NullAssumption DEF AccountRow
  <2> HIDE DEF new
  <2>4. /\ DOMAIN account' = DOMAIN account
        /\ \A b \in DOMAIN account :
             /\ account'[b].active = account[b].active
             /\ account'[b].password # Null <=> b = a \/ account[b].password # Null
    BY <2>3
  <2>5. Enabled' = Enabled /\ a \in Enabled
    BY <2>2, <2>4 DEF Enabled
  <2>6. Members' = Members \cup {a}
    BY <2>4 DEF Members
  <2>7. Book!Join(a)
    BY <1>1, <2>4, <2>5, <2>6 DEF Book!Join
  <2> QED
    BY <1>2, <2>7 DEF Book!Next
<1> QED
  BY <1>3, <1>4, <1>5

\* Only a member's session starts.
LEMMA TransactionImplements ==
  ASSUME StoreInv, Transaction,
         \A s \in SessionId, a \in DOMAIN account, now \in Time, p \in Password :
           CreateSession(s, a, now, p) => a \in Members
  PROVE  [Book!Next]_(Book!vars)
<1> DEFINE Goal == [Book!Next]_(Book!vars)
<1>1. StoreTypeOK /\ References
  BY DEF StoreInv
<1>2. ASSUME NEW s \in SessionId, NEW a \in DOMAIN account, NEW now \in Time,
             NEW p \in Password, CreateSession(s, a, now, p)
      PROVE  Goal
  BY <1>1, <1>2, StartImplements
<1>3. ASSUME NEW a \in Account, NEW p \in Password, NEW by,
             a \in DOMAIN account /\ account[a].password # Null, SetPassword(a, p, by)
      PROVE  Goal
  BY <1>1, <1>3, MarksImplement DEF Members
<1>4. ASSUME NEW a \in Account, NEW t \in LinkId, NEW now \in Nat,
             IssueActivationLink(a, t, now)
      PROVE  Goal
  BY <1>4, SameBook DEF IssueActivationLink
<1> HIDE DEF Goal
<1>5. ASSUME \/ \E a \in Account, role \in {"admin", "user"}, active \in BOOLEAN :
                  UpdateAccount(a, role, active)
             \/ \E a \in Account, role \in {"admin", "user"}, active \in BOOLEAN,
                   p \in Password \cup {Null}, t \in LinkId, now \in Nat :
                  CreateAccount(a, role, active, p, t, now)
             \/ \E t \in LinkId, p \in Password, now \in Nat : RedeemActivation(t, p, now)
      PROVE  Goal
  BY <1>1, <1>5, AccountsImplement DEF Goal
<1>6. ASSUME NEW s, NEW a, SetImpersonation(s, a) PROVE Goal
  BY <1>1, <1>6, MarksImplement DEF Goal
<1>7. ASSUME NEW gone, Delete(gone) PROVE Goal
  BY <1>1, <1>7, DeleteImplements DEF Goal
<1>8. ASSUME NEW s \in SessionId \cup {Null}, NEW now \in Nat, NEW expires \in Nat,
             s \in DOMAIN session => expires <= session[s].created + TTL,
             TouchSession(s, now, expires)
      PROVE  Goal
  BY <1>1, <1>8, TouchImplements DEF Goal
<1>9. Goal
  BY <1>2, <1>3, <1>4, <1>5, <1>6, <1>7, <1>8 DEF Transaction
<1> QED
  BY <1>9 DEF Goal

LEMMA StartsAreOfMembers ==
  ASSUME Inv, MemberInv, [Next]_vars,
         NEW s \in SessionId, NEW a \in DOMAIN account, NEW now \in Time, NEW p \in Password,
         CreateSession(s, a, now, p)
  PROVE  a \in Members
<1>1. s \in DOMAIN session' \ DOMAIN session /\ session'[s].account = a
  <2>1. PICK row : /\ row = [account |-> a, as |-> Null, created |-> now, seen |-> now,
                            expires |-> now + IdleTTL, with |-> p]
                   /\ session' = WithRow(session, s, row)
    BY DEF CreateSession
  <2> QED
    BY <2>1 DEF CreateSession, WithRow
<1>2. PICK r \in Request : Steps(r)
  BY <1>1, NextSteps DEF SessionsOnlyGo
<1>3. req[r].pc \in Signing /\ req[r].acct = a
  BY <1>1, <1>2, NewSession DEF Signing
<1> QED
  BY <1>3 DEF MemberInv, Members

\* The tables and the handlers implement SessionBook, for any number of accounts,
\* sessions, links and requests: nobody without a password has ever had a session, a
\* password comes with the account or while it is enabled, and a session is one
\* account's, within its lifetime, once.
THEOREM KeepsSessions == Spec => KeepsTheSessionBook
<1>1. Init => MemberInv
  BY DEF Init, Idle, MemberInv, Signing
<1>2. Init => Book!Init
  <2> SUFFICES ASSUME Init PROVE Book!Init
    OBVIOUS
  <2>1. Entries = [s \in SessionId |-> {}] /\ DOMAIN account \in SUBSET Account
    BY StartAssumption DEF Init, NoRows, Entries, EntriesOf
  <2> QED
    BY <2>1 DEF Init, Book!Init, Enabled, Members
<1>3. Inv /\ MemberInv /\ [Next]_vars => [Book!Next]_(Book!vars)
  <2> SUFFICES ASSUME Inv, MemberInv, [Next]_vars PROVE [Book!Next]_(Book!vars)
    OBVIOUS
  <2>1. CASE UNCHANGED tables
    BY <2>1, SameBook DEF tables
  <2>2. CASE Transaction
    BY <2>2, StartsAreOfMembers, TransactionImplements DEF Inv
  <2> QED
    BY <2>1, <2>2, ServiceStep
<1> QED
  BY <1>1, <1>2, <1>3, InvHolds, MemberPreserved, PTL DEF Spec, KeepsTheSessionBook, Book!Spec

(***************************************************************************)
(* What was checked stays so until it is used.                             *)
(***************************************************************************)
ActiveInv ==
  \A r \in Request : req[r].pc \in Signing => account[req[r].acct].active
PasswordInv ==
  \A r \in Request :
    req[r].pc \in Signing => req[r].password = account[req[r].acct].password
TargetInv ==
  \A r \in Request :
    At(r, "startImpersonation.write") => MayBeImpersonated(req[r].acct)

LEMMA SerialInit == Init => ActiveInv /\ PasswordInv /\ TargetInv
BY DEF Init, Idle, Signing, At, ActiveInv, PasswordInv, TargetInv

LEMMA ActivePreserved ==
  ASSUME Inv, ActiveInv, UpdatesApart(Signing), [Next]_vars
  PROVE  ActiveInv'
<1> SUFFICES ASSUME NEW q \in Request, req'[q].pc \in Signing
             PROVE  account'[req'[q].acct].active
  BY DEF ActiveInv
<1>1. CASE UNCHANGED <<account, req>>
  BY <1>1 DEF ActiveInv
<1>2. ASSUME Steps(q) PROVE account'[req'[q].acct].active
  BY <1>2, SigningStarts DEF ActiveInv, Checked, GoesOn, At, Signing
<1>3. ASSUME NEW r \in Request, Steps(r), r # q PROVE account'[req'[q].acct].active
  <2>1. req'[q] = req[q]
    BY <1>3, OthersWait
  <2>2. PICK a \in DOMAIN account : a = req[q].acct
    BY <2>1, SigningHolds
  <2>3. account[a].active /\ ~Updating(r, a)
    BY <1>3, <2>1, <2>2 DEF ActiveInv, UpdatesApart
  <2> QED
    BY <1>3, <2>1, <2>2, <2>3, AccountFrame
<1> QED
  BY <1>1, <1>2, <1>3, NextSteps

LEMMA PasswordPreserved ==
  ASSUME Inv, PasswordInv, PasswordsApart(Signing), [Next]_vars
  PROVE  PasswordInv'
<1> SUFFICES ASSUME NEW q \in Request, req'[q].pc \in Signing
             PROVE  req'[q].password = account'[req'[q].acct].password
  BY DEF PasswordInv
<1>1. CASE UNCHANGED <<account, req>>
  BY <1>1 DEF PasswordInv
<1>2. ASSUME Steps(q) PROVE req'[q].password = account'[req'[q].acct].password
  BY <1>2, SigningStarts DEF PasswordInv, Checked, GoesOn, At, Signing
<1>3. ASSUME NEW r \in Request, Steps(r), r # q
      PROVE  req'[q].password = account'[req'[q].acct].password
  <2>1. req'[q] = req[q]
    BY <1>3, OthersWait
  <2>2. PICK a \in DOMAIN account : a = req[q].acct
    BY <2>1, SigningHolds
  <2>3. req[q].password = account[a].password /\ ~MaySetPassword(r, a)
    BY <1>3, <2>1, <2>2 DEF PasswordInv, PasswordsApart
  <2> QED
    BY <1>3, <2>1, <2>2, <2>3, AccountFrame
<1> QED
  BY <1>1, <1>2, <1>3, NextSteps

LEMMA TargetPreserved ==
  ASSUME Inv, TargetInv, UpdatesApart({"startImpersonation.write"}), [Next]_vars
  PROVE  TargetInv'
<1> SUFFICES ASSUME NEW q \in Request, req'[q].pc = "startImpersonation.write"
             PROVE  MayBeImpersonated(req[q].acct)'
  BY DEF TargetInv, At
<1>1. CASE UNCHANGED <<account, req>>
  BY <1>1 DEF TargetInv, At, MayBeImpersonated
<1>2. ASSUME Steps(q) PROVE MayBeImpersonated(req[q].acct)'
  BY <1>2, ImpersonationStarts DEF MayBeImpersonated, tables
<1>3. ASSUME NEW r \in Request, Steps(r), r # q PROVE MayBeImpersonated(req[q].acct)'
  <2>1. req'[q] = req[q]
    BY <1>3, OthersWait
  <2>2. MayBeImpersonated(req[q].acct) /\ ~Updating(r, req[q].acct)
    BY <1>3, <2>1 DEF TargetInv, At, UpdatesApart
  <2>3. PICK a \in DOMAIN account : a = req[q].acct
    BY <2>2 DEF MayBeImpersonated
  <2>4. account'[a].role = account[a].role /\ account'[a].active = account[a].active
        /\ (account[a].password # Null => account'[a].password # Null)
        /\ a \in DOMAIN account'
    BY <1>3, <2>2, <2>3, AccountFrame
  <2> QED
    BY <2>1, <2>2, <2>3, <2>4 DEF MayBeImpersonated
<1> QED
  BY <1>1, <1>2, <1>3, NextSteps

(***************************************************************************)
(* What follows.                                                           *)
(***************************************************************************)
\* handleLogin, "An inactive account is refused a new session", and so is one that
\* redeems a link: as long as no administrator is about to change the account that
\* is signing in.
THEOREM InactiveAreRefused == Spec /\ []UpdatesApart(Signing) => InactiveGetNoSession
<1> DEFINE Refused ==
      \A s \in DOMAIN session' \ DOMAIN session : account[session'[s].account].active
<1>1. ASSUME Inv, ActiveInv, [Next]_vars PROVE [Refused]_session
  <2>1. ASSUME NEW r \in Request, Steps(r) PROVE Refused
    BY <1>1, <2>1, NewSession DEF ActiveInv, Signing
  <2>2. SessionsOnlyGo => Refused
    BY DEF SessionsOnlyGo
  <2> QED
    BY <1>1, <2>1, <2>2, NextSteps
<1> QED
  BY <1>1, InvHolds, SerialInit, ActivePreserved, PTL DEF Spec, InactiveGetNoSession

\* handleChangePassword, "a session created with the old credential does not outlive
\* it": none starts with a password that the account no longer has, as long as no
\* other request may set the password of the account that is signing in.
THEOREM SessionsStartCurrent ==
  Spec /\ []PasswordsApart(Signing) => SessionsStartWithTheCurrentPassword
<1> DEFINE Current == \A s \in DOMAIN session' \ DOMAIN session :
      session'[s].with = account[session'[s].account].password
<1>1. ASSUME Inv, PasswordInv, [Next]_vars PROVE [Current]_session
  <2>1. ASSUME NEW r \in Request, Steps(r) PROVE Current
    BY <1>1, <2>1, NewSession DEF PasswordInv, Signing
  <2>2. SessionsOnlyGo => Current
    BY DEF SessionsOnlyGo
  <2> QED
    BY <1>1, <2>1, <2>2, NextSteps
<1> QED
  BY <1>1, InvHolds, SerialInit, PasswordPreserved, PTL
     DEF Spec, SessionsStartWithTheCurrentPassword

\* README, "An administrator may act as an active, activated user account": what a
\* session starts to act as is one, as long as no administrator is about to change
\* the account that another is about to act as.
THEOREM TargetsAreUsers ==
  Spec /\ []UpdatesApart({"startImpersonation.write"}) => ImpersonationStartsAtAUser
<1> DEFINE Proper == \A s \in DOMAIN session \cap DOMAIN session' :
      session'[s].as \notin {Null, session[s].as} => MayBeImpersonated(session'[s].as)
<1>1. ASSUME Inv, TargetInv, [Next]_vars PROVE [Proper]_session
  <2>1. ASSUME NEW r \in Request, Steps(r) PROVE Proper
    BY <1>1, <2>1, NewTarget DEF TargetInv
  <2>2. SessionsOnlyGo => Proper
    BY DEF SessionsOnlyGo
  <2> QED
    BY <1>1, <2>1, <2>2, NextSteps
<1> QED
  BY <1>1, InvHolds, SerialInit, TargetPreserved, PTL DEF Spec, ImpersonationStartsAtAUser
================================================================================
