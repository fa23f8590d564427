----------------------------- MODULE SessionsProofs ----------------------------
(***************************************************************************)
(* What holds of sessions and activation links for any number of accounts, *)
(* sessions, links and requests in flight, and for any lifetimes that      *)
(* Config.Validate accepts.  As in RosterProofs, a step of a request       *)
(* either leaves the tables alone or is one of SessionStore's              *)
(* transactions (ServiceStep), so that the facts about the tables are      *)
(* proved once about Transaction.                                          *)
(***************************************************************************)
EXTENDS Sessions, TLAPS

\* Any of SessionStore's transactions.  A touch never asks for a deadline past
\* the absolute lifetime; that the handlers respect this is part of ServiceStep.
Transaction ==
  \/ \E s \in SessionId, a \in DOMAIN account, now \in Time, p \in Password :
       CreateSession(s, a, now, p)
  \/ \E s \in SessionId \cup {Null}, now \in Nat, expires \in Nat :
       /\ s \in DOMAIN session => expires <= session[s].created + TTL
       /\ TouchSession(s, now, expires)
  \/ \E s \in SessionId \cup {Null}, a \in Account \cup {Null} : SetImpersonation(s, a)
  \/ \E gone : Delete(gone)
  \/ \E a \in Account, role \in {"admin", "user"}, active \in BOOLEAN :
       UpdateAccount(a, role, active)
  \/ \E a \in Account, p \in Password, by \in SessionId \cup {Null} :
       a \in DOMAIN account /\ account[a].password # Null /\ SetPassword(a, p, by)
  \/ \E a \in Account, role \in {"admin", "user"}, active \in BOOLEAN,
        p \in Password \cup {Null}, t \in LinkId, now \in Nat :
       CreateAccount(a, role, active, p, t, now)
  \/ \E a \in Account, t \in LinkId, now \in Nat : IssueActivationLink(a, t, now)
  \/ \E t \in LinkId, p \in Password, now \in Nat : RedeemActivation(t, p, now)

(***************************************************************************)
(* The tables.                                                             *)
(***************************************************************************)
Ids == DOMAIN session \cup ended

\* Foreign keys.
References ==
  /\ \A s \in DOMAIN session : session[s].account \in DOMAIN account
  /\ \A t \in DOMAIN link : link[t].account \in DOMAIN account

\* LinkSetsOnePassword is not inductive alone: a link that may still be redeemed
\* has set none.
OpenLinksUnused ==
  \A t \in DOMAIN link : link[t].uses <= 1 /\ (link[t].open => link[t].uses = 0)

StoreInv == /\ StoreTypeOK /\ References /\ EndedForGood /\ AbsoluteLifetime
            /\ OneOpenLink /\ OpenLinksUnused

\* What a transaction does to the session table: one row is new, rows change but
\* keep their account, start and bound on the deadline, or rows go.
SessionStarts ==
  \E s \in SessionId \ Ids, row \in SessionRow :
    /\ row.account \in DOMAIN account
    /\ row.expires <= row.created + TTL
    /\ session' = WithRow(session, s, row) /\ ended' = ended
SessionsChange ==
  /\ session' \in [DOMAIN session -> SessionRow] /\ ended' = ended
  /\ \A s \in DOMAIN session :
       /\ session'[s].account = session[s].account
       /\ session'[s].created = session[s].created
       /\ \/ session'[s].expires = session[s].expires
          \/ session'[s].expires <= session[s].created + TTL
SessionsEnd ==
  \E gone : /\ session' = WithoutRows(session, gone)
            /\ ended' = ended \cup (DOMAIN session \cap gone)

LEMMA SessionStep ==
  ASSUME StoreTypeOK, Transaction
  PROVE  SessionStarts \/ SessionsChange \/ SessionsEnd
<1> DEFINE Goal == SessionStarts \/ SessionsChange \/ SessionsEnd
<1>1. ASSUME NEW s \in SessionId, NEW a \in DOMAIN account, NEW now \in Time,
             NEW p \in Password, CreateSession(s, a, now, p)
      PROVE  Goal
  <2> DEFINE row == [account |-> a, as |-> Null, created |-> now, seen |-> now,
                     expires |-> now + IdleTTL, with |-> p]
  <2>1. row \in SessionRow /\ row.expires <= row.created + TTL
    BY LifetimeAssumption, StartAssumption DEF StoreTypeOK, SessionRow, Time
  <2>2. s \in SessionId \ Ids /\ session' = WithRow(session, s, row) /\ ended' = ended
    BY <1>1 DEF CreateSession, Ids
  <2> QED
    BY <2>1, <2>2 DEF SessionStarts
<1>2. ASSUME NEW s \in SessionId \cup {Null}, NEW now \in Nat, NEW expires \in Nat,
             s \in DOMAIN session => expires <= session[s].created + TTL,
             TouchSession(s, now, expires)
      PROVE  Goal
  <2> DEFINE new(t) == [session[t] EXCEPT !.seen = now, !.expires = expires]
  <2>1. \A t \in DOMAIN session :
          /\ session[t] \in SessionRow /\ new(t) \in SessionRow
          /\ new(t).account = session[t].account /\ new(t).created = session[t].created
          /\ new(t).expires = expires
    BY DEF StoreTypeOK, SessionRow
  <2>2. session' = [t \in DOMAIN session |-> IF t = s THEN new(t) ELSE session[t]]
        /\ ended' = ended
    BY <1>2 DEF TouchSession
  <2> HIDE DEF new
  <2> QED
    BY <1>2, <2>1, <2>2 DEF SessionsChange
<1>3. ASSUME NEW s \in SessionId \cup {Null}, NEW a \in Account \cup {Null}, SetImpersonation(s, a)
      PROVE  Goal
  <2> DEFINE new(t) == [session[t] EXCEPT !.as = a]
  <2>1. \A t \in DOMAIN session :
          /\ session[t] \in SessionRow /\ new(t) \in SessionRow
          /\ new(t).account = session[t].account /\ new(t).created = session[t].created
          /\ new(t).expires = session[t].expires
    BY DEF StoreTypeOK, SessionRow
  <2>2. session' = [t \in DOMAIN session |-> IF t = s THEN new(t) ELSE session[t]]
        /\ ended' = ended
    BY <1>3 DEF SetImpersonation
  <2> HIDE DEF new
  <2> QED
    BY <2>1, <2>2 DEF SessionsChange
<1>4. ASSUME NEW gone, Delete(gone) PROVE Goal
  BY <1>4 DEF Delete, SessionsEnd
<1>5. ASSUME NEW a \in Account, NEW p \in Password, NEW by \in SessionId \cup {Null},
             SetPassword(a, p, by)
      PROVE  Goal
  <2> DEFINE new(t) == [session[t] EXCEPT !.with = p]
  <2>1. \A t \in DOMAIN session :
          /\ session[t] \in SessionRow /\ new(t) \in SessionRow
          /\ new(t).account = session[t].account /\ new(t).created = session[t].created
          /\ new(t).expires = session[t].expires
    BY DEF StoreTypeOK, SessionRow
  <2>2. session' = [t \in DOMAIN session |-> IF t = by THEN new(t) ELSE session[t]]
        /\ ended' = ended
    BY <1>5 DEF SetPassword
  <2> HIDE DEF new
  <2> QED
    BY <2>1, <2>2 DEF SessionsChange
<1>6. ASSUME UNCHANGED <<session, ended>> PROVE Goal
  BY <1>6 DEF SessionsChange, StoreTypeOK
<1> QED
  BY <1>1, <1>2, <1>3, <1>4, <1>5, <1>6
     DEF Transaction, UpdateAccount, CreateAccount, IssueActivationLink, RedeemActivation

\* What it does to the links: one is issued and the account's others are closed,
\* one is redeemed, or none changes.
Closed(a) == [u \in DOMAIN link |->
  IF link[u].account = a THEN [link[u] EXCEPT !.open = FALSE] ELSE link[u]]
LinkIssued ==
  \E t \in LinkId \ DOMAIN link, row \in LinkRow :
    /\ row.account \in DOMAIN account' /\ row.uses = 0
    /\ link' = WithRow(Closed(row.account), t, row)
LinkRedeemed ==
  \E t \in DOMAIN link :
    /\ link[t].open
    /\ link' = [link EXCEPT ![t].open = FALSE, ![t].uses = link[t].uses + 1]

LEMMA LinkStep ==
  ASSUME StoreTypeOK, References, Transaction
  PROVE  LinkIssued \/ LinkRedeemed \/ UNCHANGED link
<1> DEFINE Goal == LinkIssued \/ LinkRedeemed \/ UNCHANGED link
<1>1. ASSUME NEW a \in Account, NEW now \in Nat
      PROVE  NewLink(a, now) \in LinkRow /\ NewLink(a, now).account = a
             /\ NewLink(a, now).uses = 0
  BY LifetimeAssumption DEF NewLink, LinkRow
<1>2. ASSUME NEW a \in Account, NEW role \in {"admin", "user"}, NEW active \in BOOLEAN,
             NEW p \in Password \cup {Null}, NEW t \in LinkId, NEW now \in Nat,
             CreateAccount(a, role, active, p, t, now)
      PROVE  Goal
  <2>1. CASE p = Null
    <3>1. a \in DOMAIN account' /\ t \in LinkId \ DOMAIN link
          /\ link' = WithRow(link, t, NewLink(a, now))
      BY <1>2, <2>1 DEF CreateAccount, WithRow
    <3>2. link = Closed(a)
      BY <1>2 DEF CreateAccount, References, StoreTypeOK, Closed
    <3> QED
      BY <1>1, <3>1, <3>2 DEF LinkIssued
  <2>2. CASE p # Null
    BY <1>2, <2>2 DEF CreateAccount
  <2> QED
    BY <2>1, <2>2
<1>3. ASSUME NEW a \in Account, NEW t \in LinkId, NEW now \in Nat,
             IssueActivationLink(a, t, now)
      PROVE  Goal
  <2>1. a \in DOMAIN account' /\ t \in LinkId \ DOMAIN link
        /\ link' = WithRow(Closed(a), t, NewLink(a, now))
    BY <1>3 DEF IssueActivationLink, Closed
  <2> QED
    BY <1>1, <2>1 DEF LinkIssued
<1>4. ASSUME NEW t \in LinkId, NEW p \in Password, NEW now \in Nat,
             RedeemActivation(t, p, now)
      PROVE  Goal
  BY <1>4 DEF RedeemActivation, LinkRedeemed
<1> QED
  BY <1>2, <1>3, <1>4 DEF Transaction, CreateSession, TouchSession, SetImpersonation,
     Delete, UpdateAccount, SetPassword

\* What it does to the accounts: none ever goes, none loses its password, and an
\* inactive one without a password gets none.
AccountsStay ==
  /\ DOMAIN account \subseteq DOMAIN account' /\ DOMAIN account' \subseteq Account
  /\ account' \in [DOMAIN account' -> AccountRow]
  /\ \A a \in DOMAIN account :
       /\ account[a].password # Null => account'[a].password # Null
       /\ account[a].password = Null /\ ~account[a].active => account'[a].password = Null

LEMMA AccountStep ==
  ASSUME StoreTypeOK, Transaction, References
  PROVE  AccountsStay
<1> USE DEF StoreTypeOK
<1>0. Null \notin Password
  BY NullAssumption
<1>1. ASSUME NEW a \in DOMAIN account, NEW role \in {"admin", "user"},
             NEW active \in BOOLEAN, UpdateAccount(a, role, active)
      PROVE  AccountsStay
  <2> DEFINE new == [account[a] EXCEPT !.role = role, !.active = active]
  <2>1. account' = [account EXCEPT ![a] = new]
    BY <1>1 DEF UpdateAccount
  <2>2. account[a] \in AccountRow /\ new \in AccountRow /\ new.password = account[a].password
    BY DEF AccountRow
  <2> HIDE DEF new
  <2> QED
    BY <2>1, <2>2 DEF AccountsStay
\* Only an account that is active or has a password gets one.
<1>2. ASSUME NEW a \in DOMAIN account, NEW p \in Password,
             account[a].password # Null \/ account[a].active,
             account' = [account EXCEPT ![a].password = p]
      PROVE  AccountsStay
  <2> DEFINE new == [account[a] EXCEPT !.password = p]
  <2>1. account' = [account EXCEPT ![a] = new]
    BY <1>2
  <2>2. account[a] \in AccountRow /\ new \in AccountRow /\ new.password = p
    BY DEF AccountRow
  <2> HIDE DEF new
  <2> QED
    BY <1>0, <1>2, <2>1, <2>2 DEF AccountsStay
<1>3. ASSUME NEW a \in Account, NEW role \in {"admin", "user"}, NEW active \in BOOLEAN,
             NEW p \in Password \cup {Null}, NEW t \in LinkId, NEW now \in Nat,
             CreateAccount(a, role, active, p, t, now)
      PROVE  AccountsStay
  <2>1. [role |-> role, active |-> active, password |-> p] \in AccountRow
    BY DEF AccountRow
  <2> QED
    BY <1>3, <2>1 DEF CreateAccount, WithRow, AccountsStay
<1>4. ASSUME NEW t \in LinkId, NEW p \in Password, NEW now \in Nat,
             RedeemActivation(t, p, now)
      PROVE  AccountsStay
  <2>1. link[t].account \in DOMAIN account
    BY <1>4 DEF RedeemActivation, References
  <2>2. /\ account' = [account EXCEPT ![link[t].account].password = p]
        /\ account[link[t].account].active
    BY <1>4 DEF RedeemActivation
  <2> QED
    BY <1>2, <2>1, <2>2
<1>5. ASSUME UNCHANGED account PROVE AccountsStay
  BY <1>5 DEF AccountsStay
<1> QED
  BY <1>1, <1>2, <1>3, <1>4, <1>5 DEF Transaction, CreateSession, TouchSession,
     SetImpersonation, Delete, IssueActivationLink, UpdateAccount, SetPassword

\* What a request may rely on between two of its calls: accounts stay, an id that
\* was given to a session is never given to another, and no session's start moves.
Kept ==
  /\ DOMAIN account \subseteq DOMAIN account'
  /\ \A a \in DOMAIN account :
       account[a].password # Null => account'[a].password # Null
  /\ Ids \subseteq Ids'
  /\ Null \notin DOMAIN session'
  /\ \A s \in Ids \cap DOMAIN session' :
       s \in DOMAIN session /\ session'[s].created = session[s].created

LEMMA SessionFacts ==
  ASSUME StoreInv, AccountsStay, SessionStarts \/ SessionsChange \/ SessionsEnd
  PROVE  /\ Kept
         /\ DOMAIN session' \subseteq SessionId /\ ended' \subseteq SessionId
         /\ session' \in [DOMAIN session' -> SessionRow]
         /\ EndedForGood' /\ AbsoluteLifetime'
         /\ \A s \in DOMAIN session' : session'[s].account \in DOMAIN account'
<1> DEFINE Goal ==
      /\ Kept
      /\ DOMAIN session' \subseteq SessionId /\ ended' \subseteq SessionId
      /\ session' \in [DOMAIN session' -> SessionRow]
      /\ EndedForGood' /\ AbsoluteLifetime'
      /\ \A s \in DOMAIN session' : session'[s].account \in DOMAIN account'
<1>1. /\ DOMAIN session \subseteq SessionId /\ ended \subseteq SessionId
      /\ session \in [DOMAIN session -> SessionRow]
      /\ ended \cap DOMAIN session = {} /\ Null \notin SessionId
      /\ \A s \in DOMAIN session : /\ session[s].expires <= session[s].created + TTL
                                   /\ session[s].account \in DOMAIN account
      /\ DOMAIN account \subseteq DOMAIN account'
      /\ \A a \in DOMAIN account :
           account[a].password # Null => account'[a].password # Null
  BY NullAssumption
     DEF StoreInv, StoreTypeOK, References, EndedForGood, AbsoluteLifetime, AccountsStay
<1> USE <1>1 DEF Ids, Kept, EndedForGood, AbsoluteLifetime
<1>2. CASE SessionStarts
  <2>1. PICK s \in SessionId \ Ids, row \in SessionRow :
          /\ row.account \in DOMAIN account /\ row.expires <= row.created + TTL
          /\ session' = WithRow(session, s, row) /\ ended' = ended
    BY <1>2 DEF SessionStarts
  <2>2. /\ DOMAIN session' = DOMAIN session \cup {s} /\ session'[s] = row
        /\ session' \in [DOMAIN session' -> SessionRow]
        /\ \A u \in DOMAIN session : session'[u] = session[u]
    BY <2>1 DEF WithRow
  <2> QED
    BY <2>1, <2>2
<1>3. CASE SessionsChange
  <2>1. /\ DOMAIN session' = DOMAIN session /\ ended' = ended
        /\ session' \in [DOMAIN session' -> SessionRow]
        /\ \A s \in DOMAIN session :
             /\ session'[s].account = session[s].account
             /\ session'[s].created = session[s].created
             /\ \/ session'[s].expires = session[s].expires
                \/ session'[s].expires <= session[s].created + TTL
    BY <1>3 DEF SessionsChange
  <2> QED
    BY <2>1
<1>4. CASE SessionsEnd
  <2>1. PICK gone : /\ session' = WithoutRows(session, gone)
                    /\ ended' = ended \cup (DOMAIN session \cap gone)
    BY <1>4 DEF SessionsEnd
  <2>2. /\ DOMAIN session' = DOMAIN session \ gone
        /\ session' \in [DOMAIN session' -> SessionRow]
        /\ \A s \in DOMAIN session' : session'[s] = session[s]
    BY <2>1 DEF WithoutRows
  <2> QED
    BY <2>1, <2>2
<1> QED
  BY <1>2, <1>3, <1>4

LEMMA LinkFacts ==
  ASSUME StoreInv, AccountsStay, LinkIssued \/ LinkRedeemed \/ UNCHANGED link
  PROVE  /\ DOMAIN link' \subseteq LinkId /\ link' \in [DOMAIN link' -> LinkRow]
         /\ OneOpenLink' /\ OpenLinksUnused'
         /\ \A t \in DOMAIN link' : link'[t].account \in DOMAIN account'
<1> DEFINE Goal ==
      /\ DOMAIN link' \subseteq LinkId /\ link' \in [DOMAIN link' -> LinkRow]
      /\ OneOpenLink' /\ OpenLinksUnused'
      /\ \A t \in DOMAIN link' : link'[t].account \in DOMAIN account'
<1>1. /\ DOMAIN link \subseteq LinkId /\ link \in [DOMAIN link -> LinkRow]
      /\ \A t \in DOMAIN link : link[t].account \in DOMAIN account
      /\ DOMAIN account \subseteq DOMAIN account'
  BY DEF StoreInv, StoreTypeOK, References, AccountsStay
<1>2. OneOpenLink /\ OpenLinksUnused
  BY DEF StoreInv
<1> USE <1>1, <1>2 DEF OneOpenLink, OpenLinksUnused
<1> DEFINE shut(u) == [link[u] EXCEPT !.open = FALSE]
<1>3. \A u \in DOMAIN link :
        /\ shut(u) \in LinkRow /\ ~shut(u).open
        /\ shut(u).account = link[u].account /\ shut(u).uses = link[u].uses
  BY DEF LinkRow
<1>4. CASE LinkIssued
  <2>1. PICK t \in LinkId \ DOMAIN link, row \in LinkRow :
          /\ row.account \in DOMAIN account' /\ row.uses = 0
          /\ link' = WithRow(Closed(row.account), t, row)
    BY <1>4 DEF LinkIssued
  <2> DEFINE closed == Closed(row.account)
  <2>2. closed = [u \in DOMAIN link |->
                   IF link[u].account = row.account THEN shut(u) ELSE link[u]]
    BY DEF Closed
  <2> HIDE DEF shut, closed
  <2>3. /\ DOMAIN closed = DOMAIN link /\ closed \in [DOMAIN link -> LinkRow]
        /\ \A u \in DOMAIN link :
             /\ closed[u].account = link[u].account /\ closed[u].uses = link[u].uses
             /\ closed[u].open => link[u].open /\ link[u].account # row.account
    BY <1>3, <2>2
  <2>4. /\ DOMAIN link' = DOMAIN link \cup {t} /\ link'[t] = row
        /\ link' \in [DOMAIN link' -> LinkRow]
        /\ \A u \in DOMAIN link : link'[u] = closed[u]
    <3>1. link' = WithRow(closed, t, row) /\ t \in LinkId /\ t \notin DOMAIN link
      BY <2>1 DEF closed
    <3> QED
      BY <2>3, <3>1 DEF WithRow
  <2> QED
    BY <2>1, <2>3, <2>4
<1>5. CASE LinkRedeemed
  <2>1. PICK t \in DOMAIN link :
          /\ link[t].open
          /\ link' = [link EXCEPT ![t].open = FALSE, ![t].uses = link[t].uses + 1]
    BY <1>5 DEF LinkRedeemed
  <2>2. /\ DOMAIN link' = DOMAIN link /\ link' \in [DOMAIN link' -> LinkRow]
        /\ \A u \in DOMAIN link \ {t} : link'[u] = link[u]
        /\ link'[t].account = link[t].account /\ link'[t].uses = link[t].uses + 1
        /\ ~link'[t].open
    <3>1. PICK n \in Nat : n = link[t].uses + 1
      BY <2>1 DEF LinkRow
    <3> DEFINE used == [link[t] EXCEPT !.open = FALSE, !.uses = n]
    <3>2. link' = [link EXCEPT ![t] = used]
      BY <2>1, <3>1
    <3>3. used \in LinkRow /\ used.account = link[t].account
          /\ used.uses = n /\ ~used.open
      BY <2>1 DEF LinkRow
    <3> HIDE DEF used
    <3> QED
      BY <2>1, <3>1, <3>2, <3>3
  <2> QED
    BY <2>1, <2>2
<1>6. CASE UNCHANGED link
  BY <1>6
<1> QED
  BY <1>4, <1>5, <1>6

\* What StoreInv says survives every transaction.
LEMMA StoreStep ==
  ASSUME StoreInv, Transaction \/ UNCHANGED tables
  PROVE  StoreInv' /\ Kept
<1>1. CASE Transaction
  <2>1. AccountsStay
    BY <1>1, AccountStep DEF StoreInv
  <2>2. SessionStarts \/ SessionsChange \/ SessionsEnd
    BY <1>1, SessionStep DEF StoreInv
  <2>3. LinkIssued \/ LinkRedeemed \/ UNCHANGED link
    BY <1>1, LinkStep DEF StoreInv
  <2> QED
    BY <2>1, <2>2, <2>3, SessionFacts, LinkFacts
       DEF StoreInv, StoreTypeOK, References, AccountsStay
<1>2. CASE UNCHANGED tables
  BY <1>2, NullAssumption
     DEF StoreInv, StoreTypeOK, References, EndedForGood, AbsoluteLifetime, OneOpenLink,
         OpenLinksUnused, Kept, Ids, tables
<1> QED
  BY <1>1, <1>2

(***************************************************************************)
(* The inductive invariant: the tables, and what the copies that requests  *)
(* keep still say of them.  A session id that a request holds was given to *)
(* a session; the copy tells the start of that session while there is one; *)
(* and an account that is about to get a session exists.                   *)
(***************************************************************************)
SignedIn(row, accounts, rows) ==
  /\ row.by # Null /\ row.sess \in SessionRow /\ row.sess.account \in DOMAIN accounts
  /\ row.by \in DOMAIN rows => rows[row.by].created = row.sess.created
Activated(row, accounts) ==
  row.actor.password # Null => accounts[row.sess.account].password # Null
Sound(row, accounts, rows, gone) ==
  /\ row.by # Null => row.by \in DOMAIN rows \cup gone
  /\ row.pc = "session" => row.sess = Null
  /\ row.pc \in {"actor", "touch"} \/ row.sess # Null => SignedIn(row, accounts, rows)
  /\ row.pc = "touch" \/ (row.pc = "handler" /\ row.sess # Null) => Activated(row, accounts)
  /\ row.pc \in {"login.supersede", "login.create", "redeem.create"} =>
       row.acct \in DOMAIN accounts /\ row.password \in Password
  /\ row.pc = "login.create" => row.by \notin DOMAIN rows

SoundNow(row) == row \in RequestRow /\ Sound(row, account, session, ended)

\* The sweeper compares with a time that has passed.
Inv == /\ TypeOK /\ StoreInv
       /\ \A r \in Request : SoundNow(req[r])
       /\ sweep # Null => sweep <= clock

\* Kept says enough for every request that does not move.
LEMMA SoundStays ==
  ASSUME StoreInv, Kept, NEW row, SoundNow(row)
  PROVE  SoundNow(row)'
<1>1. Null \notin SessionId
  BY NullAssumption
<1> QED
  BY <1>1 DEF SoundNow, Sound, SignedIn, Activated, Kept, Ids

\* The row that a step gives its request fits the tables before the step, and so,
\* by SoundStays, those after it.
Moves(r) == \E row : Become(r, row) /\ SoundNow(row)

LEMMA IdleIsSound == SoundNow(Idle)
<1>1. 0 \in Time
  BY StartAssumption DEF Time
<1> QED
  BY <1>1 DEF SoundNow, Sound, Idle, RequestRow, PC, Private

LEMMA HoldIsTyped ==
  ASSUME NEW r \in Request, req[r] \in RequestRow, NEW pc \in PC, NEW a \in Account
  PROVE  Hold(r, pc, a) \in RequestRow
BY IdleIsSound DEF SoundNow, Hold, RequestRow

LEMMA SigningIsTyped ==
  ASSUME NEW row \in RequestRow, NEW now \in Time, NEW p \in Password
  PROVE  [row EXCEPT !.now = now, !.password = p] \in RequestRow
BY DEF RequestRow

LEMMA UpdateIsTyped ==
  ASSUME NEW row \in RequestRow, NEW role \in {"keep", "admin", "user"},
         NEW set \in {"keep", "on", "off"}
  PROVE  [row EXCEPT !.role = role, !.set = set] \in RequestRow
BY DEF RequestRow

LEMMA HoldIsSound ==
  ASSUME Inv, NEW r \in Request, NEW a \in Account,
         NEW pc \in {"startImpersonation.write", "changePassword.revoke",
                     "updateAccount.write", "reissue.write", "revokeSessions.write"}
  PROVE  SoundNow(Hold(r, pc, a))
<1>1. SoundNow(req[r]) /\ pc \in PC
  BY DEF Inv, PC
<1>2. Hold(r, pc, a) \in RequestRow
  BY <1>1, HoldIsTyped DEF SoundNow
<1>3. Sound(Hold(r, pc, a), account, session, ended)
  BY <1>1 DEF SoundNow, Sound, Hold, Idle
<1> QED
  BY <1>2, <1>3 DEF SoundNow

\* A login or a redemption holds the account, the time and the password for the
\* session that it is about to create.
LEMMA SigningIsSound ==
  ASSUME Inv, NEW r \in Request, NEW a \in DOMAIN account, NEW now \in Recent(r),
         NEW p \in Password,
         NEW pc \in {"login.supersede", "login.create", "redeem.create"},
         pc = "login.create" => req[r].by = Null
  PROVE  SoundNow([Hold(r, pc, a) EXCEPT !.now = now, !.password = p])
<1> DEFINE row == [Hold(r, pc, a) EXCEPT !.now = now, !.password = p]
<1>1. /\ SoundNow(req[r]) /\ pc \in PC /\ a \in Account
      /\ Null \notin DOMAIN session
  BY NullAssumption DEF Inv, PC, TypeOK, StoreTypeOK
<1>2. now \in Time
  BY <1>1, StartAssumption DEF Recent, Time, Inv, TypeOK, SoundNow, RequestRow
<1>3. row \in RequestRow
  BY <1>1, <1>2, HoldIsTyped, SigningIsTyped DEF SoundNow
<1>4. Sound(row, account, session, ended)
  BY <1>1 DEF SoundNow, Sound, Hold, Idle
<1> QED
  BY <1>3, <1>4 DEF SoundNow

LEMMA ArrivingIsTyped ==
  ASSUME NEW pc \in PC, NEW handler \in Public \cup Private \cup Administrative,
         NEW s \in SessionId \cup {Null}, NEW now \in Time
  PROVE  [Idle EXCEPT !.pc = pc, !.handler = handler, !.by = s, !.now = now] \in RequestRow
BY IdleIsSound DEF SoundNow, RequestRow

LEMMA ReadStep ==
  ASSUME Inv, NEW r \in Request,
         \/ \E handler \in Handler, s \in DOMAIN session \cup ended \cup {Null} :
              Arrive(r, handler, s)
         \/ LoadSession(r) \/ LoadActor(r) \/ Return(r)
         \/ LoginRead(r) \/ StartImpersonationRead(r) \/ UpdateAccountRead(r)
         \/ ReissueRead(r) \/ RevokeSessionsRead(r)
  PROVE  Reading /\ Moves(r)
<1> DEFINE old == req[r]
<1>0. Reading
  BY DEF Arrive, LoadSession, LoadActor, Return, LoginRead, StartImpersonationRead,
         UpdateAccountRead, ReissueRead, RevokeSessionsRead
<1>1. /\ SoundNow(old) /\ old \in RequestRow
      /\ Sound(old, account, session, ended)
      /\ StoreInv /\ StoreTypeOK /\ clock \in Time
  BY DEF Inv, SoundNow, TypeOK
<1>2. /\ DOMAIN session \cup ended \subseteq SessionId /\ Null \notin SessionId
      /\ DOMAIN account \subseteq Account
      /\ \A s \in DOMAIN session : session[s] \in SessionRow
      /\ \A a \in DOMAIN account : account[a] \in AccountRow
  BY <1>1, NullAssumption DEF StoreTypeOK
<1>3. {"session", "actor", "touch", "handler", "updateAccount.write"} \subseteq PC
  BY DEF PC
<1>4. ASSUME NEW handler \in Handler, NEW s \in DOMAIN session \cup ended \cup {Null},
             Arrive(r, handler, s)
      PROVE  Moves(r)
  <2> DEFINE new(pc) == [Idle EXCEPT !.pc = pc, !.handler = handler, !.by = s, !.now = clock]
  <2>1. PICK pc \in {"handler", "session"} : Become(r, new(pc))
    BY <1>4 DEF Arrive
  <2>2. new(pc) \in RequestRow
    BY <1>1, <1>2, <1>3, HandlerAssumption, ArrivingIsTyped
  <2>3. Sound(new(pc), account, session, ended)
    BY DEF Sound, Idle
  <2> QED
    BY <2>1, <2>2, <2>3 DEF Moves, SoundNow
<1>5. ASSUME LoadSession(r) PROVE Moves(r)
  <2> DEFINE loaded(row) == [old EXCEPT !.pc = "actor", !.sess = row]
             public == [old EXCEPT !.pc = "handler", !.by = Null]
  <2>1. ASSUME Live(old.by, old.now), Become(r, loaded(session[old.by])) PROVE Moves(r)
    <3>1. old.by \in DOMAIN session /\ session[old.by].account \in DOMAIN account
          /\ session[old.by] \in SessionRow
      BY <1>1, <1>2, <2>1 DEF Live, StoreInv, References
    <3>2. PICK row \in SessionRow : row = session[old.by]
      BY <3>1
    <3>3. loaded(row) \in RequestRow
      BY <1>1, <1>3 DEF RequestRow
    <3>4. Sound(loaded(row), account, session, ended)
      BY <1>1, <1>2, <3>1, <3>2 DEF Sound, SignedIn, RequestRow
    <3> QED
      BY <2>1, <3>2, <3>3, <3>4 DEF Moves, SoundNow
  <2>2. ASSUME Become(r, public) PROVE Moves(r)
    <3>1. public \in RequestRow
      BY <1>1, <1>3 DEF RequestRow
    <3>2. Sound(public, account, session, ended)
      BY <1>1, <1>5 DEF LoadSession, At, Sound, RequestRow
    <3> QED
      BY <2>2, <3>1, <3>2 DEF Moves, SoundNow
  <2> QED
    BY <1>5, <2>1, <2>2 DEF LoadSession
<1>6. ASSUME LoadActor(r) PROVE Moves(r)
  <2> DEFINE loaded(pc, row) == [old EXCEPT !.actor = row, !.pc = pc]
  <2>1. PICK pc \in {"touch", "handler"} :
          Become(r, loaded(pc, account[old.sess.account]))
    BY <1>6 DEF LoadActor
  <2>2. old.sess.account \in DOMAIN account /\ SignedIn(old, account, session)
    BY <1>1, <1>6 DEF LoadActor, At, Sound, SignedIn
  <2>3. PICK row \in AccountRow : row = account[old.sess.account]
    BY <1>2, <2>2
  <2>4. loaded(pc, row) \in RequestRow
    BY <1>1, <1>3 DEF RequestRow
  <2>5. Sound(loaded(pc, row), account, session, ended)
    BY <1>1, <2>2, <2>3 DEF Sound, SignedIn, Activated, RequestRow
  <2> QED
    BY <2>1, <2>3, <2>4, <2>5 DEF Moves, SoundNow
<1>7. ASSUME Return(r) PROVE Moves(r)
  BY <1>7, IdleIsSound DEF Return, Answer, Moves
<1>8. ASSUME LoginRead(r) PROVE Moves(r)
  <2>1. PICK a \in DOMAIN account, now \in Recent(r) :
          /\ account[a].password # Null
          /\ Become(r, [Hold(r, IF old.by = Null THEN "login.create" ELSE "login.supersede", a)
                        EXCEPT !.now = now, !.password = account[a].password])
    BY <1>8 DEF LoginRead
  <2>2. PICK pc \in {"login.supersede", "login.create", "redeem.create"} :
          /\ pc = IF old.by = Null THEN "login.create" ELSE "login.supersede"
          /\ pc = "login.create" => old.by = Null
    OBVIOUS
  <2>3. account[a].password \in Password
    BY <1>2, <2>1 DEF AccountRow
  <2>4. SoundNow([Hold(r, pc, a) EXCEPT !.now = now, !.password = account[a].password])
    BY <2>2, <2>3, SigningIsSound
  <2> QED
    BY <2>1, <2>2, <2>4 DEF Moves
<1>9. ASSUME NEW pc \in {"startImpersonation.write", "reissue.write",
                         "revokeSessions.write"},
             NEW a \in DOMAIN account, Become(r, Hold(r, pc, a))
      PROVE  Moves(r)
  BY <1>2, <1>9, HoldIsSound DEF Moves
<1>10. ASSUME UpdateAccountRead(r) PROVE Moves(r)
  <2> DEFINE held(a) == Hold(r, "updateAccount.write", a)
             new(a, role, set) == [held(a) EXCEPT !.role = role, !.set = set]
  <2>1. PICK a \in DOMAIN account, role \in {"keep", "admin", "user"},
             set \in {"keep", "on", "off"} : Become(r, new(a, role, set))
    BY <1>10 DEF UpdateAccountRead
  <2>2. SoundNow(held(a))
    BY <1>2, HoldIsSound
  <2> HIDE DEF held
  <2>3. new(a, role, set) \in RequestRow
    BY <2>1, <2>2, UpdateIsTyped DEF SoundNow
  <2>4. Sound(new(a, role, set), account, session, ended)
    BY <2>2 DEF SoundNow, Sound, SignedIn, Activated, RequestRow
  <2> QED
    BY <2>1, <2>3, <2>4 DEF Moves, SoundNow
<1> QED
  BY <1>0, <1>4, <1>5, <1>6, <1>7, <1>8, <1>9, <1>10
     DEF StartImpersonationRead, ReissueRead, RevokeSessionsRead

LEMMA DeadlineIsBounded ==
  ASSUME NEW row \in SessionRow, NEW now \in Nat
  PROVE  Deadline(row, now) \in Nat /\ Deadline(row, now) <= row.created + TTL
BY LifetimeAssumption DEF Deadline, SessionRow

\* The steps that write, but for LoginSupersede, whose request fits the tables
\* only after the step.
LEMMA WriteStep ==
  ASSUME Inv, NEW r \in Request,
         \/ Touch(r) \/ LoginCreate(r) \/ Logout(r)
         \/ StartImpersonationWrite(r) \/ StopImpersonation(r)
         \/ ChangePasswordSet(r) \/ ChangePasswordRevoke(r)
         \/ RedeemLink(r) \/ RedeemCreate(r)
         \/ CreateAccountWrite(r) \/ UpdateAccountWrite(r)
         \/ ReissueWrite(r) \/ RevokeSessionsWrite(r)
  PROVE  (Transaction \/ UNCHANGED tables) /\ Writing /\ Moves(r)
<1> DEFINE old == req[r]
           Goal == (Transaction \/ UNCHANGED tables) /\ Moves(r)
<1>0. Writing
  BY DEF Touch, LoginCreate, Logout, StartImpersonationWrite, StopImpersonation,
         ChangePasswordSet, ChangePasswordRevoke, RedeemLink, RedeemCreate,
         CreateAccountWrite, UpdateAccountWrite, ReissueWrite, RevokeSessionsWrite
<1>1. /\ SoundNow(old) /\ old \in RequestRow
      /\ Sound(old, account, session, ended)
      /\ StoreInv /\ StoreTypeOK /\ References /\ clock \in Time
  BY DEF Inv, SoundNow, TypeOK, StoreInv
<1>2. old.now \in Nat /\ \A now \in Recent(r) : now \in Nat
  BY <1>1, StartAssumption DEF RequestRow, Time, Recent
<1>3. Answer(r) => Moves(r)
  BY IdleIsSound DEF Answer, Moves
<1>4. ASSUME NEW gone, Delete(gone), Answer(r) PROVE Goal
  BY <1>3, <1>4 DEF Transaction
<1>5. ASSUME Touch(r) PROVE Goal
  <2> DEFINE new == [old EXCEPT !.pc = "handler"]
             expires == Deadline(old.sess, old.now)
  <2>1. SignedIn(old, account, session)
    BY <1>1, <1>5 DEF Touch, At, Sound
  <2>2. expires \in Nat /\ (old.by \in DOMAIN session => expires <= session[old.by].created + TTL)
    BY <1>2, <2>1, DeadlineIsBounded DEF SignedIn
  <2>3. TouchSession(old.by, old.now, expires) \/ UNCHANGED tables
    BY <1>5 DEF Touch
  <2> HIDE DEF expires
  <2>4. Transaction \/ UNCHANGED tables
    BY <1>1, <1>2, <2>2, <2>3 DEF Transaction, RequestRow
  <2>5. new \in RequestRow
    BY <1>1 DEF RequestRow, PC
  <2>6. Sound(new, account, session, ended)
    BY <1>1, <1>5, <2>1 DEF Touch, At, Sound, SignedIn, Activated, RequestRow
  <2> QED
    BY <1>5, <2>4, <2>5, <2>6 DEF Touch, Goto, Moves, SoundNow
<1>6. ASSUME LoginCreate(r) \/ RedeemCreate(r) PROVE Goal
  <2>1. old.acct \in DOMAIN account /\ old.password \in Password
    BY <1>1, <1>6 DEF LoginCreate, RedeemCreate, At, Sound
  <2>2. PICK s \in SessionId : CreateSession(s, old.acct, old.now, old.password)
    BY <1>6 DEF LoginCreate, RedeemCreate
  <2> QED
    BY <1>1, <1>3, <1>6, <2>1, <2>2 DEF LoginCreate, RedeemCreate, Transaction, RequestRow
<1>7. ASSUME StartImpersonationWrite(r) \/ StopImpersonation(r) PROVE Goal
  <2>1. PICK a \in Account \cup {Null} : SetImpersonation(old.by, a)
    BY <1>1, <1>7 DEF StartImpersonationWrite, StopImpersonation, RequestRow
  <2> QED
    BY <1>1, <1>3, <1>7, <2>1 DEF RequestRow, StartImpersonationWrite, StopImpersonation, Transaction
<1>8. ASSUME ChangePasswordSet(r) PROVE Goal
  <2>1. PICK password \in Password : SetPassword(old.sess.account, password, old.by)
    BY <1>8 DEF ChangePasswordSet
  <2>2. old.sess.account \in Account /\ old.sess.account \in DOMAIN account
    BY <1>1, <2>1 DEF SetPassword, StoreTypeOK
  <2>3. account[old.sess.account].password # Null
    BY <1>1, <1>8 DEF ChangePasswordSet, In, At, Public, Sound, Activated
  <2> QED
    BY <1>1, <1>8, <2>1, <2>2, <2>3, HoldIsSound
       DEF RequestRow, ChangePasswordSet, Moves, Transaction
<1>9. ASSUME RedeemLink(r) PROVE Goal
  <2>1. PICK t \in DOMAIN link, password \in Password, now \in Recent(r) :
          /\ RedeemActivation(t, password, now)
          /\ Become(r, [Hold(r, "redeem.create", link[t].account)
                        EXCEPT !.now = now, !.password = password])
    BY <1>9 DEF RedeemLink
  <2>2. t \in LinkId /\ link[t].account \in DOMAIN account
    BY <1>1 DEF StoreTypeOK, References
  <2>3. SoundNow([Hold(r, "redeem.create", link[t].account)
                  EXCEPT !.now = now, !.password = password])
    BY <2>2, SigningIsSound
  <2>4. Transaction
    BY <1>2, <2>1, <2>2 DEF Transaction
  <2> QED
    BY <2>1, <2>3, <2>4 DEF Moves
<1>10. ASSUME CreateAccountWrite(r) PROVE Goal
  BY <1>2, <1>3, <1>10 DEF CreateAccountWrite, Transaction
<1>11. ASSUME UpdateAccountWrite(r) PROVE Goal
  <2>1. PICK role, active : UpdateAccount(old.acct, role, active)
          /\ role = (IF old.role = "keep" THEN account[old.acct].role ELSE old.role)
          /\ active = (IF old.set = "keep" THEN account[old.acct].active ELSE old.set = "on")
    BY <1>11 DEF UpdateAccountWrite
  <2>2. old.acct \in Account /\ account[old.acct] \in AccountRow
    BY <1>1, <2>1 DEF UpdateAccount, StoreTypeOK
  <2>3. role \in {"admin", "user"} /\ active \in BOOLEAN
    BY <1>1, <2>1, <2>2 DEF AccountRow, RequestRow
  <2> QED
    BY <1>3, <1>11, <2>1, <2>2, <2>3 DEF UpdateAccountWrite, Transaction
<1>12. ASSUME ReissueWrite(r) PROVE Goal
  <2>1. PICK t \in LinkId, now \in Recent(r) : IssueActivationLink(old.acct, t, now)
    BY <1>12 DEF ReissueWrite
  <2>2. old.acct \in Account
    BY <1>1, <2>1 DEF IssueActivationLink, StoreTypeOK
  <2> QED
    BY <1>2, <1>3, <1>12, <2>1, <2>2 DEF ReissueWrite, Transaction
<1>13. ASSUME ChangePasswordRevoke(r) \/ RevokeSessionsWrite(r) \/ Logout(r) PROVE Goal
  BY <1>4, <1>13 DEF ChangePasswordRevoke, RevokeSessionsWrite, Logout, DeleteSession,
       DeleteSessionsForAccount, DeleteOtherSessionsForAccount
<1> QED
  BY <1>0, <1>5, <1>6, <1>7, <1>8, <1>9, <1>10, <1>11, <1>12, <1>13

LEMMA SupersedeStep ==
  ASSUME Inv, NEW r \in Request, LoginSupersede(r)
  PROVE  /\ Transaction /\ Writing
         /\ \E row : Become(r, row) /\ SoundNow(row)'
<1> DEFINE old == req[r]
           new == [old EXCEPT !.pc = "login.create"]
<1>1. SoundNow(old) /\ StoreInv /\ Writing /\ Become(r, new) /\ Delete({old.by})
  BY DEF Inv, LoginSupersede, DeleteSession, Goto
<1>2. Transaction
  BY <1>1 DEF Transaction
<1>3. new \in RequestRow
  BY <1>1 DEF SoundNow, RequestRow, PC
<1>4. Sound(new, account', session', ended')
  <2>1. DOMAIN session' = DOMAIN session \ {old.by} /\ account' = account
        /\ ended' = ended \cup (DOMAIN session \cap {old.by})
    BY <1>1 DEF Delete, WithoutRows
  <2> QED
    BY <1>1, <2>1 DEF LoginSupersede, At, SoundNow, Sound, SignedIn, RequestRow
<1>5. PICK row : row = new
  OBVIOUS
<1>6. SoundNow(row)'
  BY <1>3, <1>4, <1>5 DEF SoundNow
<1> QED
  BY <1>1, <1>2, <1>5, <1>6

\* A step of one request keeps the invariant for all.
LEMMA RequestKeepsInv ==
  ASSUME Inv, Transaction \/ UNCHANGED tables, Writing, NEW r \in Request, NEW row,
         Become(r, row), SoundNow(row)'
  PROVE  Inv'
<1>1. StoreInv' /\ Kept
  BY StoreStep DEF Inv
<1>2. req' = [req EXCEPT ![r] = row] /\ UNCHANGED <<clock, sweep>>
  BY DEF Become, Writing
<1>3. row \in RequestRow
  BY DEF SoundNow
<1>4. TypeOK'
  BY <1>1, <1>2, <1>3 DEF Inv, TypeOK, StoreInv
<1>5. ASSUME NEW q \in Request PROVE SoundNow(req[q])'
  <2>1. SoundNow(req[q]) /\ StoreInv
    BY DEF Inv
  <2>2. SoundNow(req[q]) => /\ req[q] \in RequestRow
                            /\ Sound(req[q], account', session', ended')
    BY <1>1, <2>1, SoundStays DEF SoundNow
  <2>3. Sound(row, account', session', ended')
    BY DEF SoundNow
  <2>4. req'[q] = IF q = r THEN row ELSE req[q]
    BY <1>2 DEF Inv, TypeOK
  <2> QED
    BY <1>3, <2>1, <2>2, <2>3, <2>4 DEF SoundNow
<1> QED
  BY <1>1, <1>2, <1>4, <1>5 DEF Inv

LEMMA InitInv == Init => Inv
<1> SUFFICES ASSUME Init PROVE Inv
  OBVIOUS
<1>1. TypeOK
  <2>1. 0 \in Time /\ Idle \in RequestRow
    BY StartAssumption, IdleIsSound DEF Time, SoundNow
  <2>2. StoreTypeOK
    <3>1. \A a \in Admins \cup Users :
            [role |-> IF a \in Admins THEN "admin" ELSE "user",
             active |-> TRUE, password |-> First] \in AccountRow
      BY StartAssumption DEF AccountRow
    <3> QED
      BY <3>1, StartAssumption DEF Init, StoreTypeOK, NoRows
  <2> QED
    BY <2>1, <2>2 DEF Init, TypeOK
<1>2. StoreInv
  BY <1>1 DEF Init, TypeOK, StoreInv, References, EndedForGood, AbsoluteLifetime,
              OneOpenLink, OpenLinksUnused, NoRows
<1>3. \A r \in Request : SoundNow(req[r])
  BY IdleIsSound DEF Init
<1> QED
  BY <1>1, <1>2, <1>3 DEF Inv, Init

\* Every step of the service leaves the tables alone or is a transaction.
LEMMA RequestStep ==
  ASSUME Inv, NEW r \in Request,
         \/ \E handler \in Handler, s \in DOMAIN session \cup ended \cup {Null} :
              Arrive(r, handler, s)
         \/ Middleware(r) \/ Handle(r)
  PROVE  /\ (Transaction \/ UNCHANGED tables) /\ Writing
         /\ \E row : Become(r, row) /\ SoundNow(row)'
<1>1. (Transaction \/ UNCHANGED tables) => Kept /\ StoreInv
  BY StoreStep DEF Inv
<1>2. Kept /\ StoreInv /\ Moves(r) => \E row : Become(r, row) /\ SoundNow(row)'
  BY SoundStays DEF Moves
<1>3. Reading => UNCHANGED tables /\ Writing
  BY DEF Reading, Writing, tables
<1> QED
  BY <1>1, <1>2, <1>3, ReadStep, WriteStep, SupersedeStep DEF Middleware, Handle

LEMMA ServiceStep == Inv /\ [Next]_vars => Transaction \/ UNCHANGED tables
<1>1. SweepDelete => Transaction \/ UNCHANGED tables
  BY DEF SweepDelete, DeleteExpiredSessions, Transaction
<1> QED
  BY <1>1, RequestStep DEF Next, Tick, SweepTick, vars, tables

LEMMA SweepIsAlone == Inv /\ [Next]_vars => SweepTick \/ SweepDelete \/ UNCHANGED sweep
BY RequestStep DEF Next, Tick, Writing, vars

LEMMA StepInv == Inv /\ [Next]_vars => Inv'
<1> SUFFICES ASSUME Inv, [Next]_vars PROVE Inv'
  OBVIOUS
<1>0. /\ TypeOK /\ StoreInv /\ \A r \in Request : SoundNow(req[r])
      /\ sweep # Null => sweep <= clock
      /\ Transaction \/ UNCHANGED tables
  BY ServiceStep DEF Inv
<1>1. ASSUME UNCHANGED req, clock' \in Time, sweep' \in Time \cup {Null},
             sweep' # Null => sweep' <= clock'
      PROVE  Inv'
  <2>1. StoreInv' /\ Kept
    BY <1>0, StoreStep
  <2>2. TypeOK'
    BY <1>0, <1>1, <2>1 DEF TypeOK, StoreInv
  <2>3. ASSUME NEW q \in Request PROVE SoundNow(req[q])'
    BY <1>0, <1>1, <2>1, SoundStays DEF SoundNow
  <2> QED
    BY <1>1, <2>1, <2>2, <2>3 DEF Inv
<1>2. CASE Tick
  <2>1. clock' \in Time /\ (sweep # Null => sweep <= clock')
    BY <1>0, <1>2, StartAssumption DEF TypeOK, Tick, Time
  <2> QED
    BY <1>0, <1>1, <1>2, <2>1 DEF Tick, TypeOK
<1>3. CASE SweepTick
  BY <1>0, <1>1, <1>3, StartAssumption DEF SweepTick, TypeOK, Time
<1>4. CASE SweepDelete
  BY <1>0, <1>1, <1>4 DEF SweepDelete, TypeOK
<1>5. ASSUME NEW r \in Request,
             \/ \E handler \in Handler, s \in DOMAIN session \cup ended \cup {Null} :
                  Arrive(r, handler, s)
             \/ Middleware(r) \/ Handle(r)
      PROVE  Inv'
  BY <1>5, RequestStep, RequestKeepsInv
<1>6. CASE UNCHANGED vars
  BY <1>0, <1>1, <1>6 DEF vars, TypeOK
<1> QED
  BY <1>2, <1>3, <1>4, <1>5, <1>6 DEF Next

\* The tables and the copies that requests keep of them agree, always.
THEOREM InvHolds == Spec => []Inv
BY InitInv, StepInv, PTL DEF Spec

(***************************************************************************)
(* What follows from it.                                                   *)
(***************************************************************************)
\* The tables and the requests stay well typed.
THEOREM TypeCorrect == Spec => []TypeOK
<1>1. Inv => TypeOK
  BY DEF Inv
<1> QED
  BY <1>1, InvHolds, PTL

\* slideSession: however many requests slide a session's deadline, from however old
\* copies of its row, none carries it past the absolute lifetime.
THEOREM LifetimeIsAbsolute == Spec => []AbsoluteLifetime
<1>1. Inv => AbsoluteLifetime
  BY DEF Inv, StoreInv
<1> QED
  BY <1>1, InvHolds, PTL

\* A session that was logged out, revoked, superseded or swept is never live again.
THEOREM EndedStaysEnded == Spec => []EndedForGood
<1>1. Inv => EndedForGood
  BY DEF Inv, StoreInv
<1> QED
  BY <1>1, InvHolds, PTL

\* handleLogin: the session that a login arrived with is gone, and stays gone, before
\* the new one starts.
THEOREM LoginsSupersede == Spec => []LoginSupersedes
<1>1. Inv => LoginSupersedes
  BY DEF Inv, SoundNow, Sound, At, LoginSupersedes
<1> QED
  BY <1>1, InvHolds, PTL

\* IssueActivationLink: an account has one link that works, or none.
THEOREM OneLinkWorks == Spec => []OneOpenLink
<1>1. Inv => OneOpenLink
  BY DEF Inv, StoreInv
<1> QED
  BY <1>1, InvHolds, PTL

\* RedeemActivation: a link sets one password, however many requests redeem it.
THEOREM LinksWorkOnce == Spec => []LinkSetsOnePassword
<1>1. Inv => LinkSetsOnePassword
  BY DEF Inv, StoreInv, OpenLinksUnused, LinkSetsOnePassword
<1> QED
  BY <1>1, InvHolds, PTL

\* RedeemActivation: "An invitation to an account that has since been deactivated
\* must not produce a usable login": neither does any other request.
THEOREM InactiveAreNotActivated == Spec => InactiveStaysInvited
<1>1. ASSUME Inv, [Next]_vars
      PROVE  [\A a \in DOMAIN account :
                account[a].password = Null /\ ~account[a].active
                  => account'[a].password = Null]_account
  <2>1. Transaction \/ UNCHANGED tables
    BY <1>1, ServiceStep
  <2>2. Transaction => AccountsStay
    BY <1>1, AccountStep DEF Inv, StoreInv
  <2> QED
    BY <2>1, <2>2 DEF tables, AccountsStay
<1> QED
  BY <1>1, InvHolds, PTL DEF Spec, InactiveStaysInvited

\* sweepExpiredSessions: the sweeper compares with a time read before it had the
\* write lock, and takes no session that a request has extended since.
THEOREM SweepSparesTheLive == Spec => SweepTakesOnlyTheExpired
<1> DEFINE Spares == sweep # Null /\ sweep' = Null =>
                       \A s \in DOMAIN session : Live(s, clock) => s \in DOMAIN session'
<1>1. ASSUME Inv, [Next]_vars PROVE [Spares]_vars
  <2>1. CASE SweepDelete
    <3>1. CASE UNCHANGED tables
      BY <3>1 DEF tables
    <3>2. CASE DeleteExpiredSessions(sweep) /\ sweep # Null
      <4>1. sweep \in Nat /\ clock \in Nat /\ sweep <= clock
        BY <1>1, <2>1, <3>2, StartAssumption DEF Inv, TypeOK, Time
      <4>2. \A s \in DOMAIN session : session[s].expires \in Nat
        BY <1>1 DEF Inv, StoreInv, StoreTypeOK, SessionRow
      <4>3. DOMAIN session' = DOMAIN session
                \ {s \in DOMAIN session : session[s].expires <= sweep}
        BY <3>2 DEF DeleteExpiredSessions, Delete, WithoutRows
      <4> QED
        BY <4>1, <4>2, <4>3 DEF Live
    <3> QED
      BY <2>1, <3>1, <3>2 DEF SweepDelete
  <2>2. CASE ~SweepDelete
    <3>1. UNCHANGED sweep \/ SweepTick
      BY <1>1, <2>2, SweepIsAlone
    <3> QED
      BY <3>1 DEF SweepTick
  <2> QED
    BY <2>1, <2>2
<1> QED
  BY <1>1, InvHolds, PTL DEF Spec, SweepTakesOnlyTheExpired
================================================================================
