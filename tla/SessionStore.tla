------------------------------ MODULE SessionStore -----------------------------
(***************************************************************************)
(* The rows of the database that decide who is signed in: account (its     *)
(* role, active flag and password), session and account_activation (a      *)
(* link).  A table is a function from the ids in use to rows.  Each        *)
(* operator below is one write transaction of internal/store.              *)
(***************************************************************************)
EXTENDS Naturals, FiniteSets

CONSTANTS
  Account,      \* account ids
  SessionId,    \* session ids, one per token ever minted for a cookie
  LinkId,       \* account_activation ids, one per token ever put in a URL
  Password,     \* passwords; the row holds a hash, which only matches its own
  Null,         \* SQL's NULL and Go's nil
  TTL,          \* Config.SessionTTL, the absolute lifetime of a session
  IdleTTL,      \* Config.SessionIdleTTL, the idle window
  LinkTTL       \* ActivationTTL

\* Config.Validate refuses any other settings.
ASSUME LifetimeAssumption ==
  /\ TTL \in Nat /\ IdleTTL \in Nat /\ LinkTTL \in Nat
  /\ 0 < IdleTTL /\ IdleTTL <= TTL /\ 0 < LinkTTL
ASSUME NullAssumption == Null \notin Account \cup SessionId \cup LinkId \cup Password

VARIABLES
  account,      \* the other columns are left out; password Null: not activated
  session,
  link,
  ended         \* ids of deleted session rows; AUTOINCREMENT never reuses one

tables == <<account, session, link, ended>>

AccountRow == [role: {"admin", "user"}, active: BOOLEAN,
               password: Password \cup {Null}]
\* with is no column: the password that the session was started with.
SessionRow == [account: Account, as: Account \cup {Null}, created: Nat,
               seen: Nat, expires: Nat, with: Password]
\* uses is no column: how often the link has set a password.
LinkRow == [account: Account, expires: Nat, open: BOOLEAN, uses: Nat]

NoRows == [k \in {} |-> Null]
WithRow(table, key, row) ==
  [k \in DOMAIN table \cup {key} |-> IF k = key THEN row ELSE table[k]]
WithoutRows(table, keys) == [k \in DOMAIN table \ keys |-> table[k]]

StoreTypeOK ==
  /\ DOMAIN account \subseteq Account /\ account \in [DOMAIN account -> AccountRow]
  /\ DOMAIN session \subseteq SessionId /\ session \in [DOMAIN session -> SessionRow]
  /\ DOMAIN link \subseteq LinkId /\ link \in [DOMAIN link -> LinkRow]
  /\ ended \subseteq SessionId

(***************************************************************************)
(* Sessions.                                                               *)
(***************************************************************************)
Live(s, now) == s \in DOMAIN session /\ session[s].expires > now

CreateSessionReusesIds(s, a, now, password) ==          \* mutant: no AUTOINCREMENT
  /\ s \notin DOMAIN session
  /\ session' = WithRow(session, s, [account |-> a, as |-> Null, created |-> now,
       seen |-> now, expires |-> now + IdleTTL, with |-> password])
  /\ UNCHANGED <<account, link, ended>>

CreateSession(s, a, now, password) ==
  /\ s \notin DOMAIN session \cup ended
  /\ session' = WithRow(session, s, [account |-> a, as |-> Null, created |-> now,
       seen |-> now, expires |-> now + IdleTTL, with |-> password])
  /\ UNCHANGED <<account, link, ended>>

\* An UPDATE ... WHERE id = :id that finds no row changes nothing, and says so
\* to nobody.
TouchSession(s, now, expires) ==
  /\ session' = [t \in DOMAIN session |->
       IF t = s THEN [session[t] EXCEPT !.seen = now, !.expires = expires]
                ELSE session[t]]
  /\ UNCHANGED <<account, link, ended>>

SetImpersonation(s, a) ==
  /\ session' = [t \in DOMAIN session |->
       IF t = s THEN [session[t] EXCEPT !.as = a] ELSE session[t]]
  /\ UNCHANGED <<account, link, ended>>

Delete(sessions) ==
  /\ session' = WithoutRows(session, sessions)
  /\ ended' = ended \cup (DOMAIN session \cap sessions)
  /\ UNCHANGED <<account, link>>

SessionsOf(a) == {s \in DOMAIN session : session[s].account = a}
SessionsAs(a) == {s \in DOMAIN session : session[s].as = a}

DeleteSession(s) == Delete({s})
DeleteSessionsForAccount(a) == Delete(SessionsOf(a) \cup SessionsAs(a))
DeleteOtherSessionsForAccount(a, keep) == Delete(SessionsOf(a) \ {keep})
DeleteOldSessions(now) ==                               \* mutant: by age, not deadline
  Delete({s \in DOMAIN session : session[s].created + IdleTTL <= now})
DeleteExpiredSessions(now) == Delete({s \in DOMAIN session : session[s].expires <= now})

(***************************************************************************)
(* Accounts.                                                               *)
(***************************************************************************)
UpdateAccount(a, role, active) ==
  /\ a \in DOMAIN account
  /\ account' = [account EXCEPT ![a].role = role, ![a].active = active]
  /\ UNCHANGED <<session, link, ended>>

\* with: the session that makes the change is from now on one of the new
\* password's.
SetPassword(a, password, by) ==
  /\ a \in DOMAIN account
  /\ account' = [account EXCEPT ![a].password = password]
  /\ session' = [s \in DOMAIN session |->
       IF s = by THEN [session[s] EXCEPT !.with = password] ELSE session[s]]
  /\ UNCHANGED <<link, ended>>

(***************************************************************************)
(* Activation links.                                                       *)
(***************************************************************************)
NewLink(a, now) == [account |-> a, expires |-> now + LinkTTL, open |-> TRUE, uses |-> 0]

\* An account is created with a password, or with a link to choose one.
CreateAccount(a, role, active, password, t, now) ==
  /\ a \notin DOMAIN account
  /\ account' = WithRow(account, a,
       [role |-> role, active |-> active, password |-> password])
  /\ IF password = Null
     THEN t \notin DOMAIN link /\ link' = WithRow(link, t, NewLink(a, now))
     ELSE UNCHANGED link
  /\ UNCHANGED <<session, ended>>

IssueBesideOldLinks(a, t, now) ==                       \* mutant: supersedes nothing
  /\ a \in DOMAIN account
  /\ t \notin DOMAIN link
  /\ link' = WithRow(link, t, NewLink(a, now))
  /\ UNCHANGED <<account, session, ended>>

IssueActivationLink(a, t, now) ==
  /\ a \in DOMAIN account
  /\ t \notin DOMAIN link
  /\ link' = WithRow([u \in DOMAIN link |->
                        IF link[u].account = a THEN [link[u] EXCEPT !.open = FALSE]
                                               ELSE link[u]],
                     t, NewLink(a, now))
  /\ UNCHANGED <<account, session, ended>>

RedeemActivationAgain(t, password, now) ==              \* mutant: used_at unread
  /\ t \in DOMAIN link
  /\ link[t].expires > now
  /\ account[link[t].account].active
  /\ link' = [link EXCEPT ![t].open = FALSE, ![t].uses = link[t].uses + 1]
  /\ account' = [account EXCEPT ![link[t].account].password = password]
  /\ UNCHANGED <<session, ended>>

RedeemActivationOfInactive(t, password, now) ==         \* mutant: is_active unread
  /\ t \in DOMAIN link
  /\ link[t].open /\ link[t].expires > now
  /\ link' = [link EXCEPT ![t].open = FALSE, ![t].uses = link[t].uses + 1]
  /\ account' = [account EXCEPT ![link[t].account].password = password]
  /\ UNCHANGED <<session, ended>>

RedeemActivationOnce(t, password, now) ==               \* mutant: an old password stays
  /\ t \in DOMAIN link
  /\ link[t].open /\ link[t].expires > now
  /\ account[link[t].account].active
  /\ link' = [link EXCEPT ![t].open = FALSE, ![t].uses = link[t].uses + 1]
  /\ account' = [account EXCEPT ![link[t].account].password =
                   IF @ = Null THEN password ELSE @]
  /\ UNCHANGED <<session, ended>>

\* One transaction: a deactivated account rolls the claim of the link back.
RedeemActivation(t, password, now) ==
  /\ t \in DOMAIN link
  /\ link[t].open /\ link[t].expires > now
  /\ account[link[t].account].active
  /\ link' = [link EXCEPT ![t].open = FALSE, ![t].uses = link[t].uses + 1]
  /\ account' = [account EXCEPT ![link[t].account].password = password]
  /\ UNCHANGED <<session, ended>>
================================================================================
