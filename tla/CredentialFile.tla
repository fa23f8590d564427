---------------------------- MODULE CredentialFile -----------------------------
(***************************************************************************)
(* The file in which ec and earl keep the sessions they were given, and    *)
(* the commands that read and replace it: login, logout, and any that      *)
(* sends a request.  Commands run side by side; nothing locks the file.    *)
(***************************************************************************)
EXTENDS Functions

CONSTANTS
  Proc,         \* slots for commands
  Site,         \* base URLs
  Email,
  Cookie,       \* values of session cookies, which a server issues once
  Route,        \* a cookie that a load balancer adds, under a name of its own
  Null

ASSUME CookieAssumption == Route \notin Cookie /\ Null \notin Cookie \cup {Route}

VARIABLES
  issued,       \* per session cookie, the site and account it was issued to
  saved,        \* credentials.json
  temp,         \* per command, its temporary file or Null
  proc,         \* what each command is at
  misnamed      \* history: the sites and accounts of logins that were told to
                \* take the load balancer's cookie, and did

vars == <<issued, saved, temp, proc, misnamed>>

Key == Site \X Email
NoSessions == [k \in {} |-> Null]
Store == UNION {[kept -> Cookie \cup {Route}] : kept \in SUBSET Key}
File == [whole: BOOLEAN, store: Store]

PC == {"idle", "login.ask", "login.load", "logout.load", "logout.ask", "save",
       "write", "rename", "request.load", "sent"}

\* Whose name --cookie-name gave: the session's, the other cookie's or nothing.
Name == {"none", "session", "route"}

Row == [pc: PC, site: Site \cup {Null}, email: Email \cup {Null}, named: Name,
  cookie: Cookie \cup {Route, Null}, store: Store]

Idle == [pc |-> "idle", site |-> Null, email |-> Null, named |-> "none",
  cookie |-> Null, store |-> NoSessions]

TypeOK ==
  /\ issued \in UNION {[given -> Key] : given \in SUBSET Cookie}
  /\ saved \in File
  /\ temp \in [Proc -> File \cup {Null}]
  /\ proc \in [Proc -> Row]
  /\ misnamed \subseteq Key

\* A missing file reads as one with no sessions.
Init ==
  /\ issued = NoSessions
  /\ saved = [whole |-> TRUE, store |-> NoSessions]
  /\ temp = [p \in Proc |-> Null]
  /\ proc = [p \in Proc |-> Idle]
  /\ misnamed = {}

(***************************************************************************)
(* credentialStore.                                                        *)
(***************************************************************************)
Put(store, site, email, cookie) ==
  [k \in DOMAIN store \cup {<<site, email>>} |->
     IF k = <<site, email>> THEN cookie ELSE store[k]]
Drop(store, site, email) == Restrict(store, DOMAIN store \ {<<site, email>>})

Emails(store, site) == {e \in Email : <<site, e>> \in DOMAIN store}

\* Whose session to use: the account asked for, or the only one there is.
Resolved(store, site, email) ==
  {e \in Emails(store, site) :
     e = email \/ (email = Null /\ Emails(store, site) = {e})}
CookieOf(store, site, email) ==
  IF Resolved(store, site, email) = {} THEN Null
  ELSE store[<<site, CHOOSE e \in Resolved(store, site, email) : TRUE>>]

\* The cookie of a login's answer that is taken for the session: the one of the
\* name that was given, whatever it is, or the only one there is.
AnySessionCookie(answer, named) == answer                       \* mutant
SessionCookie(answer, named) ==
  {c \in answer : \/ named = "none" /\ answer = {c}
                  \/ named = "session" /\ c # Route
                  \/ named = "route" /\ c = Route}

(***************************************************************************)
(* Steps.                                                                  *)
(***************************************************************************)
At(p, pc) == proc[p].pc = pc
Become(p, row) == proc' = [proc EXCEPT ![p] = row]

Start(p, pc, site, email, named) ==
  /\ At(p, "idle")
  /\ Become(p, [Idle EXCEPT !.pc = pc, !.site = site, !.email = email, !.named = named])
  /\ UNCHANGED <<issued, saved, temp, misnamed>>
StartLogin(p) ==
  \E s \in Site, e \in Email, named \in Name : Start(p, "login.ask", s, e, named)
StartLogout(p) ==
  \E s \in Site, e \in Email \cup {Null} : Start(p, "logout.load", s, e, "none")
StartRequest(p) ==
  \E s \in Site, e \in Email \cup {Null} : Start(p, "request.load", s, e, "none")

\* The server answers with a new session, maybe through a load balancer.
LoginAnswered(p) ==
  /\ At(p, "login.ask")
  /\ \E c \in Cookie \ DOMAIN issued, routed \in BOOLEAN :
       \E picked \in SessionCookie({c} \cup (IF routed THEN {Route} ELSE {}), proc[p].named) :
         /\ issued' = [d \in DOMAIN issued \cup {c} |->
              IF d = c THEN <<proc[p].site, proc[p].email>> ELSE issued[d]]
         /\ Become(p, [proc[p] EXCEPT !.pc = "login.load", !.cookie = picked])
  /\ misnamed' = IF proc[p].named = "route"
                 THEN misnamed \cup {<<proc[p].site, proc[p].email>>} ELSE misnamed
  /\ UNCHANGED <<saved, temp>>

\* Nothing can be read from a file that is cut short.
LoginLoad(p) ==
  /\ At(p, "login.load") /\ saved.whole
  /\ Become(p, [proc[p] EXCEPT !.pc = "save",
       !.store = Put(saved.store, proc[p].site, proc[p].email, proc[p].cookie)])
  /\ UNCHANGED <<issued, saved, temp, misnamed>>

LogoutLoad(p) ==
  /\ At(p, "logout.load") /\ saved.whole
  /\ \E who \in Resolved(saved.store, proc[p].site, proc[p].email) :
       Become(p, [proc[p] EXCEPT !.pc = "logout.ask", !.email = who,
         !.cookie = saved.store[<<proc[p].site, who>>], !.store = saved.store])
  /\ UNCHANGED <<issued, saved, temp, misnamed>>

\* Whatever the server said, the session is dropped from what was loaded before.
LogoutAnswered(p) ==
  /\ At(p, "logout.ask")
  /\ Become(p, [proc[p] EXCEPT !.pc = "save",
       !.store = Drop(proc[p].store, proc[p].site, proc[p].email)])
  /\ UNCHANGED <<issued, saved, temp, misnamed>>

CreateInPlace(p) ==                                             \* mutant
  /\ At(p, "save")
  /\ saved' = [whole |-> FALSE, store |-> NoSessions]
  /\ temp' = [temp EXCEPT ![p] = saved']
  /\ Become(p, [proc[p] EXCEPT !.pc = "write"])
  /\ UNCHANGED <<issued, misnamed>>
CreateTemp(p) ==
  /\ At(p, "save")
  /\ temp' = [temp EXCEPT ![p] = [whole |-> FALSE, store |-> NoSessions]]
  /\ Become(p, [proc[p] EXCEPT !.pc = "write"])
  /\ UNCHANGED <<issued, saved, misnamed>>

WriteTemp(p) ==
  /\ At(p, "write")
  /\ temp' = [temp EXCEPT ![p] = [whole |-> TRUE, store |-> proc[p].store]]
  /\ Become(p, [proc[p] EXCEPT !.pc = "rename"])
  /\ UNCHANGED <<issued, saved, misnamed>>

Rename(p) ==
  /\ At(p, "rename")
  /\ saved' = temp[p] /\ temp' = [temp EXCEPT ![p] = Null]
  /\ Become(p, Idle)
  /\ UNCHANGED <<issued, misnamed>>

RequestLoad(p) ==
  /\ At(p, "request.load") /\ saved.whole
  /\ Become(p, [proc[p] EXCEPT !.pc = "sent",
       !.cookie = CookieOf(saved.store, proc[p].site, proc[p].email)])
  /\ UNCHANGED <<issued, saved, temp, misnamed>>

\* A command ends: it is done, a step failed, or it was killed and leaves under
\* its temporary name what nobody reads.
End(p) ==
  /\ ~At(p, "idle")
  /\ Become(p, Idle)
  /\ temp' = [temp EXCEPT ![p] = Null]
  /\ UNCHANGED <<issued, saved, misnamed>>

Next ==
  \E p \in Proc :
    \/ StartLogin(p) \/ LoginAnswered(p) \/ LoginLoad(p)
    \/ StartLogout(p) \/ LogoutLoad(p) \/ LogoutAnswered(p)
    \/ CreateTemp(p) \/ WriteTemp(p) \/ Rename(p)
    \/ StartRequest(p) \/ RequestLoad(p)
    \/ End(p)

Spec == Init /\ [][Next]_vars

(***************************************************************************)
(* Properties.                                                             *)
(***************************************************************************)
\* A cookie is kept for, and sent as, the account at the site that issued it,
\* whatever commands replace the file under each other; a load balancer's cookie
\* is taken for a session only where the caller has named it (credentials.go, "a
\* development session is never sent to production"; sessionCookie, "rather than
\* guess").
BelongsTo(cookie, k) ==
  IF cookie = Route THEN k \in misnamed
  ELSE cookie \in DOMAIN issued /\ issued[cookie] = k
CookiesKeepTheirAccount ==
  /\ \A k \in DOMAIN saved.store : BelongsTo(saved.store[k], k)
  /\ \A p \in Proc : At(p, "sent") /\ proc[p].cookie # Null =>
       \E e \in Email : /\ proc[p].email \in {e, Null}
                        /\ BelongsTo(proc[p].cookie, <<proc[p].site, e>>)

\* However commands overlap and wherever they end, the file can be read
\* (saveCredentials, "an interrupted write cannot leave a truncated file").
NeverHalfWritten == saved.whole

\* Logout, "leaving it would only produce confusing 401s later": what a login
\* saved stays saved until that account logs in again or out.
NoSessionIsLost ==
  [][\A k \in DOMAIN saved.store \ DOMAIN saved'.store :
       \E p \in Proc : At(p, "rename") /\ <<proc[p].site, proc[p].email>> = k]_vars
================================================================================
