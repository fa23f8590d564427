-------------------------- MODULE CredentialFileProofs -------------------------
(***************************************************************************)
(* Theorems about CredentialFile, for any sets of commands, sites,         *)
(* accounts and cookies.                                                   *)
(***************************************************************************)
EXTENDS CredentialFile, TLAPS

\* Whether a cookie may be kept for a site and account: it was issued to them, or
\* a login for them was told to take the load balancer's.
Fits(cookie, k, given, wrong) ==
  IF cookie = Route THEN k \in wrong
  ELSE cookie \in DOMAIN given /\ given[cookie] = k

\* Every session of a store fits the site and account it is kept for.
Sound(store, given, wrong) == \A k \in DOMAIN store : Fits(store[k], k, given, wrong)

\* What a command has loaded, been given and written so far.
Knows(row, tmp, given, wrong) ==
  /\ Sound(row.store, given, wrong)
  /\ row.pc \in {"login.ask", "login.load", "logout.load", "logout.ask"} => row.site \in Site
  /\ row.pc \in {"login.ask", "login.load"} => row.email \in Email
  /\ row.pc = "login.load" =>
       /\ row.cookie \in Cookie \cup {Route}
       /\ Fits(row.cookie, <<row.site, row.email>>, given, wrong)
  /\ row.pc = "rename" => tmp \in File /\ tmp.whole /\ Sound(tmp.store, given, wrong)
  /\ row.pc = "request.load" => row.site \in Site
  /\ row.pc = "sent" /\ row.cookie # Null =>
       \E e \in Email : /\ row.email \in {e, Null}
                        /\ Fits(row.cookie, <<row.site, e>>, given, wrong)

Inv ==
  /\ TypeOK
  /\ saved.whole /\ Sound(saved.store, issued, misnamed)
  /\ \A p \in Proc : Knows(proc[p], temp[p], issued, misnamed)

(***************************************************************************)
(* The store that a file holds.                                            *)
(***************************************************************************)
LEMMA NoSessionsSound == NoSessions \in Store /\ \A given, wrong : Sound(NoSessions, given, wrong)
<1>1. NoSessions \in [{} -> Cookie \cup {Route}] /\ DOMAIN NoSessions = {}
  BY DEF NoSessions
<1> QED
  BY <1>1 DEF Store, Sound

\* credentialStore.put keeps the others and adds the session it is given.
LEMMA PutSound ==
  ASSUME NEW given, NEW wrong, NEW store \in Store, NEW site \in Site, NEW email \in Email,
         NEW cookie \in Cookie \cup {Route},
         Sound(store, given, wrong), Fits(cookie, <<site, email>>, given, wrong)
  PROVE  /\ Put(store, site, email, cookie) \in Store
         /\ Sound(Put(store, site, email, cookie), given, wrong)
<1> DEFINE kept == DOMAIN store \cup {<<site, email>>}
           new == Put(store, site, email, cookie)
<1>1. PICK old \in SUBSET Key : store \in [old -> Cookie \cup {Route}]
  BY DEF Store
<1>2. kept \in SUBSET Key
  BY <1>1 DEF Key
<1>3. /\ DOMAIN new = kept
      /\ \A k \in kept : new[k] = IF k = <<site, email>> THEN cookie ELSE store[k]
      /\ new \in [kept -> Cookie \cup {Route}]
  BY <1>1 DEF Put
<1> HIDE DEF new
<1>4. new \in Store
  BY <1>2, <1>3 DEF Store
<1>5. Sound(new, given, wrong)
  BY <1>3 DEF Sound
<1> QED
  BY <1>4, <1>5 DEF new

\* credentialStore.drop keeps the others.
LEMMA DropSound ==
  ASSUME NEW given, NEW wrong, NEW store \in Store, NEW site, NEW email, Sound(store, given, wrong)
  PROVE  Drop(store, site, email) \in Store /\ Sound(Drop(store, site, email), given, wrong)
<1> DEFINE kept == DOMAIN store \ {<<site, email>>}
           new == Drop(store, site, email)
<1>1. PICK old \in SUBSET Key : store \in [old -> Cookie \cup {Route}]
  BY DEF Store
<1>2. /\ DOMAIN new = kept /\ \A k \in kept : new[k] = store[k]
      /\ new \in [kept -> Cookie \cup {Route}] /\ kept \in SUBSET Key
  BY <1>1 DEF Drop, Restrict
<1> HIDE DEF new
<1>3. new \in Store
  BY <1>2 DEF Store
<1>4. Sound(new, given, wrong)
  BY <1>2 DEF Sound
<1> QED
  BY <1>3, <1>4 DEF new

\* Of a login's answer only the session that it carries is taken, or the load
\* balancer's cookie when the caller has named it.
LEMMA SessionIsTaken ==
  ASSUME NEW c \in Cookie, NEW routed \in BOOLEAN, NEW named \in Name,
         NEW picked \in SessionCookie({c} \cup (IF routed THEN {Route} ELSE {}), named)
  PROVE  picked = c \/ (named = "route" /\ picked = Route)
<1> DEFINE answer == {c} \cup (IF routed THEN {Route} ELSE {})
<1>1. picked \in answer /\ c \in answer
  BY DEF SessionCookie
<1>2. \/ named = "none" /\ answer = {picked}
      \/ named = "session" /\ picked # Route
      \/ named = "route" /\ picked = Route
  BY DEF SessionCookie
<1>3. picked = c \/ picked = Route
  BY <1>1
<1> HIDE DEF answer
<1> QED
  BY <1>1, <1>2, <1>3

\* A request uses the session of the account that was asked for, or the only one.
LEMMA ResolvedSession ==
  ASSUME NEW given, NEW wrong, NEW store, NEW site \in Site, NEW email \in Email \cup {Null},
         Sound(store, given, wrong), CookieOf(store, site, email) # Null
  PROVE  \E e \in Email : /\ email \in {e, Null} /\ <<site, e>> \in DOMAIN store
                          /\ CookieOf(store, site, email) = store[<<site, e>>]
                          /\ Fits(CookieOf(store, site, email), <<site, e>>, given, wrong)
<1>1. Resolved(store, site, email) # {}
  BY DEF CookieOf
<1>2. PICK e \in Resolved(store, site, email) : CookieOf(store, site, email) = store[<<site, e>>]
  BY <1>1 DEF CookieOf
<1>3. e \in Email /\ <<site, e>> \in DOMAIN store /\ email \in {e, Null}
  BY <1>2 DEF Resolved, Emails
<1>4. Fits(store[<<site, e>>], <<site, e>>, given, wrong)
  BY <1>3 DEF Sound
<1> QED
  BY <1>2, <1>3, <1>4

(***************************************************************************)
(* The steps.                                                              *)
(***************************************************************************)
LEMMA IdleIsARow == Idle \in Row /\ Idle.pc = "idle" /\ Idle.store = NoSessions
  BY NoSessionsSound DEF Row, Idle, PC, Name

LEMMA InitInv == Init => Inv
<1> SUFFICES ASSUME Init PROVE Inv
  OBVIOUS
<1>1. /\ issued = NoSessions /\ issued \in [{} -> Key]
      /\ saved = [whole |-> TRUE, store |-> NoSessions]
  BY DEF Init, NoSessions
<1>2. TypeOK
  <2>1. issued \in UNION {[given -> Key] : given \in SUBSET Cookie}
    BY <1>1
  <2>2. saved \in File
    BY <1>1, NoSessionsSound DEF File
  <2> QED
    BY <2>1, <2>2, IdleIsARow DEF Init, TypeOK
<1>3. ASSUME NEW p \in Proc PROVE Knows(proc[p], temp[p], issued, misnamed)
  BY IdleIsARow, NoSessionsSound DEF Init, Knows
<1> QED
  BY <1>1, <1>2, <1>3, NoSessionsSound DEF Inv

\* One command moves, and neither the server nor the file does.
LEMMA Moves ==
  ASSUME Inv, NEW p \in Proc, NEW row \in Row, NEW tmp \in File \cup {Null},
         proc' = [proc EXCEPT ![p] = row], temp' = [temp EXCEPT ![p] = tmp],
         UNCHANGED <<issued, misnamed, saved>>, Knows(row, tmp, issued, misnamed)
  PROVE  Inv'
<1>1. TypeOK'
  BY DEF Inv, TypeOK
<1>2. ASSUME NEW q \in Proc PROVE Knows(proc'[q], temp'[q], issued, misnamed)
  <2>1. CASE q = p
    <3>1. proc'[q] = row /\ temp'[q] = tmp
      BY <2>1 DEF Inv, TypeOK
    <3> QED
      BY <3>1
  <2>2. CASE q # p
    <3>1. proc'[q] = proc[q] /\ temp'[q] = temp[q]
      BY <2>2 DEF Inv, TypeOK
    <3> QED
      BY <3>1 DEF Inv
  <2> QED
    BY <2>1, <2>2
<1>3. saved'.whole /\ Sound(saved'.store, issued', misnamed')
  BY DEF Inv
<1>4. \A q \in Proc : Knows(proc'[q], temp'[q], issued', misnamed')
  BY <1>2
<1> QED
  BY <1>1, <1>3, <1>4 DEF Inv

\* The same where the temporary files stay.
LEMMA MovesOnly ==
  ASSUME Inv, NEW p \in Proc, NEW row \in Row,
         proc' = [proc EXCEPT ![p] = row], temp' = temp,
         UNCHANGED <<issued, misnamed, saved>>, Knows(row, temp[p], issued, misnamed)
  PROVE  Inv'
<1>1. temp[p] \in File \cup {Null} /\ temp' = [temp EXCEPT ![p] = temp[p]]
  BY DEF Inv, TypeOK
<1> QED
  BY <1>1, Moves

LEMMA StartStep ==
  ASSUME Inv, NEW p \in Proc, NEW pc \in PC, NEW site \in Site, NEW email \in Email \cup {Null},
         NEW named \in Name, Start(p, pc, site, email, named),
         pc \in {"login.ask", "logout.load", "request.load"}, pc = "login.ask" => email \in Email
  PROVE  Inv'
<1> DEFINE row == [Idle EXCEPT !.pc = pc, !.site = site, !.email = email, !.named = named]
<1>1. row \in Row /\ row.pc = pc /\ row.site = site /\ row.email = email /\ row.store = Idle.store
  BY IdleIsARow DEF Row
<1>2. proc' = [proc EXCEPT ![p] = row] /\ temp' = temp /\ UNCHANGED <<issued, misnamed, saved>>
  BY DEF Start, Become
<1> HIDE DEF row
<1>3. Knows(row, temp[p], issued, misnamed)
  BY <1>1, IdleIsARow, NoSessionsSound DEF Knows
<1> QED
  BY <1>1, <1>2, <1>3, MovesOnly

LEMMA LoginAnsweredStep == ASSUME Inv, NEW p \in Proc, LoginAnswered(p) PROVE Inv'
<1> DEFINE key == <<proc[p].site, proc[p].email>>
<1>1. PICK c \in Cookie \ DOMAIN issued, routed \in BOOLEAN :
        \E picked \in SessionCookie({c} \cup (IF routed THEN {Route} ELSE {}), proc[p].named) :
          /\ issued' = [d \in DOMAIN issued \cup {c} |-> IF d = c THEN key ELSE issued[d]]
          /\ Become(p, [proc[p] EXCEPT !.pc = "login.load", !.cookie = picked])
  BY DEF LoginAnswered
<1>2. PICK picked \in SessionCookie({c} \cup (IF routed THEN {Route} ELSE {}), proc[p].named) :
        /\ issued' = [d \in DOMAIN issued \cup {c} |-> IF d = c THEN key ELSE issued[d]]
        /\ Become(p, [proc[p] EXCEPT !.pc = "login.load", !.cookie = picked])
  BY <1>1
<1>3. proc[p] \in Row /\ proc[p].named \in Name /\ proc[p].pc = "login.ask"
  BY DEF Inv, TypeOK, Row, LoginAnswered, At
<1>4. picked = c \/ (proc[p].named = "route" /\ picked = Route)
  <2>1. PICK named \in Name : named = proc[p].named
    BY <1>3
  <2> QED
    BY <1>2, <2>1, SessionIsTaken
<1> DEFINE row == [proc[p] EXCEPT !.pc = "login.load", !.cookie = picked]
<1>5. /\ proc' = [proc EXCEPT ![p] = row] /\ saved' = saved /\ temp' = temp
      /\ misnamed' = IF proc[p].named = "route" THEN misnamed \cup {key} ELSE misnamed
  BY <1>2 DEF Become, LoginAnswered
<1>6. proc[p].site \in Site /\ proc[p].email \in Email
  BY <1>3 DEF Inv, Knows
<1>7. key \in Key /\ misnamed' \subseteq Key /\ misnamed \subseteq misnamed'
  BY <1>5, <1>6 DEF Inv, TypeOK, Key
<1>8. PICK old \in SUBSET Cookie : issued \in [old -> Key]
  BY DEF Inv, TypeOK
<1>9. /\ DOMAIN issued' = DOMAIN issued \cup {c} /\ issued'[c] = key
      /\ \A d \in DOMAIN issued : issued'[d] = issued[d]
  BY <1>1, <1>2
<1>10. issued' \in UNION {[given -> Key] : given \in SUBSET Cookie}
  <2>1. old \cup {c} \in SUBSET Cookie /\ issued' \in [old \cup {c} -> Key]
    BY <1>2, <1>7, <1>8
  <2> QED
    BY <2>1
<1>11. Fits(picked, key, issued', misnamed') /\ picked \in Cookie \cup {Route}
  BY <1>4, <1>5, <1>9, CookieAssumption DEF Fits
<1>12. row \in Row /\ row.pc = "login.load" /\ row.cookie = picked /\ row.site = proc[p].site
       /\ row.email = proc[p].email /\ row.store = proc[p].store
  <2>1. "login.load" \in PC
    BY DEF PC
  <2> QED
    BY <1>3, <1>11, <2>1 DEF Row
<1> HIDE DEF row
<1>13. \A cookie, k : Fits(cookie, k, issued, misnamed) => Fits(cookie, k, issued', misnamed')
  BY <1>7, <1>9 DEF Fits
<1>14. \A store : Sound(store, issued, misnamed) => Sound(store, issued', misnamed')
  BY <1>13 DEF Sound
<1>15. ASSUME NEW q \in Proc PROVE Knows(proc'[q], temp'[q], issued', misnamed')
  <2>1. CASE q = p
    <3>1. proc'[q] = row
      BY <1>5, <2>1 DEF Inv, TypeOK
    <3>2. Sound(row.store, issued', misnamed')
      BY <1>12, <1>14 DEF Inv, Knows
    <3> QED
      BY <1>6, <1>11, <1>12, <3>1, <3>2 DEF Knows
  <2>2. CASE q # p
    <3>1. proc'[q] = proc[q] /\ temp'[q] = temp[q] /\ Knows(proc[q], temp[q], issued, misnamed)
      BY <1>5, <2>2 DEF Inv, TypeOK
    <3>2. Knows(proc[q], temp[q], issued', misnamed')
      BY <1>13, <1>14, <3>1 DEF Knows
    <3> QED
      BY <3>1, <3>2
  <2> QED
    BY <2>1, <2>2
<1>16. TypeOK'
  BY <1>5, <1>7, <1>10, <1>12 DEF Inv, TypeOK
<1> QED
  BY <1>5, <1>14, <1>15, <1>16 DEF Inv

LEMMA SaveIsAStep == "save" \in PC /\ "write" \in PC /\ "rename" \in PC
  BY DEF PC

LEMMA LoginLoadStep == ASSUME Inv, NEW p \in Proc, LoginLoad(p) PROVE Inv'
<1> DEFINE new == Put(saved.store, proc[p].site, proc[p].email, proc[p].cookie)
           row == [proc[p] EXCEPT !.pc = "save", !.store = new]
<1>1. proc[p] \in Row /\ proc[p].pc = "login.load" /\ saved.store \in Store
  BY DEF Inv, TypeOK, LoginLoad, At, File
<1>2. /\ proc[p].site \in Site /\ proc[p].email \in Email
      /\ Fits(proc[p].cookie, <<proc[p].site, proc[p].email>>, issued, misnamed)
  BY <1>1 DEF Inv, Knows
<1>3. proc[p].cookie \in Cookie \cup {Route}
  BY <1>1 DEF Inv, Knows
<1>4. new \in Store /\ Sound(new, issued, misnamed)
  BY <1>1, <1>2, <1>3, PutSound DEF Inv
<1>5. /\ proc' = [proc EXCEPT ![p] = row] /\ temp' = temp /\ UNCHANGED <<issued, misnamed, saved>>
  BY DEF LoginLoad, Become
<1> HIDE DEF new
<1>6. row \in Row /\ row.pc = "save" /\ row.store = new
  BY <1>1, <1>4, SaveIsAStep DEF Row
<1> HIDE DEF row
<1>7. Knows(row, temp[p], issued, misnamed)
  BY <1>4, <1>6 DEF Knows
<1> QED
  BY <1>5, <1>6, <1>7, MovesOnly

LEMMA LogoutLoadStep == ASSUME Inv, NEW p \in Proc, LogoutLoad(p) PROVE Inv'
<1>1. PICK who \in Resolved(saved.store, proc[p].site, proc[p].email) :
        Become(p, [proc[p] EXCEPT !.pc = "logout.ask", !.email = who,
          !.cookie = saved.store[<<proc[p].site, who>>], !.store = saved.store])
  BY DEF LogoutLoad
<1> DEFINE cookie == saved.store[<<proc[p].site, who>>]
           row == [proc[p] EXCEPT !.pc = "logout.ask", !.email = who, !.cookie = cookie,
                                  !.store = saved.store]
<1>2. proc[p] \in Row /\ proc[p].pc = "logout.load" /\ saved.store \in Store
  BY DEF Inv, TypeOK, LogoutLoad, At, File
<1>3. who \in Email /\ cookie \in Cookie \cup {Route}
  BY <1>2 DEF Resolved, Emails, Store
<1>4. proc' = [proc EXCEPT ![p] = row] /\ temp' = temp /\ UNCHANGED <<issued, misnamed, saved>>
  BY <1>1 DEF LogoutLoad, Become
<1>5. proc[p].site \in Site /\ Sound(saved.store, issued, misnamed)
  BY <1>2 DEF Inv, Knows
<1> HIDE DEF cookie
<1>6. "logout.ask" \in PC
  BY DEF PC
<1>7. row \in Row /\ row.pc = "logout.ask" /\ row.site = proc[p].site /\ row.store = saved.store
  BY <1>2, <1>3, <1>6 DEF Row
<1> HIDE DEF row
<1>8. Knows(row, temp[p], issued, misnamed)
  BY <1>5, <1>7 DEF Knows
<1> QED
  BY <1>4, <1>7, <1>8, MovesOnly

LEMMA LogoutAnsweredStep == ASSUME Inv, NEW p \in Proc, LogoutAnswered(p) PROVE Inv'
<1> DEFINE new == Drop(proc[p].store, proc[p].site, proc[p].email)
           row == [proc[p] EXCEPT !.pc = "save", !.store = new]
<1>1. proc[p] \in Row /\ proc[p].store \in Store /\ Sound(proc[p].store, issued, misnamed)
  BY DEF Inv, TypeOK, Knows, Row
<1>2. new \in Store /\ Sound(new, issued, misnamed)
  BY <1>1, DropSound
<1>3. /\ proc' = [proc EXCEPT ![p] = row] /\ temp' = temp /\ UNCHANGED <<issued, misnamed, saved>>
  BY DEF LogoutAnswered, Become
<1> HIDE DEF new
<1>4. row \in Row /\ row.pc = "save" /\ row.store = new
  BY <1>1, <1>2, SaveIsAStep DEF Row
<1> HIDE DEF row
<1>5. Knows(row, temp[p], issued, misnamed)
  BY <1>2, <1>4 DEF Knows
<1> QED
  BY <1>3, <1>4, <1>5, MovesOnly

LEMMA CreateTempStep == ASSUME Inv, NEW p \in Proc, CreateTemp(p) PROVE Inv'
<1> DEFINE row == [proc[p] EXCEPT !.pc = "write"]
           tmp == [whole |-> FALSE, store |-> NoSessions]
<1>1. proc[p] \in Row /\ Sound(proc[p].store, issued, misnamed)
  BY DEF Inv, TypeOK, Knows
<1>2. row \in Row /\ row.pc = "write" /\ row.store = proc[p].store
  BY <1>1, SaveIsAStep DEF Row
<1>3. tmp \in File
  BY NoSessionsSound DEF File
<1>4. /\ proc' = [proc EXCEPT ![p] = row] /\ temp' = [temp EXCEPT ![p] = tmp]
      /\ UNCHANGED <<issued, misnamed, saved>>
  BY DEF CreateTemp, Become
<1> HIDE DEF row, tmp
<1>5. Knows(row, tmp, issued, misnamed)
  BY <1>1, <1>2 DEF Knows
<1> QED
  BY <1>2, <1>3, <1>4, <1>5, Moves

LEMMA WriteTempStep == ASSUME Inv, NEW p \in Proc, WriteTemp(p) PROVE Inv'
<1> DEFINE row == [proc[p] EXCEPT !.pc = "rename"]
           tmp == [whole |-> TRUE, store |-> proc[p].store]
<1>1. proc[p] \in Row /\ proc[p].store \in Store /\ Sound(proc[p].store, issued, misnamed)
  BY DEF Inv, TypeOK, Knows, Row
<1>2. row \in Row /\ row.pc = "rename" /\ row.store = proc[p].store
  BY <1>1, SaveIsAStep DEF Row
<1>3. tmp \in File /\ tmp.whole /\ Sound(tmp.store, issued, misnamed)
  BY <1>1 DEF File
<1>4. /\ proc' = [proc EXCEPT ![p] = row] /\ temp' = [temp EXCEPT ![p] = tmp]
      /\ UNCHANGED <<issued, misnamed, saved>>
  BY DEF WriteTemp, Become
<1> HIDE DEF row, tmp
<1>5. Knows(row, tmp, issued, misnamed)
  BY <1>1, <1>2, <1>3 DEF Knows
<1> QED
  BY <1>2, <1>3, <1>4, <1>5, Moves

LEMMA RenameStep == ASSUME Inv, NEW p \in Proc, Rename(p) PROVE Inv'
<1>1. temp[p] \in File /\ temp[p].whole /\ Sound(temp[p].store, issued, misnamed)
  BY DEF Inv, Knows, Rename, At
<1>2. /\ proc' = [proc EXCEPT ![p] = Idle] /\ temp' = [temp EXCEPT ![p] = Null]
      /\ UNCHANGED <<issued, misnamed>> /\ saved' = temp[p]
  BY DEF Rename, Become
<1>3. TypeOK'
  BY <1>1, <1>2, IdleIsARow DEF Inv, TypeOK
<1>4. ASSUME NEW q \in Proc PROVE Knows(proc'[q], temp'[q], issued', misnamed')
  <2>1. CASE q = p
    <3>1. proc'[q] = Idle
      BY <1>2, <2>1 DEF Inv, TypeOK
    <3> QED
      BY <3>1, IdleIsARow, NoSessionsSound DEF Knows
  <2>2. CASE q # p
    <3>1. proc'[q] = proc[q] /\ temp'[q] = temp[q] /\ Knows(proc[q], temp[q], issued, misnamed)
      BY <1>2, <2>2 DEF Inv, TypeOK
    <3> QED
      BY <1>2, <3>1
  <2> QED
    BY <2>1, <2>2
<1>5. saved'.whole /\ Sound(saved'.store, issued', misnamed')
  BY <1>1, <1>2
<1> QED
  BY <1>3, <1>4, <1>5 DEF Inv

LEMMA RequestLoadStep == ASSUME Inv, NEW p \in Proc, RequestLoad(p) PROVE Inv'
<1> DEFINE cookie == CookieOf(saved.store, proc[p].site, proc[p].email)
           row == [proc[p] EXCEPT !.pc = "sent", !.cookie = cookie]
<1>1. /\ proc[p] \in Row /\ proc[p].pc = "request.load" /\ Sound(proc[p].store, issued, misnamed)
      /\ proc[p].site \in Site /\ proc[p].email \in Email \cup {Null}
  BY DEF Inv, TypeOK, Knows, Row, RequestLoad, At
<1>2. /\ proc' = [proc EXCEPT ![p] = row] /\ temp' = temp /\ UNCHANGED <<issued, misnamed, saved>>
  BY DEF RequestLoad, Become
<1>3. ASSUME cookie # Null
      PROVE  \E e \in Email : /\ proc[p].email \in {e, Null}
                              /\ <<proc[p].site, e>> \in DOMAIN saved.store
                              /\ cookie = saved.store[<<proc[p].site, e>>]
                              /\ Fits(cookie, <<proc[p].site, e>>, issued, misnamed)
  <2>1. PICK site \in Site, email \in Email \cup {Null} :
          site = proc[p].site /\ email = proc[p].email
    BY <1>1
  <2>2. Sound(saved.store, issued, misnamed)
    BY DEF Inv
  <2> QED
    BY <1>3, <2>1, <2>2, ResolvedSession
<1> HIDE DEF cookie
<1>4. cookie \in Cookie \cup {Route, Null}
  <2>1. PICK old \in SUBSET Key : saved.store \in [old -> Cookie \cup {Route}]
    BY DEF Inv, TypeOK, File, Store
  <2> QED
    BY <1>3, <2>1
<1>5. "sent" \in PC
  BY DEF PC
<1>6. /\ row \in Row /\ row.pc = "sent" /\ row.cookie = cookie /\ row.site = proc[p].site
      /\ row.email = proc[p].email /\ row.store = proc[p].store
  BY <1>1, <1>4, <1>5 DEF Row
<1> HIDE DEF row
<1>7. Knows(row, temp[p], issued, misnamed)
  BY <1>1, <1>3, <1>6 DEF Knows
<1> QED
  BY <1>2, <1>6, <1>7, MovesOnly

LEMMA EndStep == ASSUME Inv, NEW p \in Proc, End(p) PROVE Inv'
<1>1. /\ proc' = [proc EXCEPT ![p] = Idle] /\ temp' = [temp EXCEPT ![p] = Null]
      /\ UNCHANGED <<issued, misnamed, saved>>
  BY DEF End, Become
<1>2. Knows(Idle, Null, issued, misnamed)
  BY IdleIsARow, NoSessionsSound DEF Knows
<1> QED
  BY <1>1, <1>2, IdleIsARow, Moves

LEMMA StepInv == Inv /\ [Next]_vars => Inv'
<1> SUFFICES ASSUME Inv, [Next]_vars PROVE Inv'
  OBVIOUS
<1>1. CASE UNCHANGED vars
  BY <1>1 DEF vars, Inv, TypeOK
<1>2. ASSUME NEW p \in Proc, StartLogin(p) PROVE Inv'
  <2>1. PICK site \in Site, email \in Email, named \in Name :
          Start(p, "login.ask", site, email, named)
    BY <1>2 DEF StartLogin
  <2> QED
    BY <2>1, StartStep DEF PC
<1>3. ASSUME NEW p \in Proc, StartLogout(p) PROVE Inv'
  <2>1. PICK site \in Site, email \in Email \cup {Null} :
          Start(p, "logout.load", site, email, "none")
    BY <1>3 DEF StartLogout
  <2> QED
    BY <2>1, StartStep DEF PC, Name
<1>4. ASSUME NEW p \in Proc, StartRequest(p) PROVE Inv'
  <2>1. PICK site \in Site, email \in Email \cup {Null} :
          Start(p, "request.load", site, email, "none")
    BY <1>4 DEF StartRequest
  <2> QED
    BY <2>1, StartStep DEF PC, Name
<1> QED
  BY <1>1, <1>2, <1>3, <1>4, LoginAnsweredStep, LoginLoadStep, LogoutLoadStep, LogoutAnsweredStep,
     CreateTempStep, WriteTempStep, RenameStep, RequestLoadStep, EndStep DEF Next

(***************************************************************************)
(* The theorems.                                                           *)
(***************************************************************************)
\* What the file holds and what every command has loaded from it fits the sites
\* and accounts it is kept for.
THEOREM InvHolds == Spec => []Inv
<1> QED
  BY InitInv, StepInv, PTL DEF Spec

\* Type correctness for any number of commands, sites and accounts.
THEOREM TypeCorrect == Spec => []TypeOK
<1>1. Inv => TypeOK
  BY DEF Inv
<1> QED
  BY <1>1, InvHolds, PTL

\* A session goes only to the site, and for the account, that it was issued to
\* (credentialStore, resolveCredential, sessionCookie).
THEOREM CookiesStayWithTheirAccount == Spec => []CookiesKeepTheirAccount
<1>1. Inv => CookiesKeepTheirAccount
  BY DEF Inv, Sound, Knows, Fits, BelongsTo, CookiesKeepTheirAccount, At
<1> QED
  BY <1>1, InvHolds, PTL

\* Renaming a finished temporary file never leaves a part of one (saveCredentials).
THEOREM FileStaysWhole == Spec => []NeverHalfWritten
<1>1. Inv => NeverHalfWritten
  BY DEF Inv, NeverHalfWritten
<1> QED
  BY <1>1, InvHolds, PTL
================================================================================
