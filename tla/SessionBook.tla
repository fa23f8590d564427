------------------------------- MODULE SessionBook ------------------------------
(***************************************************************************)
(* What signing in promises, whatever requests run and however they        *)
(* interleave: an account becomes a member, one with a password, when it   *)
(* is made or while it is enabled; only members get sessions; a session is *)
(* one account's from its start to its end, its deadline moves but never   *)
(* past its lifetime, and once over it never begins again.                 *)
(***************************************************************************)
EXTENDS Naturals

CONSTANTS Account, SessionId, Moment, TTL

VARIABLES
  known,        \* the accounts that were made
  enabled,      \* those an administrator has switched on
  members,      \* those with a password; none is ever without it again
  book,         \* book[s]: {}, or the one entry of a session that lasts
  over          \* the sessions that have ended

accounts == <<known, enabled, members>>
vars == <<accounts, book, over>>

Entry(a, start, until) == [account |-> a, start |-> start, until |-> until]

Init ==
  /\ known \in SUBSET Account
  /\ enabled \in SUBSET known /\ members \in SUBSET known
  /\ book = [s \in SessionId |-> {}]
  /\ over = {}

Admit(a, on, joined) ==
  /\ a \notin known /\ known' = known \cup {a}
  /\ enabled' = IF on THEN enabled \cup {a} ELSE enabled
  /\ members' = IF joined THEN members \cup {a} ELSE members
  /\ UNCHANGED <<book, over>>

Switch(a) ==
  /\ a \in known
  /\ enabled' \in {enabled \cup {a}, enabled \ {a}}
  /\ UNCHANGED <<known, members, book, over>>

Join(a) ==
  /\ a \in enabled /\ members' = members \cup {a}
  /\ UNCHANGED <<known, enabled, book, over>>

Start(s, a, start, until) ==
  /\ s \notin over /\ book[s] = {}
  /\ a \in members
  /\ book' = [book EXCEPT ![s] = {Entry(a, start, until)}]
  /\ UNCHANGED <<accounts, over>>

Slide(s, e, until) ==
  /\ book' = [book EXCEPT ![s] = {Entry(e.account, e.start, until)}]
  /\ UNCHANGED <<accounts, over>>

End(gone) ==
  /\ \A s \in gone : book[s] # {}
  /\ book' = [s \in SessionId |-> IF s \in gone THEN {} ELSE book[s]]
  /\ over' = over \cup gone
  /\ UNCHANGED accounts

Next ==
  \/ \E a \in Account : \/ \E on, joined \in BOOLEAN : Admit(a, on, joined)
                        \/ Switch(a) \/ Join(a)
  \/ \E s \in SessionId, a \in Account, start \in Moment :
       \E until \in 0 .. start + TTL : Start(s, a, start, until)
  \/ \E s \in SessionId : \E e \in book[s] :
       \E until \in 0 .. e.start + TTL : Slide(s, e, until)
  \/ \E gone \in SUBSET SessionId : End(gone)

Spec == Init /\ [][Next]_vars
================================================================================
