-------------------------------- MODULE SeatBook -------------------------------
(***************************************************************************)
(* What the tables of accounts, seats and game state promise, whatever     *)
(* requests run and however they interleave: an account has at most one    *)
(* place in a game, a place once taken is changed but never given back, an *)
(* administrator has none and nobody with a place becomes one, and a game  *)
(* is set up once.                                                         *)
(***************************************************************************)
CONSTANTS Account, Game, Seed

VARIABLES
  admins,       \* the accounts with the admin role
  place,        \* place[<<g, a>>]: {} or the one place that a has in g
  seed          \* seed[g]: {} until the game is set up, then its one seed

vars == <<admins, place, seed>>

Place == [gm: BOOLEAN, active: BOOLEAN]

Init ==
  /\ admins \in SUBSET Account
  /\ place = [ga \in Game \X Account |-> {}]
  /\ seed = [g \in Game |-> {}]

Sit(g, a, p) ==
  /\ a \notin admins
  /\ place[<<g, a>>] = {}
  /\ place' = [place EXCEPT ![<<g, a>>] = {p}]
  /\ UNCHANGED <<admins, seed>>

Move(g, a, p) ==
  /\ place[<<g, a>>] # {}
  /\ place' = [place EXCEPT ![<<g, a>>] = {p}]
  /\ UNCHANGED <<admins, seed>>

Appoint(a) ==
  /\ \A g \in Game : place[<<g, a>>] = {}
  /\ admins' = admins \cup {a}
  /\ UNCHANGED <<place, seed>>

Dismiss(a) ==
  /\ admins' = admins \ {a}
  /\ UNCHANGED <<place, seed>>

SetUp(g, s) ==
  /\ seed[g] = {}
  /\ seed' = [seed EXCEPT ![g] = {s}]
  /\ UNCHANGED <<admins, place>>

Next ==
  \/ \E g \in Game, a \in Account, p \in Place : Sit(g, a, p) \/ Move(g, a, p)
  \/ \E a \in Account : Appoint(a) \/ Dismiss(a)
  \/ \E g \in Game, s \in Seed : SetUp(g, s)

Spec == Init /\ [][Next]_vars
================================================================================
