------------------------------- MODULE GameStore -------------------------------
(***************************************************************************)
(* The rows of the database that decide who may run what: account, game,   *)
(* game_player (a seat) and game_state.  A table is a function from the    *)
(* keys in use to rows; no row of these tables is ever deleted, so the     *)
(* domains only grow.  Each operator below is one write transaction of     *)
(* internal/store: it either commits with all of its constraints checked   *)
(* or is refused and changes nothing (the caller then answers 409 or 404). *)
(***************************************************************************)
EXTENDS Naturals, FiniteSets

CONSTANTS
  Account,      \* account ids, one per email address
  Game,         \* game ids, one per name
  SeatId,       \* game_player ids; AUTOINCREMENT, so never used twice
  Seed,         \* values of game_state's (seed_hi, seed_lo) pair
  Null          \* SQL's NULL and Go's nil

ASSUME NullAssumption == Null \notin Account \cup Game \cup SeatId \cup Seed

VARIABLES
  account,      \* email and profile columns are left out
  game,         \* is_active
  seat,         \* game_player
  state         \* game_state: the seed the game was set up with

tables == <<account, game, seat, state>>

Flag == {"keep", "on", "off"}        \* a *bool of a request body; "keep" is nil
ApplyDefaultsOn(flag, old) == flag # "off"                      \* mutant
Apply(flag, old) == IF flag = "keep" THEN old ELSE flag = "on"

AccountRow == [role: {"admin", "user"}, active: BOOLEAN, activated: BOOLEAN]
SeatRow == [game: Game, account: Account \cup {Null},
            gm: BOOLEAN, active: BOOLEAN]

NoRows == [k \in {} |-> Null]                \* a table just created
WithRow(table, key, row) ==
  [k \in DOMAIN table \cup {key} |-> IF k = key THEN row ELSE table[k]]

IsAgent(row) == row.account = Null
SeatsOf(g, a) ==
  {s \in DOMAIN seat : seat[s].game = g /\ seat[s].account = a}
Seated(a) == \E s \in DOMAIN seat : seat[s].account = a
Admin(a) == a \in DOMAIN account /\ account[a].role = "admin"

StoreTypeOK ==
  /\ DOMAIN account \subseteq Account /\ account \in [DOMAIN account -> AccountRow]
  /\ DOMAIN game \subseteq Game /\ game \in [DOMAIN game -> BOOLEAN]
  /\ DOMAIN seat \subseteq SeatId /\ seat \in [DOMAIN seat -> SeatRow]
  /\ DOMAIN state \subseteq Game /\ state \in [DOMAIN state -> Seed]

(***************************************************************************)
(* Accounts.                                                               *)
(***************************************************************************)
ActiveAdmins ==
  {a \in DOMAIN account : account[a].role = "admin" /\ account[a].active}
CountActiveAdmins == Cardinality(ActiveAdmins)

InsertAccount(a, row) ==
  /\ a \notin DOMAIN account                             \* account_email_key
  /\ account' = WithRow(account, a, row)
  /\ UNCHANGED <<game, seat, state>>

\* ON UPDATE RESTRICT of game_player's key (account_id, account_role): while
\* a seat refers to (a, 'user') the role column cannot change.
RoleMayAlwaysChange(a, role) == TRUE                            \* mutant
RoleMayChange(a, role) ==
  \/ role \in {"keep", account[a].role}
  \/ ~Seated(a)

ChangedUnasked(row, role, active) ==                            \* mutant
  [row EXCEPT !.role = role, !.active = Apply(active, row.active)]
\* Only the columns the request names are in the SET list.
Changed(row, role, active) ==
  [row EXCEPT !.role = IF role = "keep" THEN row.role ELSE role,
              !.active = Apply(active, row.active)]

UpdateAccount(a, role, active) ==
  /\ a \in DOMAIN account
  /\ RoleMayChange(a, role)
  /\ account' = [account EXCEPT ![a] = Changed(account[a], role, active)]
  /\ UNCHANGED <<game, seat, state>>

\* The commit of RedeemActivation, whose transaction re-reads is_active.
ActivateAccount(a) ==
  /\ a \in DOMAIN account
  /\ account[a].active
  /\ account' = [account EXCEPT ![a].activated = TRUE]
  /\ UNCHANGED <<game, seat, state>>

(***************************************************************************)
(* Games and their state.                                                  *)
(***************************************************************************)
InsertGame(g) ==
  /\ g \notin DOMAIN game                                \* game_name_key
  /\ game' = WithRow(game, g, TRUE)
  /\ UNCHANGED <<account, seat, state>>

UpdateGame(g, active) ==
  /\ g \in DOMAIN game
  /\ game' = [game EXCEPT ![g] = Apply(active, @)]
  /\ UNCHANGED <<account, seat, state>>

ReplaceGameState(g, seed) ==                                    \* mutant
  /\ g \in DOMAIN game
  /\ state' = WithRow(state, g, seed)
  /\ UNCHANGED <<account, game, seat>>
InsertGameState(g, seed) ==
  /\ g \in DOMAIN game
  /\ g \notin DOMAIN state                               \* PRIMARY KEY (game_id)
  /\ state' = WithRow(state, g, seed)
  /\ UNCHANGED <<account, game, seat>>

(***************************************************************************)
(* Seats.                                                                  *)
(***************************************************************************)
\* The foreign keys of a human seat's row: the game exists, and so does the
\* parent key (a, 'user').
ParentsExist(g, a) ==
  /\ g \in DOMAIN game
  /\ a \in DOMAIN account
  /\ account[a].role = "user"

InsertSeat(s, row) ==
  /\ s \notin DOMAIN seat
  /\ seat' = WithRow(seat, s, row)
  /\ UNCHANGED <<account, game, state>>

CreateMembershipWithoutKey(s, g, a, gm) ==                      \* mutant
  /\ ParentsExist(g, a)
  /\ InsertSeat(s, [game |-> g, account |-> a, gm |-> gm, active |-> TRUE])
CreateMembership(s, g, a, gm) ==
  /\ ParentsExist(g, a)
  /\ SeatsOf(g, a) = {}                                  \* game_player_game_account_key
  /\ InsertSeat(s, [game |-> g, account |-> a, gm |-> gm, active |-> TRUE])

\* INSERT ... ON CONFLICT (game_id, account_id) DO UPDATE.
InsertMembershipWithoutKey(s, g, a, gm, active) ==              \* mutant
  /\ ParentsExist(g, a)
  /\ InsertSeat(s, [game |-> g, account |-> a, gm |-> gm, active |-> active])
InsertMembership(s, g, a, gm, active) ==
  /\ ParentsExist(g, a)
  /\ SeatsOf(g, a) = {}
  /\ InsertSeat(s, [game |-> g, account |-> a, gm |-> gm, active |-> active])

InsertOrReplaceMembership(g, a, gm, active) ==                  \* mutant
  /\ SeatsOf(g, a) # {}
  /\ \E t \in SeatId \ DOMAIN seat :
       seat' = [s \in (DOMAIN seat \ SeatsOf(g, a)) \cup {t} |-> IF s \in DOMAIN seat
                  THEN seat[s]
                  ELSE [game |-> g, account |-> a, gm |-> gm, active |-> active]]
  /\ UNCHANGED <<account, game, state>>
ReplaceMembership(g, a, gm, active) ==
  /\ SeatsOf(g, a) # {}
  /\ seat' = [s \in DOMAIN seat |->
                IF s \in SeatsOf(g, a)
                THEN [seat[s] EXCEPT !.gm = gm, !.active = active]
                ELSE seat[s]]
  /\ UNCHANGED <<account, game, state>>

UpsertMembership(s, g, a, gm, active) ==
  \/ InsertMembership(s, g, a, gm, active)
  \/ ReplaceMembership(g, a, gm, active)

CountActiveGameMasters(g) ==
  Cardinality({s \in DOMAIN seat : /\ seat[s].game = g
                                   /\ seat[s].gm /\ seat[s].active
                                   /\ ~IsAgent(seat[s])})

CreateAgentSeat(s, g, active) ==
  /\ g \in DOMAIN game
  /\ InsertSeat(s, [game |-> g, account |-> Null,
                    gm |-> FALSE, active |-> active])

UpdateAgentSeat(s, g, active) ==
  /\ s \in DOMAIN seat
  /\ seat[s].game = g
  /\ IsAgent(seat[s])
  /\ seat' = [seat EXCEPT ![s].active = active]
  /\ UNCHANGED <<account, game, state>>

(***************************************************************************)
(* Any one of these transactions, with any arguments.                      *)
(***************************************************************************)
StoreNext ==
  \/ \E a \in Account, row \in AccountRow : InsertAccount(a, row)
  \/ \E a \in Account, role \in {"keep", "admin", "user"}, set \in Flag :
       UpdateAccount(a, role, set)
  \/ \E a \in Account : ActivateAccount(a)
  \/ \E g \in Game : InsertGame(g)
  \/ \E g \in Game, set \in Flag : UpdateGame(g, set)
  \/ \E g \in Game, seed \in Seed : InsertGameState(g, seed)
  \/ \E s \in SeatId, g \in Game, a \in Account, gm, active \in BOOLEAN :
       \/ CreateMembership(s, g, a, gm)
       \/ UpsertMembership(s, g, a, gm, active)
       \/ CreateAgentSeat(s, g, active)
       \/ UpdateAgentSeat(s, g, active)
================================================================================
