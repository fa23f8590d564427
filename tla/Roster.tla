--------------------------------- MODULE Roster --------------------------------
(***************************************************************************)
(* The HTTP handlers of internal/server that change accounts, games, seats *)
(* and game state, as the interleaving of their store calls.  A request    *)
(* runs on a goroutine of its own.  Every store call it makes is atomic    *)
(* (one read or write transaction), and between two calls any other        *)
(* request may run: pc names the call the handler makes next, and the      *)
(* other fields of req hold what it has read or decided so far.            *)
(***************************************************************************)
EXTENDS GameStore

CONSTANTS
  Request,      \* slots for requests in flight
  Handler,      \* the handlers that requests may reach in this instance
  Admins,       \* administrators and users the database starts with, as
  Users         \* seedInitialAdmin and seedDevelopmentAccounts insert them

ASSUME StartAssumption ==
  /\ Admins \cup Users \subseteq Account /\ Admins \cap Users = {}
  /\ IsFiniteSet(Admins \cup Users)

VARIABLES
  session,      \* accounts some live session acts as (identity.Effective)
  req,          \* what each request in flight knows
  told          \* seeds the API has shown, per account: {<<game, seed>>}

vars == <<tables, session, req, told>>

PC == {"idle",
  "createAccount.write",
  "updateAccount.read", "updateAccount.count", "updateAccount.write",
  "createGame.write", "updateGame.write",
  "saveMembership.account", "saveMembership.existing", "saveMembership.count",
  "saveMembership.write",
  "createAgentSeat.game", "createAgentSeat.write",
  "updateAgentSeat.seat", "updateAgentSeat.write",
  "addPlayer.gate", "addPlayer.game", "addPlayer.account", "addPlayer.write",
  "updatePlayer.gate", "updatePlayer.seat", "updatePlayer.write",
  "createGameState.gate", "createGameState.game", "createGameState.write",
  "createGameState.reply",
  "getPlayerGame.gate", "getPlayerGame.state"}

RequestRow == [pc: PC, by: Account \cup {Null}, game: Game \cup {Null},
  acct: Account \cup {Null}, seat: SeatId \cup {Null}, seed: Seed \cup {Null},
  role: {"keep", "admin", "user"}, set: Flag, gm: BOOLEAN, active: BOOLEAN]

Idle == [pc |-> "idle", by |-> Null, game |-> Null, acct |-> Null,
  seat |-> Null, seed |-> Null, role |-> "keep", set |-> "keep",
  gm |-> FALSE, active |-> FALSE]

TypeOK ==
  /\ StoreTypeOK
  /\ session \subseteq Account
  /\ req \in [Request -> RequestRow]
  /\ told \in [Account -> SUBSET (Game \X Seed)]

Init ==
  /\ account = [a \in Admins \cup Users |->
       [role |-> IF a \in Admins THEN "admin" ELSE "user",
        active |-> TRUE, activated |-> TRUE]]
  /\ game = NoRows /\ seat = NoRows /\ state = NoRows
  /\ session = {}
  /\ req = [r \in Request |-> Idle]
  /\ told = [a \in Account |-> {}]

At(r, pc) == req[r].pc = pc
Become(r, row) == req' = [req EXCEPT ![r] = row]
Goto(r, pc) == Become(r, [req[r] EXCEPT !.pc = pc])
Answer(r) == Become(r, Idle)
Reading == UNCHANGED <<tables, session, told>>        \* a step that only reads
Writing == UNCHANGED <<session, told>>

(***************************************************************************)
(* Sessions, as far as they matter here: an account that is active and     *)
(* activated can sign in, or an administrator can impersonate it; what     *)
(* happens to the account afterwards does not end the session.  A session  *)
(* that ends only removes behaviours.                                      *)
(***************************************************************************)
SignIn(a) ==
  /\ a \in DOMAIN account \ session
  /\ account[a].active /\ account[a].activated
  /\ session' = session \cup {a}
  /\ UNCHANGED <<tables, req, told>>

Redeem(a) ==
  /\ a \in DOMAIN account /\ ~account[a].activated
  /\ ActivateAccount(a)
  /\ UNCHANGED <<session, req, told>>

\* Middleware: authenticate puts the accounts of the session into the context,
\* and requireAdmin looks at that copy; nothing reads the actor's row again.
Arrive(r, a, pc) ==
  /\ At(r, "idle") /\ a \in session
  /\ Become(r, [Idle EXCEPT !.pc = pc, !.by = a])
  /\ Reading

AdminArrives(r, a, handler, pc) ==
  handler \in Handler /\ Admin(a) /\ Arrive(r, a, pc)

\* playerSeat and gameMasterSeat: what a path under /games/:gameID needs.
SeatRequired(r, g, gm) ==
  \E s \in SeatsOf(g, req[r].by) : seat[s].active /\ (gm => seat[s].gm)

(***************************************************************************)
(* Every early return: a 4xx answer, a store call that fails, a client     *)
(* that hangs up (its context cancels the next call), a crash.  The guards *)
(* of the other actions say when a handler may go on; this one says it may *)
(* always stop, leaving the tables as they are.                            *)
(***************************************************************************)
Return(r) == ~At(r, "idle") /\ Answer(r) /\ Reading

(***************************************************************************)
(* POST /admin/accounts and PATCH /admin/accounts/:accountID               *)
(***************************************************************************)
CreateAccountArrives(r, a) == AdminArrives(r, a, "createAccount", "createAccount.write")

CreateAccountWrite(r) ==
  /\ At(r, "createAccount.write")
  /\ \E a \in Account, row \in AccountRow : InsertAccount(a, row)
  /\ Answer(r) /\ Writing

UpdateAccountArrives(r, a) == AdminArrives(r, a, "updateAccount", "updateAccount.read")

LosesAdmin(role, set) == role = "user" \/ set = "off"

UpdateAccountRead(r) ==
  /\ At(r, "updateAccount.read")
  /\ \E a \in DOMAIN account, role \in {"keep", "admin", "user"}, set \in Flag :
       /\ ~(a = req[r].by /\ set = "off")        \* your own account
       /\ Become(r, [req[r] EXCEPT !.acct = a, !.role = role, !.set = set,
            !.pc = IF a \in ActiveAdmins /\ LosesAdmin(role, set)
                   THEN "updateAccount.count" ELSE "updateAccount.write"])
  /\ Reading

UpdateAccountCountsOne(r) ==                                    \* mutant
  /\ At(r, "updateAccount.count")
  /\ CountActiveAdmins >= 1
  /\ Goto(r, "updateAccount.write") /\ Reading
UpdateAccountCount(r) ==
  /\ At(r, "updateAccount.count")
  /\ CountActiveAdmins > 1
  /\ Goto(r, "updateAccount.write") /\ Reading

UpdateAccountWrite(r) ==
  /\ At(r, "updateAccount.write")
  /\ UpdateAccount(req[r].acct, req[r].role, req[r].set)
  /\ Answer(r) /\ Writing

(***************************************************************************)
(* POST /admin/games and PATCH /admin/games/:gameID                        *)
(***************************************************************************)
CreateGameArrives(r, a) == AdminArrives(r, a, "createGame", "createGame.write")

CreateGameWrite(r) ==
  /\ At(r, "createGame.write")
  /\ \E g \in Game : InsertGame(g)
  /\ Answer(r) /\ Writing

UpdateGameArrives(r, a) == AdminArrives(r, a, "updateGame", "updateGame.write")

UpdateGameWrite(r) ==
  /\ At(r, "updateGame.write")
  /\ \E g \in Game, set \in Flag : UpdateGame(g, set)
  /\ Answer(r) /\ Writing

(***************************************************************************)
(* PUT /admin/games/:gameID/memberships/:accountID                         *)
(***************************************************************************)
SaveMembershipArrives(r, a) == AdminArrives(r, a, "saveMembership", "saveMembership.account")

\* GameByID and AccountByID; a game once read is there for good.
SaveMembershipAccount(r) ==
  /\ At(r, "saveMembership.account")
  /\ \E g \in DOMAIN game, a \in DOMAIN account, gm, active \in BOOLEAN :
       /\ ~Admin(a)
       /\ Become(r, [req[r] EXCEPT !.pc = "saveMembership.existing", !.game = g,
                                   !.acct = a, !.gm = gm, !.active = active])
  /\ Reading

TakesMasterFlagAway(row, gm, active) == row.gm /\ row.active /\ ~gm   \* mutant
TakesMasterAway(row, gm, active) == row.gm /\ row.active /\ (~gm \/ ~active)

SaveMembershipExisting(r) ==
  /\ At(r, "saveMembership.existing")
  /\ Goto(r, IF \E s \in SeatsOf(req[r].game, req[r].acct) :
                  TakesMasterAway(seat[s], req[r].gm, req[r].active)
             THEN "saveMembership.count" ELSE "saveMembership.write")
  /\ Reading

SaveMembershipCount(r) ==
  /\ At(r, "saveMembership.count")
  /\ CountActiveGameMasters(req[r].game) > 1
  /\ Goto(r, "saveMembership.write") /\ Reading

SaveMembershipWrite(r) ==
  /\ At(r, "saveMembership.write")
  /\ \E s \in SeatId :
       UpsertMembership(s, req[r].game, req[r].acct, req[r].gm, req[r].active)
  /\ Answer(r) /\ Writing

(***************************************************************************)
(* POST /admin/games/:gameID/agents, PATCH /admin/games/:gameID/agents/:id *)
(***************************************************************************)
CreateAgentSeatArrives(r, a) == AdminArrives(r, a, "createAgentSeat", "createAgentSeat.game")

CreateAgentSeatGame(r) ==
  /\ At(r, "createAgentSeat.game")
  /\ \E g \in DOMAIN game, active \in BOOLEAN :
       /\ game[g]
       /\ Become(r, [req[r] EXCEPT !.pc = "createAgentSeat.write",
                                   !.game = g, !.active = active])
  /\ Reading

CreateAgentSeatWrite(r) ==
  /\ At(r, "createAgentSeat.write")
  /\ \E s \in SeatId : CreateAgentSeat(s, req[r].game, req[r].active)
  /\ Answer(r) /\ Writing

UpdateAgentSeatArrives(r, a) == AdminArrives(r, a, "updateAgentSeat", "updateAgentSeat.seat")

\* A field the body omits is copied from the row just read, and written back.
UpdateAgentSeatRead(r) ==
  /\ At(r, "updateAgentSeat.seat")
  /\ \E s \in DOMAIN seat, set \in Flag :
       /\ IsAgent(seat[s])
       /\ Become(r, [req[r] EXCEPT !.pc = "updateAgentSeat.write",
            !.game = seat[s].game, !.seat = s, !.set = set,
            !.active = Apply(set, seat[s].active)])
  /\ Reading

UpdateAgentSeatWrite(r) ==
  /\ At(r, "updateAgentSeat.write")
  /\ UpdateAgentSeat(req[r].seat, req[r].game, req[r].active)
  /\ Answer(r) /\ Writing

(***************************************************************************)
(* The game master's endpoints.  The gate reads the caller's seat once.    *)
(***************************************************************************)
PlayerArrives(r, a, handler, pc) == handler \in Handler /\ Arrive(r, a, pc)

Gate(r, here, gm, next) ==
  /\ At(r, here)
  /\ \E g \in DOMAIN game :
       /\ SeatRequired(r, g, gm)
       /\ Become(r, [req[r] EXCEPT !.pc = next, !.game = g])
  /\ Reading

GameExists(r, here, next) ==                                    \* mutant
  /\ At(r, here)
  /\ Goto(r, next) /\ Reading
GameIsActive(r, here, next) ==
  /\ At(r, here)
  /\ game[req[r].game]
  /\ Goto(r, next) /\ Reading

\* POST /games/:gameID/players
AddPlayerArrives(r, a) == PlayerArrives(r, a, "addPlayer", "addPlayer.gate")
AddPlayerGate(r) == Gate(r, "addPlayer.gate", TRUE, "addPlayer.game")
AddPlayerGame(r) == GameIsActive(r, "addPlayer.game", "addPlayer.account")

AddPlayerAccount(r) ==
  /\ At(r, "addPlayer.account")
  /\ \E a \in DOMAIN account, gm \in BOOLEAN :
       /\ account[a].active /\ ~Admin(a)
       /\ Become(r, [req[r] EXCEPT !.pc = "addPlayer.write", !.acct = a, !.gm = gm])
  /\ Reading

AddPlayerWrite(r) ==
  /\ At(r, "addPlayer.write")
  /\ \E s \in SeatId : CreateMembership(s, req[r].game, req[r].acct, req[r].gm)
  /\ Answer(r) /\ Writing

\* PATCH /games/:gameID/players/:playerID
UpdatePlayerArrives(r, a) == PlayerArrives(r, a, "updatePlayer", "updatePlayer.gate")
UpdatePlayerGate(r) == Gate(r, "updatePlayer.gate", TRUE, "updatePlayer.seat")

\* promote: is_gm is true or absent, for false is refused before the read.  An
\* absent is_gm becomes FALSE and an absent is_active the value just read.
UpdatePlayerReadsMaster(r) ==                                   \* mutant
  /\ At(r, "updatePlayer.seat")
  /\ \E s \in DOMAIN seat, promote \in BOOLEAN, set \in Flag :
       /\ promote \/ set # "keep"
       /\ seat[s].game = req[r].game /\ ~IsAgent(seat[s])
       /\ Become(r, [req[r] EXCEPT !.pc = "updatePlayer.write",
            !.acct = seat[s].account, !.set = set, !.gm = promote,
            !.active = Apply(set, seat[s].active)])
  /\ Reading
UpdatePlayerReadsAgent(r) ==                                    \* mutant
  /\ At(r, "updatePlayer.seat")
  /\ \E s \in DOMAIN seat, promote \in BOOLEAN, set \in Flag :
       /\ promote \/ set # "keep"
       /\ seat[s].game = req[r].game
       /\ ~seat[s].gm
       /\ Become(r, [req[r] EXCEPT !.pc = "updatePlayer.write",
            !.acct = seat[s].account, !.set = set, !.gm = promote,
            !.active = Apply(set, seat[s].active)])
  /\ Reading
UpdatePlayerRead(r) ==
  /\ At(r, "updatePlayer.seat")
  /\ \E s \in DOMAIN seat, promote \in BOOLEAN, set \in Flag :
       /\ promote \/ set # "keep"
       /\ seat[s].game = req[r].game /\ ~IsAgent(seat[s])
       /\ ~seat[s].gm
       /\ Become(r, [req[r] EXCEPT !.pc = "updatePlayer.write",
            !.acct = seat[s].account, !.set = set, !.gm = promote,
            !.active = Apply(set, seat[s].active)])
  /\ Reading

UpdatePlayerWrite(r) ==
  /\ At(r, "updatePlayer.write")
  /\ \E s \in SeatId :
       UpsertMembership(s, req[r].game, req[r].acct, req[r].gm, req[r].active)
  /\ Answer(r) /\ Writing

(***************************************************************************)
(* Game state: POST /games/:gameID/state and GET /games/:gameID.           *)
(***************************************************************************)
Tell(a, g, seed) == told' = [told EXCEPT ![a] = @ \cup {<<g, seed>>}]

CreateGameStateArrives(r, a) == PlayerArrives(r, a, "createGameState", "createGameState.gate")
CreateGameStateGate(r) == Gate(r, "createGameState.gate", TRUE, "createGameState.game")

CreateGameStateGame(r) ==
  /\ At(r, "createGameState.game")
  /\ game[req[r].game]
  /\ \E seed \in Seed :
       Become(r, [req[r] EXCEPT !.pc = "createGameState.write", !.seed = seed])
  /\ Reading

CreateGameStateWrite(r) ==
  /\ At(r, "createGameState.write")
  /\ InsertGameState(req[r].game, req[r].seed)
  /\ Goto(r, "createGameState.reply") /\ Writing

\* CreateGameState returns the row as it reads back, and the caller sees it all.
CreateGameStateReply(r) ==
  /\ At(r, "createGameState.reply")
  /\ Tell(req[r].by, req[r].game, state[req[r].game])
  /\ Answer(r) /\ UNCHANGED <<tables, session>>

GetPlayerGameArrives(r, a) == PlayerArrives(r, a, "getPlayerGame", "getPlayerGame.gate")

GetPlayerGameGate(r) ==
  /\ At(r, "getPlayerGame.gate")
  /\ \E g \in DOMAIN game, gm \in BOOLEAN :
       /\ SeatRequired(r, g, FALSE)
       /\ gm = SeatRequired(r, g, TRUE)
       /\ Become(r, [req[r] EXCEPT !.pc = "getPlayerGame.state", !.game = g, !.gm = gm])
  /\ Reading

GetPlayerGameState(r) ==
  /\ At(r, "getPlayerGame.state")
  /\ IF req[r].gm /\ req[r].game \in DOMAIN state
     THEN Tell(req[r].by, req[r].game, state[req[r].game])
     ELSE UNCHANGED told
  /\ Answer(r) /\ UNCHANGED <<tables, session>>

(***************************************************************************)
(* The service.                                                            *)
(***************************************************************************)
Arrival(r, a) ==
  \/ CreateAccountArrives(r, a) \/ UpdateAccountArrives(r, a)
  \/ CreateGameArrives(r, a) \/ UpdateGameArrives(r, a)
  \/ SaveMembershipArrives(r, a)
  \/ CreateAgentSeatArrives(r, a) \/ UpdateAgentSeatArrives(r, a)
  \/ AddPlayerArrives(r, a) \/ UpdatePlayerArrives(r, a)
  \/ CreateGameStateArrives(r, a) \/ GetPlayerGameArrives(r, a)

Read(r) ==
  \/ UpdateAccountRead(r) \/ UpdateAccountCount(r)
  \/ SaveMembershipAccount(r) \/ SaveMembershipExisting(r) \/ SaveMembershipCount(r)
  \/ CreateAgentSeatGame(r) \/ UpdateAgentSeatRead(r)
  \/ AddPlayerGate(r) \/ AddPlayerGame(r) \/ AddPlayerAccount(r)
  \/ UpdatePlayerGate(r) \/ UpdatePlayerRead(r)
  \/ CreateGameStateGate(r) \/ CreateGameStateGame(r)
  \/ GetPlayerGameGate(r)

Write(r) ==
  \/ CreateAccountWrite(r) \/ UpdateAccountWrite(r)
  \/ CreateGameWrite(r) \/ UpdateGameWrite(r)
  \/ SaveMembershipWrite(r)
  \/ CreateAgentSeatWrite(r) \/ UpdateAgentSeatWrite(r)
  \/ AddPlayerWrite(r) \/ UpdatePlayerWrite(r)
  \/ CreateGameStateWrite(r)

Reply(r) == CreateGameStateReply(r) \/ GetPlayerGameState(r)

Next ==
  \/ \E a \in Account : SignIn(a) \/ Redeem(a)
  \/ \E r \in Request : \/ \E a \in Account : Arrival(r, a)
                        \/ Read(r) \/ Write(r) \/ Reply(r) \/ Return(r)

Spec == Init /\ [][Next]_vars

(***************************************************************************)
(* Properties that hold however requests interleave.                       *)
(***************************************************************************)
\* Administrators are never in games: every human seat belongs to an account
\* that exists with the user role, although a promotion and a seating each
\* check the role before they write (0002_engine.sql, "An admin account can
\* never hold a seat, whatever code writes the row").
AdminsHoldNoSeat ==
  \A s \in DOMAIN seat : ~IsAgent(seat[s]) =>
    /\ seat[s].account \in DOMAIN account
    /\ account[seat[s].account].role = "user"

\* An account has one seat in a game, although an administrator saving a
\* membership and a game master adding a player may run at the same time
\* (games.go, CreateMembership: "two simultaneous adds cannot both win").
OneSeatPerAccount ==
  \A s, t \in DOMAIN seat :
    /\ ~IsAgent(seat[s])
    /\ seat[s].game = seat[t].game
    /\ seat[s].account = seat[t].account
    => s = t

\* Whatever seed the API has shown is the seed of the game, now and for good: of
\* two game masters setting a game up at once, the one who loses is not told a
\* seed that the game does not have.
ToldSeedIsTheSeed ==
  \A a \in Account : \A t \in told[a] :
    t[1] \in DOMAIN state /\ state[t[1]] = t[2]

\* What a handler hands to its next store call names rows that are there: the
\* caller, the account and the game it has read, and, in the reply to a set-up,
\* a game that has its state.  No update can therefore reach an agent's seat
\* through the NULL account_id that all agents share.
Sound(row, accounts, games, setUp) ==
  /\ row.pc # "idle" => row.by \in Account
  /\ row.pc \in {"updateAccount.count", "updateAccount.write",
                 "saveMembership.existing", "saveMembership.count",
                 "saveMembership.write", "addPlayer.write", "updatePlayer.write"}
       => row.acct \in accounts
  /\ row.pc \in {"saveMembership.existing", "saveMembership.count",
                 "saveMembership.write", "createAgentSeat.write",
                 "addPlayer.game", "addPlayer.account", "addPlayer.write",
                 "updatePlayer.seat", "updatePlayer.write",
                 "createGameState.game", "createGameState.write",
                 "getPlayerGame.state"}
       => row.game \in games
  /\ row.pc = "createGameState.write" => row.seed \in Seed
  /\ row.pc = "createGameState.reply" => row.game \in setUp
HandsOverRows ==
  \A r \in Request : Sound(req[r], DOMAIN account, DOMAIN game, DOMAIN state)

\* Rows are never deleted and a seat keeps its game and its holder: the id a
\* faction or a path refers to names the same player forever.
SeatsKeepTheirIdentity ==
  [][\A s \in DOMAIN seat :
       /\ s \in DOMAIN seat'
       /\ seat'[s].game = seat[s].game
       /\ seat'[s].account = seat[s].account]_seat

\* Seen as places in games rather than rows, the tables keep SeatBook's promise.
Administrators == {a \in DOMAIN account : Admin(a)}
PlacesOf(g, a) ==
  {[gm |-> seat[s].gm, active |-> seat[s].active] : s \in SeatsOf(g, a)}
Places == [ga \in Game \X Account |-> PlacesOf(ga[1], ga[2])]
Seeds == [g \in Game |-> IF g \in DOMAIN state THEN {state[g]} ELSE {}]
Book == INSTANCE SeatBook WITH admins <- Administrators, place <- Places, seed <- Seeds
KeepsTheBook == Book!Spec

(***************************************************************************)
(* Properties the guards of the handlers are there for.  They hold when    *)
(* requests run one at a time (Request a singleton); the README says which *)
(* fail when two requests interleave.                                      *)
(***************************************************************************)
\* README, "Guards that return 409: deactivating the last active administrator".
ActiveAdminRemains == Admins # {} => ActiveAdmins # {}

\* accounts.go, CountActiveAdmins: "refuse changes that would lock everyone out".
SomeAdminCanSignIn ==
  Admins # {} => \E a \in ActiveAdmins : account[a].activated

HasMaster(g) == CountActiveGameMasters(g) > 0

\* README, "demoting or deactivating a game's last active game master": a game
\* that has an active game master never ends up without one.
MasterRemains == [][\A g \in DOMAIN game : HasMaster(g) => HasMaster(g)']_seat

\* handlers_game_players.go, "a game master's seat is an administrator's
\* business": only PUT /admin/games/:gameID/memberships/:accountID takes the
\* game-master flag, or the active flag of a game master, away.
MastersAreTheAdministratorsBusiness ==
  [][\A s \in DOMAIN seat : s \in DOMAIN seat' =>
       \/ ~TakesMasterAway(seat[s], seat'[s].gm, seat'[s].active)
       \/ \E r \in Request : At(r, "saveMembership.write") /\ req'[r].pc = "idle"]_seat

\* Nobody is seated in, and nobody sets up, a game that is not active, unless an
\* administrator saves a membership, which does not look at the game's flag.
InactiveGamesStayAsTheyAre ==
  [][\/ \E r \in Request : At(r, "saveMembership.write") /\ req'[r].pc = "idle"
     \/ /\ \A s \in DOMAIN seat' \ DOMAIN seat : game[seat'[s].game]
        /\ \A g \in DOMAIN state' \ DOMAIN state : game[g]]_<<seat, state>>

\* PATCH .../players/:playerID and PATCH .../agents/:playerID: a body without
\* is_active leaves the flag of the seat as it is, although the handler writes
\* the column every time.
OmittedFlagsKept ==
  [][\A r \in Request : req[r].set = "keep" /\ req'[r].pc = "idle" =>
       /\ At(r, "updateAgentSeat.write") =>
            seat'[req[r].seat].active = seat[req[r].seat].active
       /\ At(r, "updatePlayer.write") =>
            \A s \in SeatsOf(req[r].game, req[r].acct) :
              seat'[s].active = seat[s].active]_vars
================================================================================
