-------------------------------- MODULE Clusters -------------------------------
(***************************************************************************)
(* The map of a game: the tables cluster and stellium, and the two         *)
(* handlers of /games/:gameID/cluster as the interleaving of their store   *)
(* calls, beside any transactions of other requests on the tables that     *)
(* these handlers read.                                                    *)
(***************************************************************************)
EXTENDS GameStore, Kiss, Sequences

CONSTANTS
  Request,      \* slots for requests in flight
  Users         \* accounts with the user role that the database starts with

ASSUME UsersAssumption == Users \subseteq Account
ASSUME StreamAssumption ==
  \A seed \in Seed, count \in Count : \A n \in 1 .. count * DrawsPerStellium :
    Stream(seed, n) \in Direction

VARIABLES
  cluster,      \* per game, what was asked for: count and radius
  stellium,     \* rows in the order of their ids, which are their positions
  req           \* what each request in flight knows, or answered last

vars == <<tables, cluster, stellium, req>>

Shape == [count: Count, radius: Radius]
StelliumRow == [game: Game, at: Point]

IdsOf(g) == {i \in DOMAIN stellium : stellium[i].game = g}
MapOf(g) == {stellium[i].at : i \in IdsOf(g)}

\* GenerateCluster for every seed and shape; {} where the sphere is crowded.
Generated ==
  [asked \in Seed \X Shape |->
     IF Crowded(asked[1], asked[2].count, asked[2].radius)
     THEN {} ELSE Cluster(asked[1], asked[2].count, asked[2].radius)]

PC == {"idle", "create.game", "create.state", "create.absent", "create.write",
       "create.row", "create.map", "get.game", "get.state", "get.row", "get.map",
       "answered"}

RequestRow == [pc: PC, game: Game \cup {Null}, gm: BOOLEAN, active: BOOLEAN,
  setUp: BOOLEAN, seed: Seed \cup {Null}, shape: Shape \cup {Null},
  row: Shape \cup {Null}, ids: SUBSET Nat, offer: BOOLEAN]

Idle == [pc |-> "idle", game |-> Null, gm |-> FALSE, active |-> FALSE,
  setUp |-> FALSE, seed |-> Null, shape |-> Null, row |-> Null, ids |-> {},
  offer |-> FALSE]

TypeOK ==
  /\ StoreTypeOK
  /\ DOMAIN cluster \subseteq Game /\ cluster \in [DOMAIN cluster -> Shape]
  /\ stellium \in Seq(StelliumRow)
  /\ req \in [Request -> RequestRow]

Init ==
  /\ account = [a \in Users |-> [role |-> "user", active |-> TRUE, activated |-> TRUE]]
  /\ game = NoRows /\ seat = NoRows /\ state = NoRows
  /\ cluster = NoRows /\ stellium = <<>>
  /\ req = [r \in Request |-> Idle]

At(r, pc) == req[r].pc = pc
Become(r, row) == req' = [req EXCEPT ![r] = row]
Goto(r, pc) == Become(r, [req[r] EXCEPT !.pc = pc])
Reading == UNCHANGED <<tables, cluster, stellium>>

(***************************************************************************)
(* Transactions.                                                           *)
(***************************************************************************)
\* One transaction inserts the cluster row and every stellium.  Refused are a
\* second cluster (primary key), a game that is not there, values outside the
\* CHECKs and two stellia at one place (unique index); then nothing is stored.
ReplaceCluster(g, shape, list) ==                               \* mutant
  /\ g \in DOMAIN game
  /\ cluster' = WithRow(cluster, g, shape)
  /\ stellium' = SelectSeq(stellium, LAMBDA row : row.game # g)
                   \o [i \in DOMAIN list |-> [game |-> g, at |-> list[i]]]
  /\ UNCHANGED tables
CreateCluster(g, shape, list) ==
  /\ g \in DOMAIN game
  /\ g \notin DOMAIN cluster
  /\ shape \in Shape
  /\ \A i \in DOMAIN list : list[i] \in Point
  /\ \A i, j \in DOMAIN list : list[i] = list[j] => i = j
  /\ cluster' = WithRow(cluster, g, shape)
  /\ stellium' = stellium \o [i \in DOMAIN list |-> [game |-> g, at |-> list[i]]]
  /\ UNCHANGED tables

\* Other requests: games come and are switched on and off, seats come and
\* change, and game masters set games up.
Beside == UNCHANGED <<cluster, stellium, req>>
GamesElsewhere ==
  /\ \/ \E g \in Game : InsertGame(g)
     \/ \E g \in Game, set \in Flag : UpdateGame(g, set)
  /\ Beside
\* CreateMembership does what an upsert of an active seat does where none is.
SeatsElsewhere ==
  /\ \E s \in SeatId, g \in Game, a \in Account, gm, active \in BOOLEAN :
       UpsertMembership(s, g, a, gm, active)
  /\ Beside
StateElsewhere ==
  /\ \E g \in Game, seed \in Seed : InsertGameState(g, seed)
  /\ Beside

(***************************************************************************)
(* playerSeat and gameMasterSeat: the seat, then the game.  What the caller *)
(* asks for is decided with the first of the two.                          *)
(***************************************************************************)
Arrive(r, pc, shape) ==
  /\ req[r].pc \in {"idle", "answered"}
  /\ \E g \in Game, a \in DOMAIN account : \E s \in SeatsOf(g, a) :
       /\ seat[s].active
       /\ Become(r, [Idle EXCEPT !.pc = pc, !.game = g, !.gm = seat[s].gm,
                                 !.shape = shape])
  /\ Reading

ReadGame(r, here, next) ==
  /\ At(r, here)
  /\ Become(r, [req[r] EXCEPT !.pc = next, !.active = game[req[r].game]])
  /\ Reading

\* Every early return, failed call or client that hangs up.
Return(r) == req[r].pc \notin {"idle", "answered"} /\ Become(r, Idle) /\ Reading

(***************************************************************************)
(* POST /games/:gameID/cluster                                             *)
(***************************************************************************)
CreateArrives(r) == \E shape \in Shape : Arrive(r, "create.game", shape)

CreateGame(r) == req[r].gm /\ ReadGame(r, "create.game", "create.state")

CreateStateOrDefault(r) ==                                      \* mutant
  /\ At(r, "create.state")
  /\ req[r].active
  /\ \E seed \in IF req[r].game \in DOMAIN state THEN {state[req[r].game]} ELSE Seed :
       Become(r, [req[r] EXCEPT !.pc = "create.absent", !.seed = seed])
  /\ Reading
CreateState(r) ==
  /\ At(r, "create.state")
  /\ req[r].active
  /\ req[r].game \in DOMAIN state
  /\ Become(r, [req[r] EXCEPT !.pc = "create.absent", !.seed = state[req[r].game]])
  /\ Reading

CreateAbsent(r) ==
  /\ At(r, "create.absent")
  /\ req[r].game \notin DOMAIN cluster
  /\ Goto(r, "create.write") /\ Reading

\* Generating needs no store; a crowded sphere is answered 422.
CreateWrite(r) ==
  /\ At(r, "create.write")
  /\ Generated[<<req[r].seed, req[r].shape>>] # {}
  /\ \E list \in Sorted(Generated[<<req[r].seed, req[r].shape>>]) :
       CreateCluster(req[r].game, req[r].shape, list)
  /\ Goto(r, "create.row")

\* CreateCluster answers with the row as it reads back.
CreateRow(r) ==
  /\ At(r, "create.row")
  /\ Become(r, [req[r] EXCEPT !.pc = "create.map", !.row = cluster[req[r].game]])
  /\ Reading

ReadMap(r, here) ==
  /\ At(r, here)
  /\ Become(r, [req[r] EXCEPT !.pc = "answered", !.ids = IdsOf(req[r].game)])
  /\ Reading

(***************************************************************************)
(* GET /games/:gameID/cluster                                              *)
(***************************************************************************)
GetArrives(r) == Arrive(r, "get.game", Null)

GetGame(r) == ReadGame(r, "get.game", "get.state")

GetState(r) ==
  /\ At(r, "get.state")
  /\ Become(r, [req[r] EXCEPT !.pc = "get.row",
                              !.setUp = req[r].game \in DOMAIN state])
  /\ Reading

GetRow(r) ==
  /\ At(r, "get.row")
  /\ IF req[r].game \in DOMAIN cluster
     THEN Become(r, [req[r] EXCEPT !.pc = "get.map", !.row = cluster[req[r].game]])
     ELSE Become(r, [req[r] EXCEPT !.pc = "answered",
                       !.offer = req[r].gm /\ req[r].setUp /\ req[r].active])
  /\ Reading

(***************************************************************************)
(* The handlers beside the rest of the service.                            *)
(***************************************************************************)
Step(r) ==
  \/ CreateArrives(r) \/ CreateGame(r) \/ CreateState(r) \/ CreateAbsent(r)
  \/ CreateWrite(r) \/ CreateRow(r) \/ ReadMap(r, "create.map")
  \/ GetArrives(r) \/ GetGame(r) \/ GetState(r) \/ GetRow(r)
  \/ ReadMap(r, "get.map")
  \/ Return(r)

Next ==
  \/ GamesElsewhere \/ SeatsElsewhere \/ StateElsewhere
  \/ \E r \in Request : Step(r)

Spec == Init /\ [][Next]_vars

(***************************************************************************)
(* Properties.                                                             *)
(***************************************************************************)
\* A map is whole or not there: it has as many stellia as its row says, and no
\* game without a row has any, although two requests may generate different maps
\* for the game at once
\* (0004_cluster.sql: "The number of stellium rows should equal stellium_count;
\* SQLite cannot express that, and the generator guarantees it").
MapsAreWhole ==
  /\ \A i \in DOMAIN stellium : stellium[i].game \in DOMAIN cluster
  /\ \A g \in DOMAIN cluster :
       /\ Cardinality(MapOf(g)) = cluster[g].count
       /\ Cardinality(IdsOf(g)) = cluster[g].count

\* Every coordinate of a stored map is within the radius stored beside it, which
\* the schema cannot check ("a CHECK cannot read the parent row") and rounding
\* away from zero works against.
WithinTheRadius ==
  \A g \in DOMAIN cluster : \A p \in MapOf(g) : \A i \in 1 .. 3 :
    p[i] \in -cluster[g].radius .. cluster[g].radius

\* The ids of a game's stellia follow their places, whatever the order in which
\* the generator drew them (engine/generators.go: "without this, two runs of the
\* same seed would produce the same map with different row ids").
IdsFollowTheMap ==
  \A g \in Game : \A i, j \in IdsOf(g) :
    i < j => Before(stellium[i].at, stellium[j].at)

\* Whatever map an answer has shown is the game's map, down to the ids, now and
\* for good: to the game master who made it, to one who came second and to any
\* player (README, "A player therefore reads exactly the map its game master
\* does, down to the ids").  A form is offered only for a game that is set up.
ShownMapIsTheMap ==
  \A r \in Request : At(r, "answered") =>
    /\ req[r].row # Null =>
         /\ req[r].game \in DOMAIN cluster
         /\ req[r].row = cluster[req[r].game]
         /\ req[r].ids = IdsOf(req[r].game)
         /\ req[r].shape \in {Null, req[r].row}
    /\ req[r].offer => req[r].game \in DOMAIN state

\* The tables as stages: a game's map is drawn once, from the seed the game was
\* set up with and the settings stored beside it, so that they reproduce it
\* exactly (README, "reproduce it exactly").
StageOf(g) ==
  IF g \in DOMAIN cluster
  THEN <<IF g \in DOMAIN state THEN state[g] ELSE Null, cluster[g], MapOf(g)>>
  ELSE IF g \in DOMAIN state THEN <<state[g]>> ELSE <<>>
Stages == [g \in Game |-> StageOf(g)]
Drawn(seed, shape) == Generated[<<seed, shape>>]
SetUp == INSTANCE GameSetUp WITH stage <- Stages
KeepsTheStages == SetUp!Spec
================================================================================
