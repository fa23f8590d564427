---------------------------- MODULE ClustersProofs -----------------------------
(***************************************************************************)
(* Theorems about Clusters: maps are whole, within their radius and the    *)
(* same to every reader, for any number of games and requests, any streams *)
(* of draws and any bounds of the settings.                                *)
(***************************************************************************)
EXTENDS Clusters, FiniteSetTheorems, SequenceTheorems, WellFoundedInduction, TLAPS

(***************************************************************************)
(* The generator.                                                          *)
(***************************************************************************)
\* Rounding and the clamp keep a coordinate within the radius.
LEMMA CeilWithin ==
  ASSUME NEW v \in Int, NEW radius \in Nat
  PROVE  CeilAwayFromZero(v, radius) \in -radius .. radius
<1>1. Unit \in Nat \ {0}
  BY KissAssumption
<1>2. (v + Unit - 1) \div Unit \in Int /\ -((-v + Unit - 1) \div Unit) \in Int
  BY <1>1
<1>3. \A n \in Int : Clamp(n, radius) \in -radius .. radius
  BY DEF Clamp
<1> QED
  BY <1>2, <1>3 DEF CeilAwayFromZero

LEMMA PointWithin ==
  ASSUME NEW d \in Direction, NEW radius \in Nat
  PROVE  \A i \in 1 .. 3 : DrawPoint(d, radius)[i] \in -radius .. radius
<1>1. radius * d[1] \in Int /\ radius * d[2] \in Int /\ radius * d[3] \in Int
  BY KissAssumption DEF Direction
<1>2. /\ DrawPoint(d, radius)[1] \in -radius .. radius
      /\ DrawPoint(d, radius)[2] \in -radius .. radius
      /\ DrawPoint(d, radius)[3] \in -radius .. radius
  <2>1. /\ DrawPoint(d, radius)[1] = CeilAwayFromZero(radius * d[1], radius)
        /\ DrawPoint(d, radius)[2] = CeilAwayFromZero(radius * d[2], radius)
        /\ DrawPoint(d, radius)[3] = CeilAwayFromZero(radius * d[3], radius)
    BY DEF DrawPoint
  <2> QED
    BY <1>1, <2>1, CeilWithin
<1>3. \A i \in 1 .. 3 : i = 1 \/ i = 2 \/ i = 3
  OBVIOUS
<1> QED
  BY <1>2, <1>3

LEMMA PointTyped ==
  ASSUME NEW d \in Direction, NEW radius \in Radius
  PROVE  DrawPoint(d, radius) \in Point
<1>1. radius \in Nat /\ radius <= MaxRadius /\ MaxRadius \in Nat
  BY KissAssumption DEF Radius
<1>2. \A i \in 1 .. 3 : DrawPoint(d, radius)[i] \in -radius .. radius
  BY <1>1, PointWithin
<1>3. -radius .. radius \subseteq Coordinate
  BY <1>1 DEF Coordinate
<1> QED
  BY <1>2, <1>3 DEF DrawPoint, Point

\* A set of naturals that is not empty has a least element.
LEMMA LeastElement ==
  ASSUME NEW T, T \subseteq Nat, T # {}
  PROVE  \E n \in T : \A k \in T : n <= k
<1>1. PICK n \in T : \A k \in T : ~(<<k, n>> \in OpToRel(<, Nat))
  BY NatLessThanWellFounded, WFMin
<1>2. \A k \in T : ~(k < n)
  BY <1>1 DEF OpToRel
<1> QED
  BY <1>2

LEMMA ClusterFacts ==
  ASSUME NEW seed \in Seed, NEW count \in Count, NEW radius \in Radius,
         ~Crowded(seed, count, radius)
  PROVE  /\ Cardinality(Cluster(seed, count, radius)) = count
         /\ Cluster(seed, count, radius) \subseteq Point
         /\ \A p \in Cluster(seed, count, radius) : \A i \in 1 .. 3 : p[i] \in -radius .. radius
<1> DEFINE enough == Enough(seed, count, radius)
           least == CHOOSE n \in enough : \A k \in enough : n <= k
<1>1. count \in Nat /\ radius \in Nat /\ count * DrawsPerStellium \in Nat
  BY KissAssumption DEF Count, Radius
<1>2. enough \subseteq Nat /\ enough # {}
  BY <1>1 DEF Enough, Crowded
<1>3. \E n \in enough : \A k \in enough : n <= k
  BY <1>2, LeastElement
<1>4. least \in enough
  BY <1>3
<1> HIDE DEF least
<1>5. /\ least \in 0 .. count * DrawsPerStellium
      /\ Cardinality(Points(seed, radius, least)) = count
  BY <1>4 DEF Enough
<1>6. Cluster(seed, count, radius) = Points(seed, radius, least)
  BY DEF Cluster, least
<1>7. ASSUME NEW p \in Points(seed, radius, least)
      PROVE  p \in Point /\ \A i \in 1 .. 3 : p[i] \in -radius .. radius
  <2>1. PICK i \in 1 .. least : p = DrawPoint(Stream(seed, i), radius)
    BY DEF Points
  <2>2. i \in 1 .. count * DrawsPerStellium
    BY <1>1, <1>5
  <2>3. Stream(seed, i) \in Direction
    BY <2>2, StreamAssumption
  <2> QED
    BY <1>1, <2>1, <2>3, PointTyped, PointWithin
<1> QED
  BY <1>5, <1>6, <1>7

LEMMA GeneratedFacts ==
  ASSUME NEW seed \in Seed, NEW shape \in Shape, Generated[<<seed, shape>>] # {}
  PROVE  /\ Cardinality(Generated[<<seed, shape>>]) = shape.count
         /\ shape.count \in Nat
         /\ Generated[<<seed, shape>>] \subseteq Point
         /\ \A p \in Generated[<<seed, shape>>] : \A i \in 1 .. 3 :
              p[i] \in -shape.radius .. shape.radius
<1>1. shape.count \in Count /\ shape.radius \in Radius
  BY DEF Shape
<1>2. Generated[<<seed, shape>>] = IF Crowded(seed, shape.count, shape.radius) THEN {}
                               ELSE Cluster(seed, shape.count, shape.radius)
  BY DEF Generated
<1>3. ~Crowded(seed, shape.count, shape.radius)
  BY <1>2
<1> QED
  BY <1>1, <1>2, <1>3, ClusterFacts, KissAssumption DEF Count

(***************************************************************************)
(* The stellium table: rows are appended, so older ones keep their ids.    *)
(***************************************************************************)
\* The table new is old with the n stellia of the list at its end.
Appended(old, new, g, n, list) ==
  /\ new \in Seq(StelliumRow) /\ Len(old) \in Nat
  /\ DOMAIN old = 1 .. Len(old) /\ DOMAIN new = 1 .. (Len(old) + n)
  /\ \A i \in 1 .. Len(old) : new[i] = old[i]
  /\ \A i \in 1 .. n : new[Len(old) + i].game = g /\ new[Len(old) + i].at = list[i]

\* CreateCluster's INSERTs append, so the rows that were there keep their ids.
LEMMA AppendedRows ==
  ASSUME NEW g \in Game, NEW n \in Nat, NEW list \in [1 .. n -> Point],
         NEW old \in Seq(StelliumRow), NEW new,
         new = old \o [i \in DOMAIN list |-> [game |-> g, at |-> list[i]]]
  PROVE  Appended(old, new, g, n, list)
<1> DEFINE rows == [i \in 1 .. n |-> [game |-> g, at |-> list[i]]]
<1>1. \A i \in 1 .. n : [game |-> g, at |-> list[i]] \in StelliumRow
  BY DEF StelliumRow
<1>2. rows \in [1 .. n -> StelliumRow]
  BY <1>1
<1>3. rows \in Seq(StelliumRow) /\ Len(rows) = n
  BY <1>2
<1>4. \A i \in 1 .. n : rows[i].game = g /\ rows[i].at = list[i]
  OBVIOUS
<1>5. new = old \o rows
  <2>1. DOMAIN list = 1 .. n
    OBVIOUS
  <2> QED
    BY <2>1
<1> HIDE DEF rows
<1>6. Len(old) \in Nat /\ DOMAIN old = 1 .. Len(old)
  OBVIOUS
<1>7. /\ new \in Seq(StelliumRow) /\ Len(new) = Len(old) + n
      /\ \A i \in 1 .. Len(old) + n : new[i] =
           IF i <= Len(old) THEN old[i] ELSE rows[i - Len(old)]
  <2>1. /\ old \o rows \in Seq(StelliumRow)
        /\ Len(old \o rows) = Len(old) + Len(rows)
        /\ \A i \in 1 .. Len(old) + Len(rows) : (old \o rows)[i] =
             IF i <= Len(old) THEN old[i] ELSE rows[i - Len(old)]
    BY <1>3, ConcatProperties, Zenon
  <2> QED
    BY <1>3, <1>5, <2>1, Zenon
<1>8. \A i \in 1 .. Len(old) : new[i] = old[i]
  BY <1>6, <1>7
<1>9. ASSUME NEW i \in 1 .. n PROVE new[Len(old) + i] = rows[i]
  <2>1. /\ Len(old) + i \in 1 .. Len(old) + n /\ ~(Len(old) + i <= Len(old))
        /\ (Len(old) + i) - Len(old) = i
    BY <1>6
  <2> QED
    BY <1>7, <2>1
<1> QED
  BY <1>4, <1>6, <1>7, <1>8, <1>9 DEF Appended

(***************************************************************************)
(* The invariant.                                                          *)
(***************************************************************************)
Creating == {"create.game", "create.state", "create.absent", "create.write", "create.row"}
Getting == {"get.game", "get.state", "get.row"}
Mapping == {"create.map", "get.map"}

\* What an answer has shown.
Shown(row) ==
  /\ row.row # Null =>
       /\ row.game \in DOMAIN cluster
       /\ row.row = cluster[row.game]
       /\ row.ids = IdsOf(row.game)
       /\ row.shape \in {Null, row.row}
  /\ row.offer => row.game \in DOMAIN state

\* What a request knows, by how far it has come.
RowOK(row) ==
  /\ row.pc # "idle" => row.game \in DOMAIN game
  /\ row.pc \in Creating => row.shape \in Shape
  /\ row.pc \in {"create.absent", "create.write"} =>
       row.game \in DOMAIN state /\ row.seed = state[row.game]
  /\ row.pc \in Creating \cup Getting => row.row = Null
  /\ row.pc \in Creating \cup Getting \cup Mapping => row.offer = FALSE
  /\ row.pc \in Getting => row.shape = Null
  /\ row.pc = "create.row" => row.game \in DOMAIN cluster /\ cluster[row.game] = row.shape
  /\ row.pc = "get.row" => (row.setUp => row.game \in DOMAIN state)
  /\ row.pc \in Mapping =>
       /\ row.game \in DOMAIN cluster /\ row.row = cluster[row.game]
       /\ row.shape \in {Null, row.row}
  /\ row.pc = "answered" => Shown(row)

\* The map of each game is the one its seed draws, and its rows are its own.
Whole(g) ==
  /\ g \in DOMAIN state
  /\ Generated[<<state[g], cluster[g]>>] # {}
  /\ MapOf(g) = Generated[<<state[g], cluster[g]>>]
  /\ Cardinality(IdsOf(g)) = cluster[g].count
RowsBelong == \A i \in DOMAIN stellium : stellium[i].game \in DOMAIN cluster
SeatsBelong == \A s \in DOMAIN seat : seat[s].game \in DOMAIN game

Inv ==
  /\ TypeOK /\ RowsBelong /\ SeatsBelong /\ IdsFollowTheMap
  /\ \A g \in DOMAIN cluster : Whole(g)
  /\ \A r \in Request : RowOK(req[r])

LEMMA InitInv == Init => Inv
<1> SUFFICES ASSUME Init PROVE Inv
  OBVIOUS
<1>1. \A a \in Users : [role |-> "user", active |-> TRUE, activated |-> TRUE] \in AccountRow
  BY DEF AccountRow
<1>2. StoreTypeOK
  BY <1>1, UsersAssumption DEF Init, StoreTypeOK, NoRows
<1>3. cluster = NoRows /\ DOMAIN NoRows = {} /\ stellium = <<>>
  BY DEF Init, NoRows
<1>4. \A r \in Request : req[r] = Idle
  BY DEF Init
<1>5. Idle \in RequestRow /\ RowOK(Idle)
  BY DEF Idle, RequestRow, PC, RowOK, Creating, Getting, Mapping
<1>6. stellium \in Seq(StelliumRow) /\ DOMAIN stellium = {}
  BY <1>3
<1>7. cluster \in [DOMAIN cluster -> Shape] /\ DOMAIN cluster = {}
  BY <1>3 DEF NoRows
<1>8. TypeOK
  BY <1>2, <1>5, <1>6, <1>7 DEF TypeOK, Init
<1>9. RowsBelong /\ SeatsBelong /\ IdsFollowTheMap
  BY <1>6 DEF RowsBelong, SeatsBelong, IdsFollowTheMap, IdsOf, Init, NoRows
<1> QED
  BY <1>4, <1>5, <1>7, <1>8, <1>9 DEF Inv

(***************************************************************************)
(* Tables that only grow keep what requests know.                          *)
(***************************************************************************)
Grows ==
  /\ DOMAIN game \subseteq DOMAIN game'
  /\ \A g \in DOMAIN state : g \in DOMAIN state' /\ state'[g] = state[g]
  /\ \A g \in DOMAIN cluster : /\ g \in DOMAIN cluster' /\ cluster'[g] = cluster[g]
                               /\ IdsOf(g)' = IdsOf(g)

LEMMA StillKnows ==
  ASSUME Grows, NEW row, RowOK(row)
  PROVE  RowOK(row)'
<1>1. row.pc = "answered" => Shown(row)'
  BY DEF Grows, RowOK, Shown
<1>2. /\ row.pc # "idle" => row.game \in DOMAIN game'
      /\ row.pc \in {"create.absent", "create.write"} =>
           row.game \in DOMAIN state' /\ row.seed = state'[row.game]
      /\ row.pc = "create.row" => row.game \in DOMAIN cluster' /\ cluster'[row.game] = row.shape
      /\ row.pc = "get.row" => (row.setUp => row.game \in DOMAIN state')
      /\ row.pc \in Mapping => row.game \in DOMAIN cluster' /\ row.row = cluster'[row.game]
  BY DEF Grows, RowOK
<1> QED
  BY <1>1, <1>2 DEF RowOK

\* A step of a handler that writes nothing.
LEMMA ReadingStep ==
  ASSUME Inv, NEW r \in Request, NEW row \in RequestRow, RowOK(row), Become(r, row), Reading
  PROVE  Inv' /\ Stages' = Stages
<1>1. /\ account' = account /\ game' = game /\ seat' = seat /\ state' = state
      /\ cluster' = cluster /\ stellium' = stellium
  BY DEF Reading, tables
<1>2. req' \in [Request -> RequestRow] /\ req'[r] = row /\ \A q \in Request \ {r} : req'[q] = req[q]
  BY DEF Become, Inv, TypeOK
<1>3. TypeOK'
  BY <1>1, <1>2 DEF Inv, TypeOK, StoreTypeOK
<1>4. Grows
  BY <1>1 DEF Grows, IdsOf
<1>5. ASSUME NEW q \in Request PROVE RowOK(req[q])'
  <2>1. CASE q = r
    <3>1. RowOK(row)'
      BY <1>4, StillKnows
    <3> QED
      BY <1>2, <2>1, <3>1
  <2>2. CASE q # r
    <3>1. RowOK(req[q]) /\ req'[q] = req[q]
      BY <1>2, <2>2 DEF Inv
    <3> QED
      BY <1>4, <3>1, StillKnows
  <2> QED
    BY <2>1, <2>2
<1>6. RowsBelong' /\ SeatsBelong' /\ IdsFollowTheMap' /\ (\A g \in DOMAIN cluster : Whole(g))'
  <2>1. RowsBelong' /\ SeatsBelong'
    BY <1>1 DEF Inv, RowsBelong, SeatsBelong
  <2>2. IdsFollowTheMap'
    BY <1>1 DEF Inv, IdsFollowTheMap, IdsOf
  <2>3. ASSUME NEW g \in DOMAIN cluster PROVE Whole(g)'
    <3>1. Whole(g)
      BY DEF Inv
    <3> QED
      BY <1>1, <3>1 DEF Whole, IdsOf, MapOf
  <2> QED
    BY <1>1, <2>1, <2>2, <2>3
<1>7. Stages' = Stages
  BY <1>1 DEF Stages, StageOf, MapOf, IdsOf
<1> QED
  BY <1>3, <1>5, <1>6, <1>7 DEF Inv

(***************************************************************************)
(* Other requests' transactions.                                           *)
(***************************************************************************)
LEMMA WithRowType ==
  ASSUME NEW R, NEW t, t \in [DOMAIN t -> R], NEW k, NEW row \in R
  PROVE  WithRow(t, k, row) \in [DOMAIN t \cup {k} -> R]
  BY DEF WithRow

LEMMA SeatTypes ==
  ASSUME StoreTypeOK, SeatsBelong, NEW s \in SeatId, NEW g \in Game, NEW a \in Account,
         NEW gm \in BOOLEAN, NEW active \in BOOLEAN, UpsertMembership(s, g, a, gm, active)
  PROVE  StoreTypeOK' /\ SeatsBelong' /\ state' = state /\ game' = game
<1>1. CASE InsertMembership(s, g, a, gm, active)
  <2> DEFINE row == [game |-> g, account |-> a, gm |-> gm, active |-> active]
  <2>1. row \in SeatRow
    BY DEF SeatRow
  <2>2. InsertSeat(s, row) /\ row.game = g /\ g \in DOMAIN game
    BY <1>1 DEF InsertMembership, ParentsExist
  <2> HIDE DEF row
  <2>3. seat' = WithRow(seat, s, row) /\ UNCHANGED <<account, game, state>>
    BY <2>2 DEF InsertSeat
  <2>4. WithRow(seat, s, row) \in [DOMAIN seat \cup {s} -> SeatRow]
    BY <2>1, WithRowType DEF StoreTypeOK
  <2>5. SeatsBelong'
    BY <2>2, <2>3 DEF SeatsBelong, WithRow
  <2> QED
    BY <2>3, <2>4, <2>5 DEF StoreTypeOK
<1>2. CASE ReplaceMembership(g, a, gm, active)
  <2>1. \A t \in DOMAIN seat : seat[t] \in SeatRow
    BY DEF StoreTypeOK
  <2>2. \A t \in DOMAIN seat : [seat[t] EXCEPT !.gm = gm, !.active = active] \in SeatRow
    BY <2>1 DEF SeatRow
  <2>3. StoreTypeOK' /\ state' = state /\ game' = game /\ DOMAIN seat' = DOMAIN seat
    BY <1>2, <2>1, <2>2 DEF ReplaceMembership, StoreTypeOK
  <2>4. \A t \in DOMAIN seat : seat'[t].game = seat[t].game
    BY <1>2, <2>1 DEF ReplaceMembership, SeatRow
  <2> QED
    BY <2>3, <2>4 DEF SeatsBelong
<1> QED
  BY <1>1, <1>2 DEF UpsertMembership

Elsewhere == GamesElsewhere \/ SeatsElsewhere \/ StateElsewhere

\* Of what the map depends on, others change at most the state of a game that had
\* none.
LEMMA ElsewhereTables ==
  ASSUME Inv, Elsewhere
  PROVE  /\ StoreTypeOK' /\ SeatsBelong' /\ DOMAIN game \subseteq DOMAIN game'
         /\ \/ state' = state
            \/ \E g \in Game \ DOMAIN state, seed \in Seed : state' = WithRow(state, g, seed)
<1>1. ASSUME NEW g \in Game, InsertGame(g)
      PROVE  /\ StoreTypeOK' /\ state' = state /\ seat' = seat
             /\ DOMAIN game \subseteq DOMAIN game'
  <2>1. game' \in [DOMAIN game \cup {g} -> BOOLEAN]
    BY <1>1, WithRowType DEF InsertGame, Inv, TypeOK, StoreTypeOK
  <2> QED
    BY <1>1, <2>1 DEF InsertGame, Inv, TypeOK, StoreTypeOK
<1>2. ASSUME NEW g \in Game, NEW set \in Flag, UpdateGame(g, set)
      PROVE  /\ StoreTypeOK' /\ state' = state /\ seat' = seat
             /\ DOMAIN game' = DOMAIN game
  <2>1. \A b \in BOOLEAN : Apply(set, b) \in BOOLEAN
    BY DEF Apply
  <2> QED
    BY <1>2, <2>1 DEF UpdateGame, Inv, TypeOK, StoreTypeOK
<1>3. ASSUME NEW g \in Game, NEW seed \in Seed, InsertGameState(g, seed)
      PROVE  /\ StoreTypeOK' /\ state' = WithRow(state, g, seed) /\ g \notin DOMAIN state
             /\ seat' = seat /\ game' = game
  <2>1. state' \in [DOMAIN state \cup {g} -> Seed]
    BY <1>3, WithRowType DEF InsertGameState, Inv, TypeOK, StoreTypeOK
  <2> QED
    BY <1>3, <2>1 DEF InsertGameState, Inv, TypeOK, StoreTypeOK
<1>4. ASSUME NEW s \in SeatId, NEW g \in Game, NEW a \in Account, NEW gm \in BOOLEAN,
             NEW active \in BOOLEAN, UpsertMembership(s, g, a, gm, active)
      PROVE  StoreTypeOK' /\ SeatsBelong' /\ state' = state /\ game' = game
  BY <1>4, SeatTypes DEF Inv, TypeOK
<1>5. SeatsBelong
  BY DEF Inv
<1> QED
  BY <1>1, <1>2, <1>3, <1>4, <1>5
     DEF Elsewhere, GamesElsewhere, SeatsElsewhere, StateElsewhere, SeatsBelong

LEMMA ElsewhereStep ==
  ASSUME Inv, Elsewhere
  PROVE  /\ Inv'
         /\ \/ Stages' = Stages
            \/ \E g \in Game, seed \in Seed :
                 Stages[g] = <<>> /\ Stages' = [Stages EXCEPT ![g] = <<seed>>]
<1>1. cluster' = cluster /\ stellium' = stellium /\ req' = req
  BY DEF Elsewhere, GamesElsewhere, SeatsElsewhere, StateElsewhere, Beside
<1>2. \A g \in DOMAIN state : g \in DOMAIN state' /\ state'[g] = state[g]
  BY ElsewhereTables DEF WithRow
<1>3. Grows
  BY <1>1, <1>2, ElsewhereTables DEF Grows, IdsOf
<1>4. ASSUME NEW r \in Request PROVE RowOK(req[r])'
  <2>1. RowOK(req[r])
    BY DEF Inv
  <2> QED
    BY <1>1, <1>3, <2>1, StillKnows
<1>5. TypeOK'
  BY <1>1, ElsewhereTables DEF Inv, TypeOK
<1>6. RowsBelong' /\ IdsFollowTheMap'
  BY <1>1 DEF Inv, RowsBelong, IdsFollowTheMap, IdsOf
<1>7. ASSUME NEW g \in DOMAIN cluster PROVE Whole(g)'
  <2>1. Whole(g)
    BY DEF Inv
  <2> QED
    BY <1>1, <1>2, <2>1 DEF Whole, MapOf, IdsOf
<1>8. \/ Stages' = Stages
      \/ \E g \in Game, seed \in Seed :
           Stages[g] = <<>> /\ Stages' = [Stages EXCEPT ![g] = <<seed>>]
  <2>1. CASE state' = state
    BY <1>1, <2>1 DEF Stages, StageOf, MapOf, IdsOf
  <2>2. ASSUME NEW g \in Game \ DOMAIN state, NEW seed \in Seed, state' = WithRow(state, g, seed)
        PROVE  Stages[g] = <<>> /\ Stages' = [Stages EXCEPT ![g] = <<seed>>]
    <3>1. g \notin DOMAIN cluster
      BY DEF Inv, Whole
    <3>2. /\ DOMAIN state' = DOMAIN state \cup {g} /\ state'[g] = seed
          /\ \A h \in DOMAIN state : state'[h] = state[h]
      BY <2>2 DEF WithRow
    <3>3. StageOf(g) = <<>> /\ StageOf(g)' = <<seed>>
      BY <1>1, <3>1, <3>2 DEF StageOf
    <3>4. \A h \in Game \ {g} : StageOf(h)' = StageOf(h)
      BY <1>1, <3>2 DEF StageOf, MapOf, IdsOf
    <3> QED
      BY <3>3, <3>4 DEF Stages
  <2> QED
    BY <2>1, <2>2, ElsewhereTables
<1> QED
  BY <1>1, <1>4, <1>5, <1>6, <1>7, <1>8, ElsewhereTables DEF Inv

(***************************************************************************)
(* The handlers' reads.                                                    *)
(***************************************************************************)
LEMMA ArriveStep ==
  ASSUME Inv, NEW r \in Request, CreateArrives(r) \/ GetArrives(r)
  PROVE  Inv' /\ Stages' = Stages
<1>1. ASSUME NEW pc \in {"create.game", "get.game"}, NEW shape \in Shape \cup {Null},
             pc = "create.game" => shape \in Shape, pc = "get.game" => shape = Null,
             Arrive(r, pc, shape)
      PROVE  Inv' /\ Stages' = Stages
  <2>1. PICK g \in Game, s \in DOMAIN seat :
          /\ seat[s].game = g
          /\ Become(r, [Idle EXCEPT !.pc = pc, !.game = g, !.gm = seat[s].gm, !.shape = shape])
    BY <1>1 DEF Arrive, SeatsOf
  <2> DEFINE row == [Idle EXCEPT !.pc = pc, !.game = g, !.gm = seat[s].gm, !.shape = shape]
  <2>2. seat[s].gm \in BOOLEAN /\ pc \in PC /\ g \in DOMAIN game
    BY <2>1 DEF Inv, TypeOK, StoreTypeOK, SeatRow, PC, SeatsBelong
  <2>3. row \in RequestRow
    BY <2>2 DEF Idle, RequestRow
  <2>4. row.pc = pc /\ row.game = g /\ row.shape = shape /\ row.row = Null /\ row.offer = FALSE
    BY DEF Idle
  <2>5. Become(r, row) /\ Reading
    BY <1>1, <2>1 DEF Arrive
  <2> HIDE DEF row
  <2>6. RowOK(row)
    BY <1>1, <2>2, <2>4 DEF RowOK, Creating, Getting, Mapping
  <2> QED
    BY <2>3, <2>5, <2>6, ReadingStep
<1>2. ASSUME NEW shape \in Shape, Arrive(r, "create.game", shape)
      PROVE  Inv' /\ Stages' = Stages
  BY <1>1, <1>2
<1>3. ASSUME Arrive(r, "get.game", Null)
      PROVE  Inv' /\ Stages' = Stages
  BY <1>1, <1>3
<1> QED
  BY <1>2, <1>3 DEF CreateArrives, GetArrives

\* A handler that goes on with what it knew.
LEMMA Goes ==
  ASSUME Inv, NEW r \in Request, NEW row \in RequestRow, Become(r, row), Reading,
         req[r].pc \in Creating \cup Getting, row.pc \in Creating \cup Getting,
         req[r].pc \in Creating <=> row.pc \in Creating,
         row.game = req[r].game, row.shape = req[r].shape, row.row = req[r].row,
         row.offer = req[r].offer,
         row.pc \in {"create.absent", "create.write"} =>
           row.game \in DOMAIN state /\ row.seed = state[row.game],
         row.pc # "create.row",
         row.pc = "get.row" => (row.setUp => row.game \in DOMAIN state)
  PROVE  Inv' /\ Stages' = Stages
<1>1. RowOK(req[r])
  BY DEF Inv
<1>2. RowOK(row)
  BY <1>1 DEF RowOK, Creating, Getting, Mapping
<1> QED
  BY <1>2, ReadingStep

LEMMA ReadGameStep ==
  ASSUME Inv, NEW r \in Request, CreateGame(r) \/ GetGame(r)
  PROVE  Inv' /\ Stages' = Stages
<1>1. PICK next \in {"create.state", "get.state"} :
        /\ Become(r, [req[r] EXCEPT !.pc = next, !.active = game[req[r].game]])
        /\ Reading
        /\ At(r, IF next = "create.state" THEN "create.game" ELSE "get.game")
  BY DEF CreateGame, GetGame, ReadGame
<1> DEFINE old == req[r]
           row == [old EXCEPT !.pc = next, !.active = game[old.game]]
<1>2. old \in RequestRow /\ RowOK(old) /\ old.pc = IF next = "create.state" THEN "create.game" ELSE "get.game"
  BY <1>1 DEF Inv, TypeOK, At
<1>3. Become(r, row)
  BY <1>1
<1> HIDE DEF old
<1>4. old.game \in DOMAIN game /\ game[old.game] \in BOOLEAN /\ next \in PC
  BY <1>2 DEF RowOK, Inv, TypeOK, StoreTypeOK, PC
<1>5. /\ row \in RequestRow /\ row.pc = next /\ row.game = old.game /\ row.shape = old.shape
      /\ row.row = old.row /\ row.offer = old.offer
  BY <1>2, <1>4 DEF RequestRow
<1> HIDE DEF row
<1> QED
  BY <1>1, <1>2, <1>3, <1>5, Goes DEF Creating, Getting, old

LEMMA CreateStateStep ==
  ASSUME Inv, NEW r \in Request, CreateState(r)
  PROVE  Inv' /\ Stages' = Stages
<1> DEFINE old == req[r]
           row == [old EXCEPT !.pc = "create.absent", !.seed = state[old.game]]
<1>1. /\ old \in RequestRow /\ old.pc = "create.state" /\ Become(r, row) /\ Reading
      /\ old.game \in DOMAIN state
  BY DEF CreateState, At, Inv, TypeOK
<1> HIDE DEF old
<1>2. state[old.game] \in Seed /\ "create.absent" \in PC
  BY <1>1 DEF Inv, TypeOK, StoreTypeOK, PC
<1>3. /\ row \in RequestRow /\ row.pc = "create.absent" /\ row.game = old.game
      /\ row.shape = old.shape /\ row.row = old.row /\ row.offer = old.offer
      /\ row.seed = state[row.game]
  BY <1>1, <1>2 DEF RequestRow
<1> HIDE DEF row
<1> QED
  BY <1>1, <1>3, Goes DEF Creating, Getting, old

LEMMA CreateAbsentStep ==
  ASSUME Inv, NEW r \in Request, CreateAbsent(r)
  PROVE  Inv' /\ Stages' = Stages
<1> DEFINE old == req[r]
           row == [old EXCEPT !.pc = "create.write"]
<1>1. /\ old \in RequestRow /\ old.pc = "create.absent" /\ Become(r, row) /\ Reading
      /\ RowOK(old)
  BY DEF CreateAbsent, At, Goto, Inv, TypeOK
<1> HIDE DEF old
<1>2. old.game \in DOMAIN state /\ old.seed = state[old.game] /\ "create.write" \in PC
  BY <1>1 DEF RowOK, PC
<1>3. /\ row \in RequestRow /\ row.pc = "create.write" /\ row.game = old.game
      /\ row.shape = old.shape /\ row.row = old.row /\ row.offer = old.offer
      /\ row.seed = old.seed
  BY <1>1, <1>2 DEF RequestRow
<1> HIDE DEF row
<1> QED
  BY <1>1, <1>2, <1>3, Goes DEF Creating, Getting, old

LEMMA GetStateStep ==
  ASSUME Inv, NEW r \in Request, GetState(r)
  PROVE  Inv' /\ Stages' = Stages
<1> DEFINE old == req[r]
           set == old.game \in DOMAIN state
           row == [old EXCEPT !.pc = "get.row", !.setUp = set]
<1>1. old \in RequestRow /\ old.pc = "get.state" /\ Become(r, row) /\ Reading
  BY DEF GetState, At, Inv, TypeOK
<1>2. set \in BOOLEAN /\ "get.row" \in PC /\ (set = TRUE => old.game \in DOMAIN state)
  BY DEF PC
<1> HIDE DEF old, set
<1>3. /\ row \in RequestRow /\ row.pc = "get.row" /\ row.game = old.game
      /\ row.shape = old.shape /\ row.row = old.row /\ row.offer = old.offer
      /\ row.setUp = set
  BY <1>1, <1>2 DEF RequestRow
<1> HIDE DEF row
<1> QED
  BY <1>1, <1>2, <1>3, Goes DEF Creating, Getting, old

LEMMA ReturnStep ==
  ASSUME Inv, NEW r \in Request, Return(r)
  PROVE  Inv' /\ Stages' = Stages
<1>1. Idle \in RequestRow /\ RowOK(Idle)
  BY DEF Idle, RequestRow, PC, RowOK, Creating, Getting, Mapping
<1> QED
  BY <1>1, ReadingStep DEF Return

LEMMA CreateRowStep ==
  ASSUME Inv, NEW r \in Request, CreateRow(r)
  PROVE  Inv' /\ Stages' = Stages
<1> DEFINE old == req[r]
           row == [old EXCEPT !.pc = "create.map", !.row = cluster[old.game]]
<1>1. /\ old \in RequestRow /\ old.pc = "create.row" /\ Become(r, row) /\ Reading
      /\ RowOK(old)
  BY DEF CreateRow, At, Inv, TypeOK
<1> HIDE DEF old
<1>2. /\ old.game \in DOMAIN cluster /\ cluster[old.game] = old.shape /\ old.offer = FALSE
      /\ old.game \in DOMAIN game
  BY <1>1 DEF RowOK, Creating
<1>3. cluster[old.game] \in Shape /\ "create.map" \in PC
  BY <1>2 DEF Inv, TypeOK, PC
<1>4. /\ row \in RequestRow /\ row.pc = "create.map" /\ row.game = old.game
      /\ row.shape = old.shape /\ row.row = cluster[old.game] /\ row.offer = old.offer
  BY <1>1, <1>3 DEF RequestRow
<1> HIDE DEF row
<1>5. RowOK(row)
  BY <1>2, <1>4 DEF RowOK, Creating, Getting, Mapping
<1> QED
  BY <1>1, <1>4, <1>5, ReadingStep

LEMMA ReadMapStep ==
  ASSUME Inv, NEW r \in Request, ReadMap(r, "create.map") \/ ReadMap(r, "get.map")
  PROVE  Inv' /\ Stages' = Stages
<1> DEFINE old == req[r]
           row == [old EXCEPT !.pc = "answered", !.ids = IdsOf(old.game)]
<1>1. /\ old \in RequestRow /\ old.pc \in Mapping /\ Become(r, row) /\ Reading
      /\ RowOK(old)
  BY DEF ReadMap, At, Inv, TypeOK, Mapping
<1> HIDE DEF old
<1>2. /\ old.game \in DOMAIN cluster /\ old.row = cluster[old.game]
      /\ old.shape \in {Null, old.row} /\ old.offer = FALSE /\ old.game \in DOMAIN game
  BY <1>1 DEF RowOK, Mapping
<1>3. IdsOf(old.game) \subseteq Nat /\ "answered" \in PC
  BY DEF IdsOf, Inv, TypeOK, PC
<1>4. /\ row \in RequestRow /\ row.pc = "answered" /\ row.game = old.game
      /\ row.shape = old.shape /\ row.row = old.row /\ row.offer = old.offer
      /\ row.ids = IdsOf(old.game)
  BY <1>1, <1>3 DEF RequestRow
<1> HIDE DEF row
<1>5. RowOK(row)
  BY <1>2, <1>4 DEF RowOK, Shown, Creating, Getting, Mapping
<1> QED
  BY <1>1, <1>4, <1>5, ReadingStep

LEMMA GetRowStep ==
  ASSUME Inv, NEW r \in Request, GetRow(r)
  PROVE  Inv' /\ Stages' = Stages
<1> DEFINE old == req[r]
           offer == old.gm /\ old.setUp /\ old.active
           found == [old EXCEPT !.pc = "get.map", !.row = cluster[old.game]]
           none == [old EXCEPT !.pc = "answered", !.offer = offer]
<1>1. /\ old \in RequestRow /\ old.pc = "get.row" /\ Reading /\ RowOK(old)
      /\ IF old.game \in DOMAIN cluster THEN Become(r, found) ELSE Become(r, none)
  BY DEF GetRow, At, Inv, TypeOK
<1>2. offer \in BOOLEAN /\ (offer => old.setUp)
  OBVIOUS
<1> HIDE DEF old, offer
<1>3. /\ old.offer = FALSE /\ old.row = Null /\ old.shape = Null /\ old.game \in DOMAIN game
      /\ old.setUp => old.game \in DOMAIN state
  BY <1>1 DEF RowOK, Getting
<1>4. ASSUME old.game \in DOMAIN cluster, Become(r, found)
      PROVE  Inv' /\ Stages' = Stages
  <2>1. cluster[old.game] \in Shape /\ "get.map" \in PC
    BY <1>4 DEF Inv, TypeOK, PC
  <2>2. /\ found \in RequestRow /\ found.pc = "get.map" /\ found.game = old.game
        /\ found.shape = old.shape /\ found.row = cluster[old.game] /\ found.offer = old.offer
    BY <1>1, <2>1 DEF RequestRow
  <2> HIDE DEF found
  <2>3. RowOK(found)
    BY <1>3, <1>4, <2>2 DEF RowOK, Creating, Getting, Mapping
  <2> QED
    BY <1>1, <1>4, <2>2, <2>3, ReadingStep
<1>5. ASSUME Become(r, none)
      PROVE  Inv' /\ Stages' = Stages
  <2>1. "answered" \in PC
    BY DEF PC
  <2>2. /\ none \in RequestRow /\ none.pc = "answered" /\ none.game = old.game
        /\ none.row = old.row /\ none.offer = offer
    BY <1>1, <1>2, <2>1 DEF RequestRow
  <2> HIDE DEF none
  <2>3. RowOK(none)
    BY <1>2, <1>3, <2>2 DEF RowOK, Shown, Creating, Getting, Mapping
  <2> QED
    BY <1>1, <1>5, <2>2, <2>3, ReadingStep
<1> QED
  BY <1>1, <1>4, <1>5

(***************************************************************************)
(* The one write.                                                          *)
(***************************************************************************)
\* The rows of the tables after a map is stored.
LEMMA StoredMap ==
  ASSUME Inv, NEW g \in DOMAIN state, NEW shape \in Shape,
         Generated[<<state[g], shape>>] # {},
         NEW list \in Sorted(Generated[<<state[g], shape>>]),
         CreateCluster(g, shape, list)
  PROVE  /\ stellium' \in Seq(StelliumRow) /\ RowsBelong' /\ IdsFollowTheMap'
         /\ g \notin DOMAIN cluster /\ cluster' = WithRow(cluster, g, shape)
         /\ MapOf(g)' = Generated[<<state[g], shape>>]
         /\ Cardinality(IdsOf(g)') = shape.count
         /\ \A h \in Game \ {g} : IdsOf(h)' = IdsOf(h) /\ MapOf(h)' = MapOf(h)
<1> DEFINE S == Generated[<<state[g], shape>>]
           n == shape.count
           L == Len(stellium)
<1>1. g \in Game /\ state[g] \in Seed /\ stellium \in Seq(StelliumRow)
  BY DEF Inv, TypeOK, StoreTypeOK
<1>2. Cardinality(S) = n /\ n \in Nat /\ S \subseteq Point
  BY <1>1, GeneratedFacts
<1>3. /\ list \in [1 .. n -> S] /\ {list[i] : i \in 1 .. n} = S
      /\ \A i, j \in 1 .. n : i < j => Before(list[i], list[j])
  BY <1>2 DEF Sorted
<1> HIDE DEF S
<1>4. list \in [1 .. n -> Point]
  BY <1>2, <1>3
<1>5. /\ g \notin DOMAIN cluster /\ cluster' = WithRow(cluster, g, shape)
      /\ stellium' = stellium \o [i \in DOMAIN list |-> [game |-> g, at |-> list[i]]]
  BY DEF CreateCluster
<1>6. /\ stellium' \in Seq(StelliumRow) /\ L \in Nat
      /\ DOMAIN stellium = 1 .. L /\ DOMAIN stellium' = 1 .. (L + n)
      /\ \A i \in 1 .. L : stellium'[i] = stellium[i]
      /\ \A i \in 1 .. n : stellium'[L + i].game = g /\ stellium'[L + i].at = list[i]
  <2> HIDE DEF n
  <2>1. /\ stellium' \in Seq(StelliumRow) /\ Len(stellium) \in Nat
        /\ DOMAIN stellium = 1 .. Len(stellium) /\ DOMAIN stellium' = 1 .. (Len(stellium) + n)
        /\ \A i \in 1 .. Len(stellium) : stellium'[i] = stellium[i]
        /\ \A i \in 1 .. n : /\ stellium'[Len(stellium) + i].game = g
                            /\ stellium'[Len(stellium) + i].at = list[i]
    <3>1. n \in Nat /\ list \in [1 .. n -> Point] /\ g \in Game /\ stellium \in Seq(StelliumRow)
      BY <1>1, <1>2, <1>4
    <3>2. stellium' = stellium \o [i \in DOMAIN list |-> [game |-> g, at |-> list[i]]]
      BY <1>5
    <3> HIDE DEF L
    <3>3. Appended(stellium, stellium', g, n, list)
      <4>1. PICK m \in Nat, old \in Seq(StelliumRow) : m = n /\ old = stellium
        BY <3>1
      <4> PICK new : new = stellium'
        OBVIOUS
      <4>2. list \in [1 .. m -> Point] /\ g \in Game
        BY <3>1, <4>1
      <4>3. new = old \o [i \in DOMAIN list |-> [game |-> g, at |-> list[i]]]
        BY <3>2, <4>1, Zenon
      <4>4. Appended(old, new, g, m, list)
        BY ONLY <4>1, <4>2, <4>3, AppendedRows, Zenon
      <4> QED
        BY <4>1, <4>4, Zenon
    <3> QED
      BY <3>3 DEF Appended
  <2> QED
    BY <2>1
<1> HIDE DEF L, n
<1>7. \A i \in 1 .. L : stellium[i].game # g
  BY <1>5, <1>6 DEF Inv, RowsBelong
<1>8. \A i \in (L + 1) .. (L + n) :
        i - L \in 1 .. n /\ stellium'[i].game = g /\ stellium'[i].at = list[i - L]
  <2> SUFFICES ASSUME NEW i \in (L + 1) .. (L + n)
               PROVE  i - L \in 1 .. n /\ stellium'[i].game = g /\ stellium'[i].at = list[i - L]
    OBVIOUS
  <2>1. i - L \in 1 .. n /\ L + (i - L) = i
    BY <1>2, <1>6
  <2> QED
    BY <1>6, <2>1
<1>9. IdsOf(g)' = (L + 1) .. (L + n)
  <2>1. ASSUME NEW i \in 1 .. (L + n)
        PROVE  stellium'[i].game = g <=> i \in (L + 1) .. (L + n)
    <3>1. CASE i \in 1 .. L
      <4>1. stellium'[i] = stellium[i] /\ i \notin (L + 1) .. (L + n)
        BY <1>2, <1>6, <3>1
      <4> QED
        BY <1>7, <3>1, <4>1
    <3>2. CASE i \notin 1 .. L
      <4>1. i \in (L + 1) .. (L + n)
        BY <1>2, <1>6, <2>1, <3>2
      <4> QED
        BY <1>8, <4>1
    <3> QED
      BY <3>1, <3>2
  <2>2. (L + 1) .. (L + n) \subseteq 1 .. (L + n)
    BY <1>2, <1>6
  <2>3. IdsOf(g)' = {i \in 1 .. (L + n) : stellium'[i].game = g}
    BY <1>6 DEF IdsOf
  <2> QED
    BY <2>1, <2>2, <2>3
<1>10. Cardinality(IdsOf(g)') = n
  <2>1. L + 1 \in Int /\ L + n \in Int /\ (IF L + 1 > L + n THEN 0 ELSE (L + n) - (L + 1) + 1) = n
    BY <1>2, <1>6
  <2> QED
    BY <1>9, <2>1, FS_Interval
<1>11. MapOf(g)' = S
  <2>1. MapOf(g)' = {stellium'[i].at : i \in (L + 1) .. (L + n)}
    BY <1>9 DEF MapOf
  <2>2. \A i \in 1 .. n : L + i \in (L + 1) .. (L + n)
    BY <1>2, <1>6
  <2> QED
    BY <1>3, <1>6, <1>8, <2>1, <2>2
<1>12. ASSUME NEW h \in Game \ {g}
       PROVE  IdsOf(h)' = IdsOf(h) /\ MapOf(h)' = MapOf(h)
  <2>1. \A i \in 1 .. (L + n) : stellium'[i].game = h => i \in 1 .. L
    BY <1>2, <1>6, <1>8
  <2>2. IdsOf(h)' = IdsOf(h)
    BY <1>2, <1>6, <2>1 DEF IdsOf
  <2>3. \A i \in IdsOf(h) : stellium'[i] = stellium[i]
    BY <1>6 DEF IdsOf
  <2> QED
    BY <2>2, <2>3 DEF MapOf
<1>13. \A i \in 1 .. (L + n) : i \in 1 .. L \/ i \in (L + 1) .. (L + n)
  BY <1>2, <1>6
<1>14. RowsBelong'
  BY <1>5, <1>6, <1>8, <1>13 DEF RowsBelong, Inv, WithRow
<1>15. IdsFollowTheMap'
  <2> SUFFICES ASSUME NEW h \in Game, NEW i \in IdsOf(h)', NEW j \in IdsOf(h)', i < j
               PROVE  Before(stellium'[i].at, stellium'[j].at)
    BY DEF IdsFollowTheMap
  <2>1. CASE h = g
    <3>1. i \in (L + 1) .. (L + n) /\ j \in (L + 1) .. (L + n)
      BY <1>9, <2>1
    <3>2. i - L < j - L
      BY <1>2, <1>6, <3>1
    <3> QED
      BY <1>3, <1>8, <3>1, <3>2
  <2>2. CASE h # g
    <3>1. i \in IdsOf(h) /\ j \in IdsOf(h)
      BY <1>12, <2>2
    <3>2. Before(stellium[i].at, stellium[j].at)
      BY <3>1 DEF Inv, IdsFollowTheMap
    <3>3. stellium'[i] = stellium[i] /\ stellium'[j] = stellium[j]
      BY <1>6, <3>1 DEF IdsOf
    <3> QED
      BY <3>2, <3>3
  <2> QED
    BY <2>1, <2>2
<1> QED
  BY <1>5, <1>6, <1>10, <1>11, <1>12, <1>14, <1>15 DEF S, n

LEMMA CreateWriteStep ==
  ASSUME Inv, NEW r \in Request, CreateWrite(r)
  PROVE  /\ Inv'
         /\ \E g \in Game, shape \in Shape :
              /\ Len(Stages[g]) = 1 /\ Drawn(Stages[g][1], shape) # {}
              /\ Stages' = [Stages EXCEPT ![g] = <<@[1], shape, Drawn(@[1], shape)>>]
<1>1. PICK g \in Game, shape \in Shape, row \in RequestRow :
        /\ g \in DOMAIN game /\ g \in DOMAIN state
        /\ Generated[<<state[g], shape>>] # {}
        /\ \E list \in Sorted(Generated[<<state[g], shape>>]) : CreateCluster(g, shape, list)
        /\ Become(r, row) /\ row.pc = "create.row" /\ row.game = g /\ row.shape = shape
        /\ row.row = Null /\ row.offer = FALSE
  <2> DEFINE old == req[r]
             new == [old EXCEPT !.pc = "create.row"]
  <2>1. /\ old \in RequestRow /\ RowOK(old) /\ old.pc = "create.write" /\ Become(r, new)
    BY DEF CreateWrite, At, Goto, Inv, TypeOK
  <2>2. /\ old.game \in DOMAIN game /\ old.game \in Game /\ old.game \in DOMAIN state
        /\ old.shape \in Shape /\ old.seed = state[old.game] /\ old.row = Null
        /\ old.offer = FALSE
    BY <2>1 DEF RowOK, Creating, Inv, TypeOK, StoreTypeOK
  <2>3. /\ Generated[<<state[old.game], old.shape>>] # {}
        /\ \E list \in Sorted(Generated[<<state[old.game], old.shape>>]) :
             CreateCluster(old.game, old.shape, list)
    BY <2>2 DEF CreateWrite
  <2> HIDE DEF old
  <2>4. "create.row" \in PC
    BY DEF PC
  <2>5. /\ new \in RequestRow /\ new.pc = "create.row" /\ new.game = old.game
        /\ new.shape = old.shape /\ new.row = old.row /\ new.offer = old.offer
    BY <2>1, <2>4 DEF RequestRow
  <2> HIDE DEF new
  <2> QED
    BY <2>1, <2>2, <2>3, <2>5
<1>2. PICK list \in Sorted(Generated[<<state[g], shape>>]) : CreateCluster(g, shape, list)
  BY <1>1
<1>6. req' \in [Request -> RequestRow] /\ req'[r] = row /\ \A q \in Request \ {r} : req'[q] = req[q]
  BY <1>1 DEF Become, Inv, TypeOK
<1>7. /\ account' = account /\ game' = game /\ seat' = seat /\ state' = state
  BY <1>2 DEF CreateCluster, tables
<1>8. /\ stellium' \in Seq(StelliumRow) /\ RowsBelong' /\ IdsFollowTheMap'
      /\ g \notin DOMAIN cluster /\ cluster' = WithRow(cluster, g, shape)
      /\ MapOf(g)' = Generated[<<state[g], shape>>]
      /\ Cardinality(IdsOf(g)') = shape.count
      /\ \A h \in Game \ {g} : IdsOf(h)' = IdsOf(h) /\ MapOf(h)' = MapOf(h)
  BY <1>1, <1>2, StoredMap
<1>9. /\ DOMAIN cluster' = DOMAIN cluster \cup {g} /\ cluster'[g] = shape
      /\ \A h \in DOMAIN cluster : cluster'[h] = cluster[h]
      /\ DOMAIN cluster \subseteq Game /\ cluster' \in [DOMAIN cluster' -> Shape]
  BY <1>8 DEF WithRow, Inv, TypeOK
<1>10. Grows
  BY <1>7, <1>8, <1>9 DEF Grows
<1>11. TypeOK' /\ SeatsBelong'
  BY <1>6, <1>7, <1>8, <1>9 DEF Inv, TypeOK, StoreTypeOK, SeatsBelong
<1>12. ASSUME NEW h \in DOMAIN cluster' PROVE Whole(h)'
  <2>1. CASE h = g
    BY <1>1, <1>7, <1>8, <1>9, <2>1 DEF Whole
  <2>2. CASE h # g
    <3>1. h \in DOMAIN cluster /\ Whole(h) /\ h \in Game
      BY <1>9, <2>2 DEF Inv
    <3> QED
      BY <1>7, <1>8, <1>9, <2>2, <3>1 DEF Whole
  <2> QED
    BY <2>1, <2>2
<1>13. ASSUME NEW q \in Request PROVE RowOK(req[q])'
  <2>1. CASE q = r
    <3>1. RowOK(row)'
      BY <1>1, <1>7, <1>9 DEF RowOK, Creating, Getting, Mapping
    <3> QED
      BY <1>6, <2>1, <3>1
  <2>2. CASE q # r
    <3>1. RowOK(req[q]) /\ req'[q] = req[q]
      BY <1>6, <2>2 DEF Inv
    <3> QED
      BY <1>10, <3>1, StillKnows
  <2> QED
    BY <2>1, <2>2
<1>14. /\ Len(Stages[g]) = 1 /\ Drawn(Stages[g][1], shape) # {}
       /\ Stages' = [Stages EXCEPT ![g] = <<@[1], shape, Drawn(@[1], shape)>>]
  <2>1. Stages[g] = <<state[g]>>
    BY <1>1, <1>8 DEF Stages, StageOf
  <2>2. StageOf(g)' = <<state[g], shape, Generated[<<state[g], shape>>]>>
    BY <1>1, <1>7, <1>8, <1>9 DEF StageOf
  <2>3. \A h \in Game \ {g} : StageOf(h)' = StageOf(h)
    BY <1>7, <1>8, <1>9 DEF StageOf
  <2>4. Stages' = [Stages EXCEPT ![g] = <<state[g], shape, Generated[<<state[g], shape>>]>>]
    BY <2>2, <2>3 DEF Stages
  <2>5. Stages[g][1] = state[g] /\ Len(Stages[g]) = 1
    BY <2>1
  <2> QED
    BY <1>1, <2>1, <2>4, <2>5 DEF Drawn
<1> QED
  BY <1>8, <1>11, <1>12, <1>13, <1>14 DEF Inv

(***************************************************************************)
(* The theorems.                                                           *)
(***************************************************************************)
LEMMA StepInv ==
  ASSUME Inv, [Next]_vars
  PROVE  Inv' /\ [SetUp!Next]_Stages
<1>1. CASE UNCHANGED vars
  <2>1. /\ account' = account /\ game' = game /\ seat' = seat /\ state' = state
        /\ cluster' = cluster /\ stellium' = stellium /\ req' = req
    BY <1>1 DEF vars, tables
  <2>2. Grows
    BY <2>1 DEF Grows, IdsOf
  <2>3. \A r \in Request : RowOK(req[r])'
    BY <2>1, <2>2, StillKnows DEF Inv
  <2>4. TypeOK' /\ SeatsBelong'
    BY <2>1 DEF Inv, TypeOK, StoreTypeOK, SeatsBelong
  <2>6. RowsBelong' /\ IdsFollowTheMap'
    BY <2>1 DEF Inv, RowsBelong, IdsFollowTheMap, IdsOf
  <2>7. (\A g \in DOMAIN cluster : Whole(g))'
    BY <2>1 DEF Inv, Whole, IdsOf, MapOf
  <2>5. Stages' = Stages
    BY <2>1 DEF Stages, StageOf, MapOf, IdsOf
  <2> QED
    BY <2>3, <2>4, <2>5, <2>6, <2>7 DEF Inv
<1>2. CASE Elsewhere
  <2>1. ASSUME NEW g \in Game, NEW seed \in Seed, Stages[g] = <<>>,
               Stages' = [Stages EXCEPT ![g] = <<seed>>]
        PROVE  SetUp!Next
    BY <2>1 DEF SetUp!Next, SetUp!SetUp
  <2> QED
    BY <1>2, <2>1, ElsewhereStep
<1>3. ASSUME NEW r \in Request, CreateWrite(r)
      PROVE  Inv' /\ SetUp!Next
  <2>1. ASSUME NEW g \in Game, NEW shape \in Shape,
               Len(Stages[g]) = 1, Drawn(Stages[g][1], shape) # {},
               Stages' = [Stages EXCEPT ![g] = <<@[1], shape, Drawn(@[1], shape)>>]
        PROVE  SetUp!Next
    BY <2>1 DEF SetUp!Next, SetUp!Map
  <2> QED
    BY <1>3, <2>1, CreateWriteStep
<1>4. ASSUME NEW r \in Request, Step(r), ~CreateWrite(r)
      PROVE  Inv' /\ Stages' = Stages
  BY <1>4, ArriveStep, ReadGameStep, CreateStateStep, CreateAbsentStep, CreateRowStep,
     ReadMapStep, GetStateStep, GetRowStep, ReturnStep DEF Step
<1> QED
  BY <1>1, <1>2, <1>3, <1>4 DEF Next, Elsewhere

\* The map of each game is the one drawn from its seed, and what requests know of
\* it stays true.
THEOREM InvHolds == Spec => []Inv
<1>1. Inv /\ [Next]_vars => Inv'
  BY StepInv
<1> QED
  BY InitInv, <1>1, PTL DEF Spec

\* Type correctness for any number of games and requests.
THEOREM TypeCorrect == Spec => []TypeOK
<1>1. Inv => TypeOK
  BY DEF Inv
<1> QED
  BY <1>1, InvHolds, PTL

\* CreateCluster stores maps whole, with as many stellia as the row beside says.
THEOREM MapsStayWhole == Spec => []MapsAreWhole
<1>1. ASSUME Inv, NEW g \in DOMAIN cluster
      PROVE  Cardinality(MapOf(g)) = cluster[g].count /\ Cardinality(IdsOf(g)) = cluster[g].count
  <2>1. Whole(g) /\ state[g] \in Seed /\ cluster[g] \in Shape
    BY <1>1 DEF Inv, Whole, TypeOK, StoreTypeOK
  <2> QED
    BY <2>1, GeneratedFacts DEF Whole
<1>2. Inv => MapsAreWhole
  BY <1>1 DEF Inv, MapsAreWhole, RowsBelong
<1> QED
  BY <1>2, InvHolds, PTL

\* No stored coordinate is beyond the radius, whatever the draws and the rounding.
THEOREM StaysWithinTheRadius == Spec => []WithinTheRadius
<1>1. ASSUME Inv, NEW g \in DOMAIN cluster, NEW p \in MapOf(g), NEW i \in 1 .. 3
      PROVE  p[i] \in -cluster[g].radius .. cluster[g].radius
  <2>1. Whole(g) /\ state[g] \in Seed /\ cluster[g] \in Shape
    BY <1>1 DEF Inv, Whole, TypeOK, StoreTypeOK
  <2>2. p \in Generated[<<state[g], cluster[g]>>]
    BY <1>1, <2>1 DEF Whole
  <2> QED
    BY <2>1, <2>2, GeneratedFacts
<1>2. Inv => WithinTheRadius
  BY <1>1 DEF WithinTheRadius
<1> QED
  BY <1>2, InvHolds, PTL

\* The ids of a map are in the order of its points.
THEOREM IdsStayInOrder == Spec => []IdsFollowTheMap
<1>1. Inv => IdsFollowTheMap
  BY DEF Inv
<1> QED
  BY <1>1, InvHolds, PTL

\* An answer that showed a map showed the game's, and it is still that.
THEOREM AnswersStayTrue == Spec => []ShownMapIsTheMap
<1>1. Inv => ShownMapIsTheMap
  BY DEF Inv, ShownMapIsTheMap, RowOK, Shown, At
<1> QED
  BY <1>1, InvHolds, PTL

\* The handlers and the tables implement GameSetUp.
THEOREM KeepsStages == Spec => KeepsTheStages
<1>1. Init => SetUp!Init
  BY DEF Init, SetUp!Init, Stages, StageOf, NoRows
<1>2. Inv /\ [Next]_vars => [SetUp!Next]_Stages
  BY StepInv
<1> QED
  BY <1>1, <1>2, InvHolds, PTL DEF Spec, KeepsTheStages, SetUp!Spec
================================================================================
