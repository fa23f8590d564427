------------------------------ MODULE RosterProofs -----------------------------
(***************************************************************************)
(* What holds of the roster for any number of accounts, games, seats and   *)
(* requests in flight.  A step of a handler either leaves the tables alone *)
(* or is one of GameStore's transactions (RequestStep), so that a fact     *)
(* about the tables is proved once per transaction and holds whatever the  *)
(* handlers read before it and however they interleave.                    *)
(***************************************************************************)
EXTENDS Roster, TLAPS

(***************************************************************************)
(* Types.                                                                  *)
(***************************************************************************)
LEMMA WithRowType ==
  ASSUME NEW K, NEW R, NEW t, DOMAIN t \subseteq K, t \in [DOMAIN t -> R],
         NEW k \in K, NEW row \in R
  PROVE  /\ DOMAIN WithRow(t, k, row) \subseteq K
         /\ WithRow(t, k, row) \in [DOMAIN WithRow(t, k, row) -> R]
BY DEF WithRow

LEMMA ApplyType == ASSUME NEW flag, NEW old \in BOOLEAN PROVE Apply(flag, old) \in BOOLEAN
BY DEF Apply

LEMMA ChangedType ==
  ASSUME NEW row \in AccountRow, NEW role \in {"keep", "admin", "user"}, NEW set
  PROVE  Changed(row, role, set) \in AccountRow
<1>1. Apply(set, row.active) \in BOOLEAN
  BY ApplyType DEF AccountRow
<1>2. (IF role = "keep" THEN row.role ELSE role) \in {"admin", "user"}
  BY DEF AccountRow
<1> QED
  BY <1>1, <1>2 DEF Changed, AccountRow

LEMMA StoreTypes == StoreTypeOK /\ StoreNext => StoreTypeOK'
<1> SUFFICES ASSUME StoreTypeOK, StoreNext PROVE StoreTypeOK'
  OBVIOUS
<1> USE DEF StoreTypeOK
<1>1. ASSUME NEW a \in Account, NEW row \in AccountRow, InsertAccount(a, row)
      PROVE  StoreTypeOK'
  BY <1>1, WithRowType DEF InsertAccount
<1>2. ASSUME NEW a \in Account, NEW role \in {"keep", "admin", "user"}, NEW set \in Flag,
             UpdateAccount(a, role, set)
      PROVE  StoreTypeOK'
  BY <1>2, ChangedType DEF UpdateAccount
<1>3. ASSUME NEW a \in Account, ActivateAccount(a)
      PROVE  StoreTypeOK'
  BY <1>3 DEF ActivateAccount, AccountRow
<1>4. ASSUME NEW g \in Game, InsertGame(g)
      PROVE  StoreTypeOK'
  BY <1>4, WithRowType DEF InsertGame
<1>5. ASSUME NEW g \in Game, NEW set \in Flag, UpdateGame(g, set)
      PROVE  StoreTypeOK'
  BY <1>5, ApplyType DEF UpdateGame
<1>6. ASSUME NEW g \in Game, NEW seed \in Seed, InsertGameState(g, seed)
      PROVE  StoreTypeOK'
  BY <1>6, WithRowType DEF InsertGameState
<1>7. ASSUME NEW s \in SeatId, NEW row \in SeatRow, InsertSeat(s, row)
      PROVE  StoreTypeOK'
  BY <1>7, WithRowType DEF InsertSeat
<1>8. ASSUME NEW s \in SeatId, NEW g \in Game, NEW a \in Account,
             NEW gm \in BOOLEAN, NEW active \in BOOLEAN,
             \/ CreateMembership(s, g, a, gm)
             \/ InsertMembership(s, g, a, gm, active)
             \/ CreateAgentSeat(s, g, active)
      PROVE  StoreTypeOK'
  <2>1. PICK holder \in Account \cup {Null}, gm2 \in BOOLEAN, active2 \in BOOLEAN :
          InsertSeat(s, [game |-> g, account |-> holder, gm |-> gm2, active |-> active2])
    BY <1>8 DEF CreateMembership, InsertMembership, CreateAgentSeat
  <2>2. [game |-> g, account |-> holder, gm |-> gm2, active |-> active2] \in SeatRow
    BY DEF SeatRow
  <2> QED
    BY <1>7, <2>1, <2>2
<1>9. ASSUME NEW g \in Game, NEW a \in Account, NEW gm \in BOOLEAN, NEW active \in BOOLEAN,
             ReplaceMembership(g, a, gm, active)
      PROVE  StoreTypeOK'
  <2>1. \A s \in DOMAIN seat : [seat[s] EXCEPT !.gm = gm, !.active = active] \in SeatRow
    BY DEF SeatRow
  <2> QED
    BY <1>9, <2>1 DEF ReplaceMembership
<1>10. ASSUME NEW s \in SeatId, NEW g \in Game, NEW active \in BOOLEAN,
              UpdateAgentSeat(s, g, active)
       PROVE  StoreTypeOK'
  BY <1>10 DEF UpdateAgentSeat, SeatRow
<1> QED
  BY <1>1, <1>2, <1>3, <1>4, <1>5, <1>6, <1>8, <1>9, <1>10
     DEF StoreNext, UpsertMembership

(***************************************************************************)
(* The inductive invariant.  Types alone are not inductive: a write is     *)
(* well typed because the handler has read the row it names                *)
(* (HandsOverRows), and a handler that read a seat has read an account     *)
(* because a human seat has one (AdminsHoldNoSeat).                        *)
(***************************************************************************)
Inv == TypeOK /\ AdminsHoldNoSeat /\ HandsOverRows

\* The row of a request after a step of its handler.
Fits(row) == row \in RequestRow /\ Sound(row, DOMAIN account', DOMAIN game', DOMAIN state')
Proceeds(r) == \E row : Become(r, row) /\ Fits(row)

LEMMA ArrivalStep ==
  ASSUME Inv, NEW r \in Request, NEW a \in Account, Arrival(r, a)
  PROVE  Reading /\ Proceeds(r)
<1> DEFINE new(pc) == [Idle EXCEPT !.pc = pc, !.by = a]
<1>1. PICK pc \in {"createAccount.write", "updateAccount.read", "createGame.write",
                   "updateGame.write", "saveMembership.account",
                   "createAgentSeat.game", "updateAgentSeat.seat", "addPlayer.gate",
                   "updatePlayer.gate", "createGameState.gate", "getPlayerGame.gate"} :
        Arrive(r, a, pc)
  BY DEF Arrival, AdminArrives, PlayerArrives, CreateAccountArrives,
         UpdateAccountArrives, CreateGameArrives, UpdateGameArrives,
         SaveMembershipArrives, CreateAgentSeatArrives, UpdateAgentSeatArrives,
         AddPlayerArrives, UpdatePlayerArrives, CreateGameStateArrives,
         GetPlayerGameArrives
<1>2. Fits(new(pc))
  BY DEF Idle, RequestRow, Flag, PC, Fits, Sound
<1> QED
  BY <1>1, <1>2 DEF Arrive, Proceeds

LEMMA ReadStep ==
  ASSUME Inv, NEW r \in Request, Read(r)
  PROVE  Reading /\ Proceeds(r)
<1> DEFINE old == req[r]
           at(pc) == [old EXCEPT !.pc = pc]
<1>1. Reading
  BY DEF Read, UpdateAccountRead, UpdateAccountCount, SaveMembershipAccount,
         SaveMembershipExisting, SaveMembershipCount, CreateAgentSeatGame,
         UpdateAgentSeatRead, AddPlayerGate, AddPlayerGame, AddPlayerAccount,
         UpdatePlayerGate, UpdatePlayerRead, CreateGameStateGate,
         CreateGameStateGame, GetPlayerGameGate, Gate, GameIsActive
<1>2. /\ old \in RequestRow
      /\ Sound(old, DOMAIN account, DOMAIN game, DOMAIN state)
      /\ DOMAIN account \subseteq Account /\ DOMAIN account' = DOMAIN account
      /\ DOMAIN game \subseteq Game /\ DOMAIN game' = DOMAIN game
      /\ DOMAIN state' = DOMAIN state
  BY <1>1 DEF Inv, TypeOK, StoreTypeOK, HandsOverRows, Reading, tables
<1>0. {"updateAccount.count", "updateAccount.write", "saveMembership.existing",
        "createAgentSeat.write", "updateAgentSeat.write", "addPlayer.game",
        "updatePlayer.seat", "createGameState.game", "addPlayer.write",
        "updatePlayer.write", "createGameState.write", "getPlayerGame.state"} \subseteq PC
  BY DEF PC
<1> USE <1>2 DEF At
<1>3. CASE UpdateAccountRead(r)
  <2> DEFINE new(a, role, set, pc) ==
        [old EXCEPT !.acct = a, !.role = role, !.set = set, !.pc = pc]
  <2>1. PICK a \in DOMAIN account, role \in {"keep", "admin", "user"}, set \in Flag,
             pc \in {"updateAccount.count", "updateAccount.write"} :
          Become(r, new(a, role, set, pc)) /\ old.pc # "idle"
    BY <1>3 DEF UpdateAccountRead
  <2>2. new(a, role, set, pc) \in RequestRow
    BY <2>1, <1>0 DEF RequestRow
  <2>3. Fits(new(a, role, set, pc))
    BY <2>1, <2>2 DEF RequestRow, Fits, Sound
  <2> QED
    BY <1>1, <2>1, <2>3 DEF Proceeds
<1>4. CASE UpdateAccountCount(r)
  <2>1. Fits(at("updateAccount.write"))
    BY <1>4 DEF UpdateAccountCount, Fits, RequestRow, PC, Sound
  <2> QED
    BY <1>1, <1>4, <2>1 DEF UpdateAccountCount, Goto, Proceeds
<1>5. CASE SaveMembershipAccount(r)
  <2> DEFINE new(g, a, gm, active) == [old EXCEPT !.pc = "saveMembership.existing",
            !.game = g, !.acct = a, !.gm = gm, !.active = active]
  <2>1. PICK g \in DOMAIN game, a \in DOMAIN account, gm \in BOOLEAN, active \in BOOLEAN :
          Become(r, new(g, a, gm, active))
    BY <1>5 DEF SaveMembershipAccount
  <2>2. new(g, a, gm, active) \in RequestRow
    BY <1>0 DEF RequestRow
  <2>3. Fits(new(g, a, gm, active))
    BY <1>5, <2>2 DEF SaveMembershipAccount, RequestRow, Fits, Sound
  <2> QED
    BY <1>1, <2>1, <2>3 DEF Proceeds
<1>6. CASE SaveMembershipExisting(r)
  <2>1. Fits(at("saveMembership.count")) /\ Fits(at("saveMembership.write"))
    BY <1>6 DEF SaveMembershipExisting, Fits, RequestRow, PC, Sound
  <2> QED
    BY <1>1, <1>6, <2>1 DEF SaveMembershipExisting, Goto, Proceeds
<1>7. CASE SaveMembershipCount(r)
  <2>1. Fits(at("saveMembership.write"))
    BY <1>7 DEF SaveMembershipCount, Fits, RequestRow, PC, Sound
  <2> QED
    BY <1>1, <1>7, <2>1 DEF SaveMembershipCount, Goto, Proceeds
<1>8. CASE CreateAgentSeatGame(r)
  <2> DEFINE new(g, active) == [old EXCEPT !.pc = "createAgentSeat.write",
                                           !.game = g, !.active = active]
  <2>1. PICK g \in DOMAIN game, active \in BOOLEAN : Become(r, new(g, active))
    BY <1>8 DEF CreateAgentSeatGame
  <2>2. new(g, active) \in RequestRow
    BY <1>0 DEF RequestRow
  <2>3. old.by \in Account
    BY <1>8 DEF CreateAgentSeatGame, Sound
  <2>4. Fits(new(g, active))
    BY <2>2, <2>3 DEF RequestRow, Fits, Sound
  <2> QED
    BY <1>1, <2>1, <2>4 DEF Proceeds
<1>9. CASE UpdateAgentSeatRead(r)
  <2> DEFINE new(s, set) == [old EXCEPT !.pc = "updateAgentSeat.write",
            !.game = seat[s].game, !.seat = s, !.set = set,
            !.active = Apply(set, seat[s].active)]
  <2>1. PICK s \in DOMAIN seat, set \in Flag : Become(r, new(s, set))
    BY <1>9 DEF UpdateAgentSeatRead
  <2>2. s \in SeatId /\ seat[s].game \in Game /\ Apply(set, seat[s].active) \in BOOLEAN
    BY ApplyType DEF Inv, TypeOK, StoreTypeOK, SeatRow
  <2>3. new(s, set) \in RequestRow
    BY <2>2, <1>0 DEF RequestRow
  <2>4. old.by \in Account
    BY <1>9 DEF UpdateAgentSeatRead, Sound
  <2>5. Fits(new(s, set))
    BY <2>3, <2>4 DEF RequestRow, Fits, Sound
  <2> QED
    BY <1>1, <2>1, <2>5 DEF Proceeds
<1> DEFINE in(pc, g) == [old EXCEPT !.pc = pc, !.game = g]
<1>10. CASE AddPlayerGate(r) \/ UpdatePlayerGate(r) \/ CreateGameStateGate(r)
  <2>1. PICK next \in {"addPlayer.game", "updatePlayer.seat", "createGameState.game"},
             g \in DOMAIN game :
          Become(r, in(next, g)) /\ old.pc # "idle"
    BY <1>10 DEF AddPlayerGate, UpdatePlayerGate, CreateGameStateGate, Gate
  <2>2. in(next, g) \in RequestRow
    BY <2>1, <1>0 DEF RequestRow
  <2>3. old.by \in Account
    BY <2>1 DEF Sound
  <2>4. Fits(in(next, g))
    BY <2>1, <2>2, <2>3 DEF RequestRow, Fits, Sound
  <2> QED
    BY <1>1, <2>1, <2>4 DEF Proceeds
<1>11. CASE AddPlayerGame(r)
  <2>1. Fits(at("addPlayer.account"))
    BY <1>11 DEF AddPlayerGame, GameIsActive, Fits, RequestRow, PC, Sound
  <2> QED
    BY <1>1, <1>11, <2>1 DEF AddPlayerGame, GameIsActive, Goto, Proceeds
<1>12. CASE AddPlayerAccount(r)
  <2> DEFINE new(a, gm) == [old EXCEPT !.pc = "addPlayer.write", !.acct = a, !.gm = gm]
  <2>1. PICK a \in DOMAIN account, gm \in BOOLEAN : Become(r, new(a, gm))
    BY <1>12 DEF AddPlayerAccount
  <2>2. new(a, gm) \in RequestRow
    BY <1>0 DEF RequestRow
  <2>3. old.by \in Account /\ old.game \in DOMAIN game
    BY <1>12 DEF AddPlayerAccount, Sound
  <2>4. Fits(new(a, gm))
    BY <2>2, <2>3 DEF RequestRow, Fits, Sound
  <2> QED
    BY <1>1, <2>1, <2>4 DEF Proceeds
<1>13. CASE UpdatePlayerRead(r)
  <2> DEFINE new(a, gm, set, active) == [old EXCEPT !.pc = "updatePlayer.write",
            !.acct = a, !.set = set, !.gm = gm, !.active = active]
  <2>1. PICK s \in DOMAIN seat, gm \in BOOLEAN, set \in Flag :
          /\ ~IsAgent(seat[s])
          /\ Become(r, new(seat[s].account, gm, set, Apply(set, seat[s].active)))
    BY <1>13 DEF UpdatePlayerRead
  <2>2. seat[s].account \in DOMAIN account /\ Apply(set, seat[s].active) \in BOOLEAN
    BY <2>1, ApplyType DEF Inv, TypeOK, StoreTypeOK, SeatRow, AdminsHoldNoSeat
  <2>3. PICK a \in DOMAIN account, active \in BOOLEAN : Become(r, new(a, gm, set, active))
    BY <2>1, <2>2
  <2>4. new(a, gm, set, active) \in RequestRow
    BY <1>0 DEF RequestRow
  <2>5. old.by \in Account /\ old.game \in DOMAIN game
    BY <1>13 DEF UpdatePlayerRead, Sound
  <2>6. Fits(new(a, gm, set, active))
    BY <2>4, <2>5 DEF RequestRow, Fits, Sound
  <2> QED
    BY <1>1, <2>3, <2>6 DEF Proceeds
<1>14. CASE CreateGameStateGame(r)
  <2> DEFINE new(seed) == [old EXCEPT !.pc = "createGameState.write", !.seed = seed]
  <2>1. PICK seed \in Seed : Become(r, new(seed))
    BY <1>14 DEF CreateGameStateGame
  <2>2. new(seed) \in RequestRow
    BY <1>0 DEF RequestRow
  <2>3. old.by \in Account /\ old.game \in DOMAIN game
    BY <1>14 DEF CreateGameStateGame, Sound
  <2>4. Fits(new(seed))
    BY <2>2, <2>3 DEF RequestRow, Fits, Sound
  <2> QED
    BY <1>1, <2>1, <2>4 DEF Proceeds
<1>15. CASE GetPlayerGameGate(r)
  <2> DEFINE new(g, gm) == [old EXCEPT !.pc = "getPlayerGame.state", !.game = g, !.gm = gm]
  <2>1. PICK g \in DOMAIN game, gm \in BOOLEAN : Become(r, new(g, gm))
    BY <1>15 DEF GetPlayerGameGate
  <2>2. new(g, gm) \in RequestRow
    BY <1>0 DEF RequestRow
  <2>3. old.by \in Account
    BY <1>15 DEF GetPlayerGameGate, Sound
  <2>4. Fits(new(g, gm))
    BY <2>2, <2>3 DEF RequestRow, Fits, Sound
  <2> QED
    BY <1>1, <2>1, <2>4 DEF Proceeds
<1> QED
  BY <1>3, <1>4, <1>5, <1>6, <1>7, <1>8, <1>9, <1>10, <1>11, <1>12, <1>13, <1>14, <1>15
     DEF Read

LEMMA IdleFits == Fits(Idle)
BY DEF Fits, Idle, RequestRow, PC, Flag, Sound

\* Tables only grow.
LEMMA StoreGrows ==
  ASSUME StoreNext
  PROVE  /\ DOMAIN account \subseteq DOMAIN account'
         /\ DOMAIN game \subseteq DOMAIN game'
         /\ DOMAIN seat \subseteq DOMAIN seat'
         /\ DOMAIN state \subseteq DOMAIN state'
<1> DEFINE Grow == /\ DOMAIN account \subseteq DOMAIN account'
                   /\ DOMAIN game \subseteq DOMAIN game'
                   /\ DOMAIN seat \subseteq DOMAIN seat'
                   /\ DOMAIN state \subseteq DOMAIN state'
<1>1. ASSUME NEW a, NEW row, NEW role, NEW set,
             InsertAccount(a, row) \/ UpdateAccount(a, role, set) \/ ActivateAccount(a)
      PROVE  Grow
  BY <1>1 DEF InsertAccount, UpdateAccount, ActivateAccount, WithRow
<1>2. ASSUME NEW g, NEW set, NEW seed,
             InsertGame(g) \/ UpdateGame(g, set) \/ InsertGameState(g, seed)
      PROVE  Grow
  BY <1>2 DEF InsertGame, UpdateGame, InsertGameState, WithRow
<1>3. ASSUME NEW s, NEW g, NEW a, NEW gm, NEW active,
             \/ CreateMembership(s, g, a, gm) \/ InsertMembership(s, g, a, gm, active)
             \/ CreateAgentSeat(s, g, active)
      PROVE  Grow
  BY <1>3 DEF CreateMembership, InsertMembership, CreateAgentSeat, InsertSeat, WithRow
<1>4. ASSUME NEW s, NEW g, NEW a, NEW gm, NEW active,
             ReplaceMembership(g, a, gm, active) \/ UpdateAgentSeat(s, g, active)
      PROVE  Grow
  BY <1>4 DEF ReplaceMembership, UpdateAgentSeat
<1> QED
  BY <1>1, <1>2, <1>3, <1>4 DEF StoreNext, UpsertMembership

LEMMA WriteStep ==
  ASSUME Inv, NEW r \in Request, Write(r)
  PROVE  StoreNext /\ Writing /\ Proceeds(r)
<1> DEFINE old == req[r]
<1>1. /\ old \in RequestRow
      /\ Sound(old, DOMAIN account, DOMAIN game, DOMAIN state)
      /\ DOMAIN account \subseteq Account /\ DOMAIN game \subseteq Game
      /\ DOMAIN seat \subseteq SeatId /\ seat \in [DOMAIN seat -> SeatRow]
  BY DEF Inv, TypeOK, StoreTypeOK, HandsOverRows
<1>2. old.role \in {"keep", "admin", "user"} /\ old.set \in Flag
      /\ old.gm \in BOOLEAN /\ old.active \in BOOLEAN
  BY <1>1 DEF RequestRow
<1>3. ASSUME Answer(r), StoreNext, Writing PROVE StoreNext /\ Writing /\ Proceeds(r)
  BY <1>3, IdleFits DEF Answer, Proceeds
<1>4. CASE CreateAccountWrite(r)
  BY <1>3, <1>4 DEF CreateAccountWrite, StoreNext
<1>5. CASE UpdateAccountWrite(r)
  <2>1. old.acct \in Account
    BY <1>1, <1>5 DEF UpdateAccountWrite, At, Sound
  <2> QED
    BY <1>2, <1>3, <1>5, <2>1 DEF UpdateAccountWrite, StoreNext
<1>6. CASE CreateGameWrite(r)
  BY <1>3, <1>6 DEF CreateGameWrite, StoreNext
<1>7. CASE UpdateGameWrite(r)
  BY <1>3, <1>7 DEF UpdateGameWrite, StoreNext
<1>8. CASE SaveMembershipWrite(r) \/ UpdatePlayerWrite(r)
  <2>1. old.acct \in Account /\ old.game \in Game
    BY <1>1, <1>8 DEF SaveMembershipWrite, UpdatePlayerWrite, At, Sound
  <2>2. StoreNext
    BY <1>2, <1>8, <2>1 DEF SaveMembershipWrite, UpdatePlayerWrite, StoreNext
  <2> QED
    BY <1>3, <1>8, <2>2 DEF SaveMembershipWrite, UpdatePlayerWrite
<1>9. CASE AddPlayerWrite(r)
  <2>1. old.acct \in Account /\ old.game \in Game
    BY <1>1, <1>9 DEF AddPlayerWrite, At, Sound
  <2>2. StoreNext
    BY <1>2, <1>9, <2>1 DEF AddPlayerWrite, StoreNext
  <2> QED
    BY <1>3, <1>9, <2>2 DEF AddPlayerWrite
<1>10. CASE CreateAgentSeatWrite(r)
  <2>1. old.by \in Account /\ old.game \in Game
    BY <1>1, <1>10 DEF CreateAgentSeatWrite, At, Sound
  <2>2. StoreNext
    BY <1>2, <1>10, <2>1 DEF CreateAgentSeatWrite, StoreNext
  <2> QED
    BY <1>3, <1>10, <2>2 DEF CreateAgentSeatWrite
<1>11. CASE UpdateAgentSeatWrite(r)
  <2>1. old.by \in Account
    BY <1>1, <1>11 DEF UpdateAgentSeatWrite, At, Sound
  <2>2. old.seat \in SeatId /\ old.game \in Game
    BY <1>1, <1>11 DEF UpdateAgentSeatWrite, UpdateAgentSeat, SeatRow
  <2>3. StoreNext
    BY <1>2, <1>11, <2>1, <2>2 DEF UpdateAgentSeatWrite, StoreNext
  <2> QED
    BY <1>3, <1>11, <2>3 DEF UpdateAgentSeatWrite
<1>12. CASE CreateGameStateWrite(r)
  <2> DEFINE new == [old EXCEPT !.pc = "createGameState.reply"]
  <2>1. old.by \in Account /\ old.game \in Game /\ old.seed \in Seed
    BY <1>1, <1>12 DEF CreateGameStateWrite, At, Sound
  <2>2. StoreNext
    BY <1>12, <2>1 DEF CreateGameStateWrite, StoreNext
  <2>3. old.game \in DOMAIN state'
    BY <1>12 DEF CreateGameStateWrite, InsertGameState, WithRow
  <2>4. new \in RequestRow
    BY <1>1 DEF RequestRow, PC
  <2>5. Fits(new)
    BY <1>1, <2>1, <2>3, <2>4 DEF RequestRow, Fits, Sound
  <2>6. Become(r, new) /\ Writing
    BY <1>12 DEF CreateGameStateWrite, Goto
  <2> QED
    BY <2>2, <2>5, <2>6 DEF Proceeds
<1> QED
  BY <1>4, <1>5, <1>6, <1>7, <1>8, <1>9, <1>10, <1>11, <1>12 DEF Write

\* A reply shows the caller nothing, or the seed the game has.
LEMMA ReplyStep ==
  ASSUME Inv, NEW r \in Request, Reply(r)
  PROVE  /\ UNCHANGED <<tables, session>> /\ Proceeds(r)
         /\ \/ UNCHANGED told
            \/ \E a \in Account, g \in DOMAIN state : Tell(a, g, state[g])
<1>1. CASE CreateGameStateReply(r)
  <2>1. req[r].by \in Account /\ req[r].game \in DOMAIN state
    BY <1>1 DEF CreateGameStateReply, At, Inv, HandsOverRows, Sound
  <2> QED
    BY <1>1, <2>1, IdleFits DEF CreateGameStateReply, Answer, Proceeds
<1>2. CASE GetPlayerGameState(r)
  <2>1. req[r].by \in Account
    BY <1>2 DEF GetPlayerGameState, At, Inv, HandsOverRows, Sound
  <2> QED
    BY <1>2, <2>1, IdleFits DEF GetPlayerGameState, Answer, Proceeds
<1> QED
  BY <1>1, <1>2 DEF Reply

(***************************************************************************)
(* What one transaction does to the seats and the accounts.                *)
(***************************************************************************)
\* The shape of every transaction, as far as seats are concerned: no seat is
\* touched, or a seat is added whose parents exist, or flags change in place.
NewSeat(s, row) ==
  /\ s \in SeatId /\ row \in SeatRow
  /\ InsertSeat(s, row)
  /\ row.game \in DOMAIN game
  /\ ~IsAgent(row) => ParentsExist(row.game, row.account) /\ SeatsOf(row.game, row.account) = {}
FlagsChange ==
  /\ seat' \in [DOMAIN seat -> SeatRow]
  /\ \A s \in DOMAIN seat : /\ seat'[s].game = seat[s].game
                            /\ seat'[s].account = seat[s].account
  /\ UNCHANGED <<account, game, state>>

LEMMA SeatStep ==
  ASSUME StoreTypeOK, StoreNext
  PROVE  \/ UNCHANGED seat
         \/ \E s, row : NewSeat(s, row)
         \/ FlagsChange
<1> DEFINE Goal == \/ UNCHANGED seat
                   \/ \E s, row : NewSeat(s, row)
                   \/ FlagsChange
<1>1. ASSUME NEW a \in Account, NEW row, NEW role, NEW set,
             InsertAccount(a, row) \/ UpdateAccount(a, role, set) \/ ActivateAccount(a)
      PROVE  Goal
  BY <1>1 DEF InsertAccount, UpdateAccount, ActivateAccount
<1>2. ASSUME NEW g, NEW set, NEW seed,
             InsertGame(g) \/ UpdateGame(g, set) \/ InsertGameState(g, seed)
      PROVE  Goal
  BY <1>2 DEF InsertGame, UpdateGame, InsertGameState
<1>3. ASSUME NEW s \in SeatId, NEW g \in Game, NEW a \in Account,
             NEW gm \in BOOLEAN, NEW active \in BOOLEAN,
             CreateMembership(s, g, a, gm) \/ InsertMembership(s, g, a, gm, active)
      PROVE  Goal
  <2>1. PICK on \in BOOLEAN :
          /\ ParentsExist(g, a) /\ SeatsOf(g, a) = {}
          /\ InsertSeat(s, [game |-> g, account |-> a, gm |-> gm, active |-> on])
    BY <1>3 DEF CreateMembership, InsertMembership
  <2> DEFINE row == [game |-> g, account |-> a, gm |-> gm, active |-> on]
  <2>2. row \in SeatRow /\ ~IsAgent(row) /\ g \in DOMAIN game
    BY <2>1, NullAssumption DEF SeatRow, IsAgent, ParentsExist
  <2>3. NewSeat(s, row)
    BY <2>1, <2>2 DEF NewSeat
  <2> QED
    BY <2>3
<1>4. ASSUME NEW s \in SeatId, NEW g \in Game, NEW active \in BOOLEAN,
             CreateAgentSeat(s, g, active)
      PROVE  Goal
  <2> DEFINE row == [game |-> g, account |-> Null, gm |-> FALSE, active |-> active]
  <2>1. row \in SeatRow /\ IsAgent(row)
    BY DEF SeatRow, IsAgent
  <2>2. NewSeat(s, row)
    BY <1>4, <2>1 DEF CreateAgentSeat, NewSeat
  <2> QED
    BY <2>2
<1>5. ASSUME NEW g \in Game, NEW a \in Account, NEW gm \in BOOLEAN, NEW active \in BOOLEAN,
             ReplaceMembership(g, a, gm, active)
      PROVE  Goal
  <2> DEFINE new(s) == [seat[s] EXCEPT !.gm = gm, !.active = active]
  <2>1. ASSUME NEW s \in DOMAIN seat
        PROVE  /\ new(s) \in SeatRow
               /\ new(s).game = seat[s].game /\ new(s).account = seat[s].account
    BY DEF StoreTypeOK, SeatRow
  <2>2. seat' = [s \in DOMAIN seat |-> IF s \in SeatsOf(g, a) THEN new(s) ELSE seat[s]]
    BY <1>5 DEF ReplaceMembership
  <2> HIDE DEF new
  <2>3. seat' \in [DOMAIN seat -> SeatRow]
    BY <2>1, <2>2 DEF StoreTypeOK
  <2> QED
    BY <1>5, <2>1, <2>2, <2>3 DEF ReplaceMembership, FlagsChange
<1>6. ASSUME NEW s \in SeatId, NEW g \in Game, NEW active \in BOOLEAN,
             UpdateAgentSeat(s, g, active)
      PROVE  Goal
  BY <1>6 DEF UpdateAgentSeat, FlagsChange, StoreTypeOK, SeatRow
<1> QED
  BY <1>1, <1>2, <1>3, <1>4, <1>5, <1>6 DEF StoreNext, UpsertMembership

\* An account that holds a seat keeps its role through every transaction.
LEMMA SeatedKeepRole ==
  ASSUME StoreTypeOK, StoreNext, NEW b \in DOMAIN account, Seated(b)
  PROVE  b \in DOMAIN account' /\ account'[b].role = account[b].role
<1>1. ASSUME NEW a \in Account, NEW row, InsertAccount(a, row)
      PROVE  account'[b].role = account[b].role
  BY <1>1 DEF InsertAccount, WithRow
<1>2. ASSUME NEW a \in Account, NEW role, NEW set, UpdateAccount(a, role, set)
      PROVE  account'[b].role = account[b].role
  <2>1. CASE a # b
    BY <1>2, <2>1 DEF UpdateAccount, StoreTypeOK
  <2>2. CASE a = b
    <3>1. role \in {"keep", account[b].role}
      BY <1>2, <2>2 DEF UpdateAccount, RoleMayChange
    <3>2. account'[b] = Changed(account[b], role, set) /\ account[b] \in AccountRow
      BY <1>2, <2>2 DEF UpdateAccount, StoreTypeOK
    <3> QED
      BY <3>1, <3>2 DEF Changed, AccountRow
  <2> QED
    BY <2>1, <2>2
<1>3. ASSUME NEW a \in Account, ActivateAccount(a)
      PROVE  account'[b].role = account[b].role
  BY <1>3 DEF ActivateAccount, StoreTypeOK, AccountRow
<1>4. (\E a \in Account, row \in AccountRow : InsertAccount(a, row))
      \/ (\E a \in Account, role \in {"keep", "admin", "user"}, set \in Flag :
            UpdateAccount(a, role, set))
      \/ (\E a \in Account : ActivateAccount(a))
      \/ UNCHANGED account
  <2>1. ASSUME NEW g, NEW set, NEW seed,
               InsertGame(g) \/ UpdateGame(g, set) \/ InsertGameState(g, seed)
        PROVE  UNCHANGED account
    BY <2>1 DEF InsertGame, UpdateGame, InsertGameState
  <2>2. ASSUME NEW s, NEW g, NEW a, NEW gm, NEW active,
               \/ CreateMembership(s, g, a, gm) \/ UpsertMembership(s, g, a, gm, active)
               \/ CreateAgentSeat(s, g, active) \/ UpdateAgentSeat(s, g, active)
        PROVE  UNCHANGED account
    BY <2>2 DEF CreateMembership, UpsertMembership, InsertMembership,
                ReplaceMembership, CreateAgentSeat, UpdateAgentSeat, InsertSeat
  <2> QED
    BY <2>1, <2>2 DEF StoreNext
<1> QED
  BY <1>1, <1>2, <1>3, <1>4, StoreGrows

LEMMA AdminsHoldNoSeatStep ==
  ASSUME StoreTypeOK, StoreNext, AdminsHoldNoSeat
  PROVE  AdminsHoldNoSeat'
<1> SUFFICES ASSUME NEW s \in DOMAIN seat', ~IsAgent(seat'[s])
             PROVE  /\ seat'[s].account \in DOMAIN account'
                    /\ account'[seat'[s].account].role = "user"
  BY DEF AdminsHoldNoSeat, IsAgent
<1>1. ASSUME s \in DOMAIN seat, seat'[s].account = seat[s].account
      PROVE  /\ seat'[s].account \in DOMAIN account'
             /\ account'[seat'[s].account].role = "user"
  BY <1>1, SeatedKeepRole DEF AdminsHoldNoSeat, IsAgent, Seated
<1>2. CASE UNCHANGED seat
  BY <1>1, <1>2
<1>3. CASE FlagsChange
  BY <1>1, <1>3 DEF FlagsChange
<1>4. CASE \E t, row : NewSeat(t, row)
  <2>1. PICK t, row : NewSeat(t, row)
    BY <1>4
  <2>2. CASE s \in DOMAIN seat
    BY <1>1, <2>1, <2>2 DEF NewSeat, InsertSeat, WithRow
  <2>3. CASE s \notin DOMAIN seat
    BY <2>1, <2>3 DEF NewSeat, InsertSeat, WithRow, IsAgent, ParentsExist
  <2> QED
    BY <2>2, <2>3
<1> QED
  BY <1>2, <1>3, <1>4, SeatStep

(***************************************************************************)
(* Every step of the service.                                              *)
(***************************************************************************)
LEMMA RequestStep ==
  ASSUME Inv, Next
  PROVE  /\ StoreNext \/ UNCHANGED tables
         /\ UNCHANGED req \/ \E r \in Request : Proceeds(r)
         /\ session' \subseteq Account
         /\ \/ UNCHANGED told
            \/ /\ UNCHANGED tables
               /\ \E a \in Account, g \in DOMAIN state : Tell(a, g, state[g])
<1> DEFINE Goal == /\ StoreNext \/ UNCHANGED tables
                   /\ UNCHANGED req \/ \E r \in Request : Proceeds(r)
                   /\ session' \subseteq Account
                   /\ \/ UNCHANGED told
                      \/ /\ UNCHANGED tables
                         /\ \E a \in Account, g \in DOMAIN state : Tell(a, g, state[g])
<1>1. session \subseteq Account
  BY DEF Inv, TypeOK
<1>2. ASSUME NEW a \in Account, SignIn(a) PROVE Goal
  BY <1>1, <1>2 DEF SignIn
<1>3. ASSUME NEW a \in Account, Redeem(a) PROVE Goal
  <2>1. StoreNext
    BY <1>3 DEF Redeem, StoreNext
  <2> QED
    BY <1>1, <1>3, <2>1 DEF Redeem
<1>4. ASSUME NEW r \in Request, NEW a \in Account, Arrival(r, a) PROVE Goal
  BY <1>1, <1>4, ArrivalStep DEF Reading
<1>5. ASSUME NEW r \in Request, Read(r) PROVE Goal
  BY <1>1, <1>5, ReadStep DEF Reading
<1>6. ASSUME NEW r \in Request, Write(r) PROVE Goal
  BY <1>1, <1>6, WriteStep DEF Writing
<1>7. ASSUME NEW r \in Request, Reply(r) PROVE Goal
  BY <1>1, <1>7, ReplyStep
<1>8. ASSUME NEW r \in Request, Return(r) PROVE Goal
  BY <1>1, <1>8, IdleFits DEF Return, Reading, Answer, Proceeds
<1> QED
  BY <1>2, <1>3, <1>4, <1>5, <1>6, <1>7, <1>8 DEF Next

LEMMA InvInit == Init => Inv
<1> SUFFICES ASSUME Init PROVE Inv
  OBVIOUS
<1>1. StoreTypeOK
  BY StartAssumption DEF Init, StoreTypeOK, AccountRow, NoRows
<1>2. TypeOK
  BY <1>1 DEF Init, TypeOK, Idle, RequestRow, PC, Flag
<1>3. HandsOverRows
  BY DEF Init, HandsOverRows, Sound, Idle
<1>4. AdminsHoldNoSeat
  BY DEF Init, AdminsHoldNoSeat, NoRows
<1> QED
  BY <1>2, <1>3, <1>4 DEF Inv

LEMMA InvStep == Inv /\ [Next]_vars => Inv'
<1>1. CASE UNCHANGED vars
  <2>1. UNCHANGED <<account, game, seat, state, session, req, told>>
    BY <1>1 DEF vars, tables
  <2>2. Inv => TypeOK'
    BY <2>1 DEF Inv, TypeOK, StoreTypeOK
  <2>3. Inv => AdminsHoldNoSeat'
    BY <2>1 DEF Inv, AdminsHoldNoSeat, IsAgent
  <2>4. Inv => HandsOverRows'
    BY <2>1 DEF Inv, HandsOverRows, Sound
  <2> QED
    BY <2>2, <2>3, <2>4 DEF Inv
<1>2. ASSUME Inv, Next PROVE Inv'
  <2>1. StoreTypeOK' /\ AdminsHoldNoSeat'
    <3>1. CASE StoreNext
      BY <1>2, <3>1, StoreTypes, AdminsHoldNoSeatStep DEF Inv, TypeOK
    <3>2. CASE UNCHANGED tables
      BY <1>2, <3>2 DEF tables, Inv, TypeOK, StoreTypeOK, AdminsHoldNoSeat, IsAgent
    <3> QED
      BY <1>2, <3>1, <3>2, RequestStep
  <2>2. /\ DOMAIN account \subseteq DOMAIN account' /\ DOMAIN game \subseteq DOMAIN game'
        /\ DOMAIN state \subseteq DOMAIN state'
    BY <1>2, StoreGrows, RequestStep DEF tables
  <2>3. req' \in [Request -> RequestRow] /\ HandsOverRows'
    <3>1. /\ req \in [Request -> RequestRow]
          /\ \A q \in Request : Sound(req[q], DOMAIN account', DOMAIN game', DOMAIN state')
      BY <1>2, <2>2 DEF Inv, TypeOK, HandsOverRows, Sound
    <3>2. CASE UNCHANGED req
      BY <3>1, <3>2 DEF HandsOverRows
    <3>3. ASSUME NEW r \in Request, Proceeds(r)
          PROVE  req' \in [Request -> RequestRow] /\ HandsOverRows'
      <4>1. PICK row : Become(r, row) /\ Fits(row)
        BY <3>3 DEF Proceeds
      <4>2. \A q \in Request : req'[q] = IF q = r THEN row ELSE req[q]
        BY <3>1, <4>1 DEF Become
      <4> QED
        BY <3>1, <4>1, <4>2 DEF Become, Fits, HandsOverRows
    <3> QED
      BY <1>2, <3>2, <3>3, RequestStep
  <2>4. told' \in [Account -> SUBSET (Game \X Seed)]
    <3>1. CASE UNCHANGED told
      BY <1>2, <3>1 DEF Inv, TypeOK
    <3>2. CASE \E a \in Account, g \in DOMAIN state : Tell(a, g, state[g])
      BY <1>2, <3>2 DEF Inv, TypeOK, StoreTypeOK, Tell
    <3> QED
      BY <1>2, <3>1, <3>2, RequestStep
  <2>5. session' \subseteq Account
    BY <1>2, RequestStep
  <2> QED
    BY <2>1, <2>3, <2>4, <2>5 DEF Inv, TypeOK
<1> QED
  BY <1>1, <1>2

\* However requests interleave, the state keeps its types, administrators hold
\* no seat (0002_engine.sql's foreign key against handlers that check the role
\* first and write later), and a handler never writes with a row it has not read.
THEOREM InvHolds == Spec => []Inv
BY InvInit, InvStep, PTL DEF Spec

THEOREM TypeCorrect == Spec => []TypeOK
<1>1. Inv => TypeOK
  BY DEF Inv
<1> QED
  BY <1>1, InvHolds, PTL

THEOREM AdminsNeverSeated == Spec => []AdminsHoldNoSeat
<1>1. Inv => AdminsHoldNoSeat
  BY DEF Inv
<1> QED
  BY <1>1, InvHolds, PTL

THEOREM HandlersHandOverRows == Spec => []HandsOverRows
<1>1. Inv => HandsOverRows
  BY DEF Inv
<1> QED
  BY <1>1, InvHolds, PTL

(***************************************************************************)
(* The seats, and the seeds that have been shown.                          *)
(***************************************************************************)
LEMMA OneSeatStep ==
  ASSUME StoreTypeOK, StoreNext, OneSeatPerAccount
  PROVE  OneSeatPerAccount'
<1>1. CASE UNCHANGED seat
  BY <1>1 DEF OneSeatPerAccount, IsAgent
<1>2. CASE \E s, row : NewSeat(s, row)
  <2>1. PICK n, row : NewSeat(n, row)
    BY <1>2
  <2>2. /\ n \notin DOMAIN seat /\ DOMAIN seat' = DOMAIN seat \cup {n}
        /\ seat'[n] = row
        /\ \A s \in DOMAIN seat : seat'[s] = seat[s]
    BY <2>1 DEF NewSeat, InsertSeat, WithRow
  <2>3. ~IsAgent(row) => \A s \in DOMAIN seat :
          seat[s].game # row.game \/ seat[s].account # row.account
    BY <2>1 DEF NewSeat, SeatsOf
  <2> QED
    BY <2>2, <2>3 DEF OneSeatPerAccount, IsAgent
<1>3. CASE FlagsChange
  BY <1>3 DEF OneSeatPerAccount, IsAgent, FlagsChange
<1> QED
  BY <1>1, <1>2, <1>3, SeatStep

LEMMA OneSeatInit == Init => OneSeatPerAccount
BY DEF Init, NoRows, OneSeatPerAccount

LEMMA OneSeatPreserved == Inv /\ OneSeatPerAccount /\ [Next]_vars => OneSeatPerAccount'
<1>1. ASSUME OneSeatPerAccount, UNCHANGED tables PROVE OneSeatPerAccount'
  BY <1>1 DEF tables, OneSeatPerAccount, IsAgent
<1>2. ASSUME Inv, OneSeatPerAccount, Next PROVE OneSeatPerAccount'
  BY <1>1, <1>2, RequestStep, OneSeatStep DEF Inv, TypeOK
<1> QED
  BY <1>1, <1>2 DEF vars

\* An account never has two seats in a game, whichever handlers race to seat it.
THEOREM OneSeat == Spec => []OneSeatPerAccount
BY InvHolds, OneSeatInit, OneSeatPreserved, PTL DEF Spec

\* A seat, once there, keeps its id, its game and its holder.
THEOREM SeatsPermanent == Spec => SeatsKeepTheirIdentity
<1> DEFINE Same == \A s \in DOMAIN seat : /\ s \in DOMAIN seat'
                                          /\ seat'[s].game = seat[s].game
                                          /\ seat'[s].account = seat[s].account
<1>1. ASSUME StoreTypeOK, StoreNext PROVE Same
  <2>1. ASSUME NEW s, NEW row, NewSeat(s, row) PROVE Same
    BY <2>1 DEF NewSeat, InsertSeat, WithRow
  <2>2. FlagsChange => Same
    BY DEF FlagsChange
  <2> QED
    BY <1>1, <2>1, <2>2, SeatStep
<1>2. Inv /\ [Next]_vars => [Same]_seat
  <2>1. ASSUME Inv, Next PROVE [Same]_seat
    BY <1>1, <2>1, RequestStep DEF Inv, TypeOK, tables
  <2> QED
    BY <2>1 DEF vars, tables
<1> QED
  BY <1>2, InvHolds, PTL DEF Spec, SeatsKeepTheirIdentity

LEMMA SetUpOnce ==
  ASSUME StoreNext, NEW g \in DOMAIN state
  PROVE  g \in DOMAIN state' /\ state'[g] = state[g]
<1>1. (\E h \in Game, seed \in Seed : InsertGameState(h, seed)) \/ UNCHANGED state
  <2>1. ASSUME NEW a, NEW row, NEW role, NEW set,
               InsertAccount(a, row) \/ UpdateAccount(a, role, set) \/ ActivateAccount(a)
        PROVE  UNCHANGED state
    BY <2>1 DEF InsertAccount, UpdateAccount, ActivateAccount
  <2>2. ASSUME NEW h, NEW set, InsertGame(h) \/ UpdateGame(h, set)
        PROVE  UNCHANGED state
    BY <2>2 DEF InsertGame, UpdateGame
  <2>3. ASSUME NEW s, NEW h, NEW a, NEW gm, NEW active,
               \/ CreateMembership(s, h, a, gm) \/ UpsertMembership(s, h, a, gm, active)
               \/ CreateAgentSeat(s, h, active) \/ UpdateAgentSeat(s, h, active)
        PROVE  UNCHANGED state
    BY <2>3 DEF CreateMembership, UpsertMembership, InsertMembership,
                ReplaceMembership, CreateAgentSeat, UpdateAgentSeat, InsertSeat
  <2> QED
    BY <2>1, <2>2, <2>3 DEF StoreNext
<1> QED
  BY <1>1 DEF InsertGameState, WithRow

\* A seed that has been shown is the seed of the game from then on, also when
\* two game masters set the game up at once.
THEOREM SeedsShownStand == Spec => []ToldSeedIsTheSeed
<1>1. Init => ToldSeedIsTheSeed
  BY DEF Init, ToldSeedIsTheSeed
<1>2. ASSUME ToldSeedIsTheSeed, UNCHANGED told, StoreNext \/ UNCHANGED tables
      PROVE  ToldSeedIsTheSeed'
  BY <1>2, SetUpOnce DEF ToldSeedIsTheSeed, tables
<1>3. ASSUME Inv, ToldSeedIsTheSeed, UNCHANGED tables,
             NEW a \in Account, NEW g \in DOMAIN state, Tell(a, g, state[g])
      PROVE  ToldSeedIsTheSeed'
  <2>1. told' = [told EXCEPT ![a] = told[a] \cup {<<g, state[g]>>}] /\ UNCHANGED state
    BY <1>3 DEF Tell, tables
  <2>2. told \in [Account -> SUBSET (Game \X Seed)]
    BY <1>3 DEF Inv, TypeOK
  <2> QED
    BY <1>3, <2>1, <2>2 DEF ToldSeedIsTheSeed
<1>4. Inv /\ ToldSeedIsTheSeed /\ [Next]_vars => ToldSeedIsTheSeed'
  <2>1. ASSUME Inv, ToldSeedIsTheSeed, Next PROVE ToldSeedIsTheSeed'
    BY <1>2, <1>3, <2>1, RequestStep
  <2> QED
    BY <1>2, <2>1 DEF vars
<1> QED
  BY <1>1, <1>4, InvHolds, PTL DEF Spec

(***************************************************************************)
(* The tables implement SeatBook.  A transaction adds or changes one place,*)
(* changes one account's role, sets one game up, or is a stutter.          *)
(***************************************************************************)
LEMMA SameRows ==
  /\ UNCHANGED account => UNCHANGED Administrators
  /\ UNCHANGED seat => UNCHANGED Places
  /\ UNCHANGED state => UNCHANGED Seeds
BY DEF Administrators, Admin, Places, PlacesOf, SeatsOf, Seeds

\* Changing account: the role of one account, and only if it has no seat.
LEMMA AccountsImplement ==
  ASSUME StoreTypeOK, AdminsHoldNoSeat, NEW a \in Account,
         \/ \E row \in AccountRow : InsertAccount(a, row)
         \/ \E role \in {"keep", "admin", "user"}, set \in Flag : UpdateAccount(a, role, set)
         \/ ActivateAccount(a)
  PROVE  [Book!Next]_(Book!vars)
<1>1. /\ UNCHANGED <<game, seat, state>>
      /\ a \in DOMAIN account'
      /\ \A b \in Account \ {a} : /\ b \in DOMAIN account' <=> b \in DOMAIN account
                                  /\ b \in DOMAIN account => account'[b] = account[b]
  BY DEF InsertAccount, UpdateAccount, ActivateAccount, WithRow, StoreTypeOK
<1>2. DOMAIN account' \subseteq Account /\ DOMAIN account \subseteq Account
  BY StoreTypes DEF StoreNext, StoreTypeOK
<1>3. UNCHANGED <<Places, Seeds>>
  BY <1>1, SameRows
<1>4. CASE a \in Administrators'
  <2>1. Administrators' = Administrators \cup {a}
    BY <1>1, <1>2, <1>4 DEF Administrators, Admin
  <2>2. CASE a \in Administrators
    BY <1>3, <2>1, <2>2 DEF Book!vars
  <2>3. CASE a \notin Administrators
    <3>1. ~Seated(a)
      <4>1. CASE \E row \in AccountRow : InsertAccount(a, row)
        BY <4>1, NullAssumption DEF InsertAccount, AdminsHoldNoSeat, Seated, IsAgent
      <4>2. CASE \E role \in {"keep", "admin", "user"}, set \in Flag : UpdateAccount(a, role, set)
        <5>1. PICK role, set : UpdateAccount(a, role, set)
          BY <4>2
        <5>2. account'[a] = Changed(account[a], role, set) /\ account[a] \in AccountRow
          BY <5>1 DEF UpdateAccount, StoreTypeOK
        <5>3. role \notin {"keep", account[a].role}
          BY <1>4, <2>3, <5>1, <5>2
             DEF Administrators, Admin, UpdateAccount, Changed, AccountRow
        <5> QED
          BY <5>1, <5>3 DEF UpdateAccount, RoleMayChange
      <4>3. CASE ActivateAccount(a)
        BY <1>4, <2>3, <4>3 DEF ActivateAccount, Administrators, Admin, StoreTypeOK, AccountRow
      <4> QED
        BY <4>1, <4>2, <4>3
    <3>2. \A g \in Game : Places[<<g, a>>] = {}
      BY <3>1 DEF Places, PlacesOf, SeatsOf, Seated
    <3>3. Book!Appoint(a)
      BY <1>3, <2>1, <3>2 DEF Book!Appoint
    <3> QED
      BY <3>3 DEF Book!Next
  <2> QED
    BY <2>2, <2>3
<1>5. CASE a \notin Administrators'
  <2>1. Administrators' = Administrators \ {a}
    BY <1>1, <1>2, <1>5 DEF Administrators, Admin
  <2>2. Book!Dismiss(a)
    BY <1>3, <2>1 DEF Book!Dismiss
  <2> QED
    BY <2>2 DEF Book!Next
<1> QED
  BY <1>4, <1>5

LEMMA GamesImplement ==
  ASSUME StoreTypeOK, NEW g \in Game,
         \/ InsertGame(g) \/ \E set \in Flag : UpdateGame(g, set)
         \/ \E s \in Seed : InsertGameState(g, s)
  PROVE  [Book!Next]_(Book!vars)
<1>1. CASE InsertGame(g) \/ \E set \in Flag : UpdateGame(g, set)
  <2>1. UNCHANGED <<account, seat, state>>
    BY <1>1 DEF InsertGame, UpdateGame
  <2> QED
    BY <2>1, SameRows DEF Book!vars
<1>2. CASE \E s \in Seed : InsertGameState(g, s)
  <2>1. PICK s \in Seed : InsertGameState(g, s)
    BY <1>2
  <2>2. UNCHANGED <<Administrators, Places>>
    BY <2>1, SameRows DEF InsertGameState
  <2>3. Seeds[g] = {} /\ Seeds' = [Seeds EXCEPT ![g] = {s}]
    <3>1. /\ g \notin DOMAIN state /\ DOMAIN state' = DOMAIN state \cup {g}
          /\ state'[g] = s /\ \A h \in DOMAIN state : state'[h] = state[h]
      BY <2>1 DEF InsertGameState, WithRow
    <3> QED
      BY <3>1 DEF Seeds
  <2>4. Book!SetUp(g, s)
    BY <2>2, <2>3 DEF Book!SetUp
  <2> QED
    BY <2>4 DEF Book!Next
<1> QED
  BY <1>1, <1>2

LEMMA OnePlaceChanges ==
  ASSUME NEW g \in Game, NEW a \in Account, NEW p, PlacesOf(g, a)' = {p},
         \A h \in Game, b \in Account :
           <<h, b>> # <<g, a>> => PlacesOf(h, b)' = PlacesOf(h, b)
  PROVE  Places' = [Places EXCEPT ![<<g, a>>] = {p}]
<1>1. \A ga \in Game \X Account :
        PlacesOf(ga[1], ga[2])' = IF ga = <<g, a>> THEN {p} ELSE PlacesOf(ga[1], ga[2])
  <2> SUFFICES ASSUME NEW h \in Game, NEW b \in Account
               PROVE  PlacesOf(h, b)' = IF <<h, b>> = <<g, a>> THEN {p} ELSE PlacesOf(h, b)
    OBVIOUS
  <2> QED
    OBVIOUS
<1>2. Places' = [ga \in Game \X Account |-> PlacesOf(ga[1], ga[2])']
  BY DEF Places
<1> QED
  BY <1>1, <1>2 DEF Places

LEMMA SeatsImplement ==
  ASSUME StoreTypeOK, AdminsHoldNoSeat, OneSeatPerAccount,
         NEW s \in SeatId, NEW g \in Game, NEW a \in Account,
         NEW gm \in BOOLEAN, NEW active \in BOOLEAN,
         \/ CreateMembership(s, g, a, gm) \/ UpsertMembership(s, g, a, gm, active)
         \/ CreateAgentSeat(s, g, active) \/ UpdateAgentSeat(s, g, active)
  PROVE  [Book!Next]_(Book!vars)
<1> DEFINE place(on) == [gm |-> gm, active |-> on]
<1>1. UNCHANGED <<Administrators, Seeds>>
  BY SameRows DEF CreateMembership, UpsertMembership, InsertMembership,
     ReplaceMembership, CreateAgentSeat, UpdateAgentSeat, InsertSeat
<1>2. ASSUME NEW on \in BOOLEAN, ParentsExist(g, a), SeatsOf(g, a) = {},
             InsertSeat(s, [game |-> g, account |-> a, gm |-> gm, active |-> on])
      PROVE  Book!Next
  <2>1. /\ s \notin DOMAIN seat /\ DOMAIN seat' = DOMAIN seat \cup {s}
        /\ seat'[s] = [game |-> g, account |-> a, gm |-> gm, active |-> on]
        /\ \A t \in DOMAIN seat : seat'[t] = seat[t]
    BY <1>2 DEF InsertSeat, WithRow
  <2>2. SeatsOf(g, a)' = {s}
    BY <1>2, <2>1 DEF SeatsOf
  <2>3. PlacesOf(g, a)' = {place(on)} /\ Places[<<g, a>>] = {}
    BY <1>2, <2>1, <2>2 DEF PlacesOf, Places
  <2>4. \A h \in Game, b \in Account : <<h, b>> # <<g, a>> => PlacesOf(h, b)' = PlacesOf(h, b)
    BY <2>1 DEF PlacesOf, SeatsOf
  <2>5. Places' = [Places EXCEPT ![<<g, a>>] = {place(on)}]
    BY <2>3, <2>4, OnePlaceChanges
  <2>6. a \notin Administrators
    BY <1>2 DEF ParentsExist, Administrators, Admin
  <2>7. Book!Sit(g, a, place(on)) /\ place(on) \in Book!Place
    BY <1>1, <2>3, <2>5, <2>6 DEF Book!Sit, Book!Place
  <2> QED
    BY <2>7 DEF Book!Next
<1>3. CASE CreateMembership(s, g, a, gm) \/ InsertMembership(s, g, a, gm, active)
  BY <1>2, <1>3 DEF CreateMembership, InsertMembership
<1>4. CASE ReplaceMembership(g, a, gm, active)
  <2>1. PICK t \in SeatsOf(g, a) : TRUE
    BY <1>4 DEF ReplaceMembership
  <2>2. /\ DOMAIN seat' = DOMAIN seat
        /\ \A u \in DOMAIN seat : seat'[u].game = seat[u].game /\ seat'[u].account = seat[u].account
    BY <1>4 DEF ReplaceMembership, StoreTypeOK, SeatRow
  <2>3. SeatsOf(g, a) = {t} /\ SeatsOf(g, a)' = {t}
    <3>1. \A u \in SeatsOf(g, a) : u = t
      BY <2>1, NullAssumption DEF SeatsOf, OneSeatPerAccount, IsAgent
    <3> QED
      BY <2>1, <2>2, <3>1 DEF SeatsOf
  <2>4. seat'[t].gm = gm /\ seat'[t].active = active
    BY <1>4, <2>1 DEF ReplaceMembership, SeatsOf, StoreTypeOK, SeatRow
  <2>5. PlacesOf(g, a)' = {place(active)} /\ Places[<<g, a>>] # {}
    BY <2>1, <2>3, <2>4 DEF PlacesOf, Places
  <2>6. \A h \in Game, b \in Account : <<h, b>> # <<g, a>> => PlacesOf(h, b)' = PlacesOf(h, b)
    <3> SUFFICES ASSUME NEW h \in Game, NEW b \in Account, <<h, b>> # <<g, a>>
                 PROVE  PlacesOf(h, b)' = PlacesOf(h, b)
      OBVIOUS
    <3>1. SeatsOf(h, b)' = SeatsOf(h, b)
      BY <2>2 DEF SeatsOf
    <3>2. \A u \in SeatsOf(h, b) : seat'[u] = seat[u]
      BY <1>4 DEF ReplaceMembership, SeatsOf
    <3> QED
      BY <3>1, <3>2 DEF PlacesOf
  <2>7. Places' = [Places EXCEPT ![<<g, a>>] = {place(active)}]
    BY <2>5, <2>6, OnePlaceChanges
  <2>8. Book!Move(g, a, place(active)) /\ place(active) \in Book!Place
    BY <1>1, <2>5, <2>7 DEF Book!Move, Book!Place
  <2> QED
    BY <2>8 DEF Book!Next
<1>5. CASE CreateAgentSeat(s, g, active) \/ UpdateAgentSeat(s, g, active)
  <2>1. ASSUME NEW h \in Game, NEW b \in Account PROVE PlacesOf(h, b)' = PlacesOf(h, b)
    <3>1. CASE CreateAgentSeat(s, g, active)
      BY <3>1, NullAssumption DEF CreateAgentSeat, InsertSeat, WithRow, PlacesOf, SeatsOf
    <3>2. CASE UpdateAgentSeat(s, g, active)
      BY <3>2, NullAssumption DEF UpdateAgentSeat, IsAgent, PlacesOf, SeatsOf, StoreTypeOK, SeatRow
    <3> QED
      BY <1>5, <3>1, <3>2
  <2> QED
    BY <1>1, <2>1 DEF Places, Book!vars
<1> QED
  BY <1>3, <1>4, <1>5 DEF UpsertMembership

\* The tables and the handlers implement SeatBook, for any number of accounts,
\* games, seats and requests: every place is taken once and for good, nobody is
\* an administrator and in a game, and a game is set up once.
THEOREM KeepsBook == Spec => KeepsTheBook
<1>1. Init => Book!Init
  <2> SUFFICES ASSUME Init PROVE Book!Init
    OBVIOUS
  <2>1. Administrators \subseteq Account
    BY StartAssumption DEF Init, Administrators
  <2>2. Places = [ga \in Game \X Account |-> {}] /\ Seeds = [g \in Game |-> {}]
    BY DEF Init, NoRows, Places, PlacesOf, SeatsOf, Seeds
  <2> QED
    BY <2>1, <2>2 DEF Book!Init
<1>2. ASSUME Inv, OneSeatPerAccount, StoreNext PROVE [Book!Next]_(Book!vars)
  <2> USE <1>2 DEF Inv, TypeOK
  <2>1. ASSUME NEW a \in Account,
               \/ \E row \in AccountRow : InsertAccount(a, row)
               \/ \E role \in {"keep", "admin", "user"}, set \in Flag : UpdateAccount(a, role, set)
               \/ ActivateAccount(a)
        PROVE  [Book!Next]_(Book!vars)
    BY <2>1, AccountsImplement
  <2>2. ASSUME NEW g \in Game,
               \/ InsertGame(g) \/ \E set \in Flag : UpdateGame(g, set)
               \/ \E s \in Seed : InsertGameState(g, s)
        PROVE  [Book!Next]_(Book!vars)
    BY <2>2, GamesImplement
  <2>3. ASSUME NEW s \in SeatId, NEW g \in Game, NEW a \in Account,
               NEW gm \in BOOLEAN, NEW active \in BOOLEAN,
               \/ CreateMembership(s, g, a, gm) \/ UpsertMembership(s, g, a, gm, active)
               \/ CreateAgentSeat(s, g, active) \/ UpdateAgentSeat(s, g, active)
        PROVE  [Book!Next]_(Book!vars)
    BY <2>3, SeatsImplement
  <2> QED
    BY <2>1, <2>2, <2>3 DEF StoreNext
<1>3. Inv /\ OneSeatPerAccount /\ [Next]_vars => [Book!Next]_(Book!vars)
  <2>1. UNCHANGED tables => UNCHANGED Book!vars
    BY SameRows DEF tables, Book!vars
  <2>2. ASSUME Inv, OneSeatPerAccount, Next PROVE [Book!Next]_(Book!vars)
    BY <1>2, <2>1, <2>2, RequestStep
  <2> QED
    BY <2>1, <2>2 DEF vars
<1> QED
  BY <1>1, <1>3, InvHolds, OneSeat, PTL DEF Spec, KeepsTheBook, Book!Spec
================================================================================
