--------------------------- MODULE RosterSerialProofs --------------------------
(***************************************************************************)
(* The guards that a handler evaluates before it writes: what they promise *)
(* as long as two handlers do not stand between check and write at once.   *)
(* Each theorem names the pairs of points that must not be occupied        *)
(* together, and nothing else about the interleaving: every other handler  *)
(* runs as it likes, for any number of requests, accounts, games and seats.*)
(***************************************************************************)
EXTENDS RosterProofs, FiniteSetTheorems

\* No two requests are, one at a point in P and the other at one in Q.
Apart(P, Q) ==
  \A r, q \in Request : r # q => ~(req[r].pc \in P /\ req[q].pc \in Q)

(***************************************************************************)
(* Finite sets.                                                            *)
(***************************************************************************)
LEMMA TwoLeaveOne ==
  ASSUME NEW S, IsFiniteSet(S), Cardinality(S) > 1, NEW x
  PROVE  S \ {x} # {}
<1>1. IsFiniteSet(S \ {x}) /\ Cardinality(S \ {x}) \in {Cardinality(S), Cardinality(S) - 1}
  BY FS_RemoveElement
<1> QED
  BY <1>1, FS_EmptySet, FS_CardinalityType

LEMMA MoreOfThem ==
  ASSUME NEW T, IsFiniteSet(T), NEW S, S \subseteq T
  PROVE  /\ IsFiniteSet(S)
         /\ Cardinality(S) \in Nat /\ Cardinality(T) \in Nat
         /\ Cardinality(S) <= Cardinality(T)
BY FS_Subset, FS_CardinalityType

LEMMA OneMore ==
  ASSUME NEW T, IsFiniteSet(T), NEW S, S \subseteq T, NEW x \in T \ S, S # {}
  PROVE  Cardinality(T) > 1
<1>1. IsFiniteSet(S) /\ Cardinality(S) \in Nat /\ Cardinality(S) # 0
  BY FS_EmptySet, MoreOfThem
<1>2. IsFiniteSet(S \cup {x}) /\ Cardinality(S \cup {x}) = Cardinality(S) + 1
  BY <1>1, FS_AddElement
<1>3. Cardinality(S \cup {x}) <= Cardinality(T) /\ Cardinality(T) \in Nat
  BY MoreOfThem
<1> QED
  BY <1>1, <1>2, <1>3

(***************************************************************************)
(* Where a request goes.                                                   *)
(***************************************************************************)
Steps(r) ==
  (\E a \in Account : Arrival(r, a)) \/ Read(r) \/ Write(r) \/ Reply(r) \/ Return(r)

LEMMA BecomeIs ==
  ASSUME Inv, NEW r \in Request, NEW row, Become(r, row)
  PROVE  /\ req'[r] = row
         /\ \A q \in Request : q # r => req'[q] = req[q]
BY DEF Inv, TypeOK, Become

LEMMA OthersWait ==
  ASSUME Inv, NEW r \in Request, Steps(r)
  PROVE  \A q \in Request : q # r => req'[q] = req[q]
<1>1. Proceeds(r)
  BY ArrivalStep, ReadStep, WriteStep, ReplyStep, IdleFits
     DEF Steps, Return, Answer, Proceeds
<1> QED
  BY <1>1, BecomeIs DEF Proceeds

LEMMA ArrivalGoes ==
  ASSUME Inv, NEW r \in Request, NEW a \in Account, Arrival(r, a)
  PROVE  req'[r].pc \in {"createAccount.write", "updateAccount.read", "createGame.write",
                   "updateGame.write", "saveMembership.account",
                   "createAgentSeat.game", "updateAgentSeat.seat", "addPlayer.gate",
                   "updatePlayer.gate", "createGameState.gate", "getPlayerGame.gate"}
<1>1. PICK pc \in {"createAccount.write", "updateAccount.read", "createGame.write",
                   "updateGame.write", "saveMembership.account",
                   "createAgentSeat.game", "updateAgentSeat.seat", "addPlayer.gate",
                   "updatePlayer.gate", "createGameState.gate", "getPlayerGame.gate"} :
        Arrive(r, a, pc)
  BY DEF Arrival, AdminArrives, PlayerArrives, CreateAccountArrives,
         UpdateAccountArrives, CreateGameArrives, UpdateGameArrives,
         SaveMembershipArrives, CreateAgentSeatArrives, UpdateAgentSeatArrives,
         AddPlayerArrives, UpdatePlayerArrives, CreateGameStateArrives,
         GetPlayerGameArrives
<1>2. req'[r] = [Idle EXCEPT !.pc = pc, !.by = a]
  BY <1>1, BecomeIs DEF Arrive
<1> QED
  BY <1>2 DEF Idle

(***************************************************************************)
(* What a read leaves in the request's row.                                *)
(***************************************************************************)
LEMMA RowType == ASSUME Inv, NEW r \in Request PROVE req[r] \in RequestRow
BY DEF Inv, TypeOK

LEMMA GotoIs ==
  ASSUME Inv, NEW r \in Request, NEW pc, Goto(r, pc)
  PROVE  /\ req'[r].pc = pc
         /\ req'[r].game = req[r].game /\ req'[r].acct = req[r].acct
         /\ req'[r].gm = req[r].gm /\ req'[r].active = req[r].active
         /\ req'[r].role = req[r].role /\ req'[r].set = req[r].set
         /\ req'[r].seat = req[r].seat
<1> DEFINE new == [req[r] EXCEPT !.pc = pc]
<1>1. /\ new.pc = pc /\ new.game = req[r].game /\ new.acct = req[r].acct
      /\ new.gm = req[r].gm /\ new.active = req[r].active
      /\ new.role = req[r].role /\ new.set = req[r].set /\ new.seat = req[r].seat
  BY RowType DEF RequestRow
<1>2. req'[r] = new
  BY BecomeIs DEF Goto
<1> QED
  BY <1>1, <1>2

LEMMA AccountRead ==
  ASSUME Inv, NEW r \in Request, UpdateAccountRead(r)
  PROVE  \E a \in DOMAIN account, role \in {"keep", "admin", "user"}, set \in Flag :
           /\ req'[r].acct = a /\ req'[r].role = role /\ req'[r].set = set
           /\ req'[r].pc = IF a \in ActiveAdmins /\ LosesAdmin(role, set)
                           THEN "updateAccount.count" ELSE "updateAccount.write"
<1> DEFINE new(a, role, set, pc) ==
      [req[r] EXCEPT !.acct = a, !.role = role, !.set = set, !.pc = pc]
<1>1. PICK a \in DOMAIN account, role \in {"keep", "admin", "user"}, set \in Flag :
        Become(r, new(a, role, set, IF a \in ActiveAdmins /\ LosesAdmin(role, set)
                                    THEN "updateAccount.count" ELSE "updateAccount.write"))
  BY DEF UpdateAccountRead
<1>2. \A pc : /\ new(a, role, set, pc).acct = a /\ new(a, role, set, pc).role = role
              /\ new(a, role, set, pc).set = set /\ new(a, role, set, pc).pc = pc
  BY RowType DEF RequestRow
<1> HIDE DEF new
<1> QED
  BY <1>1, <1>2, BecomeIs

LEMMA MembershipAccountRead ==
  ASSUME Inv, NEW r \in Request, SaveMembershipAccount(r)
  PROVE  req'[r].pc = "saveMembership.existing"
<1> DEFINE new(g, a, gm, active) == [req[r] EXCEPT !.pc = "saveMembership.existing",
             !.game = g, !.acct = a, !.gm = gm, !.active = active]
<1>1. PICK g \in DOMAIN game, a \in DOMAIN account, gm \in BOOLEAN, active \in BOOLEAN :
        Become(r, new(g, a, gm, active))
  BY DEF SaveMembershipAccount
<1>2. new(g, a, gm, active).pc = "saveMembership.existing"
  BY RowType DEF RequestRow
<1> QED
  BY <1>1, <1>2, BecomeIs

LEMMA AgentGameRead ==
  ASSUME Inv, NEW r \in Request, CreateAgentSeatGame(r)
  PROVE  req'[r].pc = "createAgentSeat.write" /\ game[req'[r].game]
<1> DEFINE new(g, active) ==
      [req[r] EXCEPT !.pc = "createAgentSeat.write", !.game = g, !.active = active]
<1>1. PICK g \in DOMAIN game, active \in BOOLEAN : game[g] /\ Become(r, new(g, active))
  BY DEF CreateAgentSeatGame
<1>2. new(g, active).pc = "createAgentSeat.write" /\ new(g, active).game = g
  BY RowType DEF RequestRow
<1> HIDE DEF new
<1>3. req'[r] = new(g, active)
  BY <1>1, BecomeIs
<1> QED
  BY <1>1, <1>2, <1>3

LEMMA AgentSeatRead ==
  ASSUME Inv, NEW r \in Request, UpdateAgentSeatRead(r)
  PROVE  /\ req'[r].pc = "updateAgentSeat.write"
         /\ req'[r].seat \in DOMAIN seat /\ IsAgent(seat[req'[r].seat])
         /\ req'[r].active = Apply(req'[r].set, seat[req'[r].seat].active)
<1> DEFINE new(g, s, set, active) == [req[r] EXCEPT !.pc = "updateAgentSeat.write",
             !.game = g, !.seat = s, !.set = set, !.active = active]
<1>1. PICK s \in DOMAIN seat, set \in Flag :
        IsAgent(seat[s]) /\ Become(r, new(seat[s].game, s, set, Apply(set, seat[s].active)))
  BY DEF UpdateAgentSeatRead
<1>2. PICK g, active : g = seat[s].game /\ active = Apply(set, seat[s].active)
  OBVIOUS
<1>3. req[r] \in RequestRow
  BY RowType
<1>4. /\ new(g, s, set, active).pc = "updateAgentSeat.write"
      /\ new(g, s, set, active).seat = s
  BY <1>3 DEF RequestRow
<1>5. new(g, s, set, active).set = set /\ new(g, s, set, active).active = active
  BY <1>3 DEF RequestRow
<1> HIDE DEF new
<1>6. req'[r] = new(g, s, set, active)
  BY <1>1, <1>2, BecomeIs
<1> QED
  BY <1>1, <1>2, <1>4, <1>5, <1>6

LEMMA GateRead ==
  ASSUME Inv, NEW r \in Request, NEW here, NEW gm, NEW next, Gate(r, here, gm, next)
  PROVE  /\ req'[r].pc = next
         /\ req'[r].game \in DOMAIN game /\ SeatRequired(r, req'[r].game, gm)
<1> DEFINE new(g) == [req[r] EXCEPT !.pc = next, !.game = g]
<1>1. PICK g \in DOMAIN game : SeatRequired(r, g, gm) /\ Become(r, new(g))
  BY DEF Gate
<1>2. new(g).pc = next /\ new(g).game = g
  BY RowType DEF RequestRow
<1> HIDE DEF new
<1> QED
  BY <1>1, <1>2, BecomeIs

LEMMA PlayerAccountRead ==
  ASSUME Inv, NEW r \in Request, AddPlayerAccount(r)
  PROVE  req'[r].pc = "addPlayer.write" /\ req'[r].game = req[r].game
<1> DEFINE new(a, gm) == [req[r] EXCEPT !.pc = "addPlayer.write", !.acct = a, !.gm = gm]
<1>1. PICK a \in DOMAIN account, gm \in BOOLEAN : Become(r, new(a, gm))
  BY DEF AddPlayerAccount
<1>2. new(a, gm).pc = "addPlayer.write" /\ new(a, gm).game = req[r].game
  BY RowType DEF RequestRow
<1> QED
  BY <1>1, <1>2, BecomeIs

LEMMA PlayerSeatRead ==
  ASSUME Inv, NEW r \in Request, UpdatePlayerRead(r)
  PROVE  \E s \in DOMAIN seat :
           /\ ~IsAgent(seat[s]) /\ ~seat[s].gm
           /\ req'[r].pc = "updatePlayer.write"
           /\ req'[r].game = seat[s].game /\ req'[r].acct = seat[s].account
           /\ req'[r].active = Apply(req'[r].set, seat[s].active)
<1> DEFINE new(a, set, gm, active) == [req[r] EXCEPT !.pc = "updatePlayer.write",
             !.acct = a, !.set = set, !.gm = gm, !.active = active]
<1>1. PICK s \in DOMAIN seat, gm \in BOOLEAN, set \in Flag :
        /\ seat[s].game = req[r].game /\ ~IsAgent(seat[s]) /\ ~seat[s].gm
        /\ Become(r, new(seat[s].account, set, gm, Apply(set, seat[s].active)))
  BY DEF UpdatePlayerRead
<1>2. \A a, active : /\ new(a, set, gm, active).pc = "updatePlayer.write"
                     /\ new(a, set, gm, active).game = req[r].game
                     /\ new(a, set, gm, active).acct = a
                     /\ new(a, set, gm, active).set = set
                     /\ new(a, set, gm, active).active = active
  BY RowType DEF RequestRow
<1> HIDE DEF new
<1> QED
  BY <1>1, <1>2, BecomeIs

LEMMA SetUpGameRead ==
  ASSUME Inv, NEW r \in Request, CreateGameStateGame(r)
  PROVE  req'[r].pc = "createGameState.write" /\ game[req'[r].game]
<1> DEFINE new(seed) == [req[r] EXCEPT !.pc = "createGameState.write", !.seed = seed]
<1>1. PICK seed \in Seed : game[req[r].game] /\ Become(r, new(seed))
  BY DEF CreateGameStateGame
<1>2. new(seed).pc = "createGameState.write" /\ new(seed).game = req[r].game
  BY RowType DEF RequestRow
<1> QED
  BY <1>1, <1>2, BecomeIs

LEMMA PlayerGameRead ==
  ASSUME Inv, NEW r \in Request, GetPlayerGameGate(r)
  PROVE  req'[r].pc = "getPlayerGame.state"
<1> DEFINE new(g, gm) == [req[r] EXCEPT !.pc = "getPlayerGame.state", !.game = g, !.gm = gm]
<1>1. PICK g \in DOMAIN game, gm \in BOOLEAN : Become(r, new(g, gm))
  BY DEF GetPlayerGameGate
<1>2. new(g, gm).pc = "getPlayerGame.state"
  BY RowType DEF RequestRow
<1> QED
  BY <1>1, <1>2, BecomeIs

LEMMA ReadGoes ==
  ASSUME Inv, NEW r \in Request
  PROVE  /\ UpdateAccountRead(r) => req'[r].pc \in {"updateAccount.count", "updateAccount.write"}
         /\ UpdateAccountCount(r) => req'[r].pc = "updateAccount.write"
         /\ SaveMembershipAccount(r) => req'[r].pc = "saveMembership.existing"
         /\ SaveMembershipExisting(r) =>
              req'[r].pc \in {"saveMembership.count", "saveMembership.write"}
         /\ SaveMembershipCount(r) => req'[r].pc = "saveMembership.write"
         /\ CreateAgentSeatGame(r) => req'[r].pc = "createAgentSeat.write"
         /\ UpdateAgentSeatRead(r) => req'[r].pc = "updateAgentSeat.write"
         /\ AddPlayerGate(r) => req'[r].pc = "addPlayer.game"
         /\ AddPlayerGame(r) => req'[r].pc = "addPlayer.account"
         /\ AddPlayerAccount(r) => req'[r].pc = "addPlayer.write"
         /\ UpdatePlayerGate(r) => req'[r].pc = "updatePlayer.seat"
         /\ UpdatePlayerRead(r) => req'[r].pc = "updatePlayer.write"
         /\ CreateGameStateGate(r) => req'[r].pc = "createGameState.game"
         /\ CreateGameStateGame(r) => req'[r].pc = "createGameState.write"
         /\ GetPlayerGameGate(r) => req'[r].pc = "getPlayerGame.state"
<1>1. UpdateAccountRead(r) => req'[r].pc \in {"updateAccount.count", "updateAccount.write"}
  BY AccountRead
<1>2. /\ UpdateAccountCount(r) => req'[r].pc = "updateAccount.write"
      /\ SaveMembershipExisting(r) => req'[r].pc \in {"saveMembership.count", "saveMembership.write"}
      /\ SaveMembershipCount(r) => req'[r].pc = "saveMembership.write"
      /\ AddPlayerGame(r) => req'[r].pc = "addPlayer.account"
  BY GotoIs DEF UpdateAccountCount, SaveMembershipExisting, SaveMembershipCount,
                AddPlayerGame, GameIsActive
<1>3. /\ AddPlayerGate(r) => req'[r].pc = "addPlayer.game"
      /\ UpdatePlayerGate(r) => req'[r].pc = "updatePlayer.seat"
      /\ CreateGameStateGate(r) => req'[r].pc = "createGameState.game"
  BY GateRead DEF AddPlayerGate, UpdatePlayerGate, CreateGameStateGate
<1> QED
  BY <1>1, <1>2, <1>3, MembershipAccountRead, AgentGameRead, AgentSeatRead,
     PlayerAccountRead, PlayerSeatRead, SetUpGameRead, PlayerGameRead

LEMMA WriteGoes ==
  ASSUME Inv, NEW r \in Request, Write(r) \/ Reply(r) \/ Return(r)
  PROVE  \/ req'[r].pc = "idle"
         \/ CreateGameStateWrite(r) /\ req'[r].pc = "createGameState.reply"
<1>1. CASE CreateGameStateWrite(r)
  <2>1. req'[r] = [req[r] EXCEPT !.pc = "createGameState.reply"] /\ req[r] \in RequestRow
    BY <1>1, BecomeIs DEF CreateGameStateWrite, Goto, Inv, TypeOK
  <2> QED
    BY <1>1, <2>1 DEF RequestRow
<1>2. CASE ~CreateGameStateWrite(r)
  <2>1. Answer(r)
    BY <1>2 DEF Write, Reply, Return, CreateAccountWrite, UpdateAccountWrite,
       CreateGameWrite, UpdateGameWrite, SaveMembershipWrite, CreateAgentSeatWrite,
       UpdateAgentSeatWrite, AddPlayerWrite, UpdatePlayerWrite,
       CreateGameStateReply, GetPlayerGameState
  <2>2. req'[r] = Idle
    BY <2>1, BecomeIs DEF Answer
  <2> QED
    BY <2>2 DEF Idle
<1> QED
  BY <1>1, <1>2

\* The points at which a handler holds what it has read: how it gets there.
LEMMA Enters ==
  ASSUME Inv, NEW r \in Request, Steps(r)
  PROVE  /\ req'[r].pc = "updateAccount.write" => UpdateAccountRead(r) \/ UpdateAccountCount(r)
         /\ req'[r].pc = "saveMembership.write" =>
              SaveMembershipExisting(r) \/ SaveMembershipCount(r)
         /\ req'[r].pc = "createAgentSeat.write" => CreateAgentSeatGame(r)
         /\ req'[r].pc = "updateAgentSeat.write" => UpdateAgentSeatRead(r)
         /\ req'[r].pc = "addPlayer.game" => AddPlayerGate(r)
         /\ req'[r].pc = "addPlayer.account" => AddPlayerGame(r)
         /\ req'[r].pc = "addPlayer.write" => AddPlayerAccount(r)
         /\ req'[r].pc = "updatePlayer.write" => UpdatePlayerRead(r)
         /\ req'[r].pc = "createGameState.write" => CreateGameStateGame(r)
<1>1. ASSUME NEW a \in Account, Arrival(r, a)
      PROVE  req'[r].pc \notin {"updateAccount.write", "saveMembership.write",
               "createAgentSeat.write", "updateAgentSeat.write", "addPlayer.game",
               "addPlayer.account", "addPlayer.write", "updatePlayer.write",
               "createGameState.write"}
  BY <1>1, ArrivalGoes
<1>2. CASE Read(r)
  BY <1>2, ReadGoes DEF Read
<1>3. CASE Write(r) \/ Reply(r) \/ Return(r)
  BY <1>3, WriteGoes
<1> QED
  BY <1>1, <1>2, <1>3 DEF Steps

LEMMA WhoWrites ==
  ASSUME Inv, NEW r \in Request, Steps(r)
  PROVE  /\ UNCHANGED account \/ CreateAccountWrite(r) \/ UpdateAccountWrite(r)
         /\ UNCHANGED game \/ CreateGameWrite(r) \/ UpdateGameWrite(r)
         /\ \/ UNCHANGED seat
            \/ SaveMembershipWrite(r) \/ UpdatePlayerWrite(r) \/ AddPlayerWrite(r)
            \/ CreateAgentSeatWrite(r) \/ UpdateAgentSeatWrite(r)
         /\ UNCHANGED state \/ CreateGameStateWrite(r)
<1>1. CASE ~Write(r)
  <2>1. Reading \/ UNCHANGED tables
    BY <1>1, ArrivalStep, ReadStep, ReplyStep DEF Steps, Return
  <2> QED
    BY <2>1 DEF Reading, tables
<1>2. CASE Write(r)
  <2>1. /\ CreateAccountWrite(r) \/ UpdateAccountWrite(r) => UNCHANGED <<game, seat, state>>
        /\ CreateGameWrite(r) \/ UpdateGameWrite(r) => UNCHANGED <<account, seat, state>>
        /\ CreateGameStateWrite(r) => UNCHANGED <<account, game, seat>>
    BY DEF CreateAccountWrite, UpdateAccountWrite, CreateGameWrite, UpdateGameWrite,
           CreateGameStateWrite, InsertAccount, UpdateAccount, InsertGame, UpdateGame,
           InsertGameState
  <2>2. SaveMembershipWrite(r) \/ UpdatePlayerWrite(r) \/ AddPlayerWrite(r)
          \/ CreateAgentSeatWrite(r) \/ UpdateAgentSeatWrite(r)
        => UNCHANGED <<account, game, state>>
    BY DEF SaveMembershipWrite, UpdatePlayerWrite, AddPlayerWrite, CreateAgentSeatWrite,
           UpdateAgentSeatWrite, UpsertMembership, InsertMembership, ReplaceMembership,
           CreateMembership, CreateAgentSeat, UpdateAgentSeat, InsertSeat
  <2> QED
    BY <1>2, <2>1, <2>2 DEF Write
<1> QED
  BY <1>1, <1>2

(***************************************************************************)
(* Administrators.  A request about to take an administrator's rights away *)
(* has counted another one, and the count still stands: the other requests *)
(* that change accounts wait.                                              *)
(***************************************************************************)
OneAccountUpdate == Apart({"updateAccount.write"}, {"updateAccount.write"})

CountedAnother(row) ==
  row.pc = "updateAccount.write" /\ row.acct \in ActiveAdmins /\ LosesAdmin(row.role, row.set)
    => CountActiveAdmins > 1

AdminsInv ==
  /\ IsFiniteSet(DOMAIN account)
  /\ ActiveAdminRemains
  /\ \A r \in Request : CountedAnother(req[r])

LEMMA AdminsInit == Init => AdminsInv
<1> SUFFICES ASSUME Init PROVE AdminsInv
  OBVIOUS
<1>1. IsFiniteSet(DOMAIN account) /\ ActiveAdmins = Admins
  BY StartAssumption DEF Init, ActiveAdmins
<1>2. \A r \in Request : req[r].pc = "idle"
  BY DEF Init, Idle
<1> QED
  BY <1>1, <1>2 DEF AdminsInv, ActiveAdminRemains, CountedAnother

LEMMA ChangedAdmin ==
  ASSUME NEW row \in AccountRow, NEW role \in {"keep", "admin", "user"}, NEW set \in Flag,
         row.role = "admin", row.active, ~LosesAdmin(role, set)
  PROVE  Changed(row, role, set).role = "admin" /\ Changed(row, role, set).active
BY DEF AccountRow, Changed, Apply, Flag, LosesAdmin

\* More administrators than before, and the others as they were.
LEMMA MoreAdmins ==
  ASSUME AdminsInv, IsFiniteSet(DOMAIN account'), ActiveAdmins \subseteq ActiveAdmins',
         \A r \in Request :
           \/ req'[r].pc # "updateAccount.write"
           \/ req'[r] = req[r] /\ (req[r].acct \in ActiveAdmins' => req[r].acct \in ActiveAdmins)
  PROVE  AdminsInv'
<1>1. IsFiniteSet(ActiveAdmins')
  BY FS_Subset DEF ActiveAdmins
<1>2. /\ CountActiveAdmins \in Nat /\ CountActiveAdmins' \in Nat
      /\ CountActiveAdmins <= CountActiveAdmins'
  BY <1>1, MoreOfThem DEF CountActiveAdmins
<1>3. ActiveAdminRemains'
  BY DEF AdminsInv, ActiveAdminRemains
<1>4. \A r \in Request : CountedAnother(req[r])'
  BY <1>2 DEF AdminsInv, CountedAnother
<1> QED
  BY <1>3, <1>4 DEF AdminsInv

LEMMA AdminsUpdate ==
  ASSUME Inv, AdminsInv, OneAccountUpdate, NEW r \in Request, UpdateAccountWrite(r)
  PROVE  AdminsInv'
<1> DEFINE a == req[r].acct
<1>1. /\ a \in DOMAIN account /\ account[a] \in AccountRow
      /\ account' = [account EXCEPT ![a] = Changed(account[a], req[r].role, req[r].set)]
      /\ req[r].pc = "updateAccount.write"
      /\ req[r].role \in {"keep", "admin", "user"} /\ req[r].set \in Flag
  <2>1. req[r].role \in {"keep", "admin", "user"} /\ req[r].set \in Flag
    BY RowType DEF RequestRow
  <2> QED
    BY <2>1 DEF UpdateAccountWrite, UpdateAccount, At, Inv, TypeOK, StoreTypeOK
<1>2. DOMAIN account' = DOMAIN account /\ \A b \in DOMAIN account \ {a} : account'[b] = account[b]
  BY <1>1
<1>3. ActiveAdmins \ {a} \subseteq ActiveAdmins'
  BY <1>2 DEF ActiveAdmins
<1>4. IsFiniteSet(ActiveAdmins)
  BY FS_Subset DEF ActiveAdmins, AdminsInv
<1>5. ActiveAdminRemains'
  <2>1. CASE a \in ActiveAdmins /\ LosesAdmin(req[r].role, req[r].set)
    <3>1. Cardinality(ActiveAdmins) > 1
      BY <1>1, <2>1 DEF AdminsInv, CountedAnother, CountActiveAdmins
    <3> QED
      BY <1>3, <1>4, <3>1, TwoLeaveOne DEF ActiveAdminRemains
  <2>2. CASE a \in ActiveAdmins /\ ~LosesAdmin(req[r].role, req[r].set)
    <3>1. account'[a].role = "admin" /\ account'[a].active
      BY <1>1, <2>2, ChangedAdmin DEF ActiveAdmins
    <3> QED
      BY <1>1, <1>2, <3>1 DEF ActiveAdmins, ActiveAdminRemains
  <2>3. CASE a \notin ActiveAdmins
    BY <1>3, <2>3 DEF AdminsInv, ActiveAdminRemains
  <2> QED
    BY <2>1, <2>2, <2>3
<1>6. \A q \in Request : req'[q].pc # "updateAccount.write"
  <2>1. req'[r] = Idle
    BY BecomeIs DEF UpdateAccountWrite, Answer
  <2>2. \A q \in Request : q # r => req'[q] = req[q] /\ req[q].pc # "updateAccount.write"
    BY <1>1, BecomeIs DEF UpdateAccountWrite, Answer, OneAccountUpdate, Apart
  <2> QED
    BY <2>1, <2>2 DEF Idle
<1>7. IsFiniteSet(DOMAIN account')
  BY <1>2 DEF AdminsInv
<1> QED
  BY <1>5, <1>6, <1>7 DEF AdminsInv, CountedAnother

LEMMA AdminsRequest ==
  ASSUME Inv, AdminsInv, OneAccountUpdate, NEW r \in Request, Steps(r)
  PROVE  AdminsInv'
<1>1. \A q \in Request : q # r => req'[q] = req[q]
  BY OthersWait
<1>2. CASE UpdateAccountWrite(r)
  BY <1>2, AdminsUpdate
<1>3. CASE CreateAccountWrite(r)
  <2>1. PICK a \in Account, row \in AccountRow : InsertAccount(a, row)
    BY <1>3 DEF CreateAccountWrite
  <2>2. /\ a \notin DOMAIN account /\ DOMAIN account' = DOMAIN account \cup {a}
        /\ \A b \in DOMAIN account : account'[b] = account[b]
    BY <2>1 DEF InsertAccount, WithRow
  <2>3. IsFiniteSet(DOMAIN account') /\ ActiveAdmins \subseteq ActiveAdmins'
    BY <2>2, FS_AddElement DEF AdminsInv, ActiveAdmins
  <2>4. ActiveAdmins' \cap DOMAIN account \subseteq ActiveAdmins
    BY <2>2 DEF ActiveAdmins
  <2>5. \A q \in Request : req[q].pc = "updateAccount.write" => req[q].acct \in DOMAIN account
    BY DEF Inv, HandsOverRows, Sound
  <2>6. req'[r].pc = "idle"
    BY <1>3, BecomeIs DEF CreateAccountWrite, Answer, Idle
  <2> QED
    BY <1>1, <2>3, <2>4, <2>5, <2>6, MoreAdmins
<1>4. CASE UNCHANGED account
  <2>1. ActiveAdmins' = ActiveAdmins /\ CountActiveAdmins' = CountActiveAdmins
    BY <1>4 DEF ActiveAdmins, CountActiveAdmins
  <2>2. CountedAnother(req[r])'
    <3>1. CASE UpdateAccountRead(r)
      BY <2>1, <3>1, AccountRead DEF CountedAnother
    <3>2. CASE UpdateAccountCount(r)
      BY <2>1, <3>2 DEF UpdateAccountCount, CountedAnother
    <3> QED
      BY <3>1, <3>2, Enters DEF CountedAnother
  <2>3. \A q \in Request : q # r => CountedAnother(req[q])'
    BY <1>1, <2>1 DEF AdminsInv, CountedAnother
  <2> QED
    BY <1>4, <2>1, <2>2, <2>3 DEF AdminsInv, ActiveAdminRemains
<1> QED
  BY <1>2, <1>3, <1>4, WhoWrites

LEMMA AdminsPreserved == Inv /\ AdminsInv /\ OneAccountUpdate /\ [Next]_vars => AdminsInv'
<1>1. ASSUME AdminsInv, UNCHANGED <<account, req>> PROVE AdminsInv'
  <2>1. ActiveAdmins' = ActiveAdmins /\ CountActiveAdmins' = CountActiveAdmins
    BY <1>1 DEF ActiveAdmins, CountActiveAdmins
  <2> QED
    BY <1>1, <2>1 DEF AdminsInv, ActiveAdminRemains, CountedAnother
<1>2. ASSUME Inv, AdminsInv, NEW a \in Account, SignIn(a) \/ Redeem(a) PROVE AdminsInv'
  <2>1. CASE SignIn(a)
    BY <1>1, <1>2, <2>1 DEF SignIn, tables
  <2>2. CASE Redeem(a)
    <3>1. /\ DOMAIN account' = DOMAIN account /\ UNCHANGED req
          /\ \A b \in DOMAIN account : /\ account'[b].role = account[b].role
                                       /\ account'[b].active = account[b].active
      BY <1>2, <2>2 DEF Redeem, ActivateAccount, Inv, TypeOK, StoreTypeOK, AccountRow
    <3>2. ActiveAdmins' = ActiveAdmins /\ IsFiniteSet(DOMAIN account')
      BY <1>2, <3>1 DEF ActiveAdmins, AdminsInv
    <3> QED
      BY <1>2, <3>1, <3>2, MoreAdmins
  <2> QED
    BY <1>2, <2>1, <2>2
<1>3. ASSUME Inv, AdminsInv, OneAccountUpdate, Next PROVE AdminsInv'
  BY <1>2, <1>3, AdminsRequest DEF Next, Steps
<1> QED
  BY <1>1, <1>3 DEF vars, tables

\* README, "Guards that return 409": as long as no two updates of accounts stand
\* between the count of active administrators and the write, an active
\* administrator remains, whatever else runs.  Without the hypothesis two
\* administrators demote each other (the run last_admin_race).
THEOREM SomeAdminRemains == Spec /\ []OneAccountUpdate => []ActiveAdminRemains
<1>1. AdminsInv => ActiveAdminRemains
  BY DEF AdminsInv
<1> QED
  BY <1>1, InvHolds, AdminsInit, AdminsPreserved, PTL DEF Spec

(***************************************************************************)
(* Seats.  A request about to take a game master away has counted another  *)
(* one; a game master's request about to write a player's seat has read    *)
(* that it is no game master's.  Adding a player never disturbs either.    *)
(***************************************************************************)
SeatWrites == {"saveMembership.write", "updatePlayer.write"}
OneSeatChange == Apart(SeatWrites, SeatWrites)

Masters(g) == {s \in DOMAIN seat : /\ seat[s].game = g
                                   /\ seat[s].gm /\ seat[s].active
                                   /\ ~IsAgent(seat[s])}

CountedAnotherMaster(row) ==
  /\ row.pc = "saveMembership.write"
  /\ \E s \in SeatsOf(row.game, row.acct) : TakesMasterAway(seat[s], row.gm, row.active)
  => CountActiveGameMasters(row.game) > 1
AddsWhereAMasterIs(row) ==
  row.pc \in {"addPlayer.game", "addPlayer.account", "addPlayer.write"} => HasMaster(row.game)
KnowsThePlayer(row) ==
  row.pc = "updatePlayer.write" =>
    /\ SeatsOf(row.game, row.acct) # {}
    /\ \A s \in SeatsOf(row.game, row.acct) :
         ~seat[s].gm /\ (row.set = "keep" => seat[s].active = row.active)
Informed(row) == CountedAnotherMaster(row) /\ AddsWhereAMasterIs(row) /\ KnowsThePlayer(row)

SeatsInv ==
  /\ IsFiniteSet(DOMAIN seat)
  /\ \A s \in DOMAIN seat : IsAgent(seat[s]) => ~seat[s].gm
  /\ \A r \in Request : Informed(req[r])

LEMMA SeatsInit == Init => SeatsInv
<1> SUFFICES ASSUME Init PROVE SeatsInv
  OBVIOUS
<1>1. DOMAIN seat = {}
  BY DEF Init, NoRows
<1>2. \A r \in Request : req[r].pc = "idle"
  BY DEF Init, Idle
<1> QED
  BY <1>1, <1>2, FS_EmptySet DEF SeatsInv, Informed, CountedAnotherMaster,
     AddsWhereAMasterIs, KnowsThePlayer

LEMMA MastersCounted ==
  ASSUME IsFiniteSet(DOMAIN seat), NEW g
  PROVE  /\ IsFiniteSet(Masters(g))
         /\ CountActiveGameMasters(g) = Cardinality(Masters(g))
         /\ CountActiveGameMasters(g) \in Nat
         /\ HasMaster(g) <=> Masters(g) # {}
<1>1. IsFiniteSet(Masters(g)) /\ CountActiveGameMasters(g) = Cardinality(Masters(g))
  BY FS_Subset DEF Masters, CountActiveGameMasters
<1> QED
  BY <1>1, FS_EmptySet, FS_CardinalityType DEF HasMaster

LEMMA MastersCountedNext ==
  ASSUME IsFiniteSet(DOMAIN seat'), NEW g
  PROVE  /\ IsFiniteSet(Masters(g)')
         /\ CountActiveGameMasters(g)' = Cardinality(Masters(g)')
         /\ CountActiveGameMasters(g)' \in Nat
         /\ HasMaster(g)' <=> Masters(g)' # {}
<1>1. IsFiniteSet(Masters(g)') /\ CountActiveGameMasters(g)' = Cardinality(Masters(g)')
  BY FS_Subset DEF Masters, CountActiveGameMasters
<1> QED
  BY <1>1, FS_EmptySet, FS_CardinalityType DEF HasMaster

\* The seats of accounts are as they were.
HumansSame ==
  /\ \A g : Masters(g)' = Masters(g)
  /\ \A g : \A a \in Account : SeatsOf(g, a)' = SeatsOf(g, a)
  /\ \A s \in DOMAIN seat : ~IsAgent(seat[s]) => seat'[s] = seat[s]

LEMMA AgentsAlone ==
  ASSUME StoreTypeOK, NEW s, NEW g, NEW active,
         CreateAgentSeat(s, g, active) \/ UpdateAgentSeat(s, g, active)
  PROVE  /\ HumansSame
         /\ DOMAIN seat' = DOMAIN seat \cup {s}
         /\ (\A t \in DOMAIN seat : IsAgent(seat[t]) => ~seat[t].gm)
            => (\A t \in DOMAIN seat' : IsAgent(seat'[t]) => ~seat'[t].gm)
<1>1. CASE CreateAgentSeat(s, g, active)
  <2>1. /\ DOMAIN seat' = DOMAIN seat \cup {s} /\ s \notin DOMAIN seat
        /\ seat'[s].account = Null /\ ~seat'[s].gm
        /\ \A t \in DOMAIN seat : seat'[t] = seat[t]
    BY <1>1 DEF CreateAgentSeat, InsertSeat, WithRow
  <2> QED
    BY <2>1, NullAssumption DEF HumansSame, Masters, SeatsOf, IsAgent
<1>2. CASE UpdateAgentSeat(s, g, active)
  <2>1. /\ DOMAIN seat' = DOMAIN seat /\ s \in DOMAIN seat
        /\ seat[s].account = Null /\ seat'[s].account = Null /\ seat'[s].gm = seat[s].gm
        /\ \A t \in DOMAIN seat : t # s => seat'[t] = seat[t]
    BY <1>2 DEF UpdateAgentSeat, IsAgent, StoreTypeOK, SeatRow
  <2> QED
    BY <2>1, NullAssumption DEF HumansSame, Masters, SeatsOf, IsAgent
<1> QED
  BY <1>1, <1>2

LEMMA InformedStays ==
  ASSUME StoreTypeOK, HumansSame, NEW row, Informed(row),
         row.pc \in SeatWrites => row.acct \in Account
  PROVE  Informed(row)'
<1>1. CountActiveGameMasters(row.game)' = CountActiveGameMasters(row.game)
  BY DEF HumansSame, Masters, CountActiveGameMasters
<1>2. ASSUME row.pc \in SeatWrites
      PROVE  /\ SeatsOf(row.game, row.acct)' = SeatsOf(row.game, row.acct)
             /\ \A s \in SeatsOf(row.game, row.acct) : seat'[s] = seat[s]
  BY <1>2, NullAssumption DEF HumansSame, SeatsOf, IsAgent
<1>3. CountedAnotherMaster(row)'
  BY <1>1, <1>2 DEF Informed, CountedAnotherMaster, SeatWrites
<1>4. AddsWhereAMasterIs(row)'
  BY <1>1 DEF Informed, AddsWhereAMasterIs, HasMaster
<1>5. KnowsThePlayer(row)'
  BY <1>2 DEF Informed, KnowsThePlayer, SeatWrites
<1> QED
  BY <1>3, <1>4, <1>5 DEF Informed

\* An account takes seat n in a game where it has none.
Joins(n, g, a, gm, active) ==
  /\ n \notin DOMAIN seat /\ DOMAIN seat' = DOMAIN seat \cup {n}
  /\ \A t \in DOMAIN seat : seat'[t] = seat[t]
  /\ ~IsAgent(seat'[n])
  /\ \A h : Masters(h) \subseteq Masters(h)'
  /\ SeatsOf(g, a) = {} /\ SeatsOf(g, a)' = {n}
  /\ \A h, b : <<h, b>> # <<g, a>> => SeatsOf(h, b)' = SeatsOf(h, b)
  /\ gm /\ active => n \in Masters(g)'

LEMMA OneJoins ==
  ASSUME NEW n, NEW g, NEW a \in Account, NEW gm, NEW active,
         SeatsOf(g, a) = {},
         InsertSeat(n, [game |-> g, account |-> a, gm |-> gm, active |-> active])
  PROVE  Joins(n, g, a, gm, active)
<1>1. /\ n \notin DOMAIN seat /\ DOMAIN seat' = DOMAIN seat \cup {n}
      /\ \A t \in DOMAIN seat : seat'[t] = seat[t]
      /\ seat'[n].game = g /\ seat'[n].account = a
      /\ seat'[n].gm = gm /\ seat'[n].active = active
  BY DEF InsertSeat, WithRow
<1>2. SeatsOf(g, a)' = {n} /\ \A h, b : <<h, b>> # <<g, a>> => SeatsOf(h, b)' = SeatsOf(h, b)
  BY <1>1 DEF SeatsOf
<1>3. (\A h : Masters(h) \subseteq Masters(h)') /\ (gm /\ active => n \in Masters(g)')
  BY <1>1, NullAssumption DEF Masters, IsAgent
<1> QED
  BY <1>1, <1>2, <1>3, NullAssumption DEF IsAgent, Joins

\* The flags of an account's seat in a game change.
Changes(g, a, gm, active) ==
  /\ DOMAIN seat' = DOMAIN seat
  /\ \A s \in DOMAIN seat : /\ seat'[s].game = seat[s].game
                            /\ seat'[s].account = seat[s].account
                            /\ s \notin SeatsOf(g, a) => seat'[s] = seat[s]
  /\ \A s \in SeatsOf(g, a) : seat'[s].gm = gm /\ seat'[s].active = active
  /\ \A h : Masters(h) \ SeatsOf(g, a) \subseteq Masters(h)'
  /\ \A h : h # g => Masters(h) \subseteq Masters(h)'
  /\ gm /\ active => Masters(g) \subseteq Masters(g)'

LEMMA OneChanges ==
  ASSUME StoreTypeOK, NEW g, NEW a \in Account, NEW gm \in BOOLEAN, NEW active \in BOOLEAN,
         ReplaceMembership(g, a, gm, active)
  PROVE  Changes(g, a, gm, active)
<1> DEFINE new(s) == [seat[s] EXCEPT !.gm = gm, !.active = active]
<1>1. ASSUME NEW s \in DOMAIN seat
      PROVE  /\ new(s).game = seat[s].game /\ new(s).account = seat[s].account
             /\ new(s).gm = gm /\ new(s).active = active
  BY DEF StoreTypeOK, SeatRow
<1>2. seat' = [s \in DOMAIN seat |-> IF s \in SeatsOf(g, a) THEN new(s) ELSE seat[s]]
  BY DEF ReplaceMembership
<1> HIDE DEF new
<1>3. /\ DOMAIN seat' = DOMAIN seat
      /\ \A s \in DOMAIN seat : /\ seat'[s].game = seat[s].game
                                /\ seat'[s].account = seat[s].account
                                /\ s \notin SeatsOf(g, a) => seat'[s] = seat[s]
      /\ \A s \in SeatsOf(g, a) : seat'[s].gm = gm /\ seat'[s].active = active
  BY <1>1, <1>2 DEF SeatsOf
<1>4. \A h : Masters(h) \ SeatsOf(g, a) \subseteq Masters(h)'
  BY <1>3 DEF Masters
<1>5. \A h : h # g => Masters(h) \cap SeatsOf(g, a) = {}
  BY DEF Masters, SeatsOf
<1>6. gm /\ active => Masters(g) \subseteq Masters(g)'
  BY <1>3, NullAssumption DEF Masters, SeatsOf, IsAgent
<1> QED
  BY <1>3, <1>4, <1>5, <1>6 DEF Changes

\* A human's seat is written: no game that has a master is left without one.
MasterStays == \A g : HasMaster(g) => HasMaster(g)'

LEMMA MoreMasters ==
  ASSUME IsFiniteSet(DOMAIN seat), IsFiniteSet(DOMAIN seat'),
         \A g : Masters(g) # {} => Masters(g)' # {}
  PROVE  MasterStays
BY MastersCounted, MastersCountedNext DEF MasterStays

LEMMA SaveKeepsMasters ==
  ASSUME Inv, OneSeatPerAccount, SeatsInv, NEW r \in Request, SaveMembershipWrite(r)
  PROVE  /\ MasterStays /\ IsFiniteSet(DOMAIN seat')
         /\ \A s \in DOMAIN seat' : IsAgent(seat'[s]) => ~seat'[s].gm
<1>1. PICK g \in Game, a \in Account, gm \in BOOLEAN, active \in BOOLEAN :
        /\ req[r].pc = "saveMembership.write"
        /\ g = req[r].game /\ a = req[r].acct /\ gm = req[r].gm /\ active = req[r].active
  BY RowType DEF SaveMembershipWrite, At, Inv, TypeOK, StoreTypeOK, HandsOverRows,
                 Sound, RequestRow
<1>2. PICK n \in SeatId : UpsertMembership(n, g, a, gm, active)
  BY <1>1 DEF SaveMembershipWrite
<1>3. CASE InsertMembership(n, g, a, gm, active)
  <2>1. Joins(n, g, a, gm, active)
    BY <1>1, <1>3, OneJoins DEF InsertMembership
  <2>2. IsFiniteSet(DOMAIN seat')
    BY <2>1, FS_AddElement DEF SeatsInv, Joins
  <2>3. \A h : Masters(h) \subseteq Masters(h)'
    BY <2>1 DEF Joins
  <2>4. \A s \in DOMAIN seat' : IsAgent(seat'[s]) => ~seat'[s].gm
    BY <2>1 DEF SeatsInv, Joins, IsAgent
  <2> QED
    BY <2>2, <2>3, <2>4, MoreMasters DEF SeatsInv
<1>4. CASE ReplaceMembership(g, a, gm, active)
  <2>1. Changes(g, a, gm, active)
    BY <1>1, <1>4, OneChanges DEF Inv, TypeOK
  <2>2. IsFiniteSet(DOMAIN seat')
    BY <2>1 DEF SeatsInv, Changes
  <2>3. Masters(g) # {} => Masters(g)' # {}
    <3>1. PICK t \in SeatsOf(g, a) : TRUE
      BY <1>4 DEF ReplaceMembership
    <3>2. SeatsOf(g, a) = {t}
      BY <1>1, <3>1, NullAssumption DEF SeatsOf, OneSeatPerAccount, IsAgent
    <3>3. Masters(g) \ {t} \subseteq Masters(g)'
      BY <2>1, <3>2 DEF Changes
    <3>4. CASE TakesMasterAway(seat[t], gm, active)
      <4>1. CountActiveGameMasters(g) > 1
        BY <1>1, <3>1, <3>4 DEF SeatsInv, Informed, CountedAnotherMaster
      <4>2. Masters(g) \ {t} # {}
        BY <4>1, MastersCounted, TwoLeaveOne DEF SeatsInv
      <4> QED
        BY <3>3, <4>2
    <3>5. CASE gm /\ active
      BY <2>1, <3>5 DEF Changes
    <3>6. CASE ~(seat[t].gm /\ seat[t].active)
      BY <3>3, <3>6 DEF Masters
    <3> QED
      BY <1>1, <3>4, <3>5, <3>6 DEF TakesMasterAway
  <2>4. \A h : Masters(h) # {} => Masters(h)' # {}
    BY <2>1, <2>3 DEF Changes
  <2>5. \A s \in DOMAIN seat' : IsAgent(seat'[s]) => ~seat'[s].gm
    BY <1>1, <2>1, NullAssumption DEF SeatsInv, IsAgent, SeatsOf, Changes
  <2> QED
    BY <2>2, <2>4, <2>5, MoreMasters DEF SeatsInv
<1> QED
  BY <1>2, <1>3, <1>4 DEF UpsertMembership

LEMMA UpdateKeepsMasters ==
  ASSUME Inv, SeatsInv, NEW r \in Request, UpdatePlayerWrite(r)
  PROVE  /\ MasterStays /\ IsFiniteSet(DOMAIN seat')
         /\ \A s \in DOMAIN seat' : IsAgent(seat'[s]) => ~seat'[s].gm
         /\ \A s \in DOMAIN seat : seat[s].gm => seat'[s] = seat[s]
         /\ req[r].set = "keep" => \A s \in SeatsOf(req[r].game, req[r].acct) :
                                     seat'[s].active = seat[s].active
<1>1. PICK g \in Game, a \in Account, gm \in BOOLEAN, active \in BOOLEAN :
        /\ req[r].pc = "updatePlayer.write"
        /\ g = req[r].game /\ a = req[r].acct /\ gm = req[r].gm /\ active = req[r].active
  BY RowType DEF UpdatePlayerWrite, At, Inv, TypeOK, StoreTypeOK, HandsOverRows,
                 Sound, RequestRow
<1>2. /\ SeatsOf(g, a) # {}
      /\ \A s \in SeatsOf(g, a) : ~seat[s].gm /\ (req[r].set = "keep" => seat[s].active = active)
  BY <1>1 DEF SeatsInv, Informed, KnowsThePlayer
<1>3. ReplaceMembership(g, a, gm, active)
  BY <1>1, <1>2 DEF UpdatePlayerWrite, UpsertMembership, InsertMembership
<1>4. Changes(g, a, gm, active)
  BY <1>3, OneChanges DEF Inv, TypeOK
<1>5. \A h : Masters(h) \subseteq Masters(h)'
  <2>1. \A h : Masters(h) \cap SeatsOf(g, a) = {}
    BY <1>2 DEF Masters
  <2> QED
    BY <1>4, <2>1 DEF Changes
<1>6. IsFiniteSet(DOMAIN seat')
  BY <1>4 DEF SeatsInv, Changes
<1>7. \A s \in DOMAIN seat' : IsAgent(seat'[s]) => ~seat'[s].gm
  BY <1>4, NullAssumption DEF SeatsInv, IsAgent, SeatsOf, Changes
<1>8. MasterStays
  BY <1>5, <1>6, MoreMasters DEF SeatsInv
<1> QED
  BY <1>1, <1>2, <1>4, <1>6, <1>7, <1>8 DEF Changes

LEMMA AddKeepsMasters ==
  ASSUME Inv, SeatsInv, NEW r \in Request, AddPlayerWrite(r)
  PROVE  /\ IsFiniteSet(DOMAIN seat') /\ MasterStays
         /\ \A s \in DOMAIN seat' : IsAgent(seat'[s]) => ~seat'[s].gm
         /\ \A s \in DOMAIN seat : seat'[s] = seat[s]
         /\ \E n \in SeatId, g \in Game, a \in Account, gm \in BOOLEAN :
              HasMaster(g) /\ Joins(n, g, a, gm, TRUE)
<1>1. PICK g \in Game, a \in Account, gm \in BOOLEAN :
        /\ req[r].pc = "addPlayer.write"
        /\ g = req[r].game /\ a = req[r].acct /\ gm = req[r].gm
  BY RowType DEF AddPlayerWrite, At, Inv, TypeOK, StoreTypeOK, HandsOverRows,
                 Sound, RequestRow
<1>2. PICK n \in SeatId : CreateMembership(n, g, a, gm)
  BY <1>1 DEF AddPlayerWrite
<1>3. Joins(n, g, a, gm, TRUE)
  BY <1>2, OneJoins DEF CreateMembership
<1>4. HasMaster(g)
  BY <1>1 DEF SeatsInv, Informed, AddsWhereAMasterIs
<1>5. IsFiniteSet(DOMAIN seat')
  BY <1>3, FS_AddElement DEF SeatsInv, Joins
<1>6. \A h : Masters(h) \subseteq Masters(h)'
  BY <1>3 DEF Joins
<1>7. \A s \in DOMAIN seat' : IsAgent(seat'[s]) => ~seat'[s].gm
  BY <1>3 DEF SeatsInv, Joins, IsAgent
<1>8. MasterStays
  BY <1>5, <1>6, MoreMasters DEF SeatsInv
<1> QED
  BY <1>3, <1>4, <1>5, <1>7, <1>8 DEF Joins

\* What a request has read of the seats stands when a player joins: the game
\* has a master, so that a new one is a second one.
LEMMA InformedWhenOneJoins ==
  ASSUME IsFiniteSet(DOMAIN seat), IsFiniteSet(DOMAIN seat'), MasterStays,
         NEW n, NEW g, NEW a, NEW gm, HasMaster(g), Joins(n, g, a, gm, TRUE),
         NEW row, Informed(row)
  PROVE  Informed(row)'
<1>1. AddsWhereAMasterIs(row)'
  BY DEF Informed, AddsWhereAMasterIs, MasterStays
<1>2. KnowsThePlayer(row)'
  BY DEF Informed, KnowsThePlayer, Joins, SeatsOf
<1>3. CountedAnotherMaster(row)'
  <2>1. SUFFICES ASSUME row.pc = "saveMembership.write",
                        NEW s \in SeatsOf(row.game, row.acct)',
                        TakesMasterAway(seat'[s], row.gm, row.active)
                 PROVE  CountActiveGameMasters(row.game)' > 1
    BY DEF CountedAnotherMaster
  <2>2. CASE s \in DOMAIN seat
    <3>1. s \in SeatsOf(row.game, row.acct) /\ seat'[s] = seat[s]
      BY <2>2 DEF Joins, SeatsOf
    <3>2. CountActiveGameMasters(row.game) > 1
      BY <2>1, <3>1 DEF Informed, CountedAnotherMaster
    <3>3. Cardinality(Masters(row.game)) <= Cardinality(Masters(row.game)')
      BY MastersCountedNext, MoreOfThem DEF Joins
    <3>4. CountActiveGameMasters(row.game) <= CountActiveGameMasters(row.game)'
      BY <3>3, MastersCounted, MastersCountedNext
    <3> QED
      BY <3>2, <3>4, MastersCounted, MastersCountedNext
  <2>3. CASE s \notin DOMAIN seat
    <3>1. s = n /\ <<row.game, row.acct>> = <<g, a>>
      BY <2>1, <2>3 DEF Joins, SeatsOf
    <3>2. s \in Masters(g)' \ Masters(g)
      BY <2>1, <2>3, <3>1 DEF Masters, TakesMasterAway, Joins, SeatsOf
    <3>3. Masters(g) # {} /\ Masters(g) \subseteq Masters(g)'
      BY MastersCounted DEF Joins
    <3>4. Cardinality(Masters(g)') > 1
      BY <3>2, <3>3, OneMore, MastersCountedNext
    <3> QED
      BY <3>1, <3>4, MastersCountedNext
  <2> QED
    BY <2>2, <2>3
<1> QED
  BY <1>1, <1>2, <1>3 DEF Informed

\* What a request has just read is so.
LEMMA InformedByReading ==
  ASSUME Inv, OneSeatPerAccount, SeatsInv, NEW r \in Request, Steps(r), NEW new, new = req'[r]
  PROVE  UNCHANGED seat => Informed(new)
<1> SUFFICES ASSUME UNCHANGED seat PROVE Informed(new)
  OBVIOUS
<1>1. ASSUME new.pc = "saveMembership.write" PROVE CountedAnotherMaster(new)
  <2>1. SaveMembershipExisting(r) \/ SaveMembershipCount(r)
    BY <1>1, Enters
  <2>2. CASE SaveMembershipExisting(r)
    <3> DEFINE pc == IF \E s \in SeatsOf(req[r].game, req[r].acct) :
                          TakesMasterAway(seat[s], req[r].gm, req[r].active)
                     THEN "saveMembership.count" ELSE "saveMembership.write"
    <3>1. PICK next : next = pc
      OBVIOUS
    <3>2. Goto(r, next)
      BY <2>2, <3>1 DEF SaveMembershipExisting
    <3>3. /\ new.pc = next /\ new.game = req[r].game /\ new.acct = req[r].acct
          /\ new.gm = req[r].gm /\ new.active = req[r].active
      BY <3>2, GotoIs
    <3> QED
      BY <1>1, <3>1, <3>3 DEF CountedAnotherMaster
  <2>3. CASE SaveMembershipCount(r)
    <3>1. new.game = req[r].game
      BY <2>3, GotoIs DEF SaveMembershipCount
    <3> QED
      BY <2>3, <3>1 DEF SaveMembershipCount, CountedAnotherMaster
  <2> QED
    BY <2>1, <2>2, <2>3
<1>2. ASSUME new.pc = "addPlayer.game" PROVE HasMaster(new.game)
  <2>1. AddPlayerGate(r)
    BY <1>2, Enters
  <2>2. SeatRequired(r, new.game, TRUE) /\ req[r].by \in Account
    BY <2>1, GateRead DEF AddPlayerGate, Gate, At, Inv, HandsOverRows, Sound
  <2>3. PICK s \in SeatsOf(new.game, req[r].by) : seat[s].active /\ seat[s].gm
    BY <2>2 DEF SeatRequired
  <2>4. s \in Masters(new.game)
    BY <2>2, <2>3, NullAssumption DEF Masters, SeatsOf, IsAgent
  <2> QED
    BY <2>4, MastersCounted DEF SeatsInv
<1>3. ASSUME new.pc \in {"addPlayer.account", "addPlayer.write"} PROVE HasMaster(new.game)
  <2>1. /\ new.game = req[r].game
        /\ req[r].pc \in {"addPlayer.game", "addPlayer.account"}
    <3>1. CASE new.pc = "addPlayer.account"
      BY <3>1, Enters, GotoIs DEF AddPlayerGame, GameIsActive, At
    <3>2. CASE new.pc = "addPlayer.write"
      BY <3>2, Enters, PlayerAccountRead DEF AddPlayerAccount, At
    <3> QED
      BY <1>3, <3>1, <3>2
  <2> QED
    BY <2>1 DEF SeatsInv, Informed, AddsWhereAMasterIs
<1>4. ASSUME new.pc = "updatePlayer.write" PROVE KnowsThePlayer(new)
  <2>1. UpdatePlayerRead(r)
    BY <1>4, Enters
  <2>2. PICK s \in DOMAIN seat :
          /\ ~IsAgent(seat[s]) /\ ~seat[s].gm
          /\ new.game = seat[s].game /\ new.acct = seat[s].account
          /\ new.active = Apply(new.set, seat[s].active)
    BY <2>1, PlayerSeatRead
  <2>3. SeatsOf(new.game, new.acct) = {s}
    BY <2>2 DEF SeatsOf, OneSeatPerAccount, IsAgent
  <2> QED
    BY <2>2, <2>3 DEF KnowsThePlayer, Apply
<1> QED
  BY <1>1, <1>2, <1>3, <1>4 DEF Informed, CountedAnotherMaster, AddsWhereAMasterIs, KnowsThePlayer

\* A seat's game-master flag, or a master's active flag, is taken away only by
\* the write of PUT .../memberships/:accountID.
OnlyTheAdministrators(r) ==
  \A s \in DOMAIN seat : s \in DOMAIN seat' =>
    ~TakesMasterAway(seat[s], seat'[s].gm, seat'[s].active) \/ SaveMembershipWrite(r)

LEMMA Uninvolved ==
  ASSUME NEW row, row.pc \notin SeatWrites, AddsWhereAMasterIs(row), MasterStays
  PROVE  Informed(row)'
BY DEF Informed, CountedAnotherMaster, AddsWhereAMasterIs, KnowsThePlayer, SeatWrites, MasterStays

LEMMA SeatsRequest ==
  ASSUME Inv, OneSeatPerAccount, SeatsInv, OneSeatChange, NEW r \in Request, Steps(r)
  PROVE  SeatsInv' /\ MasterStays /\ OnlyTheAdministrators(r)
<1>1. \A q \in Request : q # r => req'[q] = req[q]
  BY OthersWait
<1>2. CASE SaveMembershipWrite(r) \/ UpdatePlayerWrite(r)
  <2>1. /\ MasterStays /\ IsFiniteSet(DOMAIN seat')
        /\ \A s \in DOMAIN seat' : IsAgent(seat'[s]) => ~seat'[s].gm
    BY <1>2, SaveKeepsMasters, UpdateKeepsMasters
  <2>2. ASSUME NEW q \in Request, NEW row, row = req'[q]
        PROVE  row.pc \notin SeatWrites /\ AddsWhereAMasterIs(row)
    <3>1. CASE q = r
      <4>1. row = Idle
        BY <1>2, <2>2, <3>1, BecomeIs DEF SaveMembershipWrite, UpdatePlayerWrite, Answer
      <4> QED
        BY <4>1 DEF Idle, SeatWrites, AddsWhereAMasterIs
    <3>2. CASE q # r
      <4>1. row = req[q]
        BY <1>1, <2>2, <3>2
      <4>2. req[r].pc \in SeatWrites
        BY <1>2 DEF SaveMembershipWrite, UpdatePlayerWrite, At, SeatWrites
      <4> QED
        BY <3>2, <4>1, <4>2 DEF OneSeatChange, Apart, SeatsInv, Informed
    <3> QED
      BY <3>1, <3>2
  <2>3. \A q \in Request : Informed(req[q])'
    <3> TAKE q \in Request
    <3>1. PICK row : row = req'[q]
      OBVIOUS
    <3>2. Informed(row)'
      BY <2>1, <2>2, <3>1, Uninvolved
    <3> QED
      BY <3>1, <3>2 DEF Informed, CountedAnotherMaster, AddsWhereAMasterIs, KnowsThePlayer
  <2>4. OnlyTheAdministrators(r)
    BY <1>2, UpdateKeepsMasters DEF OnlyTheAdministrators, TakesMasterAway
  <2> QED
    BY <2>1, <2>3, <2>4 DEF SeatsInv
<1>3. CASE AddPlayerWrite(r)
  <2>1. /\ IsFiniteSet(DOMAIN seat') /\ MasterStays
        /\ \A s \in DOMAIN seat' : IsAgent(seat'[s]) => ~seat'[s].gm
        /\ \A s \in DOMAIN seat : seat'[s] = seat[s]
    BY <1>3, AddKeepsMasters
  <2>2. PICK n \in SeatId, g \in Game, a \in Account, gm \in BOOLEAN :
          HasMaster(g) /\ Joins(n, g, a, gm, TRUE)
    BY <1>3, AddKeepsMasters
  <2>3. \A q \in Request : Informed(req[q])'
    <3> TAKE q \in Request
    <3>1. PICK row : row = req'[q]
      OBVIOUS
    <3>2. CASE q = r
      <4>1. row = Idle
        BY <1>3, <3>1, <3>2, BecomeIs DEF AddPlayerWrite, Answer
      <4> QED
        BY <3>1, <4>1 DEF Idle, Informed, CountedAnotherMaster, AddsWhereAMasterIs, KnowsThePlayer
    <3>3. CASE q # r
      <4>1. Informed(row)
        BY <1>1, <3>1, <3>3 DEF SeatsInv
      <4>2. Informed(row)'
        BY <2>1, <2>2, <4>1, InformedWhenOneJoins DEF SeatsInv
      <4> QED
        BY <3>1, <4>2 DEF Informed, CountedAnotherMaster, AddsWhereAMasterIs, KnowsThePlayer
    <3> QED
      BY <3>2, <3>3
  <2>4. OnlyTheAdministrators(r)
    BY <2>1 DEF OnlyTheAdministrators, TakesMasterAway
  <2> QED
    BY <2>1, <2>3, <2>4 DEF SeatsInv
<1>4. CASE CreateAgentSeatWrite(r) \/ UpdateAgentSeatWrite(r)
  <2>1. PICK s, g, active : CreateAgentSeat(s, g, active) \/ UpdateAgentSeat(s, g, active)
    BY <1>4 DEF CreateAgentSeatWrite, UpdateAgentSeatWrite
  <2>2. /\ HumansSame /\ DOMAIN seat' = DOMAIN seat \cup {s}
        /\ \A t \in DOMAIN seat' : IsAgent(seat'[t]) => ~seat'[t].gm
    BY <2>1, AgentsAlone DEF SeatsInv, Inv, TypeOK
  <2>3. IsFiniteSet(DOMAIN seat')
    BY <2>2, FS_AddElement DEF SeatsInv
  <2>4. MasterStays
    BY <2>2, <2>3, MoreMasters DEF SeatsInv, HumansSame
  <2>5. \A q \in Request : Informed(req[q])'
    <3> TAKE q \in Request
    <3>1. PICK row : row = req'[q]
      OBVIOUS
    <3>2. CASE q = r
      <4>1. row = Idle
        BY <1>4, <3>1, <3>2, BecomeIs DEF CreateAgentSeatWrite, UpdateAgentSeatWrite, Answer
      <4> QED
        BY <3>1, <4>1 DEF Idle, Informed, CountedAnotherMaster, AddsWhereAMasterIs, KnowsThePlayer
    <3>3. CASE q # r
      <4>1. row = req[q] /\ Informed(row)
        BY <1>1, <3>1, <3>3 DEF SeatsInv
      <4>2. row.pc \in SeatWrites => row.acct \in Account
        BY <4>1 DEF SeatWrites, Inv, HandsOverRows, Sound, TypeOK, StoreTypeOK
      <4>3. Informed(row)'
        BY <2>2, <4>1, <4>2, InformedStays DEF Inv, TypeOK
      <4> QED
        BY <3>1, <4>3 DEF Informed, CountedAnotherMaster, AddsWhereAMasterIs, KnowsThePlayer
    <3> QED
      BY <3>2, <3>3
  <2>6. OnlyTheAdministrators(r)
    BY <2>2 DEF OnlyTheAdministrators, TakesMasterAway, HumansSame, SeatsInv
  <2> QED
    BY <2>2, <2>3, <2>4, <2>5, <2>6 DEF SeatsInv
<1>5. CASE UNCHANGED seat
  <2>1. \A q \in Request : Informed(req[q])'
    <3> TAKE q \in Request
    <3>1. PICK row : row = req'[q]
      OBVIOUS
    <3>2. Informed(row)
      BY <1>1, <1>5, <3>1, InformedByReading DEF SeatsInv
    <3>3. CountActiveGameMasters(row.game)' = CountActiveGameMasters(row.game)
      BY <1>5 DEF CountActiveGameMasters, IsAgent
    <3> QED
      BY <1>5, <3>1, <3>2, <3>3
         DEF Informed, CountedAnotherMaster, AddsWhereAMasterIs, KnowsThePlayer, HasMaster, SeatsOf
  <2>2. MasterStays
    BY <1>5 DEF MasterStays, HasMaster, CountActiveGameMasters, IsAgent
  <2>3. OnlyTheAdministrators(r)
    BY <1>5 DEF OnlyTheAdministrators, TakesMasterAway
  <2> QED
    BY <1>5, <2>1, <2>2, <2>3 DEF SeatsInv, IsAgent
<1> QED
  BY <1>2, <1>3, <1>4, <1>5, WhoWrites

LEMMA SeatsStutter == SeatsInv /\ UNCHANGED <<seat, req>> => SeatsInv' /\ MasterStays
<1> SUFFICES ASSUME SeatsInv, UNCHANGED <<seat, req>> PROVE SeatsInv' /\ MasterStays
  OBVIOUS
<1>1. \A g : CountActiveGameMasters(g)' = CountActiveGameMasters(g)
  BY DEF CountActiveGameMasters, IsAgent
<1>2. \A r \in Request : Informed(req[r])'
  <2> TAKE r \in Request
  <2>1. PICK row : row = req[r] /\ row = req'[r]
    OBVIOUS
  <2>2. Informed(row) /\ CountActiveGameMasters(row.game)' = CountActiveGameMasters(row.game)
    BY <1>1, <2>1 DEF SeatsInv
  <2> QED
    BY <2>1, <2>2
       DEF Informed, CountedAnotherMaster, AddsWhereAMasterIs, KnowsThePlayer, HasMaster, SeatsOf
<1>3. MasterStays
  BY <1>1 DEF MasterStays, HasMaster
<1> QED
  BY <1>2, <1>3 DEF SeatsInv, IsAgent

LEMMA NextSteps ==
  ASSUME Next
  PROVE  (\E a \in Account : SignIn(a) \/ Redeem(a)) \/ \E r \in Request : Steps(r)
BY DEF Next, Steps

LEMMA SeatsStep ==
  ASSUME Inv, OneSeatPerAccount, SeatsInv, OneSeatChange, [Next]_vars
  PROVE  SeatsInv' /\ MasterStays
<1>1. CASE UNCHANGED vars
  BY <1>1, SeatsStutter DEF vars, tables
<1>2. ASSUME NEW a \in Account, SignIn(a) \/ Redeem(a) PROVE UNCHANGED <<seat, req>>
  BY <1>2 DEF SignIn, Redeem, ActivateAccount, tables
<1>3. ASSUME NEW r \in Request, Steps(r) PROVE SeatsInv' /\ MasterStays
  BY <1>3, SeatsRequest
<1> QED
  BY <1>1, <1>2, <1>3, SeatsStutter, NextSteps

LEMMA SeatsInvHolds == Spec /\ []OneSeatChange => []SeatsInv
<1>1. Inv /\ OneSeatPerAccount /\ SeatsInv /\ OneSeatChange /\ [Next]_vars => SeatsInv'
  BY SeatsStep
<1> QED
  BY <1>1, InvHolds, OneSeat, SeatsInit, PTL DEF Spec

\* README, "demoting or deactivating a game's last active game master": as long
\* as no two requests stand before the write of a membership or of a player, a
\* game that has an active game master keeps one.  Players being added, agents,
\* accounts and games change as they like.
THEOREM MastersRemain == Spec /\ []OneSeatChange => MasterRemains
<1>1. Inv /\ OneSeatPerAccount /\ SeatsInv /\ OneSeatChange /\ [Next]_vars
        => [\A g \in DOMAIN game : HasMaster(g) => HasMaster(g)']_seat
  BY SeatsStep DEF MasterStays
<1> QED
  BY <1>1, InvHolds, OneSeat, SeatsInvHolds, PTL DEF Spec, MasterRemains

\* handlers_game_players.go, "a game master's seat is an administrator's
\* business": under the same hypothesis, a game master never takes another's
\* flag away, although the handler that changes a player writes both flags from
\* what it read.
THEOREM OnlyAdministratorsDemote == Spec /\ []OneSeatChange => MastersAreTheAdministratorsBusiness
<1> DEFINE Business == \A s \in DOMAIN seat : s \in DOMAIN seat' =>
       \/ ~TakesMasterAway(seat[s], seat'[s].gm, seat'[s].active)
       \/ \E r \in Request : At(r, "saveMembership.write") /\ req'[r].pc = "idle"
<1>1. ASSUME Inv, OneSeatPerAccount, SeatsInv, OneSeatChange, [Next]_vars PROVE [Business]_seat
  <2>1. ASSUME NEW r \in Request, Steps(r) PROVE Business
    <3>1. OnlyTheAdministrators(r)
      BY <1>1, <2>1, SeatsRequest
    <3>2. SaveMembershipWrite(r) => At(r, "saveMembership.write") /\ req'[r].pc = "idle"
      BY <1>1, BecomeIs DEF SaveMembershipWrite, Answer, Idle
    <3> QED
      BY <3>1, <3>2 DEF OnlyTheAdministrators
  <2>2. ASSUME NEW a \in Account, SignIn(a) \/ Redeem(a) PROVE UNCHANGED seat
    BY <2>2 DEF SignIn, Redeem, ActivateAccount, tables
  <2>3. UNCHANGED vars => UNCHANGED seat
    BY DEF vars, tables
  <2> QED
    BY <1>1, <2>1, <2>2, <2>3, NextSteps
<1> QED
  BY <1>1, InvHolds, OneSeat, SeatsInvHolds, PTL DEF Spec, MastersAreTheAdministratorsBusiness

(***************************************************************************)
(* Games that are not active.  A request that seats somebody in a game or  *)
(* sets it up has read that the game is active, and it still is: whoever   *)
(* would switch it off waits.                                              *)
(***************************************************************************)
Admitted == {"createAgentSeat.write", "addPlayer.account", "addPlayer.write",
             "createGameState.write"}
GamesStandStill == Apart({"updateGame.write"}, Admitted)

GamesInv ==
  \A r \in Request :
    /\ req[r].pc \in Admitted => game[req[r].game]
    /\ req[r].pc = "updatePlayer.write" => SeatsOf(req[r].game, req[r].acct) # {}

LEMMA GamesInit == Init => GamesInv
<1>1. Init => \A r \in Request : req[r].pc = "idle"
  BY DEF Init, Idle
<1> QED
  BY <1>1 DEF GamesInv, Admitted

\* Seats keep their game and their holder.
LEMMA SeatsOfGrow ==
  ASSUME Inv, Next, NEW g, NEW a
  PROVE  SeatsOf(g, a) \subseteq SeatsOf(g, a)'
<1>1. ASSUME StoreNext
      PROVE  \A s \in DOMAIN seat : /\ s \in DOMAIN seat'
                                    /\ seat'[s].game = seat[s].game
                                    /\ seat'[s].account = seat[s].account
  <2>1. ASSUME NEW s, NEW row, NewSeat(s, row)
        PROVE  \A t \in DOMAIN seat : t \in DOMAIN seat' /\ seat'[t] = seat[t]
    BY <2>1 DEF NewSeat, InsertSeat, WithRow
  <2> QED
    BY <1>1, <2>1, SeatStep DEF FlagsChange, Inv, TypeOK
<1> QED
  BY <1>1, RequestStep DEF SeatsOf, tables

LEMMA GamesRequest ==
  ASSUME Inv, OneSeatPerAccount, GamesInv, GamesStandStill, Next, NEW r \in Request, Steps(r)
  PROVE  GamesInv'
<1>1. \A q \in Request : q # r => req'[q] = req[q]
  BY OthersWait
<1>2. ASSUME NEW q \in Request, NEW row, row = req'[q], row.pc = "updatePlayer.write"
      PROVE  SeatsOf(row.game, row.acct)' # {}
  <2>1. SeatsOf(row.game, row.acct) # {}
    <3>1. CASE q = r
      <4>1. UpdatePlayerRead(r)
        BY <1>2, <3>1, Enters
      <4> QED
        BY <1>2, <3>1, <4>1, PlayerSeatRead DEF SeatsOf
    <3>2. CASE q # r
      BY <1>1, <1>2, <3>2 DEF GamesInv
    <3> QED
      BY <3>1, <3>2
  <2> QED
    BY <2>1, SeatsOfGrow
<1>3. ASSUME NEW q \in Request, NEW row, row = req'[q], row.pc \in Admitted
      PROVE  game'[row.game]
  <2>1. CASE UpdateGameWrite(r)
    <3>1. req'[r] = Idle /\ req[r].pc = "updateGame.write"
      BY <2>1, BecomeIs DEF UpdateGameWrite, Answer, At
    <3>2. q # r
      BY <1>3, <3>1 DEF Idle, Admitted
    <3> QED
      BY <1>1, <1>3, <3>1, <3>2 DEF GamesStandStill, Apart
  <2>2. CASE CreateGameWrite(r)
    <3>1. req'[r] = Idle
      BY <2>2, BecomeIs DEF CreateGameWrite, Answer
    <3>2. q # r
      BY <1>3, <3>1 DEF Idle, Admitted
    <3>3. row = req[q] /\ row.game \in DOMAIN game /\ game[row.game]
      BY <1>1, <1>3, <3>2 DEF GamesInv, Admitted, Inv, HandsOverRows, Sound
    <3>4. PICK g \in Game : InsertGame(g)
      BY <2>2 DEF CreateGameWrite
    <3> QED
      BY <3>3, <3>4 DEF InsertGame, WithRow
  <2>3. CASE UNCHANGED game
    <3>1. game[row.game]
      <4>1. CASE q # r
        BY <1>1, <1>3, <4>1 DEF GamesInv
      <4>2. CASE q = r /\ row.pc = "createAgentSeat.write"
        BY <1>3, <4>2, Enters, AgentGameRead
      <4>3. CASE q = r /\ row.pc = "addPlayer.account"
        <5>1. AddPlayerGame(r)
          BY <1>3, <4>3, Enters
        <5>2. row.game = req[r].game
          BY <1>3, <4>3, <5>1, GotoIs DEF AddPlayerGame, GameIsActive
        <5> QED
          BY <5>1, <5>2 DEF AddPlayerGame, GameIsActive
      <4>4. CASE q = r /\ row.pc = "addPlayer.write"
        <5>1. AddPlayerAccount(r)
          BY <1>3, <4>4, Enters
        <5>2. row.game = req[r].game /\ req[r].pc = "addPlayer.account"
          BY <1>3, <4>4, <5>1, PlayerAccountRead DEF AddPlayerAccount, At
        <5> QED
          BY <5>2 DEF GamesInv, Admitted
      <4>5. CASE q = r /\ row.pc = "createGameState.write"
        BY <1>3, <4>5, Enters, SetUpGameRead
      <4> QED
        BY <1>3, <4>1, <4>2, <4>3, <4>4, <4>5 DEF Admitted
    <3> QED
      BY <2>3, <3>1
  <2> QED
    BY <2>1, <2>2, <2>3, WhoWrites
<1>4. \A q \in Request :
        /\ req'[q].pc \in Admitted => game'[req'[q].game]
        /\ req'[q].pc = "updatePlayer.write" => (SeatsOf(req[q].game, req[q].acct) # {})'
  <2> TAKE q \in Request
  <2>1. PICK row : row = req'[q]
    OBVIOUS
  <2>2. /\ row.pc \in Admitted => game'[row.game]
        /\ row.pc = "updatePlayer.write" => SeatsOf(row.game, row.acct)' # {}
    BY <1>2, <1>3, <2>1
  <2> QED
    BY <2>1, <2>2 DEF SeatsOf
<1> QED
  BY <1>4 DEF GamesInv

LEMMA GamesPreserved ==
  Inv /\ OneSeatPerAccount /\ GamesInv /\ GamesStandStill /\ [Next]_vars => GamesInv'
<1>1. ASSUME GamesInv, UNCHANGED <<game, seat, req>> PROVE GamesInv'
  BY <1>1 DEF GamesInv, SeatsOf
<1>2. ASSUME NEW a \in Account, SignIn(a) \/ Redeem(a) PROVE UNCHANGED <<game, seat, req>>
  BY <1>2 DEF SignIn, Redeem, ActivateAccount, tables
<1>3. UNCHANGED vars => UNCHANGED <<game, seat, req>>
  BY DEF vars, tables
<1>4. ASSUME Inv, OneSeatPerAccount, GamesInv, GamesStandStill, Next PROVE GamesInv'
  BY <1>1, <1>2, <1>4, GamesRequest, NextSteps
<1> QED
  BY <1>1, <1>3, <1>4

LEMMA OnlyActiveGamesGrow ==
  ASSUME Inv, GamesInv, NEW r \in Request, Steps(r)
  PROVE  \/ SaveMembershipWrite(r)
         \/ /\ \A s \in DOMAIN seat' \ DOMAIN seat : game[seat'[s].game]
            /\ \A g \in DOMAIN state' \ DOMAIN state : game[g]
<1>1. CASE UpdatePlayerWrite(r)
  <2>1. PICK g \in Game, a \in Account, gm \in BOOLEAN, active \in BOOLEAN :
          /\ req[r].pc = "updatePlayer.write"
          /\ g = req[r].game /\ a = req[r].acct /\ gm = req[r].gm /\ active = req[r].active
    BY <1>1, RowType DEF UpdatePlayerWrite, At, Inv, TypeOK, StoreTypeOK, HandsOverRows,
                         Sound, RequestRow
  <2>2. ReplaceMembership(g, a, gm, active)
    BY <1>1, <2>1 DEF GamesInv, UpdatePlayerWrite, UpsertMembership, InsertMembership
  <2> QED
    BY <2>2 DEF ReplaceMembership
<1>2. CASE AddPlayerWrite(r) \/ CreateAgentSeatWrite(r)
  <2>1. game[req[r].game]
    BY <1>2 DEF AddPlayerWrite, CreateAgentSeatWrite, At, GamesInv, Admitted
  <2>2. PICK n, row : InsertSeat(n, row) /\ row.game = req[r].game
    BY <1>2 DEF AddPlayerWrite, CreateAgentSeatWrite, CreateMembership, CreateAgentSeat
  <2>3. /\ DOMAIN seat' \ DOMAIN seat = {n} /\ seat'[n].game = req[r].game
        /\ UNCHANGED state
    BY <2>2 DEF InsertSeat, WithRow
  <2> QED
    BY <2>1, <2>3
<1>3. CASE UpdateAgentSeatWrite(r)
  BY <1>3 DEF UpdateAgentSeatWrite, UpdateAgentSeat
<1>4. CASE CreateGameStateWrite(r)
  <2>1. game[req[r].game]
    BY <1>4 DEF CreateGameStateWrite, At, GamesInv, Admitted
  <2> QED
    BY <1>4, <2>1 DEF CreateGameStateWrite, InsertGameState, WithRow
<1>5. CASE UNCHANGED <<seat, state>>
  BY <1>5
<1> QED
  BY <1>1, <1>2, <1>3, <1>4, <1>5, WhoWrites

\* handlers_game_players.go and handlers_admin_games.go refuse a game that is
\* not active: as long as no game is switched on or off while a request that
\* has looked at the flag is about to write, nobody is seated in, or sets up, a
\* game that is not active, but by saving a membership.
THEOREM InactiveGamesStay == Spec /\ []GamesStandStill => InactiveGamesStayAsTheyAre
<1> DEFINE Stay == \/ \E r \in Request : At(r, "saveMembership.write") /\ req'[r].pc = "idle"
                   \/ /\ \A s \in DOMAIN seat' \ DOMAIN seat : game[seat'[s].game]
                      /\ \A g \in DOMAIN state' \ DOMAIN state : game[g]
<1>1. ASSUME Inv, GamesInv, [Next]_vars PROVE [Stay]_<<seat, state>>
  <2>1. ASSUME NEW r \in Request, Steps(r) PROVE Stay
    <3>1. SaveMembershipWrite(r) => At(r, "saveMembership.write") /\ req'[r].pc = "idle"
      BY <1>1, BecomeIs DEF SaveMembershipWrite, Answer, Idle
    <3> QED
      BY <1>1, <2>1, <3>1, OnlyActiveGamesGrow
  <2>2. ASSUME NEW a \in Account, SignIn(a) \/ Redeem(a) PROVE UNCHANGED <<seat, state>>
    BY <2>2 DEF SignIn, Redeem, ActivateAccount, tables
  <2>3. UNCHANGED vars => UNCHANGED <<seat, state>>
    BY DEF vars, tables
  <2> QED
    BY <1>1, <2>1, <2>2, <2>3, NextSteps
<1> QED
  BY <1>1, InvHolds, OneSeat, GamesInit, GamesPreserved, PTL
     DEF Spec, InactiveGamesStayAsTheyAre

(***************************************************************************)
(* Flags that a request leaves out.                                        *)
(***************************************************************************)
OneAgentUpdate == Apart({"updateAgentSeat.write"}, {"updateAgentSeat.write"})

KnowsTheAgent(row) ==
  row.pc = "updateAgentSeat.write" =>
    /\ row.seat \in DOMAIN seat /\ IsAgent(seat[row.seat])
    /\ row.set = "keep" => row.active = seat[row.seat].active

AgentsInv == \A r \in Request : KnowsTheAgent(req[r])

LEMMA AgentsInit == Init => AgentsInv
<1>1. Init => \A r \in Request : req[r].pc = "idle"
  BY DEF Init, Idle
<1> QED
  BY <1>1 DEF AgentsInv, KnowsTheAgent

\* No transaction but UpdateAgentSeat touches the row of an agent.
LEMMA AgentsKept ==
  ASSUME Inv, NEW r \in Request, Steps(r), ~UpdateAgentSeatWrite(r)
  PROVE  \A s \in DOMAIN seat : IsAgent(seat[s]) => s \in DOMAIN seat' /\ seat'[s] = seat[s]
<1>1. ASSUME NEW n, NEW row, InsertSeat(n, row)
      PROVE  \A s \in DOMAIN seat : s \in DOMAIN seat' /\ seat'[s] = seat[s]
  BY <1>1 DEF InsertSeat, WithRow
<1>2. CASE SaveMembershipWrite(r) \/ UpdatePlayerWrite(r)
  <2>1. PICK g \in Game, a \in Account, gm \in BOOLEAN, active \in BOOLEAN :
          g = req[r].game /\ a = req[r].acct /\ gm = req[r].gm /\ active = req[r].active
    BY <1>2, RowType DEF SaveMembershipWrite, UpdatePlayerWrite, At, Inv, TypeOK,
                         StoreTypeOK, HandsOverRows, Sound, RequestRow
  <2>2. PICK n \in SeatId : UpsertMembership(n, g, a, gm, active)
    BY <1>2, <2>1 DEF SaveMembershipWrite, UpdatePlayerWrite
  <2>3. CASE ReplaceMembership(g, a, gm, active)
    BY <2>3, NullAssumption DEF ReplaceMembership, SeatsOf, IsAgent
  <2> QED
    BY <1>1, <2>2, <2>3 DEF UpsertMembership, InsertMembership
<1>3. CASE AddPlayerWrite(r) \/ CreateAgentSeatWrite(r)
  BY <1>1, <1>3 DEF AddPlayerWrite, CreateAgentSeatWrite, CreateMembership, CreateAgentSeat
<1> QED
  BY <1>2, <1>3, WhoWrites

LEMMA AgentsRequest ==
  ASSUME Inv, AgentsInv, OneAgentUpdate, NEW r \in Request, Steps(r)
  PROVE  AgentsInv'
<1>1. \A q \in Request : q # r => req'[q] = req[q]
  BY OthersWait
<1>2. ASSUME NEW q \in Request, NEW row, row = req'[q], row.pc = "updateAgentSeat.write"
      PROVE  /\ row.seat \in DOMAIN seat' /\ seat'[row.seat].account = Null
             /\ row.set = "keep" => row.active = seat'[row.seat].active
  <2>1. CASE UpdateAgentSeatWrite(r)
    <3>1. req'[r] = Idle /\ req[r].pc = "updateAgentSeat.write"
      BY <2>1, BecomeIs DEF UpdateAgentSeatWrite, Answer, At
    <3> QED
      BY <1>1, <1>2, <3>1 DEF OneAgentUpdate, Apart, Idle
  <2>2. CASE ~UpdateAgentSeatWrite(r)
    <3>1. KnowsTheAgent(row)
      <4>1. CASE q # r
        BY <1>1, <1>2, <4>1 DEF AgentsInv
      <4>2. CASE q = r
        <5>1. UpdateAgentSeatRead(r)
          BY <1>2, <4>2, Enters
        <5> QED
          BY <1>2, <4>2, <5>1, AgentSeatRead DEF KnowsTheAgent, Apply
      <4> QED
        BY <4>1, <4>2
    <3> QED
      BY <1>2, <2>2, <3>1, AgentsKept DEF KnowsTheAgent, IsAgent
  <2> QED
    BY <2>1, <2>2
<1>3. \A q \in Request : KnowsTheAgent(req[q])'
  <2> TAKE q \in Request
  <2>1. PICK row : row = req'[q]
    OBVIOUS
  <2> QED
    BY <1>2, <2>1 DEF KnowsTheAgent, IsAgent
<1> QED
  BY <1>3 DEF AgentsInv

LEMMA AgentsPreserved == Inv /\ AgentsInv /\ OneAgentUpdate /\ [Next]_vars => AgentsInv'
<1>1. ASSUME AgentsInv, UNCHANGED <<seat, req>> PROVE AgentsInv'
  BY <1>1 DEF AgentsInv, KnowsTheAgent, IsAgent
<1>2. ASSUME NEW a \in Account, SignIn(a) \/ Redeem(a) PROVE UNCHANGED <<seat, req>>
  BY <1>2 DEF SignIn, Redeem, ActivateAccount, tables
<1>3. UNCHANGED vars => UNCHANGED <<seat, req>>
  BY DEF vars, tables
<1>4. ASSUME Inv, AgentsInv, OneAgentUpdate, Next PROVE AgentsInv'
  BY <1>1, <1>2, <1>4, AgentsRequest, NextSteps
<1> QED
  BY <1>1, <1>3, <1>4

LEMMA FlagsKeptByStep ==
  ASSUME Inv, SeatsInv, AgentsInv, NEW r \in Request, Steps(r),
         req[r].set = "keep", req'[r].pc = "idle"
  PROVE  /\ At(r, "updateAgentSeat.write") =>
              seat'[req[r].seat].active = seat[req[r].seat].active
         /\ At(r, "updatePlayer.write") =>
              \A s \in SeatsOf(req[r].game, req[r].acct) : seat'[s].active = seat[s].active
<1>1. CASE UpdateAgentSeatWrite(r)
  <2>1. /\ req[r].pc = "updateAgentSeat.write"
        /\ req[r].seat \in DOMAIN seat
        /\ req[r].active = seat[req[r].seat].active
    BY <1>1 DEF UpdateAgentSeatWrite, At, AgentsInv, KnowsTheAgent
  <2>2. seat' = [seat EXCEPT ![req[r].seat].active = req[r].active]
    BY <1>1 DEF UpdateAgentSeatWrite, UpdateAgentSeat
  <2>3. seat'[req[r].seat].active = seat[req[r].seat].active
    BY <2>1, <2>2 DEF Inv, TypeOK, StoreTypeOK, SeatRow
  <2> QED
    BY <2>1, <2>3 DEF At
<1>2. CASE UpdatePlayerWrite(r)
  BY <1>2, UpdateKeepsMasters DEF UpdatePlayerWrite, At
<1>3. CASE UNCHANGED seat
  BY <1>3
<1>4. CASE ~(UpdateAgentSeatWrite(r) \/ UpdatePlayerWrite(r)) /\ ~UNCHANGED seat
  BY <1>4, WhoWrites DEF At, SaveMembershipWrite, AddPlayerWrite, CreateAgentSeatWrite
<1> QED
  BY <1>1, <1>2, <1>3, <1>4

\* PATCH .../players/:playerID and PATCH .../agents/:playerID: as long as no two
\* requests stand before the write of a human's seat, and none before that of
\* an agent's, a body without is_active leaves the flag as it is, although the
\* handlers write back a flag they have read.
THEOREM OmittedFlagsStay == Spec /\ []OneSeatChange /\ []OneAgentUpdate => OmittedFlagsKept
<1> DEFINE Kept(r) ==
      req[r].set = "keep" /\ req'[r].pc = "idle" =>
        /\ At(r, "updateAgentSeat.write") =>
             seat'[req[r].seat].active = seat[req[r].seat].active
        /\ At(r, "updatePlayer.write") =>
             \A s \in SeatsOf(req[r].game, req[r].acct) : seat'[s].active = seat[s].active
<1>1. ASSUME Inv, SeatsInv, AgentsInv, [Next]_vars PROVE [\A r \in Request : Kept(r)]_vars
  <2>1. ASSUME NEW r \in Request, UNCHANGED req PROVE Kept(r)
    BY <2>1 DEF At
  <2>2. ASSUME NEW q \in Request, Steps(q), NEW r \in Request PROVE Kept(r)
    <3>1. CASE r = q
      BY <1>1, <2>2, <3>1, FlagsKeptByStep
    <3>2. CASE r # q
      BY <1>1, <2>2, <3>2, OthersWait DEF At
    <3> QED
      BY <3>1, <3>2
  <2>3. ASSUME NEW a \in Account, SignIn(a) \/ Redeem(a) PROVE UNCHANGED req
    BY <2>3 DEF SignIn, Redeem
  <2> QED
    BY <1>1, <2>1, <2>2, <2>3, NextSteps
<1> QED
  BY <1>1, InvHolds, AgentsInit, AgentsPreserved, SeatsInvHolds, PTL
     DEF Spec, OmittedFlagsKept
================================================================================
