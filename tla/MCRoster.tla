-------------------------------- MODULE MCRoster -------------------------------
(* Values of Roster's constants for TLC. *)
EXTENDS Roster, TLC

AllHandlers == {"createAccount", "updateAccount", "createGame", "updateGame",
  "saveMembership", "createAgentSeat", "updateAgentSeat", "addPlayer",
  "updatePlayer", "createGameState", "getPlayerGame"}
AccountHandlers == {"createAccount", "updateAccount"}
TwoHandlers == {"createGame", "saveMembership", "addPlayer", "updatePlayer",
  "updateAccount", "createGameState", "getPlayerGame"}

\* Accounts that start alike, slots, seat ids and seeds are interchangeable.
Interchangeable ==
  UNION {Permutations(S) : S \in {Admins, Users, Account \ (Admins \cup Users),
                                  Request, SeatId, Seed}}
================================================================================
