CONSTANTS
  Null = Null
  Account = {a1, u1, n1}
  Game = {g1}
  SeatId = {s1, s2, s3}
  Seed = {x1}
  Request = {r1}
  Admins = {a1}
  Users = {u1}
  Handler <- AllHandlers
SYMMETRY Interchangeable
SPECIFICATION Spec
INVARIANTS TypeOK HandsOverRows ActiveAdminRemains
PROPERTIES MasterRemains InactiveGamesStayAsTheyAre MastersAreTheAdministratorsBusiness OmittedFlagsKept
