CONSTANTS
  Null = Null
  Account = {a1, u1}
  Game = {g1}
  SeatId = {s1, s2}
  Seed = {x1, x2}
  Request = {r1, r2}
  Admins = {a1}
  Users = {u1}
  Handler <- TwoHandlers
SYMMETRY Interchangeable
SPECIFICATION Spec
INVARIANTS AdminsHoldNoSeat ToldSeedIsTheSeed OneSeatPerAccount
PROPERTIES KeepsTheBook SeatsKeepTheirIdentity
