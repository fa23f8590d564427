CONSTANTS
  Null = Null
  Account = {a1, a2}
  Game = {}
  SeatId = {s1, s2, s3}
  Seed = {x1}
  Request = {r1, r2}
  Admins = {a1, a2}
  Users = {}
  Handler <- AccountHandlers
SYMMETRY Interchangeable
SPECIFICATION Spec
INVARIANT ActiveAdminRemains
