CONSTANTS
  Null = Null
  Account = {u1}
  Admins = {}
  Users = {u1}
  SessionId = {s1, s2}
  LinkId = {}
  Password = {p1}
  First = p1
  Request = {r1, r2}
  Handler <- LifetimeHandlers
  TTL = 3
  IdleTTL = 2
  LinkTTL = 1
  Refresh = 1
  MaxTime = 4
SYMMETRY Interchangeable
SPECIFICATION Spec
INVARIANTS AbsoluteLifetime EndedForGood LoginSupersedes
PROPERTIES SweepTakesOnlyTheExpired
