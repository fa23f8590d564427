CONSTANTS
  Null = Null
  Account = {a1, n1}
  Admins = {a1}
  Users = {}
  SessionId = {s1, s2}
  LinkId = {t1}
  Password = {p1, p2}
  First = p1
  Request = {r1}
  Handler <- AllHandlers
  TTL = 1
  IdleTTL = 1
  LinkTTL = 1
  Refresh = 1
  MaxTime = 1
SYMMETRY Interchangeable
SPECIFICATION Spec
PROPERTIES InactiveGetNoSession SessionsStartWithTheCurrentPassword ImpersonationStartsAtAUser
