CONSTANTS
  Null = Null
  Account = {a1, n1}
  Admins = {a1}
  Users = {}
  SessionId = {s1}
  LinkId = {t1, t2, t3}
  Password = {p1}
  First = p1
  Request = {r1, r2}
  Handler <- LinkHandlers
  TTL = 9
  IdleTTL = 9
  LinkTTL = 1
  Refresh = 1
  MaxTime = 0
SYMMETRY Interchangeable
SPECIFICATION Spec
INVARIANTS OneOpenLink LinkSetsOnePassword
PROPERTIES KeepsTheSessionBook
