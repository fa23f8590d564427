CONSTANTS
  Null = Null
  x1 = x1
  x2 = x2
  Account = {u1}
  Users = {u1}
  Game = {g1}
  SeatId = {s1}
  Seed = {x1, x2}
  Request = {r1, r2}
  Unit = 4
  Stream <- StreamOf
  DrawsPerStellium = 2
  MinStelliumCount = 1
  MaxStelliumCount = 2
  MinRadius = 3
  MaxRadius = 4
SYMMETRY Interchangeable
SPECIFICATION Spec
INVARIANTS MapsAreWhole WithinTheRadius IdsFollowTheMap ShownMapIsTheMap
PROPERTIES KeepsTheStages
