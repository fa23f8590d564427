CONSTANTS
  Null = Null
  Proc = {p1, p2}
  Site = {s1, s2}
  Email = {e1, e2}
  Cookie = {c1, c2, c3}
  Route = Route
SYMMETRY Interchangeable
SPECIFICATION Spec
INVARIANTS CookiesKeepTheirAccount NeverHalfWritten
