CONSTANTS
  Null = Null
  DatabaseName = ecv8db
  File = {f1, f2, f3}
  Backup = {1, 2}
  MaxVersion = 2
  MaxSecond = 2
  p1 = p1
  p2 = p2
  Proc = {p1, p2}
  Latest <- Levels
SYMMETRY Interchangeable
VIEW Reachable
SPECIFICATION Spec
INVARIANTS CreatedIsWhole UsesItsSchema PartialBackupsAreRemoved
PROPERTIES CreatorsRemoveTheirOwn GoesForward
