CONSTANTS
  Null = Null
  DatabaseName = ecv8db
  File = {f1, f2, f3}
  Backup = {1}
  MaxVersion = 2
  MaxSecond = 1
  p1 = p1
  p2 = p2
  Proc = {p1, p2}
  Latest <- OneLevel
SYMMETRY Interchangeable
SPECIFICATION Spec
PROPERTY RemovesItsOwnBackup
