SPECIFICATION Spec
CONSTANTS
  Id = {i1, i2, i3, i4, i5}
  Ip = {p1, p2}
  NoEntry = NoEntry
  MaxCount = 3
  MaxIds = 2
  BlockDur = 1
  Day = 3
  ChangeDur = 2
SYMMETRY Symmetry
INVARIANTS
  WindowBound
  NewIdsBound
  ListedReallyMoved
