SPECIFICATION KeyFairSpec
CONSTANTS
  Server = {hbbs, hbbr}
  Key = {k0, k1, k2, k3, k4}
  GivenKey = k0
  NoKey = NoKey
  Absent = Absent
  Empty = Empty
  IoMayFail = TRUE
INVARIANTS
  ServedAsPublished
PROPERTIES
  
  Recovers
