SPECIFICATION FairSpec
CONSTANTS
  s1 = s1  s2 = s2  s3 = s3
  Server = {s1, s2, s3}
  List <- Lists
  Check = {k1, k2}
  MaxQueue = 1
INVARIANTS
  KeepsSomeServer
PROPERTIES
  OnlyOldChecksMislead
  Converges
