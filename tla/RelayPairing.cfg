SPECIFICATION FairSpec
CONSTANTS
  c1 = c1  c2 = c2  c3 = c3  direct = direct  proxied = proxied
  Conn = {c1, c2, c3}
  NoConn = NoConn
  Uuid = {u1, u2}
  NoUuid = NoUuid
  Label = {direct, proxied}
  LabelOf <- SharedLabel

  
PROPERTIES
  EvictionNeedsReuse
  PairsSpec
  WaitEnds
  GoneIsReleased
