SPECIFICATION Spec
CONSTANTS
  a1 = a1  a2 = a2  w1 = w1  w2 = w2
  addrA = addrA  addrW = addrW
  Conn = {a1, a2, w1, w2}
  NoConn = NoConn
  Key = {addrA, addrW}
  KeyOf <- MixedAddresses
  UdpKey = UdpKey
  Ws = {w1, w2}
  Proxied = {w1, w2}
  Secure = {a1, a2}
SYMMETRY Symmetry
INVARIANTS
  WaitersHaveTasks
  AnswersGoHome
PROPERTIES
  WaitersStay
CHECK_DEADLOCK FALSE
