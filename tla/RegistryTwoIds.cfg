SPECIFICATION Spec
CONSTANTS
  ip1 = ip1  lo = lo  u1 = u1  u2 = u2  k1 = k1  k2 = k2
  Ip = {ip1, lo}
  Loopback = {lo}
  Uuid = {u1, u2}
  Pk = {k1, k2}
  NoIp = NoIp  NoUuid = NoUuid  NoPk = NoPk  NoGuid = NoGuid
  NoHandle = NoHandle  NoRequest = NoRequest  NoRow = NoRow
  RegPkLimit = 0
  Id = {i1, i2}
  Guid = {g1, g2}
  Task = {udp, t1}
  UdpTasks = {udp}
  Handle = {h1, h2, h3, h4}
  SourceAddr <- AddrOne
  Claim <- ClaimOne
  DbMayFail = TRUE
SYMMETRY Symmetry
INVARIANTS
  GuidNamesOwnRow
