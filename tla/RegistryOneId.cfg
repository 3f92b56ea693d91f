SPECIFICATION Spec
CONSTANTS
  ip1 = ip1  lo = lo  u1 = u1  u2 = u2  k1 = k1  k2 = k2
  Ip = {ip1, lo}
  Loopback = {lo}
  Uuid = {u1, u2}
  Pk = {k1, k2}
  NoIp = NoIp  NoUuid = NoUuid  NoPk = NoPk  NoGuid = NoGuid
  NoHandle = NoHandle  NoRequest = NoRequest  NoRow = NoRow
  RegPkLimit = 0
  Id = {i1}
  Guid = {g1}
  Task = {udp, t1}
  UdpTasks = {udp}
  Handle = {h1, h2, h3}
  SourceAddr <- AddrAll
  Claim <- ClaimAll
  DbMayFail = FALSE
SYMMETRY Symmetry
INVARIANTS
  TypeOK
  KnownIdNeverLooksNew
  SerialAgreement
  RecordsAgree
PROPERTIES
  AckedIsStored
  OnlineUntilExpiry
  StoreSpec
