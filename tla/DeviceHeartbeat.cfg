SPECIFICATION FairSpec
CONSTANTS
  Ip = {ip1, ip2, lo}
  Loopback = {lo}
  Uuid = {u1}
  Pk = {k1, k2}
  Guid = {g1}
  NoIp = NoIp  NoUuid = NoUuid  NoPk = NoPk  NoGuid = NoGuid
  NoMem = NoMem  NoRow = NoRow
  RegPkLimit = 0
  TheUuid = u1
  TheGuid = g1
  MaxBeats = 2
  MaxPks = 2
PROPERTIES
  Lasts
  BackOnline
