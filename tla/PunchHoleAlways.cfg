SPECIFICATION Spec
CONSTANTS
  s1 = s1  s2 = s2  s3 = s3
  Server = {s1, s2, s3}
  NoServer = NoServer
  HereNames = {s1}
  LocalIp = LocalIp
  List <- Lists
  AskConn = a
  AnswerConn = b
  Conn = {a, b}
  RotationBits = 2
  in1 = in1  in2 = in2  out1 = out1  out2 = out2
  Ip = {in1, in2, out1, out2}
  Lan = {in1, in2}
  NoIp = NoIp
INVARIANTS
  AlwaysRelays
