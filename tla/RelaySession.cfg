SPECIFICATION FairSpec
CONSTANTS
  Control = Control
  Ws <- WsStream
  Room = 1
  MaxSaid <- TwoAndOne
INVARIANTS
  LastWordsAreWritten
PROPERTIES
  BytesSpec
  GoneEndsSession
  BlockEndsSession
  SaidIsWritten
  SilenceEndsSession
CHECK_DEADLOCK FALSE
