SPECIFICATION UiFairSpec
CONSTANTS
  File = {out, err}
  Buffer = 2
  Nothing = Nothing

  
PROPERTIES
  KeepsDrawing
  ExitWorks
  
CHECK_DEADLOCK FALSE
