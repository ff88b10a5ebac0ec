SPECIFICATION Spec
CONSTANTS
  Active = {a}
  Passive = {}
  MaxData = 2
  StaleSend = FALSE
  Stall = FALSE
INVARIANT ShutdownSeen
PROPERTIES Reclaimed  
