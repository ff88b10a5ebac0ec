SPECIFICATION SafeSpec
CONSTANTS
  Active = {a}
  Passive = {p}
  MaxData = 1
  StaleSend = TRUE
  Stall = TRUE
INVARIANTS TypeOK NoDangling RecvFindsBase AckFirst
