SPECIFICATION FutureSpec
CONSTANTS
  Users = {u1, u2}
  Values = {1, 2}
  MaxContext = 5
  MaxHandle = 4
  LateThen = FALSE
INVARIANTS FuturesExact
PROPERTIES ResultStays
CHECK_DEADLOCK FALSE
