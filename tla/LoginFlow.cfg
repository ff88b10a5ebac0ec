SPECIFICATION Spec
CONSTANTS
  g1 = g1
  g2 = g2
  Gates = {g1, g2}
  Gases = {1, 2}
  Routes <- MCRoutes
  Frail <- MCFrail
  MaxLogins = 2
  MaxFaults = 1
 
CHECK_DEADLOCK FALSE
PROPERTIES OneHome
