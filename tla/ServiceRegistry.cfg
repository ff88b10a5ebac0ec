SPECIFICATION Spec
CONSTANTS
  N = 2
  MaxConn = 4
  MaxFaults = 1
  Name <- MCName
  Type <- MCType
  ConnectName <- MCConnectName
  ConnectType <- MCConnectType
INVARIANTS RegistryExact 
PROPERTY EventuallyLinked
CHECK_DEADLOCK FALSE
