SPECIFICATION Spec
CONSTANTS
  NLogic = 2
  NService = 2
  Faults = {}
PROPERTY ShutdownCompletes
