SPECIFICATION SafeSpec
CONSTANTS
  NLogic = 2
  NService = 2
  Faults = {"slowStart", "initFails", "listenFails", "earlySignal"}
INVARIANTS TypeOK DestroyIsLast ServicesQuitFirst
PROPERTY RunStateForward
