SPECIFICATION Spec
CONSTANTS
  Local = {l}
  Remote = {}
  CallIds = {c}
  Holders = {}
  NoHolder = NoHolder
  MaxHealth = 3
  High = 2
  Low = 0
  MaxBreaks = 0
  KeepsContext = FALSE
  Recovering = {}
PROPERTIES CallAnswered
CHECK_DEADLOCK FALSE
