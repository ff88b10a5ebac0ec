SPECIFICATION Spec
CONSTANTS
  Local = {}
  Remote = {r}
  CallIds = {c}
  Holders = {h}
  NoHolder = NoHolder
  MaxHealth = 3
  High = 2
  Low = 0
  MaxBreaks = 1
  KeepsContext = TRUE
  Recovering = {r}
INVARIANTS TypeOK AnsweredOnce HolderListExact  NoCallAfterHolder
  
