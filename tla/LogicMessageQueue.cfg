SPECIFICATION Spec
CONSTANTS
  Workers = {w1, w2}
  Others = {net}
  Queues = {q1, q2}
  MaxSend = 2
  None = None
INVARIANTS TypeOK ServiceSerial EnlistedOnce FlagTruthful NoStranded WorkersWake
PROPERTY MailboxSpec
