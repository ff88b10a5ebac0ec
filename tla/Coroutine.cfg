SPECIFICATION Spec
CONSTANTS
  Threads = {t1, t2}
  Services = {s1, s2}
  MaxCo = 4
  MaxRequests = 2
  MaxCalls = 2
  MaxRecycle = 0
  CallbackYields = FALSE
INVARIANTS StacksExact AnswerSafe
 
CHECK_DEADLOCK FALSE
