SPECIFICATION Spec
CONSTANTS
  Threads = {t1, t2}
  t1 = t1
  t2 = t2
  Workers = 1
  Buffer = 1
  Lifetimes = {0, 2}
  Initial = 3
  Never = 9
  MaxTime = 3
  MaxCalls = 2
INVARIANTS TypeOK NoWaitCycle ValidInFlight
PROPERTIES EveryCallReturns
CHECK_DEADLOCK FALSE
