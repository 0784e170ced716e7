SPECIFICATION Spec
CONSTANTS
  DacThreads = {t1, t2}
  Clients = {"d", "e"}
  Dac = {"d", "e"}
  MaxDacCalls = 2
  Slow = FALSE
PROPERTY WaitTellsTruth
CHECK_DEADLOCK FALSE
