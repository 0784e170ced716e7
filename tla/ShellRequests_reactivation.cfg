SPECIFICATION Spec
CONSTANTS
  Threads = {t1}
  Names = {"App"}
  toLower <- SameSpelling
  Ops <- AllOps
  MaxActivations = 2
  MaxDeactivations = 2
INVARIANT ActiveShellRuns
CHECK_DEADLOCK FALSE
