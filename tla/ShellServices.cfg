SPECIFICATION ServicesSpec
CONSTANTS
  Threads = {t1, t2}
  Names = {"App"}
  toLower <- SameSpelling
  Ops <- DisplayOps
  MaxActivations = 1
  MaxDeactivations = 1
  Boots <- MCBoots
  MaxChanges = 2
  MaxKeys = 1
  Framerates = {0, 40}
  MaxScreenCalls = 4
INVARIANTS AwakeIsShown ScreenAsAsked
PROPERTIES CallsReturn DeinitializeCompletes BootInOrder
CHECK_DEADLOCK FALSE
