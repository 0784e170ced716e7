SPECIFICATION Spec
CONSTANTS
  Launchers = {l1, l2}
  Suspenders = {s1}
  Destroyers = {d1}
  Configured = TRUE
  MaxCalls = 1
  MaxDeactivations = 0
INVARIANT LaunchExcludesDestroy
CHECK_DEADLOCK FALSE
