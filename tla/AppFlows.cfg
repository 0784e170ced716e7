SPECIFICATION FlowsSpec
CONSTANTS
  Launchers = {l1}
  Suspenders = {s1}
  Destroyers = {d1}
  Configured = TRUE
  MaxCalls = 3
  MaxDeactivations = 1
  FactoryThreads = {f1, f2}
  FactoryAppUrl = TRUE
  sFactoryModeBlockResidentApp = TRUE
  MaxFactoryCalls = 2
  MaxActivations = 2
  mEnableEasterEggs = TRUE
  Failures = {FALSE, TRUE}
  Focusers = {h1, h2}
  Hibernators = {h3}
  HibApps = {n, w}
  Natives = {n}
  NoApp = none
  MaxHibCalls = 3
  DacThreads = {t1, t2}
  Clients = {"d", "e"}
  Dac = {"d"}
  MaxDacCalls = 4
  Slow = TRUE
  Keys = {"k1", "k2"}
  Callers = {c1, c2}
  Displays = {d1}
  MaxGeometryCalls = 3
  Retry = 3
  MaxList = 5
INVARIANTS MarksHaveOwners LaunchExcludesDestroy NotificationsSound LaunchesAnnouncedOnce
INVARIANTS FactoryModesHold OnlyFocusedTold AnswerIsTrue GeometryAsGiven ListsAreSound
SYMMETRY Symmetry
CHECK_DEADLOCK FALSE
