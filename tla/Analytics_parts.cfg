SPECIFICATION PartsSpec
CONSTANTS
  Events = {"e1", "e2", "e3", "e4"}
  Given <- MCGiven
  Boot = 10
  MaxUptime = 1
  Zones <- MCZones
  Accuracies = {"INITIAL", "FINAL"}
  MaxChanges = 2
  TimeLine <- MCTimeLine
  Year1970 = 4
  Year2038 = 11
  Offsets = {0, 1, 2}
  MaxTransitions = 3
  TableLimit = 2
  MaxEvents = 6
  MaxStops = 2
INVARIANTS TimesAreTrue EventsAccounted Agrees TakenOnce FunctionsMatch
PROPERTIES DeliversInOrder EventsLeave DestructorReturns
CHECK_DEADLOCK FALSE
