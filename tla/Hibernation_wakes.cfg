SPECIFICATION Spec
CONSTANTS
  Focusers = {t1, t2}
  Hibernators = {t3}
  Apps = {n, w}
  Natives = {n}
  NoApp = none
  MaxHibCalls = 3
PROPERTY BlockedWhileUnfocusing
CHECK_DEADLOCK FALSE
