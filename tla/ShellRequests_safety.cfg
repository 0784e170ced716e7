SPECIFICATION Spec
CONSTANTS
  Threads = {t1, t2, t3}
  Names = {"App"}
  toLower <- SameSpelling
  Ops <- AllOps
  MaxActivations = 2
  MaxDeactivations = 1
SYMMETRY Symmetry
INVARIANTS TypeOK RequestConservation PluginHasDisplay
CHECK_DEADLOCK FALSE
