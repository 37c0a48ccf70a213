SPECIFICATION Spec
CONSTANTS
  Pid = {p1, p2}
  Parent = parent
  Nobody = nobody
  CHILDREN_HARDLIMIT = 2
  CHILDREN_QUANTUM = 1
  AdminSignals = {"TERM", "HUP"}
  ThresholdNum = 1
  ThresholdDen = 4
INVARIANTS
  NeverUndercounted
  ShutdownAfterChildren
PROPERTIES
  SignalledPoolStops
  KeepsAccepting
CHECK_DEADLOCK FALSE
