SPECIFICATION Spec
CONSTANTS
  Pid = {p1, p2}
  Parent = parent
  Nobody = nobody
  CHILDREN_HARDLIMIT = 2
  CHILDREN_QUANTUM = 2
  AdminSignals = {"TERM", "HUP"}
  ThresholdNum = 79
  ThresholdDen = 100
PROPERTIES
  TermStops
CHECK_DEADLOCK FALSE
