SPECIFICATION Spec
CONSTANTS
  Pid = {p1, p2}
  Parent = parent
  Nobody = nobody
  CHILDREN_HARDLIMIT = 3
  CHILDREN_QUANTUM = 2
  AdminSignals = {"TERM", "HUP"}
  ThresholdNum = 1
  ThresholdDen = 4
PROPERTIES
  PoolNeverBlocks
CHECK_DEADLOCK FALSE
