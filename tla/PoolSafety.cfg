SPECIFICATION Safety
CONSTANTS
  Pid = {p1, p2, p3}
  Parent = parent
  Nobody = nobody
  CHILDREN_HARDLIMIT = 3
  CHILDREN_QUANTUM = 2
  AdminSignals = {"HUP"}
  ThresholdNum = 1
  ThresholdDen = 4
SYMMETRY PidSymmetry
INVARIANTS
  TypeOK
  AcceptExclusive
  ShutdownAfterChildren
  PoolBounded
  SlotStateAccurate
  NeverUndercounted
  IInv
PROPERTIES
  Implements
CHECK_DEADLOCK FALSE
