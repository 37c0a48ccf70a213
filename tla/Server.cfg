SPECIFICATION Spec
CONSTANTS
  i1 = i1
  i2 = i2
  i3 = i3
  Instance = {i1, i2, i3}
  Sharing = {i2}
  NoFile = NoFile
  pid <- Pids
CHECK_DEADLOCK FALSE
INVARIANTS
  TypeOK
  DaemonIsNamed
  NoFalseAlarm
