SPECIFICATION MCSpec
CONSTANTS
  Request <- Requests
  PARAMBUF_LENGTH = 8
  Garbage = {38, 97}
  NoNumber = NoNumber
  scriptSelector <- Selector
  Script <- Scripts
  Global <- Globals
CHECK_DEADLOCK FALSE
INVARIANTS
  TypeOK
  ParametersAsSent
  EnvironmentWins
  SubstitutedAsWritten
PROPERTIES
  TextsEnd
