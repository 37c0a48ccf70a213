SPECIFICATION Spec
CONSTANTS
  Child = {c1}
  Local = {"p", "a", "b"}
  Param = {"p"}
  Global = {"g"}
  REGMATCH_COUNT = 2
  Script <- AllKinds
  EntryPoint = {1, 3, 99}
INVARIANTS
  TypeOK
  RequestIsolation
  IInv
PROPERTIES
  RequestEnds
  WalksTheScript
