SPECIFICATION Safety
CONSTANTS
  Child = {c1}
  Local = {"p", "a", "b"}
  Param = {"p"}
  Global = {"g"}
  REGMATCH_COUNT = 1
  Script <- HttpExample
  EntryPoint = {1}
INVARIANTS
  OutputStored
