SPECIFICATION Safety
CONSTANTS
  Child = {c1}
  Local = {"p", "a", "b"}
  Param = {"p"}
  Global = {"g"}
  REGMATCH_COUNT = 1
  Script <- OnGlobal
  EntryPoint = {1}
PROPERTIES
  ErrorStateTaken
