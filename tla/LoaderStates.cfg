SPECIFICATION Spec
CONSTANTS
  Name = {"x", "y", "z"}
  File <- Files
  EntryPoint = {1, 2}
  Config <- Sections
  Line <- Lines
  MaxLines <- Lengths
  Repeats <- Repetitions
  Smtp = {"server", "from"}
INVARIANTS
  TypeOK
  LoadsWhatIsWritten
  AlternativesKept
  ScriptsReady
  StopIsClean
CHECK_DEADLOCK FALSE
