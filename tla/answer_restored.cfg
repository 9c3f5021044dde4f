CONSTANTS
  Scenarios <- MCScenarios
  Chars = {"[", "]", "{", "}", "1", "2", "x", "p", "q", "r", "A", "B", "quote", "escaped"}
  TokenChars = {"1", "2"}
  MaxTokenLen = 3
  MaxBlocks = 2
SPECIFICATION Spec
INVARIANTS
  TypeOK
  HeldOrDelivered
  RestoredWhole
  SoundEvents
  ReportedOnce
  TraceVerbatim
CHECK_DEADLOCK FALSE
