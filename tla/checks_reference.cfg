SPECIFICATION Spec
CONSTANTS
  Bodies <- MCBodies
  Indices <- MCIndices
  Tails <- MCTails
  Today <- MCToday
  Dates <- MCDates
  Keys <- MCKeys
  MaxTyped = 4
  SegmentMax = 2
  Generated = 4
CHECK_DEADLOCK FALSE
INVARIANTS
  IssuedIsRead
  NobodysIsRefused
  PasswordIsKept
