CONSTANTS
  MaxCalls = 2
  Typeable <- MCTypeable
  Convs = {"k1", "k2"}
  Shapes <- MCShapes
  MaxMoves = 1
  MaxLate = 1
SPECIFICATION FairSpec
INVARIANTS
  TypeOK
  SentIsItsOwnMasked
  ScreenIsTheAnswer
  RestoredWhole
PROPERTIES
  EveryCallSettles
CHECK_DEADLOCK FALSE
