SPECIFICATION Spec
CONSTANTS
  Surfaces = {s1}
  Requests = {q1, q2}
  Switchable = {"EMAIL"}
  CategoryNames = {"EMAIL", "API_KEY"}
  Locales = {"fr"}
  LocaleNames = {"fr", "uk"}
  Levels = {"weak"}
  Environments <- MCEnvironments
  HandMade <- MCHandMade
  MaxRestarts = 1
  MaxEdits = 1
SYMMETRY Symmetry
CHECK_DEADLOCK FALSE
INVARIANTS
  TypeOK
  ReplyIsWhatWasAsked
  StoredIsWhole
  StoredLocalesCurrent
  LockedStaysMasked
  MappingFollowsMode
PROPERTIES
  OneRequestAtATime
  OnlyAModeChangeForgets
