SPECIFICATION Spec
CONSTANTS
  Surfaces = {s1}
  Requests = {q1, q2}
  Switchable = {"EMAIL"}
  CategoryNames = {"EMAIL"}
  Locales = {"fr"}
  LocaleNames = {"fr"}
  Levels = {"weak"}
  Environments <- MCEnvironments
  HandMade <- MCHandMade
  MaxRestarts = 0
  MaxEdits = 0
SYMMETRY Symmetry
CHECK_DEADLOCK FALSE
INVARIANTS
  ChangeSurvivesRestart
