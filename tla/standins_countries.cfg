SPECIFICATION Spec
CONSTANTS
  Loaded = {"fr", "us"}
  MaxIndex = 40
CHECK_DEADLOCK FALSE
INVARIANTS
  OneToOne
