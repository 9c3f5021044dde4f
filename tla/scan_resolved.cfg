SPECIFICATION Spec
CONSTANTS
  Catalogue <- MCCatalogue
  Texts <- MCTexts
  HitSets <- MCHitSets
CHECK_DEADLOCK FALSE
INVARIANTS
  EveryValueClaimed
  Settled
