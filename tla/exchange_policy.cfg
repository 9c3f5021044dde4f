SPECIFICATION Spec
CONSTANTS
  alice = alice
  bob = bob
  s1 = s1
  s2 = s2
  Sessions = {s1}
  Requests = {r1, r2}
  Values = {alice, bob}
  Categories = {"EMAIL", "PHONE", "SECRET"}
  Secret = {"SECRET"}
  Switchable = {"EMAIL"}
  Prefixes = {"EMAIL", "PHONE", "SECRET"}
  Prefix <- MCPrefix
  Locales = {"fr"}
  Shared = "any"
  Generators <- MCGenerators
  Capacity <- MCCapacity
  Texts <- MCTexts
  StandInText <- MCStandInText
  Bodies <- PolicyBodies
  TTL = 0
  MaxEvents = 2
  MaxRestarts = 1
SYMMETRY Symmetry
CHECK_DEADLOCK FALSE
INVARIANTS
  TypeOK
  OneIdentity
  NothingInClear
  ModeTakesHold
PROPERTIES
  ImplementsPseudonyms
