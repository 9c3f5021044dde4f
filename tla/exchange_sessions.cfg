SPECIFICATION Spec
CONSTANTS
  alice = alice
  bob = bob
  s1 = s1
  s2 = s2
  Sessions = {s1, s2}
  Requests = {r1, r2, r3}
  Values = {alice, bob}
  Categories = {"EMAIL"}
  Secret = {}
  Switchable = {}
  Prefixes = {"EMAIL"}
  Prefix <- MCPrefix
  Locales = {}
  Shared = "any"
  Generators <- MCGenerators
  Capacity <- MCCapacity
  Texts <- MCTexts
  StandInText <- MCStandInText
  Bodies <- ConversationBodies
  TTL = 0
  MaxEvents = 1
  MaxRestarts = 0
SYMMETRY Symmetry
CHECK_DEADLOCK FALSE
INVARIANTS
  NeverMisread
  OwnEchoExpands
  OneOriginal
