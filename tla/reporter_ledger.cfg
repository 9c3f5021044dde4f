SPECIFICATION FairSpec
CONSTANTS
  Exchanges = {x1}
  Conversation <- MCConversation
  SessionIdle = 2
  MaxWindowAge = 2
  MaxBufferedBuckets = 3
  MaxBucketsPerRequest = 1
  SuspendAfter = 1
  SleepCounted = {TRUE}
  MaxTime = 4
  MaxRestarts = 1
  MaxRefusals = 1
  MaxFaults = 1
CHECK_DEADLOCK FALSE
INVARIANTS
  TypeOK
  NothingTwice
  NoSilentLoss
  AwakeWindows
PROPERTIES
  OldestFirst
  QueuedIsFiled
