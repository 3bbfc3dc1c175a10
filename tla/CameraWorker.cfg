SPECIFICATION FairSpec
CONSTANTS
  QueueCapacity = 3
  RingCapacity = 2
  MaxRetries = 4
  DownThreshold = 3
  InitialDelay = 1
  Multiplier = 2
  MaxDelay = 5
INVARIANTS
  TypeOK
  ViewsAgree
  BackoffConsistent
  OneDownPerOutage
  DownIsCorrected
PROPERTIES
  TaskSeesLifecycle
  OutageReported
  Recovers
CHECK_DEADLOCK FALSE
