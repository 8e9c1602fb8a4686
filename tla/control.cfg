SPECIFICATION FairSpec
CONSTANTS
  QueueLength = 20
  OpenEvents = {"DISPATCH_STARTED", "DISPATCH_FINISHED", "SOFT_ERROR", "HARD_ERROR"}
  Transport = "socket"
  RetryBase = 1
  RetryMax = 30
  MaxSetbacks = 6
INVARIANTS
  NoCommandLost
  BackoffMatchesSetbacks
PROPERTIES
  ImplementsLifecycle
  FailedServicesHalt
  KeepsTrying
  JoinedStartsDispatching
CHECK_DEADLOCK FALSE
