SPECIFICATION FairSpec
CONSTANTS
  QueueLength = 20
  OpenEvents = {}
  Transport = "socket"
  RetryBase = 1
  RetryMax = 30
  MaxSetbacks = 6
PROPERTIES
  BrokenLinkIsRebuilt
CHECK_DEADLOCK FALSE
