SPECIFICATION FairHealthSpec
CONSTANTS
  QueueLength = 20
  OpenEvents = {}
  Transport = "lora"
  RetryBase = 1
  RetryMax = 1
  MaxSetbacks = 0
  MaxBeats = 2
PROPERTIES
  HardErrorIsShown
CHECK_DEADLOCK FALSE
