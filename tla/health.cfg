SPECIFICATION FairHealthSpec
CONSTANTS
  QueueLength = 3
  OpenEvents <- AllOpenEvents
  Transport = "lora"
  RetryBase = 1
  RetryMax = 1
  MaxSetbacks = 0
  MaxBeats = 1
INVARIANTS
  OneJoinOutstanding
  MutedInHardError
  LedsTellTheTruth
PROPERTIES
  BlinkStaysInStep
  FaultIsShown
  HardErrorBlinks
CHECK_DEADLOCK FALSE
