SPECIFICATION FairSpec
CONSTANTS
  Timeout = 3
  MaxThreads = 8
INVARIANTS
  NoRacingConstruction
  FedUnlessSpinning
PROPERTIES
  SpinIsReset
CHECK_DEADLOCK FALSE
