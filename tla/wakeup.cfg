SPECIFICATION FairSpec
CONSTANTS
  PoolSize = 2
  QueueLength = 3
  DroppedMax = 2
  NoReport = NoReport
  MaxReports = 6
INVARIANTS
  NoLostWakeup
  DropsAccountedFor
  StopIsFinal
PROPERTY EveryReportLeavesThePool
CHECK_DEADLOCK FALSE
