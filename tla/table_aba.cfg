SPECIFICATION Spec
CONSTANTS
  Address = {a, b}
  NoAddress = NoAddress
  MaxDevices = 1
  StaleAfter = 1
  SeqMod = 4
  TimeMod = 64
  EvictedMax = 2
  MaxUptime = 1
  MaxHeard = 4
  MaxLag = 3
INVARIANT ReportedMeansDelivered
