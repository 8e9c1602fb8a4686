SPECIFICATION Spec
CONSTANTS
  NumDevices = 3
  HeaderSize = 12
  RecordSize = 26
  Payloads = {30, 53, 64}
  MaxUplinks = 2
  MaxSilence = 1
  SeqMod = 2
  SendFailureDropsLink = FALSE
INVARIANTS
  PendingUntilThrough
  FragmentsFit
PROPERTIES
  FramesAreNumbered
  BootIsFirstUplink
