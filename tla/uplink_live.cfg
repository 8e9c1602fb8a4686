SPECIFICATION FairSpec
CONSTANTS
  NumDevices = 2
  HeaderSize = 12
  RecordSize = 26
  Payloads = {11, 64}
  MaxUplinks = 1
  MaxSilence = 1
  SeqMod = 2
  SendFailureDropsLink = FALSE
PROPERTIES
  RateRecovers
  NeverSilentForGood
  EveryDeviceReported
