SPECIFICATION Spec
CONSTANTS
  Address = {a, b, c}
  NoAddress = NoAddress
  MaxDevices = 2
  StaleAfter = 1
  SeqMod = 4
  TimeMod = 64
  EvictedMax = 2
  MaxUptime = 2
  MaxHeard = 5
  MaxLag = 3
SYMMETRY AddressSymmetry
INVARIANTS
  OneEntryPerDevice
  NoFalseAcknowledgement
PROPERTIES
  EvictionIsLastResort
  ImplementsMailbox
