SPECIFICATION ParserSpec
CONSTANTS
  MaxData = 7
  FrameSize = 2
  Byte = {0, 1, 2, 3, 4, 255}
  Manufacturer = 255
  Company <- MCCompany
INVARIANTS
  ReadsWhatWasReceived
  VerdictIsRight
CHECK_DEADLOCK FALSE
