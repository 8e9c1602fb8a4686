SPECIFICATION FairLinkSpec
CONSTANTS
  Rate = {0, 2, 3}
  RegionDefault = 0
  InitialRate = 2
  MaxNonce = 4
  MaxFragment = 4
INVARIANTS
  OnlyTheStackRefusesTheRate
  JoinsOnItsSubband
  RefusedOnlyAfterLoss
  AnswerEndsTheWait
  StreamStaysAligned
  SocketMatchesFlag
PROPERTIES
  ConcludesTheLastEvent
  BringUpReturns
