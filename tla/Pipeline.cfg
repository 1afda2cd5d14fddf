CONSTANTS
    authorities <- Two
    MaxStake = 255
    QUORUM = 2
    Batch <- OneBatch
    LastRound = 1
    CoreRoom = 2
    LinkRoom = 2
    WireRoom = 1
SPECIFICATION FairSpec
CHECK_DEADLOCK FALSE
INVARIANTS
  TypeOK
  VotesUnderWay
  VotesFindListeners
PROPERTY
  EveryoneDecides
