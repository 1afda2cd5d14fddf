CONSTANTS
    NUMBER_OF_NODES = 4
    Delayable <- HonestLate
    ByzantineChoices <- AnyChoice
    MaxRound = 4
SPECIFICATION Spec
CHECK_DEADLOCK FALSE
INVARIANTS
  TypeOK
  NoOpposedQuorums
  OnesAreGrounded
  AgreedInSilence
PROPERTY
  ConcludesInSilence
