CONSTANTS
    Messages = 4
    Cancellable = {2, 3}
    ChannelSize = 2
    WireSize = 2
    AckSize = 2
    Acking = {TRUE, FALSE}
    MaxBreaks = 2
    MaxRetry = 1
SPECIFICATION FairSpec
CHECK_DEADLOCK FALSE
INVARIANTS
    TypeOK
    NothingLost
    AcksMatch
PROPERTIES
    ImplementsLink
    EveryMessageAnswered
    EveryMessageArrives
