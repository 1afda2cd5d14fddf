CONSTANTS
    n1 = n1
    n2 = n2
    n3 = n3
    n4 = n4
    F = 1
    Node <- Nodes
    Byzantine = {}
    Election = {e1}
    Coin <- ThreeOne
    Hears <- ThreeHear
    MaxRound = 2
SPECIFICATION SteadySpec
CHECK_DEADLOCK FALSE
PROPERTY
    PendingVotesCounted
