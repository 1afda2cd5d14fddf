CONSTANTS
    n1 = n1
    n2 = n2
    n3 = n3
    n4 = n4
    F = 1
    Node <- Nodes
    Byzantine = {}
    Election = {e1}
    Coin <- MostlyOne
    Hears <- LateHear
    MaxRound = 3
SPECIFICATION Spec
INVARIANT
    DecideIsLastVote
PROPERTY
    ImplementsConsensus
