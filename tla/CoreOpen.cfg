CONSTANTS
    n1 = n1
    n2 = n2
    n3 = n3
    n4 = n4
    F = 1
    Node <- Nodes
    Byzantine = {}
    Election = {e1}
    Coin <- FreeCoin
    Hears <- AllHear
    MaxRound = 1
SPECIFICATION Spec
SYMMETRY Interchangeable
INVARIANTS
    TypeOK
    NoEquivocation
    TallyMatchesVotes
