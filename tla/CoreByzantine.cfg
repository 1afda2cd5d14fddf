CONSTANTS
    n1 = n1
    n2 = n2
    n3 = n3
    n4 = n4
    F = 1
    Node <- Nodes
    Byzantine = {n4}
    Election = {e1}
    Coin <- MostlyZero
    Hears <- LateHear
    MaxRound = 3
SPECIFICATION Spec
INVARIANTS
    Inv
    Agreement
    DecisionLocks
    NoCommitClash
