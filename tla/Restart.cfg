CONSTANTS
    n1 = n1
    n2 = n2
    n3 = n3
    n4 = n4
    F = 1
    Node <- Nodes
    Byzantine = {}
    Election = {e1}
    Coin <- RestartCoin
    Hears <- RestartHear
    MaxRound = 4
    Restarting = {n4}
    MaxRestarts = 1
SPECIFICATION RestartSpec
INVARIANTS
    AgreementOverTime
    OneVoteCounted
    NoCommitClash
