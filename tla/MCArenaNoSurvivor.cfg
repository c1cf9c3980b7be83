\* A round in which nobody reveals.
CONSTANTS
    p1 = p1
    p2 = p2
    host = host
    None = None
    Players = {p1, p2}
    Creator = host
    Candidates = {p1}
    EntryFee = 2
    Durations = {1}
    LimitChoices <- AlsoInvalid
    LeaderboardLimits = {1, 100}
    VaultAmounts = {3}
    MaxTime = 2
    MinPlayersToStart = 2
    MaxPlayersAllowed = 3
SPECIFICATION Spec
INVARIANT SurvivorEachRound
