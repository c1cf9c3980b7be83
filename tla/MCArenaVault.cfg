\* The arena on the real adapter, funded or not, shared with another arena.
CONSTANTS
    p1 = p1
    p2 = p2
    p3 = p3
    host = host
    None = None
    this = this
    other = other
    Players = {p1, p2, p3}
    Creator = host
    Candidates = {}
    EntryFee = 2
    Durations = {1}
    LimitChoices <- TwoToThree
    LeaderboardLimits = {1}
    VaultAmounts = {}
    MaxTime = 2
    MinPlayersToStart = 2
    MaxPlayersAllowed = 100
    ThisArena = this
    OtherArena = other
    OtherDeposits = {4}
    Liquidity = {20}
    YieldBps = 5000
    SecondsPerYear = 2
    StartTime = 4
    MaxPrincipal = 8
    MaxTokens = 20
SPECIFICATION VaultSpec
SYMMETRY Symmetry
CHECK_DEADLOCK FALSE
INVARIANT PositionMatchesRoster
INVARIANT PayoutWithinVaultBalance
