\* Complete games of up to three players, every vault answer, settings fixed: room for
\* two players, or for more than there are.
CONSTANTS
    p1 = p1
    p2 = p2
    p3 = p3
    host = host
    None = None
    Players = {p1, p2, p3}
    Creator = host
    Candidates = {}
    EntryFee = 2
    Durations = {0, 1}
    LimitChoices <- TwoOrFour
    LeaderboardLimits = {2}
    VaultAmounts = {0, 7}
    MaxTime = 3
    MinPlayersToStart = 2
    MaxPlayersAllowed = 100
SPECIFICATION GameSpec
SYMMETRY Symmetry
CHECK_DEADLOCK FALSE
INVARIANT RosterConsistent
INVARIANT WinnerIsSoleSurvivor
INVARIANT RefundsCovered
INVARIANT PaidOnce
INVARIANT RevealsOpenCommitments
PROPERTY NoCommitAfterReveal
PROPERTY MinoritySurvives
PROPERTY EliminationIsFinal
PROPERTY ImplementsGame
