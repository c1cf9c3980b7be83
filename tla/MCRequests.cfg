CONSTANTS
    None = None
    Handlers = {h1, h2}
    MaxPairs = 2
    MaxNonces = 1
    AdminRequests = {q1, q2}
    Admins = {k1}
    Operations <- MCOperations
    MaxTokens = 1
    CacheReaders = {g1, g2}
    TTL = 2
    LoadTicks = 1
    MaxVersion = 2
    MaxTime = 4
    PageLimits = {1, 2}
    MaxRows = 4
    Ips = {a1, a2}
    Wallets = {w1}
    NoWallet = NoWallet
    Points = 1
    Window = 2
    NumPlayers = {2, 5}
    MaxRounds = 3
    Writers = {h1, h2}
    Nil = Nil
    NoValue = NoValue
    Keys = {y1, y2}
    MaxStored = 2
    MostPlayers = 2
    MostYield = 1
VIEW MCView
SYMMETRY MCSymmetry
SPECIFICATION Spec
CHECK_DEADLOCK FALSE
INVARIANT RetiredForGood
INVARIANT SignOutCovers
INVARIANT OneOperationPerToken
INVARIANT AuditTrailTrue
INVARIANT StatsBoundedlyStale
INVARIANT NothingSkipped
INVARIANT WalletLimited
