CONSTANTS
    r1 = r1
    r2 = r2
    u1 = u1
    u2 = u2
    x1 = x1
    x2 = x2
    a1 = a1
    None = None
    Resolvers = {r1, r2}
    Closers = {c1}
    Rows = {1, 2}
    ArenaOf <- MCArenaOf
    Users = {u1, u2}
    Wallets = {x1, x2}
    WalletOf <- MCWalletOf
    MaxPolls = 2
    Submissions <- MCSubmissions
    Clients = {p1, p2}
    Players = 3
    Volume = 2
    MaxLead = 1
SPECIFICATION Spec
CHECK_DEADLOCK FALSE
INVARIANT DatabaseNeverAhead
INVARIANT ResolvedTwiceOnlyAfterLateClose
INVARIANT PagesAgree
INVARIANT OneLoop
INVARIANT FeedInOrder
PROPERTY StreamRecovers
