CONSTANTS
    None = None
    MaxRounds = 1
    MaxSalts = 2
    MaxSent = 2
    MaxPolls = 1
    Stakes = {0, 1, 2}
    MinStake = 1
    MinCapacity = 1
    MaxCapacity = 2
    DefaultForm <- MCDefaultForm
    LobbyRounds = 1
    MaxRows = 1
    PageRows = 1
    MaxInFlight = 1
    NoCursor = NoCursor
    MaxCalls = 1
    MaxClicks = 1
    BoardPages = 1
    Accounts = {a1, a2}
    NoAddress = NoAddress
    MaxAsks = 2
    Filters = {"all", "fast-rounds"}
    Searches = {"", "1", "alpha", "!"}
    BadSearches = {"!"}
    Numbers = {"1"}
    Listable <- MCListable
    NoNavigation = NoNavigation
    MaxCallsOut = 2
    MaxFinds = 3
    LastRound = 1
    HoldTicks = 2
    MaxLoops = 3
    MaxNotifications = 2
    MaxNotified = 4
    MaxCopies = 2
    Typed <- MCTyped
    NoAmount = NoAmount
    Cent = 2
    LeastStake = 4
    UsualStake = 10
    UsualAmount = 20
    Balances = {0, 9, 14}
    MostSteps = 2
    NoStats = NoStats
    MaxPerKind = 2
    Survivors = 15
    FetchSize = 5
    TableSize = 1
    MaxMores = 2
    MaxRanked = 20
    FullTime = 3
    Tension = 2
    MaxSeconds = 4
    MaxIntervals = 2
    NeverStarted = NeverStarted
    TickerMax = 2
    ListSizes = {1, 2, 3}
    MaxReads = 2
    Nothing = Nothing
    Unset = Unset
    MaxLookups = 2
    Members = {m1, m2}
    Host = Host
    Undefined = Undefined
    MaxGameRounds = 2
SPECIFICATION HostOnly
CHECK_DEADLOCK FALSE
INVARIANT FailedMeansFailed
