\* Two depositors in any order with any funding; two stakers with every amount and
\* rewards at any time, also to an empty pool; two hosts and their pools, with every
\* setting of the factory and calls of the arenas in any order.
CONSTANTS
    d1 = d1
    d2 = d2
    boss = boss
    heir = heir
    Nobody = Nobody
    Depositors = {d1, d2}
    Deposits = {0, 2, 3}
    Liquidity = {3, 10}
    VaultAdmins = {heir}
    FirstVaultAdmin = boss
    YieldBps = 5000
    SecondsPerYear = 2
    StartTime = 4
    LastTime = 6
    MaxPrincipal = 5
    MaxTokens = 13
    s1 = s1
    s2 = s2
    Stakers = {s1, s2}
    StakeAmounts = {1, 2, 3, 5}
    RewardAmounts = {1, 4}
    MinInitialStake = 2
    MaxStaked = 13
    MaxGain = 4
    Hosts = {s1, s2}
    t1 = t1
    t2 = t2
    y1 = y1
    o1 = o1
    StakeTokens = {t1, t2}
    YieldVaults = {y1}
    YieldOracles = {o1}
    Fees = {1, 2}
    PlayerLimits <- SomeLimits
    Statuses = {"Active", "Finished"}
    PoolLimits = {1}
    MaxPools = 2
SPECIFICATION Spec
INVARIANT StakesCovered
PROPERTY ShareValueNeverFalls
