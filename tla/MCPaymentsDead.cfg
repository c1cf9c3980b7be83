\* A payout whose retries are used up.
CONSTANTS
    h1 = h1
    h2 = h2
    k1 = k1
    k2 = k2
    p1 = p1
    p2 = p2
    w1 = w1
    w2 = w2
    None = None
    Handlers = {h1}
    Keys = {k1}
    Requests <- OneRequest
    PayoutIds = {p1}
    Winners = {w1}
    Funding = 2
    HandPaid = {}
    MaxBatchSize = 50
    Terms <- OneTerm
    Modes = {"hot"}
    MaxAttempts = 2
    FailedRetryMax = 2
    JobAttempts = 2
    BatchLimit = 2
    MaxCrashes = 0
    MaxLoad = 3
SPECIFICATION FairSpec
CHECK_DEADLOCK FALSE
PROPERTY ExhaustedIsBuried
