\* Two payouts under two keys, two requests at a time, a crash.
CONSTANTS
    h1 = h1
    h2 = h2
    k1 = k1
    k2 = k2
    p1 = p1
    p2 = p2
    w1 = w1
    w2 = w2
    None = None
    Handlers = {h1, h2}
    Keys = {k1, k2}
    Requests <- TwoRequests
    PayoutIds = {p1, p2}
    Winners = {w1, w2}
    Funding = 2
    HandPaid = {p1}
    MaxBatchSize = 50
    Terms <- TwoTerms
    Modes = {"hot", "external", "build_only"}
    MaxAttempts = 2
    FailedRetryMax = 2
    JobAttempts = 2
    BatchLimit = 2
    MaxCrashes = 1
    MaxLoad = 3
SPECIFICATION Spec
CHECK_DEADLOCK FALSE
INVARIANT NeverOverpaid
INVARIANT ConfirmedWasPaid
SYMMETRY HandlerSymmetry
