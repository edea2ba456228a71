SPECIFICATION FairSpec
CONSTANTS
    Caller = {c1, c2}
    Worker = {w1, w2}
    Payment = {p1, p2}
    None = None
    SlowGateway = TRUE
    MaxRetry = 1
    MaxCrashes = 1
CHECK_DEADLOCK FALSE
INVARIANTS
    OneAttemptAtATime
PROPERTIES
    ImplementsPayout
    SplitSettles
