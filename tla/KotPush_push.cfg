SPECIFICATION FairSpec
CONSTANTS
    Caller = {c1, c2}
    Worker = {w1}
    RetryLimit = 1
    LostAnswers = FALSE
    None = None
INVARIANTS
    OneTicketUnlessTakenOver
PROPERTIES
    KotIsResolved
