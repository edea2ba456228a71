SPECIFICATION CallbackSpec
CONSTANTS
    Caller = {c1}
    Worker = {w1}
    RetryLimit = 0
    LostAnswers = FALSE
    None = None
    Order = {mine, sibling, other}
    Focus = mine
    mine = mine
    sibling = sibling
    other = other
    here = here
    there = there
    r1 = r1
    r2 = r2
    r3 = r3
    OrderBranch <- MCBranch
    LinkedTo <- MCLinks
    Shape <- MCShapes
    PosEvent = {"accept", "reject", "cancelled", "delivered"}
    Handler = {h1}
    Staff = {s1}
INVARIANTS
    NoEndIsLost
    OutletsApart
PROPERTIES
    AcceptedIsKept
    CancelAsksOnce
