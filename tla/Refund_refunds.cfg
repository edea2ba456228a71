SPECIFICATION FairSpec
CONSTANTS
    Worker = {w1, w2}
    Request = {r1, r2}
    Legacy = {l1, l2}
    Dashboard = {d1}
    Capture = 3
    Amount = {1}
    Full = Full
    None = None
INVARIANTS
    RecordNeverOverstates
    AskWithinCapture
PROPERTIES
    RefundedStampIsFull
    RefundsAreRecorded
