SPECIFICATION Spec

CONSTANTS
    p1 = p1
    p2 = p2
    Verifier = {v1}
    Delivery = {d1, d2}
    Payment = {p1, p2}
    Event <- CaptureAgainstOther
    BumpCode <- ReadyOrCancelled
    None = None
    HasOtp = TRUE
    MissesWindow = TRUE
    MaxCrashes = 0

SYMMETRY Symmetry

INVARIANTS
    AckedIsAccounted
    CoinsFollowTheBinding

PROPERTIES
    PaidOrderNeverRegresses
