SPECIFICATION FairSpec

CONSTANTS
    p1 = p1
    p2 = p2
    Verifier = {v1}
    Delivery = {d1}
    Payment = {p1, p2}
    Event <- TwoCaptures
    BumpCode <- Moves
    None = None
    HasOtp = TRUE
    MissesWindow = FALSE
    MaxCrashes = 1

PROPERTIES
    CapturedIsAccounted
