SPECIFICATION FairLaneSpec
CONSTANTS
    Call = {c1, c2}
    MaxBookings = 1
    MaxCalls = 3
    MaxCrashes = 1
    MaxPolls = 2
    OtpMax = 2
    Absent = Absent
INVARIANTS
    FirstBookingIsAlone
PROPERTIES
    InHouseRidesAlone
    RewindIsStale
    LockoutStands
    NoDeliveryGoesDark
CHECK_DEADLOCK FALSE
