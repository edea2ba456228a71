SPECIFICATION AccountsSpec

CONSTANTS
    Account = {a1, a2}
    BonusKey <- OnePhone
    Order = {o1, o2}
    BatchLimit = 2
    Call = {c1, c2}
    MaxCalls = 3
    MaxFailures = 1
    Nobody = Nobody
    phone = phone

SYMMETRY Symmetry

CHECK_DEADLOCK FALSE

INVARIANTS
    RolesInStep
    OneBonusPerKey
    GuestIsMovedWhole

PROPERTIES
    OwnerStaysListed
