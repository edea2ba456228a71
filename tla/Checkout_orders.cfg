SPECIFICATION Spec
CONSTANTS
    Order = {o1, o2}
    Item = {i1}
    Basket <- OneBurger
    Key = {k2}
    k1 = k1
    k2 = k2
    Request <- WithAndWithoutCoins
    Call = {c1, c2}
    Price <- Dearer
    OrderType = "delivery"
    PackagingFee = 1500
    DeliveryFee = 4000
    Percentage = 5
    Opening = 10
    TicketCoins = 4
    Delta <- UpAndDown
    MaxMints = 3
    MaxExpiries = 1
    MaxActs = 1
    MaxFaults = 1
    None = None
INVARIANTS
    OneOrderPerKey
    HandedToItsOrder
    LedgerBalances
SYMMETRY Symmetry
CHECK_DEADLOCK FALSE
