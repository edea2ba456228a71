SPECIFICATION TicketSpec
CONSTANTS
    Run = {r1, r2}
    TTL = 2
    Cadence = 1
    RunLimit = 1
    MaxTime = 3
    Staff = {s1, s2}
    Wait <- MCWait
    MaxActs = 2
    MaxFaults = 1
    None = None
INVARIANTS
    WholeRunExclusion
    CreditedOnce
PROPERTIES
    ResolutionIsNotOverwritten
    ReopeningIsAsked
SYMMETRY MCSymmetry
CHECK_DEADLOCK FALSE
