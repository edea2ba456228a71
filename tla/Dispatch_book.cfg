SPECIFICATION FairSpec
CONSTANTS
    Carrier = {c1}
    Porter = Porter
    Staff = {s1}
    Worker = {w1}
    MaxTaps = 1
    MaxFaults = 1
    MaxGen = 6
    AutoRebookMax = 1
    None = None
CHECK_DEADLOCK FALSE
INVARIANTS
    OneRider
    LiveIsTraceable
PROPERTIES
    StrandedClaimEnds
    FlagIsResolved
