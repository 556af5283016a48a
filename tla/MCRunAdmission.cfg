\* Bounds by scenario: see MCRunAdmission.
SPECIFICATION FairSpec
CONSTANTS
    k1 = k1
    k2 = k2
    b1 = b1
    c2 = c2
    w2 = w2
    Clients = {c1, c2}
    Keys = {k1, k2}
    Kinds <- Entangled
    Bodies = {b1, b2}
    Source <- Other
    Workers = {w1, w2}
    MaxRuns = 3
    BatchSize = 2
    Limit = 1
    SweepLimit = 1
    Deliveries = 2
    MaxFaults = 2
    None = None
ACTION_CONSTRAINT Scenarios
INVARIANTS
    OneEffectPerKey
    LimitKept
PROPERTIES
    AcceptedStarts
    ImplementsContract
