SPECIFICATION MCSpec
CONSTANTS
    r1 = r1
    r2 = r2
    Replicas = {r1, r2}
    Handlers = {h1, h2}
    Skew <- MCSkew
    CacheTTL = 2
    Bursts = {3, 4}
    DefaultBurst = 3
    Ceilings = {1, 3}
    Costs = {1, 3}
    Refill = 2
    BucketTTL = 1
    MaxTime = 4
    MaxPolicies = 2
    MaxGrants = 2
    MaxRequests = 4
    Nothing = Nothing
SYMMETRY Symmetry
INVARIANTS
    BucketInv
    AllowanceIsRecent
CHECK_DEADLOCK FALSE
