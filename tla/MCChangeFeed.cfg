\* Two replicas with clocks that drift, while a client reads pages of one row.
SPECIFICATION FairFeedSpec
CONSTANTS
    Writers = {w1, w2}
    Nonces = {1}
    Genesis = genesis
    MaxRows = 3
    MaxClock = 1
    Clients = {c1}
    PageLimit = 1
INVARIANTS
    ChainFollowsCommits
    OrderedLogVerifies
    ReceivedInOrder
    OrderedFeedHasNoGap
PROPERTIES
    AppendsReturn
    OrderedChangesArrive
