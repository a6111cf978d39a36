\* An event is handled while an operator reindexes; two events are leased and retried.
SPECIFICATION MCSpec
CONSTANTS
    Workers = {w1, w2}
    NumEvents = 2
    Lease = 1
    BaseRetry = 1
    MaxAttempts = 2
    MaxFaults = 2
    Operators = {cli}
    Pages = 2
    MaxChanges = 1
INVARIANTS
    OutboxInv
    LoneRebuildIsTrue
PROPERTIES
    AcksAreCurrent
    ImplementsWorkQueue
    EventsSettle
    SearchReturns
