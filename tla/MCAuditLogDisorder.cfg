\* One process, two rows in one millisecond allowed.
SPECIFICATION Spec
CONSTANTS
    Writers = {w1}
    Nonces = {1, 2}
    Genesis = genesis
    MaxRows = 3
    MaxClock = 1
INVARIANTS
    UntouchedLogVerifies
