\* An organization is made; three accounts invite, join and transfer; keys
\* are created, rotated and taken away.  The bounds on requests end every
\* behaviour.
SPECIFICATION MCSpec
CONSTANTS
    a = a
    b = b
    c = c
    Accounts = {a, b, c}
    Nobody = nobody
    Handlers = {h1, h2}
    MaxRequests = 6
    MaxInvites = 2
    MaxKeys = 4
SYMMETRY Symmetry
INVARIANTS
    OrganizationInv
    AcceptanceIsTrue
    RotationKeepsAccess
CHECK_DEADLOCK FALSE
