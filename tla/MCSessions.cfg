SPECIFICATION MCSpec
CONSTANTS
    alice = alice
    bob = bob
    c1 = c1
    c2 = c2
    Accounts = {alice, bob}
    Clients = {c1, c2}
    Owner <- MCOwner
    Handlers = {h1, h2, h3}
    RotationGrace = 1
    Arriving = 0
    Answering = 1
    RotationInterval = 1
    IdleTimeout = 1
    AbsoluteTimeout = 2
    PrivilegedAbsoluteTimeout = 1
    Cooldown = 1
    PasswordResetTTL = 2
    MaxTime = 3
    MaxRows = 5
    MaxRequests = 5
    MaxLinks = 2
    Nothing = Nothing
SYMMETRY Symmetry
INVARIANTS
    SessionInv
    EndedStaysEnded
    NoFalseAlarm
    ResetOnce
PROPERTIES
    DeliveredStands
CHECK_DEADLOCK FALSE
