\* Three requests, two at a time: merges, edits, aliases and boundaries.
\* The bounds on requests and resends end every behaviour.
SPECIFICATION MCSpec
CONSTANTS
    p1 = p1
    p2 = p2
    p3 = p3
    reg = reg
    dist = dist
    new = new
    Records = {p1, p2, p3, reg, dist, new}
    Districts = {dist, new}
    Region <- MCRegion
    Names = {"old", "new"}
    Codes = {"code"}
    Values = {"seed", "nick"}
    Cells = {1, 2, 3}
    Menu <- MCMenu
    Nothing = Nothing
    Handlers = {h1, h2}
    MaxRequests = 3
    MaxOpen = 2
    MaxResends = 1
    MaxExpired = 1
SYMMETRY Symmetry
INVARIANTS
    MutationInv
    RedirectsLead
    AliasesAgree
    DistrictsFit
PROPERTIES
    RetiredStays
CHECK_DEADLOCK FALSE
