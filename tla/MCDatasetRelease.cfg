\* A draft goes through the review gate, and two versions are published.
SPECIFICATION MCSpec
CONSTANTS
    v1 = v1
    v2 = v2
    Versions = {v1, v2}
    Processes = {p1, p2}
    Drafts = {v1}
    Notes = {n1}
    NoNotes = empty
    Files = 2
    MaxBuilds = 3
    MaxOps = 6
CHECK_DEADLOCK FALSE
SYMMETRY ProcessSymmetry
INVARIANTS
    LifecycleInv
    DownloadsMatch
PROPERTIES
    EvidenceIsTrue
    ImplementsPublicCatalogue
