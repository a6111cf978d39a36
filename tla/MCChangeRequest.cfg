\* A contributor and two reviewers act on a new proposal, on one under review
\* and on one that was revised: three commands, two of them at a time.
\* The bounds on commands and resends end every behaviour.
SPECIFICATION MCSpec
CONSTANTS
    contributor = contributor
    r1 = r1
    r2 = r2
    Actors = {contributor, r1, r2}
    Reviewers = {r1, r2}
    Handlers = {h1, h2}
    MaxDocs = 2
    MaxCommands = 3
    MaxOpen = 2
    MaxResends = 1
SYMMETRY Symmetry
INVARIANTS
    OncePerKey
    EvidenceIsPaired
    DecidedByItsReviewer
    DecidedAsSeen
    ConflictsAreTrue
PROPERTIES
    DecisionsStand
CHECK_DEADLOCK FALSE
