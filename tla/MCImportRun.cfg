\* Two imports of one file of three records, one of them perhaps cut short.
SPECIFICATION FairSpec
CONSTANTS
    Importers = {p1, p2}
    Records = 3
    Rejects <- MCRejects
    Limits = {2, 3}
    MaxFaults = 2
INVARIANTS
    ImportInv
    SucceededIsComplete
PROPERTIES
    ImportsFinish
