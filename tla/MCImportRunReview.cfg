\* A steward reviews a place that an import has just looked at.
SPECIFICATION FairSpec
CONSTANTS
    Importers = {p1}
    Records = 2
    Rejects <- MCRejects
    Limits = {1}
    MaxFaults = 0
PROPERTIES
    ReviewedStands
