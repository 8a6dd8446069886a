CONSTANTS
    Models <- MCModels
    Keys <- MCKeys
    Rank <- MCRank
    Values <- MCValues
    Bodies <- MCBodies
    NoKey = NoKey
    NoReport = NoReport

SPECIFICATION Spec
INVARIANTS TypeOK NamesAgree ReportedIsCurrent
PROPERTY ImplementsAtomic
