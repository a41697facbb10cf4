SPECIFICATION CapabilitySpec
CONSTANTS
    None = None
    Publishers <- MCPublishers
    Documents <- MCDocuments
    Values <- MCValues
    Paths = {"p", "q"}
    NaN = NaN
    Float64 <- MCFloat64
    MaxInt = 7
    MaxPublished = 3
INVARIANTS
    BreakingUpgradesAreWarned
    ValidationIsExact
PROPERTIES
    PublishedSchemasAreImmutable
