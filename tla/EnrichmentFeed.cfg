\* Two incidents, two overlapping executions of the runtime.
CONSTANTS
    i1 = i1
    i2 = i2
    p1 = p1
    p2 = p2
    None = None
    Incidents <- MCIncidents
    Listed0 <- MCOneIncident
    Producers <- MCProducers
    Skew = 1
    MaxAttempts = 2
    MaxDelivery = 2
    MaxRequests = 2
    MaxOccurrence <- MCOccurrence
    MaxIndex = 3
    MaxFaults = 1
SPECIFICATION Spec
SYMMETRY FeedSymmetry
INVARIANTS
    FeedMirrorsAuthority
    CompletedMeansNotified
PROPERTIES
    FeedMovesForward
CHECK_DEADLOCK FALSE
