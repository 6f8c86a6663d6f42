\* One listed incident that resolves, no faults.
CONSTANTS
    i1 = i1
    i2 = i2
    p1 = p1
    p2 = p2
    None = None
    Incidents <- MCOneIncident
    Listed0 <- MCOneIncident
    Producers = {p1}
    Skew = 2
    MaxAttempts = 2
    MaxDelivery = 2
    MaxRequests = 2
    MaxOccurrence <- MCResolves
    MaxIndex = 2
    MaxFaults = 0
SPECIFICATION FairSpec
PROPERTY
    ResolvedDiscoverable
CHECK_DEADLOCK FALSE
