SPECIFICATION Spec
CONSTANTS
    db = db
    web = web
    NoPointer = NoPointer
    NoIndex = NoIndex
    NoRequest = NoRequest
    Workers = {w1, w2}
    Heartbeats = {h1}
    Incidents <- MCIncidents
    NumRequests = 2
    incidentOf <- MCIncidentOf
    MaxDeliveryCount = 2
    Failing = {1}
    MaxLockLosses = 1
    MaxUploadFailures = 1
    MaxTime = 1
SYMMETRY WorkerSymmetry
INVARIANTS
    FeedReferencesExist
    IndexTrailsCurrent
    NotificationFollowsPublication
    CompletedMeansNotified
    IndexFollowsReassessment
PROPERTIES
    FeedMovesForward
    HeartbeatAssertsObserved
    OwnEntryOnly
CHECK_DEADLOCK FALSE
