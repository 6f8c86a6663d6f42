SPECIFICATION FairSpec
CONSTANTS
    m1 = m1
    m2 = m2
    active = active
    resolved = resolved
    incident = incident
    NoMessage = NoMessage
    Workers = {w1, w2}
    Messages <- MCMessages
    Notifications <- MCNotifications
    Sessions <- MCSessions
    notificationOf <- MCTransitions
    sessionOf <- MCSessionOf
    MaxDeliveryCount = 2
INVARIANTS
    TypeOK
    RepostOnlyAfterRetryable
    DispatchLeaseKept
    CompletedMeansAccepted
    OrderedPosting
PROPERTIES
    PostRecordsRetained
    EventuallySettled
CHECK_DEADLOCK FALSE
