SPECIFICATION Spec
CONSTANTS
    m1 = m1
    m2 = m2
    active = active
    resolved = resolved
    incident = incident
    NoMessage = NoMessage
    Workers = {w1, w2}
    Messages <- MCMessages
    Notifications <- MCNotifications
    Sessions <- MCSessions
    notificationOf <- MCRepeats
    sessionOf <- MCSessionOf
    MaxDeliveryCount = 2
INVARIANT
    EffectAtMostOnce
CHECK_DEADLOCK FALSE
