\* Two executions at a time over one message of two events and one Resource Graph row.
CONSTANTS
    w1 = w1
    w2 = w2
    m1 = m1
    a = a
    b = b
    g = g
    GridWorkers <- MCGridWorkers
    GraphWorkers <- MCGraphWorkers
    Messages <- MCMessages
    Batch <- MCBatch
    GraphRows = {g}
    Records <- MCRecords
    Approved = {a, b, g}
    Occurred <- MCOccurred
    MaxAge = 2
    Lookback = 1
    MaxDelivery = 2
    MaxNow = 3
    MaxKey = 2
    MaxFailures = 1
    NoWorker = NoWorker
    NoHandoff = NoHandoff
    NoMessage = NoMessage
SPECIFICATION FairSpec
INVARIANTS
    ExecutionsAgree
    HandoffPinsArtifact
    SettledIsAccounted
    RejectedBatchIsWhole
PROPERTIES
    MessagesLeave
CHECK_DEADLOCK FALSE
