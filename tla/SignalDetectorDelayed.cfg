SPECIFICATION Spec
CONSTANTS
    Executions = {e1, e2, e3}
    NumResources = 1
    Minute = 2
    LeaseTime = 6
    ReplicaTimeout = 4
    StartDelay = 3
    MaxTime = 6
    MaxChanges = 2
    NoOwner = NoOwner
SYMMETRY ExecutionSymmetry
INVARIANT
    QueueFollowsCheckpoint
CHECK_DEADLOCK FALSE
