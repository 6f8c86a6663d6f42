SPECIFICATION Spec
CONSTANTS
    Executions = {e1, e2, e3}
    NumResources = 2
    Minute = 2
    LeaseTime = 6
    ReplicaTimeout = 4
    StartDelay = 1
    MaxTime = 8
    MaxChanges = 2
    NoOwner = NoOwner
SYMMETRY ExecutionSymmetry
INVARIANTS
    RunExclusion
    CheckpointNeverConflicts
    QueueFollowsCheckpoint
    RequestsAlternate
PROPERTY
    PendingIsStable
CHECK_DEADLOCK FALSE
