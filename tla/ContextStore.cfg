\* Two replicas and two open commands, from the empty table on.
CONSTANTS
    d1 = d1
    d2 = d2
    b1 = b1
    x1 = x1
    x2 = x2
    DraftIds <- MCDraftIds
    Bodies <- MCBodies
    ClientManifests <- MCClientManifests
    Replicas <- MCReplicas
    MaxVersion = 2
    MaxDetours = 0
    MaxReceipts = 3
    MaxDecisions = 100
    MaxGeneration = 19
    MaxOpen = 2
    MaxTries = 2
    Races = {2, 15}
    MaxEntities = 40
    NoDraft = NoDraft
    NoManifest = NoManifest
    NoApproval = NoApproval
    NoPublication = NoPublication
    NoAnswer = NoAnswer
SPECIFICATION Spec
SYMMETRY StoreSymmetry
INVARIANTS
    PartitionOpens
    SnapshotsConsistent
    AnswersHold
PROPERTIES
    ImplementsLifecycle
CHECK_DEADLOCK FALSE
