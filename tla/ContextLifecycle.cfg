\* Three drafts, two of which compete to succeed the first version, replaced, rejected
\* and reviewed again on the way.
CONSTANTS
    d1 = d1
    d2 = d2
    d3 = d3
    b1 = b1
    DraftIds <- MCDraftIds
    Bodies <- MCOneBody
    ClientManifests <- MCAllManifests
    MaxVersion = 3
    MaxDetours = 2
    MaxReceipts = 2
    MaxDecisions = 100
    NoDraft = NoDraft
    NoManifest = NoManifest
    NoApproval = NoApproval
    NoPublication = NoPublication
SPECIFICATION Spec
SYMMETRY DraftSymmetry
INVARIANTS
    TypeOK
    SuccessionRecoverable
    LineageLinear
    PublishedWasReviewed
CHECK_DEADLOCK FALSE
