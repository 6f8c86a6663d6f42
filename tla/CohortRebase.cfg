SPECIFICATION Spec
CONSTANTS
    web = web
    job = job
    vmss1 = vmss1
    vmss2 = vmss2
    NoRole = NoRole
    NoAnchor = NoAnchor
    Roles = {web, job}
    Inherited = {web}
    Members = {1, 2, 3, 4}
    roleOf <- MCRoleOf
    anchorOf <- MCAnchorOf
    Sights <- MCSights
    MaxVersion = 3
    MaxDrafts = 3
    MaxSteps = 2
    MaxDecisions = 3
INVARIANTS
    PriorChangesPreserved
CHECK_DEADLOCK FALSE
