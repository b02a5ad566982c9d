SPECIFICATION Spec
CONSTANTS
    m1 = m1
    m2 = m2
    r1 = r1
    t1 = t1
    e1 = e1
    NoKey = NoKey
    Managers <- OneManager
    Rems <- OneRem
    Targets <- OneTarget
    TargetOf <- EveryRemTarget
    KindOf <- AllDeployments
    Specs <- GitOpsOnly
    Edits <- NoEdits
    FaultKinds <- NoFaults
    MaxTroubles = 0
    MaxRv = 5
CHECK_DEADLOCK FALSE
PROPERTIES WaitsForExternalService
