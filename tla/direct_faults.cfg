SPECIFICATION Spec
CONSTANTS
    m1 = m1
    m2 = m2
    r1 = r1
    t1 = t1
    e1 = e1
    NoKey = NoKey
    Managers <- TwoManagers
    Rems <- OneRem
    Targets <- OneTarget
    TargetOf <- EveryRemTarget
    KindOf <- AllDeployments
    Specs <- DirectOrApproval
    Edits <- OneEdit
    FaultKinds <- AllFaults
    MaxTroubles = 2
    MaxRv = 5
CHECK_DEADLOCK FALSE
SYMMETRY Symmetry
INVARIANTS TypeOK IInv AppliedAtMostOnce SucceededMeansApplied NoLostUpdate
    FailedMeansNotApplied ApplyingIsOwned
PROPERTIES LifecycleSpec ApprovalGate
