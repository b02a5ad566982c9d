SPECIFICATION FairSpec
CONSTANTS
    m1 = m1
    m2 = m2
    r1 = r1
    t1 = t1
    e1 = e1
    NoKey = NoKey
    Managers <- OneManager
    Rems <- OneRem
    Targets <- OneTarget
    TargetOf <- EveryRemTarget
    KindOf <- AllDeployments
    Specs <- DirectOnly
    Edits <- NoEdits
    FaultKinds <- Crashes
    MaxTroubles = 1
    MaxRv = 5
CHECK_DEADLOCK FALSE
PROPERTIES AppliedIsReported
