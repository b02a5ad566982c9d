SPECIFICATION FairSpec
CONSTANTS
    m1 = m1
    m2 = m2
    r1 = r1
    t1 = t1
    e1 = e1
    NoKey = NoKey
    Managers <- TwoManagers
    Rems <- OneRem
    Targets <- OneTarget
    TargetOf <- EveryRemTarget
    KindOf <- AllDeployments
    Specs <- DirectWithPullOnly
    Edits <- OneEdit
    FaultKinds <- ErrorsAndCrashes
    MaxTroubles = 1
    MaxRv = 5
CHECK_DEADLOCK FALSE
INVARIANTS ResolvedIffTerminal NoWakeupLost
PROPERTIES TerminalIsForever DirectResolves OverduePRExpires
