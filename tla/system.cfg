SPECIFICATION AppFairSpec
CONSTANTS
    m1 = m1
    a1 = a1
    r1 = r1
    t1 = t1
    b1 = b1
    f1 = f1
    NoKey = NoKey
    NoRem = NoRem
    Managers <- OneManager
    Rems <- OneRem
    Targets <- OneTarget
    TargetOf <- EveryRemTarget
    KindOf <- AllDeployments
    Specs <- GitOpsOrDirect
    Edits <- NoEdits
    FaultKinds <- NoFaults
    MaxTroubles = 1
    MaxRv = 4
    Apps <- OneApp
    Watched <- OneRem
    Branches <- OneBranch
    BranchOf <- EveryRemBranch
    Files <- OneFile
    FileOf <- EveryRemFile
    MaxCommits = 3
    ManifestEdits <- NoEdits
    AppFaultKinds <- AllFaults
    MaxAppTroubles = 1
CHECK_DEADLOCK FALSE
INVARIANTS PulledOrPatched
PROPERTIES ControllerSpec AppSpec AnsweredUnlessRewritten
