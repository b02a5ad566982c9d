SPECIFICATION SystemFairSpec
CONSTANTS
    m1 = m1
    a1 = a1
    r1 = r1
    t1 = t1
    b1 = b1
    f1 = f1
    NoKey = NoKey
    NoRem = NoRem
    Managers <- OneManager
    Rems <- OneRem
    Targets <- OneTarget
    TargetOf <- EveryRemTarget
    KindOf <- AllDeployments
    Specs <- GitOpsOnly
    Edits <- NoEdits
    FaultKinds <- NoFaults
    MaxTroubles = 0
    MaxRv = 4
    Apps <- OneApp
    Watched <- OneRem
    Branches <- OneBranch
    BranchOf <- EveryRemBranch
    Files <- OneFile
    FileOf <- EveryRemFile
    MaxCommits = 3
    ManifestEdits <- NoEdits
    AppFaultKinds <- NoFaults
    MaxAppTroubles = 0
CHECK_DEADLOCK FALSE
PROPERTIES MergeIsReported
