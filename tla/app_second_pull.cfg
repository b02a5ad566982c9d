SPECIFICATION Spec
CONSTANTS
    a1 = a1
    a2 = a2
    r1 = r1
    b1 = b1
    f1 = f1
    e1 = e1
    NoRem = NoRem
    Specs <- GitOpsOnly
    Watched <- OneRem
    Apps <- OneApp
    Rems <- OneRem
    Branches <- OneBranch
    BranchOf <- EveryRemBranch
    Files <- OneFile
    FileOf <- EveryRemFile
    Edits <- NoEdits
    FaultKinds <- NoFaults
    MaxTroubles = 0
    MaxCommits = 4
    MaxRv = 6
CHECK_DEADLOCK FALSE
INVARIANTS OnePullPerRemediation
