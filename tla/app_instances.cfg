SPECIFICATION Spec
CONSTANTS
    a1 = a1
    a2 = a2
    r1 = r1
    b1 = b1
    f1 = f1
    e1 = e1
    NoRem = NoRem
    Specs <- GitOpsOrDirect
    Watched <- OneRem
    Apps <- TwoApps
    Rems <- OneRem
    Branches <- OneBranch
    BranchOf <- EveryRemBranch
    Files <- OneFile
    FileOf <- EveryRemFile
    Edits <- OneEdit
    FaultKinds <- AllFaults
    MaxTroubles = 1
    MaxCommits = 4
    MaxRv = 4
CHECK_DEADLOCK FALSE
SYMMETRY Symmetry
INVARIANTS TypeOK PRCreatedHasPull PullCarriesPatch ChangesByPullRequest
PROPERTIES CommitsStayOnBranch PromiseSpec
