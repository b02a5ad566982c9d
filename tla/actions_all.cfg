SPECIFICATION Spec
CONSTANTS
    v1 = v1
    v2 = v2
    proxy = proxy
    Names <- TwoNames
    Images <- SomeImages
    Workloads <- AllWorkloads
    Requests <- AllRequests
CHECK_DEADLOCK FALSE
INVARIANTS TypeOK PatchersAgree BelowCapGrows
PROPERTIES OnlyTheChosen
