SPECIFICATION Spec
CONSTANTS
    r1 = r1
    r2 = r2
    Requests <- TwoRequests
    maxEvents = 4
    MaxRecorded = 7
INVARIANTS TypeOK HoldsNewest ServedIsSnapshot
