SPECIFICATION FairSpec
CONSTANTS
    p1 = p1
    h1 = h1
    Replicas <- OneReplica
    Handlers <- OneHandler
    ReplicaOf <- SameReplica
    Alerts <- OneAlert
    Routes <- DefaultRoutes
    ValidNames <- NoName
    TTL = 1
    Requests <- Api
    Repeated <- Api
    FaultKinds <- NoFaults
    MaxFaults = 0
    MaxDeletions = 0
CHECK_DEADLOCK FALSE
PROPERTIES FiringIsRemediated
