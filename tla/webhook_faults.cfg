SPECIFICATION FairSpec
CONSTANTS
    p1 = p1
    h1 = h1
    Replicas <- OneReplica
    Handlers <- OneHandler
    ReplicaOf <- SameReplica
    Alerts <- MixedAlerts
    Routes <- DefaultRoutes
    ValidNames <- EveryName
    TTL = 1
    Requests <- MixedRequests
    Repeated <- Api
    FaultKinds <- AllFaults
    MaxFaults = 1
    MaxDeletions = 1
CHECK_DEADLOCK FALSE
INVARIANTS TypeOK CleanupInvisible
PROPERTIES OncePerTTL ObjectIsKept IntakeSpec FiringIsRemediated StaleIsForgotten
