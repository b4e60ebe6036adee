SPECIFICATION FairSpec
CONSTANTS
    N_WORKERS_REQ = 2
    DevMaxes <- AnyDevice
    CONNS_PER_WORKER = 2
    BLOCK_SIZE = 1
    OBJECT_SIZE = 2
    Builds <- MCBuilds
    MaxBytes = 2
    MaxMisrouted = 1
    Failures <- AllFail
INVARIANTS VerdictExact RangesInObject DisjointWhenTheyFit FaultNoticed
PROPERTIES ContextsSettled Reports
