SPECIFICATION FairSpec
CONSTANTS
    QueueIds = {0, 1}
    NSockets = 2
    Others <- MCOthers
    ENTRY_LIFETIME = 3
    SILENT_TIME = 1
    DISCOVERY_SILENT_TIME = 1
    IFACE_NEIGHBOR_CACHE_COUNT = 2
INVARIANTS SeedSuffices RequestsSpaced NoneLeftBehind
PROPERTIES QueueZeroSends
