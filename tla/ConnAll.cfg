SPECIFICATION FairSpec
CONSTANTS
    Builds = {"plain", "tls", "stub"}
    ReqLen = 2
    BLOCK_SIZE = 2
    MaxBody = 3
    TxCap = 1
    RxCap = 4
    SYN_TIMEOUT_MS = 1
    MaxSyns = 2
    Faults = {"refuse", "reset", "early_fin", "length", "bad_record", "tls_error"}
INVARIANTS TypeOK OneRequest CountedOnce
PROPERTIES AbsSpec CleanIsWholeButErrors TerminatesOrStranded
