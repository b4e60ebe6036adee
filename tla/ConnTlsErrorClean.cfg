SPECIFICATION Spec
CONSTANTS
    Builds = {"tls"}
    ReqLen = 2
    BLOCK_SIZE = 2
    MaxBody = 3
    TxCap = 1
    RxCap = 4
    SYN_TIMEOUT_MS = 1
    MaxSyns = 2
    Faults = {"bad_record", "early_fin"}
INVARIANTS CleanIsWhole
