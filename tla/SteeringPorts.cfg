SPECIFICATION Spec
CONSTANTS
    EPH_LEN = 8
    BITS = 2
    GROUP = 3
    CAP = 4
    CONNS_PER_WORKER = 3
    MaxQueues = 2
    MaxTable = 8
    HashFns <- MCHashFns
INVARIANTS PortsLandHome NothingFiltered NoPortTwice EnoughPorts MisroutedNoticed
CHECK_DEADLOCK FALSE
