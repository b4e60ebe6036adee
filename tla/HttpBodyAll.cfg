SPECIFICATION MCSpec
CONSTANTS
    Conns = {c1, c2}
    Streams <- MCStreams
INVARIANTS BodyOnly StatusIsCode RefusalsCounted FirstBadIsReal
CHECK_DEADLOCK FALSE
