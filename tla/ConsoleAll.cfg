SPECIFICATION ConsoleFairSpec
CONSTANTS
    Threads = {t1, t2}
    LINE_MAX = 3
    MaxLines = 2
    MaxFrag = 3
INVARIANTS LinesWhole
PROPERTIES AllPrinted
CHECK_DEADLOCK FALSE
