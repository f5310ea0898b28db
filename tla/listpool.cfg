SPECIFICATION FairSpec
CONSTANTS
    LIMIT = 2
    Workers = {w1, w2}
    Main = Main
    Conns = {c1, c2, c3, c4}
    Thumbs = {c1, c2}
    NULL = NULL
INVARIANT HeldOnce
PROPERTY FirstComeFirstServed
PROPERTY EveryoneServed
CHECK_DEADLOCK FALSE
