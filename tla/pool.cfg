SPECIFICATION FairSpec
CONSTANTS
    ALEN = 2
    Workers = {w1, w2, w3}
    Main = Main
    Conns = {c1, c2, c3, c4}
    NULL = NULL
INVARIANT NoLostWakeup
INVARIANT HeldOnce
PROPERTY FirstComeFirstServed
PROPERTY EveryoneServed
CHECK_DEADLOCK FALSE
