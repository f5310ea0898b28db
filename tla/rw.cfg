SPECIFICATION LockFairSpec
CONSTANTS
    Readers = {r1, r2, r3, r4}
    Writers = {w1}
    MAXCOUNT = 3
    SIGNALS = 4
    MaxSpurious = 1
INVARIANT Exclusion
INVARIANT NobodyLeftBlocked
PROPERTY AllFinish
