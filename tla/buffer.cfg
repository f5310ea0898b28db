SPECIFICATION FairSpec
CONSTANTS
    BUFFER_SIZE = 4
    Items = 10
INVARIANT NoLostWakeup
PROPERTY ImplementsFIFO
PROPERTY Termination
