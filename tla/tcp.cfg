SPECIFICATION ConnectionSpec
CONSTANTS
    BUFFER_SIZE = 2
    MaxBytes = 4
    Counts = {1, 3}
    Lines = 2
    MaxBlocks = 2
    Lengths = {1, 2}
    SNDBUF = 2
INVARIANT DataIsStream
INVARIANT ReadsOneLine
INVARIANT BodyIsPrefix
PROPERTY ServerGoesOn
CHECK_DEADLOCK FALSE
