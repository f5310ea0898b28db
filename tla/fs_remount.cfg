SPECIFICATION Spec
CONSTANTS
    INODES_PER_BLOCK = 2
    POINTERS_PER_INODE = 2
    POINTERS_PER_BLOCK = 2
    InodeBlocks = 1
    MaxBlocks = 7
    Sizes = {7}
    Data = {5}
    HostFiles <- HostTwo
    CHUNK = 6
    AnyInode = FALSE
    MaxOpens = 2
INVARIANT PointedNotFree
CHECK_DEADLOCK FALSE
