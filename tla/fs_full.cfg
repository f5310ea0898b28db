SPECIFICATION SFairSpec
CONSTANTS
    INODES_PER_BLOCK = 2
    POINTERS_PER_INODE = 2
    POINTERS_PER_BLOCK = 2
    InodeBlocks = 1
    MaxBlocks = 7
    Sizes = {7}
    Data = {3, 5}
    HostFiles <- HostTwoWords
    CHUNK = 6
    AnyInode = FALSE
    MaxOpens = 1
INVARIANT NoCrossLink
INVARIANT PointedNotFree
PROPERTY CopyInEnds
PROPERTY ImplementsFileStore
CHECK_DEADLOCK FALSE
