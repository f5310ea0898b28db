SPECIFICATION Spec
CONSTANTS
    INODES_PER_BLOCK = 2
    POINTERS_PER_INODE = 2
    POINTERS_PER_BLOCK = 2
    InodeBlocks = 1
    MaxBlocks = 7
    Sizes = {6, 7}
    Data = {1, 5}
    HostFiles <- HostGeometry
    CHUNK = 6
    AnyInode = TRUE
    MaxOpens = 2
INVARIANT TypeOK
INVARIANT SizeBacked
CHECK_DEADLOCK FALSE
