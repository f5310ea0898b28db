SPECIFICATION SSpec
CONSTANTS
    INODES_PER_BLOCK = 1
    POINTERS_PER_INODE = 2
    POINTERS_PER_BLOCK = 2
    InodeBlocks = 2
    MaxBlocks = 15
    Sizes = {15}
    Data = {3}
    HostFiles <- HostShortLong
    CHUNK = 6
    AnyInode = FALSE
    MaxOpens = 2
INVARIANT NoLeak
INVARIANT NoUnwrittenData
INVARIANT CopyOutWhole
INVARIANT WrittenIsStored
PROPERTY ImplementsFileStore
CHECK_DEADLOCK FALSE
