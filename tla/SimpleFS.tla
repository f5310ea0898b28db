------------------------------ MODULE SimpleFS ------------------------------
(***************************************************************************)
(* The file system of Assignment 7: FileSystem (library/fs.cpp) over the   *)
(* disk emulator (library/disk.cpp), driven by the shell (shell/sfssh.cpp).*)
(*                                                                         *)
(* Sizes and offsets are counted in 4-byte words instead of bytes, so a    *)
(* block is exactly POINTERS_PER_BLOCK words, whether it holds file data   *)
(* or pointers.  A host file is a length and one word that fills it.       *)
(*                                                                         *)
(* Every command of the shell is one step, except the two that write more  *)
(* than one block to the disk image, format and copyin: those take one     *)
(* step per disk write, so that the process may be killed between any two. *)
(*                                                                         *)
(* A block is a union (fs.h:32-37), and the words of a host file may equal *)
(* block numbers: once two files share a block, words that were written as *)
(* data are read as pointers, and they may lead to the inode table.  The   *)
(* model follows all of that up to a write of words over the inode table,  *)
(* which ends it with pc = "overwritten".                                  *)
(***************************************************************************)
EXTENDS Integers

CONSTANTS
    INODES_PER_BLOCK, POINTERS_PER_INODE, POINTERS_PER_BLOCK,
    InodeBlocks,   \* inode blocks of every disk in Sizes, as format lays it out
    MaxBlocks,     \* bound on the number of blocks of a disk image
    Sizes,         \* numbers of blocks the shell may be started with
    Data,          \* words that host files are made of; they may be block numbers
    HostFiles,     \* the files of the host: their lengths and their words
    CHUNK,         \* words copyin and copyout transfer per call
    AnyInode,      \* may the user name an inode that create never returned?
    MaxOpens       \* bound on the number of times the shell is started

\* disk.h: a block; here in words
BLOCK_SIZE == POINTERS_PER_BLOCK

\* format: (size_t)(((float)disk->size() * 0.1) + 0.5)
FormatInodeBlocks(n) == (n + 5) \div 10

\* mount: ceil(.1 * block.Super.Blocks)
MountInodeBlocks(n) == (n + 9) \div 10

ASSUME ConstantsAssumption ==
    /\ {INODES_PER_BLOCK, POINTERS_PER_INODE, POINTERS_PER_BLOCK} \subseteq Nat \ {0}
    /\ {InodeBlocks, MaxOpens} \subseteq Nat /\ MaxBlocks \in Nat \ {0}
    /\ Sizes \subseteq 1 .. MaxBlocks
    /\ \A n \in Sizes : FormatInodeBlocks(n) = InodeBlocks /\ InodeBlocks < n
    /\ Data \subseteq Nat
    /\ HostFiles \subseteq [len : Nat, word : Data]
    /\ CHUNK \in Nat \ {0} /\ CHUNK % BLOCK_SIZE = 0
    /\ AnyInode \in BOOLEAN

\* The default block numbers of fs.h: the largest file fits in MAX_FILE_SIZE.
ASSUME MaxFileAssumption ==
    POINTERS_PER_INODE * POINTERS_PER_BLOCK >= POINTERS_PER_INODE + POINTERS_PER_BLOCK

Blocks  == 0 .. MaxBlocks - 1
Inumber == 0 .. INODES_PER_BLOCK * InodeBlocks - 1
Word    == Nat
MaxFileBlocks == POINTERS_PER_INODE + POINTERS_PER_BLOCK
MAX_FILE_SIZE == BLOCK_SIZE * (POINTERS_PER_INODE * POINTERS_PER_BLOCK)

Block == [0 .. POINTERS_PER_BLOCK - 1 -> Word]
Inode == [valid : BOOLEAN, size : 0 .. MAX_FILE_SIZE,
          direct : [0 .. POINTERS_PER_INODE - 1 -> Blocks], indirect : Blocks]

\* The words of an inode: Valid, Size, Direct and Indirect.  In fs.h the inodes
\* of a block fill it; a smaller instance sees the first of their words only.
INODE_WORDS == POINTERS_PER_INODE + 3

ASSUME InodeBlockAssumption == POINTERS_PER_BLOCK =< INODES_PER_BLOCK * INODE_WORDS

NoSuper == [magic |-> FALSE, blocks |-> 0, inodeBlocks |-> 0, inodes |-> 0]

\* the superblock that format writes on a disk of n blocks
SuperBlock(n) == [magic |-> TRUE, blocks |-> n, inodeBlocks |-> FormatInodeBlocks(n),
                  inodes |-> INODES_PER_BLOCK * FormatInodeBlocks(n)]

ZeroBlock == [p \in 0 .. POINTERS_PER_BLOCK - 1 |-> 0]
NoInode   == [valid |-> FALSE, size |-> 0,
              direct |-> [p \in 0 .. POINTERS_PER_INODE - 1 |-> 0], indirect |-> 0]

VARIABLES
    super,        \* the superblock: block 0 of the image
    inodes,       \* the inode table: blocks 1 .. InodeBlocks of the image
    block,        \* the other blocks of the image
    nblocks,      \* Disk::Blocks
    mounted,      \* Disk::Mounts > 0
    num_blocks, num_inodes, free_bitmap,   \* FileSystem members (the set of free blocks)
    pc,           \* where the shell is
    w,            \* the locals of copyin and of FileSystem::write
    opens         \* how often the shell was started

disk   == <<super, inodes, block>>
memory == <<mounted, num_blocks, num_inodes, free_bitmap>>
vars   == <<super, inodes, block, nblocks, mounted, num_blocks, num_inodes,
            free_bitmap, pc, w, opens>>

Smaller(a, b) == IF a =< b THEN a ELSE b
Larger(a, b)  == IF a =< b THEN b ELSE a

Locals == [inum : Nat, len : Nat, word : {0} \cup Data, offset : Nat, length : Nat,
           block_num : Nat, written : Nat, inode : Inode, indirect : Block,
           read_indirect : BOOLEAN, modified_inode : BOOLEAN, modified_indirect : BOOLEAN]

Idle == [inum |-> 0, len |-> 0, word |-> 0, offset |-> 0, length |-> 0,
         block_num |-> 0, written |-> 0, inode |-> NoInode, indirect |-> ZeroBlock,
         read_indirect |-> FALSE, modified_inode |-> FALSE, modified_indirect |-> FALSE]

\* Disk::open on a path that does not exist yet: ftruncate makes a file of zeros.
Init ==
    /\ super = NoSuper
    /\ inodes = [i \in Inumber |-> NoInode]
    /\ block = [b \in Blocks |-> ZeroBlock]
    /\ nblocks \in Sizes
    /\ mounted = FALSE
    /\ num_blocks = 0 /\ num_inodes = 0 /\ free_bitmap = {}
    /\ pc = "prompt"
    /\ w = Idle
    /\ opens = 1

\* Disk::sanity_check: a block number that is too big throws an exception
\* nobody catches, so the process dies.
Throws(b) == b >= nblocks

\* word p of block b of the inode table, which keeps a size in bytes
InodeWord(b, p) ==
    LET ino == inodes[(b - 1) * INODES_PER_BLOCK + p \div INODE_WORDS]
        f   == p % INODE_WORDS
    IN CASE f = 0 -> IF ino.valid THEN 1 ELSE 0
         [] f = 1 -> 4 * ino.size
         [] f = INODE_WORDS - 1 -> ino.indirect
         [] OTHER -> ino.direct[f - 2]

\* The union: block b as an array of pointers.  Nobody asks for block 0: remove,
\* read and write test for it, and of mount SizeBacked says so.
Words(b) ==
    IF b =< InodeBlocks THEN [p \in 0 .. POINTERS_PER_BLOCK - 1 |-> InodeWord(b, p)]
    ELSE block[b]

\* disk->write(b, zeros)
ClearBlock(b) ==
    IF b =< InodeBlocks
    THEN /\ inodes' = [i \in Inumber |->
                          IF 1 + i \div INODES_PER_BLOCK = b THEN NoInode ELSE inodes[i]]
         /\ UNCHANGED block
    ELSE /\ block' = [block EXCEPT ![b] = ZeroBlock]
         /\ UNCHANGED inodes

Abort ==
    /\ pc' = "aborted"
    /\ w' = Idle
    /\ UNCHANGED <<disk, memory, nblocks, opens>>

-----------------------------------------------------------------------------
(* FileSystem::format: the superblock first, then every other block.        *)

Format ==
    /\ pc = "prompt"
    /\ ~mounted
    /\ super' = SuperBlock(nblocks)
    /\ pc' = "format"
    /\ w' = [Idle EXCEPT !.block_num = 1]
    /\ UNCHANGED <<memory, inodes, block, nblocks, opens>>

FormatClear ==
    /\ pc = "format"
    /\ w.block_num < nblocks
    /\ ClearBlock(w.block_num)
    /\ w' = [w EXCEPT !.block_num = @ + 1]
    /\ UNCHANGED <<memory, super, nblocks, pc, opens>>

FormatDone ==
    /\ pc = "format"
    /\ w.block_num = nblocks
    /\ pc' = "prompt"
    /\ w' = Idle
    /\ UNCHANGED <<disk, memory, nblocks, opens>>

-----------------------------------------------------------------------------
(* FileSystem::mount                                                        *)

MountChecks ==
    /\ super.inodes = super.inodeBlocks * INODES_PER_BLOCK
    /\ super.magic
    /\ super.inodeBlocks = MountInodeBlocks(super.blocks)

FileBlocks(size) == (size + BLOCK_SIZE - 1) \div BLOCK_SIZE

\* Does the scan read the indirect block of inode i?
ScansIndirect(i) == inodes[i].valid /\ FileBlocks(inodes[i].size) > POINTERS_PER_INODE

\* Slip: the scan does not look into the indirect block.
ScannedShallow(i) ==
    IF ~inodes[i].valid THEN {}
    ELSE {inodes[i].direct[p] : p \in 0 .. POINTERS_PER_INODE - 1} \cup {inodes[i].indirect}

\* The blocks that the scan marks for inode i: those that its size covers.
Scanned(i) ==
    LET n == FileBlocks(inodes[i].size) IN
    IF ~inodes[i].valid THEN {}
    ELSE {inodes[i].direct[p] : p \in {q \in 0 .. POINTERS_PER_INODE - 1 : q < n}}
         \cup (IF ScansIndirect(i)
               THEN {inodes[i].indirect} \cup
                    {Words(inodes[i].indirect)[p] :
                        p \in {q \in 0 .. POINTERS_PER_BLOCK - 1 : q < n - POINTERS_PER_INODE}}
               ELSE {})

MountThrows == \E i \in Inumber : ScansIndirect(i) /\ Throws(inodes[i].indirect)

Mount ==
    /\ pc = "prompt"
    /\ ~mounted
    /\ MountChecks
    /\ ~MountThrows
    /\ LET scanned == UNION {Scanned(i) : i \in Inumber} IN
       \/ /\ scanned \subseteq 0 .. super.blocks - 1
          /\ mounted' = TRUE
          /\ num_blocks' = super.blocks
          /\ num_inodes' = super.inodes
          /\ free_bitmap' = ((super.inodeBlocks + 1) .. (super.blocks - 1)) \ scanned
          /\ UNCHANGED pc
       \/ /\ ~(scanned \subseteq 0 .. super.blocks - 1)   \* free_bitmap[...] out of range
          /\ pc' = "undefined"
          /\ UNCHANGED memory
    /\ UNCHANGED <<disk, nblocks, w, opens>>

MountAborts ==
    /\ pc = "prompt"
    /\ ~mounted
    /\ MountChecks
    /\ MountThrows
    /\ Abort

-----------------------------------------------------------------------------
(* FileSystem::create, remove                                               *)

\* The inode numbers a user types.
Named == IF AnyInode THEN Inumber \cup {INODES_PER_BLOCK * InodeBlocks}
                     ELSE {i \in Inumber : inodes[i].valid}

Create ==
    /\ pc = "prompt"
    /\ mounted
    /\ \E i \in 0 .. num_inodes - 1 :
          /\ ~inodes[i].valid
          /\ \A j \in 0 .. i - 1 : inodes[j].valid
          /\ inodes' = [inodes EXCEPT ![i] = [NoInode EXCEPT !.valid = TRUE]]
    /\ UNCHANGED <<memory, super, block, nblocks, pc, w, opens>>

\* Slip: the blocks that the indirect block points to are forgotten.
ReleasedShallow(i) ==
    ({inodes[i].direct[p] : p \in 0 .. POINTERS_PER_INODE - 1} \cup {inodes[i].indirect}) \ {0}

\* Slip: the pointers are released without a test for 0.
ReleasedZero(i) ==
    {inodes[i].direct[p] : p \in 0 .. POINTERS_PER_INODE - 1} \cup {inodes[i].indirect}

\* The blocks that remove releases: all that the inode points to, and all that
\* its indirect block points to.
Released(i) ==
    ({inodes[i].direct[p] : p \in 0 .. POINTERS_PER_INODE - 1} \cup {inodes[i].indirect}
    \cup (IF inodes[i].indirect = 0 THEN {}
          ELSE {Words(inodes[i].indirect)[p] : p \in 0 .. POINTERS_PER_BLOCK - 1}))
    \ {0}

RemoveThrows(i) == inodes[i].indirect # 0 /\ Throws(inodes[i].indirect)

Remove(i) ==
    /\ pc = "prompt"
    /\ mounted
    /\ i < num_inodes
    /\ inodes[i].valid
    /\ ~RemoveThrows(i)
    /\ \/ /\ Released(i) \subseteq 0 .. num_blocks - 1
          /\ free_bitmap' = free_bitmap \cup Released(i)
          /\ inodes' = [inodes EXCEPT ![i] = NoInode]
          /\ UNCHANGED pc
       \/ /\ ~(Released(i) \subseteq 0 .. num_blocks - 1)
          /\ pc' = "undefined"
          /\ UNCHANGED <<inodes, free_bitmap>>
    /\ UNCHANGED <<super, block, nblocks, mounted, num_blocks, num_inodes, w, opens>>

RemoveAborts(i) ==
    /\ pc = "prompt"
    /\ mounted
    /\ i < num_inodes
    /\ inodes[i].valid
    /\ RemoveThrows(i)
    /\ Abort

-----------------------------------------------------------------------------
(* copyin: FileSystem::write on one chunk of the host file after the other. *)

CopyIn(i, file) ==
    /\ pc = "prompt"
    /\ mounted
    /\ pc' = "copyin"
    /\ w' = [Idle EXCEPT !.inum = i, !.len = file.len, !.word = file.word]
    /\ UNCHANGED <<disk, memory, nblocks, opens>>

\* what fread returns
Chunk == Smaller(CHUNK, w.len - w.offset)

\* load_inode fails, or the offset is behind the end of the file
WriteRefused == w.inum < num_inodes => w.offset > inodes[w.inum].size

CopyInDone ==
    /\ pc = "copyin"
    /\ Chunk = 0 \/ WriteRefused
    /\ pc' = "prompt"
    /\ w' = Idle
    /\ UNCHANGED <<disk, memory, nblocks, opens>>

\* Slip: the new size is saved before the data is written.
WriteSizeFirst ==
    /\ pc = "copyin"
    /\ Chunk # 0
    /\ ~WriteRefused
    /\ pc' = "loop"
    /\ inodes' = [inodes EXCEPT ![w.inum].size = Larger(@, w.offset + Chunk)]
    /\ w' = [w EXCEPT !.inode = inodes'[w.inum], !.length = Chunk,
                      !.block_num = w.offset \div BLOCK_SIZE]
    /\ UNCHANGED <<memory, super, block, nblocks, opens>>

Write ==
    /\ pc = "copyin"
    /\ Chunk # 0
    /\ ~WriteRefused
    /\ pc' = "loop"
    /\ w' = [w EXCEPT !.inode = inodes[w.inum],
                      !.length = Smaller(Chunk, MAX_FILE_SIZE - w.offset),
                      !.block_num = w.offset \div BLOCK_SIZE]
    /\ UNCHANGED <<disk, memory, nblocks, opens>>

\* the condition of write's for loop
InLoop == pc = "loop" /\ w.written < w.length /\ w.block_num < MaxFileBlocks

IsDirect == w.block_num < POINTERS_PER_INODE

\* write has the pointer of the current block at hand
PointerKnown == IsDirect \/ (w.inode.indirect # 0 /\ w.read_indirect)

block_to_write == IF IsDirect THEN w.inode.direct[w.block_num]
                              ELSE w.indirect[w.block_num - POINTERS_PER_INODE]

\* Slip: the block keeps what it held.
AllocateFreeBlockStale(b) ==
    /\ b \in free_bitmap
    /\ \A c \in free_bitmap : b =< c
    /\ ~Throws(b)
    /\ free_bitmap' = free_bitmap \ {b}
    /\ UNCHANGED <<block, inodes>>

\* Slip: the block stays free in the bitmap.
AllocateFreeBlockKeepsBit(b) ==
    /\ b \in free_bitmap
    /\ \A c \in free_bitmap : b =< c
    /\ ~Throws(b)
    /\ ClearBlock(b)
    /\ UNCHANGED free_bitmap

\* allocate_free_block: take the first free block and zero it.
AllocateFreeBlock(b) ==
    /\ b \in free_bitmap
    /\ \A c \in free_bitmap : b =< c
    /\ ~Throws(b)
    /\ free_bitmap' = free_bitmap \ {b}
    /\ ClearBlock(b)

AllocateDirect ==
    /\ InLoop
    /\ IsDirect
    /\ block_to_write = 0
    /\ \E b \in free_bitmap :
          /\ AllocateFreeBlock(b)
          /\ w' = [w EXCEPT !.inode.direct[w.block_num] = b, !.modified_inode = TRUE]
    /\ UNCHANGED <<super, nblocks, mounted, num_blocks, num_inodes, pc, opens>>

AllocateIndirect ==
    /\ InLoop
    /\ ~IsDirect
    /\ w.inode.indirect = 0
    /\ \E b \in free_bitmap :
          /\ AllocateFreeBlock(b)
          /\ w' = [w EXCEPT !.inode.indirect = b, !.modified_indirect = TRUE]
    /\ UNCHANGED <<super, nblocks, mounted, num_blocks, num_inodes, pc, opens>>

\* no block left for the indirect block: "return written", saving nothing
ReturnEarly ==
    /\ InLoop
    /\ ~IsDirect
    /\ w.inode.indirect = 0
    /\ free_bitmap = {}
    /\ pc' = "returned"
    /\ UNCHANGED <<disk, memory, nblocks, w, opens>>

ReadIndirect ==
    /\ InLoop
    /\ ~IsDirect
    /\ w.inode.indirect # 0
    /\ ~w.read_indirect
    /\ ~Throws(w.inode.indirect)
    /\ w' = [w EXCEPT !.indirect = Words(w.inode.indirect), !.read_indirect = TRUE]
    /\ UNCHANGED <<disk, memory, nblocks, pc, opens>>

AllocateData ==
    /\ InLoop
    /\ ~IsDirect
    /\ PointerKnown
    /\ block_to_write = 0
    /\ \E b \in free_bitmap :
          /\ AllocateFreeBlock(b)
          /\ w' = [w EXCEPT !.indirect[w.block_num - POINTERS_PER_INODE] = b,
                            !.modified_indirect = TRUE]
    /\ UNCHANGED <<super, nblocks, mounted, num_blocks, num_inodes, pc, opens>>

write_offset == IF w.written = 0 THEN w.offset % BLOCK_SIZE ELSE 0
\* Slip: the rest of the block is written, however little was asked for.
write_lengthWhole == BLOCK_SIZE - write_offset

write_length == Smaller(BLOCK_SIZE - write_offset, w.length - w.written)

WriteData ==
    /\ InLoop
    /\ PointerKnown
    /\ block_to_write > InodeBlocks
    /\ ~Throws(block_to_write)
    /\ block' = [block EXCEPT ![block_to_write] =
                    [p \in 0 .. POINTERS_PER_BLOCK - 1 |->
                        IF p \in write_offset .. write_offset + write_length - 1
                        THEN w.word ELSE @[p]]]
    /\ w' = [w EXCEPT !.written = @ + write_length, !.block_num = @ + 1]
    /\ UNCHANGED <<memory, super, inodes, nblocks, pc, opens>>

\* Disk::sanity_check throws at one of the disk accesses of the loop.
WriteAborts ==
    /\ InLoop
    /\ \/ /\ ~IsDirect
          /\ w.inode.indirect # 0
          /\ ~w.read_indirect
          /\ Throws(w.inode.indirect)
       \/ /\ PointerKnown
          /\ block_to_write # 0
          /\ Throws(block_to_write)
       \/ /\ \/ PointerKnown /\ block_to_write = 0
             \/ ~IsDirect /\ w.inode.indirect = 0
          /\ free_bitmap # {}
          /\ \A b \in free_bitmap : Throws(b)
    /\ Abort

\* Slip: a full disk does not break the loop.
LoopEndsNoBreak == ~InLoop

\* the loop is over, or breaks because no block is left for the data
LoopEnds ==
    InLoop => PointerKnown /\ block_to_write = 0 /\ free_bitmap = {}

\* Slip: the size counts the words of this call only.
UpdateSizeForgetsOffset ==
    /\ pc = "loop"
    /\ LoopEnds
    /\ w' = [w EXCEPT !.inode.size = Larger(@, w.written), !.modified_inode = TRUE]
    /\ pc' = "save_inode"
    /\ UNCHANGED <<disk, memory, nblocks, opens>>

\* Slip: the size counts what was asked for, not what was written.
UpdateSizeAsked ==
    /\ pc = "loop"
    /\ LoopEnds
    /\ w' = [w EXCEPT !.inode.size = Larger(@, w.length + w.offset), !.modified_inode = TRUE]
    /\ pc' = "save_inode"
    /\ UNCHANGED <<disk, memory, nblocks, opens>>

UpdateSize ==
    /\ pc = "loop"
    /\ LoopEnds
    /\ LET new_size == Larger(w.inode.size, w.written + w.offset) IN
       w' = [w EXCEPT !.inode.size = new_size,
                      !.modified_inode = @ \/ new_size # w.inode.size]
    /\ pc' = "save_inode"
    /\ UNCHANGED <<disk, memory, nblocks, opens>>

SaveInode ==
    /\ pc = "save_inode"
    /\ inodes' = IF w.modified_inode THEN [inodes EXCEPT ![w.inum] = w.inode] ELSE inodes
    /\ pc' = "save_indirect"
    /\ UNCHANGED <<memory, super, block, nblocks, w, opens>>

SaveIndirect ==
    /\ pc = "save_indirect"
    /\ w.modified_indirect => w.inode.indirect > InodeBlocks
    /\ block' = IF w.modified_indirect
                THEN [block EXCEPT ![w.inode.indirect] = w.indirect] ELSE block
    /\ pc' = "returned"
    /\ UNCHANGED <<memory, super, inodes, nblocks, w, opens>>

\* The data, or the indirect block, goes over a block of the inode table: from
\* here on the inodes are whatever the words say, and the model stops.
OverwriteInodes ==
    /\ \/ /\ InLoop
          /\ PointerKnown
          /\ block_to_write \in 1 .. InodeBlocks
       \/ /\ pc = "save_indirect"
          /\ w.modified_indirect
          /\ w.inode.indirect \in 1 .. InodeBlocks
    /\ pc' = "overwritten"
    /\ w' = Idle
    /\ UNCHANGED <<disk, memory, nblocks, opens>>

\* write returned: go on with the next chunk, unless it wrote less than asked.
\* The locals of write die with its frame.
Returned ==
    /\ pc = "returned"
    /\ IF w.written # Chunk
       THEN pc' = "prompt" /\ w' = Idle
       ELSE /\ pc' = "copyin"
            /\ w' = [Idle EXCEPT !.inum = w.inum, !.len = w.len, !.word = w.word,
                                 !.offset = w.offset + w.written]
    /\ UNCHANGED <<disk, memory, nblocks, opens>>

CopyInStep ==
    \/ Write \/ AllocateDirect \/ AllocateIndirect \/ ReadIndirect \/ AllocateData
    \/ WriteData \/ WriteAborts \/ ReturnEarly \/ UpdateSize
    \/ SaveInode \/ SaveIndirect \/ OverwriteInodes \/ Returned \/ CopyInDone

-----------------------------------------------------------------------------
(* copyout: FileSystem::read on one chunk of the file after the other.  It   *)
(* changes no state, unless it throws or uses an uninitialised pointer.      *)

ReadLength(i, offset) == Smaller(CHUNK, inodes[i].size - offset)

\* Slip: one block too late.
ReadsIndirectLate(i, offset) ==
    (offset + ReadLength(i, offset)) \div BLOCK_SIZE > POINTERS_PER_INODE + 1

\* (offset + length) / BLOCK_SIZE > POINTERS_PER_INODE
ReadsIndirect(i, offset) ==
    (offset + ReadLength(i, offset)) \div BLOCK_SIZE > POINTERS_PER_INODE

\* the blocks of the file that one call of read visits
BlocksRead(i, offset) ==
    {k \div BLOCK_SIZE : k \in offset .. offset + ReadLength(i, offset) - 1}

block_to_read(i, k) == IF k < POINTERS_PER_INODE THEN inodes[i].direct[k]
                       ELSE Words(inodes[i].indirect)[k - POINTERS_PER_INODE]

\* read comes to the k-th block of the file: no earlier one stopped it
Visits(i, offset, k) ==
    /\ k \in BlocksRead(i, offset)
    /\ \A l \in BlocksRead(i, offset) :
          l < k => block_to_read(i, l) # 0 /\ ~Throws(block_to_read(i, l))

\* the first block behind the direct ones, while the local "indirect" was never
\* filled
ReadUndefined(i, offset) ==
    ~ReadsIndirect(i, offset) /\ Visits(i, offset, POINTERS_PER_INODE)

ReadThrows(i, offset) ==
    \/ ReadsIndirect(i, offset) /\ Throws(inodes[i].indirect)
    \/ /\ ReadsIndirect(i, offset) => inodes[i].indirect # 0 /\ ~Throws(inodes[i].indirect)
       /\ \E k \in BlocksRead(i, offset) : Visits(i, offset, k) /\ Throws(block_to_read(i, k))

\* read returns -1: a block of the file is not allocated
ReadFails(i, offset) ==
    \/ ReadsIndirect(i, offset) /\ inodes[i].indirect = 0
    \/ \E k \in BlocksRead(i, offset) : block_to_read(i, k) = 0

\* read returns length words of the file
ReadSucceeds(i, offset) ==
    /\ ReadLength(i, offset) > 0
    /\ ~ReadUndefined(i, offset)
    /\ ~ReadThrows(i, offset)
    /\ ~ReadFails(i, offset)

\* copyout comes to the chunk at this offset
Reaches(i, offset) ==
    /\ offset % CHUNK = 0
    /\ \A c \in 0 .. offset - 1 : c % CHUNK = 0 => ReadSucceeds(i, c)

CopyOutStops(i) ==
    /\ pc = "prompt"
    /\ mounted
    /\ i < num_inodes
    /\ \E offset \in 0 .. inodes[i].size - 1 :
          /\ Reaches(i, offset)
          /\ \/ ReadUndefined(i, offset) /\ pc' = "undefined"
             \/ ~ReadUndefined(i, offset) /\ ReadThrows(i, offset) /\ pc' = "aborted"
    /\ UNCHANGED <<disk, memory, nblocks, w, opens>>

\* FileSystem::debug: reads every indirect block, before mount too
DebugAborts ==
    /\ pc = "prompt"
    /\ \E i \in Inumber :
          /\ i < super.inodeBlocks * INODES_PER_BLOCK
          /\ inodes[i].valid
          /\ inodes[i].indirect # 0
          /\ Throws(inodes[i].indirect)
    /\ Abort

-----------------------------------------------------------------------------
(* The process: commands given before mount use members that no constructor *)
(* initialised; the user leaves or kills the shell, and starts it again.    *)

UseBeforeMount ==
    /\ pc = "prompt"
    /\ ~mounted
    /\ pc' = "undefined"
    /\ UNCHANGED <<disk, memory, nblocks, w, opens>>

Running == pc \notin {"aborted", "undefined", "overwritten", "stopped"}

\* quit, exit, end of input, or a signal at any point
Stop ==
    /\ Running
    /\ pc' = "stopped"
    /\ w' = Idle
    /\ UNCHANGED <<disk, memory, nblocks, opens>>

\* Disk::open: ftruncate cuts the image, or extends it with zeros.
Open(n) ==
    /\ pc \in {"aborted", "stopped"}
    /\ opens < MaxOpens
    /\ opens' = opens + 1
    /\ nblocks' = n
    /\ block' = [b \in Blocks |-> IF b < n THEN block[b] ELSE ZeroBlock]
    /\ mounted' = FALSE
    /\ num_blocks' = 0 /\ num_inodes' = 0 /\ free_bitmap' = {}
    /\ pc' = "prompt"
    /\ w' = Idle
    /\ UNCHANGED <<super, inodes>>

Command ==
    \/ Format \/ Mount \/ MountAborts \/ Create \/ DebugAborts \/ UseBeforeMount
    \/ \E i \in Named : \/ Remove(i) \/ RemoveAborts(i) \/ CopyOutStops(i)
                        \/ \E file \in HostFiles : CopyIn(i, file)

Next ==
    \/ Command
    \/ CopyInStep
    \/ FormatClear
    \/ FormatDone
    \/ Stop
    \/ \E n \in Sizes : Open(n)

Spec == Init /\ [][Next]_vars

\* The shell runs as long as nobody stops it: a command that was given goes on.
FairSpec == Spec /\ WF_vars(CopyInStep) /\ WF_vars(FormatClear \/ FormatDone)

-----------------------------------------------------------------------------
(* Properties *)

\* Whatever words the files hold, and even where file data is taken for block
\* numbers: block 0 is never handed out, so format alone writes the superblock
\* (every use of a pointer tests for 0), and what an inode itself points to is a
\* block number of some disk.  The words of a block, and so what remove frees,
\* may lead anywhere else, the inode table included.
TypeOK ==
    /\ super \in {NoSuper} \cup {SuperBlock(n) : n \in Sizes}
    /\ inodes \in [Inumber -> Inode]
    /\ block \in [Blocks -> Block]
    /\ nblocks \in Sizes
    /\ mounted \in BOOLEAN
    /\ num_blocks \in {0} \cup Sizes
    /\ num_inodes \in {0, INODES_PER_BLOCK * InodeBlocks}
    /\ free_bitmap \subseteq 1 .. num_blocks - 1
    /\ pc \in {"prompt", "format", "copyin", "loop", "save_inode", "save_indirect",
               "returned", "aborted", "undefined", "overwritten", "stopped"}
    /\ w \in Locals
    /\ opens \in Nat \ {0}

\* The places of an inode that hold a pointer: direct, those of its indirect
\* block, and last the pointer to the indirect block itself.
Slots == 0 .. MaxFileBlocks

Pointer(i, s) ==
    CASE s < POINTERS_PER_INODE -> inodes[i].direct[s]
      [] s = MaxFileBlocks -> inodes[i].indirect
      [] OTHER -> IF inodes[i].indirect \in Blocks \ {0}
                  THEN block[inodes[i].indirect][s - POINTERS_PER_INODE] ELSE 0

Pointers == {Pointer(i, s) : i \in Inumber, s \in Slots} \ {0}

\* No block belongs to two files, or to one file twice, or is both a data block
\* and an indirect block: allocate_free_block, remove and mount's scan agree on
\* what is in use, whatever the order of the commands.
NoCrossLink ==
    \A i, j \in Inumber : \A s, t \in Slots :
        (<<i, s>> # <<j, t>> /\ Pointer(i, s) # 0) => Pointer(i, s) # Pointer(j, t)

\* While mounted, the bitmap never calls a block free that an inode points to,
\* so allocate_free_block cannot hand out a block that holds a file's data.
PointedNotFree == mounted => Pointers \cap free_bitmap = {}

\* At the prompt every block is free or reachable from the inode table: a
\* command that finished leaks no block.
NoLeak ==
    (mounted /\ pc = "prompt") =>
        InodeBlocks + 1 .. num_blocks - 1 \subseteq free_bitmap \cup Pointers

\* Every block under the size of a file that the inode itself points to is
\* there, and the indirect block is there when the size reaches behind them:
\* holes are confined to the indirect part, whatever was cut off or died, also
\* when allocate_free_block zeroes a block of the inode table that remove took
\* for a freed one.  It is so up to a write of words over the table.
SizeBacked ==
    \A i \in Inumber :
        /\ \A p \in 0 .. POINTERS_PER_INODE - 1 :
              p < FileBlocks(inodes[i].size) => inodes[i].direct[p] # 0
        /\ FileBlocks(inodes[i].size) > POINTERS_PER_INODE => inodes[i].indirect # 0

\* A copyin that was started comes back to the prompt, unless the shell ends:
\* the write loop allocates, writes or breaks, and a short write ends copyin.
CopyInEnds == pc = "copyin" ~> pc \in {"prompt", "aborted", "stopped"}
=============================================================================
