--------------------------- MODULE SimpleFS_proofs ---------------------------
(***************************************************************************)
(* Proofs about the file system, for disks and files of any size, any       *)
(* commands and any number of times the shell is killed and started again:  *)
(* types and sizes (SInv), which blocks belong to which file (FInv), and    *)
(* what the files hold (RInv), from which follows that the file system      *)
(* implements FileStore.  FInv and RInv hold up to the second start on any  *)
(* disk, and with CInv from one start to the next on a disk with room.      *)
(***************************************************************************)
EXTENDS SimpleFSStore, SequenceTheorems, FiniteSetTheorems, TLAPS

\* The numbers the constants stand for.
LEMMA Numbers ==
    /\ INODES_PER_BLOCK \in Nat \ {0} /\ POINTERS_PER_INODE \in Nat \ {0}
    /\ POINTERS_PER_BLOCK \in Nat \ {0} /\ BLOCK_SIZE \in Nat \ {0}
    /\ InodeBlocks \in Nat /\ MaxBlocks \in Nat \ {0} /\ CHUNK \in Nat \ {0}
    /\ INODES_PER_BLOCK * InodeBlocks \in Nat /\ MAX_FILE_SIZE \in Nat
    /\ MaxFileBlocks = POINTERS_PER_INODE + POINTERS_PER_BLOCK
<1>1. POINTERS_PER_INODE \in Nat /\ POINTERS_PER_BLOCK \in Nat
      /\ INODES_PER_BLOCK \in Nat /\ InodeBlocks \in Nat
  BY ConstantsAssumption
<1>2. POINTERS_PER_INODE * POINTERS_PER_BLOCK \in Nat
      /\ INODES_PER_BLOCK * InodeBlocks \in Nat
  BY <1>1
<1>3. MAX_FILE_SIZE \in Nat
  BY <1>1, <1>2 DEF MAX_FILE_SIZE, BLOCK_SIZE
<1> QED
  BY <1>2, <1>3, ConstantsAssumption DEF BLOCK_SIZE, MaxFileBlocks

\* The superblock of a disk that the shell may be started with.
LEMMA Formatted ==
    ASSUME NEW n \in Sizes
    PROVE  /\ n \in Nat /\ InodeBlocks < n /\ n =< MaxBlocks
           /\ SuperBlock(n).blocks = n /\ SuperBlock(n).magic
           /\ SuperBlock(n).inodeBlocks = InodeBlocks
           /\ SuperBlock(n).inodes = INODES_PER_BLOCK * InodeBlocks
  BY ConstantsAssumption DEF SuperBlock

LEMMA BlockNumbers ==
    0 \in Blocks /\ Blocks \subseteq Nat /\ \A x \in Blocks : x < MaxBlocks
  BY Numbers DEF Blocks

LEMMA DataNumbers ==
    {0} \cup Data \subseteq Word
  BY ConstantsAssumption DEF Word

LEMMA Blank ==
    /\ NoInode \in Inode /\ ZeroBlock \in Block /\ Idle \in Locals
    /\ NoInode.size = 0 /\ ~NoInode.valid
<1>1. NoInode \in Inode /\ NoInode.size = 0 /\ ~NoInode.valid
  BY Numbers, BlockNumbers DEF NoInode, Inode
<1>2. ZeroBlock \in Block
  BY DEF ZeroBlock, Block, Word
<1> QED
  BY <1>1, <1>2 DEF Idle, Locals

-----------------------------------------------------------------------------
(* Types *)

\* Where a copyin is: it asks for no more than is left of the host file, and
\* write for no more than fits in a file.
Progress ==
    /\ pc = "copyin" => w.offset =< w.len /\ w.written = 0
    /\ InWrite => /\ w.inum \in Inumber
                  /\ w.written =< w.length
                  /\ w.offset + w.length =< w.len
                  /\ w.offset + w.length =< MAX_FILE_SIZE

TInv == TypeOK /\ Progress

LEMMA AbortTypes ==
    ASSUME TInv, Abort \/ OverwriteInodes  PROVE TInv'
  BY Blank DEF TInv, TypeOK, Abort, OverwriteInodes, Progress, InWrite, disk, memory

LEMMA ClearTypes ==
    ASSUME TInv, NEW b, ClearBlock(b)
    PROVE  inodes' \in [Inumber -> Inode] /\ block' \in [Blocks -> Block]
  BY Blank DEF TInv, TypeOK, ClearBlock

LEMMA InodeNumbers ==
    ASSUME NEW ino \in Inode
    PROVE  /\ 4 * ino.size \in Nat /\ ino.indirect \in Nat
           /\ \A d \in 0 .. POINTERS_PER_INODE - 1 : ino.direct[d] \in Nat
<1>1. ino.size \in Nat /\ ino.indirect \in Blocks
      /\ \A d \in 0 .. POINTERS_PER_INODE - 1 : ino.direct[d] \in Blocks
  BY Numbers DEF Inode
<1>2. \A x \in Blocks : x \in Nat
  BY BlockNumbers
<1>3. 4 * ino.size \in Nat
  BY <1>1
<1> QED  BY <1>1, <1>2, <1>3

\* A block read as pointers is words, also when it is one of the inode table.
LEMMA WordTypes ==
    ASSUME TInv, NEW b \in Blocks \ {0}
    PROVE  Words(b) \in Block
<1> USE DEF TInv, TypeOK
<1>1. CASE ~(b =< InodeBlocks)
  BY <1>1 DEF Words
<1>2. CASE b =< InodeBlocks
  <2> DEFINE k == INODE_WORDS  n == INODES_PER_BLOCK
  <2>1. k \in Nat /\ k = POINTERS_PER_INODE + 3 /\ k > 0 /\ n \in Nat \ {0}
    BY Numbers DEF INODE_WORDS
  <2>2. SUFFICES ASSUME NEW p \in 0 .. POINTERS_PER_BLOCK - 1  PROVE InodeWord(b, p) \in Nat
    BY <1>2 DEF Words, Block, Word
  <2> DEFINE q == p \div k  f == p % k  i == (b - 1) * n + q
  <2>3. q \in Nat /\ f \in 0 .. k - 1 /\ k * q =< p
    <3> HIDE DEF k
    <3> QED  BY <2>1, Numbers
  <2>4. q < n
    <3>1. p < n * k
      BY InodeBlockAssumption, <2>1, Numbers
    <3>2. ASSUME ~(q < n)  PROVE FALSE
      <4>1. k * n =< k * q
        <5> HIDE DEF k, n, q
        <5>1. PICK z \in Nat : q = n + z
          <6>1. q - n \in Nat /\ q = n + (q - n)
            BY <2>1, <2>3, <3>2
          <6> QED  BY <6>1
        <5>2. k * q = k * n + k * z /\ k * z \in Nat /\ k * n \in Nat
          BY <2>1, <5>1
        <5> QED  BY <5>2
      <4>2. k * n = n * k /\ k * n \in Nat
        <5> HIDE DEF k, n
        <5> QED  BY <2>1
      <4>3. k * q \in Nat /\ p \in Nat
        <5> HIDE DEF k, q
        <5> QED  BY <2>1, <2>3, Numbers
      <4> HIDE DEF k, n, q
      <4> QED  BY <2>3, <3>1, <4>1, <4>2, <4>3
    <3> QED  BY <3>2
  <2>5. i \in Inumber
    <3> HIDE DEF n, q
    <3>1. b \in Nat /\ b > 0 /\ InodeBlocks \in Nat
      BY BlockNumbers, Numbers
    <3>2. PICK z \in Nat : InodeBlocks = b + z
      <4>1. InodeBlocks - b \in Nat /\ InodeBlocks = b + (InodeBlocks - b)
        BY <1>2, <3>1
      <4> QED  BY <4>1
    <3>3. n * InodeBlocks = (b - 1) * n + n + n * z /\ n * z \in Nat /\ (b - 1) * n \in Nat
      BY <2>1, <3>1, <3>2
    <3>4. (b - 1) * n + q \in Nat /\ (b - 1) * n + q < n * InodeBlocks
      BY <2>1, <2>3, <2>4, <3>3
    <3>5. n * InodeBlocks = INODES_PER_BLOCK * InodeBlocks /\ n * InodeBlocks \in Nat
      BY Numbers DEF n
    <3> QED  BY <3>4, <3>5 DEF Inumber
  <2>6. inodes[i] \in Inode
    <3> HIDE DEF i
    <3> QED  BY <2>5
  <2>8. f # 0 /\ f # 1 /\ f # k - 1 => f - 2 \in 0 .. POINTERS_PER_INODE - 1
    <3> HIDE DEF f
    <3> QED  BY <2>1, <2>3, Numbers
  <2>9. InodeWord(b, p) = CASE f = 0 -> IF inodes[i].valid THEN 1 ELSE 0
                            [] f = 1 -> 4 * inodes[i].size
                            [] f = k - 1 -> inodes[i].indirect
                            [] OTHER -> inodes[i].direct[f - 2]
    BY DEF InodeWord
  <2> HIDE DEF i, f, k
  <2> QED  BY <2>6, <2>8, <2>9, InodeNumbers
<1> QED  BY <1>1, <1>2

LEMMA FormatTypes ==
    ASSUME TInv, Format \/ FormatClear \/ FormatDone  PROVE TInv'
<1> USE DEF TInv, TypeOK, disk, memory, Progress, InWrite
<1>1. CASE Format
  <2>1. [Idle EXCEPT !.block_num = 1] \in Locals
    BY Blank DEF Locals
  <2> QED  BY <1>1, <2>1 DEF Format
<1>2. CASE FormatClear
  <2>1. [w EXCEPT !.block_num = @ + 1] \in Locals
    BY DEF Locals
  <2>2. inodes' \in [Inumber -> Inode]
    BY <1>2, ClearTypes DEF FormatClear
  <2>3. block' \in [Blocks -> Block]
    BY <1>2, ClearTypes DEF FormatClear
  <2> QED  BY <1>2, <2>1, <2>2, <2>3 DEF FormatClear
<1>3. CASE FormatDone
  BY <1>3, Blank DEF FormatDone
<1> QED  BY <1>1, <1>2, <1>3

LEMMA MountTypes ==
    ASSUME TInv, Mount  PROVE TInv'
<1> USE DEF TInv, TypeOK, disk, memory
<1> DEFINE scanned == UNION {Scanned(i) : i \in Inumber}
<1>1. PICK n \in Sizes : super = SuperBlock(n)
  BY DEF Mount, MountChecks, NoSuper
<1>2. \/ /\ num_blocks' = n /\ num_inodes' = INODES_PER_BLOCK * InodeBlocks
         /\ free_bitmap' = (InodeBlocks + 1 .. n - 1) \ scanned
         /\ mounted' = TRUE /\ pc' = pc
      \/ pc' = "undefined" /\ UNCHANGED memory
  BY <1>1, Formatted DEF Mount
<1>3. UNCHANGED <<super, inodes, block, nblocks, w, opens>>
  BY DEF Mount
<1> HIDE DEF scanned
<1>4. num_blocks' \in {0} \cup Sizes /\ num_inodes' \in {0, INODES_PER_BLOCK * InodeBlocks}
      /\ free_bitmap' \subseteq 1 .. num_blocks' - 1
      /\ mounted' \in BOOLEAN /\ pc' \in {pc, "undefined"}
  <2>1. CASE pc' = "undefined" /\ UNCHANGED memory
    BY <2>1
  <2>2. CASE pc' # "undefined" \/ ~UNCHANGED memory
    <3>1. InodeBlocks + 1 .. n - 1 \subseteq 1 .. n - 1
      BY Formatted, Numbers
    <3> QED  BY <1>2, <2>2, <3>1
  <2> QED  BY <2>1, <2>2
<1>5. pc = "prompt"
  BY DEF Mount
<1>6. TypeOK'
  BY <1>3, <1>4, <1>5
<1>7. Progress'
  BY <1>3, <1>4, <1>5 DEF Progress, InWrite
<1> QED  BY <1>6, <1>7

LEMMA ReleasedTypes ==
    ASSUME TInv, NEW i \in Inumber, Released(i) \subseteq 0 .. num_blocks - 1
    PROVE  Released(i) \subseteq 1 .. num_blocks - 1
<1>1. num_blocks \in Nat
  BY Formatted, Numbers DEF TInv, TypeOK
<1>2. 0 \notin Released(i)
  BY DEF Released
<1> QED  BY <1>1, <1>2

LEMMA TableTypes ==
    ASSUME TInv, Create \/ \E i \in Named : Remove(i)  PROVE TInv'
<1> USE DEF TInv, TypeOK, disk, memory
<1>1. CASE Create
  <2>1. [NoInode EXCEPT !.valid = TRUE] \in Inode
    BY Blank DEF Inode
  <2>2. inodes' \in [Inumber -> Inode]
    BY <1>1, <2>1 DEF Create
  <2> QED  BY <1>1, <2>2 DEF Create, Progress, InWrite
<1>2. ASSUME NEW i \in Named, Remove(i)  PROVE TInv'
  <2>1. i \in Inumber
    BY <1>2, Numbers DEF Remove, Inumber, Named
  <2>2. free_bitmap' \subseteq 1 .. num_blocks - 1
    BY <1>2, <2>1, ReleasedTypes DEF Remove
  <2>3. inodes' \in [Inumber -> Inode]
    BY <1>2, <2>1, Blank DEF Remove
  <2>4. pc' \in {"prompt", "undefined"}
        /\ UNCHANGED <<super, block, nblocks, mounted, num_blocks, num_inodes, w, opens>>
    BY <1>2 DEF Remove
  <2> QED  BY <2>2, <2>3, <2>4 DEF Progress, InWrite
<1> QED  BY <1>1, <1>2

LEMMA ProcessTypes ==
    ASSUME TInv,
           \/ MountAborts \/ DebugAborts \/ UseBeforeMount \/ Stop
           \/ \E i \in Named : RemoveAborts(i) \/ CopyOutStops(i)
           \/ \E n \in Sizes : Open(n)
    PROVE  TInv'
<1> USE DEF TInv, TypeOK, disk, memory
<1>1. CASE MountAborts \/ DebugAborts \/ \E i \in Named : RemoveAborts(i)
  BY <1>1, AbortTypes DEF MountAborts, DebugAborts, RemoveAborts
<1>2. CASE UseBeforeMount \/ Stop \/ \E i \in Named : CopyOutStops(i)
  BY <1>2, Blank DEF UseBeforeMount, Stop, CopyOutStops, Progress, InWrite
<1>3. ASSUME NEW n \in Sizes, Open(n)  PROVE TInv'
  <2>1. block' \in [Blocks -> Block]
    BY <1>3, Blank DEF Open
  <2>2. opens' \in Nat \ {0} /\ pc' = "prompt" /\ w' = Idle
    BY <1>3 DEF Open
  <2>3. Progress'
    BY <2>2 DEF Progress, InWrite
  <2> QED  BY <1>3, <2>1, <2>2, <2>3, Blank, Numbers DEF Open
<1> QED  BY <1>1, <1>2, <1>3

\* write is called with an inode of the table and an offset inside its file.
LEMMA WriteStarts ==
    ASSUME TInv, Write
    PROVE  /\ w.inum \in Inumber /\ inodes[w.inum] \in Inode
           /\ w.offset =< inodes[w.inum].size /\ inodes[w.inum].size \in Nat
<1>1. TypeOK /\ w.inum \in Nat /\ w.offset \in Nat
  BY DEF TInv, TypeOK, Locals
<1>2. w.inum < num_inodes /\ ~(w.offset > inodes[w.inum].size)
  BY DEF Write, WriteRefused
<1>3. num_inodes = 0 \/ num_inodes = INODES_PER_BLOCK * InodeBlocks
  BY <1>1 DEF TypeOK
<1>4. w.inum \in Inumber
  BY <1>1, <1>2, <1>3, Numbers DEF Inumber
<1>5. inodes[w.inum] \in Inode
  BY <1>1, <1>4 DEF TypeOK
<1>6. inodes[w.inum].size \in Nat
  BY <1>5, Numbers DEF Inode
<1> QED  BY <1>1, <1>2, <1>4, <1>5, <1>6

LEMMA CopyInTypes ==
    ASSUME TInv,
           \/ \E i \in Named : \E file \in HostFiles : CopyIn(i, file)
           \/ CopyInDone \/ Write \/ Returned
    PROVE  TInv'
<1> USE DEF TInv, TypeOK, disk, memory
<1>1. ASSUME NEW i \in Named, NEW file \in HostFiles, CopyIn(i, file)  PROVE TInv'
  <2>1. i \in Nat /\ file.len \in Nat /\ file.word \in Data
    BY Numbers, ConstantsAssumption DEF Named, Inumber
  <2>2. w' = [Idle EXCEPT !.inum = i, !.len = file.len, !.word = file.word]
    BY <1>1 DEF CopyIn
  <2>3. w' \in Locals
    BY <2>1, <2>2, Blank DEF Locals
  <2>4. w'.offset = 0 /\ w'.written = 0 /\ w'.len = file.len
    BY <2>2 DEF Idle
  <2>5. pc' = "copyin" /\ UNCHANGED <<disk, memory, nblocks, opens>>
    BY <1>1 DEF CopyIn
  <2>6. Progress'
    BY <2>1, <2>4, <2>5 DEF Progress, InWrite
  <2> QED  BY <2>3, <2>5, <2>6
<1>2. CASE CopyInDone
  BY <1>2, Blank DEF CopyInDone, Progress, InWrite
<1>3. CASE Write
  <2> USE DEF Write
  <2>1. w.offset =< w.len /\ w.offset \in Nat /\ w.len \in Nat /\ w.inum \in Nat
    BY <1>3 DEF Progress, Locals
  <2>2. Chunk \in Nat /\ Chunk =< w.len - w.offset
    BY <2>1, Numbers DEF Chunk, Smaller
  <2>3. w.inum \in Inumber /\ w.offset =< inodes[w.inum].size
    BY <1>3, WriteStarts
  <2>4. inodes[w.inum] \in Inode /\ inodes[w.inum].size \in 0 .. MAX_FILE_SIZE
    BY <2>3 DEF Inode
  <2>5. /\ Smaller(Chunk, MAX_FILE_SIZE - w.offset) \in Nat
        /\ Smaller(Chunk, MAX_FILE_SIZE - w.offset) =< w.len - w.offset
        /\ Smaller(Chunk, MAX_FILE_SIZE - w.offset) =< MAX_FILE_SIZE - w.offset
    BY <2>1, <2>2, <2>3, <2>4, Numbers DEF Smaller
  <2>6. w.offset \div BLOCK_SIZE \in Nat
    BY <2>1, Numbers
  <2>7. w' \in Locals
    BY <1>3, <2>4, <2>5, <2>6 DEF Locals
  <2>8. /\ w'.offset = w.offset /\ w'.len = w.len /\ w'.inum = w.inum /\ w'.written = 0
        /\ w'.length = Smaller(Chunk, MAX_FILE_SIZE - w.offset)
    BY <1>3 DEF Progress, Locals
  <2>9. pc' = "loop" /\ UNCHANGED <<disk, memory, nblocks, opens>>
    BY <1>3
  <2>10. Progress'
    <3>1. w'.inum \in Inumber /\ 0 =< w'.length
      BY <2>3, <2>5, <2>8
    <3>2. w.offset + w'.length =< w.len /\ w.offset + w'.length =< MAX_FILE_SIZE
      BY <2>1, <2>5, <2>8, Numbers
    <3> QED  BY <2>8, <2>9, <3>1, <3>2 DEF Progress, InWrite
  <2> QED  BY <2>7, <2>9, <2>10
<1>4. CASE Returned
  <2>1. UNCHANGED <<disk, memory, nblocks, opens>>
    BY <1>4 DEF Returned
  <2>2. CASE w.written # Chunk
    BY <1>4, <2>1, <2>2, Blank DEF Returned, Progress, InWrite
  <2>3. CASE w.written = Chunk
    <3>1. w.offset + w.written =< w.len /\ w.offset + w.written \in Nat
      BY <1>4 DEF Returned, Progress, InWrite, Locals
    <3>2. w' = [Idle EXCEPT !.inum = w.inum, !.len = w.len, !.word = w.word,
                            !.offset = w.offset + w.written]
      BY <1>4, <2>3 DEF Returned
    <3>3. w' \in Locals
      BY <3>1, <3>2, Blank DEF Locals
    <3>4. w'.offset = w.offset + w.written /\ w'.len = w.len /\ w'.written = 0
      BY <3>2 DEF Idle
    <3>5. pc' = "copyin"
      BY <1>4, <2>3 DEF Returned
    <3>6. Progress'
      BY <3>1, <3>4, <3>5 DEF Progress, InWrite
    <3> QED  BY <2>1, <3>3, <3>5, <3>6
  <2> QED  BY <2>2, <2>3
<1> QED  BY <1>1, <1>2, <1>3, <1>4

\* The loop of write moves on inside a file and inside what it was asked for.
LEMMA LoopTypes ==
    ASSUME TInv, InWrite, w' \in Locals, pc' \in {"loop", "save_inode", "save_indirect", "returned"},
           w'.inum = w.inum, w'.len = w.len, w'.offset = w.offset,
           w'.length = w.length, w'.written \in Nat, w'.written =< w.length
    PROVE  Progress'
  BY DEF TInv, Progress, InWrite

\* the block that allocate_free_block hands out
LEMMA AllocatedTypes ==
    ASSUME TInv, NEW b \in free_bitmap, AllocateFreeBlock(b)
    PROVE  /\ b \in 1 .. num_blocks - 1 /\ b \in Blocks \ {0}
           /\ free_bitmap' \subseteq 1 .. num_blocks - 1
           /\ inodes' \in [Inumber -> Inode] /\ block' \in [Blocks -> Block]
<1> USE DEF TInv, TypeOK
<1>1. num_blocks \in Nat /\ num_blocks =< MaxBlocks
  BY Formatted, Numbers
<1>2. b \in 1 .. num_blocks - 1
  OBVIOUS
<1>3. b \in Blocks \ {0}
  BY <1>1, <1>2, Numbers DEF Blocks
<1>4. inodes' \in [Inumber -> Inode] /\ block' \in [Blocks -> Block]
  BY ClearTypes DEF AllocateFreeBlock
<1> QED  BY <1>2, <1>3, <1>4 DEF AllocateFreeBlock

LEMMA AllocateTypes ==
    ASSUME TInv, AllocateDirect \/ AllocateIndirect \/ AllocateData  PROVE TInv'
<1> TypeOK /\ Progress /\ w \in Locals
  BY DEF TInv, TypeOK
<1>0. pc = "loop" /\ pc' = "loop" /\ InWrite
      /\ UNCHANGED <<super, nblocks, mounted, num_blocks, num_inodes, opens>>
  BY DEF AllocateDirect, AllocateIndirect, AllocateData, InLoop, InWrite
<1>1. PICK b \in free_bitmap :
         /\ AllocateFreeBlock(b)
         /\ \/ IsDirect /\ w' = [w EXCEPT !.inode.direct[w.block_num] = b, !.modified_inode = TRUE]
            \/ w' = [w EXCEPT !.inode.indirect = b, !.modified_indirect = TRUE]
            \/ w' = [w EXCEPT !.indirect[w.block_num - POINTERS_PER_INODE] = b,
                              !.modified_indirect = TRUE]
  BY DEF AllocateDirect, AllocateIndirect, AllocateData
<1>2. b \in Blocks /\ b \in Word
  BY <1>1, AllocatedTypes, BlockNumbers DEF Word
<1>3. /\ w' \in Locals
      /\ w'.inum = w.inum /\ w'.len = w.len /\ w'.offset = w.offset
      /\ w'.length = w.length /\ w'.written = w.written
  <2>1. CASE IsDirect /\ w' = [w EXCEPT !.inode.direct[w.block_num] = b, !.modified_inode = TRUE]
    <3>1. [w.inode.direct EXCEPT ![w.block_num] = b] \in [0 .. POINTERS_PER_INODE - 1 -> Blocks]
      BY <1>2 DEF Locals, Inode
    <3>2. [w.inode EXCEPT !.direct[w.block_num] = b] \in Inode
      BY <3>1 DEF Locals, Inode
    <3> QED  BY <2>1, <3>2 DEF Locals
  <2>2. CASE w' = [w EXCEPT !.inode.indirect = b, !.modified_indirect = TRUE]
    <3>1. [w.inode EXCEPT !.indirect = b] \in Inode
      BY <1>2 DEF Locals, Inode
    <3> QED  BY <2>2, <3>1 DEF Locals
  <2>3. CASE w' = [w EXCEPT !.indirect[w.block_num - POINTERS_PER_INODE] = b,
                            !.modified_indirect = TRUE]
    <3>1. [w.indirect EXCEPT ![w.block_num - POINTERS_PER_INODE] = b] \in Block
      BY <1>2 DEF Locals, Block
    <3> QED  BY <2>3, <3>1 DEF Locals
  <2> QED  BY <1>1, <2>1, <2>2, <2>3
<1>4. w.written \in Nat /\ w.written =< w.length
  BY <1>0 DEF Progress, Locals
<1>5. Progress'
  BY <1>0, <1>3, <1>4, LoopTypes
<1>6. /\ free_bitmap' \subseteq 1 .. num_blocks - 1
      /\ inodes' \in [Inumber -> Inode] /\ block' \in [Blocks -> Block]
  BY <1>1, AllocatedTypes
<1> QED  BY <1>0, <1>3, <1>5, <1>6 DEF TInv, TypeOK

LEMMA WriteDataTypes ==
    ASSUME TInv, WriteData  PROVE TInv'
<1> USE DEF TInv, TypeOK
<1>0. pc = "loop" /\ pc' = "loop" /\ InWrite /\ w.written < w.length /\ w \in Locals
      /\ UNCHANGED <<memory, super, inodes, nblocks, opens>>
  BY DEF WriteData, InLoop, InWrite
<1>1. w.offset % BLOCK_SIZE \in 0 .. BLOCK_SIZE - 1
  BY <1>0, Numbers DEF Locals
<1>2. write_offset \in 0 .. BLOCK_SIZE - 1
  BY <1>1, Numbers DEF write_offset
<1>3. /\ write_length \in Nat /\ write_length =< w.length - w.written
      /\ w.written \in Nat /\ w.length \in Nat /\ w.block_num \in Nat
  BY <1>0, <1>2, Numbers DEF write_length, Smaller, Locals
<1>4. w' = [w EXCEPT !.written = @ + write_length, !.block_num = @ + 1]
  BY DEF WriteData
<1>5. /\ w' \in Locals
      /\ w'.inum = w.inum /\ w'.len = w.len /\ w'.offset = w.offset
      /\ w'.length = w.length /\ w'.written = w.written + write_length
  <2>1. w.written + write_length \in Nat /\ w.block_num + 1 \in Nat
    BY <1>3
  <2> QED  BY <1>0, <1>4, <2>1 DEF Locals
<1>6. Progress'
  BY <1>0, <1>3, <1>5, LoopTypes
<1>7. block' \in [Blocks -> Block]
  <2>1. w.word \in Word
    BY <1>0, DataNumbers DEF Locals, Word
  <2>2. \A b \in Blocks :
           [p \in 0 .. POINTERS_PER_BLOCK - 1 |->
               IF p \in write_offset .. write_offset + write_length - 1
               THEN w.word ELSE block[b][p]] \in Block
    BY <2>1 DEF Block
  <2> QED  BY <2>2 DEF WriteData
<1> QED  BY <1>0, <1>5, <1>6, <1>7 DEF memory

LEMMA SaveTypes ==
    ASSUME TInv, ReadIndirect \/ ReturnEarly \/ UpdateSize \/ SaveInode \/ SaveIndirect
    PROVE  TInv'
<1> USE DEF TInv, TypeOK, disk, memory
<1>1. CASE ReadIndirect
  <2>0. pc = "loop" /\ pc' = "loop" /\ InWrite /\ w \in Locals
    BY <1>1 DEF ReadIndirect, InLoop, InWrite
  <2>1. Words(w.inode.indirect) \in Block
    BY <1>1, <2>0, WordTypes DEF ReadIndirect, Locals, Inode
  <2>2. w' \in Locals /\ UNCHANGED <<w.inum, w.len, w.offset, w.length, w.written>>
    BY <1>1, <2>0, <2>1 DEF ReadIndirect, Locals
  <2>3. Progress'
    BY <2>0, <2>2 DEF Progress, InWrite
  <2> QED  BY <1>1, <2>0, <2>2, <2>3 DEF ReadIndirect
<1>2. CASE ReturnEarly
  BY <1>2 DEF ReturnEarly, InLoop, Progress, InWrite
<1>3. CASE UpdateSize
  <2>0. pc = "loop" /\ pc' = "save_inode" /\ w \in Locals
    BY <1>3 DEF UpdateSize
  <2>1. w.written + w.offset \in 0 .. MAX_FILE_SIZE /\ w.inode \in Inode
    BY <2>0, Numbers DEF Progress, InWrite, Locals
  <2>2. Larger(w.inode.size, w.written + w.offset) \in 0 .. MAX_FILE_SIZE
    BY <2>1 DEF Larger, Inode
  <2>3. [w.inode EXCEPT !.size = Larger(w.inode.size, w.written + w.offset)] \in Inode
    BY <2>1, <2>2 DEF Inode
  <2>4. w' \in Locals /\ UNCHANGED <<w.inum, w.len, w.offset, w.length, w.written>>
    BY <1>3, <2>0, <2>3 DEF UpdateSize, Locals
  <2> QED  BY <1>3, <2>0, <2>4 DEF UpdateSize, Progress, InWrite
<1>4. CASE SaveInode
  <2>1. inodes' \in [Inumber -> Inode]
    BY <1>4 DEF SaveInode, Locals
  <2> QED  BY <1>4, <2>1 DEF SaveInode, Progress, InWrite
<1>5. CASE SaveIndirect
  <2>1. block' \in [Blocks -> Block]
    BY <1>5 DEF SaveIndirect, Locals
  <2> QED  BY <1>5, <2>1 DEF SaveIndirect, Progress, InWrite
<1> QED  BY <1>1, <1>2, <1>3, <1>4, <1>5

LEMMA TypesInductive == Spec => []TInv
<1>1. Init => TInv
  <2> SUFFICES ASSUME Init  PROVE TInv
    OBVIOUS
  <2>1. block \in [Blocks -> Block] /\ inodes \in [Inumber -> Inode]
    BY Blank DEF Init
  <2>2. pc = "prompt" /\ w \in Locals /\ free_bitmap = {} /\ opens = 1
    BY Blank DEF Init
  <2>3. Progress
    BY <2>2 DEF Progress, InWrite
  <2>4. super = NoSuper /\ nblocks \in Sizes /\ mounted = FALSE
        /\ num_blocks = 0 /\ num_inodes = 0
    BY DEF Init
  <2>5. opens \in Nat \ {0} /\ free_bitmap \subseteq 1 .. num_blocks - 1
    BY <2>2
  <2> QED  BY <2>1, <2>2, <2>3, <2>4, <2>5 DEF TInv, TypeOK
<1>2. TInv /\ [Next]_vars => TInv'
  <2> SUFFICES ASSUME TInv, [Next]_vars  PROVE TInv'
    OBVIOUS
  <2>1. CASE Command
    BY <2>1, FormatTypes, MountTypes, TableTypes, ProcessTypes, CopyInTypes DEF Command
  <2>2. CASE CopyInStep
    <3>1. CASE WriteAborts \/ OverwriteInodes
      BY <3>1, AbortTypes DEF WriteAborts
    <3> QED
      BY <2>2, <3>1, CopyInTypes, AllocateTypes, WriteDataTypes, SaveTypes DEF CopyInStep
  <2>3. CASE FormatClear \/ FormatDone
    BY <2>3, FormatTypes
  <2>4. CASE Stop \/ \E n \in Sizes : Open(n)
    BY <2>4, ProcessTypes
  <2>5. CASE UNCHANGED vars
    BY <2>5 DEF vars, TInv, TypeOK, Progress, InWrite
  <2> QED  BY <2>1, <2>2, <2>3, <2>4, <2>5 DEF Next
<1> QED  BY <1>1, <1>2, PTL DEF Spec

\* Whatever the user types, wherever the shell is killed and whatever words the
\* files hold, no inode is ever larger than MAX_FILE_SIZE, what an inode itself
\* points to is a block number of some disk, and the bitmap never calls the
\* superblock free, so only format writes it.  A block of the inode table it may
\* call free: the words of a block are whatever was written there.
THEOREM TypeCorrect == Spec => []TypeOK
<1>1. TInv => TypeOK
  BY DEF TInv
<1> QED  BY <1>1, TypesInductive, PTL

-----------------------------------------------------------------------------
(* The size of a file and its pointers *)

\* FileBlocks(size) is the least number of blocks that hold size words.
LEMMA BlocksOf ==
    ASSUME NEW x \in Nat
    PROVE  /\ FileBlocks(x) \in Nat /\ FileBlocks(0) = 0
           /\ \A k \in Nat : x =< k * BLOCK_SIZE => FileBlocks(x) =< k
           /\ \A y \in Nat : y =< x => y \div BLOCK_SIZE =< FileBlocks(x)
<1> DEFINE b == BLOCK_SIZE
<1>1. b \in Nat \ {0}
  BY Numbers
<1> HIDE DEF b
<1>2. (x + b - 1) \div b \in Nat /\ (0 + b - 1) \div b = 0
  BY <1>1
<1>3. ASSUME NEW k \in Nat, x =< k * b  PROVE (x + b - 1) \div b =< k
  BY <1>1, <1>3
<1>4. ASSUME NEW y \in Nat, y =< x  PROVE y \div b =< (x + b - 1) \div b
  BY <1>1, <1>4
<1> QED  BY <1>2, <1>3, <1>4 DEF b, FileBlocks

\* The words written after m more, when m of them fit in the current block.
LEMMA BlockEnd ==
    ASSUME NEW x \in Nat, NEW m \in Nat
    PROVE  /\ m =< BLOCK_SIZE - (x % BLOCK_SIZE) => x + m =< (x \div BLOCK_SIZE + 1) * BLOCK_SIZE
           /\ \A k \in Nat : x =< k * BLOCK_SIZE /\ m =< BLOCK_SIZE
                                => x + m =< (k + 1) * BLOCK_SIZE
<1> DEFINE b == BLOCK_SIZE
<1>1. b \in Nat \ {0}
  BY Numbers
<1> HIDE DEF b
<1>2. ASSUME m =< b - (x % b)  PROVE x + m =< (x \div b + 1) * b
  <2> DEFINE q == x \div b   r == x % b
  <2>1. q \in Nat /\ r \in 0 .. b - 1 /\ x = b * q + r
    BY <1>1
  <2>2. m =< b - r
    BY <1>2
  <2> HIDE DEF q, r
  <2>3. x + m =< (q + 1) * b
    BY <1>1, <2>1, <2>2
  <2> QED  BY <2>3 DEF q
<1>3. ASSUME NEW k \in Nat, x =< k * b, m =< b  PROVE x + m =< (k + 1) * b
  BY <1>1, <1>3
<1> QED  BY <1>2, <1>3 DEF b

\* The pointers of an inode that its size covers are there.
Backed(ino) ==
    /\ \A p \in 0 .. POINTERS_PER_INODE - 1 :
          p < FileBlocks(ino.size) => ino.direct[p] # 0
    /\ FileBlocks(ino.size) > POINTERS_PER_INODE => ino.indirect # 0

\* So are those of the blocks that write has passed,
PassedBacked ==
    /\ \A p \in 0 .. POINTERS_PER_INODE - 1 : p < w.block_num => w.inode.direct[p] # 0
    /\ w.block_num > POINTERS_PER_INODE => w.inode.indirect # 0

\* and it has passed all that hold what it wrote, or has not begun.
PassedAll ==
    \/ w.written = 0 /\ w.block_num = w.offset \div BLOCK_SIZE /\ w.offset =< w.inode.size
    \/ w.offset + w.written =< w.block_num * BLOCK_SIZE

WriteBacked ==
    /\ pc \in {"loop", "save_inode"} => Backed(w.inode)
    /\ pc = "loop" => PassedBacked /\ PassedAll

SInv == TInv /\ SizeBacked /\ WriteBacked

LEMMA BackedIsAll ==
    SizeBacked <=> \A i \in Inumber : Backed(inodes[i])
  BY DEF SizeBacked, Backed

LEMMA BlankBacked ==
    Backed(NoInode) /\ Backed([NoInode EXCEPT !.valid = TRUE])
<1>1. FileBlocks(0) = 0
  BY BlocksOf
<1>2. NoInode.size = 0 /\ [NoInode EXCEPT !.valid = TRUE].size = 0
  BY DEF NoInode
<1> QED  BY <1>1, <1>2, Numbers DEF Backed

\* The steps that change neither an inode nor what write has in hand.
LEMMA AsideBacked ==
    ASSUME SInv, UNCHANGED inodes,
           pc' \notin {"loop", "save_inode"} \/ UNCHANGED <<pc, w>>
    PROVE  SizeBacked' /\ WriteBacked'
<1>1. SizeBacked'
  BY DEF SInv, SizeBacked, FileBlocks
<1>2. WriteBacked'
  BY DEF SInv, WriteBacked, Backed, PassedBacked, PassedAll, FileBlocks
<1> QED  BY <1>1, <1>2

\* So do the steps that blank inodes.
LEMMA BlankedBacked ==
    ASSUME SInv,
           \A i \in Inumber : inodes'[i] \in {inodes[i], NoInode, [NoInode EXCEPT !.valid = TRUE]}
    PROVE  SizeBacked'
<1>1. \A i \in Inumber : Backed(inodes[i])
  BY BackedIsAll DEF SInv
<1>2. \A i \in Inumber : Backed(inodes'[i])
  BY <1>1, BlankBacked
<1> QED  BY <1>2 DEF SizeBacked, Backed, FileBlocks

LEMMA ClearBlanks ==
    ASSUME TInv, NEW b, ClearBlock(b), NEW i \in Inumber
    PROVE  inodes'[i] \in {inodes[i], NoInode}
  BY DEF ClearBlock, TInv, TypeOK

LEMMA TableBacked ==
    ASSUME SInv, FormatClear \/ Create \/ \E i \in Named : Remove(i)
    PROVE  SizeBacked' /\ WriteBacked'
<1>1. pc' \notin {"loop", "save_inode"}
  BY DEF FormatClear, Create, Remove
<1>2. \A i \in Inumber : inodes'[i] \in {inodes[i], NoInode, [NoInode EXCEPT !.valid = TRUE]}
  BY ClearBlanks DEF FormatClear, Create, Remove, SInv, TInv, TypeOK
<1>3. SizeBacked'
  BY <1>2, BlankedBacked
<1>4. WriteBacked'
  BY <1>1 DEF WriteBacked
<1> QED  BY <1>3, <1>4

LEMMA BeginBacked ==
    ASSUME SInv, Write  PROVE SizeBacked' /\ WriteBacked'
<1> USE DEF Write
<1>1. TypeOK /\ w \in Locals /\ w.offset \in Nat
  BY DEF SInv, TInv, TypeOK, Locals
<1>2. w.inum \in Inumber /\ w.offset =< inodes[w.inum].size /\ inodes[w.inum] \in Inode
  BY WriteStarts DEF SInv
<1>3. /\ w'.inode = inodes[w.inum] /\ w'.written = 0 /\ w'.offset = w.offset
      /\ w'.block_num = w.offset \div BLOCK_SIZE
  BY <1>1 DEF SInv, TInv, Progress, Locals
<1>4. Backed(w'.inode)
  BY <1>2, <1>3, BackedIsAll DEF SInv
<1>5. inodes[w.inum].size \in Nat
  BY <1>2, Numbers DEF Inode
<1>6. w'.block_num =< FileBlocks(w'.inode.size) /\ w'.block_num \in Nat
      /\ FileBlocks(w'.inode.size) \in Nat
  <2>1. w.offset \div BLOCK_SIZE \in Nat
    BY <1>1, Numbers
  <2> QED  BY <1>1, <1>2, <1>3, <1>5, <2>1, BlocksOf
<1>7. PassedBacked' /\ PassedAll'
  <2>1. PassedBacked'
    BY <1>4, <1>6, Numbers DEF PassedBacked, Backed
  <2>2. PassedAll'
    BY <1>2, <1>3 DEF PassedAll, BLOCK_SIZE
  <2> QED  BY <2>1, <2>2
<1>8. WriteBacked'
  BY <1>4, <1>7 DEF WriteBacked, Backed, FileBlocks
<1>9. SizeBacked'
  BY DEF SInv, SizeBacked, FileBlocks, disk
<1> QED  BY <1>8, <1>9

\* A pointer that write had is still there, and size and progress stay.
LEMMA GrowBacked ==
    ASSUME SInv, pc = "loop", pc' = "loop",
           \A i \in Inumber : inodes'[i] \in {inodes[i], NoInode},
           UNCHANGED <<w.written, w.block_num, w.offset, w.inode.size>>,
           w.inode.indirect # 0 => w'.inode.indirect # 0,
           \A p \in 0 .. POINTERS_PER_INODE - 1 :
              w.inode.direct[p] # 0 => w'.inode.direct[p] # 0
    PROVE  SizeBacked' /\ WriteBacked'
<1>1. Backed(w.inode) /\ PassedBacked /\ PassedAll
  BY DEF SInv, WriteBacked
<1>2. Backed(w'.inode)
  BY <1>1 DEF Backed
<1>3. PassedBacked'
  BY <1>1 DEF PassedBacked
<1>4. PassedAll'
  BY <1>1 DEF PassedAll, BLOCK_SIZE
<1>5. WriteBacked'
  BY <1>2, <1>3, <1>4 DEF WriteBacked, Backed, FileBlocks
<1>6. SizeBacked'
  BY BlankedBacked
<1> QED  BY <1>5, <1>6

LEMMA LoopBacked ==
    ASSUME SInv, AllocateDirect \/ AllocateIndirect \/ AllocateData \/ ReadIndirect
    PROVE  SizeBacked' /\ WriteBacked'
<1>1. w \in Locals /\ TypeOK
  BY DEF SInv, TInv, TypeOK
<1>2. pc = "loop" /\ pc' = "loop"
      /\ \A i \in Inumber : inodes'[i] \in {inodes[i], NoInode}
  <2>1. pc = "loop" /\ pc' = "loop"
    BY DEF AllocateDirect, AllocateIndirect, AllocateData, ReadIndirect, InLoop
  <2>2. CASE ReadIndirect
    BY <2>1, <2>2 DEF ReadIndirect, disk
  <2>3. CASE AllocateDirect \/ AllocateIndirect \/ AllocateData
    <3>1. PICK b \in free_bitmap : ClearBlock(b)
      BY <2>3 DEF AllocateDirect, AllocateIndirect, AllocateData, AllocateFreeBlock
    <3> QED  BY <2>1, <3>1, ClearBlanks DEF SInv
  <2> QED  BY <2>2, <2>3
<1>3. CASE ReadIndirect
  <2>1. UNCHANGED <<w.written, w.block_num, w.offset, w.inode>>
    BY <1>1, <1>3 DEF ReadIndirect, Locals
  <2> QED  BY <1>2, <2>1, GrowBacked
<1>4. CASE AllocateDirect \/ AllocateIndirect \/ AllocateData
  <2>1. PICK b \in free_bitmap :
           \/ w' = [w EXCEPT !.inode.direct[w.block_num] = b, !.modified_inode = TRUE]
           \/ w' = [w EXCEPT !.inode.indirect = b, !.modified_indirect = TRUE]
           \/ w' = [w EXCEPT !.indirect[w.block_num - POINTERS_PER_INODE] = b,
                              !.modified_indirect = TRUE]
    BY <1>4 DEF AllocateDirect, AllocateIndirect, AllocateData
  <2>2. b # 0
    <3>1. num_blocks \in Nat
      BY <1>1, Formatted, Numbers DEF TypeOK
    <3> QED  BY <1>1, <3>1 DEF TypeOK
  <2>3. UNCHANGED <<w.written, w.block_num, w.offset>>
    BY <1>1, <2>1 DEF Locals
  <2>4. /\ UNCHANGED w.inode.size
        /\ w.inode.indirect # 0 => w'.inode.indirect # 0
        /\ \A p \in 0 .. POINTERS_PER_INODE - 1 :
              w.inode.direct[p] # 0 => w'.inode.direct[p] # 0
    <3>1. w.inode \in Inode
      BY <1>1 DEF Locals
    <3>2. w'.inode = [w.inode EXCEPT !.direct[w.block_num] = b]
          \/ w'.inode = [w.inode EXCEPT !.indirect = b] \/ w'.inode = w.inode
      BY <1>1, <2>1 DEF Locals
    <3> QED  BY <2>2, <3>1, <3>2 DEF Inode
  <2> QED  BY <1>2, <2>3, <2>4, GrowBacked
<1> QED  BY <1>3, <1>4

LEMMA WriteDataBacked ==
    ASSUME SInv, WriteData  PROVE SizeBacked' /\ WriteBacked'
<1>1. w \in Locals /\ TypeOK
  BY DEF SInv, TInv, TypeOK
<1>2. pc = "loop" /\ pc' = "loop" /\ UNCHANGED inodes /\ PointerKnown /\ block_to_write # 0
      /\ w.written < w.length
  <2>1. block_to_write # 0
    BY Numbers DEF WriteData
  <2> QED  BY <2>1 DEF WriteData, InLoop, disk
<1>3. Backed(w.inode) /\ PassedBacked /\ PassedAll
  BY <1>2 DEF SInv, WriteBacked
<1>4. w.offset % BLOCK_SIZE \in 0 .. BLOCK_SIZE - 1 /\ w.offset \in Nat
  BY <1>1, Numbers DEF Locals
<1>5. /\ write_offset \in 0 .. BLOCK_SIZE - 1
      /\ w.written = 0 => write_offset = w.offset % BLOCK_SIZE
  BY <1>4, Numbers DEF write_offset
<1>6. write_length \in Nat /\ write_length =< BLOCK_SIZE - write_offset
  BY <1>1, <1>2, <1>5, Numbers DEF write_length, Smaller, Locals
<1>7. /\ w'.inode = w.inode /\ w'.offset = w.offset
      /\ w'.written = w.written + write_length /\ w'.block_num = w.block_num + 1
  BY <1>1 DEF WriteData, Locals
<1>8. PassedAll'
  <2>1. w.written \in Nat /\ w.block_num \in Nat
    BY <1>1 DEF Locals
  <2>2. CASE w.written = 0 /\ w.block_num = w.offset \div BLOCK_SIZE
    <3>1. w.offset + write_length =< (w.offset \div BLOCK_SIZE + 1) * BLOCK_SIZE
      <4>1. write_length =< BLOCK_SIZE - (w.offset % BLOCK_SIZE)
        BY <1>5, <1>6, <2>2
      <4> QED  BY <1>4, <1>6, <4>1, BlockEnd
    <3>2. w'.offset + w'.written = w.offset + write_length
      BY <1>4, <1>6, <1>7, <2>2
    <3> QED  BY <1>7, <2>2, <3>1, <3>2 DEF PassedAll, BLOCK_SIZE
  <2>3. CASE w.offset + w.written =< w.block_num * BLOCK_SIZE
    <3>1. w.offset + w.written \in Nat /\ write_length =< BLOCK_SIZE
      BY <1>4, <1>5, <1>6, <2>1, Numbers
    <3>2. w.offset + w.written + write_length =< (w.block_num + 1) * BLOCK_SIZE
      BY <1>6, <2>1, <2>3, <3>1, BlockEnd
    <3>3. w'.offset + w'.written = w.offset + w.written + write_length
      BY <1>4, <1>6, <1>7, <2>1
    <3> QED  BY <1>7, <3>2, <3>3 DEF PassedAll, BLOCK_SIZE
  <2> QED  BY <1>3, <2>2, <2>3 DEF PassedAll
<1>9. PassedBacked'
  <2>1. w.block_num \in Nat
    BY <1>1 DEF Locals
  <2>2. CASE IsDirect
    <3>1. w.inode.direct[w.block_num] # 0 /\ w.block_num < POINTERS_PER_INODE
      BY <1>2, <2>2 DEF block_to_write, IsDirect
    <3> QED  BY <1>3, <1>7, <2>1, <3>1, Numbers DEF PassedBacked
  <2>3. CASE ~IsDirect
    <3>1. w.inode.indirect # 0 /\ ~(w.block_num < POINTERS_PER_INODE)
      BY <1>2, <2>3 DEF PointerKnown, IsDirect
    <3> QED  BY <1>3, <1>7, <2>1, <3>1, Numbers DEF PassedBacked
  <2> QED  BY <2>2, <2>3
<1>10. WriteBacked'
  BY <1>2, <1>3, <1>7, <1>8, <1>9 DEF WriteBacked, Backed, FileBlocks
<1>11. SizeBacked'
  BY <1>2 DEF SInv, SizeBacked, FileBlocks
<1> QED  BY <1>10, <1>11

LEMMA UpdateBacked ==
    ASSUME SInv, UpdateSize  PROVE SizeBacked' /\ WriteBacked'
<1>1. w \in Locals /\ TypeOK /\ w.inode \in Inode
  BY DEF SInv, TInv, TypeOK, Locals
<1>2. pc = "loop" /\ pc' = "save_inode" /\ UNCHANGED inodes
  BY DEF UpdateSize, disk
<1>3. Backed(w.inode) /\ PassedBacked /\ PassedAll
  BY <1>2 DEF SInv, WriteBacked
<1> DEFINE size == w.inode.size
           new == Larger(w.inode.size, w.written + w.offset)
<1>4. size \in Nat /\ w.written \in Nat /\ w.offset \in Nat /\ w.block_num \in Nat
  BY <1>1, Numbers DEF Locals, Inode
<1>5. w'.inode = [w.inode EXCEPT !.size = new]
  BY <1>1 DEF UpdateSize, Locals
<1>6. /\ w'.inode.size = new /\ w'.inode.direct = w.inode.direct
      /\ w'.inode.indirect = w.inode.indirect
  BY <1>1, <1>5 DEF Inode
<1>7. new = size \/ (new = w.offset + w.written /\ w.offset + w.written =< w.block_num * BLOCK_SIZE)
  <2>1. CASE w.written = 0 /\ w.offset =< size
    BY <1>4, <2>1 DEF Larger
  <2>2. CASE w.offset + w.written =< w.block_num * BLOCK_SIZE
    BY <1>4, <2>2 DEF Larger
  <2> QED  BY <1>3, <2>1, <2>2 DEF PassedAll
<1>8. FileBlocks(new) = FileBlocks(size) \/ FileBlocks(new) =< w.block_num
  <2>1. ASSUME new = w.offset + w.written, w.offset + w.written =< w.block_num * BLOCK_SIZE
        PROVE  FileBlocks(new) =< w.block_num
    BY <1>4, <2>1, BlocksOf
  <2> QED  BY <1>7, <2>1
<1>9. FileBlocks(new) \in Nat
  BY <1>4, BlocksOf DEF Larger
<1> HIDE DEF new, size
<1>10. Backed(w'.inode)
  <2>1. CASE FileBlocks(new) = FileBlocks(size)
    BY <1>3, <1>6, <2>1 DEF Backed, size
  <2>2. CASE FileBlocks(new) =< w.block_num
    BY <1>3, <1>4, <1>6, <1>9, <2>2, Numbers DEF Backed, PassedBacked
  <2> QED  BY <1>8, <2>1, <2>2
<1>11. WriteBacked'
  BY <1>2, <1>10 DEF WriteBacked, Backed, FileBlocks
<1>12. SizeBacked'
  BY <1>2 DEF SInv, SizeBacked, FileBlocks
<1> QED  BY <1>11, <1>12

LEMMA SaveBacked ==
    ASSUME SInv, SaveInode  PROVE SizeBacked' /\ WriteBacked'
<1>1. TypeOK /\ pc = "save_inode" /\ pc' = "save_indirect"
  BY DEF SInv, TInv, SaveInode
<1>2. \A i \in Inumber : inodes'[i] \in {inodes[i], w.inode}
  BY <1>1 DEF SaveInode, TypeOK
<1>3. \A i \in Inumber : Backed(inodes'[i])
  BY <1>1, <1>2, BackedIsAll DEF SInv, WriteBacked
<1>4. SizeBacked'
  BY <1>3 DEF SizeBacked, Backed, FileBlocks
<1>5. WriteBacked'
  BY <1>1 DEF WriteBacked
<1> QED  BY <1>4, <1>5

LEMMA BackedInductive == Spec => []SInv
<1>1. Init => SizeBacked /\ WriteBacked
  <2> SUFFICES ASSUME Init  PROVE SizeBacked /\ WriteBacked
    OBVIOUS
  <2>1. \A i \in Inumber : Backed(inodes[i])
    BY BlankBacked DEF Init
  <2> QED  BY <2>1, BackedIsAll DEF Init, WriteBacked
<1>2. SInv /\ [Next]_vars => SizeBacked' /\ WriteBacked'
  <2> SUFFICES ASSUME SInv, [Next]_vars  PROVE SizeBacked' /\ WriteBacked'
    OBVIOUS
  <2> USE DEF disk
  <2>1. CASE Command
    <3>1. CASE Create \/ \E i \in Named : Remove(i)
      BY <3>1, TableBacked
    <3>2. CASE Format \/ Mount \/ MountAborts \/ DebugAborts \/ UseBeforeMount
      BY <3>2, AsideBacked DEF Format, Mount, MountAborts, DebugAborts, UseBeforeMount, Abort
    <3>3. ASSUME NEW i \in Named,
                 RemoveAborts(i) \/ CopyOutStops(i) \/ \E file \in HostFiles : CopyIn(i, file)
          PROVE  SizeBacked' /\ WriteBacked'
      BY <3>3, AsideBacked DEF RemoveAborts, CopyOutStops, CopyIn, Abort
    <3> QED  BY <2>1, <3>1, <3>2, <3>3 DEF Command
  <2>2. CASE CopyInStep
    <3>1. CASE \/ WriteAborts \/ ReturnEarly \/ SaveIndirect \/ OverwriteInodes
               \/ Returned \/ CopyInDone
      BY <3>1, AsideBacked DEF WriteAborts, ReturnEarly, SaveIndirect, OverwriteInodes,
                               Returned, CopyInDone, Abort
    <3> QED
      BY <2>2, <3>1, BeginBacked, LoopBacked, WriteDataBacked, UpdateBacked, SaveBacked
      DEF CopyInStep
  <2>3. CASE FormatClear
    BY <2>3, TableBacked
  <2>4. CASE FormatDone \/ Stop \/ \E n \in Sizes : Open(n)
    BY <2>4, AsideBacked DEF FormatDone, Stop, Open
  <2>5. CASE UNCHANGED vars
    BY <2>5, AsideBacked DEF vars
  <2> QED  BY <2>1, <2>2, <2>3, <2>4, <2>5 DEF Next
<1> QED  BY <1>1, <1>2, TypesInductive, PTL DEF Spec, SInv

\* Whatever is cut off or killed, no file is larger than what its inode points
\* to: write raises the size only over blocks that it passed, and saves the
\* pointers with it.  This is so for every image the program can leave, also
\* when file data was taken for block numbers and inodes were zeroed for it, up
\* to a write of words over the inode table.
THEOREM SizesAreBacked == Spec => []SizeBacked
<1>1. SInv => SizeBacked
  BY DEF SInv
<1> QED  BY <1>1, BackedInductive, PTL

-----------------------------------------------------------------------------
(* Who holds which block, before the shell is started a second time         *)

\* The pointer at place s of an inode whose indirect block is table.
At(ino, table, s) ==
    CASE s < POINTERS_PER_INODE -> ino.direct[s]
      [] s = MaxFileBlocks -> ino.indirect
      [] OTHER -> table[s - POINTERS_PER_INODE]

Table(ino, blk) ==
    IF ino.indirect \in Blocks \ {0} THEN blk[ino.indirect] ELSE ZeroBlock

\* While write is at work, the file is what write has in hand.
Writing == pc \in {"loop", "save_inode", "save_indirect"}

InodeOf(i) == IF Writing /\ w.inum = i THEN w.inode ELSE inodes[i]

TableOf(i) ==
    IF Writing /\ w.inum = i /\ w.read_indirect THEN w.indirect ELSE Table(InodeOf(i), block)

Held(i, s) == At(InodeOf(i), TableOf(i), s)

\* No block is held twice,
HeldOnce ==
    \A i, j \in Inumber : \A s, t \in Slots :
        (Held(i, s) # 0 /\ Held(i, s) = Held(j, t)) => i = j /\ s = t

\* every one that is held is a data block and not free while there is a bitmap,
\* which knows of data blocks only,
HeldInUse ==
    mounted =>
        /\ free_bitmap \subseteq InodeBlocks + 1 .. num_blocks - 1
        /\ \A i \in Inumber : \A s \in Slots :
              Held(i, s) # 0 => Held(i, s) \in (InodeBlocks + 1 .. num_blocks - 1) \ free_bitmap

\* and the disk points to nothing else.
DiskHeld ==
    \A i \in Inumber : \A s \in Slots : Pointer(i, s) = 0 \/ Pointer(i, s) = Held(i, s)

\* What write has of the indirect block is on the disk or comes from the bitmap.
InHand ==
    /\ pc = "copyin" => ~w.read_indirect /\ w.indirect = ZeroBlock
    /\ Writing /\ ~w.read_indirect => w.indirect = ZeroBlock
    /\ Writing /\ w.read_indirect =>
          /\ w.inode.indirect \in Blocks \ {0}
          /\ \A q \in 0 .. POINTERS_PER_BLOCK - 1 :
                \/ block[w.inode.indirect][q] = 0
                \/ block[w.inode.indirect][q] = w.indirect[q]

\* Before the mount nothing is written, and format clears the inodes before the
\* other blocks.
Fresh ==
    /\ ~mounted => pc # "copyin" /\ ~InWrite
    /\ pc = "format" =>
          /\ ~mounted
          /\ \A i \in Inumber : 1 + i \div INODES_PER_BLOCK < w.block_num => inodes[i] = NoInode

FInv == HeldOnce /\ HeldInUse /\ DiskHeld /\ InHand /\ Fresh

\* The disk has no files before it is mounted for the first time.
NoFilesYet == ~mounted => inodes = [i \in Inumber |-> NoInode]

\* Before the mount, the scan would find all that the disk points to.
Recorded ==
    ~mounted /\ super.magic => \A i \in Inumber : \A s \in Slots :
        Pointer(i, s) # 0 => /\ Pointer(i, s) \in InodeBlocks + 1 .. super.blocks - 1
                             /\ Pointer(i, s) \in Scanned(i)

OInv == TInv /\ (opens = 1 => FInv /\ NoFilesYet)

\* What a step of write does to them: nothing,
KeepsHeld == \A i \in Inumber : \A s \in Slots : Held(i, s)' = Held(i, s)

KeepsPointers == \A i \in Inumber : \A s \in Slots : Pointer(i, s)' = Pointer(i, s)

\* or it takes the block b for an empty place t of file n.
Takes(n, t, b) ==
    /\ AllocateFreeBlock(b)
    /\ Held(n, t) = 0 /\ Held(n, t)' = b
    /\ \A i \in Inumber : \A s \in Slots : <<i, s>> # <<n, t>> => Held(i, s)' = Held(i, s)
    /\ KeepsPointers

\* The places that the loop of write has come to.
AtHand(t) == t = w.block_num \/ (t = MaxFileBlocks /\ ~IsDirect)

\* The three kinds of places, and what At finds there.
LEMMA Places ==
    ASSUME NEW s \in Slots
    PROVE  \/ s \in 0 .. POINTERS_PER_INODE - 1
           \/ s = MaxFileBlocks
           \/ /\ s - POINTERS_PER_INODE \in 0 .. POINTERS_PER_BLOCK - 1
              /\ s # MaxFileBlocks /\ ~(s < POINTERS_PER_INODE)
  BY Numbers DEF Slots

LEMMA AtPlaces ==
    ASSUME NEW ino, NEW table, NEW s \in Slots
    PROVE  /\ s \in 0 .. POINTERS_PER_INODE - 1 => At(ino, table, s) = ino.direct[s]
           /\ s = MaxFileBlocks => At(ino, table, s) = ino.indirect
           /\ s # MaxFileBlocks /\ ~(s < POINTERS_PER_INODE)
                 => At(ino, table, s) = table[s - POINTERS_PER_INODE]
<1>1. CASE s < POINTERS_PER_INODE
  <2>1. s # MaxFileBlocks
    BY <1>1, Numbers
  <2> QED  BY <1>1, <2>1 DEF At
<1>2. CASE ~(s < POINTERS_PER_INODE)
  <2>1. s \notin 0 .. POINTERS_PER_INODE - 1
    BY <1>2, Numbers DEF Slots
  <2> QED  BY <1>2, <2>1 DEF At
<1> QED  BY <1>1, <1>2

\* Two files whose inodes and tables agree, or have a 0 where they do not.
LEMMA AtFewer ==
    ASSUME NEW ino, NEW table, NEW ino2, NEW table2,
           \A p \in 0 .. POINTERS_PER_INODE - 1 :
              ino2.direct[p] = 0 \/ ino2.direct[p] = ino.direct[p],
           ino2.indirect = 0 \/ ino2.indirect = ino.indirect,
           \A q \in 0 .. POINTERS_PER_BLOCK - 1 : table2[q] = 0 \/ table2[q] = table[q],
           NEW s \in Slots
    PROVE  At(ino2, table2, s) = 0 \/ At(ino2, table2, s) = At(ino, table, s)
<1>1. CASE s \in 0 .. POINTERS_PER_INODE - 1
  BY <1>1, AtPlaces
<1>2. CASE s = MaxFileBlocks
  BY <1>2, AtPlaces
<1>3. CASE s - POINTERS_PER_INODE \in 0 .. POINTERS_PER_BLOCK - 1
           /\ s # MaxFileBlocks /\ ~(s < POINTERS_PER_INODE)
  BY <1>3, AtPlaces
<1> QED  BY <1>1, <1>2, <1>3, Places

\* The same for one inode with two tables.
LEMMA TableFewer ==
    ASSUME NEW ino, NEW table, NEW table2,
           \A q \in 0 .. POINTERS_PER_BLOCK - 1 : table2[q] = 0 \/ table2[q] = table[q],
           NEW s \in Slots
    PROVE  At(ino, table2, s) = 0 \/ At(ino, table2, s) = At(ino, table, s)
  BY AtFewer

LEMMA AtSame ==
    ASSUME NEW ino, NEW table, NEW ino2, NEW table2,
           ino2.direct = ino.direct, ino2.indirect = ino.indirect,
           \A q \in 0 .. POINTERS_PER_BLOCK - 1 : table2[q] = table[q],
           NEW s \in Slots
    PROVE  At(ino2, table2, s) = At(ino, table, s)
<1>1. CASE s \in 0 .. POINTERS_PER_INODE - 1
  BY <1>1, AtPlaces
<1>2. CASE s = MaxFileBlocks
  BY <1>2, AtPlaces
<1>3. CASE s - POINTERS_PER_INODE \in 0 .. POINTERS_PER_BLOCK - 1
           /\ s # MaxFileBlocks /\ ~(s < POINTERS_PER_INODE)
  BY <1>3, AtPlaces
<1> QED  BY <1>1, <1>2, <1>3, Places

LEMMA NothingHeld ==
    ASSUME NEW blk, NEW ino \in {NoInode, [NoInode EXCEPT !.valid = TRUE]}, NEW s \in Slots
    PROVE  At(ino, Table(ino, blk), s) = 0
<1>1. ino.indirect = 0 /\ ino.direct = [p \in 0 .. POINTERS_PER_INODE - 1 |-> 0]
  <2>1. NoInode.indirect = 0 /\ NoInode.direct = [p \in 0 .. POINTERS_PER_INODE - 1 |-> 0]
    BY DEF NoInode
  <2>2. [NoInode EXCEPT !.valid = TRUE].indirect = NoInode.indirect
        /\ [NoInode EXCEPT !.valid = TRUE].direct = NoInode.direct
    BY DEF NoInode
  <2> QED  BY <2>1, <2>2
<1>2. Table(ino, blk) = ZeroBlock
  BY <1>1 DEF Table
<1>3. CASE s \in 0 .. POINTERS_PER_INODE - 1
  <2>1. At(ino, Table(ino, blk), s) = ino.direct[s]
    BY <1>3, AtPlaces
  <2>2. ino.direct[s] = 0
    BY <1>1, <1>3
  <2> QED  BY <2>1, <2>2
<1>4. CASE s = MaxFileBlocks
  BY <1>1, <1>4, AtPlaces
<1>5. CASE s - POINTERS_PER_INODE \in 0 .. POINTERS_PER_BLOCK - 1
           /\ s # MaxFileBlocks /\ ~(s < POINTERS_PER_INODE)
  <2>1. At(ino, Table(ino, blk), s) = Table(ino, blk)[s - POINTERS_PER_INODE]
    BY <1>5, AtPlaces
  <2>2. ZeroBlock[s - POINTERS_PER_INODE] = 0
    BY <1>5 DEF ZeroBlock
  <2> QED  BY <1>2, <2>1, <2>2
<1> QED  BY <1>3, <1>4, <1>5, Places

\* Pointer is At of what is on the disk.
LEMMA OnDisk ==
    ASSUME NEW i \in Inumber, NEW s \in Slots
    PROVE  /\ Pointer(i, s) = At(inodes[i], Table(inodes[i], block), s)
           /\ Pointer(i, s)' = At(inodes'[i], Table(inodes'[i], block'), s)
<1>1. CASE s \in 0 .. POINTERS_PER_INODE - 1
  <2>1. s < POINTERS_PER_INODE /\ s # MaxFileBlocks
    BY <1>1, Numbers
  <2> QED  BY <2>1 DEF Pointer, At, MaxFileBlocks
<1>2. CASE s = MaxFileBlocks
  <2>1. ~(s < POINTERS_PER_INODE)
    BY <1>2, Numbers
  <2> QED  BY <1>2, <2>1 DEF Pointer, At, MaxFileBlocks
<1>3. CASE s - POINTERS_PER_INODE \in 0 .. POINTERS_PER_BLOCK - 1
           /\ s # MaxFileBlocks /\ ~(s < POINTERS_PER_INODE)
  <2>1. ZeroBlock[s - POINTERS_PER_INODE] = 0
    BY <1>3 DEF ZeroBlock
  <2> QED  BY <1>3, <2>1 DEF Pointer, At, Table, MaxFileBlocks, Blocks
<1> QED  BY <1>1, <1>2, <1>3, Places

\* A step after which the files hold no more than before, and no block was freed
\* or taken.
LEMMA HeldFewer ==
    ASSUME FInv, UNCHANGED <<free_bitmap, num_blocks, mounted>>,
           \A i \in Inumber : \A s \in Slots : Held(i, s)' = 0 \/ Held(i, s)' = Held(i, s)
    PROVE  HeldOnce' /\ HeldInUse'
<1>1. HeldOnce'
  BY DEF FInv, HeldOnce
<1>2. HeldInUse'
  BY DEF FInv, HeldInUse
<1> QED  BY <1>1, <1>2

\* A step in which write takes a free block into an empty place.
LEMMA HeldMore ==
    ASSUME FInv, TypeOK, mounted, NEW b \in free_bitmap, NEW n \in Inumber, NEW t \in Slots,
           free_bitmap' = free_bitmap \ {b}, UNCHANGED num_blocks,
           Held(n, t) = 0, Held(n, t)' = b,
           \A i \in Inumber : \A s \in Slots :
              <<i, s>> # <<n, t>> => Held(i, s)' = Held(i, s)
    PROVE  HeldOnce' /\ HeldInUse'
<1>1. \A i \in Inumber : \A s \in Slots : Held(i, s) # b
  BY Formatted, Numbers DEF FInv, HeldInUse, TypeOK
<1>2. \A i \in Inumber : \A s \in Slots :
         Held(i, s)' = IF i = n /\ s = t THEN b ELSE Held(i, s)
  OBVIOUS
<1>3. HeldOnce'
  BY <1>1, <1>2 DEF FInv, HeldOnce
<1>4. HeldInUse'
  BY <1>2 DEF FInv, HeldInUse, TypeOK
<1> QED  BY <1>3, <1>4

LEMMA NotWriting ==
    ASSUME NEW i \in Inumber, NEW s \in Slots
    PROVE  ~Writing => Held(i, s) = Pointer(i, s)
  BY OnDisk DEF Held, InodeOf, TableOf

LEMMA NotWritingNext ==
    ASSUME NEW i \in Inumber, NEW s \in Slots
    PROVE  ~Writing' => Held(i, s)' = Pointer(i, s)'
  BY OnDisk DEF Held, InodeOf, TableOf

\* The pointers of the disk that are not 0, and a block that none of them is.
LEMMA TableKept ==
    ASSUME NEW ino, NEW c, c # ino.indirect \/ ino.indirect = 0,
           \A d \in Blocks : d # c => block'[d] = block[d]
    PROVE  Table(ino, block') = Table(ino, block)
  BY DEF Table

\* The inode block that an inode is in.
LEMMA InodeBlockOf ==
    ASSUME NEW i \in Inumber
    PROVE  i \div INODES_PER_BLOCK \in Nat /\ 1 + i \div INODES_PER_BLOCK =< InodeBlocks
<1> DEFINE p == INODES_PER_BLOCK  q == i \div p
<1>1. p \in Nat \ {0} /\ InodeBlocks \in Nat /\ i \in Nat /\ i < p * InodeBlocks
  BY Numbers DEF Inumber
<1>2. q \in Nat /\ p * q =< i
  <2> HIDE DEF p
  <2> QED  BY <1>1
<1> HIDE DEF p, q
<1>3. ASSUME InodeBlocks =< q  PROVE FALSE
  <2>1. PICK z \in Nat : q = InodeBlocks + z
    <3>1. q - InodeBlocks \in Nat /\ q = InodeBlocks + (q - InodeBlocks)
      BY <1>1, <1>2, <1>3
    <3> QED  BY <3>1
  <2>2. p * q = p * InodeBlocks + p * z /\ p * z \in Nat /\ p * InodeBlocks \in Nat
    BY <1>1, <2>1
  <2> QED  BY <1>1, <1>2, <2>2
<1>4. 1 + q =< InodeBlocks
  BY <1>1, <1>2, <1>3
<1> QED  BY <1>2, <1>4 DEF p, q

\* Commands that leave the files alone, and the end of a write that saved all.
LEMMA AsideHeld ==
    ASSUME TInv, FInv, ~Writing', UNCHANGED <<inodes, block, free_bitmap, num_blocks, mounted>>,
           pc' = "returned" => pc = "loop" \/ pc = "save_indirect",
           pc' = "copyin" => mounted /\ ~w'.read_indirect /\ w'.indirect = ZeroBlock,
           pc' = "format" => ~mounted /\ w'.block_num = 1
    PROVE  FInv'
<1>1. \A i \in Inumber : \A s \in Slots : Pointer(i, s)' = Pointer(i, s)
  BY OnDisk
<1>2. \A i \in Inumber : \A s \in Slots : Held(i, s)' = Pointer(i, s)
  BY <1>1, NotWritingNext
<1>3. \A i \in Inumber : \A s \in Slots : Held(i, s)' = 0 \/ Held(i, s)' = Held(i, s)
  BY <1>2 DEF FInv, DiskHeld
<1>4. HeldOnce' /\ HeldInUse'
  BY <1>3, HeldFewer
<1>5. DiskHeld'
  BY <1>1, <1>2 DEF DiskHeld
<1>6. InHand'
  BY DEF FInv, InHand, Writing
<1>7. Fresh'
  <2>1. \A i \in Inumber : ~(1 + i \div INODES_PER_BLOCK < 1)
    BY InodeBlockOf
  <2> QED  BY <2>1 DEF FInv, Fresh, InWrite, Writing
<1> QED  BY <1>4, <1>5, <1>6, <1>7 DEF FInv

\* Nobody holds a block when there is no file.
LEMMA NoFilesHeld ==
    ASSUME ~InWrite', pc' # "copyin", ~mounted',
           \A i \in Inumber : inodes'[i] = NoInode,
           inodes' \in [Inumber -> Inode]
    PROVE  FInv'
<1>1. \A i \in Inumber : \A s \in Slots : Pointer(i, s)' = 0
  BY OnDisk, NothingHeld
<1>0. ~Writing'
  BY DEF InWrite, Writing
<1>2. \A i \in Inumber : \A s \in Slots : Held(i, s)' = 0
  BY <1>0, <1>1, NotWritingNext
<1>3. HeldOnce' /\ HeldInUse' /\ DiskHeld'
  BY <1>1, <1>2 DEF HeldOnce, HeldInUse, DiskHeld
<1>4. inodes' = [i \in Inumber |-> NoInode]
  OBVIOUS
<1>5. InHand' /\ Fresh'
  BY <1>0, <1>4 DEF InHand, Fresh, InWrite
<1> QED  BY <1>3, <1>5 DEF FInv

\* The bitmap that mount builds calls no block free that a file holds.
LEMMA MountHeld ==
    ASSUME TInv, FInv, Recorded, Mount  PROVE FInv'
<1>1. /\ ~mounted /\ pc = "prompt" /\ ~Writing
      /\ UNCHANGED <<inodes, block, w>>
  BY DEF Mount, Writing, disk
<1>2. CASE pc' = "undefined" /\ UNCHANGED memory
  BY <1>1, <1>2, AsideHeld DEF memory, Writing
<1>3. CASE ~(pc' = "undefined" /\ UNCHANGED memory)
  <2>1. PICK n \in Sizes : super = SuperBlock(n)
    BY DEF Mount, MountChecks, NoSuper, TInv, TypeOK
  <2>2. /\ pc' = "prompt" /\ mounted' /\ num_blocks' = super.blocks
        /\ free_bitmap' = (InodeBlocks + 1 .. super.blocks - 1)
                             \ UNION {Scanned(i) : i \in Inumber}
    BY <1>1, <1>3, <2>1, Formatted DEF Mount
  <2>3. ASSUME NEW i \in Inumber, NEW s \in Slots
        PROVE  /\ Pointer(i, s)' = Pointer(i, s) /\ Held(i, s) = Pointer(i, s)
               /\ Held(i, s)' = Pointer(i, s)
    <3>1. Pointer(i, s)' = Pointer(i, s)
      BY <1>1, OnDisk
    <3>2. Held(i, s) = Pointer(i, s) /\ Held(i, s)' = Pointer(i, s)'
      BY <1>1, <2>2, NotWriting, NotWritingNext DEF Writing
    <3> QED  BY <3>1, <3>2
  <2>4. HeldOnce' /\ DiskHeld'
    BY <2>3 DEF FInv, HeldOnce, DiskHeld
  <2>5. HeldInUse'
    <3>1. ASSUME NEW i \in Inumber, NEW s \in Slots, Pointer(i, s) # 0
          PROVE  Pointer(i, s) \in (InodeBlocks + 1 .. num_blocks' - 1) \ free_bitmap'
      BY <1>1, <2>2, <3>1 DEF Recorded, Mount, MountChecks
    <3>2. free_bitmap' \subseteq InodeBlocks + 1 .. num_blocks' - 1
      BY <2>2
    <3> QED  BY <2>3, <3>1, <3>2 DEF HeldInUse
  <2>6. InHand' /\ Fresh'
    BY <2>2 DEF InHand, Fresh, InWrite, Writing
  <2> QED  BY <2>4, <2>5, <2>6 DEF FInv
<1> QED  BY <1>2, <1>3

\* format first clears the inodes, and by then nothing points to the other blocks.
LEMMA FormatClearHeld ==
    ASSUME TInv, FInv, FormatClear  PROVE FInv'
<1>1. /\ ~mounted /\ ~mounted' /\ pc = "format" /\ pc' = "format" /\ ~Writing /\ ~Writing'
      /\ UNCHANGED memory /\ w \in Locals /\ w.block_num \in Nat /\ TypeOK
      /\ w'.block_num = w.block_num + 1
  BY DEF FInv, Fresh, FormatClear, Writing, memory, TInv, TypeOK, Locals
<1>2. \A i \in Inumber : inodes'[i] = inodes[i] \/ inodes'[i] = NoInode
  BY <1>1, ClearBlanks DEF FormatClear
<1>3. Fresh'
  <2>1. ASSUME NEW i \in Inumber, 1 + i \div INODES_PER_BLOCK < w.block_num + 1
        PROVE  inodes'[i] = NoInode
    <3>1. CASE 1 + i \div INODES_PER_BLOCK < w.block_num
      BY <1>1, <1>2, <3>1 DEF FInv, Fresh
    <3>2. CASE 1 + i \div INODES_PER_BLOCK = w.block_num
      BY <3>2, InodeBlockOf DEF FormatClear, ClearBlock
    <3> QED  BY <1>1, <2>1, <3>1, <3>2, InodeBlockOf
  <2> QED  BY <1>1, <2>1 DEF Fresh, InWrite
<1>4. CASE w.block_num =< InodeBlocks
  <2>1. block' = block
    BY <1>4 DEF FormatClear, ClearBlock
  <2>2. ASSUME NEW i \in Inumber, NEW s \in Slots
        PROVE  /\ Held(i, s)' = Pointer(i, s)'
               /\ Held(i, s)' = 0 \/ Held(i, s)' = Held(i, s)
    <3>1. Held(i, s)' = Pointer(i, s)' /\ Held(i, s) = Pointer(i, s)
      BY <1>1, NotWriting, NotWritingNext
    <3>2. Pointer(i, s)' = 0 \/ Pointer(i, s)' = Pointer(i, s)
      BY <1>2, <2>1, OnDisk, NothingHeld
    <3> QED  BY <3>1, <3>2
  <2>3. HeldOnce' /\ HeldInUse'
    BY <1>1, <2>2, HeldFewer DEF memory
  <2>4. DiskHeld' /\ InHand'
    BY <1>1, <2>2 DEF DiskHeld, InHand
  <2> QED  BY <1>3, <2>3, <2>4 DEF FInv
<1>5. CASE ~(w.block_num =< InodeBlocks)
  <2>1. \A i \in Inumber : 1 + i \div INODES_PER_BLOCK < w.block_num
    BY <1>1, <1>5, InodeBlockOf, Numbers
  <2>2. \A i \in Inumber : inodes'[i] = NoInode
    BY <1>1, <1>2, <2>1 DEF FInv, Fresh
  <2>3. inodes' \in [Inumber -> Inode]
    BY FormatTypes DEF TInv, TypeOK
  <2>4. ~InWrite' /\ pc' # "copyin"
    BY <1>1 DEF InWrite
  <2> QED  BY <1>1, <2>2, <2>3, <2>4, NoFilesHeld
<1> QED  BY <1>4, <1>5

LEMMA CreateHeld ==
    ASSUME TInv, FInv, Create  PROVE FInv'
<1>1. ~Writing /\ ~Writing' /\ pc' = "prompt" /\ mounted
      /\ UNCHANGED <<memory, block>>
  BY DEF Create, Writing
<1>2. \A i \in Inumber : inodes'[i] \in {inodes[i], [NoInode EXCEPT !.valid = TRUE]}
  BY DEF Create, TInv, TypeOK
<1>3. ASSUME NEW i \in Inumber, NEW s \in Slots
      PROVE  /\ Held(i, s)' = Pointer(i, s)'
             /\ Held(i, s)' = 0 \/ Held(i, s)' = Held(i, s)
  <2>1. Held(i, s)' = Pointer(i, s)' /\ Held(i, s) = Pointer(i, s)
    BY <1>1, NotWriting, NotWritingNext
  <2>2. CASE inodes'[i] = inodes[i]
    <3>1. Pointer(i, s)' = Pointer(i, s)
      BY <1>1, <2>2, OnDisk
    <3> QED  BY <2>1, <3>1
  <2>3. CASE inodes'[i] = [NoInode EXCEPT !.valid = TRUE]
    <3>1. Pointer(i, s)' = 0
      BY <2>3, OnDisk, NothingHeld
    <3> QED  BY <2>1, <3>1
  <2> QED  BY <1>2, <2>1, <2>2, <2>3
<1>4. HeldOnce' /\ HeldInUse'
  BY <1>1, <1>3, HeldFewer DEF memory
<1>5. DiskHeld'
  BY <1>3 DEF DiskHeld
<1>6. InHand' /\ Fresh'
  BY <1>1 DEF InHand, Fresh, InWrite, memory
<1> QED  BY <1>4, <1>5, <1>6 DEF FInv

\* What a file holds is a data block of the disk: its words are what was written
\* to it.
LEMMA HeldBlocks ==
    ASSUME TInv, FInv, mounted \/ Writing,
           NEW i \in Inumber, NEW s \in Slots, Held(i, s) # 0
    PROVE  /\ Held(i, s) \in Blocks \ {0} /\ Held(i, s) \notin free_bitmap
           /\ Held(i, s) > InodeBlocks /\ Words(Held(i, s)) = block[Held(i, s)]
<1>1. Held(i, s) \in (InodeBlocks + 1 .. num_blocks - 1) \ free_bitmap
  BY DEF FInv, HeldInUse, Fresh, InWrite, Writing
<1>2. num_blocks \in Nat /\ num_blocks =< MaxBlocks
  BY Formatted, Numbers DEF TInv, TypeOK
<1>3. Held(i, s) \in Blocks \ {0} /\ Held(i, s) > InodeBlocks /\ ~(Held(i, s) =< InodeBlocks)
  BY <1>1, <1>2, Numbers DEF Blocks
<1> QED  BY <1>1, <1>3 DEF Words

\* So is what allocate_free_block hands out: the inodes stay.
LEMMA AllocatedData ==
    ASSUME TInv, FInv, mounted \/ Writing, NEW b \in free_bitmap, AllocateFreeBlock(b)
    PROVE  /\ b \in Blocks \ {0} /\ b > InodeBlocks
           /\ UNCHANGED inodes /\ block' = [block EXCEPT ![b] = ZeroBlock]
<1>1. b \in InodeBlocks + 1 .. num_blocks - 1
  BY DEF FInv, HeldInUse, Fresh, InWrite, Writing
<1>2. num_blocks \in Nat
  BY Formatted, Numbers DEF TInv, TypeOK
<1>3. b > InodeBlocks /\ ~(b =< InodeBlocks)
  BY <1>1, <1>2, Numbers
<1> QED  BY <1>3, AllocatedTypes DEF AllocateFreeBlock, ClearBlock

\* What remove releases is what the file holds.
LEMMA ReleasesHeld ==
    ASSUME TInv, FInv, mounted, ~Writing, NEW i \in Inumber, NEW x \in Released(i)
    PROVE  x # 0 /\ \E s \in Slots : Held(i, s) = x
<1> USE DEF TInv, TypeOK
<1>1. \A s \in Slots : Held(i, s) = At(inodes[i], Table(inodes[i], block), s)
  BY NotWriting, OnDisk
<1>2. x # 0
  BY DEF Released
<1>3. CASE \E p \in 0 .. POINTERS_PER_INODE - 1 : x = inodes[i].direct[p]
  <2>1. PICK p \in 0 .. POINTERS_PER_INODE - 1 : x = inodes[i].direct[p]
    BY <1>3
  <2>2. p \in Slots
    BY Numbers DEF Slots
  <2>3. Held(i, p) = x
    BY <1>1, <2>1, <2>2, AtPlaces
  <2> QED  BY <1>2, <2>2, <2>3
<1>4. MaxFileBlocks \in Slots /\ Held(i, MaxFileBlocks) = inodes[i].indirect
  <2>1. MaxFileBlocks \in Slots
    BY Numbers DEF Slots
  <2> QED  BY <1>1, <2>1, AtPlaces
<1>5. CASE inodes[i].indirect # 0
           /\ \E p \in 0 .. POINTERS_PER_BLOCK - 1 : x = Words(inodes[i].indirect)[p]
  <2>1. PICK p \in 0 .. POINTERS_PER_BLOCK - 1 : x = Words(inodes[i].indirect)[p]
    BY <1>5
  <2>2. inodes[i].indirect \in Blocks \ {0} /\ Words(inodes[i].indirect) = block[inodes[i].indirect]
    BY <1>4, <1>5, HeldBlocks
  <2>3. Table(inodes[i], block)[p] = x
    BY <2>1, <2>2 DEF Table
  <2>4. PICK s \in Slots : s # MaxFileBlocks /\ ~(s < POINTERS_PER_INODE)
                           /\ s - POINTERS_PER_INODE = p
    <3> DEFINE t == POINTERS_PER_INODE + p
    <3>1. /\ t \in Slots /\ ~(t < POINTERS_PER_INODE)
          /\ t # MaxFileBlocks /\ t - POINTERS_PER_INODE = p
      BY Numbers DEF Slots
    <3> HIDE DEF t
    <3> QED  BY <3>1
  <2>5. Held(i, s) = Table(inodes[i], block)[p]
    BY <1>1, <2>4, AtPlaces
  <2> QED  BY <1>2, <2>3, <2>4, <2>5
<1>6. \/ \E p \in 0 .. POINTERS_PER_INODE - 1 : x = inodes[i].direct[p]
      \/ x = inodes[i].indirect
      \/ inodes[i].indirect # 0
         /\ \E p \in 0 .. POINTERS_PER_BLOCK - 1 : x = Words(inodes[i].indirect)[p]
  BY DEF Released
<1> QED  BY <1>2, <1>3, <1>4, <1>5, <1>6

LEMMA RemoveHeld ==
    ASSUME TInv, FInv, NEW i \in Named, Remove(i)  PROVE FInv'
<1>1. ~Writing /\ ~Writing' /\ pc = "prompt" /\ mounted
      /\ pc' \notin {"copyin", "format", "returned"}
      /\ UNCHANGED <<block, num_blocks, mounted>>
  BY DEF Remove, Writing
<1>2. i \in Inumber
  BY Numbers DEF TInv, TypeOK, Remove, Inumber, Named
<1>3. CASE UNCHANGED <<inodes, free_bitmap>>
  BY <1>1, <1>3, AsideHeld
<1>4. CASE inodes' = [inodes EXCEPT ![i] = NoInode] /\ free_bitmap' = free_bitmap \cup Released(i)
  <2>1. ASSUME NEW j \in Inumber, NEW s \in Slots
        PROVE  /\ Held(j, s)' = Pointer(j, s)'
               /\ Held(j, s)' = 0 \/ (j # i /\ Held(j, s)' = Held(j, s))
    <3>1. Held(j, s)' = Pointer(j, s)' /\ Held(j, s) = Pointer(j, s)
      BY <1>1, NotWriting, NotWritingNext
    <3>2. CASE j # i
      <4>1. inodes'[j] = inodes[j]
        BY <1>4, <3>2 DEF TInv, TypeOK
      <4>2. Pointer(j, s)' = Pointer(j, s)
        BY <1>1, <4>1, OnDisk
      <4> QED  BY <3>1, <3>2, <4>2
    <3>3. CASE j = i
      <4>1. inodes'[j] = NoInode
        BY <1>2, <1>4, <3>3 DEF TInv, TypeOK
      <4>2. Pointer(j, s)' = 0
        BY <4>1, OnDisk, NothingHeld
      <4> QED  BY <3>1, <4>2
    <3> QED  BY <3>2, <3>3
  <2>2. HeldOnce'
    BY <2>1 DEF FInv, HeldOnce
  <2>3. ASSUME NEW j \in Inumber \ {i}, NEW s \in Slots, Held(j, s) # 0
        PROVE  Held(j, s) \notin Released(i)
    BY <1>1, <1>2, <2>3, ReleasesHeld DEF FInv, HeldOnce
  <2>4. HeldInUse'
    <3>1. Released(i) \subseteq InodeBlocks + 1 .. num_blocks - 1
      BY <1>1, <1>2, ReleasesHeld DEF FInv, HeldInUse
    <3> QED  BY <1>1, <1>4, <2>1, <2>3, <3>1 DEF FInv, HeldInUse
  <2>5. DiskHeld'
    BY <2>1 DEF DiskHeld
  <2>6. InHand' /\ Fresh'
    BY <1>1 DEF InHand, Fresh, InWrite
  <2> QED  BY <2>2, <2>4, <2>5, <2>6 DEF FInv
<1> QED  BY <1>3, <1>4 DEF Remove

LEMMA LastPlace ==
    ASSUME NEW i \in Inumber
    PROVE  /\ MaxFileBlocks \in Slots
           /\ Held(i, MaxFileBlocks) = InodeOf(i).indirect
           /\ Pointer(i, MaxFileBlocks) = inodes[i].indirect
<1>1. MaxFileBlocks \in Slots
  BY Numbers DEF Slots
<1> QED  BY <1>1, AtPlaces, OnDisk DEF Held

LEMMA BeginHeld ==
    ASSUME TInv, FInv, Write  PROVE FInv' /\ KeepsHeld /\ KeepsPointers
<1>1. w \in Locals /\ pc = "copyin" /\ pc' = "loop" /\ mounted
      /\ UNCHANGED <<disk, memory>>
  BY DEF TInv, TypeOK, Write, FInv, Fresh, InWrite
<1>2. w'.inum = w.inum /\ w'.inode = inodes[w.inum] /\ ~w'.read_indirect /\ w'.indirect = ZeroBlock
  BY <1>1 DEF Write, Locals, FInv, InHand
<1>3. ASSUME NEW i \in Inumber, NEW s \in Slots
      PROVE  Held(i, s)' = Held(i, s) /\ Pointer(i, s)' = Pointer(i, s)
  <2>1. Pointer(i, s)' = Pointer(i, s)
    BY <1>1, OnDisk DEF disk
  <2>2. InodeOf(i)' = inodes[i] /\ TableOf(i)' = Table(inodes[i], block)
    BY <1>1, <1>2 DEF InodeOf, TableOf, disk
  <2>3. Held(i, s) = Pointer(i, s)
    BY <1>1, NotWriting DEF Writing
  <2> QED  BY <2>1, <2>2, <2>3, OnDisk DEF Held
<1>4. HeldOnce' /\ HeldInUse'
  BY <1>1, <1>3, HeldFewer DEF memory
<1>5. DiskHeld'
  BY <1>3 DEF FInv, DiskHeld
<1>6. InHand' /\ Fresh'
  BY <1>1, <1>2 DEF InHand, Fresh, InWrite, memory, Writing
<1> QED  BY <1>3, <1>4, <1>5, <1>6 DEF FInv, KeepsHeld, KeepsPointers

LEMMA ReadIndirectHeld ==
    ASSUME TInv, FInv, ReadIndirect  PROVE FInv' /\ KeepsHeld /\ KeepsPointers
<1>1. w \in Locals /\ pc = "loop" /\ pc' = "loop" /\ UNCHANGED <<disk, memory>>
      /\ w.inode.indirect # 0 /\ ~w.read_indirect /\ w.inum \in Inumber
  BY DEF TInv, TypeOK, ReadIndirect, InLoop, Progress, InWrite
<1>2. /\ w'.inum = w.inum /\ w'.inode = w.inode /\ w'.read_indirect
      /\ w'.indirect = Words(w.inode.indirect)
  BY <1>1 DEF ReadIndirect, Locals
<1>3. w.inode.indirect \in Blocks \ {0} /\ Words(w.inode.indirect) = block[w.inode.indirect]
  BY <1>1, LastPlace, HeldBlocks DEF InodeOf, Writing
<1>4. ASSUME NEW i \in Inumber, NEW s \in Slots
      PROVE  Held(i, s)' = Held(i, s) /\ Pointer(i, s)' = Pointer(i, s)
  <2>1. Pointer(i, s)' = Pointer(i, s)
    BY <1>1, OnDisk DEF disk
  <2>2. InodeOf(i)' = InodeOf(i) /\ TableOf(i)' = TableOf(i)
    BY <1>1, <1>2, <1>3 DEF InodeOf, TableOf, Table, disk, Writing
  <2> QED  BY <2>1, <2>2 DEF Held
<1>5. HeldOnce' /\ HeldInUse'
  BY <1>1, <1>4, HeldFewer DEF memory
<1>6. DiskHeld'
  BY <1>4 DEF FInv, DiskHeld
<1>7. InHand'
  BY <1>1, <1>2, <1>3 DEF InHand, disk, Writing
<1>8. Fresh'
  BY <1>1 DEF FInv, Fresh, InWrite, memory, disk, Writing
<1> QED  BY <1>4, <1>5, <1>6, <1>7, <1>8 DEF FInv, KeepsHeld, KeepsPointers

LEMMA UpdateHeld ==
    ASSUME TInv, FInv, UpdateSize  PROVE FInv' /\ KeepsHeld /\ KeepsPointers
<1>1. w \in Locals /\ pc = "loop" /\ pc' = "save_inode" /\ UNCHANGED <<disk, memory>>
      /\ w.inode \in Inode
  BY DEF TInv, TypeOK, UpdateSize, Locals
<1>2. PICK n : w'.inode = [w.inode EXCEPT !.size = n]
  BY <1>1 DEF UpdateSize, Locals
<1>3. /\ w'.inum = w.inum /\ w'.read_indirect = w.read_indirect /\ w'.indirect = w.indirect
      /\ w'.inode.direct = w.inode.direct /\ w'.inode.indirect = w.inode.indirect
  <2>1. w'.inode.direct = w.inode.direct /\ w'.inode.indirect = w.inode.indirect
    BY <1>1, <1>2 DEF Inode
  <2> QED  BY <1>1, <2>1 DEF UpdateSize, Locals
<1>4. ASSUME NEW i \in Inumber, NEW s \in Slots
      PROVE  Held(i, s)' = Held(i, s) /\ Pointer(i, s)' = Pointer(i, s)
  <2>1. Pointer(i, s)' = Pointer(i, s)
    BY <1>1, OnDisk DEF disk
  <2>2. /\ InodeOf(i)'.direct = InodeOf(i).direct /\ InodeOf(i)'.indirect = InodeOf(i).indirect
        /\ TableOf(i)' = TableOf(i)
    BY <1>1, <1>3 DEF InodeOf, TableOf, Table, disk, Writing
  <2> QED  BY <2>1, <2>2, AtSame DEF Held
<1>5. HeldOnce' /\ HeldInUse'
  BY <1>1, <1>4, HeldFewer DEF memory
<1>6. DiskHeld'
  BY <1>4 DEF FInv, DiskHeld
<1>7. InHand'
  BY <1>1, <1>3 DEF FInv, InHand, disk, Writing
<1>8. Fresh'
  BY <1>1 DEF FInv, Fresh, InWrite, memory, disk, Writing
<1> QED  BY <1>4, <1>5, <1>6, <1>7, <1>8 DEF FInv, KeepsHeld, KeepsPointers

LEMMA SaveInodeHeld ==
    ASSUME TInv, FInv, SaveInode  PROVE FInv' /\ KeepsHeld
<1>1. w \in Locals /\ pc = "save_inode" /\ pc' = "save_indirect" /\ UNCHANGED <<memory, block, w>>
      /\ w.inum \in Inumber /\ TypeOK
  BY DEF TInv, TypeOK, SaveInode, Progress, InWrite
<1>2. inodes' = inodes \/ inodes' = [inodes EXCEPT ![w.inum] = w.inode]
  BY DEF SaveInode
<1>3. ASSUME NEW i \in Inumber, NEW s \in Slots  PROVE Held(i, s)' = Held(i, s)
  <2>1. InodeOf(i)' = InodeOf(i) /\ TableOf(i)' = TableOf(i)
    BY <1>1, <1>2 DEF InodeOf, TableOf, Writing, TypeOK
  <2> QED  BY <2>1 DEF Held
<1>4. ASSUME NEW i \in Inumber, NEW s \in Slots
      PROVE  Pointer(i, s)' = 0 \/ Pointer(i, s)' = Held(i, s)'
  <2>1. CASE inodes'[i] = inodes[i]
    <3>1. Pointer(i, s)' = Pointer(i, s)
      BY <1>1, <2>1, OnDisk
    <3> QED  BY <1>3, <3>1 DEF FInv, DiskHeld
  <2>2. CASE inodes'[i] # inodes[i]
    <3>1. i = w.inum /\ inodes'[i] = w.inode
      BY <1>1, <1>2, <2>2 DEF TypeOK
    <3>2. InodeOf(i) = w.inode /\ Pointer(i, s)' = At(w.inode, Table(w.inode, block), s)
      BY <1>1, <3>1, OnDisk DEF InodeOf, Writing
    <3>3. CASE w.read_indirect
      <4>1. TableOf(i) = w.indirect /\ w.inode.indirect \in Blocks \ {0}
        BY <1>1, <3>1, <3>3 DEF TableOf, Writing, FInv, InHand
      <4>2. \A q \in 0 .. POINTERS_PER_BLOCK - 1 :
               Table(w.inode, block)[q] = 0 \/ Table(w.inode, block)[q] = w.indirect[q]
        <5>1. \A q \in 0 .. POINTERS_PER_BLOCK - 1 :
                 \/ block[w.inode.indirect][q] = 0
                 \/ block[w.inode.indirect][q] = w.indirect[q]
          BY <1>1, <3>3 DEF FInv, InHand, Writing
        <5> QED  BY <4>1, <5>1 DEF Table
      <4>3. \/ At(w.inode, Table(w.inode, block), s) = 0
            \/ At(w.inode, Table(w.inode, block), s) = At(w.inode, w.indirect, s)
        BY <4>2, TableFewer
      <4>4. Held(i, s) = At(w.inode, w.indirect, s)
        BY <3>2, <4>1 DEF Held
      <4> QED  BY <1>3, <3>2, <4>3, <4>4
    <3>4. CASE ~w.read_indirect
      <4>1. TableOf(i) = Table(w.inode, block)
        BY <3>2, <3>4 DEF TableOf
      <4> QED  BY <1>3, <3>2, <4>1 DEF Held
    <3> QED  BY <3>3, <3>4
  <2> QED  BY <2>1, <2>2
<1>5. HeldOnce' /\ HeldInUse'
  BY <1>1, <1>3, HeldFewer DEF memory
<1>6. DiskHeld'
  BY <1>4 DEF DiskHeld
<1>7. InHand'
  BY <1>1 DEF FInv, InHand, Writing
<1>8. Fresh'
  BY <1>1 DEF FInv, Fresh, InWrite, memory, Writing
<1> QED  BY <1>3, <1>5, <1>6, <1>7, <1>8 DEF FInv, KeepsHeld

\* Writing the indirect block puts on the disk what write has in hand.
LEMMA SaveIndirectHeld ==
    ASSUME TInv, FInv, SaveIndirect  PROVE FInv'
<1>1. w \in Locals /\ pc = "save_indirect" /\ pc' = "returned" /\ UNCHANGED <<memory, inodes>>
      /\ w.inum \in Inumber /\ TypeOK /\ Writing /\ ~Writing' /\ w.indirect \in Block
  BY DEF TInv, TypeOK, SaveIndirect, Progress, InWrite, Writing, Locals
<1>2. CASE UNCHANGED block
  BY <1>1, <1>2, AsideHeld DEF memory
<1>3. CASE block' = [block EXCEPT ![w.inode.indirect] = w.indirect]
  <2>1. \A d \in Blocks : d # w.inode.indirect => block'[d] = block[d]
    BY <1>1, <1>3 DEF TypeOK
  <2>2. ASSUME NEW i \in Inumber, NEW s \in Slots
        PROVE  Pointer(i, s)' = 0 \/ Pointer(i, s)' = Held(i, s)
    <3>1. Pointer(i, s)' = At(inodes[i], Table(inodes[i], block'), s)
      BY <1>1, OnDisk
    <3>2. inodes[i].indirect = 0 \/ inodes[i].indirect = InodeOf(i).indirect
      BY LastPlace DEF FInv, DiskHeld
    <3>3. CASE inodes[i].indirect = 0 \/ inodes[i].indirect # w.inode.indirect
      <4>1. Table(inodes[i], block') = Table(inodes[i], block)
        BY <2>1, <3>3, TableKept
      <4>2. Pointer(i, s)' = Pointer(i, s)
        BY <3>1, <4>1, OnDisk
      <4> QED  BY <4>2 DEF FInv, DiskHeld
    <3>4. CASE inodes[i].indirect # 0 /\ inodes[i].indirect = w.inode.indirect
      <4>1. InodeOf(w.inum) = w.inode
        BY <1>1 DEF InodeOf
      <4>2. Held(i, MaxFileBlocks) = Held(w.inum, MaxFileBlocks) /\ Held(i, MaxFileBlocks) # 0
        BY <1>1, <3>2, <3>4, <4>1, LastPlace
      <4>3. i = w.inum
        BY <1>1, <4>2, LastPlace DEF FInv, HeldOnce
      <4>4. w.inode.indirect \in Blocks \ {0}
        BY <1>1, <3>2, <3>4, <4>2, HeldBlocks, LastPlace
      <4>5. Table(inodes[i], block') = w.indirect
        BY <1>1, <1>3, <3>4, <4>4 DEF Table, TypeOK
      <4>6. Held(i, s) = At(w.inode, TableOf(i), s)
        BY <4>1, <4>3 DEF Held
      <4>7. \A q \in 0 .. POINTERS_PER_BLOCK - 1 :
               w.indirect[q] = 0 \/ w.indirect[q] = TableOf(i)[q]
        <5>1. CASE w.read_indirect
          BY <1>1, <4>3, <5>1 DEF TableOf
        <5>2. CASE ~w.read_indirect
          BY <1>1, <5>2 DEF FInv, InHand, ZeroBlock
        <5> QED  BY <5>1, <5>2
      <4>8. \A p \in 0 .. POINTERS_PER_INODE - 1 :
               inodes[i].direct[p] = 0 \/ inodes[i].direct[p] = w.inode.direct[p]
        <5> SUFFICES ASSUME NEW p \in 0 .. POINTERS_PER_INODE - 1
                     PROVE  inodes[i].direct[p] = 0 \/ inodes[i].direct[p] = w.inode.direct[p]
          OBVIOUS
        <5>1. p \in Slots
          BY Numbers DEF Slots
        <5>2. Pointer(i, p) = inodes[i].direct[p]
          BY <5>1, OnDisk, AtPlaces
        <5>3. Held(i, p) = w.inode.direct[p]
          BY <4>1, <4>3, <5>1, AtPlaces DEF Held
        <5> QED  BY <5>1, <5>2, <5>3 DEF FInv, DiskHeld
      <4>9. At(inodes[i], w.indirect, s) = 0 \/ At(inodes[i], w.indirect, s) = At(w.inode, TableOf(i), s)
        BY <3>4, <4>7, <4>8, AtFewer
      <4> QED  BY <3>1, <4>5, <4>6, <4>9
    <3> QED  BY <3>3, <3>4
  <2>3. \A i \in Inumber : \A s \in Slots : Held(i, s)' = Pointer(i, s)'
    BY <1>1, NotWritingNext
  <2>4. HeldOnce' /\ HeldInUse'
    BY <1>1, <2>2, <2>3, HeldFewer DEF memory
  <2>5. DiskHeld'
    BY <2>3 DEF DiskHeld
  <2>6. InHand' /\ Fresh'
    BY <1>1 DEF InHand, FInv, Fresh, InWrite, memory
  <2> QED  BY <2>4, <2>5, <2>6 DEF FInv
<1> QED  BY <1>2, <1>3 DEF SaveIndirect

\* A step that changes one block, which is no block of pointers that anybody holds.
LEMMA OtherBlock ==
    ASSUME TInv, FInv, NEW c, UNCHANGED inodes,
           \A d \in Blocks : d # c => block'[d] = block[d],
           \A i \in Inumber : Held(i, MaxFileBlocks) # 0 => Held(i, MaxFileBlocks) # c
    PROVE  /\ \A i \in Inumber : Table(InodeOf(i), block') = Table(InodeOf(i), block)
           /\ \A i \in Inumber : \A s \in Slots : Pointer(i, s)' = Pointer(i, s)
           /\ (Writing /\ w.read_indirect /\ w.inum \in Inumber)
                 => block'[w.inode.indirect] = block[w.inode.indirect]
<1>1. \A i \in Inumber : InodeOf(i).indirect = 0 \/ InodeOf(i).indirect # c
  BY LastPlace
<1>2. \A i \in Inumber : Table(InodeOf(i), block') = Table(InodeOf(i), block)
  BY <1>1, TableKept
<1>3. ASSUME NEW i \in Inumber, NEW s \in Slots  PROVE Pointer(i, s)' = Pointer(i, s)
  <2>1. inodes[i].indirect = 0 \/ inodes[i].indirect = InodeOf(i).indirect
    BY LastPlace DEF FInv, DiskHeld
  <2>2. Table(inodes[i], block') = Table(inodes[i], block)
    BY <1>1, <2>1, TableKept
  <2> QED  BY <2>2, OnDisk
<1>4. (Writing /\ w.read_indirect /\ w.inum \in Inumber)
         => block'[w.inode.indirect] = block[w.inode.indirect]
  BY <1>1 DEF FInv, InHand, InodeOf
<1> QED  BY <1>2, <1>3, <1>4

LEMMA WriteDataHeld ==
    ASSUME TInv, FInv, WriteData
    PROVE  /\ FInv' /\ KeepsHeld /\ KeepsPointers
           /\ w.block_num \in Slots /\ w.block_num # MaxFileBlocks
           /\ Held(w.inum, w.block_num) = block_to_write
<1>0. pc = "loop" /\ InWrite /\ Writing
  BY DEF WriteData, InLoop, InWrite, Writing
<1>1. w \in Locals /\ pc = "loop" /\ pc' = "loop" /\ UNCHANGED <<memory, inodes>>
      /\ w.inum \in Inumber /\ TypeOK /\ Writing /\ Writing' /\ PointerKnown
      /\ w.block_num < MaxFileBlocks /\ block_to_write # 0 /\ w.block_num \in Nat
  <2>1. TypeOK /\ w \in Locals /\ w.block_num \in Nat
    BY DEF TInv, TypeOK, Locals
  <2>2. w.inum \in Inumber
    BY <1>0 DEF TInv, Progress
  <2>3. pc' = "loop" /\ UNCHANGED <<memory, inodes>> /\ PointerKnown
        /\ w.block_num < MaxFileBlocks
    BY DEF WriteData, InLoop
  <2>4. block_to_write # 0
    BY Numbers DEF WriteData
  <2>5. Writing'
    BY <2>3 DEF Writing
  <2> QED  BY <1>0, <2>1, <2>2, <2>3, <2>4, <2>5
<1>2. /\ w'.inum = w.inum /\ w'.inode = w.inode /\ w'.read_indirect = w.read_indirect
      /\ w'.indirect = w.indirect
  <2>1. w' = [w EXCEPT !.written = @ + write_length, !.block_num = @ + 1]
    BY DEF WriteData
  <2> QED  BY <1>1, <2>1 DEF Locals
<1>3. \A d \in Blocks : d # block_to_write => block'[d] = block[d]
  BY <1>1 DEF WriteData, TypeOK
<1>4. w.block_num \in Slots /\ w.block_num # MaxFileBlocks
      /\ Held(w.inum, w.block_num) = block_to_write
  <2>1. w.block_num \in Slots /\ w.block_num # MaxFileBlocks
    BY <1>1, Numbers DEF Slots
  <2>2. InodeOf(w.inum) = w.inode
    BY <1>1 DEF InodeOf
  <2>3. CASE IsDirect
    <3>1. w.block_num \in 0 .. POINTERS_PER_INODE - 1
      BY <1>1, <2>3, Numbers DEF IsDirect
    <3> QED  BY <2>1, <2>2, <2>3, <3>1, AtPlaces DEF Held, block_to_write
  <2>4. CASE ~IsDirect
    <3>1. TableOf(w.inum) = w.indirect
      BY <1>1, <2>4 DEF TableOf, PointerKnown
    <3> QED  BY <2>1, <2>2, <2>4, <3>1, AtPlaces DEF Held, block_to_write, IsDirect
  <2> QED  BY <2>1, <2>3, <2>4
<1>5. \A i \in Inumber : Held(i, MaxFileBlocks) # 0 => Held(i, MaxFileBlocks) # block_to_write
  BY <1>1, <1>4, LastPlace DEF FInv, HeldOnce
<1>6. /\ \A i \in Inumber : Table(InodeOf(i), block') = Table(InodeOf(i), block)
      /\ \A i \in Inumber : \A s \in Slots : Pointer(i, s)' = Pointer(i, s)
      /\ w.read_indirect => block'[w.inode.indirect] = block[w.inode.indirect]
  BY <1>1, <1>3, <1>5, OtherBlock
<1>7. ASSUME NEW i \in Inumber, NEW s \in Slots  PROVE Held(i, s)' = Held(i, s)
  <2>1. InodeOf(i)' = InodeOf(i)
    BY <1>1, <1>2 DEF InodeOf
  <2>2. TableOf(i)' = TableOf(i)
    BY <1>1, <1>2, <1>6, <2>1 DEF TableOf
  <2> QED  BY <2>1, <2>2 DEF Held
<1>8. HeldOnce' /\ HeldInUse'
  BY <1>1, <1>7, HeldFewer DEF memory
<1>9. DiskHeld'
  BY <1>6, <1>7 DEF FInv, DiskHeld
<1>10. InHand'
  BY <1>1, <1>2, <1>6 DEF FInv, InHand
<1>11. Fresh'
  BY <1>1 DEF FInv, Fresh, InWrite, memory
<1> QED  BY <1>4, <1>6, <1>7, <1>8, <1>9, <1>10, <1>11 DEF FInv, KeepsHeld, KeepsPointers

\* The blocks of pointers stay when a block is taken from the bitmap.
LEMMA TakeBlock ==
    ASSUME TInv, FInv, Writing, NEW b \in free_bitmap, AllocateFreeBlock(b)
    PROVE  /\ b \in Blocks \ {0} /\ block'[b] = ZeroBlock /\ UNCHANGED inodes
           /\ \A i \in Inumber : InodeOf(i).indirect # b
           /\ \A i \in Inumber : Table(InodeOf(i), block') = Table(InodeOf(i), block)
           /\ \A i \in Inumber : \A s \in Slots : Pointer(i, s)' = Pointer(i, s)
           /\ (w.read_indirect /\ w.inum \in Inumber)
                 => block'[w.inode.indirect] = block[w.inode.indirect]
<1>1. b \in Blocks \ {0} /\ UNCHANGED inodes
  BY AllocatedData
<1>2. block'[b] = ZeroBlock /\ \A d \in Blocks : d # b => block'[d] = block[d]
  BY <1>1, AllocatedData DEF TInv, TypeOK
<1>3. \A i \in Inumber : Held(i, MaxFileBlocks) # 0 => Held(i, MaxFileBlocks) # b
  BY LastPlace, HeldBlocks
<1>4. \A i \in Inumber : InodeOf(i).indirect # b
  BY <1>1, <1>3, LastPlace
<1> QED  BY <1>1, <1>2, <1>3, <1>4, OtherBlock

\* The end of every allocation: one place more is held.
LEMMA AllocationHeld ==
    ASSUME TInv, FInv, InLoop, NEW b \in free_bitmap, AllocateFreeBlock(b),
           UNCHANGED <<mounted, num_blocks, pc, w.inum>>,
           NEW t \in Slots, Held(w.inum, t) = 0, Held(w.inum, t)' = b,
           \A s \in Slots : s # t => Held(w.inum, s)' = Held(w.inum, s),
           InHand'
    PROVE  FInv' /\ Takes(w.inum, t, b)
<1>1. pc = "loop" /\ Writing /\ Writing' /\ w.inum \in Inumber /\ TypeOK
  BY DEF InLoop, Writing, TInv, Progress, InWrite
<1>2. UNCHANGED inodes /\ \A i \in Inumber : Table(InodeOf(i), block') = Table(InodeOf(i), block)
  BY <1>1, TakeBlock
<1>3. ASSUME NEW i \in Inumber, NEW s \in Slots, <<i, s>> # <<w.inum, t>>
      PROVE  Held(i, s)' = Held(i, s)
  <2>1. CASE i = w.inum
    BY <1>3, <2>1
  <2>2. CASE i # w.inum
    <3>1. InodeOf(i)' = InodeOf(i)
      BY <1>2, <2>2 DEF InodeOf
    <3>2. TableOf(i)' = TableOf(i)
      BY <1>2, <2>2, <3>1 DEF TableOf
    <3> QED  BY <3>1, <3>2 DEF Held
  <2> QED  BY <2>1, <2>2
<1>4. HeldOnce' /\ HeldInUse'
  <2>1. mounted
    BY <1>1 DEF FInv, Fresh, InWrite, Writing
  <2> QED  BY <1>1, <1>3, <2>1, HeldMore DEF AllocateFreeBlock
<1>5. DiskHeld'
  <2> SUFFICES ASSUME NEW i \in Inumber, NEW s \in Slots
               PROVE  Pointer(i, s)' = 0 \/ Pointer(i, s)' = Held(i, s)'
    BY DEF DiskHeld
  <2>1. Pointer(i, s)' = Pointer(i, s) /\ (Pointer(i, s) = 0 \/ Pointer(i, s) = Held(i, s))
    BY <1>1, TakeBlock DEF FInv, DiskHeld
  <2>2. CASE <<i, s>> = <<w.inum, t>>
    BY <2>1, <2>2
  <2>3. CASE <<i, s>> # <<w.inum, t>>
    BY <1>3, <2>1, <2>3
  <2> QED  BY <2>2, <2>3
<1>6. Fresh'
  BY <1>1, <1>2 DEF FInv, Fresh, InWrite
<1>7. Takes(w.inum, t, b)
  BY <1>1, <1>3, TakeBlock DEF Takes, KeepsPointers
<1> QED  BY <1>4, <1>5, <1>6, <1>7 DEF FInv

LEMMA AllocateDirectHeld ==
    ASSUME TInv, FInv, AllocateDirect
    PROVE  FInv' /\ \E b \in free_bitmap : \E t \in Slots : Takes(w.inum, t, b) /\ AtHand(t)
<1>1. PICK b \in free_bitmap :
         /\ AllocateFreeBlock(b)
         /\ w' = [w EXCEPT !.inode.direct[w.block_num] = b, !.modified_inode = TRUE]
  BY DEF AllocateDirect
<1>2. w \in Locals /\ InLoop /\ Writing /\ w.inum \in Inumber /\ w.inode \in Inode
      /\ UNCHANGED <<mounted, num_blocks, pc>>
      /\ w.block_num \in 0 .. POINTERS_PER_INODE - 1 /\ w.inode.direct[w.block_num] = 0
  BY Numbers
  DEF AllocateDirect, IsDirect, block_to_write, InLoop, Writing, TInv, TypeOK, Progress, InWrite, Locals
<1>3. /\ w'.inum = w.inum /\ w'.read_indirect = w.read_indirect /\ w'.indirect = w.indirect
      /\ w'.inode = [w.inode EXCEPT !.direct[w.block_num] = b]
  BY <1>1, <1>2 DEF Locals
<1>4. /\ w'.inode.indirect = w.inode.indirect /\ w'.inode.direct[w.block_num] = b
      /\ \A p \in 0 .. POINTERS_PER_INODE - 1 :
            p # w.block_num => w'.inode.direct[p] = w.inode.direct[p]
  BY <1>2, <1>3 DEF Inode
<1>5. InodeOf(w.inum) = w.inode /\ InodeOf(w.inum)' = w'.inode
  BY <1>2, <1>3 DEF InodeOf, Writing
<1>6. /\ Table(w.inode, block') = Table(w.inode, block)
      /\ w.read_indirect => block'[w.inode.indirect] = block[w.inode.indirect]
  BY <1>1, <1>2, <1>5, TakeBlock
<1>7. TableOf(w.inum)' = TableOf(w.inum)
  BY <1>2, <1>3, <1>4, <1>5, <1>6 DEF TableOf, Table, Writing
<1>8. PICK t \in Slots : t = w.block_num
  BY <1>2, Numbers DEF Slots
<1>9. Held(w.inum, t) = 0
  BY <1>2, <1>5, <1>8, AtPlaces DEF Held
<1>10. Held(w.inum, t)' = b
  <2> DEFINE ino2 == w'.inode  table == TableOf(w.inum)
  <2>1. At(ino2, table, t) = ino2.direct[t]
    BY <1>2, <1>8, AtPlaces
  <2> QED  BY <1>4, <1>5, <1>7, <1>8, <2>1 DEF Held
<1>11. ASSUME NEW s \in Slots, s # t  PROVE Held(w.inum, s)' = Held(w.inum, s)
  <2> DEFINE ino == w.inode  ino2 == w'.inode  table == TableOf(w.inum)
  <2>1. At(ino2, table, s) = At(ino, table, s)
    <3> HIDE DEF table
    <3>1. CASE s \in 0 .. POINTERS_PER_INODE - 1
      BY <1>4, <1>8, <1>11, <3>1, AtPlaces
    <3>2. CASE s \notin 0 .. POINTERS_PER_INODE - 1
      BY <1>4, <3>2, AtPlaces, Places
    <3> QED  BY <3>1, <3>2
  <2> QED  BY <1>5, <1>7, <2>1 DEF Held
<1>12. InHand'
  BY <1>2, <1>3, <1>4, <1>6 DEF FInv, InHand, Writing, InLoop
<1>13. AtHand(t)
  BY <1>8 DEF AtHand
<1>14. FInv' /\ Takes(w.inum, t, b)
  BY <1>1, <1>2, <1>3, <1>9, <1>10, <1>11, <1>12, AllocationHeld
<1> QED  BY <1>13, <1>14

LEMMA AllocateIndirectHeld ==
    ASSUME TInv, FInv, AllocateIndirect
    PROVE  FInv' /\ \E b \in free_bitmap : \E t \in Slots : Takes(w.inum, t, b) /\ AtHand(t)
<1>1. PICK b \in free_bitmap :
         /\ AllocateFreeBlock(b)
         /\ w' = [w EXCEPT !.inode.indirect = b, !.modified_indirect = TRUE]
  BY DEF AllocateIndirect
<1>2. w \in Locals /\ InLoop /\ Writing /\ w.inum \in Inumber /\ w.inode \in Inode
      /\ UNCHANGED <<mounted, num_blocks, pc>> /\ w.inode.indirect = 0
  BY DEF AllocateIndirect, InLoop, Writing, TInv, TypeOK, Progress, InWrite, Locals
<1>3. /\ w'.inum = w.inum /\ w'.read_indirect = w.read_indirect /\ w'.indirect = w.indirect
      /\ w'.inode = [w.inode EXCEPT !.indirect = b]
  BY <1>1, <1>2 DEF Locals
<1>4. w'.inode.direct = w.inode.direct /\ w'.inode.indirect = b
  BY <1>2, <1>3 DEF Inode
<1>5. ~w.read_indirect /\ w.indirect = ZeroBlock
  BY <1>2 DEF FInv, InHand
<1>6. InodeOf(w.inum) = w.inode /\ InodeOf(w.inum)' = w'.inode
  BY <1>2, <1>3 DEF InodeOf, Writing
<1>7. TableOf(w.inum) = ZeroBlock /\ TableOf(w.inum)' = ZeroBlock
  <2>1. b \in Blocks \ {0} /\ block'[b] = ZeroBlock
    BY <1>1, <1>2, TakeBlock
  <2> QED  BY <1>2, <1>3, <1>4, <1>5, <1>6, <2>1 DEF TableOf, Table, Writing
<1>8. MaxFileBlocks \in Slots
  BY Numbers DEF Slots
<1>9. Held(w.inum, MaxFileBlocks) = 0
  BY <1>2, <1>6, <1>8, AtPlaces DEF Held
<1>10. Held(w.inum, MaxFileBlocks)' = b
  BY <1>4, <1>6, <1>8, AtPlaces DEF Held
<1>11. ASSUME NEW s \in Slots, s # MaxFileBlocks  PROVE Held(w.inum, s)' = Held(w.inum, s)
  <2> DEFINE ino == w.inode  ino2 == w'.inode
  <2>1. At(ino2, ZeroBlock, s) = At(ino, ZeroBlock, s)
    BY <1>4, <1>11, AtPlaces, Places
  <2> QED  BY <1>6, <1>7, <2>1 DEF Held
<1>12. InHand'
  BY <1>2, <1>3, <1>5 DEF InHand, Writing, InLoop
<1>13. AtHand(MaxFileBlocks)
  BY DEF AtHand, AllocateIndirect
<1>14. FInv' /\ Takes(w.inum, MaxFileBlocks, b)
  BY <1>1, <1>2, <1>3, <1>8, <1>9, <1>10, <1>11, <1>12, AllocationHeld
<1> QED  BY <1>8, <1>13, <1>14

LEMMA AllocateDataHeld ==
    ASSUME TInv, FInv, AllocateData
    PROVE  FInv' /\ \E b \in free_bitmap : \E t \in Slots : Takes(w.inum, t, b) /\ AtHand(t)
<1> DEFINE q == w.block_num - POINTERS_PER_INODE
<1>1. PICK b \in free_bitmap :
         /\ AllocateFreeBlock(b)
         /\ w' = [w EXCEPT !.indirect[q] = b, !.modified_indirect = TRUE]
  BY DEF AllocateData
<1>2. w \in Locals /\ InLoop /\ Writing /\ w.inum \in Inumber /\ w.indirect \in Block
      /\ UNCHANGED <<mounted, num_blocks, pc>> /\ w.read_indirect
      /\ ~IsDirect /\ w.indirect[q] = 0 /\ w.block_num \in Nat /\ w.block_num < MaxFileBlocks
  BY DEF AllocateData, PointerKnown, block_to_write, InLoop, Writing, TInv, TypeOK,
         Progress, InWrite, Locals
<1>3. PICK t \in Slots :
         /\ t = w.block_num /\ t # MaxFileBlocks /\ ~(t < POINTERS_PER_INODE)
         /\ q = t - POINTERS_PER_INODE /\ q \in 0 .. POINTERS_PER_BLOCK - 1
  BY <1>2, Numbers DEF Slots, IsDirect
<1>4. /\ w'.inum = w.inum /\ w'.read_indirect /\ w'.inode = w.inode
      /\ w'.indirect = [w.indirect EXCEPT ![q] = b]
  BY <1>1, <1>2 DEF Locals
<1> HIDE DEF q
<1>5. /\ w'.indirect[q] = b
      /\ \A r \in 0 .. POINTERS_PER_BLOCK - 1 : r # q => w'.indirect[r] = w.indirect[r]
  BY <1>2, <1>3, <1>4 DEF Block
<1>6. InodeOf(w.inum) = w.inode /\ InodeOf(w.inum)' = w.inode
  BY <1>2, <1>4 DEF InodeOf, Writing
<1>7. TableOf(w.inum) = w.indirect /\ TableOf(w.inum)' = w'.indirect
  BY <1>2, <1>4 DEF TableOf, Writing
<1>8. Held(w.inum, t) = 0
  BY <1>2, <1>3, <1>6, <1>7, AtPlaces DEF Held
<1>9. Held(w.inum, t)' = b
  <2> DEFINE table2 == w'.indirect
  <2>1. At(w.inode, table2, t) = table2[q]
    BY <1>3, AtPlaces
  <2> QED  BY <1>5, <1>6, <1>7, <2>1 DEF Held
<1>10. ASSUME NEW s \in Slots, s # t  PROVE Held(w.inum, s)' = Held(w.inum, s)
  <2> DEFINE table == w.indirect  table2 == w'.indirect
  <2>1. \A r \in 0 .. POINTERS_PER_BLOCK - 1 : r # q => table2[r] = table[r]
    BY <1>5
  <2>2. s - POINTERS_PER_INODE # q
    BY <1>3, <1>10, Numbers DEF Slots
  <2> HIDE DEF table, table2
  <2>3. At(w.inode, table2, s) = At(w.inode, table, s)
    BY <2>1, <2>2, AtPlaces, Places
  <2> QED  BY <1>6, <1>7, <2>3 DEF Held, table, table2
<1>11. block'[w.inode.indirect] = block[w.inode.indirect]
  BY <1>1, <1>2, TakeBlock
<1>12. InHand'
  <2>1. w.inode.indirect \in Blocks \ {0}
        /\ \A r \in 0 .. POINTERS_PER_BLOCK - 1 :
              block[w.inode.indirect][r] = 0 \/ block[w.inode.indirect][r] = w.indirect[r]
    BY <1>2 DEF FInv, InHand
  <2>2. ASSUME NEW r \in 0 .. POINTERS_PER_BLOCK - 1
        PROVE  block'[w.inode.indirect][r] = 0 \/ block'[w.inode.indirect][r] = w'.indirect[r]
    BY <1>2, <1>5, <1>11, <2>1
  <2> QED  BY <1>2, <1>4, <2>1, <2>2 DEF InHand, Writing, InLoop
<1>13. AtHand(t)
  BY <1>3 DEF AtHand
<1>14. FInv' /\ Takes(w.inum, t, b)
  BY <1>1, <1>2, <1>4, <1>8, <1>9, <1>10, <1>12, AllocationHeld
<1> QED  BY <1>13, <1>14

\* The shell is not started less often than it was.
LEMMA OpensGrow ==
    ASSUME opens \in Nat \ {0}, [Next]_vars
    PROVE  opens' = 1 => opens = 1
<1>1. opens' = opens \/ opens' = opens + 1
  BY DEF Next, Command, CopyInStep, Format, Mount, MountAborts, Create, DebugAborts,
         UseBeforeMount, Remove, RemoveAborts, CopyOutStops, CopyIn, Write, AllocateDirect,
         AllocateIndirect, ReadIndirect, AllocateData, WriteData, WriteAborts, ReturnEarly,
         UpdateSize, SaveInode, SaveIndirect, OverwriteInodes, Returned, CopyInDone, FormatClear,
         FormatDone, Stop, Open, Abort, vars
<1> QED  BY <1>1

\* No step but the start of the shell makes two files hold one block.
LEMMA StepHeld ==
    ASSUME TInv, FInv, Recorded, Next, \A n \in Sizes : ~Open(n)
    PROVE  FInv'
<1> USE DEF disk, memory, Writing
<1>1. CASE Command
  <2>1. CASE Format
    <3>1. w'.block_num = 1 /\ pc' = "format" /\ ~mounted
      BY <2>1 DEF Format, Idle
    <3> QED  BY <2>1, <3>1, AsideHeld DEF Format
  <2>2. CASE MountAborts \/ DebugAborts \/ UseBeforeMount
    BY <2>2, AsideHeld DEF MountAborts, DebugAborts, UseBeforeMount, Abort
  <2>3. ASSUME NEW i \in Named, RemoveAborts(i) \/ CopyOutStops(i)  PROVE FInv'
    BY <2>3, AsideHeld DEF RemoveAborts, CopyOutStops, Abort
  <2>4. ASSUME NEW i \in Named, NEW file \in HostFiles, CopyIn(i, file)  PROVE FInv'
    <3>1. ~w'.read_indirect /\ w'.indirect = ZeroBlock
      BY <2>4 DEF CopyIn, Idle
    <3> QED  BY <2>4, <3>1, AsideHeld DEF CopyIn
  <2> QED
    BY <1>1, <2>1, <2>2, <2>3, <2>4, MountHeld, CreateHeld, RemoveHeld DEF Command
<1>2. CASE CopyInStep
  <2>1. CASE WriteAborts \/ OverwriteInodes \/ ReturnEarly \/ CopyInDone
    BY <2>1, AsideHeld DEF WriteAborts, OverwriteInodes, ReturnEarly, CopyInDone, Abort, InLoop
  <2>2. CASE Returned
    <3>1. pc' = "copyin" => ~w'.read_indirect /\ w'.indirect = ZeroBlock
      BY <2>2 DEF Returned, Idle
    <3>2. pc = "returned" /\ pc' \in {"copyin", "prompt"}
      BY <2>2 DEF Returned
    <3>3. mounted /\ UNCHANGED <<disk, memory>> /\ ~Writing'
      BY <2>2, <3>2 DEF Returned, FInv, Fresh, InWrite
    <3> QED  BY <3>1, <3>2, <3>3, AsideHeld
  <2> QED
    BY <1>2, <2>1, <2>2, BeginHeld, AllocateDirectHeld, AllocateIndirectHeld,
       AllocateDataHeld, ReadIndirectHeld, WriteDataHeld, UpdateHeld, SaveInodeHeld,
       SaveIndirectHeld
    DEF CopyInStep
<1>3. CASE FormatClear
  BY <1>3, FormatClearHeld
<1>4. CASE FormatDone \/ Stop
  BY <1>4, AsideHeld DEF FormatDone, Stop
<1> QED  BY <1>1, <1>2, <1>3, <1>4 DEF Next

LEMMA StaysHeld ==
    ASSUME FInv, UNCHANGED vars
    PROVE  FInv'
  BY DEF vars, FInv, HeldOnce, HeldInUse, DiskHeld, InHand, Fresh, Held, InodeOf,
         TableOf, Pointer, At, Table, InWrite, Writing

LEMMA NoFilesRecorded ==
    ASSUME NoFilesYet
    PROVE  Recorded
<1> SUFFICES ASSUME ~mounted, NEW i \in Inumber, NEW s \in Slots  PROVE Pointer(i, s) = 0
  BY DEF Recorded
<1> QED  BY OnDisk, NothingHeld DEF NoFilesYet

LEMMA NoFilesStays ==
    ASSUME FInv, NoFilesYet, [Next]_vars, opens = 1, opens' = 1
    PROVE  NoFilesYet'
<1> SUFFICES ASSUME ~mounted'  PROVE inodes' = [i \in Inumber |-> NoInode]
  BY DEF NoFilesYet
<1> USE DEF disk, memory
<1>0. \A n \in Sizes : ~Open(n)
  BY DEF Open
<1>1. CASE mounted
  <2>1. mounted' = mounted
    BY <1>0, <1>1 DEF Next, Command, CopyInStep, Format, Mount, MountAborts, Create, DebugAborts,
         UseBeforeMount, Remove, RemoveAborts, CopyOutStops, CopyIn, Write, AllocateDirect,
         AllocateIndirect, ReadIndirect, AllocateData, WriteData, WriteAborts, ReturnEarly,
         UpdateSize, SaveInode, SaveIndirect, OverwriteInodes, Returned, CopyInDone, FormatClear,
         FormatDone, Stop, Abort, vars
  <2> QED  BY <1>1, <2>1
<1>2. CASE ~mounted
  <2>1. inodes = [i \in Inumber |-> NoInode] /\ pc # "copyin" /\ ~InWrite
    BY <1>2 DEF NoFilesYet, FInv, Fresh
  <2>2. CASE FormatClear
    BY <2>1, <2>2 DEF FormatClear, ClearBlock
  <2>3. CASE ~FormatClear
    BY <1>0, <1>2, <2>1, <2>3 DEF Next, Command, CopyInStep, Format, Mount, MountAborts, Create,
         DebugAborts, UseBeforeMount, Remove, RemoveAborts, CopyOutStops, CopyIn, Write,
         AllocateDirect, AllocateIndirect, ReadIndirect, AllocateData, WriteData, WriteAborts,
         ReturnEarly, UpdateSize, SaveInode, SaveIndirect, OverwriteInodes, Returned,
         CopyInDone, FormatDone, Stop, Abort, InLoop, InWrite, vars
  <2> QED  BY <2>2, <2>3
<1> QED  BY <1>1, <1>2

LEMMA HeldInit ==
    ASSUME Init
    PROVE  FInv /\ NoFilesYet
<1>1. ASSUME NEW i \in Inumber, NEW s \in Slots  PROVE Held(i, s) = 0 /\ Pointer(i, s) = 0
  <2>1. inodes[i] = NoInode /\ ~Writing
    BY DEF Init, Writing
  <2>2. Pointer(i, s) = 0
    BY <2>1, OnDisk, NothingHeld
  <2> QED  BY <2>1, <2>2, NotWriting
<1>2. HeldOnce /\ HeldInUse /\ DiskHeld
  BY <1>1 DEF Init, HeldOnce, HeldInUse, DiskHeld
<1>3. InHand /\ Fresh /\ NoFilesYet
  BY DEF Init, InHand, Fresh, NoFilesYet, InWrite, Writing
<1> QED  BY <1>2, <1>3 DEF FInv

LEMMA HeldInductive == Spec => [](opens = 1 => FInv /\ NoFilesYet)
<1>1. Init => FInv /\ NoFilesYet
  BY HeldInit
<1>2. OInv /\ [Next]_vars => (opens = 1 => FInv /\ NoFilesYet)'
  <2> SUFFICES ASSUME OInv, [Next]_vars, opens' = 1  PROVE FInv' /\ NoFilesYet'
    OBVIOUS
  <2>1. opens = 1 /\ TInv /\ FInv /\ NoFilesYet
    <3>1. opens \in Nat \ {0}
      BY DEF OInv, TInv, TypeOK
    <3> QED  BY <3>1, OpensGrow DEF OInv
  <2>2. FInv'
    <3>1. CASE Next
      <4>1. \A n \in Sizes : ~Open(n)
        BY <2>1 DEF Open
      <4> QED  BY <2>1, <3>1, <4>1, StepHeld, NoFilesRecorded
    <3> QED  BY <2>1, <3>1, StaysHeld
  <2> QED  BY <2>1, <2>2, NoFilesStays
<1> QED  BY <1>1, <1>2, TypesInductive, PTL DEF Spec, OInv

LEMMA HeldApart ==
    ASSUME FInv
    PROVE  NoCrossLink /\ PointedNotFree
<1>1. NoCrossLink
  BY DEF FInv, HeldOnce, DiskHeld, NoCrossLink
<1>2. ASSUME mounted, NEW i \in Inumber, NEW s \in Slots, Pointer(i, s) # 0
      PROVE  Pointer(i, s) \notin free_bitmap
  BY <1>2 DEF FInv, DiskHeld, HeldInUse
<1>3. PointedNotFree
  BY <1>2 DEF PointedNotFree, Pointers
<1> QED  BY <1>1, <1>3

\* As long as the image has been mounted once only, no block belongs to two files
\* or twice to one, whatever is created, removed, written or killed, with the
\* disk full or not, and with inodes that nobody created.  The counterexample of
\* fs_remount shows that the next start of the shell can spoil it.
THEOREM FilesApart == Spec => [](opens = 1 => NoCrossLink)
<1>1. FInv => NoCrossLink
  BY HeldApart
<1> QED  BY <1>1, HeldInductive, PTL

\* Until then the bitmap is right as well: allocate_free_block cannot hand out a
\* block that an inode or an indirect block on the disk points to.
THEOREM NoPointedBlockFree == Spec => [](opens = 1 => PointedNotFree)
<1>1. FInv => PointedNotFree
  BY HeldApart
<1> QED  BY <1>1, HeldInductive, PTL

-----------------------------------------------------------------------------
(* What the files hold, before the shell is started a second time           *)

\* The block of a file that its k-th word is in, and the word that is found
\* when p is the pointer to that block.
PlaceOf(k) == (k - 1) \div BLOCK_SIZE

WordIn(p, blk, k) == IF p \in Blocks \ {0} THEN blk[p][(k - 1) % BLOCK_SIZE] ELSE 0

\* The k-th word of file i on the disk, and as write has it.
DiskWord(i, k) == WordIn(Pointer(i, PlaceOf(k)), block, k)

HeldWord(i, k) == WordIn(Held(i, PlaceOf(k)), block, k)

\* The words of the file when write was called, those it has when what write
\* wrote is counted, and the k-th of them when j words of the write are in place.
OldSize == Len(before)

NewSize == Larger(OldSize, w.offset + w.written)

Wanted(j, k) == IF w.offset < k /\ k =< w.offset + j THEN w.word ELSE before[k]

\* No file is larger than what the places of an inode lead to.
SizesFit ==
    /\ \A i \in Inumber : inodes[i].size =< MaxFileBlocks * BLOCK_SIZE
    /\ Writing => /\ w.offset + w.written =< MaxFileBlocks * BLOCK_SIZE
                  /\ w.block_num =< MaxFileBlocks

\* copyin works on a file that exists.
NamedThere ==
    /\ pc = "copyin" => w.inum \in Inumber /\ inodes[w.inum].valid /\ w.word \in Data
    /\ InWrite => /\ inodes[w.inum].valid /\ w.word \in Data
                  /\ before \in Seq(Word) /\ w.offset =< OldSize
    /\ Writing => w.inode.valid

\* The loop is where the words that are written end.
Position ==
    (pc = "loop" /\ w.written < w.length) =>
        w.offset + w.written = w.block_num * BLOCK_SIZE + write_offset

\* What write has of the inode differs from the disk only where it says so,
SavedInode ==
    /\ pc = "loop" => w.inode.size = OldSize
    /\ pc \in {"save_inode", "save_indirect"} => w.inode.size = NewSize
    /\ pc \in {"loop", "save_inode"} => inodes[w.inum].size = OldSize
    /\ pc \in {"loop", "save_inode"} /\ ~w.modified_inode =>
          w.inode.size = OldSize /\ w.inode.direct = inodes[w.inum].direct
    /\ pc = "save_indirect" =>
          inodes[w.inum].size = NewSize /\ w.inode.direct = inodes[w.inum].direct

\* and so does what it has of the indirect block.
SavedTable ==
    /\ pc = "copyin" => ~w.modified_indirect
    /\ pc = "loop" /\ w.modified_indirect /\ ~w.read_indirect => InLoop /\ ~IsDirect
    /\ pc \in {"save_inode", "save_indirect"} /\ w.modified_indirect => w.read_indirect
    /\ Writing /\ w.read_indirect /\ ~w.modified_indirect =>
          w.indirect = block[w.inode.indirect]

\* In the blocks that write has, the words that it wrote are in place.
HandsWords ==
    Writing => \A k \in 1 .. NewSize : HeldWord(w.inum, k) = Wanted(w.written, k)

\* Where the disk has no block for a word of the old file, it was 0.
NoOldLost ==
    Writing => \A k \in 1 .. OldSize : Pointer(w.inum, PlaceOf(k)) = 0 => before[k] = 0

\* When write returns, a prefix of its words is in the file.
StoredAPrefix ==
    pc = "returned" =>
        \E j \in 0 .. w.length :
            /\ inodes[w.inum].size = Larger(OldSize, w.offset + j)
            /\ \A k \in 1 .. inodes[w.inum].size : DiskWord(w.inum, k) = Wanted(j, k)

RInv ==
    /\ SizesFit /\ NamedThere /\ Position /\ SavedInode /\ SavedTable
    /\ HandsWords /\ NoOldLost /\ StoredAPrefix

\* All that is known before a step.
Known == SInv /\ FInv /\ RInv

\* Before the words are looked at: the numbers behind k.
LEMMA PlaceRange ==
    ASSUME NEW k \in Nat \ {0}
    PROVE  /\ PlaceOf(k) \in Nat /\ (k - 1) % BLOCK_SIZE \in 0 .. POINTERS_PER_BLOCK - 1
           /\ k - 1 = PlaceOf(k) * BLOCK_SIZE + ((k - 1) % BLOCK_SIZE)
           /\ k =< MaxFileBlocks * BLOCK_SIZE =>
                 PlaceOf(k) \in Slots /\ PlaceOf(k) # MaxFileBlocks
<1> DEFINE b == BLOCK_SIZE  q == (k - 1) \div b  r == (k - 1) % b
<1>1. b \in Nat \ {0} /\ b = POINTERS_PER_BLOCK /\ MaxFileBlocks \in Nat
  BY Numbers DEF BLOCK_SIZE
<1>2. q \in Nat /\ r \in 0 .. b - 1 /\ k - 1 = b * q + r
  <2> HIDE DEF b
  <2> QED  BY <1>1
<1> HIDE DEF b, q, r
<1>3. k - 1 = q * b + r
  BY <1>1, <1>2
<1>4. ASSUME k =< MaxFileBlocks * b  PROVE q < MaxFileBlocks
  <2> SUFFICES ASSUME MaxFileBlocks =< q  PROVE FALSE
    BY <1>1, <1>2
  <2>1. PICK x \in Nat : q = MaxFileBlocks + x
    <3>1. q - MaxFileBlocks \in Nat /\ q = MaxFileBlocks + (q - MaxFileBlocks)
      BY <1>1, <1>2
    <3> QED  BY <3>1
  <2>2. q * b = MaxFileBlocks * b + x * b /\ x * b \in Nat /\ MaxFileBlocks * b \in Nat
    BY <1>1, <2>1
  <2> QED  BY <1>1, <1>2, <1>3, <1>4, <2>2
<1>5. k =< MaxFileBlocks * b => q \in Slots /\ q # MaxFileBlocks
  BY <1>1, <1>2, <1>4 DEF Slots
<1>6. r \in 0 .. POINTERS_PER_BLOCK - 1 /\ q \in Nat
  BY <1>1, <1>2
<1>7. PlaceOf(k) = q /\ (k - 1) % BLOCK_SIZE = r /\ BLOCK_SIZE = b
  BY DEF PlaceOf, q, r, b
<1> QED  BY <1>3, <1>5, <1>6, <1>7

\* What SInv and FInv say of the file that write is at work on.
LEMMA AtWork ==
    ASSUME Known, InWrite
    PROVE  /\ w.inum \in Inumber /\ w \in Locals /\ TypeOK /\ TInv /\ FInv /\ RInv
           /\ w.inode \in Inode /\ inodes[w.inum] \in Inode
           /\ w.offset \in Nat /\ w.written \in Nat /\ w.length \in Nat /\ w.block_num \in Nat
           /\ w.written =< w.length /\ w.offset =< OldSize
           /\ OldSize \in Nat /\ NewSize \in Nat /\ OldSize =< NewSize
           /\ w.offset + w.written =< NewSize
           /\ \A k \in Nat : k =< NewSize => k =< OldSize \/ k =< w.offset + w.written
           /\ before \in [1 .. OldSize -> Word]
           /\ Writing => InodeOf(w.inum) = w.inode
           /\ Writing => NewSize =< MaxFileBlocks * BLOCK_SIZE
           /\ OldSize =< MaxFileBlocks * BLOCK_SIZE \/ pc = "returned"
<1>1. w.inum \in Inumber /\ w \in Locals /\ TypeOK /\ TInv /\ FInv /\ RInv
      /\ w.written =< w.length /\ w.offset =< OldSize
  BY DEF Known, SInv, TInv, TypeOK, Progress, RInv, NamedThere
<1>2. w.inode \in Inode /\ inodes[w.inum] \in Inode
  BY <1>1 DEF Locals, TypeOK
<1>3. before \in Seq(Word)
  BY DEF Known, RInv, NamedThere
<1>4. OldSize \in Nat /\ before \in [1 .. OldSize -> Word]
  BY <1>3, LenProperties DEF OldSize
<1>5. w.offset \in Nat /\ w.written \in Nat /\ w.length \in Nat /\ w.block_num \in Nat
  BY <1>1 DEF Locals
<1>6. /\ NewSize \in Nat /\ OldSize =< NewSize /\ w.offset + w.written =< NewSize
      /\ \A k \in Nat : k =< NewSize => k =< OldSize \/ k =< w.offset + w.written
      /\ NewSize = OldSize \/ NewSize = w.offset + w.written
  BY <1>4, <1>5 DEF NewSize, Larger
<1>7. Writing => InodeOf(w.inum) = w.inode
  BY DEF InodeOf
<1>8. ASSUME Writing
      PROVE  NewSize =< MaxFileBlocks * BLOCK_SIZE
  <2>1. w.offset + w.written =< MaxFileBlocks * BLOCK_SIZE
        /\ inodes[w.inum].size =< MaxFileBlocks * BLOCK_SIZE
    BY <1>1, <1>8 DEF RInv, SizesFit
  <2>2. inodes[w.inum].size = OldSize \/ inodes[w.inum].size = NewSize
    BY <1>1, <1>8 DEF RInv, SavedInode, Writing
  <2> QED  BY <1>6, <2>1, <2>2
<1>9. OldSize =< MaxFileBlocks * BLOCK_SIZE \/ pc = "returned"
  <2>1. Writing \/ pc = "returned"
    BY DEF InWrite, Writing
  <2>2. MaxFileBlocks * BLOCK_SIZE \in Nat
    BY Numbers
  <2> QED  BY <1>4, <1>6, <1>8, <2>1, <2>2
<1> QED  BY <1>1, <1>2, <1>4, <1>5, <1>6, <1>7, <1>8, <1>9

\* A file whose inode and pointers stay, and whose blocks do, has the same words.
LEMMA SameWords ==
    ASSUME NEW i \in Inumber, inodes[i] \in Inode, inodes[i].size =< MaxFileBlocks * BLOCK_SIZE,
           inodes'[i].size = inodes[i].size,
           \A s \in Slots : Pointer(i, s)' = Pointer(i, s),
           \A s \in Slots : (s # MaxFileBlocks /\ Pointer(i, s) \in Blocks \ {0})
                               => block'[Pointer(i, s)] = block[Pointer(i, s)]
    PROVE  Contents(i)' = Contents(i)
<1>1. inodes[i].size \in Nat
  BY Numbers DEF Inode
<1>2. ASSUME NEW k \in 1 .. inodes[i].size
      PROVE  WordIn(Pointer(i, PlaceOf(k))', block', k) = WordIn(Pointer(i, PlaceOf(k)), block, k)
  <2>1. PlaceOf(k) \in Slots /\ PlaceOf(k) # MaxFileBlocks
    <3>1. k \in Nat \ {0} /\ k =< inodes[i].size
      BY <1>1
    <3>2. k =< MaxFileBlocks * BLOCK_SIZE
      BY <1>1, <3>1, Numbers
    <3> QED  BY <3>1, <3>2, PlaceRange
  <2> QED  BY <2>1 DEF WordIn
<1> QED  BY <1>2 DEF Contents, WordIn, PlaceOf, BLOCK_SIZE, Blocks

\* The words of a file are those that DiskWord finds.
LEMMA WordsOnDisk ==
    ASSUME NEW i \in Inumber
    PROVE  Contents(i) = [k \in 1 .. inodes[i].size |-> DiskWord(i, k)]
  BY DEF Contents, DiskWord, WordIn, PlaceOf

LEMMA WordsOnDiskNext ==
    ASSUME NEW i \in Inumber
    PROVE  Contents(i)' = [k \in 1 .. inodes'[i].size |-> DiskWord(i, k)']
  BY DEF Contents, DiskWord, WordIn, PlaceOf, BLOCK_SIZE, Blocks

\* A step that changes one block and one inode, which write has, leaves the
\* other files alone.
LEMMA OtherFiles ==
    ASSUME Known, NEW n \in Inumber, NEW c,
           \A d \in Blocks : d # c => block'[d] = block[d],
           \A i \in Inumber \ {n} : inodes'[i] = inodes[i],
           \A i \in Inumber \ {n} : \A s \in Slots : Pointer(i, s)' = Pointer(i, s),
           \A i \in Inumber \ {n} : \A s \in Slots : Held(i, s) # 0 => Held(i, s) # c
    PROVE  \A i \in Inumber \ {n} : Contents(i)' = Contents(i)
<1> SUFFICES ASSUME NEW i \in Inumber \ {n}  PROVE Contents(i)' = Contents(i)
  OBVIOUS
<1>1. inodes[i] \in Inode /\ inodes[i].size =< MaxFileBlocks * BLOCK_SIZE
  BY DEF Known, SInv, TInv, TypeOK, RInv, SizesFit
<1>2. \A s \in Slots : Pointer(i, s) = 0 \/ Pointer(i, s) = Held(i, s)
  BY DEF Known, FInv, DiskHeld
<1> QED  BY <1>1, <1>2, SameWords

\* A step inside write is a stutter of FileStore: the file that is written stays
\* what it was before, and the others do not change.
LEMMA InsideStutters ==
    ASSUME Known, InWrite, InWrite', UNCHANGED <<before, w.inum, w.offset, w.length, w.word>>,
           \A i \in Inumber : inodes'[i].valid = inodes[i].valid,
           \A i \in Inumber \ {w.inum} : Contents(i)' = Contents(i)
    PROVE  UNCHANGED Store!vars
<1>1. files' = files
  BY DEF files
<1>2. op' = op
  BY DEF op
<1> QED  BY <1>1, <1>2 DEF Store!vars

\* So is a step outside of write that leaves the files alone.
LEMMA OutsideStutters ==
    ASSUME Known, ~InWrite, ~InWrite', inodes' = inodes, block' = block
    PROVE  UNCHANGED Store!vars
<1>1. \A i \in Inumber : Contents(i)' = Contents(i)
  <2> SUFFICES ASSUME NEW i \in Inumber  PROVE Contents(i)' = Contents(i)
    OBVIOUS
  <2>1. \A s \in Slots : Pointer(i, s)' = Pointer(i, s)
    BY OnDisk
  <2>2. inodes[i] \in Inode /\ inodes[i].size =< MaxFileBlocks * BLOCK_SIZE
    BY DEF Known, SInv, TInv, TypeOK, RInv, SizesFit
  <2> QED  BY <2>1, <2>2, SameWords
<1>2. files' = files
  BY <1>1 DEF files
<1>3. op' = op
  BY DEF op
<1> QED  BY <1>2, <1>3 DEF Store!vars

\* Outside of write the rest of RInv is about the sizes and copyin.
LEMMA OutsideKnown ==
    ASSUME Known, ~InWrite',
           \A i \in Inumber : inodes'[i].size =< MaxFileBlocks * BLOCK_SIZE,
           pc' = "copyin" => /\ w'.inum \in Inumber /\ inodes'[w'.inum].valid
                             /\ w'.word \in Data /\ ~w'.modified_indirect
    PROVE  RInv'
<1>1. SizesFit' /\ NamedThere'
  BY DEF SizesFit, NamedThere, InWrite, Writing, MaxFileBlocks, BLOCK_SIZE
<1>2. Position' /\ SavedInode' /\ SavedTable' /\ HandsWords' /\ NoOldLost' /\ StoredAPrefix'
  BY DEF Position, SavedInode, SavedTable, HandsWords, NoOldLost, StoredAPrefix, InWrite, Writing,
         InLoop
<1> QED  BY <1>1, <1>2 DEF RInv

\* The words that write is concerned with are in places of the inode.
LEMMA WordsHavePlaces ==
    ASSUME Known, Writing
    PROVE  \A k \in 1 .. NewSize :
              /\ k \in Nat \ {0} /\ k =< NewSize /\ k =< MaxFileBlocks * BLOCK_SIZE
              /\ PlaceOf(k) \in Slots /\ PlaceOf(k) # MaxFileBlocks
              /\ (k - 1) % BLOCK_SIZE \in 0 .. POINTERS_PER_BLOCK - 1
<1> SUFFICES ASSUME NEW k \in 1 .. NewSize
             PROVE  /\ k \in Nat \ {0} /\ k =< NewSize /\ k =< MaxFileBlocks * BLOCK_SIZE
                    /\ PlaceOf(k) \in Slots /\ PlaceOf(k) # MaxFileBlocks
                    /\ (k - 1) % BLOCK_SIZE \in 0 .. POINTERS_PER_BLOCK - 1
  OBVIOUS
<1>1. NewSize \in Nat /\ NewSize =< MaxFileBlocks * BLOCK_SIZE
  BY AtWork DEF InWrite, Writing
<1>2. MaxFileBlocks * BLOCK_SIZE \in Nat
  BY Numbers
<1>3. k \in Nat \ {0} /\ k =< NewSize /\ k =< MaxFileBlocks * BLOCK_SIZE
  BY <1>1, <1>2
<1> QED  BY <1>3, PlaceRange

\* The loop of write leaves what was there before, and the disk's pointers.
LEMMA OldKept ==
    ASSUME Known, Writing, Writing', KeepsPointers, UNCHANGED <<before, w.inum>>
    PROVE  NoOldLost'
<1>1. w.inum \in Inumber /\ InWrite /\ pc # "returned"
  BY AtWork DEF InWrite, Writing
<1>2. \A k \in 1 .. OldSize : PlaceOf(k) \in Slots
  BY <1>1, AtWork, WordsHavePlaces
<1>3. \A k \in 1 .. OldSize : Pointer(w.inum, PlaceOf(k)) = 0 => before[k] = 0
  BY DEF Known, RInv, NoOldLost
<1>4. ASSUME NEW k \in 1 .. OldSize  PROVE Pointer(w.inum, PlaceOf(k))' = Pointer(w.inum, PlaceOf(k))
  BY <1>1, <1>2 DEF KeepsPointers, PlaceOf, BLOCK_SIZE
<1> QED  BY <1>3, <1>4 DEF NoOldLost, OldSize, PlaceOf, BLOCK_SIZE

\* A place that is filled shows zeros, as it did when it was empty.
LEMMA TakesWords ==
    ASSUME Known, Writing, Writing', NEW b \in free_bitmap, NEW t \in Slots, Takes(w.inum, t, b),
           UNCHANGED <<before, w.inum, w.offset, w.written, w.length, w.word>>
    PROVE  HandsWords' /\ NoOldLost' /\ UNCHANGED Store!vars
<1>0. InWrite /\ InWrite' /\ pc # "returned"
  BY DEF InWrite, Writing
<1>1. PICK n \in Inumber : n = w.inum /\ n = w'.inum
  BY <1>0, AtWork
<1>2. b \in Blocks \ {0} /\ block'[b] = ZeroBlock /\ UNCHANGED inodes
      /\ \A d \in Blocks : d # b => block'[d] = block[d]
  <2>1. AllocateFreeBlock(b) /\ TInv /\ FInv
    BY DEF Known, SInv, Takes
  <2>2. b \in Blocks \ {0} /\ block' = [block EXCEPT ![b] = ZeroBlock] /\ UNCHANGED inodes
    BY <2>1, AllocatedData
  <2> QED  BY <2>1, <2>2 DEF TInv, TypeOK
<1>3. \A i \in Inumber : \A s \in Slots : Held(i, s) # 0 => Held(i, s) # b
  BY HeldBlocks DEF Known, SInv
<1>4. ASSUME NEW k \in 1 .. NewSize  PROVE HeldWord(n, k)' = HeldWord(n, k)
  <2>1. PlaceOf(k) \in Slots /\ (k - 1) % BLOCK_SIZE \in 0 .. POINTERS_PER_BLOCK - 1
    BY WordsHavePlaces
  <2>2. CASE PlaceOf(k) = t
    <3>1. WordIn(b, block', k) = 0
      BY <1>2, <2>1 DEF WordIn, ZeroBlock
    <3>2. Held(n, t) = 0 /\ Held(n, t)' = b
      BY <1>1 DEF Takes
    <3> QED  BY <2>2, <3>1, <3>2 DEF HeldWord, WordIn, PlaceOf, BLOCK_SIZE, Blocks
  <2>3. CASE PlaceOf(k) # t
    <3>1. Held(n, PlaceOf(k))' = Held(n, PlaceOf(k))
      BY <1>1, <2>1, <2>3 DEF Takes, PlaceOf, BLOCK_SIZE
    <3>2. Held(n, PlaceOf(k)) \in Blocks \ {0}
             => block'[Held(n, PlaceOf(k))] = block[Held(n, PlaceOf(k))]
      BY <1>2, <1>3, <2>1
    <3> QED  BY <3>1, <3>2 DEF HeldWord, WordIn, PlaceOf, BLOCK_SIZE, Blocks
  <2> QED  BY <2>2, <2>3
<1>5. HandsWords'
  <2>1. NewSize' = NewSize /\ \A k \in 1 .. NewSize : Wanted(w.written, k)' = Wanted(w.written, k)
    BY DEF NewSize, OldSize, Larger, Wanted
  <2>2. \A k \in 1 .. NewSize : HeldWord(n, k) = Wanted(w.written, k)
    BY <1>1 DEF Known, RInv, HandsWords
  <2> QED  BY <1>1, <1>4, <2>1, <2>2 DEF HandsWords
<1>6. NoOldLost'
  BY OldKept DEF Takes
<1>7. \A i \in Inumber \ {n} : Contents(i)' = Contents(i)
  BY <1>2, <1>3, OtherFiles DEF Takes, KeepsPointers
<1>8. UNCHANGED Store!vars
  BY <1>0, <1>1, <1>2, <1>7, InsideStutters
<1> QED  BY <1>5, <1>6, <1>8

\* What an allocation leaves of what write has.
LEMMA AllocateLeaves ==
    ASSUME TInv, AllocateDirect \/ AllocateIndirect \/ AllocateData
    PROVE  /\ UNCHANGED <<w.inum, w.offset, w.written, w.length, w.word, w.block_num, w.read_indirect>>
           /\ w'.inode.size = w.inode.size /\ w'.inode.valid = w.inode.valid
           /\ \/ w'.modified_inode
              \/ w'.modified_inode = w.modified_inode /\ w'.inode.direct = w.inode.direct
<1>1. w \in Locals /\ w.inode \in Inode
  BY DEF TInv, TypeOK, Locals
<1>2. CASE AllocateDirect
  <2>1. PICK c : w' = [w EXCEPT !.inode.direct[w.block_num] = c, !.modified_inode = TRUE]
    BY <1>2 DEF AllocateDirect
  <2>2. w'.inode = [w.inode EXCEPT !.direct[w.block_num] = c]
    BY <1>1, <2>1 DEF Locals
  <2> QED  BY <1>1, <2>1, <2>2 DEF Locals, Inode
<1>3. CASE AllocateIndirect
  <2>1. PICK c : w' = [w EXCEPT !.inode.indirect = c, !.modified_indirect = TRUE]
    BY <1>3 DEF AllocateIndirect
  <2>2. w'.inode = [w.inode EXCEPT !.indirect = c]
    BY <1>1, <2>1 DEF Locals
  <2> QED  BY <1>1, <2>1, <2>2 DEF Locals, Inode
<1>4. CASE AllocateData
  BY <1>1, <1>4 DEF AllocateData, Locals
<1> QED  BY <1>2, <1>3, <1>4

LEMMA AllocateFiles ==
    ASSUME Known, AllocateDirect \/ AllocateIndirect \/ AllocateData, before' = before
    PROVE  RInv' /\ UNCHANGED Store!vars
<1>0. pc = "loop" /\ pc' = "loop" /\ InLoop /\ Writing /\ InWrite
  BY DEF AllocateDirect, AllocateIndirect, AllocateData, InLoop, Writing, InWrite
<1>1. PICK b \in free_bitmap, t \in Slots : Takes(w.inum, t, b) /\ AtHand(t)
  BY AllocateDirectHeld, AllocateIndirectHeld, AllocateDataHeld DEF Known, SInv
<1>a. UNCHANGED inodes
  BY <1>0, <1>1, AllocatedData DEF Known, SInv, Takes
<1>2. w \in Locals /\ w.inum \in Inumber /\ w.inode \in Inode /\ RInv
  BY <1>0, AtWork
<1>3. /\ UNCHANGED <<w.inum, w.offset, w.written, w.length, w.word, w.block_num, w.read_indirect>>
      /\ w'.inode.size = w.inode.size /\ w'.inode.valid = w.inode.valid
      /\ \/ w'.modified_inode
         \/ w'.modified_inode = w.modified_inode /\ w'.inode.direct = w.inode.direct
  BY AllocateLeaves DEF Known, SInv
<1>4. HandsWords' /\ NoOldLost' /\ UNCHANGED Store!vars
  BY <1>0, <1>1, <1>3, TakesWords DEF Writing
<1>5. SizesFit' /\ NamedThere' /\ Position' /\ SavedInode' /\ StoredAPrefix'
  <2> USE <1>0, <1>2, <1>3, <1>a DEF RInv
  <2>1. SizesFit'
    BY DEF SizesFit, Writing, BLOCK_SIZE, MaxFileBlocks
  <2>2. NamedThere'
    BY DEF NamedThere, InWrite, Writing, OldSize
  <2>3. Position'
    BY DEF Position, BLOCK_SIZE, write_offset
  <2>4. SavedInode'
    BY DEF SavedInode, OldSize
  <2>5. StoredAPrefix'
    BY DEF StoredAPrefix
  <2> QED  BY <2>1, <2>2, <2>3, <2>4, <2>5
<1>6. SavedTable'
  <2>1. InLoop'
    BY <1>0, <1>3 DEF InLoop, MaxFileBlocks
  <2>2. CASE AllocateDirect
    <3>1. w'.modified_indirect = w.modified_indirect /\ w'.indirect = w.indirect
          /\ w'.inode.indirect = w.inode.indirect /\ IsDirect
      <4>1. PICK c : w' = [w EXCEPT !.inode.direct[w.block_num] = c, !.modified_inode = TRUE]
        BY <2>2 DEF AllocateDirect
      <4>2. w'.inode = [w.inode EXCEPT !.direct[w.block_num] = c]
        BY <1>2, <4>1 DEF Locals
      <4> QED  BY <1>2, <2>2, <4>1, <4>2 DEF AllocateDirect, Locals, Inode
    <3>2. w.read_indirect => block'[w.inode.indirect] = block[w.inode.indirect]
      BY <1>0, <1>1, <1>2, TakeBlock DEF Known, SInv, Takes
    <3>3. IsDirect' = IsDirect
      BY <1>3 DEF IsDirect
    <3> QED  BY <1>0, <1>2, <1>3, <2>1, <3>1, <3>2, <3>3 DEF RInv, SavedTable, Writing
  <2>3. CASE AllocateIndirect \/ AllocateData
    <3>1. w'.modified_indirect /\ ~IsDirect /\ IsDirect' = IsDirect
      BY <1>2, <1>3, <2>3 DEF AllocateIndirect, AllocateData, Locals, IsDirect
    <3> QED  BY <1>0, <2>1, <3>1 DEF SavedTable
  <2> QED  BY <2>2, <2>3
<1> QED  BY <1>4, <1>5, <1>6 DEF RInv

LEMMA ReadIndirectFiles ==
    ASSUME Known, ReadIndirect, before' = before
    PROVE  RInv' /\ UNCHANGED Store!vars
<1>0. pc = "loop" /\ pc' = "loop" /\ InLoop /\ Writing /\ Writing' /\ InWrite /\ InWrite'
      /\ UNCHANGED disk
  BY DEF ReadIndirect, InLoop, Writing, InWrite
<1>1. w \in Locals /\ RInv /\ w.inum \in Inumber
  BY <1>0, AtWork
<1>2. /\ UNCHANGED <<w.inum, w.offset, w.written, w.length, w.word, w.block_num,
                     w.inode, w.modified_inode, w.modified_indirect>>
      /\ w'.read_indirect /\ w'.indirect = block[w.inode.indirect]
  <2>1. w.inode.indirect # 0 /\ InodeOf(w.inum) = w.inode
    BY <1>0, <1>1 DEF ReadIndirect, InodeOf
  <2>2. Words(w.inode.indirect) = block[w.inode.indirect]
    BY <1>0, <1>1, <2>1, LastPlace, HeldBlocks DEF Known, SInv
  <2> QED  BY <1>1, <2>2 DEF ReadIndirect, Locals
<1>3. KeepsHeld /\ KeepsPointers
  BY ReadIndirectHeld DEF Known, SInv
<1>4. HandsWords'
  <2>1. \A k \in 1 .. NewSize : PlaceOf(k) \in Slots
    BY <1>0, WordsHavePlaces
  <2>2. NewSize' = NewSize
    BY <1>2 DEF NewSize, OldSize, Larger
  <2>3. ASSUME NEW k \in 1 .. NewSize
        PROVE  HeldWord(w.inum, k)' = HeldWord(w.inum, k) /\ Wanted(w.written, k)' = Wanted(w.written, k)
    <3>1. Held(w.inum, PlaceOf(k))' = Held(w.inum, PlaceOf(k))
      BY <1>1, <1>2, <1>3, <2>1 DEF KeepsHeld, PlaceOf, BLOCK_SIZE
    <3> QED  BY <1>0, <1>2, <3>1 DEF HeldWord, WordIn, PlaceOf, BLOCK_SIZE, Blocks, Wanted, disk
  <2> QED  BY <1>0, <1>1, <2>2, <2>3 DEF RInv, HandsWords
<1>5. NoOldLost'
  BY <1>0, <1>2, <1>3, OldKept
<1>6. UNCHANGED Store!vars
  <2>1. \A i \in Inumber \ {w.inum} : Contents(i)' = Contents(i)
    BY <1>0, <1>1, <1>3, OtherFiles, HeldBlocks DEF KeepsPointers, disk
  <2> QED  BY <1>0, <1>2, <2>1, InsideStutters DEF disk
<1>7. SizesFit' /\ NamedThere' /\ Position' /\ SavedInode' /\ SavedTable' /\ StoredAPrefix'
  <2> USE <1>0, <1>1, <1>2 DEF RInv, disk
  <2>1. SizesFit'
    BY DEF SizesFit, Writing, BLOCK_SIZE, MaxFileBlocks
  <2>2. NamedThere'
    BY DEF NamedThere, InWrite, Writing, OldSize
  <2>3. Position'
    BY DEF Position, BLOCK_SIZE, write_offset
  <2>4. SavedInode'
    BY DEF SavedInode, OldSize
  <2>5. SavedTable' /\ StoredAPrefix'
    BY DEF SavedTable, StoredAPrefix
  <2> QED  BY <2>1, <2>2, <2>3, <2>4, <2>5
<1> QED  BY <1>4, <1>5, <1>6, <1>7 DEF RInv

\* The words of a file form a sequence, which is not the one that means no file.
LEMMA WordsAreSeqs ==
    ASSUME TInv, NEW i \in Inumber
    PROVE  /\ Contents(i) \in Seq(Word) /\ Len(Contents(i)) = inodes[i].size
           /\ inodes[i].size \in Nat /\ Contents(i) # <<-1>>
           /\ \A k \in 1 .. inodes[i].size : Contents(i)[k] = DiskWord(i, k)
<1>1. inodes[i] \in Inode /\ inodes[i].size \in Nat
  BY Numbers DEF TInv, TypeOK, Inode
<1>2. ASSUME NEW k \in 1 .. inodes[i].size  PROVE DiskWord(i, k) \in Word
  <2>1. k \in Nat \ {0}
    BY <1>1
  <2>2. (k - 1) % BLOCK_SIZE \in 0 .. POINTERS_PER_BLOCK - 1
    BY <2>1, PlaceRange
  <2> QED  BY <2>2 DEF DiskWord, WordIn, TInv, TypeOK, Block, Word
<1>3. Contents(i) = [k \in 1 .. inodes[i].size |-> DiskWord(i, k)]
  BY WordsOnDisk
<1>4. Contents(i) \in [1 .. inodes[i].size -> Word]
  BY <1>2, <1>3
<1>5. Contents(i) \in Seq(Word)
  BY <1>1, <1>4, SeqDef
<1>6. Len(Contents(i)) = inodes[i].size
  <2>1. DOMAIN Contents(i) = 1 .. Len(Contents(i)) /\ Len(Contents(i)) \in Nat
    BY <1>5, LenProperties
  <2>2. DOMAIN Contents(i) = 1 .. inodes[i].size
    BY <1>3
  <2> QED  BY <1>1, <2>1, <2>2
<1>7. Contents(i) # <<-1>>
  <2> SUFFICES ASSUME Contents(i) = <<-1>>  PROVE FALSE
    OBVIOUS
  <2>1. Len(Contents(i)) = 1 /\ Contents(i)[1] = -1
    OBVIOUS
  <2>2. Contents(i)[1] \in Word
    BY <1>4, <1>6, <2>1
  <2> QED  BY <2>1, <2>2 DEF Word
<1> QED  BY <1>1, <1>3, <1>5, <1>6, <1>7

\* What write is called with.
LEMMA Asked ==
    ASSUME Known, Write
    PROVE  /\ pc = "copyin" /\ pc' = "loop" /\ UNCHANGED <<disk, memory>>
           /\ w.inum \in Inumber /\ w.offset \in Nat /\ w.word \in Data
           /\ inodes[w.inum].valid /\ w.offset =< inodes[w.inum].size
           /\ w'.inode = inodes[w.inum] /\ w'.written = 0
           /\ w'.block_num = w.offset \div BLOCK_SIZE /\ w'.length \in 0 .. CHUNK
           /\ UNCHANGED <<w.inum, w.offset, w.word, w.modified_indirect, w.read_indirect>>
           /\ ~w.modified_indirect /\ ~w.read_indirect
<1>1. TInv /\ w \in Locals /\ pc = "copyin" /\ pc' = "loop" /\ UNCHANGED <<disk, memory>>
  BY DEF Known, SInv, TInv, TypeOK, Write
<1>2. /\ w.inum \in Inumber /\ inodes[w.inum] \in Inode
      /\ w.offset =< inodes[w.inum].size /\ inodes[w.inum].size \in Nat
  BY <1>1, WriteStarts
<1>3. /\ w'.inode = inodes[w.inum] /\ w'.written = 0
      /\ w'.block_num = w.offset \div BLOCK_SIZE
      /\ w'.length = Smaller(Chunk, MAX_FILE_SIZE - w.offset)
      /\ UNCHANGED <<w.inum, w.offset, w.word, w.modified_indirect, w.read_indirect>>
  BY <1>1 DEF Write, Locals, TInv, Progress
<1>4. w'.length \in 0 .. CHUNK
  <2>1. w.offset \in Nat /\ w.len \in Nat /\ w.offset =< w.len /\ w.offset =< MAX_FILE_SIZE
    BY <1>1, <1>2, Numbers DEF TInv, Progress, Locals, Inode
  <2>2. Chunk \in 0 .. CHUNK
    BY <2>1, Numbers DEF Chunk, Smaller
  <2> QED  BY <1>3, <2>1, <2>2, Numbers DEF Smaller
<1>5. w.word \in Data /\ inodes[w.inum].valid /\ ~w.modified_indirect /\ ~w.read_indirect
  BY <1>1 DEF Known, RInv, NamedThere, SavedTable, FInv, InHand
<1>6. w.offset \in Nat
  BY <1>1 DEF Locals
<1> QED  BY <1>1, <1>2, <1>3, <1>4, <1>5, <1>6

LEMMA BeginFiles ==
    ASSUME Known, Write, before' = Contents(w.inum)
    PROVE  RInv' /\ Store!Next
<1>1. PICK n \in Inumber : n = w.inum
  BY Asked
<1> DEFINE size == inodes[n].size
<1>2. /\ before' \in Seq(Word) /\ OldSize' = size /\ size \in Nat /\ w.offset =< size
      /\ \A k \in 1 .. size : before'[k] = DiskWord(n, k)
  BY <1>1, Asked, WordsAreSeqs DEF OldSize, Known, SInv
<1>3. NewSize' = size
  BY <1>2, Asked DEF NewSize, OldSize, Larger
<1>4. TInv /\ ~Writing /\ Writing' /\ ~InWrite /\ InWrite' /\ KeepsHeld /\ KeepsPointers
  BY Asked, BeginHeld DEF Known, SInv, Writing, InWrite
<1>5. size =< MaxFileBlocks * BLOCK_SIZE /\ MaxFileBlocks * BLOCK_SIZE \in Nat
      /\ MaxFileBlocks \in Nat /\ BLOCK_SIZE \in Nat \ {0}
  BY Numbers DEF Known, RInv, SizesFit
<1>6. ASSUME NEW k \in 1 .. size  PROVE PlaceOf(k) \in Slots
  <2>1. k \in Nat \ {0} /\ k =< MaxFileBlocks * BLOCK_SIZE
    BY <1>2, <1>5
  <2> QED  BY <2>1, PlaceRange
<1>7. HandsWords'
  <2>1. ASSUME NEW k \in 1 .. size
        PROVE  HeldWord(n, k)' = before'[k] /\ Wanted(w.written, k)' = before'[k]
    <3>1. Held(n, PlaceOf(k))' = Pointer(n, PlaceOf(k))
      BY <1>4, <1>6, NotWriting DEF KeepsHeld, PlaceOf, BLOCK_SIZE
    <3>2. HeldWord(n, k)' = DiskWord(n, k)
      BY <3>1, Asked DEF HeldWord, DiskWord, WordIn, PlaceOf, BLOCK_SIZE, Blocks, disk
    <3>3. Wanted(w.written, k)' = before'[k]
      BY <1>2, Asked DEF Wanted
    <3> QED  BY <1>2, <3>2, <3>3
  <2> QED  BY <1>1, <1>3, <2>1, Asked DEF HandsWords
<1>8. NoOldLost'
  <2>1. ASSUME NEW k \in 1 .. size, Pointer(n, PlaceOf(k))' = 0  PROVE before'[k] = 0
    <3>1. Pointer(n, PlaceOf(k)) = 0
      BY <1>4, <1>6, <2>1 DEF KeepsPointers, PlaceOf, BLOCK_SIZE
    <3> QED  BY <1>2, <3>1 DEF DiskWord, WordIn
  <2> QED  BY <1>1, <1>2, <2>1, Asked DEF NoOldLost
<1>9. SizesFit'
  <2>1. w.offset \div BLOCK_SIZE =< MaxFileBlocks /\ w.offset =< MaxFileBlocks * BLOCK_SIZE
    <3>1. w.offset \in Nat /\ w.offset =< MaxFileBlocks * BLOCK_SIZE
      BY <1>1, <1>2, <1>5, Asked
    <3>2. FileBlocks(w.offset) =< MaxFileBlocks /\ FileBlocks(w.offset) \in Nat
          /\ w.offset \div BLOCK_SIZE =< FileBlocks(w.offset)
      BY <1>5, <3>1, BlocksOf
    <3>3. w.offset \div BLOCK_SIZE \in Nat
      BY <1>5, <3>1
    <3> QED  BY <1>5, <3>1, <3>2, <3>3
  <2>2. w'.offset + w'.written = w.offset /\ w'.block_num = w.offset \div BLOCK_SIZE
    BY Asked
  <2>3. \A i \in Inumber : inodes'[i].size =< MaxFileBlocks * BLOCK_SIZE
    BY Asked DEF Known, RInv, SizesFit, disk
  <2> QED  BY <2>1, <2>2, <2>3 DEF SizesFit, MaxFileBlocks, BLOCK_SIZE
<1>10. NamedThere'
  BY <1>1, <1>2, Asked DEF NamedThere, disk
<1>11. Position'
  <2>1. w.offset = (w.offset \div BLOCK_SIZE) * BLOCK_SIZE + (w.offset % BLOCK_SIZE)
    <3> DEFINE b == BLOCK_SIZE
    <3>1. b \in Nat \ {0} /\ w.offset \in Nat
      BY <1>5, Asked
    <3> HIDE DEF b
    <3>2. w.offset = (w.offset \div b) * b + (w.offset % b)
      BY <3>1
    <3> QED  BY <3>2 DEF b
  <2>2. write_offset' = w.offset % BLOCK_SIZE
    BY Asked DEF write_offset, BLOCK_SIZE
  <2>3. w'.offset + w'.written = w.offset /\ w'.block_num = w.offset \div BLOCK_SIZE
    BY Asked
  <2> QED  BY <2>1, <2>2, <2>3 DEF Position, BLOCK_SIZE
<1>12. SavedInode' /\ SavedTable' /\ StoredAPrefix'
  BY <1>1, <1>2, Asked DEF SavedInode, SavedTable, StoredAPrefix, disk
<1>13. Store!Next
  <2>1. files[n] = Contents(n) /\ op = NoOp
    BY <1>1, <1>4, Asked DEF files, op
  <2>2. files' = files
    <3>1. ASSUME NEW i \in Inumber  PROVE Contents(i)' = Contents(i)
      <4>1. inodes[i] \in Inode /\ inodes[i].size =< MaxFileBlocks * BLOCK_SIZE
        BY <1>4 DEF Known, TInv, TypeOK, RInv, SizesFit
      <4> QED  BY <1>4, <4>1, Asked, SameWords DEF KeepsPointers, disk
    <3>2. inodes' = inodes /\ w'.inum = n
      BY <1>1, Asked DEF disk
    <3> QED  BY <1>1, <1>4, <3>1, <3>2 DEF files
  <2>3. op' = [inum |-> n, offset |-> w.offset, length |-> w'.length, word |-> w.word]
    BY <1>1, <1>4, Asked DEF op
  <2>4. files[n] # <<-1>> /\ Len(files[n]) = size
    BY <1>4, <2>1, WordsAreSeqs
  <2>5. Store!BeginWrite(n, w.offset, w'.length, w.word)
    BY <2>1, <2>2, <2>3, <2>4 DEF Store!BeginWrite, Store!NoFile, Store!NoOp, NoOp
  <2>6. w'.length \in 0 .. CHUNK /\ w.word \in Data /\ w.offset \in 0 .. Len(files[n])
    BY <1>1, <1>2, <2>4, Asked
  <2> QED  BY <2>5, <2>6 DEF Store!Next
<1> QED  BY <1>7, <1>8, <1>9, <1>10, <1>11, <1>12, <1>13 DEF RInv

\* The k-th word of a file is in the block between whose ends it lies.
LEMMA PlaceBetween ==
    ASSUME NEW k \in Nat \ {0}, NEW t \in Nat,
           t * BLOCK_SIZE =< k - 1, k - 1 < t * BLOCK_SIZE + BLOCK_SIZE
    PROVE  PlaceOf(k) = t
<1> DEFINE b == BLOCK_SIZE
<1>1. b \in Nat \ {0}
  BY Numbers
<1> HIDE DEF b
<1>2. t * b =< k - 1 /\ k - 1 < t * b + b
  BY DEF b
<1>3. (k - 1) \div b = t
  BY <1>1, <1>2
<1> QED  BY <1>3 DEF PlaceOf, b

\* Where the words that WriteData writes begin and end.
LEMMA WrittenPart ==
    ASSUME Known, WriteData
    PROVE  /\ write_offset \in 0 .. BLOCK_SIZE - 1 /\ write_length \in Nat \ {0}
           /\ write_offset + write_length =< BLOCK_SIZE
           /\ w.written + write_length =< w.length
           /\ w.offset + w.written = w.block_num * BLOCK_SIZE + write_offset
           /\ w.written + write_length < w.length => write_offset + write_length = BLOCK_SIZE
           /\ w.written < w.length /\ w.block_num < MaxFileBlocks
           /\ w.block_num * BLOCK_SIZE + BLOCK_SIZE =< MaxFileBlocks * BLOCK_SIZE
           /\ w.block_num * BLOCK_SIZE \in Nat /\ MaxFileBlocks * BLOCK_SIZE \in Nat
           /\ (w.block_num + 1) * BLOCK_SIZE = w.block_num * BLOCK_SIZE + BLOCK_SIZE
<1>1. pc = "loop" /\ w.written < w.length /\ w.block_num < MaxFileBlocks /\ InWrite /\ Writing
  BY DEF WriteData, InLoop, InWrite, Writing
<1>2. /\ w.offset \in Nat /\ w.written \in Nat /\ w.length \in Nat /\ w.block_num \in Nat
      /\ MaxFileBlocks \in Nat /\ BLOCK_SIZE \in Nat \ {0}
  BY <1>1, AtWork, Numbers
<1>3. w.offset % BLOCK_SIZE \in 0 .. BLOCK_SIZE - 1
  BY <1>2
<1>4. write_offset \in 0 .. BLOCK_SIZE - 1
  BY <1>2, <1>3 DEF write_offset
<1>5. /\ write_length \in Nat \ {0} /\ write_offset + write_length =< BLOCK_SIZE
      /\ w.written + write_length =< w.length
      /\ w.written + write_length < w.length => write_offset + write_length = BLOCK_SIZE
  BY <1>1, <1>2, <1>4 DEF write_length, Smaller
<1>6. w.offset + w.written = w.block_num * BLOCK_SIZE + write_offset
  BY <1>1 DEF Known, RInv, Position
<1>7. /\ w.block_num * BLOCK_SIZE + BLOCK_SIZE =< MaxFileBlocks * BLOCK_SIZE
      /\ w.block_num * BLOCK_SIZE \in Nat /\ MaxFileBlocks * BLOCK_SIZE \in Nat
      /\ (w.block_num + 1) * BLOCK_SIZE = w.block_num * BLOCK_SIZE + BLOCK_SIZE
  <2>1. PICK x \in Nat : MaxFileBlocks = w.block_num + 1 + x
    <3>1. MaxFileBlocks - (w.block_num + 1) \in Nat
          /\ MaxFileBlocks = w.block_num + 1 + (MaxFileBlocks - (w.block_num + 1))
      BY <1>1, <1>2
    <3> QED  BY <3>1
  <2> DEFINE b == BLOCK_SIZE  t == w.block_num
  <2>2. b \in Nat /\ t \in Nat
    BY <1>2
  <2> HIDE DEF b, t
  <2>3. (t + 1 + x) * b = t * b + b + x * b /\ x * b \in Nat /\ t * b \in Nat /\ (t + 1) * b = t * b + b
    BY <2>2
  <2>4. t * b + b =< (t + 1 + x) * b /\ (t + 1 + x) * b \in Nat
    BY <2>2, <2>3
  <2> QED  BY <2>1, <2>3, <2>4 DEF b, t
<1> QED  BY <1>1, <1>4, <1>5, <1>6, <1>7

LEMMA WriteDataWords ==
    ASSUME Known, WriteData, before' = before
    PROVE  HandsWords'
<1> DEFINE t == w.block_num  p == block_to_write  first == w.offset + w.written
           past == first + write_length
<1>1. /\ pc = "loop" /\ pc' = "loop" /\ InWrite /\ Writing /\ Writing' /\ UNCHANGED inodes
      /\ p # 0 /\ KeepsHeld /\ KeepsPointers
      /\ t \in Slots /\ t # MaxFileBlocks /\ Held(w.inum, t) = p
  BY Numbers, WriteDataHeld DEF WriteData, InLoop, InWrite, Writing, Known, SInv
<1>2. /\ w \in Locals /\ w.inum \in Inumber /\ TypeOK /\ TInv /\ FInv
      /\ OldSize \in Nat /\ w.offset \in Nat /\ w.written \in Nat /\ t \in Nat
      /\ \A k \in Nat : k =< NewSize => k =< OldSize \/ k =< w.offset + w.written
      /\ w.offset =< OldSize
  BY <1>1, AtWork
<1>3. /\ UNCHANGED <<w.inum, w.offset, w.word>> /\ w'.written = w.written + write_length
  BY <1>2 DEF WriteData, Locals
<1>4. PICK n \in Inumber : n = w.inum /\ n = w'.inum
  BY <1>2, <1>3
<1>5. p \in Blocks \ {0} /\ Held(n, t) = p
  BY <1>1, <1>2, <1>4, HeldBlocks
<1>6. /\ \A d \in Blocks : d # p => block'[d] = block[d]
      /\ \A r \in 0 .. POINTERS_PER_BLOCK - 1 :
            block'[p][r] = IF r \in write_offset .. write_offset + write_length - 1
                           THEN w.word ELSE block[p][r]
  BY <1>2, <1>5 DEF WriteData, TypeOK
<1>7. \A s \in Slots : s # t /\ Held(n, s) # 0 => Held(n, s) # p
  BY <1>1, <1>2, <1>5 DEF FInv, HeldOnce
<1>8. /\ OldSize' = OldSize /\ NewSize = Larger(OldSize, first) /\ NewSize' = Larger(OldSize, past)
      /\ first \in Nat /\ past \in Nat /\ first < past
  <2>1. write_length \in Nat \ {0}
    BY WrittenPart
  <2>2. w'.offset + w'.written = past
    BY <1>2, <1>3, <2>1
  <2>3. NewSize' = Larger(OldSize, past)
    BY <2>2 DEF OldSize, NewSize, Larger
  <2> QED  BY <1>2, <2>1, <2>3 DEF OldSize, NewSize
<1>9. /\ first = t * BLOCK_SIZE + write_offset /\ past =< t * BLOCK_SIZE + BLOCK_SIZE
      /\ t * BLOCK_SIZE =< first /\ t * BLOCK_SIZE \in Nat
      /\ t * BLOCK_SIZE + BLOCK_SIZE =< MaxFileBlocks * BLOCK_SIZE
      /\ MaxFileBlocks * BLOCK_SIZE \in Nat
  <2> DEFINE low == t * BLOCK_SIZE
  <2>1. /\ first = low + write_offset /\ write_offset \in 0 .. BLOCK_SIZE - 1 /\ low \in Nat
        /\ write_offset + write_length =< BLOCK_SIZE /\ write_length \in Nat /\ BLOCK_SIZE \in Nat
        /\ low + BLOCK_SIZE =< MaxFileBlocks * BLOCK_SIZE /\ MaxFileBlocks * BLOCK_SIZE \in Nat
    BY WrittenPart, Numbers
  <2> HIDE DEF low
  <2>2. past =< low + BLOCK_SIZE /\ low =< first
    BY <2>1
  <2> QED  BY <2>1, <2>2 DEF low
<1> SUFFICES ASSUME NEW k \in 1 .. NewSize'  PROVE HeldWord(n, k)' = Wanted(w.written, k)'
  BY <1>4 DEF HandsWords
<1>10. /\ k \in Nat \ {0}
       /\ k =< first \/ k =< OldSize \/ (first < k /\ k =< past)
       /\ k \in 1 .. NewSize \/ (first < k /\ k =< past)
       /\ k =< NewSize' /\ NewSize' \in Nat
  BY <1>2, <1>8 DEF Larger
<1>11. k =< MaxFileBlocks * BLOCK_SIZE
  <2>1. past =< MaxFileBlocks * BLOCK_SIZE /\ MaxFileBlocks * BLOCK_SIZE \in Nat
    BY <1>8, <1>9, Numbers
  <2>2. NewSize =< MaxFileBlocks * BLOCK_SIZE /\ NewSize \in Nat
    BY <1>1, AtWork
  <2> QED  BY <1>8, <1>10, <2>1, <2>2
<1>12. /\ PlaceOf(k) \in Slots /\ (k - 1) % BLOCK_SIZE \in 0 .. POINTERS_PER_BLOCK - 1
       /\ k - 1 = PlaceOf(k) * BLOCK_SIZE + ((k - 1) % BLOCK_SIZE)
  BY <1>10, <1>11, PlaceRange
<1>13. Held(n, PlaceOf(k))' = Held(n, PlaceOf(k))
  BY <1>1, <1>12 DEF KeepsHeld, PlaceOf, BLOCK_SIZE
<1>14. Wanted(w.written, k)' = IF w.offset < k /\ k =< past THEN w.word ELSE before[k]
  BY <1>2, <1>3, WrittenPart DEF Wanted
<1>15. k \in 1 .. NewSize => HeldWord(n, k) = IF w.offset < k /\ k =< first THEN w.word ELSE before[k]
  BY <1>1, <1>4 DEF Known, RInv, HandsWords, Wanted
<1>16. CASE first < k /\ k =< past
  <2>1. PlaceOf(k) = t
    BY <1>2, <1>8, <1>9, <1>10, <1>16, PlaceBetween, Numbers
  <2>2. (k - 1) % BLOCK_SIZE \in write_offset .. write_offset + write_length - 1
    BY <1>8, <1>9, <1>10, <1>12, <1>16, <2>1, WrittenPart
  <2>3. block'[p][(k - 1) % BLOCK_SIZE] = w.word
    BY <1>6, <1>12, <2>2
  <2>4. HeldWord(n, k)' = w.word
    BY <1>5, <1>13, <2>1, <2>3 DEF HeldWord, WordIn, PlaceOf, BLOCK_SIZE, Blocks
  <2>5. w.offset < k
    BY <1>2, <1>10, <1>16
  <2> QED  BY <1>14, <1>16, <2>4, <2>5
<1>17. CASE ~(first < k /\ k =< past)
  <2>1. k \in 1 .. NewSize
    BY <1>10, <1>17
  <2>2. HeldWord(n, k)' = HeldWord(n, k)
    <3>1. CASE PlaceOf(k) = t
      <4>1. (k - 1) % BLOCK_SIZE \notin write_offset .. write_offset + write_length - 1
        BY <1>8, <1>9, <1>10, <1>12, <1>17, <3>1, WrittenPart
      <4>2. block'[p][(k - 1) % BLOCK_SIZE] = block[p][(k - 1) % BLOCK_SIZE]
        BY <1>6, <1>12, <4>1
      <4> QED  BY <1>5, <1>13, <3>1, <4>2 DEF HeldWord, WordIn, PlaceOf, BLOCK_SIZE, Blocks
    <3>2. CASE PlaceOf(k) # t
      <4>1. Held(n, PlaceOf(k)) \in Blocks \ {0}
               => block'[Held(n, PlaceOf(k))] = block[Held(n, PlaceOf(k))]
        BY <1>6, <1>7, <1>12, <3>2
      <4> QED  BY <1>13, <4>1 DEF HeldWord, WordIn, PlaceOf, BLOCK_SIZE, Blocks
    <3> QED  BY <3>1, <3>2
  <2>3. (w.offset < k /\ k =< past) <=> (w.offset < k /\ k =< first)
    BY <1>8, <1>10, <1>17
  <2> QED  BY <1>14, <1>15, <2>1, <2>2, <2>3
<1> QED  BY <1>16, <1>17

LEMMA WriteDataFiles ==
    ASSUME Known, WriteData, before' = before
    PROVE  RInv' /\ UNCHANGED Store!vars
<1>1. /\ pc = "loop" /\ pc' = "loop" /\ InWrite /\ InWrite' /\ Writing /\ Writing'
      /\ UNCHANGED inodes /\ PointerKnown /\ KeepsHeld /\ KeepsPointers
      /\ block_to_write # 0
      /\ w.block_num \in Slots /\ w.block_num # MaxFileBlocks
      /\ Held(w.inum, w.block_num) = block_to_write
  BY Numbers, WriteDataHeld DEF WriteData, InLoop, InWrite, Writing, Known, SInv
<1>2. w \in Locals /\ w.inum \in Inumber /\ TypeOK /\ TInv /\ FInv /\ RInv
      /\ w.offset \in Nat /\ w.written \in Nat /\ w.block_num \in Nat
  BY <1>1, AtWork
<1>3. /\ UNCHANGED <<w.inum, w.offset, w.length, w.word, w.inode, w.indirect, w.read_indirect,
                     w.modified_inode, w.modified_indirect>>
      /\ w'.written = w.written + write_length /\ w'.block_num = w.block_num + 1
  BY <1>2 DEF WriteData, Locals
<1>4. HandsWords' /\ NoOldLost'
  BY <1>1, <1>3, WriteDataWords, OldKept
<1>5. \A d \in Blocks : d # block_to_write => block'[d] = block[d]
  BY <1>2 DEF WriteData, TypeOK
<1>6. \A i \in Inumber : \A s \in Slots :
         <<i, s>> # <<w.inum, w.block_num>> /\ Held(i, s) # 0 => Held(i, s) # block_to_write
  BY <1>1, <1>2 DEF FInv, HeldOnce
<1>7. UNCHANGED Store!vars
  <2>1. \A i \in Inumber \ {w.inum} : Contents(i)' = Contents(i)
    BY <1>1, <1>2, <1>5, <1>6, OtherFiles DEF KeepsPointers
  <2> QED  BY <1>1, <1>3, <2>1, InsideStutters
<1>8. SizesFit'
  <2>1. w'.offset + w'.written =< MaxFileBlocks * BLOCK_SIZE /\ w'.block_num =< MaxFileBlocks
    BY <1>2, <1>3, WrittenPart, Numbers
  <2> QED  BY <1>1, <1>2, <2>1 DEF RInv, SizesFit, MaxFileBlocks, BLOCK_SIZE
<1>9. NamedThere' /\ SavedInode' /\ StoredAPrefix'
  BY <1>1, <1>2, <1>3 DEF RInv, NamedThere, SavedInode, StoredAPrefix, OldSize
<1>10. Position'
  <2> SUFFICES ASSUME w'.written < w'.length
               PROVE  w'.offset + w'.written = w'.block_num * BLOCK_SIZE + write_offset'
    BY DEF Position, BLOCK_SIZE
  <2>1. write_offset' = 0
    BY <1>2, <1>3, WrittenPart DEF write_offset, BLOCK_SIZE
  <2> QED  BY <1>2, <1>3, <2>1, WrittenPart
<1>11. SavedTable'
  <2>1. w.modified_indirect => w.read_indirect
    BY <1>1, <1>2 DEF PointerKnown, RInv, SavedTable
  <2>2. w.read_indirect => block'[w.inode.indirect] = block[w.inode.indirect]
    BY <1>1, <1>2, <1>5, <1>6, LastPlace, OtherBlock
  <2> QED  BY <1>1, <1>2, <1>3, <2>1, <2>2 DEF RInv, SavedTable
<1> QED  BY <1>4, <1>7, <1>8, <1>9, <1>10, <1>11 DEF RInv

LEMMA UpdateSizeFiles ==
    ASSUME Known, UpdateSize, before' = before
    PROVE  RInv' /\ UNCHANGED Store!vars
<1>1. /\ pc = "loop" /\ pc' = "save_inode" /\ LoopEnds /\ UNCHANGED disk
      /\ InWrite /\ InWrite' /\ Writing /\ Writing' /\ KeepsHeld /\ KeepsPointers
  BY UpdateHeld DEF UpdateSize, InWrite, Writing, Known, SInv
<1>2. w \in Locals /\ w.inum \in Inumber /\ w.inode \in Inode /\ RInv /\ TInv /\ FInv
      /\ OldSize \in Nat /\ w.offset \in Nat /\ w.written \in Nat
  BY <1>1, AtWork
<1> DEFINE new == Larger(w.inode.size, w.written + w.offset)
<1>3. w.inode.size = OldSize /\ new = NewSize
  BY <1>1, <1>2 DEF RInv, SavedInode, NewSize, Larger
<1>4. /\ UNCHANGED <<w.inum, w.offset, w.written, w.length, w.word, w.block_num, w.indirect,
                     w.read_indirect, w.modified_indirect>>
      /\ w'.inode = [w.inode EXCEPT !.size = new]
      /\ w'.modified_inode = (w.modified_inode \/ new # w.inode.size)
  BY <1>2 DEF UpdateSize, Locals
<1>5. /\ w'.inode.size = new /\ w'.inode.direct = w.inode.direct
      /\ w'.inode.indirect = w.inode.indirect /\ w'.inode.valid = w.inode.valid
  BY <1>2, <1>4 DEF Inode
<1> HIDE DEF new
<1>6. OldSize' = OldSize /\ NewSize' = NewSize
  BY <1>4 DEF OldSize, NewSize, Larger
<1>7. HandsWords'
  <2>1. ASSUME NEW k \in 1 .. NewSize
        PROVE  HeldWord(w.inum, k)' = HeldWord(w.inum, k) /\ Wanted(w.written, k)' = Wanted(w.written, k)
    <3>1. Held(w.inum, PlaceOf(k))' = Held(w.inum, PlaceOf(k))
      BY <1>1, <1>2, <1>4, WordsHavePlaces DEF KeepsHeld, PlaceOf, BLOCK_SIZE
    <3> QED  BY <1>1, <1>4, <3>1 DEF HeldWord, WordIn, PlaceOf, BLOCK_SIZE, Blocks, Wanted, disk
  <2> QED  BY <1>1, <1>2, <1>6, <2>1 DEF RInv, HandsWords
<1>8. NoOldLost'
  BY <1>1, <1>4, OldKept
<1>9. UNCHANGED Store!vars
  <2>1. \A i \in Inumber \ {w.inum} : Contents(i)' = Contents(i)
    BY <1>1, <1>2, OtherFiles, HeldBlocks DEF KeepsPointers, disk
  <2> QED  BY <1>1, <1>4, <2>1, InsideStutters DEF disk
<1>10. SavedTable'
  <2>1. w.modified_indirect => w.read_indirect
    BY <1>1, <1>2 DEF LoopEnds, PointerKnown, RInv, SavedTable
  <2> QED  BY <1>1, <1>2, <1>4, <1>5, <2>1 DEF RInv, SavedTable, disk
<1>11. SizesFit' /\ NamedThere' /\ Position' /\ SavedInode' /\ StoredAPrefix'
  <2> USE <1>1, <1>2, <1>3, <1>4, <1>5, <1>6 DEF RInv, disk
  <2>1. SizesFit'
    BY DEF SizesFit, BLOCK_SIZE, MaxFileBlocks
  <2>2. NamedThere'
    BY DEF NamedThere
  <2>3. SavedInode'
    BY DEF SavedInode
  <2>4. Position' /\ StoredAPrefix'
    BY DEF Position, StoredAPrefix
  <2> QED  BY <2>1, <2>2, <2>3, <2>4
<1> QED  BY <1>7, <1>8, <1>9, <1>10, <1>11 DEF RInv

\* The disk points to more of the file when the inode is saved, never to less.
LEMMA SaveInodePoints ==
    ASSUME Known, SaveInode, NEW s \in Slots, Pointer(w.inum, s) # 0, s # MaxFileBlocks
    PROVE  Pointer(w.inum, s)' # 0
<1>1. pc = "save_inode" /\ InWrite /\ Writing /\ UNCHANGED <<w, block>>
  BY DEF SaveInode, InWrite, Writing
<1>2. PICK n \in Inumber : n = w.inum /\ n = w'.inum
  BY <1>1, AtWork
<1>3. TypeOK /\ FInv /\ InodeOf(n) = w.inode
  BY <1>1, <1>2, AtWork
<1>4. Pointer(n, s) = Held(n, s)
  BY <1>2, <1>3 DEF FInv, DiskHeld
<1>5. CASE inodes'[n] = inodes[n]
  <2>1. Pointer(n, s)' = Pointer(n, s)
    BY <1>1, <1>5, OnDisk
  <2> QED  BY <1>2, <2>1
<1>6. CASE inodes'[n] = w.inode
  <2>1. Pointer(n, s)' = At(w.inode, Table(w.inode, block), s)
    BY <1>1, <1>6, OnDisk
  <2>2. CASE s \in 0 .. POINTERS_PER_INODE - 1
    <3>1. Held(n, s) = w.inode.direct[s] /\ Pointer(n, s)' = w.inode.direct[s]
      BY <1>3, <2>1, <2>2, AtPlaces DEF Held
    <3> QED  BY <1>2, <1>4, <3>1
  <2>3. CASE s - POINTERS_PER_INODE \in 0 .. POINTERS_PER_BLOCK - 1 /\ ~(s < POINTERS_PER_INODE)
    <3>1. Pointer(n, s) = Table(inodes[n], block)[s - POINTERS_PER_INODE]
      BY <2>3, AtPlaces, OnDisk
    <3>2. inodes[n].indirect \in Blocks \ {0}
      BY <1>2, <2>3, <3>1 DEF Table, ZeroBlock
    <3>3. inodes[n].indirect = w.inode.indirect
      BY <1>3, <3>2, LastPlace DEF FInv, DiskHeld
    <3>4. Table(w.inode, block) = Table(inodes[n], block)
      BY <3>3 DEF Table
    <3>5. Pointer(n, s)' = Pointer(n, s)
      BY <2>1, <2>3, <3>1, <3>4, AtPlaces
    <3> QED  BY <1>2, <3>5
  <2> QED  BY <2>2, <2>3, Places
<1> QED  BY <1>2, <1>3, <1>5, <1>6 DEF SaveInode, TypeOK

LEMMA SaveInodeFiles ==
    ASSUME Known, SaveInode, before' = before
    PROVE  RInv' /\ UNCHANGED Store!vars
<1>1. /\ pc = "save_inode" /\ pc' = "save_indirect" /\ UNCHANGED <<w, block>>
      /\ InWrite /\ InWrite' /\ Writing /\ Writing' /\ KeepsHeld
      /\ inodes' = IF w.modified_inode THEN [inodes EXCEPT ![w.inum] = w.inode] ELSE inodes
  BY SaveInodeHeld DEF SaveInode, InWrite, Writing, Known, SInv
<1>2. w \in Locals /\ w.inum \in Inumber /\ w.inode \in Inode /\ RInv /\ TInv /\ FInv /\ TypeOK
      /\ NewSize =< MaxFileBlocks * BLOCK_SIZE /\ OldSize \in Nat /\ OldSize =< NewSize
      /\ NewSize \in Nat
  BY <1>1, AtWork
<1>3. \A i \in Inumber \ {w.inum} : inodes'[i] = inodes[i]
  BY <1>1, <1>2 DEF TypeOK
<1>4. /\ inodes'[w.inum].size = NewSize /\ inodes'[w.inum].direct = w.inode.direct
      /\ inodes'[w.inum].valid /\ inodes[w.inum].valid
  BY <1>1, <1>2 DEF TypeOK, RInv, SavedInode, NamedThere
<1>5. OldSize' = OldSize /\ NewSize' = NewSize
  BY <1>1 DEF OldSize, NewSize, Larger
<1>6. HandsWords'
  <2>1. ASSUME NEW k \in 1 .. NewSize
        PROVE  HeldWord(w.inum, k)' = HeldWord(w.inum, k) /\ Wanted(w.written, k)' = Wanted(w.written, k)
    <3>1. Held(w.inum, PlaceOf(k))' = Held(w.inum, PlaceOf(k))
      BY <1>1, <1>2, WordsHavePlaces DEF KeepsHeld, PlaceOf, BLOCK_SIZE
    <3> QED  BY <1>1, <3>1 DEF HeldWord, WordIn, PlaceOf, BLOCK_SIZE, Blocks, Wanted
  <2> QED  BY <1>1, <1>2, <1>5, <2>1 DEF RInv, HandsWords
<1>7. NoOldLost'
  <2> SUFFICES ASSUME NEW k \in 1 .. OldSize, Pointer(w.inum, PlaceOf(k))' = 0
               PROVE  before[k] = 0
    BY <1>5 DEF NoOldLost, PlaceOf, BLOCK_SIZE
  <2>1. PlaceOf(k) \in Slots /\ PlaceOf(k) # MaxFileBlocks
    BY <1>1, <1>2, WordsHavePlaces
  <2>2. Pointer(w.inum, PlaceOf(k)) = 0
    BY <2>1, SaveInodePoints DEF PlaceOf, BLOCK_SIZE
  <2> QED  BY <1>1, <1>2, <2>2 DEF RInv, NoOldLost
<1>8. UNCHANGED Store!vars
  <2>1. \A i \in Inumber \ {w.inum} : Contents(i)' = Contents(i)
    <3>1. \A i \in Inumber \ {w.inum} : \A s \in Slots : Pointer(i, s)' = Pointer(i, s)
      BY <1>1, <1>3, OnDisk
    <3> QED  BY <1>1, <1>2, <1>3, <3>1, OtherFiles, HeldBlocks
  <2>2. \A i \in Inumber : inodes'[i].valid = inodes[i].valid
    <3>1. inodes[w.inum] \in Inode /\ inodes'[w.inum] \in {inodes[w.inum], w.inode}
      BY <1>1, <1>2 DEF TypeOK
    <3> QED  BY <1>2, <1>3, <1>4, <3>1 DEF Inode
  <2> QED  BY <1>1, <2>1, <2>2, InsideStutters
<1>9. SizesFit'
  BY <1>1, <1>2, <1>3, <1>4 DEF RInv, SizesFit, BLOCK_SIZE, MaxFileBlocks
<1>10. NamedThere' /\ Position' /\ SavedInode' /\ SavedTable' /\ StoredAPrefix'
  <2> USE <1>1, <1>2, <1>4, <1>5 DEF RInv
  <2>1. NamedThere' /\ Position' /\ StoredAPrefix'
    BY DEF NamedThere, Position, StoredAPrefix
  <2>2. SavedInode' /\ SavedTable'
    BY DEF SavedInode, SavedTable
  <2> QED  BY <2>1, <2>2
<1> QED  BY <1>6, <1>7, <1>8, <1>9, <1>10 DEF RInv

\* The block that the last word of a file is in is one that the size covers.
LEMMA Covered ==
    ASSUME NEW x \in Nat, NEW k \in 1 .. x
    PROVE  PlaceOf(k) < FileBlocks(x) /\ PlaceOf(k) \in Nat /\ FileBlocks(x) \in Nat
<1> DEFINE b == BLOCK_SIZE
<1>1. b \in Nat \ {0} /\ k \in Nat \ {0} /\ k =< x
  BY Numbers
<1> HIDE DEF b
<1>2. (k - 1) \div b < (x + b - 1) \div b /\ (k - 1) \div b \in Nat /\ (x + b - 1) \div b \in Nat
  <2> DEFINE q == (k - 1) \div b  y == (x + b - 1) \div b
  <2>1. q \in Nat /\ q * b =< k - 1
    BY <1>1
  <2>2. y \in Nat /\ x + b - 1 < y * b + b
    BY <1>1
  <2> HIDE DEF q, y
  <2>3. ASSUME y =< q  PROVE FALSE
    <3>1. PICK z \in Nat : q = y + z
      <4>1. q - y \in Nat /\ q = y + (q - y)
        BY <2>1, <2>2, <2>3
      <4> QED  BY <4>1
    <3>2. q * b = y * b + z * b /\ z * b \in Nat /\ y * b \in Nat
      BY <1>1, <2>2, <3>1
    <3> QED  BY <1>1, <2>1, <2>2, <3>2
  <2>4. q < y
    BY <2>1, <2>2, <2>3
  <2> QED  BY <2>1, <2>2, <2>4 DEF q, y
<1> QED  BY <1>2 DEF PlaceOf, FileBlocks, b

\* Writing the indirect block puts on the disk what write has in hand of the file,
LEMMA SaveIndirectPoints ==
    ASSUME Known, SaveIndirect, NEW n \in Inumber, n = w.inum, NEW s \in Slots,
           s < POINTERS_PER_INODE \/ inodes[n].indirect # 0
    PROVE  Pointer(n, s)' = Held(n, s)
<1>1. /\ pc = "save_indirect" /\ inodes' = inodes /\ Writing /\ InWrite
      /\ block' = IF w.modified_indirect
                  THEN [block EXCEPT ![w.inode.indirect] = w.indirect] ELSE block
  BY DEF SaveIndirect, InWrite, Writing
<1>2. RInv /\ TInv /\ FInv /\ TypeOK /\ InodeOf(n) = w.inode
      /\ w.inode.direct = inodes[n].direct
  BY <1>1, AtWork DEF RInv, SavedInode
<1>3. Pointer(n, s)' = At(inodes[n], Table(inodes[n], block'), s)
  BY <1>1, OnDisk
<1>4. CASE s \in 0 .. POINTERS_PER_INODE - 1
  <2>1. Pointer(n, s)' = inodes[n].direct[s] /\ Held(n, s) = w.inode.direct[s]
    BY <1>2, <1>3, <1>4, AtPlaces DEF Held
  <2> QED  BY <1>2, <2>1
<1>5. CASE inodes[n].indirect # 0
  <2>1. inodes[n].indirect = w.inode.indirect /\ w.inode.indirect \in Blocks \ {0}
    BY <1>1, <1>2, <1>5, LastPlace, HeldBlocks DEF FInv, DiskHeld
  <2>2. block'[w.inode.indirect] = TableOf(n)
    <3>1. CASE w.modified_indirect
      <4>1. w.read_indirect /\ TableOf(n) = w.indirect
        BY <1>1, <1>2, <3>1 DEF RInv, SavedTable, TableOf
      <4> QED  BY <1>1, <1>2, <2>1, <3>1, <4>1 DEF TypeOK
    <3>2. CASE ~w.modified_indirect
      <4>1. w.read_indirect => w.indirect = block[w.inode.indirect]
        BY <1>1, <1>2, <3>2 DEF RInv, SavedTable
      <4>2. TableOf(n) = block[w.inode.indirect]
        BY <1>1, <1>2, <2>1, <4>1 DEF TableOf, Table
      <4> QED  BY <1>1, <3>2, <4>2
    <3> QED  BY <3>1, <3>2
  <2>3. Table(inodes[n], block') = TableOf(n)
    BY <2>1, <2>2 DEF Table
  <2>4. \A q \in 0 .. POINTERS_PER_BLOCK - 1 : TableOf(n)[q] = TableOf(n)[q]
    OBVIOUS
  <2>5. At(inodes[n], TableOf(n), s) = At(w.inode, TableOf(n), s)
    BY <1>2, <2>1, <2>4, AtSame
  <2> QED  BY <1>2, <1>3, <2>3, <2>5 DEF Held
<1> QED  BY <1>4, <1>5, Numbers DEF Slots

\* and leaves the pointers of the other files.
LEMMA SaveIndirectOthers ==
    ASSUME Known, SaveIndirect, NEW i \in Inumber, i # w.inum, NEW s \in Slots
    PROVE  Pointer(i, s)' = Pointer(i, s)
<1>1. /\ Writing /\ InWrite /\ inodes' = inodes
      /\ block' = IF w.modified_indirect
                  THEN [block EXCEPT ![w.inode.indirect] = w.indirect] ELSE block
  BY DEF SaveIndirect, InWrite, Writing
<1>2. PICK n \in Inumber : n = w.inum /\ n # i /\ InodeOf(n) = w.inode
  BY <1>1, AtWork
<1>3. FInv /\ TypeOK
  BY <1>1, AtWork
<1>4. \A d \in Blocks : d # w.inode.indirect => block'[d] = block[d]
  BY <1>1, <1>3 DEF TypeOK
<1>5. inodes[i].indirect = 0 \/ inodes[i].indirect = Held(i, MaxFileBlocks)
  BY <1>3, LastPlace DEF FInv, DiskHeld
<1>6. inodes[i].indirect = 0 \/ inodes[i].indirect # w.inode.indirect
  BY <1>2, <1>3, <1>5, LastPlace DEF FInv, HeldOnce
<1>7. Table(inodes[i], block') = Table(inodes[i], block)
  BY <1>4, <1>6, TableKept
<1> QED  BY <1>1, <1>7, OnDisk

LEMMA SaveIndirectFiles ==
    ASSUME Known, SaveIndirect, before' = before
    PROVE  /\ RInv' /\ UNCHANGED Store!vars
           /\ \A n \in Inumber : n = w.inum =>
                 /\ inodes'[n].size = NewSize
                 /\ \A k \in 1 .. NewSize : DiskWord(n, k)' = Wanted(w.written, k)
<1>1. /\ pc = "save_indirect" /\ pc' = "returned" /\ UNCHANGED <<w, inodes>>
      /\ InWrite /\ InWrite' /\ Writing /\ ~Writing'
      /\ block' = IF w.modified_indirect
                  THEN [block EXCEPT ![w.inode.indirect] = w.indirect] ELSE block
  BY DEF SaveIndirect, InWrite, Writing
<1>2. w \in Locals /\ RInv /\ TInv /\ FInv /\ TypeOK
      /\ OldSize \in Nat /\ NewSize \in Nat /\ w.written \in 0 .. w.length /\ w.offset \in Nat
  BY <1>1, AtWork
<1>3. PICK n \in Inumber : n = w.inum /\ n = w'.inum /\ InodeOf(n) = w.inode
  BY <1>1, AtWork
<1>4. \A d \in Blocks : d # w.inode.indirect => block'[d] = block[d]
  BY <1>1, <1>2 DEF TypeOK
<1>5. \A i \in Inumber : \A s \in Slots :
         <<i, s>> # <<n, MaxFileBlocks>> /\ Held(i, s) # 0 => Held(i, s) # w.inode.indirect
  BY <1>2, <1>3, LastPlace DEF FInv, HeldOnce
<1>6. inodes[n].size = NewSize /\ w.inode.direct = inodes[n].direct
  BY <1>1, <1>2, <1>3 DEF RInv, SavedInode
<1>7. ASSUME NEW k \in 1 .. NewSize  PROVE Pointer(n, PlaceOf(k))' = Held(n, PlaceOf(k))
  <2>1. PICK s \in Slots : s = PlaceOf(k) /\ s < FileBlocks(inodes[n].size) /\ s \in Nat
                           /\ FileBlocks(inodes[n].size) \in Nat
    BY <1>1, <1>2, <1>6, WordsHavePlaces, Covered
  <2>2. s < POINTERS_PER_INODE \/ inodes[n].indirect # 0
    <3>1. s < POINTERS_PER_INODE \/ FileBlocks(inodes[n].size) > POINTERS_PER_INODE
      BY <2>1, Numbers
    <3> QED  BY <3>1 DEF Known, SInv, SizeBacked
  <2>3. Pointer(n, s)' = Held(n, s)
    BY <1>3, <2>2, SaveIndirectPoints
  <2> QED  BY <2>1, <2>3 DEF PlaceOf, BLOCK_SIZE
<1>8. ASSUME NEW k \in 1 .. NewSize  PROVE DiskWord(n, k)' = Wanted(w.written, k)
  <2>1. PlaceOf(k) \in Slots /\ PlaceOf(k) # MaxFileBlocks
    BY <1>1, WordsHavePlaces
  <2>2. Held(n, PlaceOf(k)) \in Blocks \ {0}
           => block'[Held(n, PlaceOf(k))] = block[Held(n, PlaceOf(k))]
    BY <1>4, <1>5, <2>1
  <2>3. DiskWord(n, k)' = HeldWord(n, k)
    BY <1>7, <2>2 DEF DiskWord, HeldWord, WordIn, PlaceOf, BLOCK_SIZE, Blocks
  <2> QED  BY <1>1, <1>2, <1>3, <2>3 DEF RInv, HandsWords
<1>9. StoredAPrefix'
  <2>1. PICK j \in 0 .. w.length : j = w.written
    BY <1>2
  <2>2. /\ inodes'[n].size = Larger(OldSize, w.offset + j)
        /\ OldSize' = OldSize /\ w' = w /\ w'.inum = n
    BY <1>1, <1>3, <1>6, <2>1 DEF NewSize, OldSize
  <2>3. ASSUME NEW k \in 1 .. inodes'[n].size  PROVE DiskWord(n, k)' = Wanted(j, k)'
    BY <1>1, <1>6, <1>8, <2>1 DEF Wanted
  <2> QED  BY <2>1, <2>2, <2>3 DEF StoredAPrefix, Larger
<1>10. UNCHANGED Store!vars
  <2>1. ASSUME NEW i \in Inumber \ {n}, NEW s \in Slots  PROVE Pointer(i, s)' = Pointer(i, s)
    BY <1>3, SaveIndirectOthers
  <2>2. \A i \in Inumber \ {n} : Contents(i)' = Contents(i)
    BY <1>1, <1>4, <1>5, <2>1, OtherFiles
  <2> QED  BY <1>1, <1>3, <2>2, InsideStutters
<1>11. SizesFit' /\ NamedThere' /\ Position' /\ SavedInode' /\ SavedTable' /\ HandsWords' /\ NoOldLost'
  <2> USE <1>1, <1>2 DEF RInv
  <2>1. SizesFit'
    BY DEF SizesFit, BLOCK_SIZE, MaxFileBlocks
  <2>2. NamedThere'
    BY DEF NamedThere, OldSize
  <2>3. Position' /\ SavedInode' /\ SavedTable' /\ HandsWords' /\ NoOldLost'
    BY DEF Position, SavedInode, SavedTable, HandsWords, NoOldLost
  <2> QED  BY <2>1, <2>2, <2>3
<1>12. inodes'[n].size = NewSize /\ \A k \in 1 .. NewSize : DiskWord(n, k)' = Wanted(w.written, k)
  BY <1>1, <1>6, <1>8
<1>13. \A m \in Inumber : m = w.inum =>
          /\ inodes'[m].size = NewSize
          /\ \A k \in 1 .. NewSize : DiskWord(m, k)' = Wanted(w.written, k)
  BY <1>3, <1>12
<1> QED  BY <1>9, <1>10, <1>11, <1>13 DEF RInv

\* Without a block for the pointers nothing of the inode is saved: the words that
\* fit in the old file are all that is stored.
LEMMA ReturnEarlyFiles ==
    ASSUME Known, ReturnEarly, before' = before
    PROVE  RInv' /\ UNCHANGED Store!vars
<1>1. /\ pc = "loop" /\ pc' = "returned" /\ UNCHANGED <<w, inodes, block>>
      /\ w.inode.indirect = 0 /\ InWrite /\ InWrite' /\ Writing /\ ~Writing'
  BY DEF ReturnEarly, InLoop, InWrite, Writing, disk
<1>2. w \in Locals /\ RInv /\ TInv /\ FInv /\ TypeOK
      /\ OldSize \in Nat /\ NewSize \in Nat /\ OldSize =< NewSize /\ w.offset =< OldSize
      /\ w.written \in Nat /\ w.length \in Nat /\ w.written =< w.length /\ w.offset \in Nat
  BY <1>1, AtWork
<1>3. PICK n \in Inumber : n = w.inum /\ n = w'.inum /\ InodeOf(n) = w.inode
  BY <1>1, AtWork
<1>4. inodes[n].size = OldSize
  BY <1>1, <1>2, <1>3 DEF RInv, SavedInode
<1>5. ASSUME NEW k \in 1 .. OldSize  PROVE DiskWord(n, k) = Wanted(w.written, k)
  <2>1. PlaceOf(k) \in Slots /\ PlaceOf(k) < FileBlocks(OldSize) /\ PlaceOf(k) \in Nat
        /\ FileBlocks(OldSize) \in Nat /\ k \in 1 .. NewSize
    BY <1>1, <1>2, WordsHavePlaces, Covered
  <2>2. PlaceOf(k) < POINTERS_PER_INODE
    <3> SUFFICES ASSUME ~(PlaceOf(k) < POINTERS_PER_INODE)  PROVE FALSE
      OBVIOUS
    <3>1. FileBlocks(inodes[n].size) > POINTERS_PER_INODE
      BY <1>4, <2>1, Numbers
    <3>2. inodes[n].indirect # 0
      BY <3>1 DEF Known, SInv, SizeBacked
    <3> QED  BY <1>1, <1>2, <1>3, <3>2, LastPlace DEF FInv, DiskHeld
  <2>3. PlaceOf(k) \in 0 .. POINTERS_PER_INODE - 1
    BY <2>1, <2>2, Numbers
  <2>4. Pointer(n, PlaceOf(k)) = inodes[n].direct[PlaceOf(k)]
    BY <2>1, <2>3, AtPlaces, OnDisk
  <2>5. inodes[n].direct[PlaceOf(k)] # 0
    BY <1>4, <2>1, <2>3 DEF Known, SInv, SizeBacked
  <2>6. Pointer(n, PlaceOf(k)) = Held(n, PlaceOf(k))
    BY <1>2, <2>1, <2>4, <2>5 DEF FInv, DiskHeld
  <2>7. DiskWord(n, k) = HeldWord(n, k)
    BY <2>6 DEF DiskWord, HeldWord
  <2> QED  BY <1>1, <1>2, <1>3, <2>1, <2>7 DEF RInv, HandsWords
<1>6. PICK j \in 0 .. w.length :
         /\ OldSize = Larger(OldSize, w.offset + j)
         /\ \A k \in 1 .. OldSize : Wanted(j, k) = Wanted(w.written, k)
  <2> DEFINE j == Smaller(w.written, OldSize - w.offset)
  <2>1. j \in 0 .. w.length /\ OldSize = Larger(OldSize, w.offset + j)
    BY <1>2 DEF Smaller, Larger
  <2>2. \A k \in 1 .. OldSize : k =< w.offset + j <=> k =< w.offset + w.written
    BY <1>2 DEF Smaller
  <2> HIDE DEF j
  <2> QED  BY <2>1, <2>2 DEF Wanted
<1>7. \A s \in Slots : Pointer(n, s)' = Pointer(n, s)
  BY <1>1, OnDisk
<1>8. \A i \in Inumber : Contents(i)' = Contents(i)
  <2> SUFFICES ASSUME NEW i \in Inumber  PROVE Contents(i)' = Contents(i)
    OBVIOUS
  <2>1. inodes[i] \in Inode /\ inodes[i].size =< MaxFileBlocks * BLOCK_SIZE
    BY <1>2 DEF TypeOK, RInv, SizesFit
  <2>2. \A s \in Slots : Pointer(i, s)' = Pointer(i, s)
    BY <1>1, OnDisk
  <2> QED  BY <1>1, <2>1, <2>2, SameWords
<1>9. StoredAPrefix'
  <2>1. ASSUME NEW k \in 1 .. OldSize  PROVE DiskWord(n, k)' = Wanted(j, k)'
    <3>1. PlaceOf(k) \in Slots
      BY <1>1, <1>2, WordsHavePlaces
    <3>2. DiskWord(n, k)' = DiskWord(n, k)
      BY <1>1, <1>7, <3>1 DEF DiskWord, WordIn, PlaceOf, BLOCK_SIZE, Blocks
    <3> QED  BY <1>1, <1>5, <1>6, <3>2 DEF Wanted
  <2>2. inodes'[n].size = OldSize /\ OldSize' = OldSize /\ w' = w /\ w'.inum = n
    BY <1>1, <1>3, <1>4 DEF OldSize
  <2> QED  BY <1>6, <2>1, <2>2 DEF StoredAPrefix
<1>10. UNCHANGED Store!vars
  BY <1>1, <1>8, InsideStutters
<1>11. SizesFit' /\ NamedThere' /\ Position' /\ SavedInode' /\ SavedTable' /\ HandsWords' /\ NoOldLost'
  <2> USE <1>1, <1>2 DEF RInv
  <2>1. SizesFit'
    BY DEF SizesFit, BLOCK_SIZE, MaxFileBlocks
  <2>2. NamedThere'
    BY DEF NamedThere, OldSize
  <2>3. Position' /\ SavedInode' /\ SavedTable' /\ HandsWords' /\ NoOldLost'
    BY DEF Position, SavedInode, SavedTable, HandsWords, NoOldLost
  <2> QED  BY <2>1, <2>2, <2>3
<1> QED  BY <1>9, <1>10, <1>11 DEF RInv

\* At any moment of a write, what the disk has of the file is what FileStore lets
\* the death of the shell leave.
LEMMA DiskIsTorn ==
    ASSUME Known, InWrite
    PROVE  Store!Torn(before, Contents(w.inum))
<1> DEFINE Direct == POINTERS_PER_INODE * BLOCK_SIZE
           In(k) == w.offset < k /\ k =< w.offset + w.length
<1>1. PICK n \in Inumber : n = w.inum
  BY AtWork
<1>2. RInv /\ TInv /\ FInv /\ inodes[n] \in Inode /\ inodes[n].size \in Nat
      /\ OldSize \in Nat /\ NewSize \in Nat /\ OldSize =< NewSize /\ w.offset =< OldSize
      /\ w.written \in Nat /\ w.length \in Nat /\ w.written =< w.length /\ w.offset \in Nat
      /\ \A k \in Nat : k =< NewSize => k =< OldSize \/ k =< w.offset + w.written
  BY <1>1, AtWork, WordsAreSeqs
<1>3. /\ OldSize =< inodes[n].size
      /\ \A k \in 1 .. inodes[n].size :
            \/ k =< OldSize /\ DiskWord(n, k) = before[k]
            \/ In(k) /\ DiskWord(n, k) = w.word
            \/ In(k) /\ k > Direct /\ DiskWord(n, k) = 0
  <2>1. CASE pc = "returned"
    <3>1. PICK j \in 0 .. w.length :
             /\ inodes[n].size = Larger(OldSize, w.offset + j)
             /\ \A k \in 1 .. inodes[n].size : DiskWord(n, k) = Wanted(j, k)
      BY <1>1, <1>2, <2>1 DEF RInv, StoredAPrefix
    <3>2. OldSize =< inodes[n].size
          /\ \A k \in 1 .. inodes[n].size : k =< OldSize \/ k =< w.offset + j
      BY <1>2, <3>1 DEF Larger
    <3>3. ASSUME NEW k \in 1 .. inodes[n].size
          PROVE  (k =< OldSize /\ DiskWord(n, k) = before[k]) \/ (In(k) /\ DiskWord(n, k) = w.word)
      <4>1. CASE w.offset < k /\ k =< w.offset + j
        BY <1>2, <3>1, <4>1 DEF Wanted
      <4>2. CASE ~(w.offset < k /\ k =< w.offset + j)
        BY <1>2, <3>1, <3>2, <4>2 DEF Wanted
      <4> QED  BY <4>1, <4>2
    <3> QED  BY <3>2, <3>3
  <2>2. CASE pc # "returned"
    <3>1. Writing
      BY <2>2 DEF InWrite, Writing
    <3>2. inodes[n].size = OldSize \/ (pc = "save_indirect" /\ inodes[n].size = NewSize)
      BY <1>1, <1>2, <3>1 DEF Writing, RInv, SavedInode
    <3>3. ASSUME NEW k \in 1 .. inodes[n].size
          PROVE  \/ k =< OldSize /\ DiskWord(n, k) = before[k]
                 \/ In(k) /\ DiskWord(n, k) = w.word
                 \/ In(k) /\ k > Direct /\ DiskWord(n, k) = 0
      <4>1. k \in 1 .. NewSize /\ k \in Nat
        BY <1>2, <3>2
      <4>2. PlaceOf(k) \in Slots /\ HeldWord(n, k) = Wanted(w.written, k)
        BY <1>1, <1>2, <3>1, <4>1, WordsHavePlaces DEF RInv, HandsWords
      <4>3. CASE Pointer(n, PlaceOf(k)) = Held(n, PlaceOf(k))
        <5>1. DiskWord(n, k) = Wanted(w.written, k)
          BY <4>2, <4>3 DEF DiskWord, HeldWord
        <5>2. CASE w.offset < k /\ k =< w.offset + w.written
          BY <1>2, <4>1, <5>1, <5>2 DEF Wanted
        <5>3. CASE ~(w.offset < k /\ k =< w.offset + w.written)
          BY <1>2, <4>1, <5>1, <5>3 DEF Wanted
        <5> QED  BY <5>2, <5>3
      <4>4. CASE Pointer(n, PlaceOf(k)) = 0
        <5>1. DiskWord(n, k) = 0
          BY <4>4 DEF DiskWord, WordIn
        <5>2. CASE k =< OldSize
          BY <1>1, <1>2, <3>1, <4>1, <4>4, <5>1, <5>2 DEF RInv, NoOldLost
        <5>3. CASE ~(k =< OldSize)
          <6>1. In(k)
            BY <1>2, <4>1, <5>3
          <6>2. PlaceOf(k) < FileBlocks(inodes[n].size) /\ PlaceOf(k) \in Nat
            BY <1>2, Covered
          <6>3. ~(PlaceOf(k) < POINTERS_PER_INODE)
            <7> SUFFICES ASSUME PlaceOf(k) < POINTERS_PER_INODE  PROVE FALSE
              OBVIOUS
            <7>1. PlaceOf(k) \in 0 .. POINTERS_PER_INODE - 1
              BY <6>2, Numbers
            <7>2. Pointer(n, PlaceOf(k)) = inodes[n].direct[PlaceOf(k)]
              BY <4>2, <7>1, AtPlaces, OnDisk
            <7>3. inodes[n].direct[PlaceOf(k)] # 0
              BY <6>2, <7>1 DEF Known, SInv, SizeBacked
            <7> QED  BY <4>4, <7>2, <7>3
          <6>4. k > Direct
            <7>1. k \in Nat \ {0} /\ k - 1 = PlaceOf(k) * BLOCK_SIZE + ((k - 1) % BLOCK_SIZE)
                  /\ (k - 1) % BLOCK_SIZE \in Nat
              BY <4>1, PlaceRange, Numbers
            <7>2. PICK x \in Nat : PlaceOf(k) = POINTERS_PER_INODE + x
              <8>1. PlaceOf(k) - POINTERS_PER_INODE \in Nat
                    /\ PlaceOf(k) = POINTERS_PER_INODE + (PlaceOf(k) - POINTERS_PER_INODE)
                BY <6>2, <6>3, Numbers
              <8> QED  BY <8>1
            <7>3. PlaceOf(k) * BLOCK_SIZE = Direct + x * BLOCK_SIZE
                  /\ x * BLOCK_SIZE \in Nat /\ Direct \in Nat
              <8> DEFINE b == BLOCK_SIZE  d == POINTERS_PER_INODE
              <8>1. b \in Nat /\ d \in Nat
                BY Numbers
              <8> HIDE DEF b, d
              <8>2. (d + x) * b = d * b + x * b /\ x * b \in Nat /\ d * b \in Nat
                BY <8>1
              <8> QED  BY <7>2, <8>2 DEF b, d
            <7> HIDE DEF Direct
            <7> QED  BY <7>1, <7>3
          <6> QED  BY <5>1, <6>1, <6>4
        <5> QED  BY <5>2, <5>3
      <4> QED  BY <1>2, <4>2, <4>3, <4>4 DEF FInv, DiskHeld
    <3> QED  BY <1>2, <3>2, <3>3
  <2> QED  BY <2>1, <2>2
<1>4. /\ Len(Contents(n)) = inodes[n].size
      /\ \A k \in 1 .. inodes[n].size : Contents(n)[k] = DiskWord(n, k)
  BY <1>2, WordsAreSeqs
<1>5. op.offset = w.offset /\ op.length = w.length /\ op.word = w.word
  BY DEF op
<1> HIDE DEF Direct
<1>6. /\ Len(before) =< Len(Contents(n))
      /\ \A k \in 1 .. Len(Contents(n)) :
            \/ k =< Len(before) /\ Contents(n)[k] = before[k]
            \/ In(k) /\ Contents(n)[k] = w.word
            \/ In(k) /\ k > Direct /\ Contents(n)[k] = 0
  BY <1>3, <1>4 DEF OldSize
<1> QED  BY <1>1, <1>5, <1>6 DEF Store!Torn, Store!InOp, Direct

\* How a write ends: the disk stays, and its words are those of the file.
LEMMA EndsWrite ==
    ASSUME Known, InWrite, ~InWrite', inodes' = inodes, block' = block
    PROVE  /\ op # NoOp /\ op' = NoOp /\ op.inum = w.inum /\ w.inum \in Inumber
           /\ files \in [Inumber -> {files[i] : i \in Inumber}]
           /\ files[w.inum] = before
           /\ files' = [files EXCEPT ![w.inum] = Contents(w.inum)]
<1>1. PICK n \in Inumber : n = w.inum
  BY AtWork
<1>2. op # NoOp /\ op' = NoOp /\ op.inum = w.inum
  <2>1. op.inum # NoOp.inum /\ op.inum = w.inum
    <3>1. op.inum = w.inum /\ NoOp.inum = -1
      BY DEF op, NoOp
    <3>2. w.inum \in Nat
      BY <1>1, Numbers DEF Inumber
    <3> QED  BY <3>1, <3>2
  <2> QED  BY <2>1 DEF op
<1>3. inodes[n].valid
  BY <1>1 DEF Known, RInv, NamedThere
<1>4. ASSUME NEW i \in Inumber  PROVE Contents(i)' = Contents(i)
  <2>1. inodes[i] \in Inode /\ inodes[i].size =< MaxFileBlocks * BLOCK_SIZE
    BY DEF Known, SInv, TInv, TypeOK, RInv, SizesFit
  <2>2. \A s \in Slots : Pointer(i, s)' = Pointer(i, s)
    BY OnDisk
  <2> QED  BY <2>1, <2>2, SameWords
<1>5. files = [i \in Inumber |-> IF ~inodes[i].valid THEN <<-1>>
                                 ELSE IF n = i THEN before ELSE Contents(i)]
  BY <1>1 DEF files
<1>6. files' = [i \in Inumber |-> IF ~inodes[i].valid THEN <<-1>> ELSE Contents(i)]
  BY <1>4 DEF files
<1>7. files[n] = before
  BY <1>3, <1>5
<1>8. \A i \in Inumber : files'[i] = IF i = n THEN Contents(n) ELSE files[i]
  BY <1>3, <1>5, <1>6
<1>9. files' = [files EXCEPT ![n] = Contents(n)]
  BY <1>5, <1>6, <1>8
<1> QED  BY <1>1, <1>2, <1>5, <1>7, <1>9

LEMMA DeathFiles ==
    ASSUME Known, InWrite, ~InWrite', inodes' = inodes, block' = block, pc' # "copyin"
    PROVE  RInv' /\ Store!Next
<1>1. RInv'
  BY OutsideKnown DEF Known, RInv, SizesFit
<1>2. Store!Torn(before, Contents(w.inum))
  BY DiskIsTorn
<1>3. \A i \in Inumber \ {op.inum} : files'[i] = files[i]
  BY EndsWrite
<1>4. files[op.inum] = before /\ files'[op.inum] = Contents(w.inum)
  BY EndsWrite
<1>5. Store!Torn(files[op.inum], files'[op.inum])
  BY <1>2, <1>4
<1>6. Store!Crash
  BY <1>3, <1>5, EndsWrite DEF Store!Crash, Store!NoOp, NoOp
<1> QED  BY <1>1, <1>6 DEF Store!Next

LEMMA ReturnedFiles ==
    ASSUME Known, Returned
    PROVE  RInv' /\ Store!Next
<1>1. pc = "returned" /\ InWrite /\ ~InWrite' /\ UNCHANGED disk
  BY DEF Returned, InWrite
<1>2. PICK n \in Inumber : n = w.inum
  BY <1>1, AtWork
<1>3. RInv'
  <2>1. pc' = "copyin" => w'.inum = n /\ w'.word = w.word /\ ~w'.modified_indirect
    BY <1>2 DEF Returned, Idle
  <2>2. inodes[n].valid /\ w.word \in Data
    BY <1>1, <1>2 DEF Known, RInv, NamedThere
  <2>3. \A i \in Inumber : inodes'[i].size =< MaxFileBlocks * BLOCK_SIZE
    BY <1>1 DEF Known, RInv, SizesFit, disk
  <2> QED  BY <1>1, <2>1, <2>2, <2>3, OutsideKnown DEF disk
<1>4. PICK j \in 0 .. w.length :
         /\ inodes[n].size = Larger(OldSize, w.offset + j)
         /\ \A k \in 1 .. inodes[n].size : DiskWord(n, k) = Wanted(j, k)
  BY <1>1, <1>2 DEF Known, RInv, StoredAPrefix
<1>5. OldSize \in Nat /\ w.offset \in Nat
  BY <1>1, AtWork
<1>6. Contents(n) = Store!Overwritten(before, j)
  <2>1. Contents(n) = [k \in 1 .. inodes[n].size |-> DiskWord(n, k)]
    BY WordsOnDisk
  <2>2. Contents(n) = [k \in 1 .. Larger(OldSize, w.offset + j) |-> Wanted(j, k)]
    BY <1>4, <2>1
  <2>3. op.offset = w.offset /\ op.word = w.word
    BY <1>1 DEF op
  <2>4. Larger(OldSize, w.offset + j)
           = IF w.offset + j > Len(before) THEN w.offset + j ELSE Len(before)
    BY <1>5 DEF Larger, OldSize
  <2>5. \A k \in 1 .. Larger(OldSize, w.offset + j) :
           Wanted(j, k) = IF k > w.offset /\ k =< w.offset + j THEN w.word ELSE before[k]
    BY <1>5 DEF Wanted, Larger
  <2> QED  BY <2>2, <2>3, <2>4, <2>5 DEF Store!Overwritten
<1>7. files' = [files EXCEPT ![op.inum] = Store!Overwritten(@, j)]
  <2>1. files[n] = before /\ files' = [files EXCEPT ![n] = Contents(n)] /\ op.inum = n
    BY <1>1, <1>2, EndsWrite DEF disk
  <2> QED  BY <1>6, <2>1
<1>8. op # NoOp /\ op' = NoOp /\ op.length = w.length
  BY <1>1, EndsWrite DEF disk, op
<1>9. Store!EndWrite(j) /\ j \in 0 .. op.length
  BY <1>7, <1>8 DEF Store!EndWrite, Store!NoOp, NoOp
<1> QED  BY <1>3, <1>9 DEF Store!Next

\* The shell outside of write, when it leaves the files alone.
LEMMA AsideFiles ==
    ASSUME Known, ~InWrite, ~InWrite', inodes' = inodes, block' = block,
           pc' = "copyin" => /\ w'.inum \in Inumber /\ inodes[w'.inum].valid
                             /\ w'.word \in Data /\ ~w'.modified_indirect
    PROVE  RInv' /\ UNCHANGED Store!vars
<1>1. \A i \in Inumber : inodes'[i].size =< MaxFileBlocks * BLOCK_SIZE
  BY DEF Known, RInv, SizesFit
<1> QED  BY <1>1, OutsideKnown, OutsideStutters

\* format erases the files of the inode blocks it clears; by the time it comes to
\* the other blocks, there are none.
LEMMA FormatClearFiles ==
    ASSUME Known, FormatClear
    PROVE  RInv' /\ [Store!Next]_(Store!vars)
<1>1. pc = "format" /\ pc' = "format" /\ ~InWrite /\ ~InWrite' /\ TInv /\ TypeOK /\ FInv
      /\ w.block_num \in Nat /\ w.block_num < nblocks
  BY DEF FormatClear, InWrite, Known, SInv, TInv, TypeOK, Locals
<1> DEFINE S == {i \in Inumber : inodes'[i] = NoInode}
<1>2. \A i \in Inumber \ S : inodes'[i] = inodes[i]
  BY <1>1, ClearBlanks DEF FormatClear
<1>3. RInv'
  <2>1. MaxFileBlocks * BLOCK_SIZE \in Nat
    BY Numbers
  <2>2. \A i \in Inumber : inodes'[i].size =< MaxFileBlocks * BLOCK_SIZE
    BY <1>2, <2>1, Blank DEF Known, RInv, SizesFit
  <2> QED  BY <1>1, <2>2, OutsideKnown
<1>4. \A i \in Inumber \ S : Contents(i)' = Contents(i)
  <2>1. CASE w.block_num =< InodeBlocks
    <3> SUFFICES ASSUME NEW i \in Inumber \ S  PROVE Contents(i)' = Contents(i)
      OBVIOUS
    <3>1. block' = block /\ inodes'[i] = inodes[i]
      BY <1>2, <2>1 DEF FormatClear, ClearBlock
    <3>2. \A s \in Slots : Pointer(i, s)' = Pointer(i, s)
      BY <3>1, OnDisk
    <3>3. inodes[i] \in Inode /\ inodes[i].size =< MaxFileBlocks * BLOCK_SIZE
      BY <1>1 DEF Known, TypeOK, RInv, SizesFit
    <3> QED  BY <3>1, <3>2, <3>3, SameWords
  <2>2. CASE ~(w.block_num =< InodeBlocks)
    <3>1. inodes' = inodes
      BY <2>2 DEF FormatClear, ClearBlock
    <3>2. \A i \in Inumber : inodes[i] = NoInode
      BY <1>1, <2>2, InodeBlockOf, Numbers DEF FInv, Fresh
    <3> QED  BY <3>1, <3>2
  <2> QED  BY <2>1, <2>2
<1>5. files' = [i \in Inumber |-> IF i \in S THEN <<-1>> ELSE files[i]]
  BY <1>1, <1>2, <1>4, Blank DEF files
<1>6. op = NoOp /\ op' = NoOp
  BY <1>1 DEF op
<1>7. Store!Erase(S)
  BY <1>5, <1>6 DEF Store!Erase, Store!NoOp, Store!NoFile, NoOp
<1>8. S \in SUBSET Inumber
  OBVIOUS
<1> QED  BY <1>3, <1>7, <1>8 DEF Store!Next

LEMMA CreateFiles ==
    ASSUME Known, Create
    PROVE  RInv' /\ Store!Next
<1> DEFINE new == [NoInode EXCEPT !.valid = TRUE]
<1>1. pc = "prompt" /\ ~InWrite /\ ~InWrite' /\ pc' = "prompt" /\ UNCHANGED block
      /\ TInv /\ TypeOK
  BY DEF Create, InWrite, Known, SInv, TInv
<1>2. PICK n \in Inumber : ~inodes[n].valid /\ inodes' = [inodes EXCEPT ![n] = new]
  <2>1. PICK n \in 0 .. num_inodes - 1 : ~inodes[n].valid /\ inodes' = [inodes EXCEPT ![n] = new]
    BY DEF Create
  <2>2. n \in Inumber
    BY <1>1, <2>1, Numbers DEF TypeOK, Inumber
  <2> QED  BY <2>1, <2>2
<1>3. new.valid /\ new.size = 0
  BY DEF NoInode
<1>4. inodes'[n] = new /\ \A i \in Inumber \ {n} : inodes'[i] = inodes[i]
  BY <1>1, <1>2 DEF TypeOK
<1> HIDE DEF new
<1>5. MaxFileBlocks * BLOCK_SIZE \in Nat
  BY Numbers
<1>6. RInv'
  <2>1. \A i \in Inumber : inodes'[i].size =< MaxFileBlocks * BLOCK_SIZE
    BY <1>3, <1>4, <1>5 DEF Known, RInv, SizesFit
  <2> QED  BY <1>1, <2>1, OutsideKnown
<1>7. Contents(n)' = <<>>
  <2>1. Contents(n)' = [k \in 1 .. inodes'[n].size |-> DiskWord(n, k)']
    BY WordsOnDiskNext
  <2>2. inodes'[n].size = 0
    BY <1>3, <1>4
  <2>3. Contents(n)' = [k \in 1 .. 0 |-> DiskWord(n, k)']
    BY <2>1, <2>2
  <2> QED  BY <2>3
<1>8. \A i \in Inumber \ {n} : Contents(i)' = Contents(i)
  <2> SUFFICES ASSUME NEW i \in Inumber \ {n}  PROVE Contents(i)' = Contents(i)
    OBVIOUS
  <2>1. \A s \in Slots : Pointer(i, s)' = Pointer(i, s)
    BY <1>1, <1>4, OnDisk
  <2>2. inodes[i] \in Inode /\ inodes[i].size =< MaxFileBlocks * BLOCK_SIZE
    BY <1>1 DEF Known, TypeOK, RInv, SizesFit
  <2> QED  BY <1>1, <1>4, <2>1, <2>2, SameWords
<1>9. files[n] = <<-1>> /\ files' = [files EXCEPT ![n] = <<>>]
  <2>1. files[n] = <<-1>>
    BY <1>2 DEF files
  <2>2. files' = [i \in Inumber |-> IF i = n THEN <<>> ELSE files[i]]
    BY <1>1, <1>3, <1>4, <1>7, <1>8 DEF files
  <2>3. files = [i \in Inumber |-> files[i]]
    BY DEF files
  <2> QED  BY <2>1, <2>2, <2>3
<1>10. op = NoOp /\ op' = NoOp
  BY <1>1 DEF op
<1>11. Store!Create(n)
  BY <1>9, <1>10 DEF Store!Create, Store!NoOp, Store!NoFile, NoOp
<1> QED  BY <1>6, <1>11 DEF Store!Next

LEMMA RemoveFiles ==
    ASSUME Known, NEW n \in Named, Remove(n)
    PROVE  RInv' /\ [Store!Next]_(Store!vars)
<1>1. pc = "prompt" /\ ~InWrite /\ ~InWrite' /\ pc' # "copyin" /\ UNCHANGED block
      /\ TInv /\ TypeOK
  BY DEF Remove, InWrite, Known, SInv, TInv
<1>2. n \in Inumber
  BY <1>1, Numbers DEF TypeOK, Remove, Inumber, Named
<1>3. CASE UNCHANGED inodes
  BY <1>1, <1>3, AsideFiles
<1>4. CASE inodes' = [inodes EXCEPT ![n] = NoInode]
  <2>1. inodes'[n] = NoInode /\ \A i \in Inumber \ {n} : inodes'[i] = inodes[i]
    BY <1>1, <1>2, <1>4 DEF TypeOK
  <2>2. MaxFileBlocks * BLOCK_SIZE \in Nat
    BY Numbers
  <2>3. RInv'
    <3>1. \A i \in Inumber : inodes'[i].size =< MaxFileBlocks * BLOCK_SIZE
      BY <2>1, <2>2, Blank DEF Known, RInv, SizesFit
    <3> QED  BY <1>1, <3>1, OutsideKnown
  <2>4. \A i \in Inumber \ {n} : Contents(i)' = Contents(i)
    <3> SUFFICES ASSUME NEW i \in Inumber \ {n}  PROVE Contents(i)' = Contents(i)
      OBVIOUS
    <3>1. \A s \in Slots : Pointer(i, s)' = Pointer(i, s)
      BY <1>1, <2>1, OnDisk
    <3>2. inodes[i] \in Inode /\ inodes[i].size =< MaxFileBlocks * BLOCK_SIZE
      BY <1>1 DEF Known, TypeOK, RInv, SizesFit
    <3> QED  BY <1>1, <2>1, <3>1, <3>2, SameWords
  <2>5. files' = [i \in Inumber |-> IF i \in {n} THEN <<-1>> ELSE files[i]]
    BY <1>1, <2>1, <2>4, Blank DEF files
  <2>6. op = NoOp /\ op' = NoOp
    BY <1>1 DEF op
  <2>7. Store!Erase({n})
    BY <2>5, <2>6 DEF Store!Erase, Store!NoOp, Store!NoFile, NoOp
  <2> QED  BY <1>2, <2>3, <2>7 DEF Store!Next
<1> QED  BY <1>3, <1>4 DEF Remove

LEMMA CommandFiles ==
    ASSUME Known, ~AnyInode, Command
    PROVE  RInv' /\ [Store!Next]_(Store!vars)
<1> USE DEF disk, InWrite
<1>1. CASE Format \/ Mount \/ MountAborts \/ DebugAborts \/ UseBeforeMount
  BY <1>1, AsideFiles DEF Format, Mount, MountAborts, DebugAborts, UseBeforeMount, Abort
<1>2. ASSUME NEW i \in Named, RemoveAborts(i) \/ CopyOutStops(i)
      PROVE  RInv' /\ [Store!Next]_(Store!vars)
  BY <1>2, AsideFiles DEF RemoveAborts, CopyOutStops, Abort
<1>3. ASSUME NEW i \in Named, NEW file \in HostFiles, CopyIn(i, file)
      PROVE  RInv' /\ [Store!Next]_(Store!vars)
  <2>1. i \in Inumber /\ inodes[i].valid
    BY DEF Named
  <2>2. file.word \in Data
    BY ConstantsAssumption
  <2>3. w'.inum = i /\ w'.word = file.word /\ ~w'.modified_indirect
    BY <1>3 DEF CopyIn, Idle
  <2> QED  BY <1>3, <2>1, <2>2, <2>3, AsideFiles DEF CopyIn
<1> QED  BY <1>1, <1>2, <1>3, CreateFiles, RemoveFiles DEF Command

\* Where nothing changes, RInv stays.
LEMMA StaysFiles ==
    ASSUME Known, UNCHANGED svars
    PROVE  RInv'
<1>0. /\ inodes' = inodes /\ block' = block /\ pc' = pc /\ w' = w /\ before' = before
      /\ RInv
  BY DEF svars, vars, Known
<1>1. /\ Writing' = Writing /\ InWrite' = InWrite /\ InLoop' = InLoop /\ IsDirect' = IsDirect
      /\ OldSize' = OldSize /\ NewSize' = NewSize /\ write_offset' = write_offset
  BY <1>0 DEF Writing, InWrite, InLoop, IsDirect, OldSize, NewSize, Larger, write_offset
<1>2. ASSUME NEW i, NEW k
      PROVE  /\ Held(i, PlaceOf(k))' = Held(i, PlaceOf(k))
             /\ Pointer(i, PlaceOf(k))' = Pointer(i, PlaceOf(k))
  BY <1>0 DEF Held, InodeOf, TableOf, Table, At, Pointer, PlaceOf, Writing
<1>3. ASSUME NEW i, NEW k
      PROVE  HeldWord(i, k)' = HeldWord(i, k) /\ DiskWord(i, k)' = DiskWord(i, k)
  BY <1>0, <1>2 DEF HeldWord, DiskWord, WordIn, PlaceOf
<1>4. ASSUME NEW j, NEW k  PROVE Wanted(j, k)' = Wanted(j, k)
  BY <1>0 DEF Wanted
<1>5. SizesFit' /\ NamedThere' /\ Position'
  BY <1>0, <1>1 DEF RInv, SizesFit, NamedThere, Position
<1>6. SavedInode' /\ SavedTable'
  BY <1>0, <1>1 DEF RInv, SavedInode, SavedTable
<1>7. HandsWords'
  BY <1>0, <1>1, <1>3, <1>4 DEF RInv, HandsWords
<1>8. NoOldLost'
  BY <1>0, <1>1, <1>2 DEF RInv, NoOldLost
<1>9. StoredAPrefix'
  BY <1>0, <1>1, <1>3, <1>4 DEF RInv, StoredAPrefix
<1> QED  BY <1>5, <1>6, <1>7, <1>8, <1>9 DEF RInv

\* One step of the file system is one step of FileStore, or none.
LEMMA StepOfStore ==
    ASSUME Known, ~AnyInode, [SNext]_svars, \A n \in Sizes : ~Open(n)
    PROVE  RInv' /\ [Store!Next]_(Store!vars)
<1> USE DEF disk
<1>1. CASE UNCHANGED svars
  <2>1. RInv'
    BY <1>1, StaysFiles
  <2>2. UNCHANGED Store!vars
    BY <1>1 DEF svars, vars, Store!vars, files, op, Contents, Pointer, InWrite
  <2> QED  BY <2>1, <2>2
<1> SUFFICES ASSUME SNext  PROVE RInv' /\ [Store!Next]_(Store!vars)
  BY <1>1
<1>2. /\ InWrite => before' = before
      /\ ~InWrite /\ InWrite' => before' = Contents(w.inum)
  BY DEF SNext
<1>3. CASE Command
  BY <1>3, CommandFiles
<1>4. CASE CopyInStep
  <2>1. CASE Write
    BY <1>2, <2>1, BeginFiles DEF Write, InWrite
  <2>2. CASE AllocateDirect \/ AllocateIndirect \/ AllocateData
    BY <1>2, <2>2, AllocateFiles
    DEF AllocateDirect, AllocateIndirect, AllocateData, InLoop, InWrite
  <2>3. CASE ReadIndirect
    BY <1>2, <2>3, ReadIndirectFiles DEF ReadIndirect, InLoop, InWrite
  <2>4. CASE WriteData
    BY <1>2, <2>4, WriteDataFiles DEF WriteData, InLoop, InWrite
  <2>5. CASE UpdateSize
    BY <1>2, <2>5, UpdateSizeFiles DEF UpdateSize, InWrite
  <2>6. CASE SaveInode
    BY <1>2, <2>6, SaveInodeFiles DEF SaveInode, InWrite
  <2>7. CASE SaveIndirect
    BY <1>2, <2>7, SaveIndirectFiles DEF SaveIndirect, InWrite
  <2>8. CASE ReturnEarly
    BY <1>2, <2>8, ReturnEarlyFiles DEF ReturnEarly, InLoop, InWrite
  <2>9. CASE WriteAborts \/ OverwriteInodes
    BY <2>9, DeathFiles DEF WriteAborts, OverwriteInodes, Abort, InLoop, InWrite
  <2>10. CASE CopyInDone
    BY <2>10, AsideFiles DEF CopyInDone, InWrite
  <2> QED
    BY <1>4, <2>1, <2>2, <2>3, <2>4, <2>5, <2>6, <2>7, <2>8, <2>9, <2>10, ReturnedFiles
    DEF CopyInStep
<1>5. CASE FormatClear
  BY <1>5, FormatClearFiles
<1>6. CASE FormatDone
  BY <1>6, AsideFiles DEF FormatDone, InWrite
<1>7. CASE Stop
  <2>1. pc' = "stopped" /\ ~InWrite' /\ inodes' = inodes /\ block' = block
    BY <1>7 DEF Stop, InWrite
  <2>2. CASE InWrite
    BY <2>1, <2>2, DeathFiles
  <2>3. CASE ~InWrite
    BY <2>1, <2>3, AsideFiles
  <2> QED  BY <2>2, <2>3
<1> QED  BY <1>3, <1>4, <1>5, <1>6, <1>7 DEF SNext, Next

LEMMA SpecOfSSpec == SSpec => Spec
<1>1. SInit => Init
  BY DEF SInit
<1>2. [SNext]_svars => [Next]_vars
  BY DEF SNext, svars
<1> QED  BY <1>1, <1>2, PTL DEF SSpec, Spec

LEMMA FilesInit ==
    ASSUME SInit
    PROVE  RInv /\ Store!Init
<1>1. pc = "prompt" /\ inodes = [i \in Inumber |-> NoInode]
  BY DEF SInit, Init
<1>2. ~InWrite /\ ~Writing
  BY <1>1 DEF InWrite, Writing
<1>3. RInv
  <2>1. MaxFileBlocks * BLOCK_SIZE \in Nat
    BY Numbers
  <2>2. SizesFit
    BY <1>1, <1>2, <2>1, Blank DEF SizesFit
  <2>3. NamedThere
    BY <1>1, <1>2 DEF NamedThere
  <2>4. Position /\ SavedInode /\ SavedTable /\ HandsWords /\ NoOldLost /\ StoredAPrefix
    BY <1>1, <1>2 DEF Position, SavedInode, SavedTable, HandsWords, NoOldLost, StoredAPrefix
  <2> QED  BY <2>2, <2>3, <2>4 DEF RInv
<1>4. files = [i \in Inumber |-> <<-1>>] /\ op = NoOp
  BY <1>1, <1>2, Blank DEF files, op
<1> QED  BY <1>3, <1>4 DEF Store!Init, Store!NoFile, Store!NoOp, NoOp

\* What write has in hand, on every behavior before the second start.
LEMMA FilesInductive ==
    ASSUME ~AnyInode
    PROVE  SSpec => [](SInv /\ (opens = 1 => Known))
<1>1. SSpec => [](SInv /\ (opens = 1 => FInv) /\ opens \in Nat \ {0})
  <2>1. Spec => [](opens \in Nat \ {0})
    <3>1. TypeOK => opens \in Nat \ {0}
      BY DEF TypeOK
    <3> QED  BY <3>1, TypeCorrect, PTL
  <2> QED  BY <2>1, SpecOfSSpec, HeldInductive, BackedInductive, PTL
<1>2. SInit => (opens = 1 => RInv)
  BY FilesInit
<1>3. /\ SInv /\ (opens = 1 => FInv) /\ opens \in Nat \ {0}
      /\ (SInv /\ (opens = 1 => FInv) /\ opens \in Nat \ {0})'
      /\ (opens = 1 => RInv) /\ [SNext]_svars
      => (opens = 1 => RInv)'
  <2> SUFFICES ASSUME SInv, opens = 1 => FInv, opens \in Nat \ {0}, opens = 1 => RInv,
                      [SNext]_svars, opens' = 1
               PROVE  RInv'
    OBVIOUS
  <2>1. opens = 1 /\ \A n \in Sizes : ~Open(n)
    BY OpensGrow DEF SNext, svars, Open
  <2> QED  BY <2>1, StepOfStore DEF Known
<1>4. SSpec => [](opens = 1 => RInv)
  BY <1>1, <1>2, <1>3, PTL DEF SSpec
<1>5. SInv /\ (opens = 1 => FInv) /\ (opens = 1 => RInv) => SInv /\ (opens = 1 => Known)
  BY DEF Known
<1> QED  BY <1>1, <1>4, <1>5, PTL

-----------------------------------------------------------------------------
(* The refinement, and what it gives                                        *)

\* Until the shell is started a second time, every step of every command, and of
\* the kill that cuts it off, does to the files what one step of FileStore does,
\* or nothing.
THEOREM StepsOfFileStore ==
    ASSUME ~AnyInode
    PROVE  SSpec => Store!Init /\ [][opens' = 1 => [Store!Next]_(Store!vars)]_svars
<1>1. SInit => Store!Init
  BY FilesInit
<1>2. /\ SInv /\ (opens = 1 => Known)
      /\ [SNext]_svars
      => [opens' = 1 => [Store!Next]_(Store!vars)]_svars
  <2> SUFFICES ASSUME SInv, opens = 1 => Known, [SNext]_svars, opens' = 1
               PROVE  [Store!Next]_(Store!vars)
    OBVIOUS
  <2>1. opens = 1 /\ \A n \in Sizes : ~Open(n)
    BY OpensGrow DEF SInv, TInv, TypeOK, SNext, svars, Open
  <2> QED  BY <2>1, StepOfStore
<1> QED  BY <1>1, <1>2, FilesInductive, PTL DEF SSpec

\* A shell that is started once implements FileStore: a write that returned has
\* put a prefix of its words in its file, no command touches another file, and
\* what a kill or an assert can spoil is confined to the words of the write that
\* it hit.
THEOREM ImplementsStore ==
    ASSUME ~AnyInode, MaxOpens =< 1
    PROVE  SSpec => ImplementsFileStore
<1>1. SSpec => [](opens = 1)
  <2>1. SInit => opens = 1
    BY DEF SInit, Init
  <2>2. opens = 1 /\ [SNext]_svars => (opens = 1)'
    <3> SUFFICES ASSUME opens = 1, [SNext]_svars  PROVE opens' = 1
      OBVIOUS
    <3>1. MaxOpens \in Nat
      BY ConstantsAssumption
    <3>2. ASSUME NEW n \in Sizes, Open(n)  PROVE FALSE
      BY <3>1, <3>2 DEF Open
    <3>3. CASE Command
      BY <3>3 DEF Command, Format, Mount, MountAborts, DebugAborts, UseBeforeMount, Create, Remove,
                  RemoveAborts, CopyOutStops, CopyIn, Abort
    <3>4. CASE CopyInStep
      BY <3>4 DEF CopyInStep, Write, AllocateDirect, AllocateIndirect, AllocateData, ReadIndirect,
                  WriteData, UpdateSize, SaveInode, SaveIndirect, OverwriteInodes, ReturnEarly,
                  WriteAborts, Returned, CopyInDone, Abort
    <3>5. CASE FormatClear \/ FormatDone \/ Stop
      BY <3>5 DEF FormatClear, FormatDone, Stop
    <3> QED  BY <3>2, <3>3, <3>4, <3>5 DEF SNext, Next, svars, vars
  <2> QED  BY <2>1, <2>2, PTL DEF SSpec
<1>2. (opens = 1)' /\ [opens' = 1 => [Store!Next]_(Store!vars)]_svars
      => [Store!Next]_(Store!vars)
  <2> SUFFICES ASSUME opens' = 1, UNCHANGED svars  PROVE UNCHANGED Store!vars
    OBVIOUS
  <2> QED  BY DEF svars, vars, Store!vars, files, op, Contents, Pointer, InWrite
<1> QED  BY <1>1, <1>2, StepsOfFileStore, PTL DEF ImplementsFileStore, Store!Spec

LEMMA NotNoFile ==
    ASSUME NEW f \in Seq(Word)
    PROVE  f # <<-1>>
<1> SUFFICES ASSUME f = <<-1>>  PROVE FALSE
  OBVIOUS
<1>1. Len(f) = 1 /\ f[1] = -1
  OBVIOUS
<1>2. f[1] \in Word
  BY <1>1, ElementOfSeq
<1> QED  BY <1>1, <1>2 DEF Word

\* The words in front of the direct limit, as FileStore sees them.
DirectData ==
    \A i \in Inumber : files[i] # <<-1>> =>
        \A k \in DOMAIN files[i] : k =< POINTERS_PER_INODE * BLOCK_SIZE => files[i][k] \in Data

FilesAreSeqs == \A i \in Inumber : DOMAIN files[i] = 1 .. Len(files[i])

LEMMA FilesSeqs ==
    ASSUME Known
    PROVE  FilesAreSeqs
<1> SUFFICES ASSUME NEW i \in Inumber  PROVE DOMAIN files[i] = 1 .. Len(files[i])
  BY DEF FilesAreSeqs
<1>1. files[i] = <<-1>> \/ (InWrite /\ files[i] = before) \/ files[i] = Contents(i)
  BY DEF files
<1>2. CASE files[i] = <<-1>>
  BY <1>2
<1>3. CASE InWrite /\ files[i] = before
  BY <1>3, LenProperties DEF Known, RInv, NamedThere
<1>4. CASE files[i] = Contents(i)
  BY <1>4, WordsAreSeqs, LenProperties DEF Known, SInv
<1> QED  BY <1>1, <1>2, <1>3, <1>4

\* No step of FileStore puts anything but data there: writes leave no gap.
LEMMA StoreKeepsData ==
    ASSUME Known, DirectData, FilesAreSeqs', [Store!Next]_(Store!vars)
    PROVE  DirectData'
<1> DEFINE Direct == POINTERS_PER_INODE * BLOCK_SIZE
<1>0. files = [i \in Inumber |-> files[i]]
  BY DEF files
<1>1. op # NoOp =>
         /\ op.inum \in Inumber /\ files[op.inum] # <<-1>> /\ files[op.inum] \in Seq(Word)
         /\ op.word \in Data /\ op.offset \in Nat /\ op.offset =< Len(files[op.inum])
  <2> SUFFICES ASSUME op # NoOp
               PROVE  /\ op.inum \in Inumber /\ files[op.inum] # <<-1>>
                      /\ files[op.inum] \in Seq(Word)
                      /\ op.word \in Data /\ op.offset \in Nat
                      /\ op.offset =< Len(files[op.inum])
    OBVIOUS
  <2>1. InWrite /\ op.inum = w.inum /\ op.word = w.word /\ op.offset = w.offset
    BY DEF op
  <2>2. PICK n \in Inumber : n = w.inum
    BY <2>1, AtWork
  <2>3. inodes[n].valid /\ w.word \in Data /\ before \in Seq(Word) /\ w.offset =< Len(before)
    BY <2>1, <2>2 DEF Known, RInv, NamedThere, OldSize
  <2>4. files[n] = before
    BY <2>1, <2>2, <2>3 DEF files
  <2>5. before # <<-1>>
    BY <2>3, NotNoFile
  <2> QED  BY <2>1, <2>2, <2>3, <2>4, <2>5, AtWork
<1>2. CASE UNCHANGED Store!vars
  BY <1>2 DEF Store!vars, DirectData, BLOCK_SIZE
<1>3. ASSUME NEW S \in SUBSET Inumber, Store!Erase(S)  PROVE DirectData'
  BY <1>3 DEF Store!Erase, Store!NoFile, DirectData, BLOCK_SIZE
<1>4. ASSUME NEW i \in Inumber, Store!Create(i)  PROVE DirectData'
  <2>1. files'[i] = <<>> /\ \A j \in Inumber \ {i} : files'[j] = files[j]
    BY <1>0, <1>4 DEF Store!Create
  <2>2. DOMAIN files'[i] = {}
    BY <2>1
  <2> QED  BY <2>1, <2>2 DEF DirectData, BLOCK_SIZE
<1>5. ASSUME UNCHANGED files  PROVE DirectData'
  BY <1>5 DEF DirectData, BLOCK_SIZE
<1>6. ASSUME op # NoOp, NEW g, files'[op.inum] = g,
             \A j \in Inumber \ {op.inum} : files'[j] = files[j],
             \A k \in DOMAIN g : k =< Direct =>
                 g[k] = op.word \/ (k \in DOMAIN files[op.inum] /\ g[k] = files[op.inum][k])
      PROVE  DirectData'
  BY <1>1, <1>6 DEF DirectData, BLOCK_SIZE
<1>7. Direct \in Nat
  BY Numbers
<1>8. ASSUME NEW n \in 0 .. op.length, Store!EndWrite(n)  PROVE DirectData'
  <2> DEFINE f == files[op.inum]  g == Store!Overwritten(f, n)
  <2>1. op # NoOp /\ files'[op.inum] = g /\ \A j \in Inumber \ {op.inum} : files'[j] = files[j]
    BY <1>0, <1>1, <1>8 DEF Store!EndWrite, Store!NoOp, NoOp
  <2>2. n \in Nat /\ op.offset \in Nat /\ op.offset =< Len(f) /\ Len(f) \in Nat
        /\ DOMAIN f = 1 .. Len(f)
    BY <1>1, <1>8, <2>1, LenProperties
  <2>3. ASSUME NEW k \in DOMAIN g  PROVE g[k] = op.word \/ (k \in DOMAIN f /\ g[k] = f[k])
    <3>1. k \in 1 .. (IF op.offset + n > Len(f) THEN op.offset + n ELSE Len(f))
          /\ g[k] = IF k > op.offset /\ k =< op.offset + n THEN op.word ELSE f[k]
      BY <2>3 DEF Store!Overwritten
    <3> HIDE DEF f, g
    <3> QED  BY <2>2, <3>1
  <2> HIDE DEF g
  <2> QED  BY <1>6, <2>1, <2>3
<1>9. ASSUME Store!Crash  PROVE DirectData'
  <2> DEFINE f == files[op.inum]  g == files'[op.inum]
  <2>1. op # NoOp /\ \A j \in Inumber \ {op.inum} : files'[j] = files[j]
    BY <1>9 DEF Store!Crash, Store!NoOp, NoOp
  <2>2. \A k \in 1 .. Len(g) : \/ k =< Len(f) /\ g[k] = f[k]
                               \/ g[k] = op.word
                               \/ k > Direct
    BY <1>9 DEF Store!Crash, Store!Torn
  <2>3. DOMAIN g = 1 .. Len(g)
    BY <1>1, <2>1 DEF FilesAreSeqs
  <2>4. DOMAIN f = 1 .. Len(f)
    BY <1>1, <2>1, LenProperties
  <2> HIDE DEF f, g
  <2>5. ASSUME NEW k \in DOMAIN g, k =< Direct
        PROVE  g[k] = op.word \/ (k \in DOMAIN f /\ g[k] = f[k])
    BY <1>7, <2>2, <2>3, <2>4, <2>5, Numbers
  <2> QED  BY <1>6, <2>1, <2>5 DEF f, g
<1> QED
  BY <1>2, <1>3, <1>4, <1>5, <1>8, <1>9
  DEF Store!Next, Store!BeginWrite

\* The file that is written has the words it had, and words of the write.
LEMMA UnwrittenNever ==
    ASSUME Known, DirectData
    PROVE  NoUnwrittenData
<1> SUFFICES ASSUME NEW i \in Inumber, inodes[i].valid,
                    NEW k \in DOMAIN Contents(i), k =< POINTERS_PER_INODE * BLOCK_SIZE
             PROVE  Contents(i)[k] \in Data
  BY DEF NoUnwrittenData
<1>1. /\ Contents(i) \in Seq(Word) /\ Contents(i) # <<-1>>
      /\ DOMAIN Contents(i) = 1 .. Len(Contents(i))
  BY WordsAreSeqs, LenProperties DEF Known, SInv
<1>2. CASE ~(InWrite /\ w.inum = i)
  <2>1. files[i] = Contents(i)
    BY <1>2 DEF files
  <2> QED  BY <1>1, <2>1 DEF DirectData
<1>3. CASE InWrite /\ w.inum = i
  <2>1. Store!Torn(before, Contents(i))
    BY <1>3, DiskIsTorn
  <2>2. files[i] = before /\ before \in Seq(Word) /\ w.word \in Data /\ op.word = w.word
    BY <1>3 DEF files, op, Known, RInv, NamedThere
  <2>3. before # <<-1>>
    BY <2>2, NotNoFile
  <2>4. DOMAIN before = 1 .. Len(before)
    BY <2>2, LenProperties
  <2>5. \/ k =< Len(before) /\ Contents(i)[k] = before[k]
        \/ Contents(i)[k] = op.word
    <3>1. ~(k > POINTERS_PER_INODE * BLOCK_SIZE)
      BY <1>1, Numbers, LenProperties
    <3> QED  BY <1>1, <2>1, <3>1 DEF Store!Torn
  <2>6. k \in 1 .. Len(before) => before[k] \in Data
    BY <2>2, <2>3, <2>4 DEF DirectData
  <2> QED  BY <1>1, <2>2, <2>5, <2>6, LenProperties
<1> QED  BY <1>2, <1>3

\* Until the second start, whatever write is cut off at: data reaches the disk
\* before the pointer to it and before the size, so that no file shows the zeros
\* of a fresh block among the words of its direct blocks.
THEOREM NoUnwrittenDataHolds ==
    ASSUME ~AnyInode
    PROVE  SSpec => [](opens = 1 => NoUnwrittenData)
<1>1. SSpec => [](SInv /\ (opens = 1 => Known /\ FilesAreSeqs))
  <2>1. Known => FilesAreSeqs
    BY FilesSeqs
  <2> QED  BY <2>1, FilesInductive, PTL
<1>2. SInit => (opens = 1 => DirectData)
  <2> SUFFICES ASSUME SInit  PROVE DirectData
    OBVIOUS
  <2>1. \A i \in Inumber : files[i] = <<-1>>
    BY FilesInit DEF Store!Init, Store!NoFile
  <2> QED  BY <2>1 DEF DirectData
<1>3. /\ SInv /\ (opens = 1 => Known /\ FilesAreSeqs)
      /\ (SInv /\ (opens = 1 => Known /\ FilesAreSeqs))'
      /\ (opens = 1 => DirectData) /\ [SNext]_svars
      => (opens = 1 => DirectData)'
  <2> SUFFICES ASSUME SInv, opens = 1 => Known, FilesAreSeqs', opens = 1 => DirectData,
                      [SNext]_svars, opens' = 1
               PROVE  DirectData'
    OBVIOUS
  <2>1. opens = 1 /\ \A n \in Sizes : ~Open(n)
    BY OpensGrow DEF SInv, TInv, TypeOK, SNext, svars, Open
  <2>2. [Store!Next]_(Store!vars)
    BY <2>1, StepOfStore
  <2> QED  BY <2>1, <2>2, StoreKeepsData
<1>4. SSpec => [](opens = 1 => DirectData)
  BY <1>1, <1>2, <1>3, PTL DEF SSpec
<1>5. (opens = 1 => Known) /\ (opens = 1 => DirectData) => (opens = 1 => NoUnwrittenData)
  BY UnwrittenNever
<1> QED  BY <1>1, <1>4, <1>5, PTL

-----------------------------------------------------------------------------
(* What write reports, and what copyout gives back                          *)

\* When the indirect block is saved, every word that write counts is in the file.
LEMMA SaveStores ==
    ASSUME Known, [SNext]_svars, SaveIndirect
    PROVE  WrittenIsStored'
<1>1. pc = "save_indirect" /\ pc' = "returned" /\ InWrite /\ w' = w
  BY DEF SaveIndirect, InWrite
<1>2. before' = before
  BY <1>1 DEF SNext, svars
<1>3. PICK n \in Inumber : n = w.inum
  BY <1>1, <1>2, AtWork
<1>4. inodes'[n].size = NewSize /\ \A k \in 1 .. NewSize : DiskWord(n, k)' = Wanted(w.written, k)
  BY <1>2, <1>3, SaveIndirectFiles
<1>5. Contents(n)' = [k \in 1 .. NewSize |-> DiskWord(n, k)']
  BY <1>4, WordsOnDiskNext
<1>6. w.offset \in Nat /\ w.written \in Nat /\ NewSize \in Nat /\ w.offset + w.written =< NewSize
  BY <1>1, <1>2, AtWork
<1>7. ASSUME NEW k \in w.offset .. w.offset + w.written - 1
      PROVE  k + 1 \in DOMAIN Contents(n)' /\ Contents(n)'[k + 1] = w.word
  <2>1. k + 1 \in 1 .. NewSize /\ w.offset < k + 1 /\ k + 1 =< w.offset + w.written
    BY <1>6
  <2>2. Wanted(w.written, k + 1) = w.word
    BY <2>1 DEF Wanted
  <2> QED  BY <1>4, <1>5, <2>1, <2>2
<1> QED  BY <1>1, <1>3, <1>7 DEF WrittenIsStored

\* Until the second start, a write that comes to its end has stored every word
\* that it reports as written: when it saves the indirect block, the last thing it
\* does, they are all in the file.  A full disk that breaks the loop makes it
\* report less; only the return without a block for the pointers is left out.
THEOREM SavedWritesAreStored ==
    ASSUME ~AnyInode
    PROVE  SSpec => [][opens' = 1 /\ SaveIndirect => WrittenIsStored']_svars
<1>1. SInv /\ SInv' /\ (opens = 1 => Known) /\ [SNext]_svars
      => [opens' = 1 /\ SaveIndirect => WrittenIsStored']_svars
  <2> SUFFICES ASSUME SInv, SInv', opens = 1 => Known, [SNext]_svars, opens' = 1, SaveIndirect,
                      svars' # svars
               PROVE  WrittenIsStored'
    OBVIOUS
  <2>1. Known
    BY OpensGrow DEF SInv, TInv, TypeOK, SNext, svars
  <2> QED  BY <2>1, SaveStores
<1> QED  BY <1>1, FilesInductive, PTL DEF SSpec

\* Until the second start the disk has as many blocks as the superblock says.
OneDisk == super \in {NoSuper, SuperBlock(nblocks)} /\ num_blocks \in {0, nblocks}

LEMMA OneDiskInductive == Spec => [](opens = 1 => OneDisk)
<1>1. Init => OneDisk
  BY DEF Init, OneDisk
<1>2. TypeOK /\ (opens = 1 => OneDisk) /\ [Next]_vars => (opens = 1 => OneDisk)'
  <2> SUFFICES ASSUME TypeOK, opens = 1 => OneDisk, [Next]_vars, opens' = 1  PROVE OneDisk'
    OBVIOUS
  <2>0. OneDisk /\ opens = 1 /\ nblocks \in Sizes
    BY OpensGrow DEF TypeOK
  <2> USE DEF disk, memory
  <2>1. CASE Command
    <3>1. CASE Format
      BY <2>0, <3>1 DEF Format, OneDisk
    <3>2. CASE Mount
      <4>1. super = SuperBlock(nblocks)
        BY <2>0, <3>2 DEF Mount, MountChecks, OneDisk, NoSuper
      <4>2. super.blocks = nblocks
        BY <2>0, <4>1, Formatted
      <4> QED  BY <2>0, <3>2, <4>1, <4>2 DEF Mount, OneDisk
    <3>3. CASE MountAborts \/ DebugAborts \/ UseBeforeMount \/ Create
      BY <2>0, <3>3 DEF MountAborts, DebugAborts, UseBeforeMount, Create, Abort, OneDisk
    <3>4. ASSUME NEW i \in Named, Remove(i) \/ RemoveAborts(i) \/ CopyOutStops(i)  PROVE OneDisk'
      BY <2>0, <3>4 DEF Remove, RemoveAborts, CopyOutStops, Abort, OneDisk
    <3>5. ASSUME NEW i \in Named, NEW file \in HostFiles, CopyIn(i, file)  PROVE OneDisk'
      BY <2>0, <3>5 DEF CopyIn, OneDisk
    <3> QED  BY <2>1, <3>1, <3>2, <3>3, <3>4, <3>5 DEF Command
  <2>2. CASE CopyInStep
    BY <2>0, <2>2
    DEF CopyInStep, Write, AllocateDirect, AllocateIndirect, AllocateData, AllocateFreeBlock,
        ReadIndirect, WriteData, UpdateSize, SaveInode, SaveIndirect, ReturnEarly, WriteAborts,
        OverwriteInodes, Returned, CopyInDone, Abort, OneDisk
  <2>3. CASE FormatClear \/ FormatDone \/ Stop
    BY <2>0, <2>3 DEF FormatClear, ClearBlock, FormatDone, Stop, OneDisk
  <2>4. ASSUME NEW n \in Sizes, Open(n)  PROVE FALSE
    BY <2>0, <2>4 DEF Open
  <2>5. CASE UNCHANGED vars
    BY <2>0, <2>5 DEF vars, OneDisk
  <2> QED  BY <2>1, <2>2, <2>3, <2>4, <2>5 DEF Next
<1> QED  BY <1>1, <1>2, TypeCorrect, PTL DEF Spec

\* A chunk that ends inside the block behind the direct ones ends the file.
LEMMA ChunkEnds ==
    ASSUME NEW offset \in Nat, NEW length \in Nat, NEW size \in Nat, NEW x \in Nat,
           offset % CHUNK = 0, length = CHUNK \/ offset + length = size,
           x < offset + length, POINTERS_PER_INODE =< x \div BLOCK_SIZE,
           (offset + length) \div BLOCK_SIZE =< POINTERS_PER_INODE
    PROVE  size \in POINTERS_PER_INODE * BLOCK_SIZE + 1 .. (POINTERS_PER_INODE + 1) * BLOCK_SIZE - 1
<1> DEFINE b == BLOCK_SIZE  d == POINTERS_PER_INODE  e == offset + length
<1>1. b \in Nat \ {0} /\ d \in Nat /\ CHUNK \in Nat \ {0} /\ CHUNK % b = 0 /\ e \in Nat /\ x < e
  BY Numbers, ConstantsAssumption
<1>2. d =< x \div b /\ e \div b =< d
  OBVIOUS
<1>3. offset % CHUNK = 0 /\ (length = CHUNK \/ e = size) /\ e = offset + length
  OBVIOUS
<1> HIDE DEF b, d, e
<1>4. d * b < e
  <2> DEFINE q == x \div b
  <2>1. q \in Nat /\ q * b =< x
    BY <1>1
  <2> HIDE DEF q
  <2>2. d * b =< q * b
    <3>1. PICK z \in Nat : q = d + z
      <4>1. q - d \in Nat /\ q = d + (q - d)
        BY <1>1, <1>2, <2>1 DEF q
      <4> QED  BY <4>1
    <3>2. q * b = d * b + z * b /\ z * b \in Nat /\ d * b \in Nat
      BY <1>1, <3>1
    <3> QED  BY <3>2
  <2>3. d * b \in Nat /\ q * b \in Nat
    BY <1>1, <2>1
  <2> QED  BY <1>1, <2>1, <2>2, <2>3
<1>5. e < (d + 1) * b
  <2> DEFINE q == e \div b
  <2>1. q \in Nat /\ e < (q + 1) * b
    BY <1>1
  <2>2. q =< d
    BY <1>2
  <2> HIDE DEF q
  <2>3. (q + 1) * b =< (d + 1) * b
    <3>1. PICK z \in Nat : d = q + z
      <4>1. d - q \in Nat /\ d = q + (d - q)
        BY <1>1, <2>1, <2>2
      <4> QED  BY <4>1
    <3>2. (d + 1) * b = (q + 1) * b + z * b /\ z * b \in Nat /\ (q + 1) * b \in Nat
      BY <1>1, <2>1, <3>1
    <3> QED  BY <3>2
  <2>4. (d + 1) * b \in Nat /\ (q + 1) * b \in Nat
    BY <1>1, <2>1
  <2> QED  BY <1>1, <2>1, <2>3, <2>4
<1>6. ASSUME length = CHUNK  PROVE FALSE
  <2> DEFINE c == offset \div CHUNK  m == CHUNK \div b
  <2>1. c \in Nat /\ offset = c * CHUNK /\ m \in Nat /\ CHUNK = m * b
    BY <1>1, <1>3
  <2> HIDE DEF c, m
  <2>2. PICK n \in Nat : e = n * b
    <3>1. (c + 1) * m \in Nat /\ e = ((c + 1) * m) * b
      <4>1. e = (c + 1) * CHUNK /\ (c + 1) * m \in Nat
        BY <1>1, <1>3, <1>6, <2>1
      <4>2. (c + 1) * (m * b) = ((c + 1) * m) * b
        BY <1>1, <2>1
      <4> QED  BY <2>1, <4>1, <4>2
    <3> QED  BY <3>1
  <2>3. CASE n =< d
    <3>1. PICK z \in Nat : d = n + z
      <4>1. d - n \in Nat /\ d = n + (d - n)
        BY <1>1, <2>3
      <4> QED  BY <4>1
    <3>2. d * b = n * b + z * b /\ z * b \in Nat /\ n * b \in Nat
      BY <1>1, <3>1
    <3> QED  BY <1>4, <2>2, <3>2
  <2>4. CASE ~(n =< d)
    <3>1. PICK z \in Nat : n = d + 1 + z
      <4>1. n - (d + 1) \in Nat /\ n = d + 1 + (n - (d + 1))
        BY <1>1, <2>4
      <4> QED  BY <4>1
    <3>2. n * b = (d + 1) * b + z * b /\ z * b \in Nat /\ (d + 1) * b \in Nat
      BY <1>1, <3>1
    <3> QED  BY <1>5, <2>2, <3>2
  <2> QED  BY <2>3, <2>4
<1>7. d * b \in Nat /\ (d + 1) * b \in Nat
  BY <1>1
<1>8. e = size /\ size \in d * b + 1 .. (d + 1) * b - 1
  BY <1>1, <1>3, <1>4, <1>5, <1>6, <1>7
<1> QED  BY <1>8 DEF b, d

\* The blocks that read visits are blocks of the disk, when no word is missing.
LEMMA ReadGives ==
    ASSUME Known, OneDisk, mounted, ~InWrite, NEW i \in Inumber,
           inodes[i].size \notin POINTERS_PER_INODE * BLOCK_SIZE + 1 ..
                                     (POINTERS_PER_INODE + 1) * BLOCK_SIZE - 1,
           \A k \in 1 .. inodes[i].size : DiskWord(i, k) # 0,
           NEW offset \in 0 .. inodes[i].size - 1, offset % CHUNK = 0
    PROVE  ReadSucceeds(i, offset)
<1> DEFINE size == inodes[i].size  length == ReadLength(i, offset)
<1>1. size \in Nat /\ offset \in Nat /\ offset < size /\ CHUNK \in Nat \ {0}
      /\ TInv /\ FInv /\ SizeBacked /\ size =< MaxFileBlocks * BLOCK_SIZE
  BY WordsAreSeqs, Numbers DEF Known, SInv, RInv, SizesFit
<1>2. length \in Nat \ {0} /\ offset + length =< size /\ (length = CHUNK \/ offset + length = size)
  BY <1>1 DEF ReadLength, Smaller
<1>3. ASSUME NEW s \in Slots, Pointer(i, s) # 0  PROVE ~Throws(Pointer(i, s))
  <2>1. Pointer(i, s) \in InodeBlocks + 1 .. num_blocks - 1
    BY <1>1, <1>3 DEF FInv, DiskHeld, HeldInUse
  <2>2. num_blocks \in {0, nblocks} /\ nblocks \in Nat /\ InodeBlocks \in Nat
    BY <1>1, Formatted, Numbers DEF OneDisk, TInv, TypeOK
  <2> QED  BY <2>1, <2>2 DEF Throws
<1>4. ASSUME NEW x \in offset .. offset + length - 1
      PROVE  LET k == x \div BLOCK_SIZE IN
             k \in Nat /\ block_to_read(i, k) # 0 /\ ~Throws(block_to_read(i, k))
  <2>1. x + 1 \in 1 .. size /\ x + 1 \in Nat \ {0} /\ x + 1 =< MaxFileBlocks * BLOCK_SIZE
    <3>1. MaxFileBlocks * BLOCK_SIZE \in Nat
      BY Numbers
    <3> HIDE DEF size, length
    <3> QED  BY <1>1, <1>2, <1>4, <3>1
  <2>2. PICK k \in Slots : k = x \div BLOCK_SIZE /\ k = PlaceOf(x + 1) /\ k # MaxFileBlocks
    <3>1. (x + 1) - 1 = x
      BY <2>1
    <3>2. PlaceOf(x + 1) \in Slots /\ PlaceOf(x + 1) # MaxFileBlocks
      BY <2>1, PlaceRange
    <3>3. PlaceOf(x + 1) = x \div BLOCK_SIZE
      BY <3>1 DEF PlaceOf
    <3> QED  BY <3>2, <3>3
  <2>3. Pointer(i, k) \in Blocks \ {0}
    <3>1. DiskWord(i, x + 1) # 0
      BY <2>1
    <3> QED  BY <2>2, <3>1 DEF DiskWord, WordIn
  <2>4. block_to_read(i, k) = Pointer(i, k)
    <3>1. CASE k < POINTERS_PER_INODE
      BY <2>2, <3>1 DEF block_to_read, Pointer
    <3>2. CASE ~(k < POINTERS_PER_INODE)
      <4>1. inodes[i].indirect # 0
        BY <2>2, <2>3, <3>2 DEF Pointer
      <4>2. Held(i, MaxFileBlocks) = inodes[i].indirect
        BY <1>1, <4>1, LastPlace DEF FInv, DiskHeld
      <4>3. Words(inodes[i].indirect) = block[inodes[i].indirect]
        BY <1>1, <4>1, <4>2, LastPlace, HeldBlocks
      <4> QED  BY <2>2, <2>3, <3>2, <4>3 DEF block_to_read, Pointer
    <3> QED  BY <3>1, <3>2
  <2> QED  BY <1>3, <2>2, <2>3, <2>4 DEF Slots
<1>5. \A k \in BlocksRead(i, offset) : block_to_read(i, k) # 0 /\ ~Throws(block_to_read(i, k))
  BY <1>4 DEF BlocksRead
<1>6. ReadsIndirect(i, offset) => inodes[i].indirect # 0 /\ ~Throws(inodes[i].indirect)
  <2> SUFFICES ASSUME ReadsIndirect(i, offset)
               PROVE  inodes[i].indirect # 0 /\ ~Throws(inodes[i].indirect)
    OBVIOUS
  <2>1. (offset + length) \div BLOCK_SIZE =< FileBlocks(size) /\ FileBlocks(size) \in Nat
    BY <1>1, <1>2, BlocksOf
  <2>2. (offset + length) \div BLOCK_SIZE \in Int
    BY <1>1, <1>2, Numbers
  <2>3. FileBlocks(size) > POINTERS_PER_INODE
    BY <2>1, <2>2, Numbers DEF ReadsIndirect
  <2>4. inodes[i].indirect # 0
    BY <1>1, <2>3 DEF SizeBacked
  <2> QED  BY <1>3, <2>4, LastPlace
<1>7. ~ReadUndefined(i, offset)
  <2> SUFFICES ASSUME ~ReadsIndirect(i, offset), POINTERS_PER_INODE \in BlocksRead(i, offset)
               PROVE  FALSE
    BY DEF ReadUndefined, Visits
  <2>1. PICK x \in offset .. offset + length - 1 : POINTERS_PER_INODE = x \div BLOCK_SIZE
    BY DEF BlocksRead
  <2>2. x \in Nat /\ x < offset + length
    BY <1>1, <1>2
  <2>3. (offset + length) \div BLOCK_SIZE =< POINTERS_PER_INODE
    <3>1. (offset + length) \div BLOCK_SIZE \in Int
      BY <1>1, <1>2, Numbers
    <3> QED  BY <3>1, Numbers DEF ReadsIndirect
  <2>4. POINTERS_PER_INODE =< x \div BLOCK_SIZE
    BY <2>1, Numbers
  <2> HIDE DEF size, length
  <2>5. size \in POINTERS_PER_INODE * BLOCK_SIZE + 1 .. (POINTERS_PER_INODE + 1) * BLOCK_SIZE - 1
    BY <1>1, <1>2, <2>2, <2>3, <2>4, ChunkEnds
  <2> QED  BY <2>5 DEF size
<1>8. ~ReadThrows(i, offset) /\ ~ReadFails(i, offset)
  BY <1>5, <1>6 DEF ReadThrows, ReadFails
<1> QED  BY <1>1, <1>2, <1>7, <1>8 DEF ReadSucceeds

LEMMA ReadGivesAll ==
    ASSUME Known, OneDisk
    PROVE  CopyOutWhole
<1> SUFFICES ASSUME mounted, pc = "prompt", NEW i \in Inumber,
                    inodes[i].size \notin POINTERS_PER_INODE * BLOCK_SIZE + 1 ..
                                              (POINTERS_PER_INODE + 1) * BLOCK_SIZE - 1,
                    ~ \E k \in DOMAIN Contents(i) : Contents(i)[k] = 0,
                    NEW offset \in 0 .. inodes[i].size - 1, offset % CHUNK = 0
             PROVE  ReadSucceeds(i, offset)
  BY DEF CopyOutWhole
<1>1. \A k \in 1 .. inodes[i].size : DiskWord(i, k) # 0
  <2>1. DOMAIN Contents(i) = 1 .. inodes[i].size
    BY WordsAreSeqs, LenProperties DEF Known, SInv
  <2>2. \A k \in 1 .. inodes[i].size : Contents(i)[k] = DiskWord(i, k)
    BY WordsAreSeqs DEF Known, SInv
  <2> QED  BY <2>1, <2>2
<1> QED  BY <1>1, ReadGives DEF InWrite

\* Until the second start, copyout gives back every word of a file that has no
\* hole and does not end inside the first block behind the direct ones.
THEOREM CopyOutGivesAll ==
    ASSUME ~AnyInode
    PROVE  SSpec => [](opens = 1 => CopyOutWhole)
<1>1. (opens = 1 => Known) /\ (opens = 1 => OneDisk) => (opens = 1 => CopyOutWhole)
  BY ReadGivesAll
<1> QED  BY <1>1, FilesInductive, OneDiskInductive, SpecOfSSpec, PTL

-----------------------------------------------------------------------------
(* Across restarts, as long as the disk does not run full                   *)

\* A file of this size has a block at place s.
Cover(s, size) ==
    IF s = MaxFileBlocks THEN FileBlocks(size) > POINTERS_PER_INODE ELSE s < FileBlocks(size)

\* The size that write has come to.
Reach == IF pc = "loop" THEN Larger(w.inode.size, w.offset + w.written) ELSE w.inode.size

\* The disk points to its own blocks,
InRange ==
    \A i \in Inumber : \A s \in Slots :
        Pointer(i, s) # 0 => Pointer(i, s) \in InodeBlocks + 1 .. nblocks - 1

\* and to none but those that the sizes of the files cover: mount finds them all.
DiskCovered ==
    \A i \in Inumber : \A s \in Slots :
        Pointer(i, s) # 0 => inodes[i].valid /\ Cover(s, inodes[i].size)

\* What write holds will be covered by the size that it saves, apart from the
\* places it is just filling,
HandsCovered ==
    Writing => \A s \in Slots :
        Held(w.inum, s) # 0 => Cover(s, Reach) \/ (InLoop /\ AtHand(s))

\* and every block is free or held by somebody.
AllKept ==
    mounted /\ Running => \A b \in InodeBlocks + 1 .. num_blocks - 1 :
        b \in free_bitmap \/ \E i \in Inumber : \E s \in Slots : Held(i, s) = b

MountedSize == mounted => num_blocks \in Sizes

CInv == InRange /\ DiskCovered /\ HandsCovered /\ AllKept /\ MountedSize

\* A file system that always has the block that write asks for next: what this
\* section assumes, because a file loses its last blocks when the disk is full.
NeedsBlock ==
    InLoop /\ \/ PointerKnown /\ block_to_write = 0
              \/ ~IsDirect /\ w.inode.indirect = 0

HasRoom == NeedsBlock => free_bitmap # {}

\* The image is not started as a larger or a smaller disk.
OneSize == \A m, n \in Sizes : m = n

LEMMA OneDiskOf ==
    ASSUME TypeOK, OneSize
    PROVE  OneDisk
  BY DEF TypeOK, OneSize, OneDisk

LEMMA CoverMore ==
    ASSUME NEW s \in Slots, NEW x \in Nat, NEW y \in Nat, x =< y, Cover(s, x)
    PROVE  Cover(s, y)
<1> DEFINE b == BLOCK_SIZE
<1>1. b \in Nat \ {0} /\ s \in Nat
  BY Numbers DEF Slots
<1> HIDE DEF b
<1>2. (x + b - 1) \div b =< (y + b - 1) \div b
  BY <1>1
<1>3. (x + b - 1) \div b \in Nat /\ (y + b - 1) \div b \in Nat
  BY <1>1
<1>4. FileBlocks(x) = (x + b - 1) \div b /\ FileBlocks(y) = (y + b - 1) \div b
  BY DEF FileBlocks, b
<1> QED  BY <1>1, <1>2, <1>3, <1>4, Numbers DEF Cover

LEMMA CoveredNext ==
    ASSUME \A i \in Inumber : \A s \in Slots :
              Pointer(i, s)' # 0 => inodes'[i].valid /\ Cover(s, inodes'[i].size)
    PROVE  DiskCovered'
<1> SUFFICES ASSUME NEW i \in Inumber, NEW s \in Slots, Pointer(i, s)' # 0
             PROVE  inodes'[i].valid /\ Cover(s, inodes[i].size)'
  BY DEF DiskCovered
<1> QED  BY DEF Cover, FileBlocks, BLOCK_SIZE, MaxFileBlocks

LEMMA HandsNext ==
    ASSUME NEW n \in Inumber, w'.inum = n, NEW r, Reach' = r,
           \A s \in Slots : Held(n, s)' # 0 => Cover(s, r) \/ (InLoop' /\ AtHand(s)')
    PROVE  HandsCovered'
<1> SUFFICES ASSUME NEW s \in Slots, Held(n, s)' # 0
             PROVE  Cover(s, Reach)' \/ (InLoop' /\ AtHand(s)')
  BY DEF HandsCovered
<1> QED  BY DEF Cover, FileBlocks, BLOCK_SIZE, MaxFileBlocks

\* While the disk is mounted, what the files hold is in its range.
LEMMA InRangeNext ==
    ASSUME OneSize, TypeOK', FInv', MountedSize', mounted'
    PROVE  InRange'
<1>1. num_blocks' = nblocks'
  BY DEF OneSize, TypeOK, MountedSize
<1>2. ASSUME NEW i \in Inumber, NEW s \in Slots, Pointer(i, s)' # 0
      PROVE  Pointer(i, s)' \in InodeBlocks + 1 .. nblocks' - 1
  BY <1>1, <1>2 DEF FInv, DiskHeld, HeldInUse
<1> QED  BY <1>2 DEF InRange

\* Inodes that stay, or that point to nothing any more.
LEMMA PointsKept ==
    ASSUME InRange, DiskCovered, UNCHANGED nblocks,
           \A i \in Inumber :
              \/ inodes'[i] = inodes[i] /\ \A s \in Slots : Pointer(i, s)' = Pointer(i, s)
              \/ \A s \in Slots : Pointer(i, s)' = 0
    PROVE  InRange' /\ DiskCovered'
<1>1. InRange'
  BY DEF InRange
<1>2. \A i \in Inumber : \A s \in Slots :
         Pointer(i, s)' # 0 => inodes'[i].valid /\ Cover(s, inodes'[i].size)
  BY DEF DiskCovered
<1> QED  BY <1>1, <1>2, CoveredNext

\* Commands that leave the files alone, and the death of the shell.
LEMMA AsideKept ==
    ASSUME CInv, ~Writing', UNCHANGED <<inodes, block, nblocks, free_bitmap, num_blocks, mounted>>,
           Running' => Running /\ ~Writing
    PROVE  CInv'
<1>1. ASSUME NEW i \in Inumber, NEW s \in Slots
      PROVE  Pointer(i, s)' = Pointer(i, s) /\ Held(i, s)' = Pointer(i, s)
  BY OnDisk, NotWritingNext
<1>2. InRange' /\ DiskCovered'
  BY <1>1, PointsKept DEF CInv
<1>3. HandsCovered' /\ MountedSize'
  BY DEF CInv, HandsCovered, MountedSize
<1>4. AllKept'
  BY <1>1, NotWriting DEF CInv, AllKept
<1> QED  BY <1>2, <1>3, <1>4 DEF CInv

\* An indirect block in that range is no block of the inode table.
LEMMA IndirectWords ==
    ASSUME TInv, InRange, NEW i \in Inumber, inodes[i].indirect # 0
    PROVE  /\ inodes[i].indirect \in Blocks \ {0}
           /\ Words(inodes[i].indirect) = block[inodes[i].indirect]
<1>1. inodes[i].indirect \in InodeBlocks + 1 .. nblocks - 1
  BY LastPlace DEF InRange
<1>2. inodes[i].indirect \in Blocks \ {0} /\ ~(inodes[i].indirect =< InodeBlocks)
  BY <1>1, Formatted, Numbers DEF TInv, TypeOK, Blocks
<1> QED  BY <1>2 DEF Words

\* The blocks that mount marks are those that the inodes point to.
LEMMA ScannedPoints ==
    ASSUME TInv, SizeBacked, InRange, NEW i \in Inumber, NEW x \in Scanned(i)
    PROVE  \E s \in Slots : Pointer(i, s) = x
<1>1. CASE \E p \in 0 .. POINTERS_PER_INODE - 1 : x = inodes[i].direct[p]
  <2>1. PICK p \in 0 .. POINTERS_PER_INODE - 1 : x = inodes[i].direct[p]
    BY <1>1
  <2>2. p \in Slots
    BY Numbers DEF Slots
  <2> QED  BY <2>1, <2>2, OnDisk, AtPlaces
<1>2. CASE x = inodes[i].indirect
  BY <1>2, LastPlace
<1>3. CASE ScansIndirect(i) /\ \E p \in 0 .. POINTERS_PER_BLOCK - 1 : x = Words(inodes[i].indirect)[p]
  <2>1. PICK p \in 0 .. POINTERS_PER_BLOCK - 1 : x = Words(inodes[i].indirect)[p]
    BY <1>3
  <2>2. inodes[i].indirect # 0
    BY <1>3 DEF SizeBacked, ScansIndirect
  <2>3. inodes[i].indirect \in Blocks \ {0} /\ x = block[inodes[i].indirect][p]
    BY <2>1, <2>2, IndirectWords
  <2>4. PICK s \in Slots : s # MaxFileBlocks /\ ~(s < POINTERS_PER_INODE)
                           /\ s - POINTERS_PER_INODE = p
    <3> DEFINE t == POINTERS_PER_INODE + p
    <3>1. /\ t \in Slots /\ ~(t < POINTERS_PER_INODE)
          /\ t # MaxFileBlocks /\ t - POINTERS_PER_INODE = p
      BY Numbers DEF Slots
    <3> HIDE DEF t
    <3> QED  BY <3>1
  <2>5. Pointer(i, s) = Table(inodes[i], block)[p]
    BY <2>4, OnDisk, AtPlaces
  <2> QED  BY <2>3, <2>5 DEF Table
<1> QED  BY <1>1, <1>2, <1>3 DEF Scanned

\* The scan marks whatever the disk points to.
LEMMA RecordedOf ==
    ASSUME TInv, CInv, OneSize
    PROVE  Recorded
<1> SUFFICES ASSUME super.magic, NEW i \in Inumber, NEW s \in Slots, Pointer(i, s) # 0
             PROVE  /\ Pointer(i, s) \in InodeBlocks + 1 .. super.blocks - 1
                    /\ Pointer(i, s) \in Scanned(i)
  BY DEF Recorded
<1>1. inodes[i].valid /\ Cover(s, inodes[i].size)
  BY DEF CInv, DiskCovered
<1>2. super = SuperBlock(nblocks)
  BY OneDiskOf DEF OneDisk, NoSuper, TInv
<1>3. Pointer(i, s) \in InodeBlocks + 1 .. super.blocks - 1
  BY <1>2, Formatted DEF CInv, InRange, TInv, TypeOK
<1>4. CASE s \in 0 .. POINTERS_PER_INODE - 1
  <2>1. Pointer(i, s) = inodes[i].direct[s]
    BY <1>4, OnDisk, AtPlaces
  <2>2. s < FileBlocks(inodes[i].size)
    BY <1>1, <1>4, Numbers DEF Cover
  <2> QED  BY <1>1, <1>3, <1>4, <2>1, <2>2 DEF Scanned
<1>5. CASE s = MaxFileBlocks
  <2>1. Pointer(i, s) = inodes[i].indirect /\ ScansIndirect(i)
    BY <1>1, <1>5, LastPlace DEF Cover, ScansIndirect
  <2> QED  BY <1>1, <1>3, <2>1 DEF Scanned
<1>6. CASE s - POINTERS_PER_INODE \in 0 .. POINTERS_PER_BLOCK - 1
           /\ s # MaxFileBlocks /\ ~(s < POINTERS_PER_INODE)
  <2>1. PICK q \in 0 .. POINTERS_PER_BLOCK - 1 : q = s - POINTERS_PER_INODE
    BY <1>6
  <2>2. Pointer(i, s) = Table(inodes[i], block)[q]
    BY <1>6, <2>1, OnDisk, AtPlaces
  <2>3. Pointer(i, s) = Words(inodes[i].indirect)[q]
    <3>1. inodes[i].indirect # 0 /\ Pointer(i, s) = block[inodes[i].indirect][q]
      BY <1>1, <2>1, <2>2 DEF Table, ZeroBlock
    <3> QED  BY <3>1, IndirectWords DEF CInv
  <2>4. inodes[i].size \in Nat
    BY WordsAreSeqs
  <2>5. s < FileBlocks(inodes[i].size) /\ FileBlocks(inodes[i].size) \in Nat
    BY <1>1, <1>6, <2>4, BlocksOf DEF Cover
  <2>6. FileBlocks(inodes[i].size) > POINTERS_PER_INODE
        /\ q < FileBlocks(inodes[i].size) - POINTERS_PER_INODE
    BY <1>6, <2>1, <2>5, Numbers DEF Slots
  <2> QED  BY <1>1, <1>3, <2>3, <2>6 DEF Scanned, ScansIndirect
<1> QED  BY <1>4, <1>5, <1>6, Places

LEMMA MountKept ==
    ASSUME SInv, CInv, OneSize, Mount
    PROVE  CInv'
<1>1. /\ ~mounted /\ pc = "prompt" /\ ~Writing /\ Running
      /\ UNCHANGED <<inodes, block, nblocks, w>>
  BY DEF Mount, Writing, Running, disk
<1>2. CASE pc' = "undefined" /\ UNCHANGED memory
  BY <1>1, <1>2, AsideKept DEF memory, Writing, Running
<1>3. CASE ~(pc' = "undefined" /\ UNCHANGED memory)
  <2>1. PICK n \in Sizes : super = SuperBlock(n)
    BY DEF Mount, MountChecks, NoSuper, SInv, TInv, TypeOK
  <2>2. /\ pc' = "prompt" /\ mounted' /\ num_blocks' = n
        /\ free_bitmap' = (InodeBlocks + 1 .. n - 1) \ UNION {Scanned(i) : i \in Inumber}
    BY <1>1, <1>3, <2>1, Formatted DEF Mount
  <2>3. ASSUME NEW i \in Inumber, NEW s \in Slots
        PROVE  Pointer(i, s)' = Pointer(i, s) /\ Held(i, s)' = Pointer(i, s)
    BY <1>1, <2>2, OnDisk, NotWritingNext DEF Writing
  <2>4. InRange' /\ DiskCovered'
    BY <1>1, <2>3, PointsKept DEF CInv
  <2>5. HandsCovered' /\ MountedSize'
    BY <2>2 DEF HandsCovered, MountedSize, Writing
  <2>6. AllKept'
    <3> SUFFICES ASSUME NEW b \in InodeBlocks + 1 .. n - 1, b \notin free_bitmap'
                 PROVE  \E i \in Inumber : \E s \in Slots : Held(i, s)' = b
      BY <2>2 DEF AllKept
    <3>1. PICK i \in Inumber : b \in Scanned(i)
      BY <2>2
    <3>2. \E s \in Slots : Pointer(i, s) = b
      BY <3>1, ScannedPoints DEF SInv, CInv
    <3> QED  BY <2>3, <3>2
  <2> QED  BY <2>4, <2>5, <2>6 DEF CInv
<1> QED  BY <1>2, <1>3

LEMMA FormatClearKept ==
    ASSUME TInv, FInv, CInv, FormatClear
    PROVE  CInv'
<1>1. /\ ~mounted /\ ~mounted' /\ pc = "format" /\ ~Writing' /\ UNCHANGED nblocks
      /\ TypeOK /\ w.block_num \in Nat
  BY DEF FInv, Fresh, FormatClear, Writing, memory, TInv, TypeOK, Locals
<1>2. \A i \in Inumber : inodes'[i] = inodes[i] \/ inodes'[i] = NoInode
  BY <1>1, ClearBlanks DEF FormatClear
<1>3. ASSUME NEW i \in Inumber
      PROVE  \/ inodes'[i] = inodes[i] /\ \A s \in Slots : Pointer(i, s)' = Pointer(i, s)
             \/ \A s \in Slots : Pointer(i, s)' = 0
  <2>1. CASE inodes'[i] = NoInode
    BY <2>1, OnDisk, NothingHeld
  <2>2. CASE inodes'[i] = inodes[i] /\ w.block_num =< InodeBlocks
    <3>1. block' = block
      BY <2>2 DEF FormatClear, ClearBlock
    <3> QED  BY <2>2, <3>1, OnDisk
  <2>3. CASE inodes'[i] = inodes[i] /\ ~(w.block_num =< InodeBlocks)
    <3>1. 1 + i \div INODES_PER_BLOCK < w.block_num
      BY <1>1, <2>3, InodeBlockOf, Numbers
    <3>2. inodes[i] = NoInode
      BY <1>1, <3>1 DEF FInv, Fresh
    <3> QED  BY <2>1, <2>3, <3>2
  <2> QED  BY <1>2, <2>1, <2>2, <2>3
<1>4. InRange' /\ DiskCovered'
  BY <1>1, <1>3, PointsKept DEF CInv
<1>5. HandsCovered' /\ AllKept' /\ MountedSize'
  BY <1>1 DEF HandsCovered, AllKept, MountedSize
<1> QED  BY <1>4, <1>5 DEF CInv

\* An inode that is not in use holds no block, so create loses none.
LEMMA CreateKept ==
    ASSUME TInv, CInv, Create
    PROVE  CInv'
<1> DEFINE new == [NoInode EXCEPT !.valid = TRUE]
<1>1. pc = "prompt" /\ ~Writing /\ ~Writing' /\ Running /\ UNCHANGED <<memory, block, nblocks>>
      /\ TypeOK
  BY DEF Create, Writing, Running, TInv
<1>2. PICK n \in Inumber : ~inodes[n].valid /\ inodes' = [inodes EXCEPT ![n] = new]
  <2>1. PICK n \in 0 .. num_inodes - 1 : ~inodes[n].valid /\ inodes' = [inodes EXCEPT ![n] = new]
    BY DEF Create
  <2>2. n \in Inumber
    BY <1>1, <2>1, Numbers DEF TypeOK, Inumber
  <2> QED  BY <2>1, <2>2
<1>3. inodes'[n] = new /\ \A i \in Inumber \ {n} : inodes'[i] = inodes[i]
  BY <1>1, <1>2 DEF TypeOK
<1>4. \A s \in Slots : Pointer(n, s) = 0 /\ Pointer(n, s)' = 0
  <2>1. \A s \in Slots : Pointer(n, s) = 0
    BY <1>2 DEF CInv, DiskCovered
  <2>2. ASSUME NEW s \in Slots  PROVE Pointer(n, s)' = 0
    <3>1. inodes'[n] \in {NoInode, [NoInode EXCEPT !.valid = TRUE]}
      BY <1>3
    <3>2. Pointer(n, s)' = At(inodes'[n], Table(inodes'[n], block'), s)
      BY OnDisk
    <3> QED  BY <3>1, <3>2, NothingHeld
  <2> QED  BY <2>1, <2>2
<1>5. \A i \in Inumber \ {n} : \A s \in Slots : Pointer(i, s)' = Pointer(i, s)
  BY <1>1, <1>3, OnDisk
<1>6. InRange' /\ DiskCovered'
  BY <1>1, <1>3, <1>4, <1>5, PointsKept DEF CInv
<1>7. AllKept'
  <2>1. \A i \in Inumber : \A s \in Slots : Held(i, s)' = Held(i, s)
    BY <1>1, <1>4, <1>5, NotWriting, NotWritingNext
  <2> QED  BY <1>1, <2>1 DEF CInv, AllKept, memory
<1>8. HandsCovered' /\ MountedSize'
  BY <1>1 DEF CInv, HandsCovered, MountedSize, memory
<1> QED  BY <1>6, <1>7, <1>8 DEF CInv

\* remove releases all that the file holds.
LEMMA HeldReleased ==
    ASSUME TInv, InRange, ~Writing, NEW i \in Inumber, NEW s \in Slots, Held(i, s) # 0
    PROVE  Held(i, s) \in Released(i)
<1>1. Held(i, s) = At(inodes[i], Table(inodes[i], block), s)
  BY NotWriting, OnDisk
<1>2. CASE s \in 0 .. POINTERS_PER_INODE - 1
  BY <1>1, <1>2, AtPlaces DEF Released
<1>3. CASE s = MaxFileBlocks
  BY <1>1, <1>3, AtPlaces DEF Released
<1>4. CASE s - POINTERS_PER_INODE \in 0 .. POINTERS_PER_BLOCK - 1
           /\ s # MaxFileBlocks /\ ~(s < POINTERS_PER_INODE)
  <2>1. PICK q \in 0 .. POINTERS_PER_BLOCK - 1 : q = s - POINTERS_PER_INODE
    BY <1>4
  <2>2. Held(i, s) = Table(inodes[i], block)[q]
    BY <1>1, <1>4, <2>1, AtPlaces
  <2>3. inodes[i].indirect # 0 /\ Held(i, s) = block[inodes[i].indirect][q]
    BY <2>2 DEF Table, ZeroBlock
  <2>4. Held(i, s) = Words(inodes[i].indirect)[q]
    BY <2>3, IndirectWords
  <2> QED  BY <2>3, <2>4 DEF Released
<1> QED  BY <1>2, <1>3, <1>4, Places

LEMMA RemoveKept ==
    ASSUME TInv, CInv, NEW i \in Named, Remove(i)
    PROVE  CInv'
<1>1. ~Writing /\ ~Writing' /\ Running /\ mounted /\ TypeOK
      /\ UNCHANGED <<block, nblocks, num_blocks, mounted>>
  BY DEF Remove, Writing, Running, TInv
<1>2. i \in Inumber
  BY Numbers DEF TInv, TypeOK, Remove, Inumber, Named
<1>3. CASE UNCHANGED <<inodes, free_bitmap>>
  BY <1>1, <1>3, AsideKept
<1>4. CASE inodes' = [inodes EXCEPT ![i] = NoInode] /\ free_bitmap' = free_bitmap \cup Released(i)
  <2>1. inodes'[i] = NoInode /\ \A j \in Inumber \ {i} : inodes'[j] = inodes[j]
    BY <1>1, <1>2, <1>4 DEF TypeOK
  <2>2. \A s \in Slots : Pointer(i, s)' = 0
    BY <1>2, <2>1, OnDisk, NothingHeld
  <2>3. \A j \in Inumber \ {i} : \A s \in Slots : Pointer(j, s)' = Pointer(j, s)
    BY <1>1, <2>1, OnDisk
  <2>4. InRange' /\ DiskCovered'
    BY <1>1, <2>1, <2>2, <2>3, PointsKept DEF CInv
  <2>5. AllKept'
    <3> SUFFICES ASSUME NEW b \in InodeBlocks + 1 .. num_blocks - 1, b \notin free_bitmap'
                 PROVE  \E j \in Inumber : \E s \in Slots : Held(j, s)' = b
      BY <1>1 DEF AllKept
    <3>1. PICK j \in Inumber, s \in Slots : Held(j, s) = b
      BY <1>1, <1>4 DEF CInv, AllKept
    <3>2. b # 0
      BY Numbers, Formatted DEF TInv, TypeOK
    <3>3. j # i
      BY <1>1, <1>4, <3>1, <3>2, HeldReleased DEF CInv
    <3>4. Held(j, s)' = b
      BY <1>1, <2>3, <3>1, <3>3, NotWriting, NotWritingNext
    <3> QED  BY <3>4
  <2>6. HandsCovered' /\ MountedSize'
    BY <1>1 DEF CInv, HandsCovered, MountedSize
  <2> QED  BY <2>4, <2>5, <2>6 DEF CInv
<1> QED  BY <1>3, <1>4 DEF Remove

\* write starts on a file whose size covers what the disk points to.
LEMMA BeginKept ==
    ASSUME Known, CInv, Write
    PROVE  CInv'
<1>1. PICK n \in Inumber : n = w.inum /\ n = w'.inum
  BY Asked
<1>2. /\ pc = "copyin" /\ pc' = "loop" /\ ~Writing /\ Running /\ UNCHANGED <<disk, memory, nblocks>>
      /\ KeepsHeld /\ KeepsPointers /\ inodes[n].size \in Nat /\ w.offset \in Nat
      /\ w'.inode = inodes[n] /\ w'.written = 0 /\ w'.offset = w.offset
  BY <1>1, Asked, BeginHeld, WordsAreSeqs DEF Write, Known, SInv, Writing, Running
<1>3. InRange' /\ DiskCovered'
  BY <1>2, PointsKept DEF CInv, KeepsPointers, disk
<1>4. HandsCovered'
  <2> DEFINE r == Larger(inodes[n].size, w.offset)
  <2>1. Reach' = r /\ r \in Nat /\ inodes[n].size =< r
    BY <1>2 DEF Reach, Larger
  <2>2. ASSUME NEW s \in Slots, Held(n, s)' # 0  PROVE Cover(s, r)
    <3>1. Pointer(n, s) # 0
      BY <1>2, <2>2, NotWriting DEF KeepsHeld
    <3>2. Cover(s, inodes[n].size)
      BY <3>1 DEF CInv, DiskCovered
    <3> QED  BY <1>2, <2>1, <3>2, CoverMore
  <2> HIDE DEF r
  <2> QED  BY <1>1, <2>1, <2>2, HandsNext
<1>5. AllKept' /\ MountedSize'
  BY <1>2 DEF CInv, AllKept, MountedSize, KeepsHeld, memory
<1> QED  BY <1>3, <1>4, <1>5 DEF CInv

\* A block that is taken from the bitmap goes to the place that write is at.
LEMMA TakesKept ==
    ASSUME Known, CInv, AllocateDirect \/ AllocateIndirect \/ AllocateData
    PROVE  CInv'
<1>1. pc = "loop" /\ pc' = "loop" /\ InLoop /\ Writing /\ InWrite /\ Running
      /\ UNCHANGED <<nblocks, mounted, num_blocks>>
  BY DEF AllocateDirect, AllocateIndirect, AllocateData, InLoop, Writing, InWrite, Running
<1>2. PICK b \in free_bitmap, t \in Slots : Takes(w.inum, t, b) /\ AtHand(t)
  BY AllocateDirectHeld, AllocateIndirectHeld, AllocateDataHeld DEF Known, SInv
<1>3. UNCHANGED inodes
  BY <1>1, <1>2, AllocatedData DEF Known, SInv, Takes
<1>4. /\ UNCHANGED <<w.inum, w.offset, w.written, w.length, w.block_num>>
      /\ w'.inode.size = w.inode.size
  BY AllocateLeaves DEF Known, SInv
<1>5. PICK n \in Inumber : n = w.inum /\ n = w'.inum
  BY <1>1, <1>4, AtWork
<1>6. /\ Held(n, t) = 0 /\ Held(n, t)' = b /\ free_bitmap' = free_bitmap \ {b} /\ KeepsPointers
      /\ \A i \in Inumber : \A s \in Slots : <<i, s>> # <<n, t>> => Held(i, s)' = Held(i, s)
  BY <1>2, <1>5 DEF Takes, AllocateFreeBlock
<1>7. InRange' /\ DiskCovered'
  BY <1>1, <1>3, <1>6, PointsKept DEF CInv, KeepsPointers
<1>8. HandsCovered'
  <2>1. Reach' = Reach /\ InLoop' = InLoop /\ \A s \in Slots : AtHand(s)' = AtHand(s)
    BY <1>1, <1>4 DEF Reach, Larger, InLoop, AtHand, IsDirect, MaxFileBlocks
  <2>2. ASSUME NEW s \in Slots, Held(n, s)' # 0
        PROVE  Cover(s, Reach) \/ (InLoop' /\ AtHand(s)')
    <3>1. CASE s = t
      BY <1>1, <1>2, <2>1, <3>1
    <3>2. CASE s # t
      BY <1>1, <1>5, <1>6, <2>1, <2>2, <3>2 DEF CInv, HandsCovered
    <3> QED  BY <3>1, <3>2
  <2> QED  BY <1>5, <2>1, <2>2, HandsNext
<1>9. AllKept'
  <2> SUFFICES ASSUME mounted, NEW c \in InodeBlocks + 1 .. num_blocks - 1, c \notin free_bitmap'
               PROVE  \E i \in Inumber : \E s \in Slots : Held(i, s)' = c
    BY <1>1 DEF AllKept
  <2>1. CASE c = b
    BY <1>6, <2>1
  <2>2. CASE c # b
    <3>1. PICK i \in Inumber, s \in Slots : Held(i, s) = c
      BY <1>1, <1>6, <2>2 DEF CInv, AllKept
    <3>2. c # 0
      BY Numbers, Formatted DEF Known, SInv, TInv, TypeOK
    <3>3. Held(i, s)' = c
      BY <1>6, <3>1, <3>2
    <3> QED  BY <3>3
  <2> QED  BY <2>1, <2>2
<1>10. MountedSize'
  BY <1>1 DEF CInv, MountedSize
<1> QED  BY <1>7, <1>8, <1>9, <1>10 DEF CInv

LEMMA ReadIndirectKept ==
    ASSUME Known, CInv, ReadIndirect
    PROVE  CInv'
<1>1. pc = "loop" /\ pc' = "loop" /\ InLoop /\ Writing /\ InWrite /\ Running
      /\ UNCHANGED <<disk, nblocks, memory>> /\ KeepsHeld /\ KeepsPointers
  BY ReadIndirectHeld DEF ReadIndirect, InLoop, Writing, InWrite, Running, Known, SInv
<1>2. w \in Locals
  BY <1>1, AtWork
<1>3. UNCHANGED <<w.inum, w.offset, w.written, w.length, w.block_num, w.inode>>
  BY <1>2 DEF ReadIndirect, Locals
<1>4. PICK n \in Inumber : n = w.inum /\ n = w'.inum
  BY <1>1, <1>3, AtWork
<1>5. InRange' /\ DiskCovered'
  BY <1>1, PointsKept DEF CInv, KeepsPointers, disk
<1>6. HandsCovered'
  <2>1. Reach' = Reach /\ InLoop' = InLoop /\ \A s \in Slots : AtHand(s)' = AtHand(s)
    BY <1>1, <1>3 DEF Reach, Larger, InLoop, AtHand, IsDirect, MaxFileBlocks
  <2>2. \A s \in Slots : Held(n, s)' # 0 => Cover(s, Reach) \/ (InLoop' /\ AtHand(s)')
    BY <1>1, <1>4, <2>1 DEF CInv, HandsCovered, KeepsHeld
  <2> QED  BY <1>4, <2>1, <2>2, HandsNext
<1>7. AllKept' /\ MountedSize'
  BY <1>1 DEF CInv, AllKept, MountedSize, KeepsHeld, memory
<1> QED  BY <1>5, <1>6, <1>7 DEF CInv

\* When its data is written, the size covers the block that write was at.
LEMMA WriteDataKept ==
    ASSUME Known, CInv, WriteData
    PROVE  CInv'
<1>1. /\ pc = "loop" /\ pc' = "loop" /\ InLoop /\ Writing /\ InWrite /\ Running
      /\ UNCHANGED <<inodes, nblocks, memory>> /\ KeepsHeld /\ KeepsPointers
      /\ w.block_num \in Slots /\ w.block_num # MaxFileBlocks
  BY WriteDataHeld DEF WriteData, InLoop, Writing, InWrite, Running, Known, SInv
<1>2. w \in Locals /\ w.inode \in Inode /\ w.inode.size \in Nat
      /\ w.offset \in Nat /\ w.written \in Nat /\ w.block_num \in Nat
  BY <1>1, AtWork, Numbers DEF Inode
<1>3. /\ UNCHANGED <<w.inum, w.offset, w.inode>> /\ w'.written = w.written + write_length
  BY <1>2 DEF WriteData, Locals
<1>4. PICK n \in Inumber : n = w.inum /\ n = w'.inum
  BY <1>1, <1>3, AtWork
<1>5. InRange' /\ DiskCovered'
  BY <1>1, PointsKept DEF CInv, KeepsPointers
<1>6. HandsCovered'
  <2> DEFINE k == w.offset + w.written + write_length  r == Larger(w.inode.size, k)
  <2>1. /\ Reach' = r /\ r \in Nat /\ Reach \in Nat /\ Reach =< r /\ k =< r /\ k \in Nat
        /\ w.block_num * BLOCK_SIZE \in Nat /\ w.block_num * BLOCK_SIZE + 1 =< k
    BY <1>1, <1>2, <1>3, WrittenPart DEF Reach, Larger
  <2> HIDE DEF r, k
  <2>2. w.block_num < FileBlocks(r) /\ FileBlocks(r) \in Nat
    <3>1. PICK m \in Nat \ {0} : m = w.block_num * BLOCK_SIZE + 1
      BY <2>1
    <3>2. PlaceOf(m) = w.block_num
      BY <1>2, <3>1, PlaceBetween, Numbers
    <3> QED  BY <2>1, <3>1, <3>2, Covered
  <2>3. ASSUME NEW s \in Slots, Held(n, s)' # 0  PROVE Cover(s, r)
    <3>1. Cover(s, Reach) \/ AtHand(s)
      BY <1>1, <1>4, <2>3 DEF CInv, HandsCovered, KeepsHeld
    <3>2. CASE Cover(s, Reach)
      BY <2>1, <3>2, CoverMore
    <3>3. CASE AtHand(s)
      BY <1>1, <1>2, <2>2, <3>3, Numbers DEF AtHand, IsDirect, Cover
    <3> QED  BY <3>1, <3>2, <3>3
  <2> QED  BY <1>4, <2>1, <2>3, HandsNext
<1>7. AllKept' /\ MountedSize'
  BY <1>1 DEF CInv, AllKept, MountedSize, KeepsHeld, memory
<1> QED  BY <1>5, <1>6, <1>7 DEF CInv

\* With room on the disk the loop has come to its end, and its last place is behind it.
LEMMA UpdateSizeKept ==
    ASSUME Known, CInv, HasRoom, UpdateSize
    PROVE  CInv'
<1>1. /\ pc = "loop" /\ pc' = "save_inode" /\ LoopEnds /\ Writing /\ InWrite /\ Running
      /\ UNCHANGED <<disk, nblocks, memory>> /\ KeepsHeld /\ KeepsPointers
  BY UpdateHeld DEF UpdateSize, Writing, InWrite, Running, Known, SInv
<1>2. ~InLoop
  BY <1>1 DEF LoopEnds, HasRoom, NeedsBlock
<1>3. w \in Locals /\ w.inode \in Inode /\ w.offset \in Nat /\ w.written \in Nat
  BY <1>1, AtWork
<1>4. w'.inum = w.inum /\ w'.inode = [w.inode EXCEPT !.size = Larger(w.inode.size, w.written + w.offset)]
  BY <1>3 DEF UpdateSize, Locals
<1>5. PICK n \in Inumber : n = w.inum /\ n = w'.inum
  BY <1>1, <1>4, AtWork
<1>6. InRange' /\ DiskCovered'
  BY <1>1, PointsKept DEF CInv, KeepsPointers, disk
<1>7. HandsCovered'
  <2>1. Reach' = Reach
    <3>1. w'.inode.size = Larger(w.inode.size, w.written + w.offset)
      BY <1>3, <1>4 DEF Inode
    <3>2. w.written + w.offset = w.offset + w.written
      BY <1>3
    <3> QED  BY <1>1, <3>1, <3>2 DEF Reach
  <2>2. \A s \in Slots : Held(n, s)' # 0 => Cover(s, Reach)
    BY <1>1, <1>2, <1>5 DEF CInv, HandsCovered, KeepsHeld
  <2> QED  BY <1>5, <2>1, <2>2, HandsNext
<1>8. AllKept' /\ MountedSize'
  BY <1>1 DEF CInv, AllKept, MountedSize, KeepsHeld, memory
<1> QED  BY <1>6, <1>7, <1>8 DEF CInv

\* The inode is saved with a size that covers all its pointers.
LEMMA SaveInodeKept ==
    ASSUME Known, CInv, FInv', RInv', TypeOK', OneSize, SaveInode
    PROVE  CInv'
<1>1. /\ pc = "save_inode" /\ pc' = "save_indirect" /\ UNCHANGED <<w, block, nblocks, memory>>
      /\ Writing /\ Writing' /\ InWrite /\ Running /\ KeepsHeld /\ mounted /\ ~InLoop
  BY SaveInodeHeld DEF SaveInode, Writing, InWrite, InLoop, Running, Known, SInv, FInv, Fresh
<1>2. PICK n \in Inumber : n = w.inum /\ n = w'.inum
  BY <1>1, AtWork
<1>3. TypeOK /\ \A i \in Inumber \ {n} : inodes'[i] = inodes[i]
  BY <1>1, <1>2, AtWork DEF SaveInode, TypeOK
<1>4. inodes'[n].valid /\ inodes'[n].size = w.inode.size
  <2>1. inodes'[n].valid
    BY <1>1, <1>2 DEF RInv, NamedThere, InWrite, Writing
  <2>2. w'.inode.size = NewSize' /\ inodes'[n].size = NewSize'
    BY <1>1, <1>2 DEF RInv, SavedInode
  <2> QED  BY <1>1, <2>1, <2>2
<1>5. \A s \in Slots : Held(n, s) # 0 => Cover(s, w.inode.size)
  BY <1>1, <1>2 DEF CInv, HandsCovered, Reach
<1>6. MountedSize' /\ AllKept'
  BY <1>1 DEF CInv, AllKept, MountedSize, KeepsHeld, memory
<1>7. InRange'
  BY <1>1, <1>6, InRangeNext DEF memory
<1>8. DiskCovered'
  <2>1. ASSUME NEW i \in Inumber, NEW s \in Slots, Pointer(i, s)' # 0
        PROVE  inodes'[i].valid /\ Cover(s, inodes'[i].size)
    <3>1. CASE i = n
      <4>1. Held(n, s) # 0
        BY <1>1, <2>1, <3>1 DEF FInv, DiskHeld, KeepsHeld
      <4> QED  BY <1>4, <1>5, <3>1, <4>1
    <3>2. CASE i # n
      <4>1. Pointer(i, s)' = Pointer(i, s) /\ inodes'[i] = inodes[i]
        BY <1>1, <1>3, <3>2, OnDisk
      <4> QED  BY <2>1, <4>1 DEF CInv, DiskCovered
    <3> QED  BY <3>1, <3>2
  <2> QED  BY <2>1, CoveredNext
<1>9. HandsCovered'
  <2>1. Reach' = w.inode.size
    BY <1>1 DEF Reach
  <2>2. \A s \in Slots : Held(n, s)' # 0 => Cover(s, w.inode.size)
    BY <1>1, <1>5 DEF KeepsHeld
  <2> QED  BY <1>2, <2>1, <2>2, HandsNext
<1> QED  BY <1>6, <1>7, <1>8, <1>9 DEF CInv

\* When the indirect block is saved, the disk points to all that write held.
LEMMA SaveIndirectKept ==
    ASSUME Known, CInv, FInv', TypeOK', OneSize, SaveIndirect
    PROVE  CInv'
<1>1. /\ pc = "save_indirect" /\ pc' = "returned" /\ UNCHANGED <<w, inodes, nblocks, memory>>
      /\ Writing /\ ~Writing' /\ InWrite /\ Running /\ mounted /\ ~InLoop
  BY DEF SaveIndirect, Writing, InWrite, InLoop, Running, Known, FInv, Fresh
<1>2. PICK n \in Inumber : n = w.inum /\ inodes[n].size = w.inode.size
  BY <1>1, AtWork DEF RInv, SavedInode
<1>3. \A s \in Slots : Held(n, s) # 0 => Cover(s, inodes[n].size)
  BY <1>1, <1>2 DEF CInv, HandsCovered, Reach
<1>4. ASSUME NEW s \in Slots  PROVE Pointer(n, s)' = Held(n, s)
  <2>1. CASE s < POINTERS_PER_INODE \/ inodes[n].indirect # 0
    BY <1>2, <2>1, SaveIndirectPoints
  <2>2. CASE ~(s < POINTERS_PER_INODE) /\ inodes[n].indirect = 0
    <3>1. ~Cover(s, inodes[n].size)
      <4>1. ~(FileBlocks(inodes[n].size) > POINTERS_PER_INODE)
        BY <2>2 DEF Known, SInv, SizeBacked
      <4>2. FileBlocks(inodes[n].size) \in Nat
        BY WordsAreSeqs, BlocksOf DEF Known, SInv
      <4> QED  BY <2>2, <4>1, <4>2, Numbers DEF Cover, Slots
    <3>2. Pointer(n, s)' = At(inodes[n], Table(inodes[n], block'), s)
      BY <1>1, OnDisk
    <3>3. Table(inodes[n], block') = ZeroBlock
      BY <2>2 DEF Table
    <3>4. CASE s = MaxFileBlocks
      BY <1>3, <2>2, <3>1, <3>2, <3>4, AtPlaces
    <3>5. CASE s # MaxFileBlocks
      <4>1. s - POINTERS_PER_INODE \in 0 .. POINTERS_PER_BLOCK - 1
        BY <2>2, <3>5, Places, Numbers
      <4>2. At(inodes[n], ZeroBlock, s) = ZeroBlock[s - POINTERS_PER_INODE]
        BY <2>2, <3>5, AtPlaces
      <4>3. ZeroBlock[s - POINTERS_PER_INODE] = 0
        BY <4>1 DEF ZeroBlock
      <4> QED  BY <1>3, <3>1, <3>2, <3>3, <4>2, <4>3
    <3> QED  BY <3>4, <3>5
  <2> QED  BY <2>1, <2>2
<1>5. ASSUME NEW i \in Inumber \ {n}, NEW s \in Slots
      PROVE  Pointer(i, s)' = Pointer(i, s) /\ Held(i, s) = Pointer(i, s)
  <2>1. Pointer(i, s)' = Pointer(i, s)
    BY <1>2, SaveIndirectOthers
  <2>2. InodeOf(i) = inodes[i] /\ TableOf(i) = Table(inodes[i], block)
    BY <1>2 DEF InodeOf, TableOf
  <2> QED  BY <2>1, <2>2, OnDisk DEF Held
<1>6. ASSUME NEW i \in Inumber, NEW s \in Slots
      PROVE  Pointer(i, s)' = Held(i, s) /\ Held(i, s)' = Held(i, s)
  <2>1. Pointer(i, s)' = Held(i, s)
    BY <1>4, <1>5
  <2> QED  BY <1>1, <2>1, NotWritingNext
<1>7. MountedSize' /\ AllKept'
  BY <1>1, <1>6 DEF CInv, AllKept, MountedSize, memory
<1>8. InRange'
  BY <1>1, <1>7, InRangeNext DEF memory
<1>9. DiskCovered'
  <2>1. ASSUME NEW i \in Inumber, NEW s \in Slots, Pointer(i, s)' # 0
        PROVE  inodes'[i].valid /\ Cover(s, inodes'[i].size)
    <3>1. CASE i = n
      <4>1. Cover(s, inodes[n].size)
        BY <1>3, <1>4, <2>1, <3>1
      <4>2. inodes[n].valid
        BY <1>1, <1>2 DEF Known, RInv, NamedThere
      <4> QED  BY <1>1, <3>1, <4>1, <4>2
    <3>2. CASE i # n
      BY <1>1, <1>5, <2>1, <3>2 DEF CInv, DiskCovered
    <3> QED  BY <3>1, <3>2
  <2> QED  BY <2>1, CoveredNext
<1>10. HandsCovered'
  BY <1>1 DEF HandsCovered
<1> QED  BY <1>7, <1>8, <1>9, <1>10 DEF CInv

\* No step but the start of the shell loses a block or a pointer.
LEMMA StepKept ==
    ASSUME Known, CInv, HasRoom, FInv', RInv', TypeOK', OneSize, Next, \A n \in Sizes : ~Open(n)
    PROVE  CInv'
<1> USE DEF disk, memory, Writing, Running
<1>0. SInv /\ TInv /\ FInv
  BY DEF Known, SInv
<1>1. CASE Command
  <2>1. CASE Format \/ MountAborts \/ DebugAborts \/ UseBeforeMount
    BY <2>1, AsideKept DEF Format, MountAborts, DebugAborts, UseBeforeMount, Abort
  <2>2. ASSUME NEW i \in Named, RemoveAborts(i) \/ CopyOutStops(i)  PROVE CInv'
    BY <2>2, AsideKept DEF RemoveAborts, CopyOutStops, Abort
  <2>3. ASSUME NEW i \in Named, NEW file \in HostFiles, CopyIn(i, file)  PROVE CInv'
    BY <2>3, AsideKept DEF CopyIn
  <2> QED
    BY <1>0, <1>1, <2>1, <2>2, <2>3, MountKept, CreateKept, RemoveKept DEF Command
<1>2. CASE CopyInStep
  <2>1. CASE WriteAborts \/ OverwriteInodes \/ CopyInDone
    BY <2>1, AsideKept DEF WriteAborts, OverwriteInodes, CopyInDone, Abort, InLoop
  <2>2. CASE Returned
    <3>1. pc = "returned" /\ pc' \in {"copyin", "prompt"}
          /\ UNCHANGED <<disk, memory, nblocks>>
      BY <2>2 DEF Returned
    <3> QED  BY <3>1, AsideKept
  <2>3. ASSUME ReturnEarly  PROVE FALSE
    BY <2>3 DEF ReturnEarly, HasRoom, NeedsBlock
  <2> QED
    BY <1>2, <2>1, <2>2, <2>3, BeginKept, TakesKept, ReadIndirectKept, WriteDataKept,
       UpdateSizeKept, SaveInodeKept, SaveIndirectKept
    DEF CopyInStep
<1>3. CASE FormatClear
  BY <1>0, <1>3, FormatClearKept
<1>4. CASE FormatDone \/ Stop
  BY <1>4, AsideKept DEF FormatDone, Stop
<1> QED  BY <1>1, <1>2, <1>3, <1>4 DEF Next

LEMMA StaysKept ==
    ASSUME CInv, UNCHANGED vars
    PROVE  CInv'
  BY DEF vars, CInv, InRange, DiskCovered, HandsCovered, AllKept, MountedSize, Reach, Cover,
         FileBlocks, Held, InodeOf, TableOf, Pointer, At, Table, InWrite, Writing, InLoop, AtHand,
         IsDirect, Running, Larger, BLOCK_SIZE, MaxFileBlocks

\* The start of the shell on the image of the size it has leaves the files as they
\* are: what it clears, no file points to.
LEMMA OpenKept ==
    ASSUME Known, CInv, OneSize, NEW n \in Sizes, Open(n)
    PROVE  FInv' /\ RInv' /\ CInv' /\ UNCHANGED Store!vars
<1>1. /\ pc \in {"aborted", "stopped"} /\ pc' = "prompt" /\ ~Writing /\ ~Writing'
      /\ ~InWrite /\ ~InWrite' /\ ~mounted' /\ inodes' = inodes /\ nblocks' = n
      /\ block' = [b \in Blocks |-> IF b < n THEN block[b] ELSE ZeroBlock]
  BY DEF Open, Writing, InWrite
<1>2. nblocks' = nblocks /\ n = nblocks /\ n \in Nat /\ TypeOK
  BY <1>1, Formatted DEF OneSize, Known, SInv, TInv, TypeOK
<1>3. \A b \in Blocks : b < n => block'[b] = block[b]
  BY <1>1
<1>4. ASSUME NEW i \in Inumber, NEW s \in Slots, Pointer(i, s) # 0
      PROVE  Pointer(i, s) \in Blocks \ {0} /\ Pointer(i, s) < n
  BY <1>2, <1>4, Formatted, Numbers DEF CInv, InRange, Blocks
<1>5. ASSUME NEW i \in Inumber, NEW s \in Slots
      PROVE  Pointer(i, s)' = Pointer(i, s) /\ Held(i, s)' = Pointer(i, s)
  <2>1. inodes[i].indirect \in Blocks \ {0} => inodes[i].indirect < n
    BY <1>4, LastPlace
  <2>2. Table(inodes[i], block') = Table(inodes[i], block)
    BY <1>3, <2>1 DEF Table
  <2>3. Pointer(i, s)' = Pointer(i, s)
    BY <1>1, <2>2, OnDisk
  <2> QED  BY <1>1, <2>3, NotWritingNext
<1>6. FInv'
  <2>1. HeldOnce' /\ DiskHeld' /\ HeldInUse'
    BY <1>1, <1>5, NotWriting DEF Known, FInv, HeldOnce, DiskHeld, HeldInUse
  <2>2. InHand' /\ Fresh'
    BY <1>1 DEF InHand, Fresh, Writing
  <2> QED  BY <2>1, <2>2 DEF FInv
<1>7. RInv'
  <2>1. \A i \in Inumber : inodes'[i].size =< MaxFileBlocks * BLOCK_SIZE
    BY <1>1 DEF Known, RInv, SizesFit
  <2> QED  BY <1>1, <2>1, OutsideKnown
<1>8. CInv'
  <2>1. InRange' /\ DiskCovered'
    BY <1>1, <1>2, <1>5, PointsKept DEF CInv
  <2>2. HandsCovered' /\ AllKept' /\ MountedSize'
    BY <1>1 DEF HandsCovered, AllKept, MountedSize
  <2> QED  BY <2>1, <2>2 DEF CInv
<1>9. UNCHANGED Store!vars
  <2>1. ASSUME NEW i \in Inumber  PROVE Contents(i)' = Contents(i)
    <3>1. inodes[i] \in Inode /\ inodes[i].size =< MaxFileBlocks * BLOCK_SIZE
      BY DEF Known, SInv, TInv, TypeOK, RInv, SizesFit
    <3> QED  BY <1>1, <1>3, <1>4, <1>5, <3>1, SameWords
  <2>2. files' = files /\ op' = op
    BY <1>1, <2>1 DEF files, op
  <2> QED  BY <2>2 DEF Store!vars
<1> QED  BY <1>6, <1>7, <1>8, <1>9

LEMMA KeptInit ==
    ASSUME Init
    PROVE  CInv
<1>1. ~mounted /\ pc = "prompt" /\ ~Writing /\ inodes = [i \in Inumber |-> NoInode]
  BY DEF Init, Writing
<1>2. ASSUME NEW i \in Inumber, NEW s \in Slots  PROVE Pointer(i, s) = 0
  BY <1>1, OnDisk, NothingHeld
<1> QED  BY <1>1, <1>2 DEF CInv, InRange, DiskCovered, HandsCovered, AllKept, MountedSize

\* Every step, the start of the shell among them, keeps what is known and does to
\* the files what one step of FileStore does, or nothing.
LEMMA KnownStep ==
    ASSUME ~AnyInode, OneSize, Known, CInv, HasRoom, SInv', [SNext]_svars
    PROVE  Known' /\ CInv' /\ [Store!Next]_(Store!vars)
<1>1. CASE UNCHANGED svars
  <2>1. FInv' /\ CInv'
    BY <1>1, StaysHeld, StaysKept DEF svars, Known
  <2>2. RInv' /\ [Store!Next]_(Store!vars)
    <3>1. \A n \in Sizes : ~Open(n)
      BY <1>1 DEF svars, vars, Open, Known, SInv, TInv, TypeOK
    <3> QED  BY <1>1, <3>1, StepOfStore
  <2> QED  BY <2>1, <2>2 DEF Known
<1>2. ASSUME NEW n \in Sizes, Open(n)
      PROVE  Known' /\ CInv' /\ [Store!Next]_(Store!vars)
  BY <1>2, OpenKept DEF Known
<1>3. CASE SNext /\ \A n \in Sizes : ~Open(n)
  <2>1. Next /\ TInv /\ TypeOK' /\ FInv
    BY <1>3 DEF SNext, Known, SInv, TInv
  <2>2. FInv'
    BY <1>3, <2>1, StepHeld, RecordedOf
  <2>3. RInv' /\ [Store!Next]_(Store!vars)
    BY <1>3, StepOfStore
  <2>4. CInv'
    BY <1>3, <2>1, <2>2, <2>3, StepKept
  <2> QED  BY <2>2, <2>3, <2>4 DEF Known
<1> QED  BY <1>1, <1>2, <1>3

\* What is known on every behavior that never finds the disk full, however often
\* the shell is killed and started again.
LEMMA KnownInductive ==
    ASSUME ~AnyInode, OneSize
    PROVE  SSpec /\ []HasRoom => [](Known /\ CInv)
<1>1. SSpec => []SInv
  BY SpecOfSSpec, BackedInductive, PTL
<1>2. SInit /\ SInv => Known /\ CInv
  BY HeldInit, FilesInit, KeptInit DEF SInit, Known
<1>3. SInv' /\ HasRoom /\ (Known /\ CInv) /\ [SNext]_svars => (Known /\ CInv)'
  BY KnownStep
<1> QED  BY <1>1, <1>2, <1>3, PTL DEF SSpec

\* With room on the disk, write returns where it has saved the indirect block.
LEMMA StoredNext ==
    ASSUME Known, HasRoom, WrittenIsStored, [SNext]_svars
    PROVE  WrittenIsStored'
<1>1. CASE UNCHANGED svars
  <2>1. pc' = pc /\ w' = w /\ Contents(w.inum)' = Contents(w.inum)
    BY <1>1 DEF svars, vars, Contents, Pointer
  <2> QED  BY <2>1 DEF WrittenIsStored
<1>2. CASE SaveIndirect
  BY <1>2, SaveStores
<1>3. ASSUME ReturnEarly  PROVE FALSE
  BY <1>3 DEF ReturnEarly, HasRoom, NeedsBlock
<1>4. ASSUME SNext, ~SaveIndirect  PROVE pc' # "returned"
  <2>1. CASE Command
    BY <2>1 DEF Command, Format, Mount, MountAborts, DebugAborts, UseBeforeMount, Create, Remove,
                RemoveAborts, CopyOutStops, CopyIn, Abort
  <2>2. CASE CopyInStep
    BY <1>3, <1>4, <2>2
    DEF CopyInStep, Write, AllocateDirect, AllocateIndirect, AllocateData, InLoop, ReadIndirect,
        WriteData, UpdateSize, SaveInode, WriteAborts, OverwriteInodes, Returned, CopyInDone, Abort
  <2>3. CASE FormatClear \/ FormatDone \/ Stop \/ \E n \in Sizes : Open(n)
    BY <2>3 DEF FormatClear, FormatDone, Stop, Open
  <2> QED  BY <1>4, <2>1, <2>2, <2>3 DEF SNext, Next
<1> QED  BY <1>1, <1>2, <1>4 DEF WrittenIsStored

\* The bitmap is right on every behavior that never finds the disk full, however
\* often the shell is killed, at whatever disk write, and started again: mount
\* marks all that the files have, so no block comes to belong to two of them and
\* none that a file points to is free.
THEOREM FilesApartWithRoom ==
    ASSUME ~AnyInode, OneSize
    PROVE  SSpec /\ []HasRoom => [](NoCrossLink /\ PointedNotFree)
<1>1. Known => NoCrossLink /\ PointedNotFree
  BY HeldApart DEF Known
<1> QED  BY <1>1, KnownInductive, PTL

\* At the prompt every block of the disk is free or in a file: neither a command
\* that came to its end nor the mount after a kill loses one, and none can as long
\* as write finds the blocks it asks for.
THEOREM NoBlockLost ==
    ASSUME ~AnyInode, OneSize
    PROVE  SSpec /\ []HasRoom => []NoLeak
<1>1. ASSUME Known, CInv  PROVE NoLeak
  <2> SUFFICES ASSUME mounted, pc = "prompt", NEW b \in InodeBlocks + 1 .. num_blocks - 1,
                      b \notin free_bitmap
               PROVE  b \in Pointers
    BY DEF NoLeak
  <2>1. PICK i \in Inumber, s \in Slots : Held(i, s) = b
    BY <1>1 DEF CInv, AllKept, Running
  <2>2. Pointer(i, s) = b
    BY <2>1, NotWriting DEF Writing
  <2>3. b # 0
    BY <1>1, Numbers, Formatted DEF Known, SInv, TInv, TypeOK
  <2> QED  BY <2>2, <2>3 DEF Pointers
<1>2. Known /\ CInv => NoLeak
  BY <1>1
<1> QED  BY <1>2, KnownInductive, PTL

\* With room on the disk the file system implements FileStore across any number of
\* kills and starts: what a file holds when the shell starts again is what the
\* writes that returned have put there, apart from the words of the one write
\* that the kill hit.
THEOREM ImplementsStoreWithRoom ==
    ASSUME ~AnyInode, OneSize
    PROVE  SSpec /\ []HasRoom => ImplementsFileStore
<1>1. SSpec => []SInv
  BY SpecOfSSpec, BackedInductive, PTL
<1>2. SInit => Store!Init
  BY FilesInit
<1>3. SInv' /\ HasRoom /\ (Known /\ CInv) /\ [SNext]_svars => [Store!Next]_(Store!vars)
  BY KnownStep
<1> QED
  BY <1>1, <1>2, <1>3, KnownInductive, PTL DEF SSpec, ImplementsFileStore, Store!Spec

\* Nor does a later start find anything but data in the direct blocks of a file.
THEOREM NoUnwrittenDataWithRoom ==
    ASSUME ~AnyInode, OneSize
    PROVE  SSpec /\ []HasRoom => []NoUnwrittenData
<1>1. SSpec => []SInv
  BY SpecOfSSpec, BackedInductive, PTL
<1>2. SInit => DirectData
  <2> SUFFICES ASSUME SInit  PROVE DirectData
    OBVIOUS
  <2>1. \A i \in Inumber : files[i] = <<-1>>
    BY FilesInit DEF Store!Init, Store!NoFile
  <2> QED  BY <2>1 DEF DirectData
<1>3. Known => FilesAreSeqs
  BY FilesSeqs
<1>4. SInv' /\ HasRoom /\ (Known /\ CInv) /\ FilesAreSeqs' /\ DirectData /\ [SNext]_svars
      => DirectData'
  BY KnownStep, StoreKeepsData
<1>5. Known /\ DirectData => NoUnwrittenData
  BY UnwrittenNever
<1> QED  BY <1>1, <1>2, <1>3, <1>4, <1>5, KnownInductive, PTL DEF SSpec

\* copyout gives back every word of a file on any of these behaviors, with the two
\* exceptions that CopyOutWhole makes.
THEOREM CopyOutGivesAllWithRoom ==
    ASSUME ~AnyInode, OneSize
    PROVE  SSpec /\ []HasRoom => []CopyOutWhole
<1>1. ASSUME Known  PROVE CopyOutWhole
  BY <1>1, OneDiskOf, ReadGivesAll DEF Known, SInv, TInv
<1>2. Known => CopyOutWhole
  BY <1>1
<1> QED  BY <1>2, KnownInductive, PTL

\* A write that returns has stored every word that it reports.  On a full disk the
\* return without a block for the pointers breaks this: the inode is not saved.
THEOREM WritesAreStored ==
    ASSUME ~AnyInode, OneSize
    PROVE  SSpec /\ []HasRoom => []WrittenIsStored
<1>1. SInit => WrittenIsStored
  BY DEF SInit, Init, WrittenIsStored
<1>2. HasRoom /\ (Known /\ CInv) /\ WrittenIsStored /\ [SNext]_svars => WrittenIsStored'
  BY StoredNext
<1> QED  BY <1>1, <1>2, KnownInductive, PTL DEF SSpec

\* A disk with a block for every place of every inode never runs full.
Roomy ==
    \A n \in Sizes : INODES_PER_BLOCK * InodeBlocks * (MaxFileBlocks + 1) =< n - InodeBlocks - 1

\* When write needs a block, a place of its file is empty; when no block were
\* free, each would be in another of the places that are not.
LEMMA RoomThere ==
    ASSUME Roomy, Known, CInv
    PROVE  HasRoom
<1> SUFFICES ASSUME NeedsBlock, free_bitmap = {}  PROVE FALSE
  BY DEF HasRoom
<1>1. InLoop /\ Writing /\ InWrite /\ Running /\ mounted
  BY DEF NeedsBlock, InLoop, Writing, InWrite, Running, Known, FInv, Fresh
<1>2. PICK n \in Inumber : n = w.inum
  BY <1>1, AtWork
<1>3. PICK t \in Slots : Held(n, t) = 0
  <2>1. /\ Held(n, w.block_num) = At(w.inode, TableOf(n), w.block_num)
        /\ Held(n, MaxFileBlocks) = At(w.inode, TableOf(n), MaxFileBlocks)
    BY <1>1, <1>2 DEF Held, InodeOf
  <2>2. w.block_num \in Slots /\ w.block_num # MaxFileBlocks /\ MaxFileBlocks \in Slots
    <3>1. w.block_num \in Nat
      BY <1>1, AtWork
    <3> QED  BY <1>1, <3>1, Numbers DEF InLoop, Slots
  <2>3. CASE ~IsDirect /\ w.inode.indirect = 0
    BY <2>1, <2>2, <2>3, AtPlaces
  <2>4. CASE IsDirect /\ block_to_write = 0
    <3>1. w.block_num \in 0 .. POINTERS_PER_INODE - 1
      BY <2>2, <2>4, Numbers DEF IsDirect, Slots
    <3> QED  BY <2>1, <2>2, <2>4, <3>1, AtPlaces DEF block_to_write
  <2>5. CASE ~IsDirect /\ w.read_indirect /\ block_to_write = 0
    <3>1. TableOf(n) = w.indirect
      BY <1>1, <1>2, <2>5 DEF TableOf
    <3> QED  BY <2>1, <2>2, <2>5, <3>1, AtPlaces DEF block_to_write, IsDirect
  <2> QED  BY <2>3, <2>4, <2>5 DEF NeedsBlock, PointerKnown
<1> DEFINE places == Inumber \X Slots
           data == InodeBlocks + 1 .. num_blocks - 1
           full == {p \in places : Held(p[1], p[2]) \in data}
           f == [p \in full |-> Held(p[1], p[2])]
           m == INODES_PER_BLOCK * InodeBlocks
<1>4. num_blocks \in Sizes /\ num_blocks \in Nat /\ InodeBlocks \in Nat /\ InodeBlocks < num_blocks
  BY <1>1, Formatted, Numbers DEF CInv, MountedSize
<1>5. IsFiniteSet(data) /\ Cardinality(data) = num_blocks - InodeBlocks - 1
  <2>1. InodeBlocks + 1 \in Int /\ num_blocks - 1 \in Int
    BY <1>4
  <2>2. IsFiniteSet(data) /\ Cardinality(data) = IF InodeBlocks + 1 > num_blocks - 1 THEN 0
                                    ELSE num_blocks - 1 - (InodeBlocks + 1) + 1
    BY <2>1, FS_Interval
  <2> HIDE DEF data
  <2> QED  BY <1>4, <2>2
<1>6. IsFiniteSet(places) /\ Cardinality(places) = m * (MaxFileBlocks + 1)
  <2>1. m \in Nat /\ MaxFileBlocks \in Nat
    BY Numbers
  <2> HIDE DEF m
  <2>2. IsFiniteSet(0 .. m - 1) /\ Cardinality(0 .. m - 1) = m
    BY <2>1, FS_Interval
  <2>3. IsFiniteSet(0 .. MaxFileBlocks) /\ Cardinality(0 .. MaxFileBlocks) = MaxFileBlocks + 1
    BY <2>1, FS_Interval
  <2> QED  BY <2>2, <2>3, FS_Product DEF Inumber, Slots, m
<1>7. IsFiniteSet(full) /\ Cardinality(full) =< Cardinality(places) - 1
  <2>1. <<n, t>> \in places /\ full \subseteq places \ {<<n, t>>}
    BY <1>3, <1>4
  <2>2. IsFiniteSet(places \ {<<n, t>>})
        /\ Cardinality(places \ {<<n, t>>}) = Cardinality(places) - 1
    BY <1>6, <2>1, FS_RemoveElement
  <2> QED  BY <2>1, <2>2, FS_Subset
<1>8. f \in Surjection(full, data)
  <2>1. \A b \in data : \E p \in full : f[p] = b
    <3> SUFFICES ASSUME NEW b \in data  PROVE \E p \in full : Held(p[1], p[2]) = b
      OBVIOUS
    <3>1. PICK i \in Inumber, s \in Slots : Held(i, s) = b
      BY <1>1 DEF CInv, AllKept
    <3>2. <<i, s>> \in full
      BY <3>1
    <3> QED  BY <3>1, <3>2
  <2>2. f \in [full -> data]
    OBVIOUS
  <2> QED  BY <2>1, <2>2 DEF Surjection
<1>9. Cardinality(data) =< Cardinality(full)
  BY <1>7, <1>8, FS_Surjection
<1>10. m * (MaxFileBlocks + 1) =< num_blocks - InodeBlocks - 1
  BY <1>4 DEF Roomy
<1>11. Cardinality(data) \in Nat /\ Cardinality(full) \in Nat /\ Cardinality(places) \in Nat
  BY <1>5, <1>6, <1>7, FS_CardinalityType
<1> HIDE DEF places, data, full, f, m
<1> QED  BY <1>5, <1>6, <1>7, <1>9, <1>10, <1>11

\* Then write finds every block it asks for, after any number of kills and starts.
THEOREM RoomyHasRoom ==
    ASSUME ~AnyInode, OneSize, Roomy
    PROVE  SSpec => []HasRoom
<1>1. SSpec => []SInv
  BY SpecOfSSpec, BackedInductive, PTL
<1>2. SInit /\ SInv => Known /\ CInv
  BY HeldInit, FilesInit, KeptInit DEF SInit, Known
<1>3. SInv' /\ (Known /\ CInv) /\ [SNext]_svars => (Known /\ CInv)'
  BY RoomThere, KnownStep
<1>4. Known /\ CInv => HasRoom
  BY RoomThere
<1> QED  BY <1>1, <1>2, <1>3, <1>4, PTL DEF SSpec

\* On such a disk all of this holds of every behavior of the shell: it implements
\* FileStore, loses and shares no block, and what it reports is in the files.
THEOREM RoomyDisk ==
    ASSUME ~AnyInode, OneSize, Roomy
    PROVE  SSpec =>
              /\ ImplementsFileStore
              /\ [](NoCrossLink /\ PointedNotFree /\ NoLeak)
              /\ [](NoUnwrittenData /\ CopyOutWhole /\ WrittenIsStored)
  BY RoomyHasRoom, ImplementsStoreWithRoom, FilesApartWithRoom, NoBlockLost,
     NoUnwrittenDataWithRoom, CopyOutGivesAllWithRoom, WritesAreStored, PTL
=============================================================================
