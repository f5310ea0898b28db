---------------------------- MODULE SimpleFSStore ----------------------------
(***************************************************************************)
(* SimpleFS implements FileStore.  The blocks of a write that extends a     *)
(* file become part of it when the inode, and later the indirect block, are *)
(* saved, while words that are overwritten change at once; FileStore does   *)
(* all of it when the write returns.  The history variable before holds     *)
(* what the file was when the write began, and stands for it until then.    *)
(***************************************************************************)
EXTENDS SimpleFS

VARIABLE before

svars == <<vars, before>>

\* the words of file i, as the pointers on the disk give them
Contents(i) ==
    [k \in 1 .. inodes[i].size |->
        LET p == Pointer(i, (k - 1) \div BLOCK_SIZE) IN
        IF p \in Blocks \ {0} THEN block[p][(k - 1) % BLOCK_SIZE] ELSE 0]

InWrite == pc \in {"loop", "save_inode", "save_indirect", "returned"}

SInit == Init /\ before = <<>>

SNext ==
    /\ Next
    /\ before' = IF InWrite THEN before
                 ELSE IF InWrite' THEN Contents(w.inum) ELSE <<>>

SSpec == SInit /\ [][SNext]_svars

SFairSpec == SSpec /\ WF_vars(CopyInStep) /\ WF_vars(FormatClear \/ FormatDone)

NoOp == [inum |-> -1, offset |-> 0, length |-> 0, word |-> 0]

files ==
    [i \in Inumber |->
        IF ~inodes[i].valid THEN <<-1>>
        ELSE IF InWrite /\ w.inum = i THEN before ELSE Contents(i)]

op == IF InWrite THEN [inum |-> w.inum, offset |-> w.offset,
                       length |-> w.length, word |-> w.word] ELSE NoOp

Store == INSTANCE FileStore WITH Direct <- POINTERS_PER_INODE * BLOCK_SIZE

\* Every sequence of commands, with the shell killed at any disk write and
\* started again, does to the files what FileStore does: a write that returned
\* has put a prefix of its words in its file, no command touches another file,
\* and what a kill can spoil is confined to the words of the write it hit.
ImplementsFileStore == Store!Spec

\* The words of a file in its direct blocks were written by somebody: data
\* reaches the disk before the pointer to it and before the size, so no kill
\* makes a file show the zeros of a fresh block there.
NoUnwrittenData ==
    \A i \in Inumber : inodes[i].valid =>
        \A k \in DOMAIN Contents(i) :
            k =< POINTERS_PER_INODE * BLOCK_SIZE => Contents(i)[k] \in Data

\* copyout at the prompt hands over a whole file, word for word, unless the file
\* ends inside the first block behind the direct ones or has a hole.
CopyOutWhole ==
    (mounted /\ pc = "prompt") =>
        \A i \in Inumber :
            \/ ~inodes[i].valid
            \/ inodes[i].size \in POINTERS_PER_INODE * BLOCK_SIZE + 1 ..
                                  (POINTERS_PER_INODE + 1) * BLOCK_SIZE - 1
            \/ \E k \in DOMAIN Contents(i) : Contents(i)[k] = 0
            \/ \A offset \in 0 .. inodes[i].size - 1 :
                  offset % CHUNK = 0 => ReadSucceeds(i, offset)

\* lab7/README.md:109: the size, the Direct array and the Indirect pointer are
\* updated, so the words that write reports as written are in the file.  It is
\* so as long as the disk has free blocks, and not when it is full.
WrittenIsStored ==
    pc = "returned" =>
        \A k \in w.offset .. w.offset + w.written - 1 :
            k + 1 \in DOMAIN Contents(w.inum) /\ Contents(w.inum)[k + 1] = w.word
=============================================================================
