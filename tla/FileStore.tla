------------------------------ MODULE FileStore ------------------------------
(***************************************************************************)
(* What the file system of Assignment 7 promises, without blocks, inodes    *)
(* or a bitmap: a set of numbered files, each a sequence of words, with one *)
(* write at a time.  A write that returns has put a prefix of its words in  *)
(* the file and touched nothing else.  A write that the death of the shell  *)
(* cuts off may have stored any part of its words, and may leave words that *)
(* were never stored behind position Direct, which read as 0.               *)
(***************************************************************************)
EXTENDS Integers, Sequences

CONSTANTS
    Inumber, Data,
    CHUNK,     \* the longest write
    Direct     \* words of a file that are safe from holes

VARIABLES files,   \* the words of each file, or NoFile
          op       \* the write in progress, or NoOp

vars == <<files, op>>

NoFile == <<-1>>
NoOp   == [inum |-> -1, offset |-> 0, length |-> 0, word |-> 0]

Init == files = [i \in Inumber |-> NoFile] /\ op = NoOp

Erase(S) ==
    /\ op = NoOp /\ op' = NoOp
    /\ files' = [i \in Inumber |-> IF i \in S THEN NoFile ELSE files[i]]

Create(i) ==
    /\ op = NoOp /\ op' = NoOp
    /\ files[i] = NoFile
    /\ files' = [files EXCEPT ![i] = <<>>]

BeginWrite(i, offset, length, d) ==
    /\ op = NoOp
    /\ op' = [inum |-> i, offset |-> offset, length |-> length, word |-> d]
    /\ files[i] # NoFile
    /\ UNCHANGED files

InOp(k) == k > op.offset /\ k =< op.offset + op.length

\* f with the first n words of the write in place
Overwritten(f, n) ==
    [k \in 1 .. (IF op.offset + n > Len(f) THEN op.offset + n ELSE Len(f)) |->
        IF k > op.offset /\ k =< op.offset + n THEN op.word ELSE f[k]]

EndWrite(n) ==
    /\ op # NoOp /\ op' = NoOp
    /\ n =< op.length
    /\ files' = [files EXCEPT ![op.inum] = Overwritten(@, n)]

\* g is what the death of the shell may leave of f
Torn(f, g) ==
    /\ Len(f) =< Len(g)
    /\ \A k \in 1 .. Len(g) :
          \/ k =< Len(f) /\ g[k] = f[k]
          \/ InOp(k) /\ g[k] = op.word
          \/ InOp(k) /\ k > Direct /\ g[k] = 0

Crash ==
    /\ op # NoOp /\ op' = NoOp
    /\ \A i \in Inumber \ {op.inum} : files'[i] = files[i]
    /\ Torn(files[op.inum], files'[op.inum])

Next ==
    \/ \E S \in SUBSET Inumber : Erase(S)      \* remove one, or format
    \/ \E i \in Inumber : Create(i)
    \/ \E i \in Inumber, length \in 0 .. CHUNK, d \in Data :
          \E offset \in 0 .. Len(files[i]) : BeginWrite(i, offset, length, d)
    \/ \E n \in 0 .. op.length : EndWrite(n)
    \/ Crash

Spec == Init /\ [][Next]_vars
=============================================================================
