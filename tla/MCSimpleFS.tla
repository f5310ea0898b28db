----------------------------- MODULE MCSimpleFS -----------------------------
(* The files of the host that the runs of SimpleFS copy in.  Their words are *)
(* numbers of blocks; 1 is that of the inode table.                          *)
EXTENDS SimpleFS

Host(len, word) == [len |-> len, word |-> word]

HostGeometry == {Host(3, 5), Host(8, 1)}

HostTwo == {Host(3, 5), Host(6, 5)}
=============================================================================
