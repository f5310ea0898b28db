-------------------------- MODULE MCSimpleFSStore --------------------------
EXTENDS MCSimpleFS, SimpleFSStore

\* Two files, of which the longer needs two calls of write and the whole of the
\* indirect block.
HostShortLong == {Host(3, 3), Host(8, 3)}

\* Files of two words, and one that ends inside the first block behind the
\* direct ones.
HostTwoWords == {Host(3, 3), Host(5, 5), Host(8, 5)}
=============================================================================
