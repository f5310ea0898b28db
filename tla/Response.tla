------------------------------- MODULE Response --------------------------------
(***************************************************************************)
(* How the web server answers (Assignment 5): request_handle of request.c   *)
(* writes the header line by line with tcp_printf and then the file in      *)
(* blocks with tcp_write (tcp.c), to a client that takes what it gets at    *)
(* its own pace and may go away.                                            *)
(*                                                                          *)
(* The answer is a sequence of pieces, lines and blocks, and a byte is the  *)
(* pair of its piece and its place there.  Every system call is one step.   *)
(***************************************************************************)
EXTENDS Integers, Sequences

CONSTANTS
    Lines,      \* lines of the header
    MaxBlocks,  \* blocks of the file, at most
    Lengths,    \* lengths of a line or block
    SNDBUF      \* what the socket holds for the client

ASSUME AnswerAssumption ==
    /\ Lines \in Nat \ {0} /\ MaxBlocks \in Nat /\ SNDBUF \in Nat \ {0}
    /\ Lengths \subseteq Nat \ {0}

VARIABLES
    pieces,     \* the length of every line and block
    piece,      \* the one that is written
    total,      \* what tcp_write has written of it
    at,         \* "write", "sleep" in tcp_sleep, "short" or "whole", or "closed"
    wire,       \* all that the socket took, in order
    queued,     \* what the client has not taken from it yet
    client      \* "open" or "reset"

answer == <<pieces, piece, total, at, wire, queued, client>>

AnswerInit ==
    /\ pieces \in UNION {[1 .. Lines + n -> Lengths] : n \in 0 .. MaxBlocks}
    /\ piece = 1 /\ total = 0 /\ at = "write"
    /\ wire = <<>> /\ queued = 0
    /\ client = "open"

Part(p, from, to) == [k \in 1 .. to - from |-> <<p, from + k>>]

-----------------------------------------------------------------------------
(* The client *)

Drain ==
    /\ client = "open" /\ queued > 0
    /\ queued' = queued - 1
    /\ UNCHANGED <<pieces, piece, total, at, wire, client>>

Reset ==
    /\ client = "open"
    /\ client' = "reset"
    /\ UNCHANGED <<pieces, piece, total, at, wire, queued>>

-----------------------------------------------------------------------------
(* tcp_write *)

left == pieces[piece] - total

Takes(n) ==
    /\ total' = total + n
    /\ wire' = wire \o Part(piece, total, total + n)
    /\ queued' = queued + n

WriteSome ==
    /\ at = "write" /\ client = "open"
    /\ \E n \in 1 .. left : queued + n =< SNDBUF /\ Takes(n)
    /\ UNCHANGED <<pieces, piece, at, client>>

WriteBlocks ==
    /\ at = "write" /\ client = "open"
    /\ left > 0 /\ queued = SNDBUF
    /\ at' = "sleep"
    /\ UNCHANGED <<pieces, piece, total, wire, queued, client>>

WriteEnds ==
    /\ at = "write"
    /\ \/ left = 0 /\ at' = "whole"
       \/ left > 0 /\ client = "reset" /\ at' = "short"
    /\ UNCHANGED <<pieces, piece, total, wire, queued, client>>

\* tcp_sleep: select finds the socket ready.
SleepEnds ==
    /\ at = "sleep"
    /\ queued < SNDBUF \/ client = "reset"
    /\ at' = "write"
    /\ UNCHANGED <<pieces, piece, total, wire, queued, client>>

\* Slip: tcp_write gives up only when it has written nothing.
SleepTimesOutTotal ==
    /\ at = "sleep"
    /\ at' = IF total > 0 THEN "write" ELSE "short"
    /\ UNCHANGED <<pieces, piece, total, wire, queued, client>>

\* The time is over: a second at least, however late it was.
SleepTimesOut ==
    /\ at = "sleep"
    /\ at' = "short"
    /\ UNCHANGED <<pieces, piece, total, wire, queued, client>>

-----------------------------------------------------------------------------
(* request_handle *)

InHeader == piece =< Lines

\* Slip: the loop over the file tests only for an error.
GoesOnAfterSome == at = "whole" \/ InHeader \/ total > 0

\* Nobody looks at what tcp_printf returns; the loop over the file stops at the
\* first block that was not written whole.
GoesOn == at = "whole" \/ InHeader

NextPiece ==
    /\ at \in {"whole", "short"}
    /\ GoesOn /\ piece < Len(pieces)
    /\ piece' = piece + 1 /\ total' = 0
    /\ at' = "write"
    /\ UNCHANGED <<pieces, wire, queued, client>>

\* request_delete
Close ==
    /\ at \in {"whole", "short"}
    /\ ~ GoesOn \/ piece = Len(pieces)
    /\ at' = "closed"
    /\ UNCHANGED <<pieces, piece, total, wire, queued, client>>

Answer ==
    \/ WriteSome \/ WriteBlocks \/ WriteEnds \/ SleepEnds \/ SleepTimesOut
    \/ NextPiece \/ Close

AnswerNext == Drain \/ Reset \/ Answer

-----------------------------------------------------------------------------
(* Properties *)

\* The byte of the answer before this one.
Before(b) == IF b[2] > 1 THEN <<b[1], b[2] - 1>> ELSE <<b[1] - 1, pieces[b[1] - 1]>>

\* A header line that is cut short does not stop the next one, so what the
\* client gets may have holes in the header; never in the file: its first byte
\* follows bytes of the header only, and every other one directly the byte before
\* it in the file, so that the file is cut off at one point and no byte of it
\* comes twice or late.
BodyIsPrefix ==
    \A k \in DOMAIN wire :
        wire[k][1] > Lines =>
            IF wire[k] = <<Lines + 1, 1>>
            THEN \A j \in 1 .. k - 1 : wire[j][1] =< Lines
            ELSE k > 1 /\ wire[k - 1] = Before(wire[k])
=============================================================================
