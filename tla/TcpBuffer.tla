------------------------------ MODULE TcpBuffer ------------------------------
(***************************************************************************)
(* The buffered reader of the web server (Assignment 5, web_server/tcp.c):  *)
(* fill_buffer, tcp_readline, tcp_read and tcp_read_avail on one connection,*)
(* against a peer that sends when it likes, and closes or resets.           *)
(*                                                                         *)
(* A byte is its position in the stream that the peer sends, so that bytes  *)
(* lost, doubled or out of order show.  kind says which ones are LF or CR.  *)
(* Every system call and every byte that tcp_readline copies is one step.   *)
(***************************************************************************)
EXTENDS Integers, Sequences

CONSTANTS
    BUFFER_SIZE,
    MaxBytes,     \* bound on what the peer sends
    Counts        \* the sizes of the callers' arrays

ASSUME SizesAssumption ==
    BUFFER_SIZE \in Nat \ {0} /\ MaxBytes \in Nat /\ Counts \subseteq Nat

Bytes == 1 .. MaxBytes

VARIABLES
    kind,                         \* of every byte: "lf", "cr" or "other"
    arrived, peer,                \* bytes that have arrived; "open", "closed" or "reset"
    taken,                        \* bytes that read(2) has given to the process
    buffer, buffer_start, buffer_length,   \* members of struct tcp
    pc, op,                       \* where the call is, and which function it is
    data, count, chunk,           \* its locals: what it has copied, the room left
    ret,                          \* what it returned
    first                         \* history: bytes consumed before the call

socket == <<arrived, peer, taken>>
tcp    == <<buffer, buffer_start, buffer_length>>
vars   == <<kind, arrived, peer, taken, buffer, buffer_start, buffer_length,
            pc, op, data, count, chunk, ret, first>>

\* The bytes that have left both the socket and the buffer.
Consumed == taken - buffer_length

Init ==
    /\ kind \in [Bytes -> {"lf", "cr", "other"}]
    /\ arrived = 0 /\ peer = "open" /\ taken = 0
    /\ buffer = [k \in 0 .. BUFFER_SIZE - 1 |-> 0]
    /\ buffer_start = 0 /\ buffer_length = 0
    /\ pc = "idle" /\ op = "read"
    /\ data = <<>> /\ count = 0 /\ chunk = 0
    /\ ret = 0 /\ first = 0

Smaller(a, b) == IF a =< b THEN a ELSE b

-----------------------------------------------------------------------------
(* The peer, and what read(2) does on a nonblocking socket.                 *)

Send ==
    /\ peer = "open"
    /\ arrived < MaxBytes
    /\ arrived' = arrived + 1
    /\ UNCHANGED <<kind, peer, taken, tcp, pc, op, data, count, chunk, ret, first>>

HangUp ==
    /\ peer = "open"
    /\ peer' \in {"closed", "reset"}
    /\ UNCHANGED <<kind, arrived, taken, tcp, pc, op, data, count, chunk, ret, first>>

\* read(fd, ..., room) returns n bytes, end of file, an error, or EAGAIN
Delivers(n, room) == peer # "reset" /\ n \in 1 .. Smaller(room, arrived - taken)
EndOfFile         == peer = "closed" /\ arrived = taken
Fails             == peer = "reset"
WouldBlock        == peer = "open" /\ arrived = taken

-----------------------------------------------------------------------------
(* A call and its return *)

Call(o, n) ==
    /\ pc = "idle"
    /\ op' = o
    /\ count' = n
    /\ pc' = CASE o = "readline" -> "readline"
               [] o = "read" /\ n < BUFFER_SIZE -> "fill"
               [] OTHER -> "copy"
    /\ data' = <<>> /\ chunk' = 0 /\ ret' = 0
    /\ first' = Consumed
    /\ UNCHANGED <<kind, socket, tcp>>

\* tcp_read and tcp_read_avail return, with c as the last value of chunk.
ReturnTotal(c) ==
    /\ pc' = "idle"
    /\ chunk' = c
    /\ ret' = IF Len(data) > 0 THEN Len(data) ELSE IF c = 0 THEN 0 ELSE -1

\* fill_buffer returns c to tcp_readline or to tcp_read.
FillReturns(c) ==
    /\ chunk' = c
    /\ \/ c > 0 /\ pc' = (IF op = "readline" THEN "readline" ELSE "copy") /\ UNCHANGED ret
       \/ c =< 0 /\ pc' = "idle" /\ ret' = (IF op = "readline" THEN 0 ELSE c)

-----------------------------------------------------------------------------
(* fill_buffer *)

\* The next n bytes of the socket go to the front of the buffer.
Refill(n) ==
    /\ buffer' = [k \in 0 .. BUFFER_SIZE - 1 |-> IF k < n THEN taken + k + 1 ELSE buffer[k]]
    /\ buffer_start' = 0
    /\ buffer_length' = n
    /\ taken' = taken + n

FillReads ==
    /\ pc = "fill"
    /\ buffer_length = 0
    /\ \E n \in 1 .. BUFFER_SIZE :
          /\ Delivers(n, BUFFER_SIZE)
          /\ Refill(n)
          /\ FillReturns(n)
    /\ UNCHANGED <<kind, arrived, peer, op, data, count, first>>

FillReadsNothing ==
    /\ pc = "fill"
    /\ \/ buffer_length > 0 /\ FillReturns(buffer_length) /\ UNCHANGED tcp
       \/ /\ buffer_length = 0 /\ EndOfFile
          /\ buffer_start' = 0 /\ UNCHANGED <<buffer, buffer_length>>
          /\ FillReturns(0)
       \/ buffer_length = 0 /\ Fails /\ FillReturns(-1) /\ UNCHANGED tcp
    /\ UNCHANGED <<kind, socket, op, data, count, first>>

FillSleeps ==
    /\ pc = "fill"
    /\ buffer_length = 0
    /\ WouldBlock
    /\ pc' = "fill_sleep"
    /\ UNCHANGED <<kind, socket, tcp, op, data, count, chunk, ret, first>>

\* n bytes of the buffer have been copied to the caller.
Skip(n) ==
    /\ buffer_start' = buffer_start + n
    /\ buffer_length' = buffer_length - n

-----------------------------------------------------------------------------
(* tcp_readline *)

\* Slip: a CR ends the line as well.
EndsLineAtCR(b) == kind[b] \in {"lf", "cr"}

EndsLine(b) == kind[b] = "lf"

ReadlineByte ==
    /\ pc = "readline"
    /\ count > 0
    /\ buffer_length > 0
    /\ Skip(1)
    /\ LET b == buffer[buffer_start] IN
       CASE EndsLine(b) -> /\ pc' = "idle" /\ ret' = 1
                          /\ UNCHANGED <<data, count>>
         [] kind[b] = "cr" -> UNCHANGED <<pc, ret, data, count>>
         [] OTHER -> /\ data' = Append(data, b) /\ count' = count - 1
                     /\ UNCHANGED <<pc, ret>>
    /\ UNCHANGED <<kind, socket, buffer, op, chunk, first>>

ReadlineFull ==
    /\ pc = "readline"
    /\ count = 0
    /\ pc' = "idle" /\ ret' = 0
    /\ UNCHANGED <<kind, socket, tcp, op, data, count, chunk, first>>

ReadlineFills ==
    /\ pc = "readline"
    /\ count > 0
    /\ buffer_length = 0
    /\ pc' = "fill"
    /\ UNCHANGED <<kind, socket, tcp, op, data, count, chunk, ret, first>>

-----------------------------------------------------------------------------
(* tcp_read, tcp_read_avail *)

\* Slip: the front of the array, wherever the buffer starts.
FromArray(n) == [k \in 1 .. n |-> buffer[k - 1]]

FromBuffer(n) == [k \in 1 .. n |-> buffer[buffer_start + k - 1]]

\* First satisfy the read from the buffer.
Copy ==
    /\ pc = "copy"
    /\ LET n == Smaller(buffer_length, count) IN
       /\ data' = data \o FromBuffer(n)
       /\ count' = count - n
       /\ Skip(n)
       /\ chunk' = IF buffer_length > 0 THEN n ELSE chunk
    /\ pc' = "wire"
    /\ UNCHANGED <<kind, socket, buffer, op, ret, first>>

\* Then pull it off the wire.
WireReads ==
    /\ pc = "wire"
    /\ \E n \in 1 .. count :
          /\ Delivers(n, count)
          /\ data' = data \o [k \in 1 .. n |-> taken + k]
          /\ count' = count - n
          /\ taken' = taken + n
          /\ chunk' = n
    /\ UNCHANGED <<kind, arrived, peer, tcp, pc, op, ret, first>>

\* tcp_read waits for the rest; tcp_read_avail waits only if it has nothing.
MayWait == op = "read" \/ data = <<>>

WireEnds ==
    /\ pc = "wire"
    /\ \/ count = 0 /\ ReturnTotal(chunk)
       \/ count > 0 /\ EndOfFile /\ ReturnTotal(0)
       \/ count > 0 /\ Fails /\ ReturnTotal(-1)
       \/ count > 0 /\ WouldBlock /\ ~MayWait /\ ReturnTotal(-1)
    /\ UNCHANGED <<kind, socket, tcp, op, data, count, first>>

WireSleeps ==
    /\ pc = "wire"
    /\ count > 0
    /\ WouldBlock
    /\ MayWait
    /\ pc' = "wire_sleep"
    /\ UNCHANGED <<kind, socket, tcp, op, data, count, chunk, ret, first>>

-----------------------------------------------------------------------------
(* tcp_sleep *)

Wake ==
    /\ pc \in {"fill_sleep", "wire_sleep"}
    /\ ~WouldBlock
    /\ pc' = IF pc = "fill_sleep" THEN "fill" ELSE "wire"
    /\ UNCHANGED <<kind, socket, tcp, op, data, count, chunk, ret, first>>

\* Slip: the result of tcp_sleep is not tested.
TimeOutRetries ==
    /\ pc \in {"fill_sleep", "wire_sleep"}
    /\ pc' = IF pc = "fill_sleep" THEN "fill" ELSE "wire"
    /\ UNCHANGED <<kind, socket, tcp, op, data, count, chunk, ret, first>>

\* stoptime has passed
TimeOut ==
    /\ \/ pc = "fill_sleep" /\ FillReturns(-1)
       \/ pc = "wire_sleep" /\ ReturnTotal(-1)
    /\ UNCHANGED <<kind, socket, tcp, op, data, count, first>>

CallStep ==
    \/ FillReads \/ FillReadsNothing \/ FillSleeps
    \/ ReadlineByte \/ ReadlineFull \/ ReadlineFills
    \/ Copy \/ WireReads \/ WireEnds \/ WireSleeps
    \/ Wake \/ TimeOut

Next ==
    \/ Send \/ HangUp
    \/ \E o \in {"readline", "read", "avail"}, n \in Counts : Call(o, n)
    \/ CallStep

Spec == Init /\ [][Next]_vars

-----------------------------------------------------------------------------
(* Properties *)

TypeOK ==
    /\ kind \in [Bytes -> {"lf", "cr", "other"}]
    /\ taken \in 0 .. arrived /\ arrived \in 0 .. MaxBytes
    /\ peer \in {"open", "closed", "reset"}
    /\ buffer \in [0 .. BUFFER_SIZE - 1 -> 0 .. MaxBytes]
    /\ buffer_start \in Nat /\ buffer_length \in Nat
    /\ buffer_start + buffer_length =< BUFFER_SIZE
    /\ pc \in {"idle", "readline", "fill", "copy", "wire", "fill_sleep", "wire_sleep"}
    /\ op \in {"readline", "read", "avail"}
    /\ data \in Seq(Bytes)
    /\ count \in Nat
    /\ chunk \in -1 .. MaxBytes /\ ret \in -1 .. MaxBytes
    /\ first \in 0 .. MaxBytes

\* The bytes that this call has consumed.
Eaten == [k \in 1 .. Consumed - first |-> first + k]

\* A caller gets the next bytes of the stream, none lost, doubled or out of
\* order, whichever functions are called in turn and however the buffer, the
\* wire and the timeouts cut them; tcp_readline leaves out CR and LF only.
DataIsStream ==
    /\ \A k, m \in DOMAIN data : k < m => data[k] < data[m]
    /\ {data[k] : k \in DOMAIN data} =
           {b \in first + 1 .. Consumed : op = "readline" => kind[b] = "other"}

\* tcp_readline returns 1 with exactly one line: it never reads beyond the LF,
\* and when it gives up there was none in what it consumed.
ReadsOneLine ==
    op = "readline" =>
        \A k \in 1 .. Len(Eaten) :
            kind[Eaten[k]] = "lf" <=> (pc = "idle" /\ ret = 1 /\ k = Len(Eaten))
=============================================================================
