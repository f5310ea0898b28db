-------------------------- MODULE Connection_proofs ---------------------------
(***************************************************************************)
(* Proofs about the two sides of a connection: the buffered reader, for any *)
(* size of the buffer, any stream of the peer and any sizes of the callers' *)
(* arrays, and the answer, for any file, any header and any socket.  The    *)
(* last part puts them together.                                            *)
(***************************************************************************)
EXTENDS Connection, SequenceTheorems, TLAPS

-----------------------------------------------------------------------------
(* The buffered reader *)

\* Which function may be where, and that the wire is read only when the buffer
\* is empty or the caller has enough.
Places ==
    /\ pc = "readline" => op = "readline"
    /\ pc \in {"copy", "wire", "wire_sleep"} => op # "readline"
    /\ pc \in {"wire", "wire_sleep"} => buffer_length = 0 \/ count = 0

\* The used part of the buffer is the stretch of the stream before taken.
BufferIsStream ==
    \A k \in 0 .. buffer_length - 1 : buffer[buffer_start + k] = Consumed + k + 1

\* What the call has copied: all it consumed, or for tcp_readline all of it but
\* CR and LF, in order.
DataInOrder ==
    /\ op # "readline" =>
          /\ Len(data) = Consumed - first
          /\ \A k \in 1 .. Len(data) : data[k] = first + k
    /\ op = "readline" =>
          /\ \A k \in 1 .. Len(data) : data[k] \in first + 1 .. Consumed /\ kind[data[k]] = "other"
          /\ \A k, m \in 1 .. Len(data) : k < m => data[k] < data[m]
          /\ \A b \in first + 1 .. Consumed :
                kind[b] = "other" => \E k \in 1 .. Len(data) : data[k] = b

\* ReadsOneLine, said of bytes and not of places.
LineEnds ==
    op = "readline" =>
        \A b \in first + 1 .. Consumed :
            kind[b] = "lf" <=> (pc = "idle" /\ ret = 1 /\ b = Consumed)

Within == first =< Consumed /\ Len(data) =< Consumed - first

IInv == TypeOK /\ Within /\ Places /\ BufferIsStream /\ DataInOrder /\ LineEnds

\* The steps of the peer and those that change neither buffer nor data.
Quiet ==
    /\ UNCHANGED <<kind, taken, tcp, op, data, first>>
    /\ pc = "idle" => UNCHANGED <<pc, ret>>
    /\ pc' = "idle" => pc = "idle" \/ ret' # 1 \/ op # "readline"

LEMMA QuietStep ==
    ASSUME IInv, Quiet
    PROVE  Within' /\ BufferIsStream' /\ DataInOrder' /\ LineEnds'
<1>1. Within' /\ BufferIsStream' /\ DataInOrder'
  BY DEF IInv, Quiet, tcp, Within, BufferIsStream, DataInOrder, Consumed
<1>2. LineEnds'
  BY DEF IInv, Quiet, tcp, LineEnds, Consumed
<1> QED  BY <1>1, <1>2

LEMMA InitHolds == Init => IInv
<1> SUFFICES ASSUME Init  PROVE IInv
  OBVIOUS
<1> USE SizesAssumption DEF Init
<1>1. TypeOK
  BY DEF TypeOK
<1>2. Within /\ Places /\ BufferIsStream /\ DataInOrder /\ LineEnds
  BY DEF Within, Places, BufferIsStream, DataInOrder, LineEnds, Consumed
<1> QED  BY <1>1, <1>2 DEF IInv

LEMMA StutterHolds == IInv /\ UNCHANGED vars => IInv'
  BY DEF IInv, vars, TypeOK, Within, Places, BufferIsStream, DataInOrder, LineEnds, Consumed

LEMMA PeerHolds == ASSUME IInv, Send \/ HangUp  PROVE IInv'
<1> USE SizesAssumption
<1> TypeOK /\ Places
  BY DEF IInv
<1>1. TypeOK'
  <2>1. CASE Send
    <3>1. arrived' \in 0 .. MaxBytes /\ taken \in 0 .. arrived'
      BY <2>1 DEF Send, TypeOK
    <3> QED  BY <2>1, <3>1 DEF Send, TypeOK, tcp
  <2>2. CASE HangUp
    BY <2>2 DEF HangUp, TypeOK, tcp
  <2> QED  BY <2>1, <2>2
<1>2. Places'
  BY DEF Send, HangUp, Places, tcp
<1>3. Quiet
  BY DEF Send, HangUp, Quiet, tcp
<1> QED  BY <1>1, <1>2, <1>3, QuietStep DEF IInv

LEMMA CallHolds ==
    ASSUME IInv, NEW o \in {"readline", "read", "avail"}, NEW n \in Counts, Call(o, n)
    PROVE  IInv'
<1> USE SizesAssumption DEF Call, socket, tcp
<1> TypeOK /\ Within /\ BufferIsStream
  BY DEF IInv
<1>0. Consumed' = Consumed /\ Consumed \in 0 .. MaxBytes
  BY DEF TypeOK, Within, Consumed
<1>1. TypeOK'
  BY <1>0 DEF TypeOK
<1>2. Within' /\ DataInOrder' /\ LineEnds'
  BY <1>0 DEF Within, DataInOrder, LineEnds
<1>3. Places' /\ BufferIsStream'
  BY <1>0 DEF Places, BufferIsStream
<1> QED  BY <1>1, <1>2, <1>3 DEF IInv

LEMMA FillReadsHolds == ASSUME IInv, FillReads  PROVE IInv'
<1> TypeOK /\ Within /\ Places /\ DataInOrder /\ LineEnds
  BY DEF IInv
<1>1. PICK n \in 1 .. BUFFER_SIZE : Delivers(n, BUFFER_SIZE) /\ Refill(n) /\ FillReturns(n)
  BY DEF FillReads
<1>2. n =< arrived - taken
  BY <1>1, SizesAssumption DEF Delivers, Smaller, TypeOK
<1>3. Consumed' = Consumed /\ buffer_start' = 0 /\ buffer_length' = n /\ taken' = taken + n
  BY <1>1 DEF FillReads, Refill, Consumed, TypeOK
<1>4. /\ pc' = (IF op = "readline" THEN "readline" ELSE "copy")
      /\ ret' = ret /\ chunk' = n
  BY <1>1 DEF FillReturns
<1>5. buffer' \in [0 .. BUFFER_SIZE - 1 -> 0 .. MaxBytes]
  BY <1>1, <1>2, SizesAssumption DEF Refill, TypeOK
<1>6. TypeOK'
  BY <1>2, <1>3, <1>4, <1>5, SizesAssumption DEF FillReads, TypeOK
<1>7. Places'
  BY <1>4 DEF FillReads, Places
<1>8. BufferIsStream'
  <2>1. \A k \in 0 .. n - 1 : buffer'[k] = taken + k + 1
    BY <1>1, SizesAssumption DEF Refill
  <2>2. Consumed' = taken
    BY <1>3 DEF FillReads, Consumed, TypeOK
  <2> QED  BY <1>3, <2>1, <2>2 DEF BufferIsStream
<1>9. Within' /\ DataInOrder'
  BY <1>3 DEF FillReads, Within, DataInOrder
<1>10. LineEnds'
  BY <1>3, <1>4 DEF FillReads, LineEnds
<1> QED  BY <1>6, <1>7, <1>8, <1>9, <1>10 DEF IInv

\* The other steps before the bytes are there.
LEMMA FillHolds == ASSUME IInv, FillReadsNothing \/ FillSleeps  PROVE IInv'
<1> USE SizesAssumption
<1> TypeOK /\ Within /\ Places /\ BufferIsStream /\ DataInOrder /\ LineEnds
  BY DEF IInv
<1>0. buffer_length =< MaxBytes
  BY DEF TypeOK, Within, Consumed
<1>1. CASE FillReadsNothing
  <2>1. Consumed' = Consumed /\ buffer_length' = buffer_length /\ buffer' = buffer
        /\ (buffer_length > 0 => buffer_start' = buffer_start)
        /\ buffer_start' \in Nat /\ buffer_start' + buffer_length =< BUFFER_SIZE
    BY <1>1, SizesAssumption DEF FillReadsNothing, TypeOK, socket, tcp, Consumed
  <2>2. chunk' \in -1 .. MaxBytes /\ ret' \in -1 .. MaxBytes
        /\ pc' \in {"idle", "readline", "copy"}
        /\ (pc' = "readline" => op = "readline") /\ (pc' = "copy" => op # "readline")
        /\ (pc' = "idle" => ret' =< 0)
    BY <1>0, <1>1, SizesAssumption DEF FillReadsNothing, FillReturns, TypeOK
  <2>3. TypeOK'
    BY <1>1, <2>1, <2>2 DEF FillReadsNothing, TypeOK, socket
  <2>4. Places'
    BY <1>1, <2>2 DEF FillReadsNothing, Places
  <2>5. BufferIsStream'
    <3>1. CASE buffer_length > 0
      BY <3>1, <2>1 DEF BufferIsStream
    <3>2. CASE buffer_length = 0
      BY <3>2, <2>1 DEF BufferIsStream
    <3> QED  BY <3>1, <3>2 DEF TypeOK
  <2>7. Within' /\ DataInOrder'
    BY <1>1, <2>1 DEF FillReadsNothing, socket, Within, DataInOrder
  <2>6. LineEnds'
    BY <1>1, <2>1, <2>2 DEF FillReadsNothing, socket, LineEnds
  <2> QED  BY <2>3, <2>4, <2>5, <2>6, <2>7 DEF IInv
<1>2. CASE FillSleeps
  <2>1. TypeOK' /\ Places'
    BY <1>2 DEF FillSleeps, TypeOK, Places, socket, tcp
  <2>2. Quiet
    BY <1>2 DEF FillSleeps, Quiet, socket, tcp
  <2> QED  BY <2>1, <2>2, QuietStep DEF IInv
<1> QED  BY <1>1, <1>2

LEMMA ReadlineByteHolds == ASSUME IInv, ReadlineByte  PROVE IInv'
<1> USE SizesAssumption
<1> DEFINE b == buffer[buffer_start]
<1> TypeOK /\ Within /\ Places /\ BufferIsStream /\ DataInOrder /\ LineEnds
  BY DEF IInv
<1>1. /\ pc = "readline" /\ op = "readline" /\ op' = op /\ count > 0 /\ buffer_length > 0
      /\ UNCHANGED <<kind, arrived, peer, taken, buffer, chunk, first>>
      /\ buffer_start' = buffer_start + 1 /\ buffer_length' = buffer_length - 1
  BY DEF ReadlineByte, Skip, socket, Places
<1>2. Consumed' = Consumed + 1 /\ Consumed \in Nat /\ first \in Nat
  BY <1>1 DEF Consumed, TypeOK, Within
<1>3. b = Consumed' /\ b \in Bytes
  <2>1. b = Consumed + 1
    <3>1. buffer[buffer_start + 0] = Consumed + 0 + 1
      BY <1>1 DEF BufferIsStream, TypeOK
    <3>2. buffer_start + 0 = buffer_start /\ Consumed + 0 + 1 = Consumed + 1
      BY <1>2 DEF TypeOK
    <3> QED  BY <3>1, <3>2
  <2>2. Consumed + 1 =< MaxBytes
    BY <1>1, SizesAssumption DEF Consumed, TypeOK
  <2> QED  BY <1>2, <2>1, <2>2, SizesAssumption DEF Bytes
<1>4. BufferIsStream'
  <2>1. \A k \in 0 .. buffer_length - 2 : buffer[buffer_start + (k + 1)] = Consumed + (k + 1) + 1
    BY <1>1 DEF BufferIsStream, TypeOK
  <2>2. \A k \in 0 .. buffer_length - 2 : buffer[(buffer_start + 1) + k] = (Consumed + 1) + k + 1
    BY <1>2, <2>1 DEF TypeOK
  <2>3. 0 .. buffer_length' - 1 = 0 .. buffer_length - 2
    BY <1>1 DEF TypeOK
  <2> QED  BY <1>1, <1>2, <2>2, <2>3 DEF BufferIsStream
<1> HIDE DEF b
<1>5. CASE kind[b] = "lf" /\ pc' = "idle" /\ ret' = 1 /\ UNCHANGED <<data, count>>
  <2>1. TypeOK'
    BY <1>1, <1>3, <1>5, SizesAssumption DEF TypeOK, Bytes
  <2>2. Places' /\ Within'
    BY <1>1, <1>2, <1>5 DEF Places, Within, TypeOK
  <2>3. DataInOrder'
    BY <1>1, <1>2, <1>3, <1>5 DEF DataInOrder, TypeOK
  <2>4. LineEnds'
    BY <1>1, <1>2, <1>3, <1>5 DEF LineEnds
  <2> QED  BY <1>4, <2>1, <2>2, <2>3, <2>4 DEF IInv
<1>6. CASE kind[b] = "cr" /\ UNCHANGED <<pc, ret, data, count>>
  <2>1. TypeOK'
    BY <1>1, <1>6 DEF TypeOK
  <2>2. Places' /\ Within'
    BY <1>1, <1>2, <1>6 DEF Places, Within, TypeOK
  <2>3. DataInOrder'
    BY <1>1, <1>2, <1>3, <1>6 DEF DataInOrder, TypeOK
  <2>4. LineEnds'
    BY <1>1, <1>2, <1>3, <1>6 DEF LineEnds
  <2> QED  BY <1>4, <2>1, <2>2, <2>3, <2>4 DEF IInv
<1>7. CASE /\ kind[b] = "other" /\ data' = Append(data, b) /\ count' = count - 1
           /\ UNCHANGED <<pc, ret>>
  <2>1. /\ data' \in Seq(Bytes) /\ Len(data') = Len(data) + 1
        /\ data'[Len(data) + 1] = b
        /\ \A k \in 1 .. Len(data) : data'[k] = data[k]
    BY <1>3, <1>7 DEF TypeOK
  <2>2. TypeOK'
    BY <1>1, <1>7, <2>1 DEF TypeOK
  <2>3. Places' /\ Within'
    BY <1>1, <1>2, <1>7, <2>1 DEF Places, Within, TypeOK
  <2>4. DataInOrder'
    <3> Len(data) \in Nat /\ kind' = kind /\ first' = first
      BY <1>1 DEF TypeOK
    <3>1. \A k \in 1 .. Len(data') :
             data'[k] \in first + 1 .. Consumed' /\ kind[data'[k]] = "other"
      BY <1>1, <1>2, <1>3, <1>7, <2>1 DEF DataInOrder, Within
    <3>2. \A k, m \in 1 .. Len(data') : k < m => data'[k] < data'[m]
      <4> SUFFICES ASSUME NEW k \in 1 .. Len(data'), NEW m \in 1 .. Len(data'), k < m
                   PROVE  data'[k] < data'[m]
        OBVIOUS
      <4>1. k \in 1 .. Len(data)
        BY <2>1
      <4>2. data'[k] = data[k] /\ data[k] \in first + 1 .. Consumed
        BY <4>1, <1>1, <2>1 DEF DataInOrder
      <4>3. CASE m = Len(data) + 1
        BY <4>2, <4>3, <1>2, <1>3, <2>1
      <4>4. CASE m # Len(data) + 1
        <5>1. m \in 1 .. Len(data) /\ data'[m] = data[m]
          BY <4>4, <2>1
        <5> QED  BY <4>1, <4>2, <5>1, <1>1 DEF DataInOrder
      <4> QED  BY <4>3, <4>4
    <3>3. \A x \in first + 1 .. Consumed' :
             kind[x] = "other" => \E k \in 1 .. Len(data') : data'[k] = x
      <4> SUFFICES ASSUME NEW x \in first + 1 .. Consumed', kind[x] = "other"
                   PROVE  \E k \in 1 .. Len(data') : data'[k] = x
        OBVIOUS
      <4>1. CASE x = Consumed'
        BY <4>1, <1>3, <2>1
      <4>2. CASE x # Consumed'
        <5>1. x \in first + 1 .. Consumed
          BY <4>2, <1>2
        <5>2. PICK k \in 1 .. Len(data) : data[k] = x
          BY <5>1, <1>1 DEF DataInOrder
        <5> QED  BY <5>2, <2>1
      <4> QED  BY <4>1, <4>2
    <3> QED  BY <1>1, <3>1, <3>2, <3>3 DEF DataInOrder
  <2>5. LineEnds'
    BY <1>1, <1>2, <1>3, <1>7 DEF LineEnds
  <2> QED  BY <1>4, <2>2, <2>3, <2>4, <2>5 DEF IInv
<1> QED  BY <1>5, <1>6, <1>7, <1>3 DEF ReadlineByte, EndsLine, TypeOK, b

LEMMA ReadlineHolds == ASSUME IInv, ReadlineFull \/ ReadlineFills  PROVE IInv'
<1> TypeOK /\ Places
  BY DEF IInv
<1>1. CASE ReadlineFull
  <2>1. /\ pc = "readline" /\ pc' = "idle" /\ ret' = 0
        /\ UNCHANGED <<kind, arrived, peer, taken, tcp, op, data, count, chunk, first>>
    BY <1>1 DEF ReadlineFull, socket
  <2>2. TypeOK'
    BY <2>1, SizesAssumption DEF TypeOK, tcp
  <2>3. Places' /\ Quiet
    BY <2>1 DEF Places, Quiet, tcp
  <2> QED  BY <2>2, <2>3, QuietStep DEF IInv
<1>2. CASE ReadlineFills
  <2>1. /\ pc = "readline" /\ pc' = "fill"
        /\ UNCHANGED <<kind, arrived, peer, taken, tcp, op, data, count, chunk, ret, first>>
    BY <1>2 DEF ReadlineFills, socket
  <2>2. TypeOK'
    BY <2>1 DEF TypeOK, tcp
  <2>3. Places' /\ Quiet
    BY <2>1 DEF Places, Quiet, tcp
  <2> QED  BY <2>2, <2>3, QuietStep DEF IInv
<1> QED  BY <1>1, <1>2

\* What tcp_read takes out of the buffer or off the wire continues its data.
LEMMA DataGoesOn ==
    ASSUME IInv, op # "readline", NEW n \in Nat, Consumed + n =< MaxBytes,
           data' = data \o [k \in 1 .. n |-> Consumed + k],
           Consumed' = Consumed + n,
           UNCHANGED <<kind, op, first>>
    PROVE  data' \in Seq(Bytes) /\ Within' /\ DataInOrder' /\ LineEnds'
<1> USE SizesAssumption
<1> DEFINE more == [k \in 1 .. n |-> Consumed + k]
<1> TypeOK /\ Within /\ DataInOrder
  BY DEF IInv
<1>1. Consumed \in Nat /\ first \in Nat /\ Len(data) = Consumed - first
  BY DEF TypeOK, Within, DataInOrder, Consumed
<1>2. more \in Seq(Bytes) /\ Len(more) = n /\ \A k \in 1 .. n : more[k] = Consumed + k
  BY <1>1, SizesAssumption DEF Bytes
<1> HIDE DEF more
<1>3. /\ data \o more \in Seq(Bytes) /\ Len(data \o more) = Len(data) + n
      /\ \A k \in 1 .. Len(data) + n :
            (data \o more)[k] = IF k =< Len(data) THEN data[k] ELSE more[k - Len(data)]
  <2>1. data \in Seq(Bytes) /\ more \in Seq(Bytes)
    BY <1>2 DEF TypeOK
  <2>2. /\ data \o more \in Seq(Bytes) /\ Len(data \o more) = Len(data) + Len(more)
        /\ \A k \in 1 .. Len(data) + Len(more) :
              (data \o more)[k] = IF k =< Len(data) THEN data[k] ELSE more[k - Len(data)]
    BY <2>1, ConcatProperties
  <2> QED  BY <1>2, <2>2
<1>4. data' = data \o more
  BY DEF more
<1>5. data' \in Seq(Bytes) /\ Len(data') = Len(data) + n
  BY <1>3, <1>4
<1>6. \A k \in 1 .. Len(data') : data'[k] = first + k
  <2> SUFFICES ASSUME NEW k \in 1 .. Len(data')  PROVE data'[k] = first + k
    OBVIOUS
  <2>1. CASE k =< Len(data)
    BY <2>1, <1>1, <1>3, <1>4, <1>5 DEF DataInOrder
  <2>2. CASE k > Len(data)
    <3>1. k - Len(data) \in 1 .. n
      BY <2>2, <1>1, <1>5
    <3>2. data'[k] = more[k - Len(data)]
      <4>1. k \in 1 .. Len(data) + n /\ ~ (k =< Len(data))
        BY <2>2, <1>1, <1>5
      <4> QED  BY <4>1, <1>3, <1>4
    <3> QED  BY <3>1, <3>2, <1>1, <1>2
  <2> QED  BY <2>1, <2>2, <1>1
<1>7. Within' /\ DataInOrder'
  BY <1>1, <1>5, <1>6 DEF Within, DataInOrder
<1>8. LineEnds'
  BY DEF LineEnds
<1> QED  BY <1>5, <1>7, <1>8

LEMMA CopyHolds == ASSUME IInv, Copy  PROVE IInv'
<1> USE SizesAssumption
<1> DEFINE n == Smaller(buffer_length, count)
<1> TypeOK /\ Within /\ Places /\ BufferIsStream
  BY DEF IInv
<1>1. n \in Nat /\ n =< buffer_length /\ n =< count /\ (n = buffer_length \/ n = count)
  BY DEF Smaller, TypeOK
<1>2. FromBuffer(n) = [k \in 1 .. n |-> Consumed + k]
  <2>1. \A k \in 1 .. n : k - 1 \in 0 .. buffer_length - 1
    BY <1>1 DEF TypeOK
  <2>2. \A k \in 1 .. n : buffer[buffer_start + (k - 1)] = Consumed + (k - 1) + 1
    BY <2>1 DEF BufferIsStream
  <2>3. \A k \in 1 .. n : buffer[buffer_start + k - 1] = Consumed + k
    BY <2>2, <1>1 DEF TypeOK, Consumed
  <2> QED  BY <2>3 DEF FromBuffer
<1> HIDE DEF n
<1>3. /\ pc = "copy" /\ pc' = "wire" /\ data' = data \o FromBuffer(n) /\ count' = count - n
      /\ buffer_start' = buffer_start + n /\ buffer_length' = buffer_length - n
      /\ chunk' \in {n, chunk}
      /\ UNCHANGED <<kind, arrived, peer, taken, buffer, op, ret, first>>
  BY DEF Copy, Skip, socket, n
<1>4. op # "readline"
  BY <1>3 DEF Places
<1>5. Consumed' = Consumed + n /\ Consumed + n =< MaxBytes
  BY <1>1, <1>3 DEF Consumed, TypeOK
<1>6. data' \in Seq(Bytes) /\ Within' /\ DataInOrder' /\ LineEnds'
  BY <1>1, <1>2, <1>3, <1>4, <1>5, DataGoesOn
<1>7. n =< MaxBytes
  BY <1>1, <1>5 DEF TypeOK, Within, Consumed
<1>8. TypeOK'
  BY <1>1, <1>3, <1>6, <1>7, SizesAssumption DEF TypeOK
<1>9. Places'
  BY <1>1, <1>3, <1>4 DEF Places, TypeOK
<1>10. BufferIsStream'
  <2>1. \A k \in 0 .. buffer_length - n - 1 :
           buffer[buffer_start + (n + k)] = Consumed + (n + k) + 1
    BY <1>1 DEF BufferIsStream, TypeOK
  <2>2. ASSUME NEW k \in 0 .. buffer_length - n - 1
        PROVE  buffer[(buffer_start + n) + k] = (Consumed + n) + k + 1
    <3>1. buffer[buffer_start + (n + k)] = Consumed + (n + k) + 1
      BY <2>1
    <3>2. /\ buffer_start + (n + k) = (buffer_start + n) + k
          /\ Consumed + (n + k) + 1 = (Consumed + n) + k + 1
      BY <1>1 DEF TypeOK, Consumed
    <3> QED  BY <3>1, <3>2
  <2>3. 0 .. buffer_length' - 1 = 0 .. buffer_length - n - 1
    BY <1>3
  <2> QED  BY <2>2, <2>3, <1>3, <1>5 DEF BufferIsStream
<1> QED  BY <1>6, <1>8, <1>9, <1>10 DEF IInv

LEMMA WireReadsHolds == ASSUME IInv, WireReads  PROVE IInv'
<1> USE SizesAssumption
<1> TypeOK /\ Within /\ Places /\ BufferIsStream
  BY DEF IInv
<1>1. PICK n \in 1 .. count : /\ Delivers(n, count)
                              /\ data' = data \o [k \in 1 .. n |-> taken + k]
                              /\ count' = count - n /\ taken' = taken + n /\ chunk' = n
  BY DEF WireReads
<1>2. n \in Nat /\ n =< count /\ n =< arrived - taken /\ count > 0
  BY <1>1 DEF Delivers, Smaller, TypeOK
<1>3. pc = "wire" /\ op # "readline" /\ buffer_length = 0
  BY <1>2 DEF WireReads, Places
<1>4. UNCHANGED <<kind, arrived, peer, buffer, buffer_start, buffer_length, pc, op, ret, first>>
  BY DEF WireReads, tcp
<1>5. Consumed = taken /\ Consumed' = Consumed + n /\ Consumed + n =< MaxBytes
  BY <1>1, <1>2, <1>3, <1>4 DEF Consumed, TypeOK
<1>6. data' \in Seq(Bytes) /\ Within' /\ DataInOrder' /\ LineEnds'
  BY <1>1, <1>2, <1>3, <1>4, <1>5, DataGoesOn
<1>7. TypeOK'
  BY <1>1, <1>2, <1>4, <1>5, <1>6, SizesAssumption DEF TypeOK
<1>8. Places' /\ BufferIsStream'
  BY <1>3, <1>4 DEF Places, BufferIsStream
<1> QED  BY <1>6, <1>7, <1>8 DEF IInv

LEMMA WireHolds ==
    ASSUME IInv, WireEnds \/ WireSleeps \/ Wake \/ TimeOut  PROVE IInv'
<1> TypeOK /\ Within /\ Places
  BY DEF IInv
<1>0. Len(data) \in 0 .. MaxBytes
  BY SizesAssumption DEF Within, Consumed, TypeOK
<1>1. CASE WireEnds
  <2>1. /\ pc = "wire" /\ pc' = "idle" /\ chunk' \in -1 .. MaxBytes
        /\ ret' \in -1 .. MaxBytes
    BY <1>0, <1>1, SizesAssumption DEF WireEnds, ReturnTotal, TypeOK
  <2>2. TypeOK' /\ Places' /\ Quiet
    BY <1>1, <2>1 DEF WireEnds, socket, tcp, TypeOK, Places, Quiet
  <2> QED  BY <2>2, QuietStep DEF IInv
<1>2. CASE WireSleeps \/ Wake
  <2>1. TypeOK' /\ Places' /\ Quiet
    BY <1>2 DEF WireSleeps, Wake, socket, tcp, TypeOK, Places, Quiet
  <2> QED  BY <2>1, QuietStep DEF IInv
<1>3. CASE TimeOut
  <2>1. /\ pc # "idle" /\ pc' = "idle" /\ chunk' \in -1 .. MaxBytes
        /\ ret' \in -1 .. MaxBytes /\ (op = "readline" => ret' # 1)
    BY <1>0, <1>3, SizesAssumption DEF TimeOut, FillReturns, ReturnTotal, TypeOK, Places
  <2>2. TypeOK' /\ Places' /\ Quiet
    BY <1>3, <2>1 DEF TimeOut, socket, tcp, TypeOK, Places, Quiet
  <2> QED  BY <2>2, QuietStep DEF IInv
<1> QED  BY <1>1, <1>2, <1>3

\* The inductive invariant: the buffer is the stretch of the stream behind what was
\* handed out, through every call of tcp.c:330-508 and every break in the wire.
THEOREM Invariant == Spec => []IInv
<1>1. IInv /\ [Next]_vars => IInv'
  BY StutterHolds, PeerHolds, CallHolds, FillReadsHolds, FillHolds, ReadlineByteHolds,
     ReadlineHolds, CopyHolds, WireReadsHolds, WireHolds DEF Next, CallStep
<1> QED  BY <1>1, InitHolds, PTL DEF Spec

\* The types of struct tcp and of the locals of the reading functions: the used
\* part of the buffer lies in its array, and no call returns more than there was.
THEOREM TypeCorrect == Spec => []TypeOK
<1>1. IInv => TypeOK
  BY DEF IInv
<1> QED  BY <1>1, Invariant, PTL

\* tcp_readline stops at the first LF and nowhere behind it.
THEOREM OneLine == Spec => []ReadsOneLine
<1>1. IInv => ReadsOneLine
  <2> SUFFICES ASSUME IInv, op = "readline", NEW k \in 1 .. Len(Eaten)
               PROVE  kind[Eaten[k]] = "lf" <=> (pc = "idle" /\ ret = 1 /\ k = Len(Eaten))
    BY DEF ReadsOneLine
  <2>1. Consumed \in Nat /\ first \in Nat /\ Consumed - first \in Nat
    BY DEF IInv, TypeOK, Within, Consumed
  <2>2. Len(Eaten) = Consumed - first /\ \A m \in 1 .. Consumed - first : Eaten[m] = first + m
    BY <2>1 DEF Eaten
  <2>3. Eaten[k] = first + k /\ first + k \in first + 1 .. Consumed
        /\ (first + k = Consumed <=> k = Len(Eaten))
    BY <2>1, <2>2
  <2> QED  BY <2>3 DEF IInv, LineEnds
<1> QED  BY <1>1, Invariant, PTL

\* tcp_read and tcp_read_avail give the bytes of the stream one by one, and
\* tcp_readline those that are neither CR nor LF: none lost, doubled or moved,
\* whichever function filled the buffer.
THEOREM StreamInOrder == Spec => []DataIsStream
<1>1. IInv => DataIsStream
  <2> SUFFICES ASSUME IInv  PROVE DataIsStream
    OBVIOUS
  <2> DEFINE next == {b \in first + 1 .. Consumed : op = "readline" => kind[b] = "other"}
  <2>0. /\ first \in Nat /\ Consumed \in Nat /\ Len(data) \in Nat /\ DOMAIN data = 1 .. Len(data)
    BY DEF IInv, TypeOK, Within, Consumed
  <2>1. CASE op # "readline"
    <3>1. Len(data) = Consumed - first /\ \A k \in 1 .. Len(data) : data[k] = first + k
      BY <2>1 DEF IInv, DataInOrder
    <3>2. \A k, m \in DOMAIN data : k < m => data[k] < data[m]
      BY <2>0, <3>1
    <3>3. ASSUME NEW b \in next  PROVE \E k \in DOMAIN data : b = data[k]
      <4>1. b - first \in 1 .. Len(data) /\ data[b - first] = b
        BY <2>0, <3>1, <3>3
      <4> QED  BY <2>0, <4>1
    <3>4. \A k \in DOMAIN data : data[k] \in next
      BY <2>0, <2>1, <3>1
    <3> QED  BY <3>2, <3>3, <3>4 DEF DataIsStream
  <2>2. CASE op = "readline"
    <3>1. /\ \A k \in 1 .. Len(data) : data[k] \in first + 1 .. Consumed /\ kind[data[k]] = "other"
          /\ \A k, m \in 1 .. Len(data) : k < m => data[k] < data[m]
          /\ \A b \in first + 1 .. Consumed :
                kind[b] = "other" => \E k \in 1 .. Len(data) : data[k] = b
      BY <2>2 DEF IInv, DataInOrder
    <3>2. \A b \in next : \E k \in DOMAIN data : b = data[k]
      BY <2>0, <2>2, <3>1
    <3>3. \A k \in DOMAIN data : data[k] \in next
      BY <2>0, <2>2, <3>1
    <3> QED  BY <2>0, <3>1, <3>2, <3>3 DEF DataIsStream
  <2> QED  BY <2>1, <2>2
<1> QED  BY <1>1, Invariant, PTL

-----------------------------------------------------------------------------
(* The answer *)

AnswerSpec == AnswerInit /\ [][AnswerNext]_answer

\* A piece and a place in it.
AnswerByte == (Nat \ {0}) \X (Nat \ {0})

AnswerType ==
    /\ pieces \in Seq(Nat \ {0}) /\ Len(pieces) >= Lines
    /\ piece \in 1 .. Len(pieces) /\ total \in 0 .. pieces[piece]
    /\ at \in {"write", "sleep", "short", "whole", "closed"}
    /\ wire \in Seq(AnswerByte)
    /\ queued \in Nat
    /\ client \in {"open", "reset"}

\* Nothing on the wire is ahead of what tcp_write has written.
NotAhead ==
    \A k \in 1 .. Len(wire) :
        wire[k][1] =< piece /\ (wire[k][1] = piece => wire[k][2] =< total)

\* In the file, the last byte on the wire is the one before the next: the piece
\* before was written whole.
Last == wire[Len(wire)]

Joined ==
    /\ piece > Lines /\ total > 0 => wire # <<>> /\ Last = <<piece, total>>
    /\ piece > Lines + 1 /\ total = 0 =>
           wire # <<>> /\ Last = <<piece - 1, pieces[piece - 1]>>

AnswerInv ==
    /\ AnswerType /\ NotAhead /\ Joined /\ BodyIsPrefix
    /\ at = "whole" => total = pieces[piece]

LEMMA AnswerInitHolds == AnswerInit => AnswerInv
<1> SUFFICES ASSUME AnswerInit  PROVE AnswerInv
  OBVIOUS
<1>1. PICK n \in 0 .. MaxBlocks : pieces \in [1 .. Lines + n -> Lengths]
  BY DEF AnswerInit
<1>2. pieces \in Seq(Nat \ {0}) /\ Len(pieces) = Lines + n /\ Lines + n \in Nat \ {0}
  <2>1. pieces \in [1 .. Lines + n -> Nat \ {0}] /\ Lines + n \in Nat \ {0}
    <3>1. Lengths \subseteq Nat \ {0} /\ Lines \in Nat \ {0} /\ n \in Nat
      BY AnswerAssumption
    <3>2. Lines + n \in Nat \ {0}
      BY <3>1
    <3> DEFINE m == Lines + n
    <3>3. pieces \in [1 .. m -> Lengths]
      BY <1>1
    <3> HIDE DEF m
    <3>4. pieces \in [1 .. m -> Nat \ {0}]
      BY <3>1, <3>3
    <3> QED  BY <3>2, <3>4 DEF m
  <2> QED  BY <2>1, SeqDef, LenProperties
<1>3. pieces[1] \in Nat
  BY <1>2
<1>4. AnswerType
  BY <1>2, <1>3, AnswerAssumption DEF AnswerInit, AnswerType
<1>5. NotAhead /\ Joined /\ BodyIsPrefix /\ at # "whole"
  BY AnswerAssumption DEF AnswerInit, NotAhead, Joined, BodyIsPrefix
<1> QED  BY <1>4, <1>5 DEF AnswerInv

\* The steps that write nothing and stay at the piece.
LEMMA SamePiece ==
    ASSUME AnswerInv, UNCHANGED <<pieces, piece, total, wire>>,
           at' \in {"write", "sleep", "short", "whole", "closed"},
           queued' \in Nat, client' \in {"open", "reset"},
           at' = "whole" => total = pieces[piece]
    PROVE  AnswerInv'
<1>1. AnswerType'
  BY DEF AnswerInv, AnswerType
<1>2. NotAhead' /\ Joined' /\ BodyIsPrefix'
  BY DEF AnswerInv, NotAhead, Joined, Last, BodyIsPrefix, Before
<1> QED  BY <1>1, <1>2 DEF AnswerInv

LEMMA Behind ==
    \A m, n \in Nat : \A k \in 1 .. m + n : k > m => \E j \in 1 .. n : k = m + j
<1> TAKE m, n \in Nat
<1> TAKE k \in 1 .. m + n
<1>1. k > m => k - m \in 1 .. n /\ k = m + (k - m)
  OBVIOUS
<1> QED  BY <1>1

LEMMA WriteSomeHolds == ASSUME AnswerInv, WriteSome  PROVE AnswerInv'
<1> AnswerType /\ NotAhead /\ Joined /\ BodyIsPrefix
  BY DEF AnswerInv
<1>0. Lines \in Nat \ {0}
  BY AnswerAssumption
<1>1. PICK n \in 1 .. left : Takes(n)
  BY DEF WriteSome
<1> DEFINE new == Part(piece, total, total + n)
<1>2. /\ pieces[piece] \in Nat \ {0} /\ piece \in Nat \ {0} /\ total \in Nat
      /\ n \in Nat \ {0} /\ total + n =< pieces[piece]
  BY DEF AnswerType, left
<1>3. /\ wire' = wire \o new /\ total' = total + n /\ queued' = queued + n
      /\ at' = "write" /\ UNCHANGED <<pieces, piece, client>>
  BY <1>1 DEF WriteSome, Takes
<1>4. /\ new \in Seq(AnswerByte) /\ Len(new) = n
      /\ \A k \in 1 .. n : new[k] = <<piece, total + k>>
  BY <1>2 DEF Part, AnswerByte
<1> HIDE DEF new
<1>5. /\ wire' \in Seq(AnswerByte) /\ Len(wire') = Len(wire) + n
      /\ Len(wire) \in Nat /\ DOMAIN wire' = 1 .. Len(wire) + n /\ DOMAIN wire = 1 .. Len(wire)
      /\ \A k \in 1 .. Len(wire) : wire'[k] = wire[k]
      /\ \A k \in 1 .. n : wire'[Len(wire) + k] = <<piece, total + k>>
  <2>1. wire \in Seq(AnswerByte)
    BY DEF AnswerType
  <2>2. /\ wire' \in Seq(AnswerByte) /\ Len(wire') = Len(wire) + n
        /\ \A k \in 1 .. Len(wire) + n :
              wire'[k] = IF k =< Len(wire) THEN wire[k] ELSE new[k - Len(wire)]
    BY <2>1, <1>3, <1>4, ConcatProperties
  <2>3. Len(wire) \in Nat /\ DOMAIN wire' = 1 .. Len(wire) + n /\ DOMAIN wire = 1 .. Len(wire)
    BY <2>1, <2>2
  <2>4. \A k \in 1 .. Len(wire) : wire'[k] = wire[k]
    BY <1>2, <2>2, <2>3
  <2>5. ASSUME NEW k \in 1 .. n  PROVE wire'[Len(wire) + k] = <<piece, total + k>>
    <3>1. /\ Len(wire) + k \in 1 .. Len(wire) + n /\ ~ (Len(wire) + k =< Len(wire))
          /\ Len(wire) + k - Len(wire) = k
      BY <1>2, <2>3
    <3>2. wire'[Len(wire) + k] = new[k]
      BY <2>2, <3>1
    <3> QED  BY <3>2, <1>4
  <2> QED  BY <2>2, <2>3, <2>4, <2>5
<1>6. AnswerType'
  BY <1>2, <1>3, <1>5 DEF AnswerType
<1>7. NotAhead'
  <2> SUFFICES ASSUME NEW k \in 1 .. Len(wire')
               PROVE  wire'[k][1] =< piece /\ (wire'[k][1] = piece => wire'[k][2] =< total + n)
    BY <1>3 DEF NotAhead
  <2>0. Len(wire) \in Nat /\ n \in Nat /\ k \in 1 .. Len(wire) + n
    BY <1>2, <1>5
  <2>1. CASE k =< Len(wire)
    <3>1. k \in 1 .. Len(wire) /\ wire'[k] = wire[k] /\ wire[k] \in AnswerByte
      BY <2>1, <1>5 DEF AnswerType
    <3>2. wire[k][1] \in Nat /\ wire[k][2] \in Nat
      BY <3>1 DEF AnswerByte
    <3>3. wire[k][1] =< piece /\ (wire[k][1] = piece => wire[k][2] =< total)
      BY <3>1 DEF NotAhead
    <3> QED  BY <3>1, <3>2, <3>3, <1>2
  <2>2. CASE k > Len(wire)
    <3>1. PICK j \in 1 .. n : k = Len(wire) + j
      BY <2>2, <2>0, Behind
    <3>2. wire'[k] = <<piece, total + j>>
      BY <3>1, <1>5
    <3> QED  BY <3>1, <3>2, <1>2
  <2> QED  BY <2>1, <2>2, <1>5
<1>8. Joined'
  <2>1. wire' # <<>> /\ wire'[Len(wire')] = <<piece, total + n>>
    BY <1>2, <1>5
  <2> QED  BY <2>1, <1>2, <1>3 DEF Joined, Last
<1>9. BodyIsPrefix'
  <2> SUFFICES ASSUME NEW k \in 1 .. Len(wire) + n, wire'[k][1] > Lines
               PROVE  IF wire'[k] = <<Lines + 1, 1>>
                      THEN \A j \in 1 .. k - 1 : wire'[j][1] =< Lines
                      ELSE k > 1 /\ wire'[k - 1] = Before(wire'[k])
    BY <1>3, <1>5 DEF BodyIsPrefix, Before
  <2>0. Len(wire) \in Nat /\ n \in Nat /\ k \in 1 .. Len(wire) + n
    BY <1>2, <1>5
  <2>1. CASE k =< Len(wire)
    <3>1. k \in DOMAIN wire /\ \A j \in 1 .. k : wire'[j] = wire[j]
      BY <2>1, <1>5
    <3>2. wire[k][1] > Lines
      BY <3>1, <1>5
    <3>3. IF wire[k] = <<Lines + 1, 1>>
          THEN \A j \in 1 .. k - 1 : wire[j][1] =< Lines
          ELSE k > 1 /\ wire[k - 1] = Before(wire[k])
      BY <3>1, <3>2 DEF BodyIsPrefix
    <3>4. \A j \in 1 .. k - 1 : j \in 1 .. k
      OBVIOUS
    <3>5. k > 1 => k - 1 \in 1 .. k
      OBVIOUS
    <3>6. wire'[k] = wire[k]
      BY <3>1
    <3> QED  BY <3>1, <3>3, <3>4, <3>5, <3>6
  <2>2. CASE k > Len(wire)
    <3>1. PICK j \in 1 .. n : k = Len(wire) + j
      BY <2>2, <2>0, Behind
    <3>0. Len(wire) \in Nat /\ j \in Nat /\ 1 =< j
      BY <1>2, <1>5
    <3>2. wire'[k] = <<piece, total + j>> /\ piece > Lines
      <4>1. wire'[k] = <<piece, total + j>>
        BY <3>1, <1>5
      <4> QED  BY <4>1
    <3>3. CASE j > 1
      <4>0. j - 1 \in 1 .. n /\ k - 1 = Len(wire) + (j - 1)
        BY <3>0, <3>1, <3>3
      <4>1. wire'[k - 1] = <<piece, total + j - 1>>
        BY <4>0, <1>2, <1>5
      <4>2. wire'[k] # <<Lines + 1, 1>> /\ Before(wire'[k]) = <<piece, total + j - 1>>
        BY <3>2, <3>3, <1>2 DEF Before
      <4> QED  BY <3>0, <3>1, <3>3, <4>1, <4>2
    <3>4. CASE j = 1 /\ total > 0
      <4>1. Len(wire) > 0 /\ wire[Len(wire)] = <<piece, total>>
        BY <3>2, <3>4 DEF Joined, Last, AnswerType
      <4>2. wire'[k - 1] = <<piece, total>>
        <5>1. k - 1 = Len(wire) /\ Len(wire) \in 1 .. Len(wire)
          BY <3>0, <3>1, <3>4, <4>1
        <5> QED  BY <5>1, <4>1, <1>5
      <4>3. wire'[k] # <<Lines + 1, 1>> /\ Before(wire'[k]) = <<piece, total>>
        BY <3>2, <3>4, <1>2 DEF Before
      <4> QED  BY <3>0, <3>1, <3>4, <4>1, <4>2, <4>3
    <3>5. CASE j = 1 /\ total = 0 /\ piece > Lines + 1
      <4>1. Len(wire) > 0 /\ wire[Len(wire)] = <<piece - 1, pieces[piece - 1]>>
        BY <3>2, <3>5, EmptySeq DEF Joined, Last, AnswerType
      <4>2. wire'[k - 1] = <<piece - 1, pieces[piece - 1]>>
        <5>1. k - 1 = Len(wire) /\ Len(wire) \in 1 .. Len(wire)
          BY <3>0, <3>1, <3>5, <4>1
        <5> QED  BY <5>1, <4>1, <1>5
      <4>3. wire'[k] # <<Lines + 1, 1>>
            /\ Before(wire'[k]) = <<piece - 1, pieces[piece - 1]>>
        BY <3>2, <3>5, <1>2 DEF Before
      <4> QED  BY <3>0, <3>1, <3>5, <4>1, <4>2, <4>3
    <3>6. CASE j = 1 /\ total = 0 /\ piece = Lines + 1
      <4>1. wire'[k] = <<Lines + 1, 1>>
        BY <3>2, <3>6
      <4>2. ASSUME NEW i \in 1 .. Len(wire)  PROVE wire[i][1] =< Lines
        <5>1. wire[i] \in AnswerByte
          BY DEF AnswerType
        <5>2. wire[i][1] \in Nat /\ wire[i][2] \in Nat \ {0}
          BY <5>1 DEF AnswerByte
        <5>3. wire[i][1] =< piece /\ (wire[i][1] = piece => wire[i][2] =< total)
          BY DEF NotAhead
        <5> QED  BY <5>2, <5>3, <3>6, <1>0
      <4>3. \A i \in 1 .. k - 1 : wire'[i][1] =< Lines
        <5>1. k - 1 = Len(wire)
          BY <3>0, <3>1, <3>6
        <5> QED  BY <5>1, <4>2, <1>5
      <4> QED  BY <4>1, <4>3
    <3> QED  BY <3>0, <3>2, <3>3, <3>4, <3>5, <3>6, <1>0, <1>2
  <2> QED  BY <2>1, <2>2, <1>5
<1> QED  BY <1>3, <1>6, <1>7, <1>8, <1>9 DEF AnswerInv

LEMMA NextPieceHolds == ASSUME AnswerInv, NextPiece  PROVE AnswerInv'
<1> USE AnswerAssumption
<1> AnswerType /\ NotAhead /\ Joined /\ BodyIsPrefix
  BY DEF AnswerInv
<1>1. /\ piece' = piece + 1 /\ piece' \in 1 .. Len(pieces) /\ total' = 0 /\ at' = "write"
      /\ UNCHANGED <<pieces, wire, queued, client>>
  BY DEF NextPiece, AnswerType
<1>2. piece \in Nat \ {0} /\ pieces[piece] \in Nat \ {0} /\ pieces[piece + 1] \in Nat \ {0}
  BY <1>1 DEF AnswerType
<1>3. AnswerType'
  BY <1>1, <1>2 DEF AnswerType
<1>4. NotAhead'
  <2> SUFFICES ASSUME NEW k \in 1 .. Len(wire)
               PROVE  wire[k][1] =< piece + 1 /\ wire[k][1] # piece + 1
    BY <1>1 DEF NotAhead
  <2>1. wire[k] \in AnswerByte
    BY DEF AnswerType
  <2>2. wire[k][1] \in Nat
    BY <2>1 DEF AnswerByte
  <2>3. wire[k][1] =< piece
    BY DEF NotAhead
  <2> QED  BY <2>2, <2>3, <1>2
<1>5. Joined'
  <2>1. piece > Lines => total = pieces[piece]
    BY DEF NextPiece, GoesOn, InHeader, AnswerInv, AnswerType
  <2>2. piece > Lines => wire # <<>> /\ Last = <<piece, pieces[piece]>>
    BY <2>1, <1>2 DEF Joined
  <2> QED  BY <2>2, <1>1, <1>2 DEF Joined, Last
<1>6. BodyIsPrefix'
  BY <1>1 DEF BodyIsPrefix, Before
<1> QED  BY <1>1, <1>3, <1>4, <1>5, <1>6 DEF AnswerInv

\* The inductive invariant of the answer.
LEMMA AnswerStep == AnswerInv /\ [AnswerNext]_answer => AnswerInv'
<1> SUFFICES ASSUME AnswerInv, [AnswerNext]_answer  PROVE AnswerInv'
  OBVIOUS
<1> USE DEF AnswerInv, AnswerType
<1>1. CASE Drain
  BY <1>1, SamePiece DEF Drain
<1>2. CASE Reset
  BY <1>2, SamePiece DEF Reset
<1>3. CASE WriteSome
  BY <1>3, WriteSomeHolds
<1>4. CASE WriteBlocks \/ SleepEnds \/ SleepTimesOut \/ Close
  BY <1>4, SamePiece DEF WriteBlocks, SleepEnds, SleepTimesOut, Close
<1>5. CASE WriteEnds
  <2>1. at' = "whole" => total = pieces[piece]
    BY <1>5 DEF WriteEnds, left
  <2> QED  BY <1>5, <2>1, SamePiece DEF WriteEnds
<1>6. CASE NextPiece
  BY <1>6, NextPieceHolds
<1>7. CASE UNCHANGED answer
  BY <1>7, SamePiece DEF answer
<1> QED  BY <1>1, <1>2, <1>3, <1>4, <1>5, <1>6, <1>7 DEF AnswerNext, Answer

\* However slow the client is and wherever it goes, the file is on the wire from
\* its beginning and without a hole, behind the header: request_handle stops at
\* the first block that tcp_write did not write whole.
THEOREM FileWithoutHole == AnswerSpec => []BodyIsPrefix
<1>1. AnswerInv => BodyIsPrefix
  BY DEF AnswerInv
<1> QED  BY <1>1, AnswerInitHolds, AnswerStep, PTL DEF AnswerSpec

-----------------------------------------------------------------------------
(* The connection *)

\* A behaviour looks at one side, so each side does what its own specification
\* says, or nothing.
LEMMA EachSide == ConnectionSpec => Spec /\ AnswerSpec
<1>1. ConnectionInit => Init /\ AnswerInit
  BY DEF ConnectionInit
<1>2. [ConnectionNext]_connection => [Next]_vars /\ [AnswerNext]_answer
  BY DEF ConnectionNext, connection
<1> QED  BY <1>1, <1>2, PTL DEF ConnectionSpec, Spec, AnswerSpec

\* The callers of the reading functions get the stream, tcp_readline one line of
\* it, and the client the beginning of the file, on every connection.
THEOREM BothSides == ConnectionSpec => [](TypeOK /\ DataIsStream /\ ReadsOneLine /\ BodyIsPrefix)
BY EachSide, TypeCorrect, StreamInOrder, OneLine, FileWithoutHole, PTL
=============================================================================
