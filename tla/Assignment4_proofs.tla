-------------------------- MODULE Assignment4_proofs --------------------------
(***************************************************************************)
(* Proofs about the two programs of threads.  The producer and consumer,    *)
(* for any buffer of at least two cells and any number of items: the        *)
(* consumer gets what the producer put, in order; nobody sleeps on work;    *)
(* and the buffer is a FIFO queue.  The readers-writers lock, for any       *)
(* number of readers and writers: a writer is alone inside, and with one    *)
(* writer no wakeup is lost.                                                *)
(***************************************************************************)
EXTENDS BoundedBuffer, RWLock, FiniteSetTheorems, TLAPS

-----------------------------------------------------------------------------
(* The producer and the consumer *)

Positions == 0 .. BUFFER_SIZE - 1

\* The cell that is k cells behind position p, around the end of the buffer.
Cell(p, k) == IF p + k < BUFFER_SIZE THEN p + k ELSE p + k - BUFFER_SIZE

LEMMA CellIsMod ==
    ASSUME NEW p \in Positions, NEW k \in 0 .. BUFFER_SIZE
    PROVE  (p + k) % BUFFER_SIZE = Cell(p, k) /\ Cell(p, k) \in Positions
<1> USE BufferAssumption DEF Positions, Cell
<1>1. CASE p + k < BUFFER_SIZE
  BY <1>1
<1>2. CASE p + k >= BUFFER_SIZE
  <2>1. p + k - BUFFER_SIZE \in 0 .. BUFFER_SIZE - 1
    BY <1>2
  <2>2. (p + k) % BUFFER_SIZE = (p + k - BUFFER_SIZE) % BUFFER_SIZE
    BY <1>2
  <2> QED  BY <1>2, <2>1, <2>2
<1> QED  BY <1>1, <1>2

\* Advance is the next cell, and the one behind it after k more.
LEMMA AdvanceIsCell ==
    ASSUME NEW p \in Positions, NEW k \in 0 .. BUFFER_SIZE - 1
    PROVE  /\ Advance(p) = Cell(p, 1) /\ Advance(p) \in Positions
           /\ Cell(Advance(p), k) = Cell(p, k + 1)
           /\ (p + 1) % BUFFER_SIZE = Advance(p)
<1> USE BufferAssumption
<1>1. (p + 1) % BUFFER_SIZE = Cell(p, 1) /\ Cell(p, 1) \in Positions
  BY CellIsMod
<1>2. p \in Nat /\ k \in Nat /\ p < BUFFER_SIZE /\ k < BUFFER_SIZE /\ BUFFER_SIZE \in Nat
  BY DEF Positions
<1>3. Advance(p) = Cell(p, 1)
  BY <1>2 DEF Advance, Cell
<1>4. Cell(Advance(p), k) = Cell(p, k + 1)
  BY <1>2 DEF Advance, Cell
<1> QED  BY <1>1, <1>3, <1>4

\* The buffer holds what was put and not yet got, oldest first.
Holding ==
    /\ gets =< n /\ n - gets = Used
    /\ \A k \in 0 .. Used - 1 : buffer[Cell(readpos, k)] = Nth(gets + k)

\* A thread is done when it has put, or has got, OVER.
DoneExact ==
    /\ producer = "done" <=> n = Items + 1
    /\ consumer = "done" <=> gets = Items + 1

IInv == TypeOK /\ Holding /\ DoneExact /\ InOrder /\ NoLostWakeup

LEMMA UsedRange ==
    ASSUME readpos \in Positions, writepos \in Positions
    PROVE  /\ Used \in 0 .. BUFFER_SIZE - 1
           /\ writepos = Cell(readpos, Used)
           /\ notfull <=> Used < BUFFER_SIZE - 1
           /\ notempty <=> Used > 0
BY BufferAssumption, AdvanceIsCell
DEF Used, Cell, Positions, notfull, notempty, Advance

LEMMA InitHolds == ASSUME Init  PROVE IInv
BY BufferAssumption, ItemsAssumption
DEF Init, IInv, TypeOK, Holding, DoneExact, InOrder, NoLostWakeup, Used

LEMMA PutKeeps == ASSUME IInv, put  PROVE IInv'
<1> USE BufferAssumption, ItemsAssumption
<1>0. TypeOK /\ Holding /\ DoneExact /\ InOrder /\ NoLostWakeup
      /\ readpos \in Positions /\ writepos \in Positions
  BY DEF IInv, TypeOK, Positions
<1>1. n =< Items /\ item = Nth(n)
  BY <1>0 DEF put, DoneExact, TypeOK, item, Nth
<1>2. Used' = Used + 1 /\ writepos' \in Positions
  BY <1>0, AdvanceIsCell DEF put, notfull, Used, Advance, Positions
<1>3. TypeOK'
  BY <1>0, <1>1, <1>2 DEF put, TypeOK, item, OVER, Signalled, Positions
<1>4. Holding'
  <2>1. gets' =< n' /\ n' - gets' = Used'
    BY <1>0, <1>2 DEF put, Holding, TypeOK
  <2>2. ASSUME NEW k \in 0 .. Used' - 1
        PROVE  buffer'[Cell(readpos', k)] = Nth(gets' + k)
    <3>1. k \in 0 .. Used /\ Used \in 0 .. BUFFER_SIZE - 1
          /\ writepos = Cell(readpos, Used)
      BY <2>2, <1>0, <1>2, UsedRange
    <3>2. Cell(readpos, k) \in Positions
      BY <1>0, <3>1, CellIsMod
    <3>3. CASE k = Used
      BY <1>0, <1>1, <3>1, <3>2, <3>3 DEF put, TypeOK, Holding, Positions
    <3>4. CASE k < Used
      <4>1. Cell(readpos, k) # writepos
        BY <1>0, <3>1, <3>4 DEF Cell, Positions
      <4> QED  BY <1>0, <3>1, <3>2, <3>4, <4>1 DEF put, TypeOK, Holding, Positions
    <3> QED  BY <3>1, <3>3, <3>4
  <2> QED  BY <2>1, <2>2 DEF Holding
<1>5. DoneExact' /\ InOrder' /\ NoLostWakeup'
  BY <1>0, <1>1
  DEF put, DoneExact, InOrder, NoLostWakeup, TypeOK, item, OVER, Signalled
<1> QED  BY <1>3, <1>4, <1>5 DEF IInv

LEMMA GetKeeps == ASSUME IInv, get  PROVE IInv'
<1> USE BufferAssumption, ItemsAssumption
<1>0. TypeOK /\ Holding /\ DoneExact /\ InOrder /\ NoLostWakeup
      /\ readpos \in Positions /\ writepos \in Positions
  BY DEF IInv, TypeOK, Positions
<1>1. Used > 0 /\ Used \in 0 .. BUFFER_SIZE - 1
  BY <1>0, UsedRange DEF get
<1>2. Cell(readpos, 0) = readpos
  BY <1>0 DEF Cell, Positions
<1>3. d' = Nth(gets) /\ gets < n
  BY <1>0, <1>1, <1>2 DEF get, Holding, TypeOK
<1>4. Used' = Used - 1 /\ readpos' \in Positions
  BY <1>0, AdvanceIsCell DEF get, notempty, Used, Advance, Positions
<1>5. TypeOK'
  BY <1>0, <1>3, <1>4 DEF get, TypeOK, Nth, OVER, Signalled, Positions
<1>6. Holding'
  <2>1. gets' =< n' /\ n' - gets' = Used'
    BY <1>0, <1>3, <1>4 DEF get, Holding, TypeOK
  <2>2. ASSUME NEW k \in 0 .. Used' - 1
        PROVE  buffer'[Cell(readpos', k)] = Nth(gets' + k)
    <3>1. k + 1 \in 0 .. Used - 1 /\ k \in 0 .. BUFFER_SIZE - 1
      BY <2>2, <1>1, <1>4
    <3>2. Cell(readpos', k) = Cell(readpos, k + 1)
      BY <1>0, <3>1, AdvanceIsCell DEF get
    <3> QED  BY <1>0, <3>1, <3>2 DEF get, Holding, TypeOK
  <2> QED  BY <2>1, <2>2 DEF Holding
<1>7. DoneExact' /\ InOrder' /\ NoLostWakeup'
  BY <1>0, <1>3
  DEF get, DoneExact, InOrder, NoLostWakeup, TypeOK, Nth, OVER, Signalled
<1> QED  BY <1>5, <1>6, <1>7 DEF IInv

\* The steps that only move a thread between run, blocked and woken.
LEMMA OthersKeep ==
    ASSUME IInv,
           ProducerBlocks \/ ConsumerBlocks \/ SpuriousWakeup \/ UNCHANGED vars
    PROVE  IInv'
<1>1. /\ UNCHANGED <<buffer, readpos, writepos, n, d, gets>>
      /\ Used' = Used /\ (notfull <=> notfull') /\ (notempty <=> notempty')
  BY DEF ProducerBlocks, ConsumerBlocks, SpuriousWakeup, vars, Used, notfull, notempty
<1>2. TypeOK' /\ DoneExact' /\ NoLostWakeup'
  BY <1>1
  DEF IInv, ProducerBlocks, ConsumerBlocks, SpuriousWakeup, vars, TypeOK, DoneExact,
      NoLostWakeup
<1>3. Holding' /\ InOrder'
  BY <1>1 DEF IInv, Holding, InOrder
<1> QED  BY <1>2, <1>3 DEF IInv

\* The inductive invariant.
THEOREM Invariant == Spec => []IInv
<1>1. IInv /\ [Next]_vars => IInv'
  BY PutKeeps, GetKeeps, OthersKeep DEF Next, Producer, Consumer, Finished
<1> QED  BY InitHolds, <1>1, PTL DEF Spec

\* Types: put and get (ProCon.c:29, 53) keep the positions inside the buffer and
\* the cells items, for every size and number of items.
THEOREM TypeCorrect == Spec => []TypeOK
<1>1. IInv => TypeOK
  BY DEF IInv
<1> QED  BY Invariant, <1>1, PTL

\* Every get returns what the put of the same number stored.
THEOREM GetsInOrder == Spec => []InOrder
<1>1. IInv => InOrder
  BY DEF IInv
<1> QED  BY Invariant, <1>1, PTL

\* No thread waits on the condition variable while its condition holds.
THEOREM WakeupsSuffice == Spec => []NoLostWakeup
<1>1. IInv => NoLostWakeup
  BY DEF IInv
<1> QED  BY Invariant, <1>1, PTL

-----------------------------------------------------------------------------
(* The buffer implements the FIFO queue.                                     *)

InCells ==
    /\ Queue \in Seq(Int) /\ Len(Queue) = Used /\ Used \in 0 .. BUFFER_SIZE - 1
    /\ \A k \in 1 .. Used : Queue[k] = buffer[Cell(readpos, k - 1)]

LEMMA QueueCells == TypeOK => InCells
<1> SUFFICES ASSUME TypeOK  PROVE InCells
  OBVIOUS
<1> USE BufferAssumption
<1>1. Used \in 0 .. BUFFER_SIZE - 1 /\ readpos \in Positions
  BY UsedRange DEF TypeOK, Positions
<1>2. ASSUME NEW k \in 1 .. Used
      PROVE  /\ (readpos + k - 1) % BUFFER_SIZE = Cell(readpos, k - 1)
             /\ Cell(readpos, k - 1) \in Positions
  <2>1. k - 1 \in 0 .. BUFFER_SIZE /\ readpos + k - 1 = readpos + (k - 1)
    BY <1>1 DEF Positions
  <2> QED  BY <1>1, <2>1, CellIsMod
<1>3. \A k \in 1 .. Used : Queue[k] = buffer[Cell(readpos, k - 1)] /\ Queue[k] \in Int
  BY <1>2 DEF Queue, TypeOK, Positions
<1>4. Queue \in Seq(Int) /\ Len(Queue) = Used
  BY <1>1, <1>3 DEF Queue
<1> QED  BY <1>1, <1>3, <1>4 DEF InCells

LEMMA PutAppends ==
    ASSUME IInv, IInv', put
    PROVE  Len(Queue) < BUFFER_SIZE - 1 /\ Queue' = Append(Queue, item)
<1> USE BufferAssumption
<1>0. TypeOK /\ readpos \in Positions /\ writepos \in Positions
  BY DEF IInv, TypeOK, Positions
<1>c. InCells /\ InCells'
  <2>1. TypeOK' => InCells'
    BY QueueCells, PTL
  <2> QED  BY <2>1, QueueCells DEF IInv
<1>1. Used' = Used + 1 /\ Used < BUFFER_SIZE - 1 /\ writepos = Cell(readpos, Used)
  BY <1>0, UsedRange, AdvanceIsCell DEF put, notfull, Used, Advance, Positions
<1>2. /\ Queue' \in Seq(Int) /\ Len(Queue') = Used + 1
      /\ \A k \in 1 .. Used + 1 : Queue'[k] = buffer'[Cell(readpos, k - 1)]
  BY <1>0, <1>1, <1>c DEF put, InCells
<1>3. item \in Int /\ Queue \in Seq(Int) /\ Len(Queue) = Used /\ Used \in 0 .. BUFFER_SIZE - 1
  BY <1>0, <1>c, ItemsAssumption DEF TypeOK, item, OVER, InCells
<1>4. Append(Queue, item) \in Seq(Int) /\ Len(Append(Queue, item)) = Used + 1
  BY <1>3
<1>5. ASSUME NEW k \in 1 .. Used + 1  PROVE Queue'[k] = Append(Queue, item)[k]
  <2>1. Cell(readpos, k - 1) \in Positions
    <3>1. k - 1 \in 0 .. BUFFER_SIZE
      BY <1>3
    <3> QED  BY <1>0, <3>1, CellIsMod
  <2>2. CASE k = Used + 1
    <3>1. buffer'[writepos] = item
      BY <1>0 DEF put, TypeOK, Positions
    <3> QED  BY <1>1, <1>2, <1>3, <2>2, <3>1
  <2>3. CASE k =< Used
    <3>1. Cell(readpos, k - 1) # writepos
      BY <1>0, <1>1, <1>3, <2>3 DEF Cell, Positions
    <3>2. Queue'[k] = buffer[Cell(readpos, k - 1)]
      BY <1>0, <1>2, <2>1, <3>1 DEF put, TypeOK, Positions
    <3>3. Queue[k] = buffer[Cell(readpos, k - 1)]
      BY <1>c, <2>3 DEF InCells
    <3> QED  BY <1>3, <2>3, <3>2, <3>3
  <2> QED  BY <1>3, <2>2, <2>3
<1> QED  BY <1>1, <1>2, <1>3, <1>4, <1>5

LEMMA GetTakesHead ==
    ASSUME IInv, IInv', get
    PROVE  Queue # <<>> /\ Queue' = Tail(Queue)
<1> USE BufferAssumption
<1>0. TypeOK /\ readpos \in Positions /\ writepos \in Positions
  BY DEF IInv, TypeOK, Positions
<1>c. InCells /\ InCells'
  <2>1. TypeOK' => InCells'
    BY QueueCells, PTL
  <2> QED  BY <2>1, QueueCells DEF IInv
<1>1. Used' = Used - 1 /\ Used > 0 /\ readpos' = Advance(readpos) /\ buffer' = buffer
  BY <1>0, UsedRange, AdvanceIsCell DEF get, notempty, Used, Advance, Positions
<1>2. /\ Queue' \in Seq(Int) /\ Len(Queue') = Used - 1
      /\ \A k \in 1 .. Used - 1 : Queue'[k] = buffer[Cell(Advance(readpos), k - 1)]
  BY <1>0, <1>1, <1>c DEF InCells
<1>3. Queue \in Seq(Int) /\ Len(Queue) = Used /\ Used \in 0 .. BUFFER_SIZE - 1
      /\ \A k \in 1 .. Used : Queue[k] = buffer[Cell(readpos, k - 1)]
  BY <1>0, <1>c DEF InCells
<1>4. Queue # <<>>
  BY <1>1, <1>3
<1>5. Tail(Queue) \in Seq(Int) /\ Len(Tail(Queue)) = Used - 1
  BY <1>1, <1>3, <1>4
<1>6. ASSUME NEW k \in 1 .. Used - 1  PROVE Queue'[k] = Tail(Queue)[k]
  <2>1. Tail(Queue)[k] = Queue[k + 1]
    BY <1>1, <1>3, <1>4
  <2>2. k - 1 \in 0 .. BUFFER_SIZE - 1 /\ k + 1 \in 1 .. Used /\ (k - 1) + 1 = k
        /\ (k + 1) - 1 = k
    BY <1>3
  <2>3. Cell(Advance(readpos), k - 1) = Cell(readpos, k)
    BY <1>0, <2>2, AdvanceIsCell
  <2> QED  BY <1>2, <1>3, <2>1, <2>2, <2>3
<1> QED  BY <1>2, <1>4, <1>5, <1>6

\* put is an append to the queue, get takes its head, and no other step changes
\* it: the circular buffer implements BoundedFIFO.
THEOREM ImplementsBoundedFIFO == Spec => ImplementsFIFO
<1>1. Init => FIFO!Init
  <2> SUFFICES ASSUME Init  PROVE Queue = <<>>
    BY DEF FIFO!Init
  <2>1. TypeOK /\ Used = 0
    BY InitHolds DEF IInv, Init, Used
  <2> QED  BY <2>1, QueueCells DEF InCells
<1>2. ASSUME IInv, IInv', [Next]_vars  PROVE [FIFO!Next]_Queue
  <2>1. CASE put
    <3>1. item \in 0 .. Items - 1 \cup {OVER}
      BY <1>2, ItemsAssumption DEF IInv, TypeOK, item
    <3> QED  BY <1>2, <2>1, <3>1, PutAppends DEF FIFO!Next, FIFO!Put
  <2>2. CASE get
    BY <1>2, <2>2, GetTakesHead DEF FIFO!Next, FIFO!Get
  <2>3. CASE ProducerBlocks \/ ConsumerBlocks \/ SpuriousWakeup \/ UNCHANGED vars
    BY <2>3
    DEF ProducerBlocks, ConsumerBlocks, SpuriousWakeup, vars, Queue, Used
  <2> QED
    BY <1>2, <2>1, <2>2, <2>3 DEF Next, Producer, Consumer, Finished
<1> QED  BY Invariant, <1>1, <1>2, PTL DEF Spec, ImplementsFIFO, FIFO!Spec

-----------------------------------------------------------------------------
(* The readers-writers lock *)

\* The loop variable of a writer that is not done is still a value to write, or
\* MAXCOUNT, which stands for the final 0.
LoopBound == \A t \in Writers : pc[t] # "done" => i[t] =< MAXCOUNT

\* The heart of the lock: at most one writer, and no reader beside it.
LockInv == writers =< 1 /\ (writers = 0 \/ readers = 0)

LockIInv == LockTypeOK /\ LoopBound /\ CountersExact /\ LockInv

LEMMA Finite ==
    /\ IsFiniteSet(Inside(Readers)) /\ IsFiniteSet(Inside(Writers))
    /\ IsFiniteSet(WaitingWriters)
    /\ IsFiniteSet(Inside(Readers))' /\ IsFiniteSet(Inside(Writers))'
    /\ IsFiniteSet(WaitingWriters)'
  BY ThreadsAssumption, FS_Subset DEF Inside, WaitingWriters

\* An element more in a finite set, or one less.
LEMMA OneMore ==
    ASSUME NEW S, IsFiniteSet(S), NEW x, x \notin S
    PROVE  Cardinality(S \cup {x}) = Cardinality(S) + 1
  BY FS_AddElement

LEMMA OneLess ==
    ASSUME NEW S, IsFiniteSet(S), NEW x, x \in S
    PROVE  /\ Cardinality(S \ {x}) = Cardinality(S) - 1
           /\ Cardinality(S) \in Nat \ {0}
  BY FS_RemoveElement, FS_CardinalityType, FS_EmptySet

LEMMA LockInitIInv == LockInit => LockIInv
<1> SUFFICES ASSUME LockInit  PROVE LockIInv
  OBVIOUS
<1> USE NumbersAssumption DEF LockInit
<1>1. LockTypeOK /\ LoopBound /\ LockInv
  BY DEF LockTypeOK, LoopBound, LockInv, Places, Threads
<1>2. Inside(Readers) = {} /\ Inside(Writers) = {} /\ WaitingWriters = {}
  BY DEF Inside, WaitingWriters, Threads
<1>3. CountersExact
  BY <1>2, FS_EmptySet DEF CountersExact
<1> QED  BY <1>1, <1>3 DEF LockIInv

\* A thread that does not enter, leave or begin to wait changes no counter.
LEMMA SameSets ==
    ASSUME CountersExact, UNCHANGED lock,
           Inside(Readers)' = Inside(Readers), Inside(Writers)' = Inside(Writers),
           WaitingWriters' = WaitingWriters
    PROVE  CountersExact'
  BY DEF CountersExact, lock

LEMMA ReaderStepKeeps ==
    ASSUME LockIInv, NEW t \in Readers, ReaderStep(t)  PROVE LockIInv'
<1> USE ThreadsAssumption, NumbersAssumption
<1>0. LockTypeOK /\ LoopBound /\ CountersExact /\ LockInv /\ t \in Threads /\ t \notin Writers
  BY DEF LockIInv, Threads
<1>1. CASE ReaderBlocks(t)
  <2>1. LockTypeOK' /\ LoopBound' /\ LockInv'
    BY <1>0, <1>1 DEF ReaderBlocks, Goto, LockTypeOK, LoopBound, LockInv, Places, Threads, lock
  <2>2. /\ Inside(Readers)' = Inside(Readers) /\ Inside(Writers)' = Inside(Writers)
        /\ WaitingWriters' = WaitingWriters
    BY <1>0, <1>1 DEF ReaderBlocks, Goto, LockTypeOK, Inside, WaitingWriters, Threads
  <2>3. CountersExact'
    BY <1>0, <1>1, <2>2, SameSets DEF ReaderBlocks
  <2> QED  BY <2>1, <2>3 DEF LockIInv
<1>2. CASE ReaderEnters(t)
  <2>1. LockTypeOK' /\ LoopBound' /\ LockInv'
    BY <1>0, <1>2 DEF ReaderEnters, Goto, LockTypeOK, LoopBound, LockInv, Places, Threads
  <2>2. /\ Inside(Readers)' = Inside(Readers) \cup {t} /\ t \notin Inside(Readers)
        /\ Inside(Writers)' = Inside(Writers) /\ WaitingWriters' = WaitingWriters
    BY <1>0, <1>2 DEF ReaderEnters, Goto, LockTypeOK, Inside, WaitingWriters, Threads
  <2>3. CountersExact'
    BY <1>0, <1>2, <2>2, OneMore, Finite DEF ReaderEnters, CountersExact
  <2> QED  BY <2>1, <2>3 DEF LockIInv
<1>3. CASE Read(t)
  <2>1. LockTypeOK' /\ LoopBound' /\ LockInv'
    BY <1>0, <1>3 DEF Read, Goto, LockTypeOK, LoopBound, LockInv, Places, Threads, lock
  <2>2. /\ Inside(Readers)' = Inside(Readers) /\ Inside(Writers)' = Inside(Writers)
        /\ WaitingWriters' = WaitingWriters
    BY <1>0, <1>3 DEF Read, Goto, LockTypeOK, Inside, WaitingWriters, Threads
  <2>3. CountersExact'
    BY <1>0, <1>3, <2>2, SameSets DEF Read
  <2> QED  BY <2>1, <2>3 DEF LockIInv
<1>4. CASE readunlock(t)
  <2>1. PICK S \in SUBSET BlockedWriters :
            pc' = [u \in Threads |-> IF u = t THEN AfterRead(t)
                                     ELSE IF u \in S THEN "woken" ELSE pc[u]]
    <3>1. CASE BlockedWriters = {} /\ Goto(t, AfterRead(t))
      BY <1>0, <3>1 DEF Goto, LockTypeOK
    <3>2. CASE \E u \in BlockedWriters : WakeAndGoto({u}, t, AfterRead(t))
      BY <3>2 DEF WakeAndGoto
    <3> QED  BY <1>4, <3>1, <3>2 DEF readunlock
  <2>2. AfterRead(t) \in {"start", "done"}
    BY DEF AfterRead
  <2>3. /\ Inside(Readers)' = Inside(Readers) \ {t} /\ t \in Inside(Readers)
        /\ Inside(Writers)' = Inside(Writers) /\ WaitingWriters' = WaitingWriters
    BY <1>0, <1>4, <2>1, <2>2
    DEF readunlock, BlockedWriters, LockTypeOK, Inside, WaitingWriters, Threads
  <2>4. readers # 0 /\ CountersExact'
    BY <1>0, <1>4, <2>3, OneLess, Finite DEF readunlock, CountersExact
  <2>5. pc' \in [Threads -> Places]
    BY <1>0, <2>1, <2>2 DEF LockTypeOK, Places
  <2>6. \A u \in Writers : pc'[u] # "done" => pc[u] # "done"
    BY <1>0, <2>1 DEF BlockedWriters, Threads
  <2>7. LockTypeOK' /\ LoopBound' /\ LockInv'
    BY <1>0, <1>4, <2>4, <2>5, <2>6 DEF readunlock, LockTypeOK, LoopBound, LockInv
  <2> QED  BY <2>4, <2>7 DEF LockIInv
<1> QED  BY <1>1, <1>2, <1>3, <1>4 DEF ReaderStep

LEMMA WriterArrivesKeeps ==
    ASSUME LockIInv, NEW t \in Writers, WriterArrives(t)  PROVE LockIInv'
<1> USE ThreadsAssumption, NumbersAssumption
<1>0. LockTypeOK /\ LoopBound /\ CountersExact /\ LockInv /\ t \in Threads /\ t \notin Readers
  BY DEF LockIInv, Threads
<1>1. CASE readers # 0 \/ writers # 0
  <2>1. LockTypeOK' /\ LoopBound' /\ LockInv'
    BY <1>0, <1>1 DEF WriterArrives, Goto, LockTypeOK, LoopBound, LockInv, Places, Threads
  <2>2. /\ WaitingWriters' = WaitingWriters \cup {t} /\ t \notin WaitingWriters
        /\ Inside(Readers)' = Inside(Readers) /\ Inside(Writers)' = Inside(Writers)
    BY <1>0, <1>1 DEF WriterArrives, Goto, LockTypeOK, Inside, WaitingWriters, Threads
  <2>3. CountersExact'
    BY <1>0, <1>1, <2>2, OneMore, Finite DEF WriterArrives, CountersExact
  <2> QED  BY <2>1, <2>3 DEF LockIInv
<1>2. CASE readers = 0 /\ writers = 0
  <2>1. LockTypeOK' /\ LoopBound' /\ LockInv'
    BY <1>0, <1>2 DEF WriterArrives, Goto, LockTypeOK, LoopBound, LockInv, Places, Threads
  <2>2. /\ Inside(Writers)' = Inside(Writers) \cup {t} /\ t \notin Inside(Writers)
        /\ Inside(Readers)' = Inside(Readers) /\ WaitingWriters' = WaitingWriters
    BY <1>0, <1>2 DEF WriterArrives, Goto, LockTypeOK, Inside, WaitingWriters, Threads
  <2>3. CountersExact'
    BY <1>0, <1>2, <2>2, OneMore, Finite DEF WriterArrives, CountersExact
  <2> QED  BY <2>1, <2>3 DEF LockIInv
<1> QED  BY <1>0, <1>1, <1>2 DEF LockTypeOK

LEMMA WriterRetriesKeeps ==
    ASSUME LockIInv, NEW t \in Writers, WriterRetries(t)  PROVE LockIInv'
<1> USE ThreadsAssumption, NumbersAssumption
<1>0. LockTypeOK /\ LoopBound /\ CountersExact /\ LockInv /\ t \in Threads /\ t \notin Readers
  BY DEF LockIInv, Threads
<1>1. CASE readers # 0 \/ writers # 0
  <2>1. LockTypeOK' /\ LoopBound' /\ LockInv'
    BY <1>0, <1>1 DEF WriterRetries, Goto, LockTypeOK, LoopBound, LockInv, Places, Threads
  <2>2. /\ Inside(Readers)' = Inside(Readers) /\ Inside(Writers)' = Inside(Writers)
        /\ WaitingWriters' = WaitingWriters
    BY <1>0, <1>1 DEF WriterRetries, Goto, LockTypeOK, Inside, WaitingWriters, Threads
  <2>3. CountersExact'
    BY <1>0, <1>1, <2>2, SameSets DEF WriterRetries, lock
  <2> QED  BY <2>1, <2>3 DEF LockIInv
<1>2. CASE readers = 0 /\ writers = 0
  <2>1. /\ Inside(Writers)' = Inside(Writers) \cup {t} /\ t \notin Inside(Writers)
        /\ WaitingWriters' = WaitingWriters \ {t} /\ t \in WaitingWriters
        /\ Inside(Readers)' = Inside(Readers)
    BY <1>0, <1>2 DEF WriterRetries, Goto, LockTypeOK, Inside, WaitingWriters, Threads
  <2>2. waiting # 0 /\ CountersExact'
    BY <1>0, <1>2, <2>1, OneMore, OneLess, Finite DEF WriterRetries, CountersExact
  <2>3. LockTypeOK' /\ LoopBound' /\ LockInv'
    BY <1>0, <1>2, <2>2 DEF WriterRetries, Goto, LockTypeOK, LoopBound, LockInv, Places, Threads
  <2> QED  BY <2>2, <2>3 DEF LockIInv
<1> QED  BY <1>0, <1>1, <1>2 DEF LockTypeOK

LEMMA WriteKeeps ==
    ASSUME LockIInv, NEW t \in Writers, Write(t)  PROVE LockIInv'
<1> USE ThreadsAssumption, NumbersAssumption
<1>0. LockTypeOK /\ LoopBound /\ CountersExact /\ LockInv /\ t \in Threads
  BY DEF LockIInv, Threads
<1>1. LockTypeOK' /\ LoopBound' /\ LockInv'
  BY <1>0 DEF Write, Goto, LockTypeOK, LoopBound, LockInv, Places, Threads, lock
<1>2. /\ Inside(Readers)' = Inside(Readers) /\ Inside(Writers)' = Inside(Writers)
      /\ WaitingWriters' = WaitingWriters
  BY <1>0 DEF Write, Goto, LockTypeOK, Inside, WaitingWriters, Threads
<1>3. CountersExact'
  BY <1>0, <1>2, SameSets DEF Write
<1> QED  BY <1>1, <1>3 DEF LockIInv

LEMMA WriteunlockKeeps ==
    ASSUME LockIInv, NEW t \in Writers, writeunlock(t)  PROVE LockIInv'
<1> USE ThreadsAssumption, NumbersAssumption
<1>0. LockTypeOK /\ LoopBound /\ CountersExact /\ LockInv /\ t \in Threads
  BY DEF LockIInv, Threads
<1>1. PICK S \in SUBSET BlockedReaders :
          pc' = [u \in Threads |-> IF u = t THEN AfterWrite(t)
                                   ELSE IF u \in S THEN "woken" ELSE pc[u]]
  BY DEF writeunlock, WakeAndGoto
<1>2. AfterWrite(t) \in {"start", "done"}
  BY DEF AfterWrite
<1>3. /\ Inside(Writers)' = Inside(Writers) \ {t} /\ t \in Inside(Writers)
      /\ Inside(Readers)' = Inside(Readers) /\ WaitingWriters' = WaitingWriters
  BY <1>0, <1>1, <1>2
  DEF writeunlock, BlockedReaders, LockTypeOK, Inside, WaitingWriters, Threads
<1>4. writers # 0 /\ CountersExact'
  BY <1>0, <1>3, OneLess, Finite DEF writeunlock, CountersExact
<1>5. pc' \in [Threads -> Places]
  BY <1>0, <1>1, <1>2 DEF LockTypeOK, Places
<1>6. \A u \in Writers : i'[u] = IF u = t THEN i[u] + 1 ELSE i[u]
  BY <1>0 DEF writeunlock, LockTypeOK
<1>7. i[t] =< MAXCOUNT /\ (pc'[t] # "done" => i[t] < MAXCOUNT)
  BY <1>0, <1>1 DEF writeunlock, LoopBound, AfterWrite
<1>8. i' \in [Writers -> 2 .. MAXCOUNT + 1]
  BY <1>0, <1>6, <1>7 DEF writeunlock, LockTypeOK
<1>9. LoopBound'
  BY <1>0, <1>1, <1>6, <1>7 DEF LoopBound, LockTypeOK, BlockedReaders, Threads
<1>10. LockTypeOK' /\ LockInv'
  BY <1>0, <1>4, <1>5, <1>8 DEF writeunlock, LockTypeOK, LockInv
<1> QED  BY <1>4, <1>9, <1>10 DEF LockIInv

LEMMA SpuriousKeeps ==
    ASSUME LockIInv, NEW t \in Threads, UnsignalledWakeup(t)  PROVE LockIInv'
<1>0. LockTypeOK /\ LoopBound /\ CountersExact /\ LockInv
  BY DEF LockIInv
<1>1. LockTypeOK' /\ LoopBound' /\ LockInv'
  BY <1>0, NumbersAssumption
  DEF UnsignalledWakeup, Goto, LockTypeOK, LoopBound, LockInv, Places, lock
<1>2. /\ Inside(Readers)' = Inside(Readers) /\ Inside(Writers)' = Inside(Writers)
      /\ WaitingWriters' = WaitingWriters
  BY <1>0 DEF UnsignalledWakeup, Goto, LockTypeOK, Inside, WaitingWriters, Threads
<1>3. CountersExact'
  BY <1>0, <1>2, SameSets DEF UnsignalledWakeup
<1> QED  BY <1>1, <1>3 DEF LockIInv

LEMMA StutterKeeps == ASSUME LockIInv, UNCHANGED lockVars  PROVE LockIInv'
  BY DEF LockIInv, lockVars, LockTypeOK, LoopBound, CountersExact, LockInv, Inside, WaitingWriters

\* The invariant is inductive.
THEOREM LockInvariant == LockSpec => []LockIInv
<1>1. LockIInv /\ [LockNext]_lockVars => LockIInv'
  BY ReaderStepKeeps, WriterArrivesKeeps, WriterRetriesKeeps, WriteKeeps,
     WriteunlockKeeps, SpuriousKeeps, StutterKeeps DEF LockNext, WriterStep, AllDone
<1> QED  BY <1>1, LockInitIInv, PTL DEF LockSpec

\* The counters of the lock (ReaWri.c:19-23) count the threads they are meant to.
THEOREM Counters == LockSpec => []CountersExact
<1>1. LockIInv => CountersExact
  BY DEF LockIInv
<1> QED  BY <1>1, LockInvariant, PTL

\* A writer inside is alone, for any number of readers and writers: mutual
\* exclusion of ReaWri.c:225-304.
THEOREM WritersAlone == LockSpec => []Exclusion
<1>1. LockIInv => Exclusion
  <2> SUFFICES ASSUME LockIInv, NEW t \in Inside(Writers), NEW u \in Inside(Threads)
               PROVE  u = t
    BY DEF Exclusion
  <2>1. Cardinality(Inside(Writers)) # 0
    BY Finite, FS_EmptySet
  <2>2. Cardinality(Inside(Writers)) = 1 /\ Cardinality(Inside(Readers)) = 0
    BY <2>1 DEF LockIInv, CountersExact, LockInv, LockTypeOK
  <2>3. Inside(Readers) = {}
    BY <2>2, Finite, FS_EmptySet
  <2>4. \E x : Inside(Writers) = {x}
    BY <2>2, Finite, FS_Singleton
  <2>5. u \in Inside(Writers)
    BY <2>3 DEF Inside, Threads
  <2> QED  BY <2>4, <2>5
<1> QED  BY <1>1, LockInvariant, PTL

\* The fields of the lock, the data and the threads keep their types.
THEOREM LockTypeCorrect == LockSpec => []LockTypeOK
<1>1. LockIInv => LockTypeOK
  BY DEF LockIInv
<1> QED  BY <1>1, LockInvariant, PTL

\* NobodyLeftBlocked thread by thread.
Awaited ==
    /\ \A t \in Writers : pc[t] = "blocked" =>
          \E u \in Threads : pc[u] \in {"inside", "leave"}
    /\ \A t \in Readers : pc[t] = "blocked" =>
          \E u \in Writers : pc[u] \in {"blocked", "woken", "inside", "leave"}

LEMMA AwaitedSame == (Awaited <=> NobodyLeftBlocked) /\ (Awaited' <=> NobodyLeftBlocked')
  BY DEF Awaited, NobodyLeftBlocked, BlockedWriters, BlockedReaders, Inside

LEMMA Moves ==
    ASSUME LockTypeOK, NEW t \in Threads, NEW l, Goto(t, l)
    PROVE  \A u \in Threads : pc'[u] = IF u = t THEN l ELSE pc[u]
  BY DEF LockTypeOK, Goto

\* With one writer, and as many readers as writeunlock sends signals, four in
\* ReaWri.c:297-300, the signals are a broadcast and no wakeup is lost.
THEOREM LockWakeupsSuffice ==
    ASSUME Cardinality(Readers) =< SIGNALS,
           \A t, u \in Writers : t = u
    PROVE  LockSpec => []NobodyLeftBlocked
<1> USE NumbersAssumption
<1>1. LockInit => NobodyLeftBlocked
  BY DEF LockInit, NobodyLeftBlocked, BlockedWriters, BlockedReaders, Threads
<1>2. ASSUME LockIInv, LockIInv', NobodyLeftBlocked, [LockNext]_lockVars  PROVE NobodyLeftBlocked'
  <2> LockTypeOK /\ CountersExact /\ Awaited
    BY <1>2, AwaitedSame DEF LockIInv
  <2>0. IsFiniteSet(Inside(Readers)) /\ IsFiniteSet(Inside(Writers)) /\ IsFiniteSet(WaitingWriters)
    BY Finite
  <2>1. /\ readers # 0 => Inside(Readers) # {}
        /\ writers # 0 => Inside(Writers) # {}
        /\ waiting # 0 => WaitingWriters # {}
    BY <2>0, FS_EmptySet DEF CountersExact
  <2>2. ASSUME NEW t \in Readers, ReaderBlocks(t)  PROVE Awaited'
    <3>1. \A u \in Threads : pc'[u] = IF u = t THEN "blocked" ELSE pc[u]
      BY <2>2, Moves DEF ReaderBlocks, Threads
    <3>2. \E u \in Writers : pc[u] \in {"blocked", "woken", "inside", "leave"}
      BY <2>1, <2>2 DEF ReaderBlocks, Inside, WaitingWriters
    <3>3. pc[t] \in {"start", "woken"}
      BY <2>2 DEF ReaderBlocks
    <3> QED  BY <3>1, <3>2, <3>3, ThreadsAssumption DEF Awaited, Threads
  <2>3. ASSUME NEW t \in Readers, ReaderEnters(t) \/ Read(t)  PROVE Awaited'
    <3>1. \E l \in {"inside", "leave"} : \A u \in Threads : pc'[u] = IF u = t THEN l ELSE pc[u]
      BY <2>3, Moves DEF ReaderEnters, Read, Threads
    <3> QED  BY <3>1, ThreadsAssumption DEF Awaited, Threads
  <2>4. ASSUME NEW t \in Readers, readunlock(t)  PROVE Awaited'
    <3>1. AfterRead(t) \in {"done", "start"}
      BY DEF AfterRead
    <3>2. CASE BlockedWriters = {} /\ Goto(t, AfterRead(t))
      <4>1. \A u \in Threads : pc'[u] = IF u = t THEN AfterRead(t) ELSE pc[u]
        BY <2>4, <3>2, Moves DEF Threads
      <4>2. \A u \in Writers : pc[u] # "blocked"
        BY <3>2 DEF BlockedWriters
      <4> QED  BY <2>4, <3>1, <4>1, <4>2, ThreadsAssumption DEF Awaited, Threads
    <3>3. ASSUME NEW u \in BlockedWriters, WakeAndGoto({u}, t, AfterRead(t))
          PROVE  Awaited'
      <4>1. BlockedWriters' = {}
        BY <2>4, <3>1, <3>3, ThreadsAssumption DEF WakeAndGoto, BlockedWriters, Threads, LockTypeOK
      <4>2. pc'[u] = "woken" /\ u \in Writers
        BY <2>4, <3>3, ThreadsAssumption DEF WakeAndGoto, BlockedWriters, Threads
      <4> QED  BY <4>1, <4>2 DEF Awaited, BlockedWriters
    <3> QED  BY <2>4, <3>2, <3>3 DEF readunlock
  <2>5. ASSUME NEW t \in Writers, WriterArrives(t) \/ WriterRetries(t)  PROVE NobodyLeftBlocked'
    <3>1. pc' = [pc EXCEPT ![t] = pc'[t]] /\ pc'[t] \in {"blocked", "inside"}
      BY <2>5 DEF WriterArrives, WriterRetries, Goto, LockTypeOK, Threads
    <3>2. pc'[t] = "blocked" => Inside(Threads) # {} /\ pc[t] \notin {"inside", "leave"}
      BY <2>1, <2>5 DEF WriterArrives, WriterRetries, Goto, LockTypeOK, Threads, Inside
    <3>3. pc'[t] = "blocked" => Inside(Threads)' # {}
      BY <3>1, <3>2 DEF Inside, LockTypeOK
    <3>4. BlockedWriters' \subseteq {t}
      BY <2>5 DEF BlockedWriters
    <3> QED  BY <3>1, <3>3, <3>4 DEF NobodyLeftBlocked, BlockedWriters, LockTypeOK, Threads
  <2>6. ASSUME NEW t \in Writers, Write(t)  PROVE NobodyLeftBlocked'
    BY <2>6, ThreadsAssumption
    DEF Write, Goto, NobodyLeftBlocked, BlockedWriters, BlockedReaders, Inside, LockTypeOK, Threads
  <2>7. ASSUME NEW t \in Writers, writeunlock(t)  PROVE NobodyLeftBlocked'
    <3>1. AfterWrite(t) \in {"done", "start"}
      BY DEF AfterWrite
    <3>2. PICK S \in SUBSET BlockedReaders :
             /\ S = BlockedReaders \/ Cardinality(S) = SIGNALS
             /\ WakeAndGoto(S, t, AfterWrite(t))
      BY <2>7 DEF writeunlock
    <3>3. S = BlockedReaders
      <4>1. S \subseteq Readers /\ BlockedReaders \subseteq Readers
        BY DEF BlockedReaders
      <4>2. CASE Cardinality(S) = SIGNALS
        <5>1. /\ IsFiniteSet(Readers) /\ IsFiniteSet(S)
              /\ Cardinality(S) =< Cardinality(Readers)
              /\ Cardinality(S) = Cardinality(Readers) => S = Readers
          BY <4>1, ThreadsAssumption, FS_Subset
        <5>2. Cardinality(S) \in Nat /\ Cardinality(Readers) \in Nat
          BY <5>1, FS_CardinalityType
        <5>3. S = Readers
          BY <4>2, <5>1, <5>2
        <5> QED  BY <4>1, <5>3
      <4> QED  BY <3>2, <4>2
    <3>4. BlockedReaders' = {} /\ BlockedWriters' = {}
      BY <2>7, <3>1, <3>2, <3>3, ThreadsAssumption
      DEF WakeAndGoto, BlockedReaders, BlockedWriters, Threads, LockTypeOK
    <3> QED  BY <3>4 DEF NobodyLeftBlocked
  <2>8. ASSUME NEW t \in Threads, UnsignalledWakeup(t)  PROVE Awaited'
    <3>1. pc[t] = "blocked" /\ \A u \in Threads : pc'[u] = IF u = t THEN "woken" ELSE pc[u]
      BY <2>8, Moves DEF UnsignalledWakeup
    <3> QED  BY <3>1 DEF Awaited, Threads
  <2>9. CASE UNCHANGED lockVars
    BY <1>2, <2>9 DEF lockVars, NobodyLeftBlocked, BlockedWriters, BlockedReaders, Inside
  <2> QED
    BY <1>2, <2>2, <2>3, <2>4, <2>5, <2>6, <2>7, <2>8, <2>9, AwaitedSame
    DEF LockNext, ReaderStep, WriterStep, AllDone
<1> QED  BY <1>1, <1>2, LockInvariant, PTL DEF LockSpec
=============================================================================
