--------------------------- MODULE BoundedBuffer ---------------------------
(***************************************************************************)
(* The producer-consumer program of Assignment 4 (ProCon.c): a circular     *)
(* buffer with one mutex and two condition variables, one thread that puts  *)
(* 0 .. Items-1 and then OVER, and one that gets until it gets OVER.        *)
(*                                                                          *)
(* put and get hold the mutex from their entry to their end or to           *)
(* pthread_cond_wait, so each such piece is one step; a thread that was     *)
(* woken goes on when it has the mutex again, which is a step of its own.   *)
(***************************************************************************)
EXTENDS Integers, Sequences

CONSTANTS BUFFER_SIZE,
          Items   \* how many integers the producer puts before OVER

ASSUME BufferAssumption == BUFFER_SIZE \in Nat /\ BUFFER_SIZE >= 2
ASSUME ItemsAssumption == Items \in Nat

OVER == -1

VARIABLES
    buffer, readpos, writepos,   \* struct prodcons
    n,                           \* how many puts the producer has finished
    d,                           \* what the consumer got last
    gets,                        \* how many gets the consumer has finished
    producer, consumer           \* "run", "blocked", "woken" or "done"

vars == <<buffer, readpos, writepos, n, d, gets, producer, consumer>>

\* what the producer puts next, the argument data of put
item == IF n < Items THEN n ELSE OVER

\* buffer is a global variable: zeros
Init ==
    /\ buffer = [k \in 0 .. BUFFER_SIZE - 1 |-> 0]
    /\ readpos = 0 /\ writepos = 0
    /\ n = 0 /\ d = 0 /\ gets = 0
    /\ producer = "run" /\ consumer = "run"

Advance(pos) == IF pos + 1 >= BUFFER_SIZE THEN 0 ELSE pos + 1

notfull  == (writepos + 1) % BUFFER_SIZE # readpos
notempty == writepos # readpos

\* pthread_cond_signal, when at most one thread can wait on the variable
Signalled(place) == IF place = "blocked" THEN "woken" ELSE place

ProducerBlocks ==
    /\ producer \in {"run", "woken"}
    /\ ~notfull
    /\ producer' = "blocked"
    /\ UNCHANGED <<buffer, readpos, writepos, n, d, gets, consumer>>

\* Slip: after a wakeup the producer does not test the buffer again.
putNoRecheck ==
    /\ producer = "woken" \/ (producer = "run" /\ notfull)
    /\ buffer' = [buffer EXCEPT ![writepos] = item]
    /\ writepos' = Advance(writepos)
    /\ n' = n + 1
    /\ producer' = IF item = OVER THEN "done" ELSE "run"
    /\ consumer' = Signalled(consumer)
    /\ UNCHANGED <<readpos, d, gets>>

put ==
    /\ producer \in {"run", "woken"}
    /\ notfull
    /\ buffer' = [buffer EXCEPT ![writepos] = item]
    /\ writepos' = Advance(writepos)
    /\ n' = n + 1
    /\ producer' = IF item = OVER THEN "done" ELSE "run"
    /\ consumer' = Signalled(consumer)
    /\ UNCHANGED <<readpos, d, gets>>

ConsumerBlocks ==
    /\ consumer \in {"run", "woken"}
    /\ ~notempty
    /\ consumer' = "blocked"
    /\ UNCHANGED <<buffer, readpos, writepos, n, d, gets, producer>>

\* Slip: no signal to the producer.
getSilent ==
    /\ consumer \in {"run", "woken"}
    /\ notempty
    /\ d' = buffer[readpos]
    /\ readpos' = Advance(readpos)
    /\ gets' = gets + 1
    /\ consumer' = IF d' = OVER THEN "done" ELSE "run"
    /\ UNCHANGED <<buffer, writepos, n, producer>>

\* Slip: the consumer goes on after OVER.
getForever ==
    /\ consumer \in {"run", "woken"}
    /\ notempty
    /\ d' = buffer[readpos]
    /\ readpos' = Advance(readpos)
    /\ gets' = gets + 1
    /\ consumer' = "run"
    /\ producer' = Signalled(producer)
    /\ UNCHANGED <<buffer, writepos, n>>

get ==
    /\ consumer \in {"run", "woken"}
    /\ notempty
    /\ d' = buffer[readpos]
    /\ readpos' = Advance(readpos)
    /\ gets' = gets + 1
    /\ consumer' = IF d' = OVER THEN "done" ELSE "run"
    /\ producer' = Signalled(producer)
    /\ UNCHANGED <<buffer, writepos, n>>

\* pthread_cond_wait may return without a signal.
SpuriousWakeup ==
    /\ \/ producer = "blocked" /\ producer' = "woken" /\ UNCHANGED consumer
       \/ consumer = "blocked" /\ consumer' = "woken" /\ UNCHANGED producer
    /\ UNCHANGED <<buffer, readpos, writepos, n, d, gets>>

\* main has joined both threads
Finished == producer = "done" /\ consumer = "done" /\ UNCHANGED vars

Producer == ProducerBlocks \/ put
Consumer == ConsumerBlocks \/ get

Next == Producer \/ Consumer \/ SpuriousWakeup \/ Finished

Spec == Init /\ [][Next]_vars

\* Both threads are scheduled, and get the mutex in the end.
FairSpec == Spec /\ WF_vars(Producer) /\ WF_vars(Consumer)

-----------------------------------------------------------------------------
(* Properties *)

TypeOK ==
    /\ buffer \in [0 .. BUFFER_SIZE - 1 -> Int]
    /\ readpos \in 0 .. BUFFER_SIZE - 1 /\ writepos \in 0 .. BUFFER_SIZE - 1
    /\ n \in 0 .. Items + 1 /\ gets \in 0 .. Items + 1
    /\ d \in Int
    /\ {producer, consumer} \subseteq {"run", "blocked", "woken", "done"}

\* what the k-th put, counted from 0, puts
Nth(k) == IF k < Items THEN k ELSE OVER

\* The k-th get returns what the k-th put stored: nothing is lost, doubled or
\* overwritten before it is read, however often the positions wrap around.
InOrder == gets > 0 => d = Nth(gets - 1)

\* Nobody sleeps while there is work: a blocked producer faces a full buffer,
\* and a blocked consumer an empty one.
NoLostWakeup ==
    /\ producer = "blocked" => ~notfull
    /\ consumer = "blocked" => ~notempty

\* Both threads finish, and main returns.
Termination == <>(producer = "done" /\ consumer = "done")

\* The cells between readpos and writepos, in order, are a FIFO queue of
\* BUFFER_SIZE - 1 items.
Used == IF writepos >= readpos THEN writepos - readpos
                               ELSE writepos - readpos + BUFFER_SIZE

Queue == [k \in 1 .. Used |-> buffer[(readpos + k - 1) % BUFFER_SIZE]]

FIFO == INSTANCE BoundedFIFO WITH
            Item <- 0 .. Items - 1 \cup {OVER}, Capacity <- BUFFER_SIZE - 1, q <- Queue

\* put appends to that queue and get takes its head; nothing else changes it.
ImplementsFIFO == FIFO!Spec
=============================================================================
