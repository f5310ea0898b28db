------------------------------- MODULE RWLock -------------------------------
(***************************************************************************)
(* The readers-writers lock of Assignment 4 (ReaWri.c) and the threads that *)
(* use it.  A writer writes 2 .. MAXCOUNT-1 and then 0; every reader reads  *)
(* until it sees the 0.                                                     *)
(*                                                                          *)
(* All fields of the lock are read and written under its mutex, which is    *)
(* held from the entry of each function to its end or to pthread_cond_wait. *)
(* So each such piece of a function is one step.  A thread that was woken   *)
(* continues when it has the mutex again, which is a step of its own.       *)
(*                                                                          *)
(* LockInit, LockNext and so on, since Assignment4_proofs extends this      *)
(* module and BoundedBuffer, the other program of threads.                  *)
(***************************************************************************)
EXTENDS Integers, FiniteSets

CONSTANTS
    Readers, Writers,   \* the threads; main starts four readers and one writer
    MAXCOUNT,
    SIGNALS,            \* how often writeunlock signals readOK
    MaxSpurious         \* bound on the wakeups without a signal

ASSUME ThreadsAssumption ==
    IsFiniteSet(Readers) /\ IsFiniteSet(Writers) /\ Readers \cap Writers = {}
ASSUME NumbersAssumption ==
    MAXCOUNT \in Nat /\ MAXCOUNT >= 2 /\ SIGNALS \in Nat /\ MaxSpurious \in Nat

VARIABLES
    readers, writers, waiting,   \* the fields of rwl
    data,                        \* the shared variable
    pc,
    seen,                        \* d of each reader: what it read last
    i,                           \* the loop variable of each writer
    spurious                     \* wakeups without a signal so far

lock == <<readers, writers, waiting>>
lockVars == <<readers, writers, waiting, data, pc, seen, i, spurious>>

Threads == Readers \cup Writers

LockInit ==
    /\ readers = 0 /\ writers = 0 /\ waiting = 0     \* initlock
    /\ data = 1
    /\ pc = [t \in Threads |-> "start"]
    /\ seen = [t \in Readers |-> 1]
    /\ i = [t \in Writers |-> 2]
    /\ spurious = 0

Goto(t, l) == pc' = [pc EXCEPT ![t] = l]

\* Thread t goes to l and the threads of S come back from pthread_cond_wait.
WakeAndGoto(S, t, l) ==
    pc' = [u \in Threads |-> IF u = t THEN l ELSE IF u \in S THEN "woken" ELSE pc[u]]

BlockedReaders == {t \in Readers : pc[t] = "blocked"}
BlockedWriters == {t \in Writers : pc[t] = "blocked"}

UnsignalledWakeup(t) ==
    /\ pc[t] = "blocked"
    /\ spurious < MaxSpurious
    /\ spurious' = spurious + 1
    /\ Goto(t, "woken")
    /\ UNCHANGED <<lock, data, seen, i>>

-----------------------------------------------------------------------------
(* A reader *)

ReaderBlocks(t) ==
    /\ \/ pc[t] = "start" /\ (writers # 0 \/ waiting # 0)
       \/ pc[t] = "woken" /\ writers # 0
    /\ Goto(t, "blocked")
    /\ UNCHANGED <<lock, data, seen, i, spurious>>

\* Slip: a reader that arrives overtakes the waiting writer.
ReaderEntersFirst(t) ==
    /\ pc[t] \in {"start", "woken"}
    /\ writers = 0
    /\ readers' = readers + 1
    /\ Goto(t, "inside")
    /\ UNCHANGED <<writers, waiting, data, seen, i, spurious>>

ReaderEnters(t) ==
    /\ \/ pc[t] = "start" /\ writers = 0 /\ waiting = 0
       \/ pc[t] = "woken" /\ writers = 0
    /\ readers' = readers + 1
    /\ Goto(t, "inside")
    /\ UNCHANGED <<writers, waiting, data, seen, i, spurious>>

Read(t) ==
    /\ pc[t] = "inside"
    /\ seen' = [seen EXCEPT ![t] = data]
    /\ Goto(t, "leave")
    /\ UNCHANGED <<lock, data, i, spurious>>

AfterRead(t) == IF seen[t] = 0 THEN "done" ELSE "start"

\* Slip: no signal to the writer.
readunlockSilent(t) ==
    /\ pc[t] = "leave"
    /\ readers' = readers - 1
    /\ Goto(t, AfterRead(t))
    /\ UNCHANGED <<writers, waiting, data, seen, i, spurious>>

readunlock(t) ==
    /\ pc[t] = "leave"
    /\ readers' = readers - 1
    /\ \/ BlockedWriters = {} /\ Goto(t, AfterRead(t))
       \/ \E u \in BlockedWriters : WakeAndGoto({u}, t, AfterRead(t))
    /\ UNCHANGED <<writers, waiting, data, seen, i, spurious>>

-----------------------------------------------------------------------------
(* A writer *)

\* writelock on entry: count as waiting, and wait or go in
WriterArrives(t) ==
    /\ pc[t] = "start"
    /\ IF readers # 0 \/ writers # 0
       THEN /\ waiting' = waiting + 1
            /\ Goto(t, "blocked")
            /\ UNCHANGED writers
       ELSE /\ writers' = writers + 1
            /\ Goto(t, "inside")
            /\ UNCHANGED waiting
    /\ UNCHANGED <<readers, data, seen, i, spurious>>

\* Slip: a writer that was woken does not look for readers.
WriterRetriesBlindly(t) ==
    /\ pc[t] = "woken"
    /\ waiting' = waiting - 1
    /\ writers' = writers + 1
    /\ Goto(t, "inside")
    /\ UNCHANGED <<readers, data, seen, i, spurious>>

\* writelock after a wakeup
WriterRetries(t) ==
    /\ pc[t] = "woken"
    /\ IF readers # 0 \/ writers # 0
       THEN /\ Goto(t, "blocked")
            /\ UNCHANGED <<waiting, writers>>
       ELSE /\ waiting' = waiting - 1
            /\ writers' = writers + 1
            /\ Goto(t, "inside")
    /\ UNCHANGED <<readers, data, seen, i, spurious>>

Write(t) ==
    /\ pc[t] = "inside"
    /\ data' = IF i[t] < MAXCOUNT THEN i[t] ELSE 0
    /\ Goto(t, "leave")
    /\ UNCHANGED <<lock, seen, i, spurious>>

AfterWrite(t) == IF i[t] < MAXCOUNT THEN "start" ELSE "done"

\* SIGNALS signals wake that many of the blocked readers, or all.
writeunlock(t) ==
    /\ pc[t] = "leave"
    /\ writers' = writers - 1
    /\ \E S \in SUBSET BlockedReaders :
          /\ S = BlockedReaders \/ Cardinality(S) = SIGNALS
          /\ Cardinality(S) =< SIGNALS
          /\ WakeAndGoto(S, t, AfterWrite(t))
    /\ i' = [i EXCEPT ![t] = @ + 1]
    /\ UNCHANGED <<readers, waiting, data, seen, spurious>>

-----------------------------------------------------------------------------

ReaderStep(t) == ReaderBlocks(t) \/ ReaderEnters(t) \/ Read(t) \/ readunlock(t)

WriterStep(t) == WriterArrives(t) \/ WriterRetries(t) \/ Write(t) \/ writeunlock(t)

\* main has joined all threads
AllDone == (\A t \in Threads : pc[t] = "done") /\ UNCHANGED lockVars

LockNext ==
    \/ \E t \in Readers : ReaderStep(t)
    \/ \E t \in Writers : WriterStep(t)
    \/ \E t \in Threads : UnsignalledWakeup(t)
    \/ AllDone

LockSpec == LockInit /\ [][LockNext]_lockVars

\* Every thread is scheduled, and gets the mutex in the end.
LockFairSpec ==
    /\ LockSpec
    /\ \A t \in Readers : WF_lockVars(ReaderStep(t))
    /\ \A t \in Writers : WF_lockVars(WriterStep(t))

-----------------------------------------------------------------------------
(* Properties *)

Places == {"start", "blocked", "woken", "inside", "leave", "done"}

LockTypeOK ==
    /\ readers \in Nat /\ writers \in Nat /\ waiting \in Nat
    /\ data \in 0 .. MAXCOUNT
    /\ pc \in [Threads -> Places]
    /\ seen \in [Readers -> 0 .. MAXCOUNT]
    /\ i \in [Writers -> 2 .. MAXCOUNT + 1]
    /\ spurious \in 0 .. MaxSpurious

Inside(T) == {t \in T : pc[t] \in {"inside", "leave"}}
WaitingWriters == {t \in Writers : pc[t] \in {"blocked", "woken"}}

\* While a writer is inside, nobody else is: a reader that was woken, or that
\* came while a writer waits, cannot slip in beside it.
Exclusion ==
    \A t \in Inside(Writers) : \A u \in Inside(Threads) : u = t

\* The counters of the lock say how many threads are inside and how many
\* writers wait, whatever the order of blocking, waking and leaving.
CountersExact ==
    /\ readers = Cardinality(Inside(Readers))
    /\ writers = Cardinality(Inside(Writers))
    /\ waiting = Cardinality(WaitingWriters)

\* No wakeup is lost: a blocked writer has somebody inside who will signal it,
\* and a blocked reader has a writer inside, waiting, or woken.
NobodyLeftBlocked ==
    /\ BlockedWriters # {} => Inside(Threads) # {}
    /\ BlockedReaders # {} =>
          \E t \in Writers : pc[t] \in {"blocked", "woken", "inside", "leave"}

\* All threads finish: readers that come back again and again do not keep the
\* writer out, and the writer's last signals leave no reader blocked.
AllFinish == <>(\A t \in Threads : pc[t] = "done")
=============================================================================
