----------------------------- MODULE ThreadPool -----------------------------
(***************************************************************************)
(* The thread pool of Assignment 5 (web_server/webserver_pool.c) in FCFS    *)
(* mode: the main thread accepts connections and puts requests in a ring of *)
(* ALEN cells; worker threads take them out, answer and delete them.  One   *)
(* mutex guards the ring, and one condition variable serves both sides: the *)
(* main thread waits on it while the ring is full, the workers while it is  *)
(* empty.                                                                   *)
(*                                                                          *)
(* A connection and the request made from it share a name.  The critical    *)
(* sections are cut where the lock is taken, where the thread tests its     *)
(* cell, and where the lock is released.                                    *)
(***************************************************************************)
EXTENDS Integers, FiniteSets

CONSTANTS
    ALEN,      \* cells of the ring
    Workers,   \* the worker threads
    Main,      \* the main thread
    Conns,     \* the connections that clients may open
    NULL

Threads == Workers \cup {Main}
Cells   == 0 .. ALEN - 1

ASSUME ALENAssumption == ALEN \in Nat \ {0}
ASSUME NamesAssumption ==
    /\ Main \notin Workers
    /\ NULL \notin Conns \cup Threads
    /\ Threads \cap Cells = {}

VARIABLES
    requests, w, r,   \* the ring, where main writes and where workers read
    mut,              \* the thread that holds the mutex, or NULL
    pc,               \* where each thread is; "wait" is inside pthread_cond_wait
    req,              \* the request a thread has in hand, or NULL
    todo,             \* the connections not opened yet
    closes            \* how often tcp_close was called on each connection

ring == <<requests, w, r>>
vars == <<requests, w, r, mut, pc, req, todo, closes>>

Init ==
    /\ requests = [k \in Cells |-> NULL]
    /\ w = 0 /\ r = 0
    /\ mut = NULL
    /\ pc = [t \in Threads |-> IF t = Main THEN "accept" ELSE "lock"]
    /\ req = [t \in Threads |-> NULL]
    /\ todo = Conns
    /\ closes = [c \in Conns |-> 0]

\* The process lives until main returns.
Up == pc[Main] # "exit"

Goto(t, l) == pc' = [pc EXCEPT ![t] = l]

-----------------------------------------------------------------------------
(* pthread_mutex_lock, pthread_mutex_unlock, pthread_cond_wait as POSIX      *)
(* gives them to the program.                                                *)

Waiting == {t \in Threads : pc[t] = "wait"}

\* Take the mutex: to enter the critical section, or on the way out of a wait.
Lock(t) ==
    /\ Up
    /\ pc[t] = "lock"
    /\ mut = NULL
    /\ mut' = t
    /\ Goto(t, "check")
    /\ UNCHANGED <<ring, req, todo, closes>>

\* pthread_cond_wait may return without a signal.
SpuriousWakeup(t) ==
    /\ Up
    /\ pc[t] = "wait"
    /\ Goto(t, "lock")
    /\ UNCHANGED <<ring, mut, req, todo, closes>>

\* The calling thread t goes to l, and the threads of S are woken.
WakeAndGoto(S, t, l) ==
    pc' = [u \in Threads |-> IF u = t THEN l ELSE IF u \in S THEN "lock" ELSE pc[u]]

\* pthread_cond_signal wakes one of the waiting threads, if there are any.
Signal(t, l) ==
    \/ Waiting = {} /\ WakeAndGoto({}, t, l)
    \/ \E u \in Waiting : WakeAndGoto({u}, t, l)

Broadcast(t, l) == WakeAndGoto(Waiting, t, l)

Wait(t) ==
    /\ mut' = NULL
    /\ Goto(t, "wait")
    /\ UNCHANGED <<ring, req, todo, closes>>

-----------------------------------------------------------------------------
(* The main thread *)

Accept ==
    /\ pc[Main] = "accept"
    /\ \E c \in todo :
          /\ todo' = todo \ {c}
          /\ req' = [req EXCEPT ![Main] = c]
    /\ Goto(Main, "create")
    /\ UNCHANGED <<ring, mut, closes>>

\* tcp_accept returned 0: nobody connected for 300 seconds, or accept failed.
AcceptFails ==
    /\ pc[Main] = "accept"
    /\ Goto(Main, "exit")
    /\ UNCHANGED <<ring, mut, req, todo, closes>>

RequestCreated ==
    /\ pc[Main] = "create"
    /\ Goto(Main, "lock")
    /\ UNCHANGED <<ring, mut, req, todo, closes>>

\* Slip: the result of request_create is not tested.
RequestNotCreatedUsed ==
    /\ pc[Main] = "create"
    /\ closes' = [closes EXCEPT ![req[Main]] = @ + 2]
    /\ Goto(Main, "lock")
    /\ UNCHANGED <<ring, mut, req, todo>>

\* request_create could not read the request: it calls request_delete, which
\* closes the connection, and returns 0; main closes it once more.
RequestNotCreated ==
    /\ pc[Main] = "create"
    /\ closes' = [closes EXCEPT ![req[Main]] = @ + 2]
    /\ req' = [req EXCEPT ![Main] = NULL]
    /\ Goto(Main, "accept")
    /\ UNCHANGED <<ring, mut, todo>>

MainWait ==
    /\ pc[Main] = "check"
    /\ requests[w] # NULL
    /\ Wait(Main)

\* Slip: signal in place of broadcast.
PutSignals ==
    /\ pc[Main] = "check"
    /\ requests[w] = NULL
    /\ requests' = [requests EXCEPT ![w] = req[Main]]
    /\ w' = (w + 1) % ALEN
    /\ req' = [req EXCEPT ![Main] = NULL]
    /\ Signal(Main, "unlock")
    /\ UNCHANGED <<r, mut, todo, closes>>

Put ==
    /\ pc[Main] = "check"
    /\ requests[w] = NULL
    /\ requests' = [requests EXCEPT ![w] = req[Main]]
    /\ w' = (w + 1) % ALEN
    /\ req' = [req EXCEPT ![Main] = NULL]
    /\ Broadcast(Main, "unlock")
    /\ UNCHANGED <<r, mut, todo, closes>>

\* Slip: main keeps the mutex.
MainUnlockForgotten ==
    /\ pc[Main] = "unlock"
    /\ Goto(Main, "accept")
    /\ UNCHANGED <<ring, mut, req, todo, closes>>

MainUnlock ==
    /\ pc[Main] = "unlock"
    /\ mut' = NULL
    /\ Goto(Main, "accept")
    /\ UNCHANGED <<ring, req, todo, closes>>

-----------------------------------------------------------------------------
(* A worker thread *)

WorkerWait(t) ==
    /\ Up
    /\ pc[t] = "check"
    /\ requests[r] = NULL
    /\ Wait(t)

\* Slip: the requests are sorted first, which only SFF does.
TakeSorted(t) ==
    /\ Up
    /\ pc[t] = "check"
    /\ requests[r] # NULL
    /\ \E k \in {l \in Cells : requests[l] # NULL} :
          /\ req' = [req EXCEPT ![t] = requests[k]]
          /\ requests' = [requests EXCEPT ![k] = requests[r], ![r] = NULL]
    /\ r' = (r + 1) % ALEN
    /\ Signal(t, "unlock")
    /\ UNCHANGED <<w, mut, todo, closes>>

Take(t) ==
    /\ Up
    /\ pc[t] = "check"
    /\ requests[r] # NULL
    /\ req' = [req EXCEPT ![t] = requests[r]]
    /\ requests' = [requests EXCEPT ![r] = NULL]
    /\ r' = (r + 1) % ALEN
    /\ Signal(t, "unlock")
    /\ UNCHANGED <<w, mut, todo, closes>>

WorkerUnlock(t) ==
    /\ Up
    /\ pc[t] = "unlock"
    /\ mut' = NULL
    /\ Goto(t, "handle")
    /\ UNCHANGED <<ring, req, todo, closes>>

\* request_handle: the answer is sent, or given up; then request_delete.
Handle(t) ==
    /\ Up
    /\ pc[t] = "handle"
    /\ Goto(t, "delete")
    /\ UNCHANGED <<ring, mut, req, todo, closes>>

Delete(t) ==
    /\ Up
    /\ pc[t] = "delete"
    /\ closes' = [closes EXCEPT ![req[t]] = @ + 1]
    /\ req' = [req EXCEPT ![t] = NULL]
    /\ Goto(t, "lock")
    /\ UNCHANGED <<ring, mut, todo>>

-----------------------------------------------------------------------------

\* What the main thread does of itself; that a client connects, or that none
\* does for 300 seconds, is up to the clients.
MainStep ==
    \/ Lock(Main) \/ RequestCreated \/ RequestNotCreated
    \/ MainWait \/ Put \/ MainUnlock

WorkerStep(t) ==
    \/ Lock(t) \/ WorkerWait(t) \/ Take(t) \/ WorkerUnlock(t) \/ Handle(t) \/ Delete(t)

Next ==
    \/ Accept \/ AcceptFails \/ MainStep
    \/ \E t \in Workers : WorkerStep(t)
    \/ \E t \in Threads : SpuriousWakeup(t)

Spec == Init /\ [][Next]_vars

\* Every thread is scheduled, and gets the mutex when it is free again and
\* again while the thread asks for it.  The strong fairness of Lock matters only
\* against a thread that wakes up without a signal for ever; without spurious
\* wakeups weak fairness is enough.  Nothing forces request_create to return: it
\* reads header lines until an empty one comes, and tcp_sleep grants every read
\* another second, the 300 seconds over or not.
FairSpec ==
    /\ Spec
    /\ WF_vars(MainStep /\ pc[Main] # "create") /\ SF_vars(Lock(Main))
    /\ \A t \in Workers : WF_vars(WorkerStep(t)) /\ SF_vars(Lock(t))

-----------------------------------------------------------------------------
(* Properties *)

MainPCs   == {"accept", "create", "lock", "check", "wait", "unlock", "exit"}
WorkerPCs == {"lock", "check", "wait", "unlock", "handle", "delete"}

TypeOK ==
    /\ requests \in [Cells -> Conns \cup {NULL}]
    /\ w \in Cells /\ r \in Cells
    /\ mut \in Threads \cup {NULL}
    /\ pc \in [Threads -> MainPCs \cup WorkerPCs]
    /\ pc[Main] \in MainPCs
    /\ \A t \in Workers : pc[t] \in WorkerPCs
    /\ req \in [Threads -> Conns \cup {NULL}]
    /\ todo \subseteq Conns
    /\ closes \in [Conns -> Nat]

\* Only the holder of the mutex is between lock and unlock.
MutualExclusion ==
    \A t \in Threads : pc[t] \in {"check", "unlock"} <=> mut = t

\* One cell tells about all: if the cell at r is empty the ring is, and if the
\* cell at w is taken all are.  So a thread that waits has nothing to do, and
\* no request is left behind in the ring.
OneCellTells ==
    /\ requests[r] = NULL => \A k \in Cells : requests[k] = NULL
    /\ requests[w] # NULL => \A k \in Cells : requests[k] # NULL

\* Nobody sleeps on work: with one condition variable for both sides, a signal
\* meant for main must not be spent on a worker.  While a request is in the
\* ring no worker waits, and while a cell is free main does not.
NoLostWakeup ==
    \A t \in Threads : pc[t] = "wait" =>
        \A k \in Cells : IF t = Main THEN requests[k] # NULL ELSE requests[k] = NULL

\* The places where a request can be: the cells of the ring and the threads.
Holds(p, c) == IF p \in Cells THEN requests[p] = c ELSE req[p] = c

\* Every request is in one place, and while it is anywhere its connection is
\* open: no two workers answer one request or free it twice.
HeldOnce ==
    \A c \in Conns : \A p, q \in Cells \cup Threads :
        (Holds(p, c) /\ Holds(q, c)) => p = q /\ closes[c] = 0 /\ c \notin todo

\* The requests in the ring, from r on, are a FIFO queue of ALEN requests: put
\* appends to it and a worker takes its head (FCFS), around the end of the ring.
FIFO == INSTANCE BoundedFIFO WITH
            Item <- Conns, Capacity <- ALEN,
            q <- [n \in 1 .. Cardinality({k \in Cells : requests[k] # NULL}) |->
                    requests[(r + n - 1) % ALEN]]

FirstComeFirstServed == FIFO!Spec

\* The main thread reads the request of c, at the pace of its client.
Reading(c) == pc[Main] = "create" /\ req[Main] = c

\* Every connection that was accepted, and whose request main is not reading, is
\* closed, unless the server shuts down; also while another client holds main
\* for ever, with header lines that do not end.
EveryoneServed ==
    \A c \in Conns : (c \notin todo /\ ~Reading(c)) ~> (closes[c] > 0 \/ ~Up)
=============================================================================
