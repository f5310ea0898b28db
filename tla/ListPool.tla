------------------------------- MODULE ListPool --------------------------------
(***************************************************************************)
(* The second thread pool of Assignment 5 (web_server/Meg(Sanit).c).  The    *)
(* main thread puts requests in a linked list and drops them when the list  *)
(* is long; the workers have no condition variable: each tests the size of  *)
(* the list again and again without the mutex, and takes the mutex only     *)
(* when there seems to be something.  With "FCFS" a worker takes the first  *)
(* request, otherwise it prefers the second one if that is for a thumbnail. *)
(*                                                                          *)
(* A connection and the request made from it share a name.  The name of a   *)
(* connection that was closed is given out again, as its descriptor is.     *)
(***************************************************************************)
EXTENDS Integers, Sequences

CONSTANTS
    LIMIT,     \* the list takes a request while it has at most this many
    Workers,   \* the worker threads
    Main,      \* the main thread
    Conns,     \* the connections that may be open at the same time
    Thumbs,    \* those that ask for a file with "thumb" in its name
    NULL

Threads == Workers \cup {Main}

ASSUME ListAssumption ==
    /\ LIMIT \in Nat
    /\ Main \notin Workers
    /\ Thumbs \subseteq Conns
    /\ NULL \notin Conns \cup Threads

VARIABLES
    list, size,   \* the linked list from its head on, and the counter beside it
    me,           \* 1 for FCFS, 2 for the other mode
    mut,          \* the thread that holds the mutex, or NULL
    pc,           \* where each thread is; "spin" is the loop of remove_sff
    req,          \* the request a thread has in hand, or NULL
    todo,         \* the connections not opened yet
    closes        \* how often tcp_close was called on each since it was accepted

vars == <<list, size, me, mut, pc, req, todo, closes>>

\* The mode is an argument of the program.
Init ==
    /\ list = <<>> /\ size = 0
    /\ me \in {1, 2}
    /\ mut = NULL
    /\ pc = [t \in Threads |-> IF t = Main THEN "accept" ELSE "test"]
    /\ req = [t \in Threads |-> NULL]
    /\ todo = Conns
    /\ closes = [c \in Conns |-> 0]

\* The process lives until main returns.
Up == pc[Main] # "exit"

Goto(t, l) == pc' = [pc EXCEPT ![t] = l]
Hold(t, c) == req' = [req EXCEPT ![t] = c]

Lock(t) ==
    /\ Up
    /\ pc[t] = "lock"
    /\ mut = NULL
    /\ mut' = t
    /\ Goto(t, "locked")
    /\ UNCHANGED <<list, size, me, req, todo, closes>>

-----------------------------------------------------------------------------
(* The main thread *)

\* A client connects; clients go on coming.
Accept ==
    /\ pc[Main] = "accept"
    /\ \E c \in Conns :
          /\ c \in todo \/ closes[c] > 0
          /\ todo' = todo \ {c}
          /\ closes' = [closes EXCEPT ![c] = 0]
          /\ Hold(Main, c)
    /\ Goto(Main, "create")
    /\ UNCHANGED <<list, size, me, mut>>

\* tcp_accept returned 0: nobody connected for 300 seconds, or accept failed.
AcceptFails ==
    /\ pc[Main] = "accept"
    /\ Goto(Main, "exit")
    /\ UNCHANGED <<list, size, me, mut, req, todo, closes>>

RequestCreated ==
    /\ pc[Main] = "create"
    /\ Goto(Main, "lock")
    /\ UNCHANGED <<list, size, me, mut, req, todo, closes>>

\* request_create has closed the connection before it returned 0; main closes
\* it once more.
RequestNotCreated ==
    /\ pc[Main] = "create"
    /\ closes' = [closes EXCEPT ![req[Main]] = @ + 2]
    /\ Hold(Main, NULL)
    /\ Goto(Main, "accept")
    /\ UNCHANGED <<list, size, me, mut, todo>>

\* Slip: the new node becomes the head.
EnqueueFront ==
    /\ size =< LIMIT
    /\ list' = <<req[Main]>> \o list
    /\ size' = size + 1

Enqueue ==
    /\ size =< LIMIT
    /\ list' = Append(list, req[Main])
    /\ size' = size + 1

\* The list is long, or there is no memory for a node: the request is gone,
\* and its connection stays open.
Drop == UNCHANGED <<list, size>>

PutOrDrop ==
    /\ pc[Main] = "locked"
    /\ Enqueue \/ Drop
    /\ Hold(Main, NULL)
    /\ Goto(Main, "unlock")
    /\ UNCHANGED <<me, mut, todo, closes>>

MainUnlock ==
    /\ pc[Main] = "unlock"
    /\ mut' = NULL
    /\ Goto(Main, "accept")
    /\ UNCHANGED <<list, size, me, req, todo, closes>>

-----------------------------------------------------------------------------
(* A worker thread *)

\* The size is read without the mutex: by the time the worker has the mutex
\* another one may have emptied the list.
Test(t) ==
    /\ Up
    /\ pc[t] = "test"
    /\ size > 0
    /\ Goto(t, "lock")
    /\ UNCHANGED <<list, size, me, mut, req, todo, closes>>

\* Slip: the counter goes down before the list is found empty.
RemoveNothingCounted(t) ==
    /\ list = <<>>
    /\ Hold(t, NULL)
    /\ size' = size - 1
    /\ UNCHANGED list

RemoveNothing(t) ==
    /\ list = <<>>
    /\ Hold(t, NULL)
    /\ UNCHANGED <<list, size>>

RemoveFirst(t) ==
    /\ list # <<>>
    /\ Hold(t, Head(list))
    /\ list' = Tail(list)
    /\ size' = size - 1

remove_fcfs(t) == RemoveNothing(t) \/ RemoveFirst(t)

\* Slip: the node is not unlinked.
RemoveSecondLinked(t) ==
    /\ Hold(t, list[2])
    /\ size' = size - 1
    /\ UNCHANGED list

RemoveSecond(t) ==
    /\ Hold(t, list[2])
    /\ list' = <<Head(list)>> \o Tail(Tail(list))
    /\ size' = size - 1

\* Only the second of three or more is looked at.
SecondIsThumb == Len(list) > 2 /\ list[2] \in Thumbs

remove_sff(t) ==
    \/ SecondIsThumb /\ RemoveSecond(t)
    \/ Len(list) =< 2 /\ remove_fcfs(t)

Remove(t) ==
    /\ Up
    /\ pc[t] = "locked"
    /\ IF me = 1 THEN remove_fcfs(t) ELSE remove_sff(t)
    /\ Goto(t, "unlock")
    /\ UNCHANGED <<me, mut, todo, closes>>

\* The loop of remove_sff never moves on: if the second of three or more is not
\* a thumbnail the worker stays in it, with the mutex.
Spins(t) ==
    /\ Up
    /\ pc[t] = "locked"
    /\ me = 2 /\ Len(list) > 2 /\ ~ SecondIsThumb
    /\ Goto(t, "spin")
    /\ UNCHANGED <<list, size, me, mut, req, todo, closes>>

WorkerUnlock(t) ==
    /\ Up
    /\ pc[t] = "unlock"
    /\ mut' = NULL
    /\ Goto(t, IF req[t] = NULL THEN "test" ELSE "handle")
    /\ UNCHANGED <<list, size, me, req, todo, closes>>

\* request_handle: the answer is sent, or given up.
Handle(t) ==
    /\ Up
    /\ pc[t] = "handle"
    /\ Goto(t, "delete")
    /\ UNCHANGED <<list, size, me, mut, req, todo, closes>>

Delete(t) ==
    /\ Up
    /\ pc[t] = "delete"
    /\ closes' = [closes EXCEPT ![req[t]] = @ + 1]
    /\ Hold(t, NULL)
    /\ Goto(t, "test")
    /\ UNCHANGED <<list, size, me, mut, todo>>

-----------------------------------------------------------------------------

MainStep ==
    \/ Lock(Main) \/ RequestCreated \/ RequestNotCreated
    \/ PutOrDrop \/ MainUnlock

WorkerStep(t) ==
    \/ Test(t) \/ Lock(t) \/ Remove(t) \/ Spins(t)
    \/ WorkerUnlock(t) \/ Handle(t) \/ Delete(t)

Next ==
    \/ Accept \/ AcceptFails \/ MainStep
    \/ \E t \in Workers : WorkerStep(t)

Spec == Init /\ [][Next]_vars

\* Every thread is scheduled, and gets the mutex when it is free again and
\* again.  Nothing forces a client to connect, and nothing forces request_create
\* to return: it reads header lines until an empty one comes, and tcp_sleep
\* grants every read another second, the 300 seconds over or not.
FairSpec ==
    /\ Spec
    /\ WF_vars(MainStep /\ pc[Main] # "create") /\ SF_vars(Lock(Main))
    /\ \A t \in Workers : WF_vars(WorkerStep(t)) /\ SF_vars(Lock(t))

-----------------------------------------------------------------------------
(* Properties *)

MainPCs   == {"accept", "create", "lock", "locked", "unlock", "exit"}
WorkerPCs == {"test", "lock", "locked", "spin", "unlock", "handle", "delete"}

TypeOK ==
    /\ list \in Seq(Conns) /\ size \in Nat
    /\ me \in {1, 2}
    /\ mut \in Threads \cup {NULL}
    /\ pc \in [Threads -> MainPCs \cup WorkerPCs]
    /\ pc[Main] \in MainPCs
    /\ \A t \in Workers : pc[t] \in WorkerPCs
    /\ req \in [Threads -> Conns \cup {NULL}]
    /\ todo \subseteq Conns
    /\ closes \in [Conns -> Nat]

\* Every request is in one place, a cell of the list or a thread's hand, and
\* while it is there its connection is open: no two workers answer one request
\* or free it twice, whatever they read of the size without the mutex.
HeldOnce ==
    /\ \A m, n \in DOMAIN list : list[m] = list[n] => m = n
    /\ \A t, u \in Threads : req[t] = req[u] /\ req[t] # NULL => t = u
    /\ \A t \in Threads : \A n \in DOMAIN list : list[n] # req[t]
    /\ \A c \in Conns :
          ((\E t \in Threads : req[t] = c) \/ (\E n \in DOMAIN list : list[n] = c)) =>
              closes[c] = 0 /\ c \notin todo

\* With FCFS the list is a queue of at most LIMIT + 1 requests: the test for
\* room comes before the request is counted.
FIFO == INSTANCE BoundedFIFO WITH
            Item <- Conns, Capacity <- LIMIT + 1,
            q <- IF me = 1 THEN list ELSE <<>>

FirstComeFirstServed == FIFO!Spec

\* A thumbnail is taken next although c is at the head of the list.
Passed(c) == SecondIsThumb /\ Head(list) = c

\* A request that got into the list is answered and closed, although workers
\* race for it with a size that may be old, more requests come without end, and
\* main may be held by a client that does not finish its own: unless the server
\* shuts down.  In the other mode two more things can keep it: a stream of
\* thumbnails that pass it again and again at the head of the list, and a worker
\* caught in the loop of remove_sff.
EveryoneServed ==
    \A c \in Conns :
        (\E n \in DOMAIN list : list[n] = c) ~>
            \/ (closes[c] > 0 \/ ~Up)
            \/ (me = 2 /\ ((\E t \in Workers : pc[t] = "spin") \/ []<>Passed(c)))
=============================================================================
