-------------------------- MODULE ThreadPool_proofs --------------------------
(***************************************************************************)
(* Proofs about the thread pool, for any number of cells, workers and       *)
(* connections.                                                             *)
(***************************************************************************)
EXTENDS ThreadPool, Sequences, FiniteSetTheorems, TLAPS

\* The step of a position around the ring.
LEMMA NextCell ==
    ASSUME NEW k \in Cells
    PROVE  (k + 1) % ALEN = IF k = ALEN - 1 THEN 0 ELSE k + 1
<1> USE ALENAssumption DEF Cells
<1>1. CASE k = ALEN - 1
  BY <1>1
<1>2. CASE k # ALEN - 1
  <2>1. k + 1 \in 0 .. ALEN - 1
    BY <1>2
  <2> QED  BY <2>1, <1>2
<1> QED  BY <1>1, <1>2

\* Counting n more calls of tcp_close for connection x.
LEMMA Closing ==
    ASSUME NEW f \in [Conns -> Nat], NEW x, NEW n \in Nat
    PROVE  [f EXCEPT ![x] = @ + n] \in [Conns -> Nat]
<1>1. CASE x \in Conns
  <2>1. f[x] + n \in Nat
    BY <1>1
  <2> QED  BY <2>1
<1>2. CASE x \notin Conns
  BY <1>2
<1> QED  BY <1>1, <1>2

\* Every variable keeps its type.
THEOREM TypeCorrect == Spec => []TypeOK
<1>1. Init => TypeOK
  BY ALENAssumption, NamesAssumption
  DEF Init, TypeOK, Cells, Threads, MainPCs, WorkerPCs
<1>2. TypeOK /\ [Next]_vars => TypeOK'
  <2> SUFFICES ASSUME TypeOK, [Next]_vars  PROVE TypeOK'
    OBVIOUS
  <2> USE ALENAssumption, NamesAssumption DEF TypeOK, Threads, MainPCs, WorkerPCs
  <2>1. CASE UNCHANGED vars
    BY <2>1 DEF vars, ring
  <2>2. CASE Accept
    BY <2>2 DEF Accept, Goto, ring
  <2>3. CASE AcceptFails
    BY <2>3 DEF AcceptFails, Goto, ring
  <2>4. CASE RequestCreated
    BY <2>4 DEF RequestCreated, Goto, ring
  <2>5. CASE RequestNotCreated
    <3>1. closes' \in [Conns -> Nat]
      BY <2>5, Closing DEF RequestNotCreated
    <3> QED  BY <2>5, <3>1 DEF RequestNotCreated, Goto, ring
  <2>6. CASE MainWait
    BY <2>6 DEF MainWait, Wait, Goto, ring
  <2>7. CASE Put
    BY <2>7, NextCell DEF Put, Broadcast, WakeAndGoto, Cells
  <2>8. CASE MainUnlock
    BY <2>8 DEF MainUnlock, Goto, ring
  <2>9. ASSUME NEW t \in Threads, Lock(t)  PROVE TypeOK'
    BY <2>9 DEF Lock, Goto, ring
  <2>10. ASSUME NEW t \in Threads, SpuriousWakeup(t)  PROVE TypeOK'
    BY <2>10 DEF SpuriousWakeup, Goto, ring
  <2>11. ASSUME NEW t \in Workers, WorkerWait(t)  PROVE TypeOK'
    BY <2>11 DEF WorkerWait, Wait, Goto, ring
  <2>12. ASSUME NEW t \in Workers, Take(t)  PROVE TypeOK'
    BY <2>12, NextCell DEF Take, Signal, WakeAndGoto, Cells
  <2>13. ASSUME NEW t \in Workers, WorkerUnlock(t)  PROVE TypeOK'
    BY <2>13 DEF WorkerUnlock, Goto, ring
  <2>14. ASSUME NEW t \in Workers, Handle(t)  PROVE TypeOK'
    BY <2>14 DEF Handle, Goto, ring
  <2>15. ASSUME NEW t \in Workers, Delete(t)  PROVE TypeOK'
    <3>1. closes' \in [Conns -> Nat]
      BY <2>15, Closing DEF Delete
    <3> QED  BY <2>15, <3>1 DEF Delete, Goto, ring
  <2> QED
    BY <2>1, <2>2, <2>3, <2>4, <2>5, <2>6, <2>7, <2>8, <2>9, <2>10, <2>11,
       <2>12, <2>13, <2>14, <2>15 DEF Next, MainStep, WorkerStep
<1> QED  BY <1>1, <1>2, PTL DEF Spec

-----------------------------------------------------------------------------
(* The inductive invariant: the mutex, what each thread has in hand, which   *)
(* cells are in use, and from these that no wakeup is lost.                  *)

\* A thread has a request in hand exactly between getting and giving it away.
InHand ==
    \A t \in Threads :
        req[t] # NULL <=>
            pc[t] \in IF t = Main THEN {"create", "lock", "check", "wait"}
                                 ELSE {"unlock", "handle", "delete"}

\* The cells in use are those from r up to w, around the end of the ring; where
\* r and w meet all are in use or none.
RingShape ==
    \/ /\ r = w
       /\ \/ \A k \in Cells : requests[k] = NULL
          \/ \A k \in Cells : requests[k] # NULL
    \/ r < w /\ \A k \in Cells : requests[k] # NULL <=> (r =< k /\ k < w)
    \/ w < r /\ \A k \in Cells : requests[k] # NULL <=> (r =< k \/ k < w)

IInv == TypeOK /\ MutualExclusion /\ InHand /\ RingShape /\ NoLostWakeup

LEMMA InitIInv == Init => MutualExclusion /\ InHand /\ RingShape /\ NoLostWakeup
  BY ALENAssumption, NamesAssumption
  DEF Init, MutualExclusion, InHand, RingShape, NoLostWakeup, Threads, Cells

\* A thread is in a critical section exactly while it holds the mutex.
LEMMA MutexStep ==
    ASSUME TypeOK, MutualExclusion, [Next]_vars  PROVE MutualExclusion'
<1> USE NamesAssumption DEF TypeOK, MutualExclusion, Threads
<1>1. CASE UNCHANGED vars
  BY <1>1 DEF vars
<1>2. CASE Accept
  BY <1>2 DEF Accept, Goto
<1>3. CASE AcceptFails
  BY <1>3 DEF AcceptFails, Goto
<1>4. CASE RequestCreated
  BY <1>4 DEF RequestCreated, Goto
<1>5. CASE RequestNotCreated
  BY <1>5 DEF RequestNotCreated, Goto
<1>6. CASE MainWait
  BY <1>6 DEF MainWait, Wait, Goto
<1>7. CASE Put
  BY <1>7 DEF Put, Broadcast, WakeAndGoto, Waiting
<1>8. CASE MainUnlock
  BY <1>8 DEF MainUnlock, Goto
<1>9. ASSUME NEW t \in Threads, Lock(t)  PROVE MutualExclusion'
  BY <1>9 DEF Lock, Goto
<1>10. ASSUME NEW t \in Threads, SpuriousWakeup(t)  PROVE MutualExclusion'
  BY <1>10 DEF SpuriousWakeup, Goto
<1>11. ASSUME NEW t \in Workers, WorkerWait(t)  PROVE MutualExclusion'
  BY <1>11 DEF WorkerWait, Wait, Goto
<1>12. ASSUME NEW t \in Workers, Take(t)  PROVE MutualExclusion'
  BY <1>12 DEF Take, Signal, WakeAndGoto, Waiting
<1>13. ASSUME NEW t \in Workers, WorkerUnlock(t)  PROVE MutualExclusion'
  BY <1>13 DEF WorkerUnlock, Goto
<1>14. ASSUME NEW t \in Workers, Handle(t)  PROVE MutualExclusion'
  BY <1>14 DEF Handle, Goto
<1>15. ASSUME NEW t \in Workers, Delete(t)  PROVE MutualExclusion'
  BY <1>15 DEF Delete, Goto
<1> QED
  BY <1>1, <1>2, <1>3, <1>4, <1>5, <1>6, <1>7, <1>8, <1>9, <1>10, <1>11,
     <1>12, <1>13, <1>14, <1>15 DEF Next, MainStep, WorkerStep

LEMMA InHandStep ==
    ASSUME TypeOK, MutualExclusion, InHand, RingShape, [Next]_vars  PROVE InHand'
<1> USE NamesAssumption DEF TypeOK, InHand, Threads
<1>1. CASE UNCHANGED vars
  BY <1>1 DEF vars
<1>2. CASE Accept
  BY <1>2 DEF Accept, Goto
<1>3. CASE AcceptFails
  BY <1>3 DEF AcceptFails, Goto
<1>4. CASE RequestCreated
  BY <1>4 DEF RequestCreated, Goto
<1>5. CASE RequestNotCreated
  BY <1>5 DEF RequestNotCreated, Goto
<1>6. CASE MainWait
  BY <1>6 DEF MainWait, Wait, Goto
<1>7. CASE Put
  BY <1>7 DEF Put, Broadcast, WakeAndGoto, Waiting
<1>8. CASE MainUnlock
  BY <1>8 DEF MainUnlock, Goto
<1>9. ASSUME NEW t \in Threads, Lock(t)  PROVE InHand'
  BY <1>9 DEF Lock, Goto
<1>10. ASSUME NEW t \in Threads, SpuriousWakeup(t)  PROVE InHand'
  BY <1>10 DEF SpuriousWakeup, Goto
<1>11. ASSUME NEW t \in Workers, WorkerWait(t)  PROVE InHand'
  BY <1>11 DEF WorkerWait, Wait, Goto
<1>12. ASSUME NEW t \in Workers, Take(t)  PROVE InHand'
  BY <1>12 DEF Take, Signal, WakeAndGoto, Waiting
<1>13. ASSUME NEW t \in Workers, WorkerUnlock(t)  PROVE InHand'
  BY <1>13 DEF WorkerUnlock, Goto
<1>14. ASSUME NEW t \in Workers, Handle(t)  PROVE InHand'
  BY <1>14 DEF Handle, Goto
<1>15. ASSUME NEW t \in Workers, Delete(t)  PROVE InHand'
  BY <1>15 DEF Delete, Goto
<1> QED
  BY <1>1, <1>2, <1>3, <1>4, <1>5, <1>6, <1>7, <1>8, <1>9, <1>10, <1>11,
     <1>12, <1>13, <1>14, <1>15 DEF Next, MainStep, WorkerStep

\* Only Put and Take touch the ring.
LEMMA RingUnchanged ==
    ASSUME [Next]_vars, ~Put, \A t \in Workers : ~Take(t)
    PROVE  UNCHANGED ring
  BY DEF Next, MainStep, WorkerStep, vars, ring, Accept, AcceptFails, RequestCreated,
         RequestNotCreated, MainWait, Wait, MainUnlock, Lock, SpuriousWakeup,
         WorkerWait, WorkerUnlock, Handle, Delete

LEMMA RingStep ==
    ASSUME TypeOK, InHand, RingShape, [Next]_vars  PROVE RingShape'
<1> USE ALENAssumption, NamesAssumption DEF RingShape, Cells
<1>1. CASE Put
  <2>1. req[Main] # NULL
    BY <1>1 DEF Put, InHand, Threads
  <2>2. w' = IF w = ALEN - 1 THEN 0 ELSE w + 1
    BY <1>1, NextCell DEF Put, TypeOK
  <2>3. r' = r /\ r \in Cells /\ w \in Cells
    BY <1>1 DEF Put, TypeOK
  <2>4. \A k \in Cells : requests'[k] = IF k = w THEN req[Main] ELSE requests[k]
    BY <1>1 DEF Put, TypeOK
  <2>5. requests[w] = NULL
    BY <1>1 DEF Put
  <2> QED  BY <2>1, <2>2, <2>3, <2>4, <2>5
<1>2. ASSUME NEW t \in Workers, Take(t)  PROVE RingShape'
  <2>1. r' = IF r = ALEN - 1 THEN 0 ELSE r + 1
    BY <1>2, NextCell DEF Take, TypeOK
  <2>2. w' = w /\ r \in Cells /\ w \in Cells
    BY <1>2 DEF Take, TypeOK
  <2>3. \A k \in Cells : requests'[k] = IF k = r THEN NULL ELSE requests[k]
    BY <1>2 DEF Take, TypeOK
  <2>4. requests[r] # NULL
    BY <1>2 DEF Take
  <2> QED  BY <2>1, <2>2, <2>3, <2>4
<1>3. CASE ~Put /\ \A t \in Workers : ~Take(t)
  BY <1>3, RingUnchanged DEF ring
<1> QED  BY <1>1, <1>2, <1>3

\* From the shape of the ring: one cell tells whether it is empty or full.
LEMMA ShapeTells == ASSUME TypeOK, RingShape  PROVE OneCellTells
  BY ALENAssumption DEF TypeOK, RingShape, OneCellTells, Cells

\* A step that moves no thread into the wait, and leaves the ring alone, cannot
\* break NoLostWakeup.
LEMMA NobodyStartsToWait ==
    ASSUME NoLostWakeup, UNCHANGED requests,
           \A t \in Threads : pc'[t] = "wait" => pc[t] = "wait"
    PROVE  NoLostWakeup'
  BY DEF NoLostWakeup

LEMMA WakeupStep ==
    ASSUME TypeOK, MutualExclusion, RingShape, NoLostWakeup, [Next]_vars
    PROVE  NoLostWakeup'
<1> USE NamesAssumption
<1>1. OneCellTells
  BY ShapeTells
<1>2. CASE Put
  <2>1. \A t \in Threads : pc'[t] # "wait"
    BY <1>2 DEF Put, Broadcast, WakeAndGoto, Waiting
  <2> QED  BY <2>1 DEF NoLostWakeup
<1>3. ASSUME NEW t \in Workers, Take(t)  PROVE NoLostWakeup'
  <2>1. r \in Cells /\ requests[r] # NULL
    BY <1>3 DEF Take, TypeOK
  <2>2. \A u \in Workers : pc[u] # "wait"
    BY <2>1 DEF NoLostWakeup, Threads
  <2>3. Waiting \subseteq {Main}
    BY <2>2 DEF Waiting, Threads
  <2>4. \A u \in Threads : pc'[u] # "wait"
    BY <1>3, <2>3 DEF Take, Signal, WakeAndGoto, Waiting, Threads
  <2> QED  BY <2>4 DEF NoLostWakeup
<1>4. CASE MainWait
  <2>1. \A k \in Cells : requests[k] # NULL
    BY <1>1, <1>4 DEF MainWait, OneCellTells
  <2>2. \A u \in Workers : pc'[u] = pc[u]
    BY <1>4 DEF MainWait, Wait, Goto, TypeOK, Threads
  <2>3. UNCHANGED requests
    BY <1>4 DEF MainWait, Wait, ring
  <2> QED  BY <2>1, <2>2, <2>3 DEF NoLostWakeup, Threads
<1>5. ASSUME NEW t \in Workers, WorkerWait(t)  PROVE NoLostWakeup'
  <2>1. \A k \in Cells : requests[k] = NULL
    BY <1>1, <1>5 DEF WorkerWait, OneCellTells
  <2>2. \A u \in Threads \ {t} : pc'[u] = pc[u]
    BY <1>5 DEF WorkerWait, Wait, Goto, TypeOK
  <2>3. UNCHANGED requests
    BY <1>5 DEF WorkerWait, Wait, ring
  <2> QED  BY <2>1, <2>2, <2>3 DEF NoLostWakeup, Threads
<1>6. CASE Accept
  BY <1>6, NobodyStartsToWait DEF Accept, Goto, TypeOK, ring
<1>7. CASE AcceptFails
  BY <1>7, NobodyStartsToWait DEF AcceptFails, Goto, TypeOK, ring
<1>8. CASE RequestCreated
  BY <1>8, NobodyStartsToWait DEF RequestCreated, Goto, TypeOK, ring
<1>9. CASE RequestNotCreated
  BY <1>9, NobodyStartsToWait DEF RequestNotCreated, Goto, TypeOK, ring
<1>10. CASE MainUnlock
  BY <1>10, NobodyStartsToWait DEF MainUnlock, Goto, TypeOK, ring
<1>11. ASSUME NEW t \in Threads, Lock(t)  PROVE NoLostWakeup'
  BY <1>11, NobodyStartsToWait DEF Lock, Goto, TypeOK, ring
<1>12. ASSUME NEW t \in Threads, SpuriousWakeup(t)  PROVE NoLostWakeup'
  BY <1>12, NobodyStartsToWait DEF SpuriousWakeup, Goto, TypeOK, ring
<1>13. ASSUME NEW t \in Workers, WorkerUnlock(t)  PROVE NoLostWakeup'
  BY <1>13, NobodyStartsToWait DEF WorkerUnlock, Goto, TypeOK, ring
<1>14. ASSUME NEW t \in Workers, Handle(t)  PROVE NoLostWakeup'
  BY <1>14, NobodyStartsToWait DEF Handle, Goto, TypeOK, ring
<1>15. ASSUME NEW t \in Workers, Delete(t)  PROVE NoLostWakeup'
  BY <1>15, NobodyStartsToWait DEF Delete, Goto, TypeOK, ring
<1>16. CASE UNCHANGED vars
  BY <1>16, NobodyStartsToWait DEF vars, ring
<1> QED
  BY <1>2, <1>3, <1>4, <1>5, <1>6, <1>7, <1>8, <1>9, <1>10, <1>11, <1>12,
     <1>13, <1>14, <1>15, <1>16 DEF Next, MainStep, WorkerStep, Threads

\* The invariant is inductive.
THEOREM Invariant == Spec => []IInv
<1>1. Init /\ TypeOK => IInv
  BY InitIInv DEF IInv
<1>2. IInv /\ TypeOK' /\ [Next]_vars => IInv'
  BY MutexStep, InHandStep, RingStep, WakeupStep DEF IInv
<1> QED  BY <1>1, <1>2, TypeCorrect, PTL DEF Spec

\* At most one thread is between lock and unlock: webserver_pool.c:46-59, 182-195.
THEOREM Mutex == Spec => []MutualExclusion
<1>1. IInv => MutualExclusion
  BY DEF IInv
<1> QED  BY <1>1, Invariant, PTL

\* The tests requests[r] == NULL and requests[w] != NULL (webserver_pool.c:48, 184)
\* tell whether the whole ring is empty or full, for every number of cells.
THEOREM RingTests == Spec => []OneCellTells
<1>1. IInv => OneCellTells
  BY ShapeTells DEF IInv
<1> QED  BY <1>1, Invariant, PTL

\* One condition variable for both sides, with signal on one and broadcast on the
\* other (webserver_pool.c:58, 193), is enough: nobody sleeps on work.
THEOREM WakeupsSuffice == Spec => []NoLostWakeup
<1>1. IInv => NoLostWakeup
  BY DEF IInv
<1> QED  BY <1>1, Invariant, PTL

-----------------------------------------------------------------------------
(* Where the requests are *)

Places == Cells \cup Threads

\* A connection that was not opened yet is closed nowhere.
Fresh == \A c \in todo : closes[c] = 0

LEMMA HoldsCell ==
    ASSUME NEW k \in Cells, NEW c  PROVE Holds(k, c) <=> requests[k] = c
  BY DEF Holds

LEMMA HoldsThread ==
    ASSUME NEW t \in Threads, NEW c  PROVE Holds(t, c) <=> req[t] = c
  BY NamesAssumption DEF Holds

\* Nothing appears out of nowhere: a step that leaves todo and closes alone and
\* moves one request from place p to place q, or none, keeps HeldOnce.
LEMMA Moving ==
    ASSUME HeldOnce, Fresh, UNCHANGED <<todo, closes>>,
           NEW p \in Places, NEW q \in Places,
           \A c \in Conns, x \in Places :
               Holds(x, c)' <=> IF x = q THEN Holds(p, c)
                                ELSE x # p /\ Holds(x, c)
    PROVE  HeldOnce' /\ Fresh'
  BY DEF HeldOnce, Fresh, Places

\* A step that leaves the ring, the hands, todo and closes alone.
LEMMA Still ==
    ASSUME HeldOnce, Fresh, UNCHANGED <<requests, req, todo, closes>>
    PROVE  HeldOnce' /\ Fresh'
  BY DEF HeldOnce, Fresh, Holds

\* A thread closes the connection in its hand n times and lets go of it.
LEMMA Dropping ==
    ASSUME TypeOK, HeldOnce, Fresh, UNCHANGED <<requests, todo>>,
           NEW t \in Threads, req[t] \in Conns, NEW n \in Nat,
           req' = [req EXCEPT ![t] = NULL],
           closes' = [closes EXCEPT ![req[t]] = @ + n]
    PROVE  HeldOnce' /\ Fresh'
<1>1. \A c \in Conns, x \in Places : Holds(x, c)' <=> x # t /\ Holds(x, c)
  BY NamesAssumption DEF Holds, Places, TypeOK
<1>2. \A x \in Places : Holds(x, req[t]) => x = t
  BY HoldsThread DEF HeldOnce, Places
<1>3. \A c \in Conns : c # req[t] => closes'[c] = closes[c]
  BY DEF TypeOK
<1>4. HeldOnce'
  BY <1>1, <1>2, <1>3 DEF HeldOnce, Places
<1>5. req[t] \notin todo
  BY HoldsThread DEF HeldOnce, Places
<1>6. Fresh'
  BY <1>3, <1>5 DEF Fresh, TypeOK
<1> QED  BY <1>4, <1>6

LEMMA HeldStep ==
    ASSUME IInv, HeldOnce, Fresh, [Next]_vars  PROVE HeldOnce' /\ Fresh'
<1> USE NamesAssumption
<1>0. TypeOK /\ InHand
  BY DEF IInv
<1>1. CASE Accept
  <2>1. PICK c \in todo : todo' = todo \ {c} /\ req' = [req EXCEPT ![Main] = c]
    BY <1>1 DEF Accept
  <2>2. UNCHANGED <<requests, closes>>
    BY <1>1 DEF Accept, ring
  <2>3. c \in Conns /\ closes[c] = 0
    BY <1>0, <2>1 DEF TypeOK, Fresh
  <2>4. \A x \in Places : ~Holds(x, c)
    BY <2>1, <2>3 DEF HeldOnce, Places
  <2>5. \A e \in Conns, x \in Places : Holds(x, e)' =>
           IF x = Main THEN e = c ELSE Holds(x, e)
    BY <1>0, <2>1, <2>2 DEF Holds, TypeOK, Threads
  <2>6. HeldOnce'
    BY <2>1, <2>2, <2>3, <2>4, <2>5 DEF HeldOnce, Places
  <2>7. Fresh'
    BY <2>1, <2>2 DEF Fresh
  <2> QED  BY <2>6, <2>7
<1>2. CASE RequestNotCreated
  <2>1. req[Main] \in Conns /\ Main \in Threads
    BY <1>0, <1>2 DEF RequestNotCreated, InHand, TypeOK, Threads
  <2> QED  BY <1>0, <1>2, <2>1, Dropping DEF RequestNotCreated, ring
<1>3. ASSUME NEW t \in Workers, Delete(t)  PROVE HeldOnce' /\ Fresh'
  <2>1. req[t] \in Conns /\ t \in Threads
    BY <1>0, <1>3 DEF Delete, InHand, TypeOK, Threads
  <2> QED  BY <1>0, <1>3, <2>1, Dropping DEF Delete, ring
<1>4. CASE Put
  <2>1. w \in Places /\ Main \in Places /\ w # Main
    BY <1>0 DEF TypeOK, Places, Threads
  <2>2. UNCHANGED <<todo, closes>>
    BY <1>4 DEF Put
  <2>3. \A c \in Conns, x \in Places :
           Holds(x, c)' <=> IF x = w THEN Holds(Main, c) ELSE x # Main /\ Holds(x, c)
    BY <1>0, <1>4 DEF Put, Holds, Places, TypeOK, Threads
  <2> QED  BY <2>1, <2>2, <2>3, Moving
<1>5. ASSUME NEW t \in Workers, Take(t)  PROVE HeldOnce' /\ Fresh'
  <2>1. r \in Places /\ t \in Places /\ r # t
    BY <1>0 DEF TypeOK, Places, Threads
  <2>2. UNCHANGED <<todo, closes>>
    BY <1>5 DEF Take
  <2>3. \A c \in Conns, x \in Places :
           Holds(x, c)' <=> IF x = t THEN Holds(r, c) ELSE x # r /\ Holds(x, c)
    BY <1>0, <1>5 DEF Take, Holds, Places, TypeOK, Threads
  <2> QED  BY <2>1, <2>2, <2>3, Moving
<1>6. CASE ~Accept /\ ~RequestNotCreated /\ ~Put /\ \A t \in Workers : ~Delete(t) /\ ~Take(t)
  <2>1. UNCHANGED <<requests, req, todo, closes>>
    BY <1>6 DEF Next, MainStep, WorkerStep, vars, ring, AcceptFails, RequestCreated,
         MainWait, Wait, MainUnlock, Lock, SpuriousWakeup, WorkerWait, WorkerUnlock, Handle
  <2> QED  BY <2>1, Still
<1> QED  BY <1>1, <1>2, <1>3, <1>4, <1>5, <1>6

\* A request is in the ring or with one thread, never twice, and its connection is
\* open: no two workers answer it, or free it a second time.
THEOREM RequestsHeldOnce == Spec => []HeldOnce
<1>1. Init => HeldOnce /\ Fresh
  BY NamesAssumption DEF Init, HeldOnce, Fresh, Holds
<1>2. IInv /\ HeldOnce /\ Fresh /\ [Next]_vars => HeldOnce' /\ Fresh'
  BY HeldStep
<1> QED  BY <1>1, <1>2, Invariant, PTL DEF Spec
-----------------------------------------------------------------------------
(* The ring is a queue *)

\* The cell that is n behind cell k, around the end of the ring.
Behind(k, n) == IF k + n < ALEN THEN k + n ELSE k + n - ALEN

LEMMA BehindIsMod ==
    ASSUME NEW k \in Cells, NEW n \in 0 .. ALEN
    PROVE  (k + n) % ALEN = Behind(k, n) /\ Behind(k, n) \in Cells
<1> USE ALENAssumption DEF Cells, Behind
<1>1. CASE k + n < ALEN
  BY <1>1
<1>2. CASE k + n >= ALEN
  <2>1. k + n - ALEN \in 0 .. ALEN - 1
    BY <1>2
  <2>2. (k + n) % ALEN = (k + n - ALEN) % ALEN
    BY <1>2
  <2> QED  BY <1>2, <2>1, <2>2
<1> QED  BY <1>1, <1>2

Taken == {k \in Cells : requests[k] # NULL}
Count == Cardinality(Taken)

\* The taken cells are the Count cells from r on, and w is behind them.
RingQueue ==
    /\ Count \in 0 .. ALEN
    /\ w = Behind(r, Count)
    /\ \A n \in 0 .. ALEN - 1 : requests[Behind(r, n)] # NULL <=> n < Count

LEMMA TakenFinite == IsFiniteSet(Taken) /\ Count \in Nat
<1>1. IsFiniteSet(Cells)
  BY FS_Interval, ALENAssumption DEF Cells
<1>2. IsFiniteSet(Taken)
  BY <1>1, FS_Subset DEF Taken
<1> QED  BY <1>2, FS_CardinalityType DEF Count

LEMMA PutRing ==
    ASSUME TypeOK, InHand, RingQueue, Put
    PROVE  RingQueue' /\ Count < ALEN /\ Count' = Count + 1
<1> USE ALENAssumption
<1>0. /\ r \in Cells /\ w \in Cells /\ r' = r
      /\ req[Main] # NULL /\ requests[w] = NULL
      /\ \A k \in Cells : requests'[k] = IF k = w THEN req[Main] ELSE requests[k]
  BY DEF Put, TypeOK, InHand, Threads
<1>1. Count < ALEN
  <2>1. requests[Behind(r, 0)] # NULL <=> 0 < Count
    BY DEF RingQueue
  <2> QED  BY <1>0, <2>1 DEF RingQueue, Behind, Cells
<1>2. Count' = Count + 1
  <2>1. Taken' = Taken \cup {w} /\ w \notin Taken
    BY <1>0 DEF Taken
  <2> QED  BY <2>1, TakenFinite, FS_AddElement DEF Count
<1>3. w' = Behind(r, Count + 1)
  <2>1. w' = IF w = ALEN - 1 THEN 0 ELSE w + 1
    BY <1>0, NextCell DEF Put
  <2> QED  BY <1>0, <1>1, <2>1 DEF RingQueue, Behind, Cells
<1>4. ASSUME NEW n \in 0 .. ALEN - 1
      PROVE  requests'[Behind(r, n)] # NULL <=> n < Count + 1
  <2>1. Behind(r, n) \in Cells /\ (Behind(r, n) = w <=> n = Count)
    BY <1>0, <1>1 DEF RingQueue, Behind, Cells
  <2>2. requests[Behind(r, n)] # NULL <=> n < Count
    BY DEF RingQueue
  <2> QED  BY <1>0, <1>1, <2>1, <2>2 DEF RingQueue
<1> QED  BY <1>0, <1>1, <1>2, <1>3, <1>4 DEF RingQueue

LEMMA TakeRing ==
    ASSUME TypeOK, RingQueue, NEW t \in Workers, Take(t)
    PROVE  RingQueue' /\ Count > 0 /\ Count' = Count - 1
<1> USE ALENAssumption
<1>0. /\ r \in Cells /\ w' = w
      /\ requests[r] # NULL
      /\ \A k \in Cells : requests'[k] = IF k = r THEN NULL ELSE requests[k]
  BY DEF Take, TypeOK
<1>1. Count > 0
  <2>1. requests[Behind(r, 0)] # NULL <=> 0 < Count
    BY DEF RingQueue
  <2> QED  BY <1>0, <2>1 DEF Behind, Cells
<1>2. Count' = Count - 1
  <2>1. Taken' = Taken \ {r} /\ r \in Taken
    BY <1>0 DEF Taken
  <2> QED  BY <2>1, TakenFinite, FS_RemoveElement DEF Count
<1>3. r' = IF r = ALEN - 1 THEN 0 ELSE r + 1
  BY <1>0, NextCell DEF Take
<1>4. r' \in Cells /\ w' = Behind(r', Count - 1)
  BY <1>0, <1>1, <1>3 DEF RingQueue, Behind, Cells
<1>5. ASSUME NEW n \in 0 .. ALEN - 1
      PROVE  requests'[Behind(r', n)] # NULL <=> n < Count - 1
  <2>1. CASE n = ALEN - 1
    <3>1. Behind(r', n) = r
      BY <1>0, <1>3, <2>1 DEF Behind, Cells
    <3> QED  BY <1>0, <2>1, <3>1 DEF RingQueue
  <2>2. CASE n < ALEN - 1
    <3>1. Behind(r', n) = Behind(r, n + 1) /\ Behind(r', n) # r /\ Behind(r', n) \in Cells
      BY <1>0, <1>3, <2>2 DEF Behind, Cells
    <3>2. requests[Behind(r, n + 1)] # NULL <=> n + 1 < Count
      BY <2>2 DEF RingQueue
    <3> QED  BY <1>0, <3>1, <3>2 DEF RingQueue
  <2> QED  BY <2>1, <2>2
<1> QED  BY <1>1, <1>2, <1>4, <1>5 DEF RingQueue

LEMMA RingQueueStep ==
    ASSUME TypeOK, InHand, RingQueue, [Next]_vars  PROVE RingQueue'
<1>1. CASE UNCHANGED ring
  BY <1>1 DEF ring, RingQueue, Count, Taken
<1> QED  BY <1>1, PutRing, TakeRing, RingUnchanged

Queue == [n \in 1 .. Cardinality({k \in Cells : requests[k] # NULL}) |->
            requests[(r + n - 1) % ALEN]]

\* The queue of FirstComeFirstServed, cell by cell.
InRing ==
    /\ Queue \in Seq(Conns) /\ Len(Queue) = Count
    /\ \A n \in 1 .. Count : Queue[n] = requests[Behind(r, n - 1)]

LEMMA QueueInRing == ASSUME TypeOK, RingQueue  PROVE InRing
<1> USE ALENAssumption
<1>0. Count \in 0 .. ALEN /\ r \in Cells
  BY DEF TypeOK, RingQueue
<1>1. Queue = [n \in 1 .. Count |-> requests[(r + n - 1) % ALEN]]
  BY DEF Queue, Count, Taken
<1>2. ASSUME NEW n \in 1 .. Count
      PROVE  Queue[n] = requests[Behind(r, n - 1)] /\ Queue[n] \in Conns
  <2>1. n - 1 \in 0 .. ALEN - 1 /\ n - 1 \in 0 .. ALEN /\ n - 1 < Count
        /\ r + n - 1 = r + (n - 1)
    BY <1>0 DEF Cells
  <2>2. (r + n - 1) % ALEN = Behind(r, n - 1) /\ Behind(r, n - 1) \in Cells
    BY <1>0, <2>1, BehindIsMod
  <2>3. requests[Behind(r, n - 1)] # NULL
    BY <2>1 DEF RingQueue
  <2> QED  BY <1>1, <2>2, <2>3 DEF TypeOK
<1>3. Queue \in Seq(Conns) /\ Len(Queue) = Count
  BY <1>0, <1>1, <1>2
<1> QED  BY <1>2, <1>3 DEF InRing

LEMMA PutAppends ==
    ASSUME TypeOK, TypeOK', InHand, RingQueue, Put
    PROVE  req[Main] \in Conns /\ Len(Queue) < ALEN /\ Queue' = Append(Queue, req[Main])
<1> USE ALENAssumption
<1>1. InRing /\ RingQueue' /\ Count < ALEN /\ Count' = Count + 1 /\ Count \in Nat
  BY QueueInRing, PutRing, TakenFinite
<1>2. InRing'
  <2>1. TypeOK' /\ RingQueue' => InRing'
    BY QueueInRing, PTL
  <2> QED  BY <1>1, <2>1
<1>3. /\ r \in Cells /\ w \in Cells /\ r' = r /\ req[Main] \in Conns
      /\ \A k \in Cells : requests'[k] = IF k = w THEN req[Main] ELSE requests[k]
  BY DEF Put, TypeOK, InHand, Threads
<1>4. Queue' \in Seq(Conns) /\ Len(Queue') = Count + 1
      /\ \A n \in 1 .. Count + 1 : Queue'[n] = requests'[Behind(r, n - 1)]
  BY <1>1, <1>2, <1>3 DEF InRing
<1>5. /\ Queue \in Seq(Conns) /\ Len(Queue) = Count
      /\ \A n \in 1 .. Count : Queue[n] = requests[Behind(r, n - 1)]
  BY <1>1 DEF InRing
<1>6. Append(Queue, req[Main]) \in Seq(Conns) /\ Len(Append(Queue, req[Main])) = Count + 1
  BY <1>3, <1>5
<1>7. ASSUME NEW n \in 1 .. Count + 1  PROVE Queue'[n] = Append(Queue, req[Main])[n]
  <2>1. Behind(r, n - 1) \in Cells /\ (Behind(r, n - 1) = w <=> n = Count + 1)
    BY <1>1, <1>3 DEF RingQueue, Behind, Cells
  <2>2. CASE n = Count + 1
    BY <1>3, <1>4, <1>5, <2>1, <2>2
  <2>3. CASE n < Count + 1
    BY <1>1, <1>3, <1>4, <1>5, <2>1, <2>3
  <2>4. n = Count + 1 \/ n < Count + 1
    BY <1>1
  <2> QED  BY <2>2, <2>3, <2>4
<1> QED  BY <1>1, <1>3, <1>4, <1>5, <1>6, <1>7

LEMMA TakeTakesHead ==
    ASSUME TypeOK, TypeOK', RingQueue, NEW t \in Workers, Take(t)
    PROVE  Queue # <<>> /\ Queue' = Tail(Queue)
<1> USE ALENAssumption
<1>1. InRing /\ RingQueue' /\ Count > 0 /\ Count' = Count - 1 /\ Count \in 0 .. ALEN
  BY QueueInRing, TakeRing DEF RingQueue
<1>2. InRing'
  <2>1. TypeOK' /\ RingQueue' => InRing'
    BY QueueInRing, PTL
  <2> QED  BY <1>1, <2>1
<1>3. /\ r \in Cells /\ r' \in Cells
      /\ r' = IF r = ALEN - 1 THEN 0 ELSE r + 1
      /\ \A k \in Cells : requests'[k] = IF k = r THEN NULL ELSE requests[k]
  BY NextCell DEF Take, TypeOK
<1>4. Queue' \in Seq(Conns) /\ Len(Queue') = Count - 1
      /\ \A n \in 1 .. Count - 1 : Queue'[n] = requests'[Behind(r', n - 1)]
  BY <1>1, <1>2 DEF InRing
<1>5. /\ Queue \in Seq(Conns) /\ Len(Queue) = Count
      /\ \A n \in 1 .. Count : Queue[n] = requests[Behind(r, n - 1)]
  BY <1>1 DEF InRing
<1>6. Queue # <<>> /\ Tail(Queue) \in Seq(Conns) /\ Len(Tail(Queue)) = Count - 1
  BY <1>1, <1>5
<1>7. ASSUME NEW n \in 1 .. Count - 1  PROVE Queue'[n] = Tail(Queue)[n]
  <2>1. Tail(Queue)[n] = Queue[n + 1] /\ n + 1 \in 1 .. Count /\ (n + 1) - 1 = n
    BY <1>1, <1>5, <1>6
  <2>2. Behind(r', n - 1) = Behind(r, n) /\ Behind(r, n) # r /\ Behind(r, n) \in Cells
    BY <1>1, <1>3 DEF Behind, Cells
  <2> QED  BY <1>3, <1>4, <1>5, <2>1, <2>2
<1> QED  BY <1>4, <1>6, <1>7

\* A worker takes the request that has been in the ring for longest, and main
\* puts one only while there are fewer than ALEN (webserver_pool.c:44-59, 182-195):
\* the ring implements the bounded queue, for every number of cells.
THEOREM ImplementsBoundedFIFO == Spec => FirstComeFirstServed
<1>1. Init => FIFO!Init /\ RingQueue
  <2> SUFFICES ASSUME Init  PROVE Queue = <<>> /\ RingQueue
    BY DEF FIFO!Init, Queue
  <2>1. Taken = {} /\ r \in Cells /\ r = 0 /\ w = 0
    BY ALENAssumption DEF Init, Taken, Cells
  <2>2. Count = 0
    BY <2>1, FS_EmptySet DEF Count
  <2>3. \A n \in 0 .. ALEN - 1 : requests[Behind(r, n)] = NULL
    BY <2>1, ALENAssumption DEF Init, Behind, Cells
  <2>4. Queue = <<>>
    <3>1. Queue = [n \in 1 .. Count |-> requests[(r + n - 1) % ALEN]]
      BY DEF Queue, Count, Taken
    <3> QED  BY <2>2, <3>1
  <2>5. RingQueue
    BY <2>1, <2>2, <2>3, ALENAssumption DEF RingQueue, Behind
  <2> QED  BY <2>4, <2>5
<1>2. IInv /\ RingQueue /\ [Next]_vars => RingQueue'
  BY RingQueueStep DEF IInv
<1>3. ASSUME IInv, IInv', RingQueue, [Next]_vars  PROVE [FIFO!Next]_Queue
  <2>0. TypeOK /\ TypeOK' /\ InHand
    BY <1>3 DEF IInv
  <2>1. CASE Put
    BY <1>3, <2>0, <2>1, PutAppends DEF FIFO!Next, FIFO!Put, Queue
  <2>2. ASSUME NEW t \in Workers, Take(t)  PROVE [FIFO!Next]_Queue
    BY <1>3, <2>0, <2>2, TakeTakesHead DEF FIFO!Next, FIFO!Get, Queue
  <2>3. CASE UNCHANGED ring
    BY <2>3 DEF ring, Queue
  <2> QED  BY <1>3, <2>1, <2>2, <2>3, RingUnchanged
<1> QED
  BY <1>1, <1>2, <1>3, Invariant, PTL DEF Spec, FirstComeFirstServed, FIFO!Spec, Queue
=============================================================================
