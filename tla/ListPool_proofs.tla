--------------------------- MODULE ListPool_proofs ---------------------------
(***************************************************************************)
(* Proofs about the thread pool with the list, for any limit, workers and   *)
(* connections and in both modes.                                           *)
(***************************************************************************)
EXTENDS ListPool, SequenceTheorems, TLAPS

\* The list without its second node.
LEMMA SecondRemoved ==
    ASSUME NEW S, NEW s \in Seq(S), Len(s) > 2
    PROVE  LET u == <<Head(s)>> \o Tail(Tail(s))
           IN  /\ u \in Seq(S) /\ Len(u) = Len(s) - 1
               /\ \A n \in 1 .. Len(u) : u[n] = s[IF n = 1 THEN 1 ELSE n + 1]
<1> DEFINE u == <<Head(s)>> \o Tail(Tail(s))
<1>1. Tail(s) \in Seq(S) /\ Len(Tail(s)) = Len(s) - 1
  OBVIOUS
<1>2. Tail(Tail(s)) \in Seq(S) /\ Len(Tail(Tail(s))) = Len(s) - 2
  <2> DEFINE v == Tail(s)
  <2>1. v \in Seq(S) /\ Len(v) = Len(s) - 1 /\ Len(v) > 0
    BY <1>1
  <2> HIDE DEF v
  <2>2. Tail(v) \in Seq(S) /\ Len(Tail(v)) = Len(v) - 1
    BY <2>1
  <2> QED  BY <2>1, <2>2 DEF v
<1>3. \A n \in 1 .. Len(s) - 2 : Tail(Tail(s))[n] = s[n + 2]
  <2>1. \A n \in 1 .. Len(s) - 1 : Tail(s)[n] = s[n + 1]
    OBVIOUS
  <2>2. \A n \in 1 .. Len(s) - 2 : Tail(Tail(s))[n] = Tail(s)[n + 1]
    BY <1>1
  <2> QED  BY <2>1, <2>2
<1>4. <<Head(s)>> \in Seq(S) /\ Len(<<Head(s)>>) = 1 /\ Head(s) = s[1]
  OBVIOUS
<1>5. u \in Seq(S) /\ Len(u) = Len(s) - 1
  BY <1>2, <1>4
<1>6. \A n \in 1 .. Len(u) : u[n] = s[IF n = 1 THEN 1 ELSE n + 1]
  BY <1>2, <1>3, <1>4, <1>5
<1> QED  BY <1>5, <1>6

\* Counting n more calls of tcp_close for connection x.
LEMMA Closing ==
    ASSUME NEW f \in [Conns -> Nat], NEW x, NEW n \in Nat
    PROVE  [f EXCEPT ![x] = @ + n] \in [Conns -> Nat]
<1>1. CASE x \in Conns
  BY <1>1
<1>2. CASE x \notin Conns
  BY <1>2
<1> QED  BY <1>1, <1>2

\* The inductive invariant: the counter is the length, main has a request in
\* hand from accept to the list, and what nobody opened nobody closed.
SizeIsLength == size = Len(list)

MainHasOne == pc[Main] \in {"create", "lock", "locked"} => req[Main] # NULL

TodoUnclosed == \A c \in todo : closes[c] = 0

IInv == TypeOK /\ SizeIsLength /\ MainHasOne /\ TodoUnclosed /\ HeldOnce

\* What a worker does when it removes a request, in either mode: it gets one
\* that was in the list, whose other requests keep their order, or nothing.
RemovesAt(t, k) ==
    /\ req' = [req EXCEPT ![t] = list[k]]
    /\ list' \in Seq(Conns) /\ Len(list') = Len(list) - 1
    /\ \A n \in 1 .. Len(list') : list'[n] = list[IF n < k THEN n ELSE n + 1]
    /\ size' = size - 1

LEMMA RemoveCases ==
    ASSUME IInv, NEW t \in Workers, Remove(t)
    PROVE  \/ req' = [req EXCEPT ![t] = NULL] /\ UNCHANGED <<list, size>>
           \/ \E k \in 1 .. Len(list) : RemovesAt(t, k)
<1>1. list \in Seq(Conns)
  BY DEF IInv, TypeOK
<1>2. CASE RemoveNothing(t)
  BY <1>2 DEF RemoveNothing, Hold
<1>3. CASE RemoveFirst(t)
  <2>1. /\ list # <<>> /\ req' = [req EXCEPT ![t] = list[1]]
        /\ list' = Tail(list) /\ size' = size - 1
    BY <1>1, <1>3 DEF RemoveFirst, Hold
  <2>2. /\ list' \in Seq(Conns) /\ Len(list') = Len(list) - 1
        /\ \A n \in 1 .. Len(list') : list'[n] = list[n + 1]
    BY <1>1, <2>1
  <2>3. \A n \in 1 .. Len(list') : list'[n] = list[IF n < 1 THEN n ELSE n + 1]
    BY <2>2
  <2>4. 1 \in 1 .. Len(list)
    BY <1>1, <2>1
  <2>5. RemovesAt(t, 1)
    BY <2>1, <2>2, <2>3 DEF RemovesAt
  <2> QED  BY <2>4, <2>5
<1>4. CASE SecondIsThumb /\ RemoveSecond(t)
  <2>1. /\ Len(list) > 2 /\ req' = [req EXCEPT ![t] = list[2]]
        /\ list' = <<Head(list)>> \o Tail(Tail(list)) /\ size' = size - 1
    BY <1>4 DEF SecondIsThumb, RemoveSecond, Hold
  <2>2. /\ list' \in Seq(Conns) /\ Len(list') = Len(list) - 1
        /\ \A n \in 1 .. Len(list') : list'[n] = list[IF n = 1 THEN 1 ELSE n + 1]
    BY <1>1, <2>1, SecondRemoved
  <2>3. \A n \in 1 .. Len(list') : list'[n] = list[IF n < 2 THEN n ELSE n + 1]
    BY <2>2, <1>1
  <2>4. 2 \in 1 .. Len(list)
    BY <1>1, <2>1
  <2>5. RemovesAt(t, 2)
    BY <2>1, <2>2, <2>3 DEF RemovesAt
  <2> QED  BY <2>4, <2>5
<1> QED  BY <1>2, <1>3, <1>4 DEF Remove, remove_fcfs, remove_sff

\* The list after main has put a request in it.
LEMMA Enqueued ==
    ASSUME NEW s \in Seq(Conns), NEW c \in Conns
    PROVE  /\ Append(s, c) \in Seq(Conns)
           /\ Len(Append(s, c)) = Len(s) + 1
           /\ \A n \in 1 .. Len(s) + 1 :
                 Append(s, c)[n] = IF n = Len(s) + 1 THEN c ELSE s[n]
  OBVIOUS

LEMMA TypeStep ==
    ASSUME IInv, [Next]_vars  PROVE TypeOK' /\ SizeIsLength'
<1> USE ListAssumption DEF TypeOK, Threads, MainPCs, WorkerPCs
<1> TypeOK /\ SizeIsLength /\ MainHasOne
  BY DEF IInv
<1>1. CASE UNCHANGED vars
  BY <1>1 DEF vars, SizeIsLength
<1>2. CASE Accept
  BY <1>2 DEF Accept, Goto, Hold, SizeIsLength
<1>3. CASE AcceptFails
  BY <1>3 DEF AcceptFails, Goto, SizeIsLength
<1>4. CASE RequestCreated
  BY <1>4 DEF RequestCreated, Goto, SizeIsLength
<1>5. CASE RequestNotCreated
  <2>1. closes' \in [Conns -> Nat]
    BY <1>5, Closing DEF RequestNotCreated
  <2> QED  BY <1>5, <2>1 DEF RequestNotCreated, Goto, Hold, SizeIsLength
<1>6. CASE PutOrDrop
  <2>1. CASE Enqueue
    <3>1. req[Main] \in Conns
      BY <1>6 DEF PutOrDrop, MainHasOne
    <3>2. list' \in Seq(Conns) /\ size' \in Nat /\ size' = Len(list')
      BY <2>1, <3>1, Enqueued DEF Enqueue, SizeIsLength
    <3> QED  BY <1>6, <3>2 DEF PutOrDrop, Goto, Hold, SizeIsLength
  <2>2. CASE Drop
    BY <1>6, <2>2 DEF PutOrDrop, Drop, Goto, Hold, SizeIsLength
  <2> QED  BY <1>6, <2>1, <2>2 DEF PutOrDrop
<1>7. CASE MainUnlock
  BY <1>7 DEF MainUnlock, Goto, SizeIsLength
<1>8. ASSUME NEW t \in Threads, Lock(t)  PROVE TypeOK' /\ SizeIsLength'
  BY <1>8 DEF Lock, Goto, SizeIsLength
<1>9. ASSUME NEW t \in Workers, Test(t)  PROVE TypeOK' /\ SizeIsLength'
  BY <1>9 DEF Test, Goto, SizeIsLength
<1>10. ASSUME NEW t \in Workers, Remove(t)  PROVE TypeOK' /\ SizeIsLength'
  <2>1. /\ list' \in Seq(Conns) /\ size' \in Nat /\ size' = Len(list')
        /\ req' \in [Threads -> Conns \cup {NULL}]
    <3>1. CASE req' = [req EXCEPT ![t] = NULL] /\ UNCHANGED <<list, size>>
      BY <3>1 DEF SizeIsLength
    <3>2. ASSUME NEW k \in 1 .. Len(list), RemovesAt(t, k)
          PROVE  /\ list' \in Seq(Conns) /\ size' \in Nat /\ size' = Len(list')
                 /\ req' \in [Threads -> Conns \cup {NULL}]
      <4>1. list[k] \in Conns
        BY <3>2
      <4>2. Len(list) \in Nat /\ Len(list) > 0
        BY <3>2
      <4> QED  BY <3>2, <4>1, <4>2 DEF RemovesAt, SizeIsLength
    <3> QED  BY <1>10, <3>1, <3>2, RemoveCases
  <2> QED  BY <1>10, <2>1 DEF Remove, Goto, SizeIsLength
<1>11. ASSUME NEW t \in Workers, Spins(t)  PROVE TypeOK' /\ SizeIsLength'
  BY <1>11 DEF Spins, Goto, SizeIsLength
<1>12. ASSUME NEW t \in Workers, WorkerUnlock(t)  PROVE TypeOK' /\ SizeIsLength'
  BY <1>12 DEF WorkerUnlock, Goto, SizeIsLength
<1>13. ASSUME NEW t \in Workers, Handle(t)  PROVE TypeOK' /\ SizeIsLength'
  BY <1>13 DEF Handle, Goto, SizeIsLength
<1>14. ASSUME NEW t \in Workers, Delete(t)  PROVE TypeOK' /\ SizeIsLength'
  <2>1. closes' \in [Conns -> Nat]
    BY <1>14, Closing DEF Delete
  <2> QED  BY <1>14, <2>1 DEF Delete, Goto, Hold, SizeIsLength
<1> QED
  BY <1>1, <1>2, <1>3, <1>4, <1>5, <1>6, <1>7, <1>8, <1>9, <1>10, <1>11,
     <1>12, <1>13, <1>14 DEF Next, MainStep, WorkerStep

\* The steps that leave the requests where they are.
StaysPut == UNCHANGED <<list, req, todo, closes>>

LEMMA StayStep ==
    ASSUME IInv, StaysPut  PROVE TodoUnclosed' /\ HeldOnce'
  BY DEF IInv, StaysPut, TodoUnclosed, HeldOnce

LEMMA HeldStep ==
    ASSUME IInv, [Next]_vars  PROVE TodoUnclosed' /\ HeldOnce'
<1> USE ListAssumption DEF Threads
<1> TypeOK /\ SizeIsLength /\ MainHasOne /\ TodoUnclosed /\ HeldOnce
  BY DEF IInv
<1>1. CASE UNCHANGED vars
  BY <1>1, StayStep DEF vars, StaysPut
<1>2. CASE Accept
  BY <1>2 DEF Accept, Hold, TypeOK, TodoUnclosed, HeldOnce
<1>3. CASE AcceptFails \/ RequestCreated \/ MainUnlock
  BY <1>3, StayStep DEF AcceptFails, RequestCreated, MainUnlock, StaysPut
<1>4. CASE RequestNotCreated
  BY <1>4 DEF RequestNotCreated, Hold, TypeOK, MainHasOne, TodoUnclosed, HeldOnce
<1>5. CASE PutOrDrop
  <2>1. CASE Enqueue
    BY <1>5, <2>1, Enqueued DEF PutOrDrop, Enqueue, Hold, TypeOK, MainHasOne, TodoUnclosed, HeldOnce
  <2>2. CASE Drop
    BY <1>5, <2>2 DEF PutOrDrop, Drop, Hold, TypeOK, TodoUnclosed, HeldOnce
  <2> QED  BY <1>5, <2>1, <2>2 DEF PutOrDrop
<1>6. ASSUME NEW t \in Threads, Lock(t)  PROVE TodoUnclosed' /\ HeldOnce'
  BY <1>6, StayStep DEF Lock, StaysPut
<1>7. ASSUME NEW t \in Workers, Test(t) \/ Spins(t) \/ WorkerUnlock(t) \/ Handle(t)
      PROVE  TodoUnclosed' /\ HeldOnce'
  BY <1>7, StayStep DEF Test, Spins, WorkerUnlock, Handle, StaysPut
<1>8. ASSUME NEW t \in Workers, Remove(t)  PROVE TodoUnclosed' /\ HeldOnce'
  <2>1. UNCHANGED <<todo, closes>>
    BY <1>8 DEF Remove
  <2>2. CASE req' = [req EXCEPT ![t] = NULL] /\ UNCHANGED <<list, size>>
    BY <2>1, <2>2 DEF TypeOK, TodoUnclosed, HeldOnce
  <2>3. ASSUME NEW k \in 1 .. Len(list), RemovesAt(t, k)
        PROVE  TodoUnclosed' /\ HeldOnce'
    <3> DEFINE from(n) == IF n < k THEN n ELSE n + 1
    <3>1. list \in Seq(Conns) /\ DOMAIN list = 1 .. Len(list)
          /\ DOMAIN list' = 1 .. Len(list') /\ Len(list') = Len(list) - 1
      BY <2>3 DEF TypeOK, RemovesAt
    <3>2. \A n \in DOMAIN list' :
             from(n) \in DOMAIN list /\ from(n) # k /\ list'[n] = list[from(n)]
      BY <2>3, <3>1 DEF RemovesAt
    <3>3. \A m, n \in DOMAIN list' : from(m) = from(n) => m = n
      BY <3>1
    <3>4. k \in DOMAIN list /\ list[k] \in Conns
      BY <3>1
    <3>5. req'[t] = list[k] /\ \A u \in Threads \ {t} : req'[u] = req[u]
      BY <2>3 DEF TypeOK, RemovesAt
    <3> HIDE DEF from
    <3>6. \A m, n \in DOMAIN list' : list'[m] = list'[n] => m = n
      BY <3>2, <3>3 DEF HeldOnce
    <3>7. \A u, v \in Threads : req'[u] = req'[v] /\ req'[u] # NULL => u = v
      BY <3>4, <3>5 DEF HeldOnce
    <3>8. \A u \in Threads : \A n \in DOMAIN list' : list'[n] # req'[u]
      BY <3>2, <3>4, <3>5 DEF HeldOnce
    <3>9. ASSUME NEW c \in Conns,
                 (\E u \in Threads : req'[u] = c) \/ (\E n \in DOMAIN list' : list'[n] = c)
          PROVE  (\E u \in Threads : req[u] = c) \/ (\E n \in DOMAIN list : list[n] = c)
      BY <3>2, <3>4, <3>5, <3>9
    <3> QED  BY <2>1, <3>6, <3>7, <3>8, <3>9 DEF HeldOnce, TodoUnclosed
  <2> QED  BY <1>8, <2>2, <2>3, RemoveCases
<1>9. ASSUME NEW t \in Workers, Delete(t)  PROVE TodoUnclosed' /\ HeldOnce'
  BY <1>9 DEF Delete, Hold, TypeOK, TodoUnclosed, HeldOnce
<1> QED
  BY <1>1, <1>2, <1>3, <1>4, <1>5, <1>6, <1>7, <1>8, <1>9
  DEF Next, MainStep, WorkerStep

LEMMA MainStepHolds ==
    ASSUME IInv, [Next]_vars  PROVE MainHasOne'
<1> USE ListAssumption DEF TypeOK, MainHasOne, Threads, Goto, Hold
<1> TypeOK /\ MainHasOne
  BY DEF IInv
<1>1. CASE UNCHANGED vars
  BY <1>1 DEF vars
<1>2. CASE Accept \/ AcceptFails \/ RequestCreated \/ RequestNotCreated \/ PutOrDrop \/ MainUnlock
  BY <1>2 DEF Accept, AcceptFails, RequestCreated, RequestNotCreated, PutOrDrop, MainUnlock
<1>3. ASSUME NEW t \in Threads, Lock(t)  PROVE MainHasOne'
  BY <1>3 DEF Lock
<1>4. ASSUME NEW t \in Workers, WorkerStep(t)  PROVE MainHasOne'
  <2>1. UNCHANGED <<pc[Main], req[Main]>>
    <3>1. CASE Remove(t)
      <4>1. req'[Main] = req[Main]
        BY <3>1, RemoveCases DEF RemovesAt
      <4> QED  BY <3>1, <4>1 DEF Remove
    <3>2. CASE Test(t) \/ Lock(t) \/ Spins(t) \/ WorkerUnlock(t) \/ Handle(t) \/ Delete(t)
      BY <3>2 DEF Test, Lock, Spins, WorkerUnlock, Handle, Delete
    <3> QED  BY <1>4, <3>1, <3>2 DEF WorkerStep
  <2> QED  BY <2>1
<1> QED  BY <1>1, <1>2, <1>3, <1>4 DEF Next, MainStep

LEMMA Inductive == Spec => []IInv
<1>1. Init => IInv
  BY ListAssumption
  DEF Init, IInv, TypeOK, SizeIsLength, MainHasOne, TodoUnclosed, HeldOnce,
      Threads, MainPCs, WorkerPCs
<1>2. IInv /\ [Next]_vars => IInv'
  BY TypeStep, HeldStep, MainStepHolds DEF IInv
<1> QED  BY <1>1, <1>2, PTL DEF Spec

\* The variables of the list and of the threads keep their types.
THEOREM TypeCorrect == Spec => []TypeOK
<1>1. IInv => TypeOK
  BY DEF IInv
<1> QED  BY <1>1, Inductive, PTL

\* The counter that workers read without the mutex is the length of the list
\* whenever a critical section is over.
THEOREM CounterIsLength == Spec => []SizeIsLength
<1>1. IInv => SizeIsLength
  BY DEF IInv
<1> QED  BY <1>1, Inductive, PTL

\* No request is answered or freed twice, in either mode, however many workers
\* race for the list with a size they read without the mutex.
THEOREM RequestsHeldOnce == Spec => []HeldOnce
<1>1. IInv => HeldOnce
  BY DEF IInv
<1> QED  BY <1>1, Inductive, PTL

\* With FCFS the list implements the bounded queue: requests leave it in the
\* order of their arrival and it never holds more than LIMIT + 1, since the
\* counter that main tests is the length.
THEOREM ImplementsBoundedFIFO == Spec => FirstComeFirstServed
<1> DEFINE queue == IF me = 1 THEN list ELSE <<>>
<1>1. Init => FIFO!Init
  BY DEF Init, FIFO!Init
<1>2. ASSUME IInv, [Next]_vars  PROVE [FIFO!Next]_queue
  <2> USE ListAssumption
  <2> TypeOK /\ SizeIsLength /\ MainHasOne
    BY <1>2 DEF IInv
  <2>1. CASE PutOrDrop
    <3>1. CASE Enqueue
      <4>1. req[Main] \in Conns /\ me' = me /\ Len(list) < LIMIT + 1
        BY <2>1, <3>1 DEF PutOrDrop, Enqueue, MainHasOne, SizeIsLength, TypeOK, Threads
      <4>2. list' = Append(list, req[Main])
        BY <3>1 DEF Enqueue
      <4> QED  BY <4>1, <4>2 DEF FIFO!Next, FIFO!Put
    <3>2. CASE Drop
      BY <2>1, <3>2 DEF PutOrDrop, Drop
    <3> QED  BY <2>1, <3>1, <3>2 DEF PutOrDrop
  <2>2. ASSUME NEW t \in Workers, Remove(t)  PROVE [FIFO!Next]_queue
    <3>1. CASE me = 1
      BY <2>2, <3>1
      DEF Remove, remove_fcfs, RemoveNothing, RemoveFirst, FIFO!Next, FIFO!Get
    <3>2. CASE me # 1
      BY <2>2, <3>2 DEF Remove
    <3> QED  BY <3>1, <3>2
  <2>3. CASE UNCHANGED vars
    BY <2>3 DEF vars
  <2>4. CASE Accept \/ AcceptFails \/ RequestCreated \/ RequestNotCreated \/ MainUnlock
    BY <2>4 DEF Accept, AcceptFails, RequestCreated, RequestNotCreated, MainUnlock
  <2>5. ASSUME NEW t \in Threads,
               Lock(t) \/ Test(t) \/ Spins(t) \/ WorkerUnlock(t) \/ Handle(t) \/ Delete(t)
        PROVE  [FIFO!Next]_queue
    <3>1. UNCHANGED <<list, me>>
      BY <2>5 DEF Lock, Test, Spins, WorkerUnlock, Handle, Delete
    <3> QED  BY <3>1
  <2> QED
    BY <1>2, <2>1, <2>2, <2>3, <2>4, <2>5 DEF Next, MainStep, WorkerStep, Threads
<1> QED  BY Inductive, <1>1, <1>2, PTL DEF Spec, FirstComeFirstServed, FIFO!Spec
=============================================================================
