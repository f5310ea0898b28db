----------------------------- MODULE BoundedFIFO -----------------------------
(***************************************************************************)
(* What a bounded buffer between threads promises: a first-in, first-out    *)
(* queue of at most Capacity items.                                         *)
(***************************************************************************)
EXTENDS Integers, Sequences

CONSTANTS Item, Capacity

VARIABLE q

Init == q = <<>>

Put(x) == Len(q) < Capacity /\ q' = Append(q, x)

Get == q # <<>> /\ q' = Tail(q)

Next == Get \/ \E x \in Item : Put(x)

Spec == Init /\ [][Next]_q
=============================================================================
