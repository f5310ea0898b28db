--------------------------- MODULE FIFOReplacement ---------------------------
(***************************************************************************)
(* First-in, first-out page replacement: q is the pages in memory in the    *)
(* order in which they came.                                                *)
(***************************************************************************)
EXTENDS Integers, Sequences

CONSTANTS Pages, NFRAMES

VARIABLE q

Init == q = <<>>

Load(p) ==
    /\ \A n \in 1 .. Len(q) : q[n] # p
    /\ q' = Append(IF Len(q) < NFRAMES THEN q ELSE Tail(q), p)

Next == \E p \in Pages : Load(p)

Step == [Next]_q

Spec == Init /\ [][Step]_q
=============================================================================
