----------------------------- MODULE PageTable -----------------------------
(***************************************************************************)
(* The virtual memory of Assignment 6: the page table (page_table.c) and    *)
(* page_fault_handler (main.c) with its three replacement policies.  The    *)
(* program is one thread; touching a page whose bits are 0 raises SIGSEGV,  *)
(* whose handler runs to its end before the access is tried again.          *)
(***************************************************************************)
EXTENDS Integers, FiniteSets

CONSTANTS NPAGES, NFRAMES

ASSUME PageTableAssumption == NPAGES \in Nat \ {0} /\ NFRAMES \in Nat \ {0}

Pages  == 0 .. NPAGES - 1
Frames == 0 .. NFRAMES - 1

VARIABLES
    mode,                      \* the policy that main was started with
    page_mapping, page_bits,   \* the page table; TRUE is PROT_READ | PROT_WRITE
    i,                         \* the next frame of the policies fifo and custom
    arr,                       \* custom: was the frame filled recently?
    pc,                        \* "user" or "handler"
    page,                      \* the page that faulted
    k                          \* custom: turns of the handler's loop

table == <<page_mapping, page_bits>>
vars  == <<mode, page_mapping, page_bits, i, arr, pc, page, k>>

Modes == {"rand", "fifo", "custom"}     \* custom is second chance

\* page_table_create leaves page_mapping as malloc returned it.
Init ==
    /\ mode \in Modes
    /\ page_mapping \in [Pages -> Frames]
    /\ page_bits = [p \in Pages |-> FALSE]
    /\ i = 0
    /\ arr = [f \in Frames |-> 0]
    /\ pc = "user" /\ page = 0 /\ k = 0

\* The program touches page p, and internal_fault_handler calls the handler.
Fault(p) ==
    /\ pc = "user"
    /\ ~page_bits[p]
    /\ pc' = "handler" /\ page' = p /\ k' = 0
    /\ UNCHANGED <<mode, table, i, arr>>

\* The handler's search: j is the first page mapped to frame f.
FirstMapped(j, f) ==
    /\ page_bits[j] /\ page_mapping[j] = f
    /\ \A l \in Pages : l < j => ~(page_bits[l] /\ page_mapping[l] = f)

\* Slip: the page that had the frame stays mapped.
ReplaceKeepsOld(f) ==
    /\ page_bits' = [page_bits EXCEPT ![page] = TRUE]
    /\ page_mapping' = [page_mapping EXCEPT ![page] = f]

\* Unmap the page that has frame f, then map the page that faulted to f.
Replace(f) ==
    /\ page_bits' = [j \in Pages |-> j = page \/ (page_bits[j] /\ ~FirstMapped(j, f))]
    /\ page_mapping' = [page_mapping EXCEPT ![page] = f]

Serving == pc = "handler" /\ ~page_bits[page]

RandomReplace ==
    /\ Serving
    /\ mode = "rand"
    /\ \E r \in Frames : Replace(r)
    /\ UNCHANGED <<mode, i, arr, pc, page, k>>

\* Slip: i is not moved on.
FIFOReplaceStays ==
    /\ Serving
    /\ mode = "fifo"
    /\ Replace(i)
    /\ UNCHANGED <<mode, i, arr, pc, page, k>>

FIFOReplace ==
    /\ Serving
    /\ mode = "fifo"
    /\ Replace(i)
    /\ i' = (i + 1) % NFRAMES
    /\ UNCHANGED <<mode, arr, pc, page, k>>

\* Slip: the frame that was spared keeps its bit.
SecondChanceKeepsBit ==
    /\ Serving
    /\ mode = "custom"
    /\ k < 2 * NFRAMES
    /\ arr[i] = 1
    /\ i' = (i + 1) % NFRAMES
    /\ k' = k + 1
    /\ UNCHANGED <<mode, table, arr, pc, page>>

SecondChance ==
    /\ Serving
    /\ mode = "custom"
    /\ k < 2 * NFRAMES
    /\ arr[i] = 1
    /\ arr' = [arr EXCEPT ![i] = 0]
    /\ i' = (i + 1) % NFRAMES
    /\ k' = k + 1
    /\ UNCHANGED <<mode, table, pc, page>>

SecondChanceReplace ==
    /\ Serving
    /\ mode = "custom"
    /\ k < 2 * NFRAMES
    /\ arr[i] # 1
    /\ Replace(i)
    /\ arr' = [arr EXCEPT ![i] = 1]
    /\ i' = (i + 1) % NFRAMES
    /\ UNCHANGED <<mode, pc, page, k>>

\* The handler returns: it mapped the page, or its loop ran out of turns.
Return ==
    /\ pc = "handler"
    /\ k < 2 * NFRAMES => page_bits[page]
    /\ pc' = "user"
    /\ page' = 0 /\ k' = 0
    /\ UNCHANGED <<mode, table, i, arr>>

Next ==
    \/ \E p \in Pages : Fault(p)
    \/ RandomReplace \/ FIFOReplace \/ SecondChance \/ SecondChanceReplace
    \/ Return

Spec == Init /\ [][Next]_vars

-----------------------------------------------------------------------------
(* Properties *)

TypeOK ==
    /\ mode \in Modes
    /\ page_mapping \in [Pages -> Frames]
    /\ page_bits \in [Pages -> BOOLEAN]
    /\ i \in Frames
    /\ arr \in [Frames -> {0, 1}]
    /\ pc \in {"user", "handler"}
    /\ page \in Pages
    /\ k \in 0 .. 2 * NFRAMES

\* No two pages are mapped to one frame: the handler always takes the frame
\* away from its page before it gives it to another, whatever the policy.
FramesDistinct ==
    \A p, q \in Pages :
        (page_bits[p] /\ page_bits[q] /\ page_mapping[p] = page_mapping[q]) => p = q

\* The handler never returns without having mapped the page that faulted: the
\* 2 * nframes turns of the second chance always reach a frame without a bit.
HandlerMapsPage == [][(pc = "handler" /\ pc' = "user") => page_bits[page]]_vars

\* The frame that was filled first: i once all frames are in use, except that
\* the second chance moves i past the frames it spares.
Mapped(f) == {p \in Pages : page_bits[p] /\ page_mapping[p] = f}
Occupied  == {f \in Frames : Mapped(f) # {}}
Oldest    == IF Occupied # Frames THEN 0
             ELSE IF Serving THEN (i + 2 * NFRAMES - k) % NFRAMES ELSE i

PageIn(f) == CHOOSE p \in Pages : p \in Mapped(f)

\* The pages in memory, from the frame that was filled first on.
Queue == [n \in 1 .. Cardinality(Occupied) |-> PageIn((Oldest + n - 1) % NFRAMES)]

InMemory == INSTANCE FIFOReplacement WITH q <- Queue

\* Unless it is picked at random, the page that is replaced is the one that has
\* been in memory longest.  This holds of fifo, and of custom as well: its bit is
\* set when a page comes in and never when it is used, so the second chance
\* spares every page once and then takes them in the order in which they came.
ReplacesOldest == [][mode # "rand" => InMemory!Step]_vars
=============================================================================
