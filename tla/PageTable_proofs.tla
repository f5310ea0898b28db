-------------------------- MODULE PageTable_proofs --------------------------
(***************************************************************************)
(* Proofs about the page table and its fault handler, for any number of     *)
(* pages and frames and for each of the three policies.                     *)
(***************************************************************************)
EXTENDS PageTable, FiniteSetTheorems, SequenceTheorems, TLAPS

LEMMA NextFrame ==
    ASSUME NEW f \in Frames
    PROVE  (f + 1) % NFRAMES = (IF f + 1 = NFRAMES THEN 0 ELSE f + 1)
           /\ (f + 1) % NFRAMES \in Frames
<1> USE PageTableAssumption DEF Frames
<1>1. CASE f + 1 = NFRAMES
  BY <1>1
<1>2. CASE f + 1 # NFRAMES
  <2>1. f + 1 \in 0 .. NFRAMES - 1
    BY <1>2
  <2> QED  BY <2>1, <1>2
<1> QED  BY <1>1, <1>2

\* The frame m turns of the loop before frame f.
Back(f, m) == IF f >= m THEN f - m ELSE f - m + NFRAMES

\* While the handler has not mapped its page, the frames of the turns so far
\* have lost their bits, so there were at most NFRAMES turns.
Cleared ==
    Serving => k =< NFRAMES /\ \A m \in 1 .. k : arr[Back(i, m)] = 0

IInv == TypeOK /\ FramesDistinct /\ Cleared

\* The frames NFRAMES turns back are all frames.
LEMMA AllBack ==
    ASSUME NEW f \in Frames, NEW g \in Frames
    PROVE  \E m \in 1 .. NFRAMES : Back(f, m) = g
<1> USE PageTableAssumption DEF Frames, Back
<1>1. CASE g < f
  <2>1. f - g \in 1 .. NFRAMES /\ Back(f, f - g) = g
    BY <1>1
  <2> QED  BY <2>1
<1>2. CASE g >= f
  <2>1. f - g + NFRAMES \in 1 .. NFRAMES /\ Back(f, f - g + NFRAMES) = g
    BY <1>2
  <2> QED  BY <2>1
<1> QED  BY <1>1, <1>2

\* Replace unmaps the only page that has the frame and maps the one that faulted.
LEMMA ReplaceKeeps ==
    ASSUME TypeOK, FramesDistinct, Serving, NEW f \in Frames, Replace(f)
    PROVE  /\ page_mapping' \in [Pages -> Frames]
           /\ page_bits' \in [Pages -> BOOLEAN]
           /\ page_bits'[page]
           /\ FramesDistinct'
<1>1. /\ page_mapping' \in [Pages -> Frames] /\ page_bits' \in [Pages -> BOOLEAN]
      /\ page \in Pages /\ page_mapping'[page] = f /\ page_bits'[page]
      /\ \A j \in Pages \ {page} :
            /\ page_mapping'[j] = page_mapping[j]
            /\ page_bits'[j] <=> page_bits[j] /\ ~FirstMapped(j, f)
  BY DEF Replace, TypeOK
<1>2. ASSUME NEW j \in Pages, page_bits[j], page_mapping[j] = f  PROVE FirstMapped(j, f)
  BY <1>2, PageTableAssumption DEF FirstMapped, FramesDistinct, Pages
<1>3. ASSUME NEW p \in Pages, NEW q \in Pages, page_bits'[p], page_bits'[q],
             page_mapping'[p] = page_mapping'[q]
      PROVE  p = q
  <2>1. CASE p # page /\ q # page
    BY <1>1, <1>3, <2>1 DEF FramesDistinct
  <2>2. CASE p = page /\ q # page
    BY <1>1, <1>2, <1>3, <2>2
  <2>3. CASE p # page /\ q = page
    BY <1>1, <1>2, <1>3, <2>3
  <2> QED  BY <2>1, <2>2, <2>3
<1> QED  BY <1>1, <1>3 DEF FramesDistinct

LEMMA InitHolds == ASSUME Init  PROVE IInv
<1> USE PageTableAssumption
<1>1. TypeOK
  BY DEF Init, TypeOK, Pages, Frames, Modes
<1>2. FramesDistinct /\ Cleared
  BY DEF Init, FramesDistinct, Cleared, Serving
<1> QED  BY <1>1, <1>2 DEF IInv

\* One turn of the second chance: the bit of one more frame is gone.
LEMMA SecondChanceKeeps == ASSUME IInv, SecondChance  PROVE IInv'
<1> USE PageTableAssumption
<1>0. TypeOK /\ FramesDistinct /\ Serving /\ i \in Frames /\ k \in Nat
  BY DEF IInv, SecondChance, TypeOK
<1>1. k < NFRAMES
  <2> SUFFICES ASSUME k = NFRAMES  PROVE FALSE
    BY <1>0 DEF IInv, Cleared
  <2>1. PICK m \in 1 .. NFRAMES : Back(i, m) = i
    BY <1>0, AllBack
  <2> QED  BY <1>0, <2>1 DEF IInv, Cleared, SecondChance
<1>2. i' \in Frames /\ i' = IF i + 1 = NFRAMES THEN 0 ELSE i + 1
  BY <1>0, NextFrame DEF SecondChance
<1>3. arr' \in [Frames -> {0, 1}] /\ arr'[i] = 0
      /\ \A f \in Frames : arr[f] = 0 => arr'[f] = 0
  BY <1>0 DEF SecondChance, TypeOK
<1>4. TypeOK' /\ FramesDistinct'
  BY <1>0, <1>1, <1>2, <1>3 DEF SecondChance, TypeOK, FramesDistinct, table
<1>5. ASSUME NEW m \in 1 .. k + 1  PROVE arr'[Back(i', m)] = 0
  <2>1. CASE m = 1
    <3>1. Back(i', m) = i
      BY <1>0, <1>2, <2>1 DEF Back, Frames
    <3> QED  BY <1>3, <3>1
  <2>2. CASE m > 1
    <3>1. m - 1 \in 1 .. k
      BY <1>0, <2>2
    <3>2. Back(i', m) = Back(i, m - 1) /\ Back(i, m - 1) \in Frames
      BY <1>0, <1>1, <1>2, <2>2, <3>1 DEF Back, Frames
    <3> QED  BY <1>0, <1>3, <3>1, <3>2 DEF IInv, Cleared
  <2> QED  BY <1>0, <2>1, <2>2
<1>6. Cleared'
  BY <1>0, <1>1, <1>5 DEF Cleared, SecondChance
<1> QED  BY <1>4, <1>6 DEF IInv

LEMMA NextKeeps == ASSUME IInv, [Next]_vars  PROVE IInv'
<1> USE PageTableAssumption
<1>0. TypeOK /\ FramesDistinct /\ Cleared
  BY DEF IInv
<1>1. ASSUME NEW p \in Pages, Fault(p)  PROVE IInv'
  BY <1>0, <1>1 DEF Fault, IInv, TypeOK, FramesDistinct, Cleared, Serving, table
<1>2. ASSUME NEW f \in Frames, Serving, Replace(f), i' \in Frames,
             arr' \in [Frames -> {0, 1}], UNCHANGED <<mode, pc, page, k>>
      PROVE  IInv'
  <2>1. /\ page_mapping' \in [Pages -> Frames] /\ page_bits' \in [Pages -> BOOLEAN]
        /\ page_bits'[page] /\ FramesDistinct'
    BY <1>0, <1>2, ReplaceKeeps
  <2> QED  BY <1>0, <1>2, <2>1 DEF IInv, TypeOK, Cleared, Serving
<1>3. CASE RandomReplace
  BY <1>0, <1>2, <1>3 DEF RandomReplace, TypeOK
<1>4. CASE FIFOReplace
  BY <1>0, <1>2, <1>4, NextFrame DEF FIFOReplace, TypeOK
<1>5. CASE SecondChanceReplace
  BY <1>0, <1>2, <1>5, NextFrame DEF SecondChanceReplace, TypeOK
<1>6. CASE Return
  BY <1>0, <1>6 DEF Return, IInv, TypeOK, FramesDistinct, Cleared, Serving, table, Pages
<1>7. CASE UNCHANGED vars
  BY <1>0, <1>7 DEF vars, table, IInv, TypeOK, FramesDistinct, Cleared, Serving
<1> QED  BY <1>1, <1>3, <1>4, <1>5, <1>6, <1>7, SecondChanceKeeps DEF Next

\* The inductive invariant.
THEOREM Invariant == Spec => []IInv
BY InitHolds, NextKeeps, PTL DEF Spec

\* Types: the handler (main.c:27) keeps every entry, the next frame and the turn of
\* its search in range, for every number of pages and frames.
THEOREM TypeCorrect == Spec => []TypeOK
<1>1. IInv => TypeOK
  BY DEF IInv
<1> QED  BY Invariant, <1>1, PTL

\* No two pages share a frame, whatever the policy and the numbers.
THEOREM OneFramePerPage == Spec => []FramesDistinct
<1>1. IInv => FramesDistinct
  BY DEF IInv
<1> QED  BY Invariant, <1>1, PTL

\* The handler returns only when the page that faulted is mapped: 2 * NFRAMES
\* turns are always enough for the second chance.
THEOREM FaultsAreServed == Spec => HandlerMapsPage
<1>1. ASSUME IInv, [Next]_vars
      PROVE  [(pc = "handler" /\ pc' = "user") => page_bits[page]]_vars
  <2> SUFFICES ASSUME Next, pc = "handler", pc' = "user", ~page_bits[page]
               PROVE  FALSE
    BY <1>1
  <2>1. Return
    BY DEF Next, Fault, RandomReplace, FIFOReplace, SecondChance, SecondChanceReplace
  <2>2. k =< NFRAMES /\ k \in Nat
    BY <1>1 DEF IInv, Cleared, Serving, TypeOK
  <2>3. k < 2 * NFRAMES
    BY <2>2, PageTableAssumption
  <2> QED  BY <2>1, <2>3 DEF Return
<1> QED  BY Invariant, <1>1, PTL DEF Spec, HandlerMapsPage
-----------------------------------------------------------------------------
(* The order in which pages are replaced *)

\* The bits of custom: the m frames behind i have theirs and the others not, or
\* the other way round.
Marked(m)   == \A j \in 1 .. NFRAMES : arr[Back(i, j)] = (IF j =< m THEN 1 ELSE 0)
Unmarked(m) == \A j \in 1 .. NFRAMES : arr[Back(i, j)] = (IF j =< m THEN 0 ELSE 1)

\* The frames are filled from 0 on.  Once the search of custom has spared a
\* frame, all were marked, and it will spare all of them.
Order ==
    /\ mode # "custom" => k = 0
    /\ mode # "rand" /\ Occupied # Frames => Occupied = 0 .. i - 1
    /\ mode = "custom" =>
          IF Serving /\ k > 0 THEN Occupied = Frames /\ Unmarked(k)
          ELSE IF Occupied = Frames THEN \E m \in 0 .. NFRAMES : Marked(m)
          ELSE Marked(i)

OInv == IInv /\ Order

Turn(f) == IF f + 1 = NFRAMES THEN 0 ELSE f + 1

\* Going back j turns from the next frame.
LEMMA BackTurn ==
    ASSUME NEW f \in Frames
    PROVE  /\ Turn(f) \in Frames
           /\ Back(Turn(f), 1) = f
           /\ Back(f, NFRAMES) = f
           /\ \A j \in 2 .. NFRAMES : Back(Turn(f), j) = Back(f, j - 1)
           /\ \A j \in 1 .. NFRAMES - 1 : Back(f, j) \in Frames \ {f}
  BY PageTableAssumption DEF Turn, Back, Frames

\* After Replace the frame holds the page that faulted, and the other frames
\* what they held.
LEMMA ReplaceMoves ==
    ASSUME TypeOK, FramesDistinct, Serving, NEW f \in Frames, Replace(f), page' = page
    PROVE  /\ Mapped(f)' = {page}
           /\ \A g \in Frames \ {f} : Mapped(g)' = Mapped(g)
           /\ Occupied' = Occupied \cup {f}
           /\ ~Serving'
<1>1. /\ page \in Pages /\ page_mapping'[page] = f /\ page_bits'[page]
      /\ \A j \in Pages \ {page} :
            /\ page_mapping'[j] = page_mapping[j]
            /\ page_bits'[j] <=> page_bits[j] /\ ~FirstMapped(j, f)
  BY DEF Replace, TypeOK
<1>2. ASSUME NEW j \in Pages, page_bits[j], page_mapping[j] = f  PROVE FirstMapped(j, f)
  BY <1>2, PageTableAssumption DEF FirstMapped, FramesDistinct, Pages
<1>3. Mapped(f)' = {page}
  BY <1>1, <1>2 DEF Mapped
<1>4. ASSUME NEW g \in Frames \ {f}  PROVE Mapped(g)' = Mapped(g)
  <2>1. \A j \in Pages \ {page} : j \in Mapped(g)' <=> j \in Mapped(g)
    BY <1>1, <1>4 DEF Mapped, FirstMapped
  <2>2. page \notin Mapped(g) /\ page \notin Mapped(g)'
    BY <1>1, <1>4 DEF Mapped, Serving
  <2> QED  BY <2>1, <2>2 DEF Mapped
<1>5. Occupied' = Occupied \cup {f}
  BY <1>3, <1>4 DEF Occupied
<1>6. ~Serving'
  BY <1>1 DEF Serving
<1> QED  BY <1>3, <1>4, <1>5, <1>6

LEMMA BackFrames ==
    ASSUME NEW f \in Frames, NEW j \in 1 .. NFRAMES  PROVE Back(f, j) \in Frames
  BY PageTableAssumption DEF Back, Frames

\* The turns of the search: the frame at i is marked only if all are or, once the
\* search has begun, the last NFRAMES - k.
LEMMA MarkedAt ==
    ASSUME TypeOK, Order, mode = "custom"
    PROVE  /\ arr[i] = 1 /\ ~(Serving /\ k > 0) => Occupied = Frames /\ Marked(NFRAMES)
           /\ arr[i] = 1 /\ Serving /\ k > 0 => Occupied = Frames /\ k < NFRAMES
           /\ arr[i] # 1 /\ Serving /\ k > 0 => k >= NFRAMES
<1>0. i \in Frames /\ Back(i, NFRAMES) = i /\ NFRAMES \in 1 .. NFRAMES /\ k \in Nat
      /\ i \in Nat /\ i < NFRAMES /\ NFRAMES \in Nat \ {0}
  BY BackTurn, PageTableAssumption DEF TypeOK, Frames
<1>1. CASE Serving /\ k > 0
  <2>1. arr[i] = (IF NFRAMES =< k THEN 0 ELSE 1) /\ Occupied = Frames
    BY <1>0, <1>1 DEF Order, Unmarked
  <2> QED  BY <1>0, <1>1, <2>1
<1>2. CASE ~(Serving /\ k > 0) /\ Occupied = Frames
  <2>1. PICK m \in 0 .. NFRAMES : Marked(m)
    BY <1>2 DEF Order
  <2>2. arr[i] = (IF NFRAMES =< m THEN 1 ELSE 0)
    BY <1>0, <2>1 DEF Marked
  <2>3. arr[i] = 1 => m = NFRAMES
    BY <1>0, <2>2
  <2> QED  BY <1>2, <2>1, <2>3
<1>3. CASE ~(Serving /\ k > 0) /\ Occupied # Frames
  <2>1. Marked(i)
    BY <1>3 DEF Order
  <2>2. arr[i] = (IF NFRAMES =< i THEN 1 ELSE 0)
    BY <1>0, <2>1 DEF Marked
  <2> QED  BY <1>0, <1>3, <2>2
<1> QED  BY <1>1, <1>2, <1>3

\* A page comes into frame i, and i goes on.
LEMMA FilledAt ==
    ASSUME TypeOK, FramesDistinct, Order, mode # "rand", Serving, Replace(i),
           i' = (i + 1) % NFRAMES, UNCHANGED <<page, mode>>
    PROVE  /\ i' = Turn(i) /\ i' \in Frames
           /\ Occupied = Frames => Occupied' = Frames
           /\ Occupied # Frames => Occupied' = 0 .. i /\ (i' = 0 => Occupied' = Frames)
           /\ Occupied' # Frames => Occupied' = 0 .. i' - 1 /\ i' = i + 1
           /\ ~Serving'
<1>1. i \in Frames /\ i' = Turn(i) /\ i' \in Frames
  BY NextFrame DEF TypeOK, Turn
<1>2. Occupied' = Occupied \cup {i} /\ ~Serving'
  BY <1>1, ReplaceMoves
<1>3. CASE Occupied = Frames
  BY <1>1, <1>2, <1>3
<1>4. CASE Occupied # Frames
  <2>1. Occupied = 0 .. i - 1
    BY <1>4 DEF Order
  <2>2. Occupied' = 0 .. i
    BY <1>1, <1>2, <2>1 DEF Frames
  <2> QED  BY <1>1, <1>2, <1>4, <2>2, PageTableAssumption DEF Frames, Turn
<1> QED  BY <1>1, <1>2, <1>3, <1>4

LEMMA OrderInit == ASSUME Init  PROVE Order
<1>1. Occupied = {} /\ Frames # {}
  BY PageTableAssumption DEF Init, Occupied, Mapped, Frames
<1>2. i = 0 /\ k = 0 /\ 0 \in Frames /\ NFRAMES \in Nat \ {0}
  BY PageTableAssumption DEF Init, Frames
<1>3. Marked(0)
  BY <1>2, BackFrames DEF Init, Marked
<1> QED  BY <1>1, <1>2, <1>3 DEF Order

LEMMA SecondChanceOrder == ASSUME IInv, Order, SecondChance  PROVE Order'
<1>0. /\ TypeOK /\ Serving /\ mode = "custom" /\ arr[i] = 1 /\ i \in Frames /\ k \in Nat
      /\ UNCHANGED <<mode, page_mapping, page_bits, pc, page>> /\ k' = k + 1
      /\ i' = Turn(i) /\ NFRAMES \in Nat \ {0}
  BY NextFrame, PageTableAssumption DEF IInv, TypeOK, SecondChance, table, Turn
<1>1. Serving' /\ k' > 0 /\ Occupied' = Occupied
  BY <1>0 DEF Serving, Occupied, Mapped
<1>2. Occupied = Frames
  BY <1>0, MarkedAt
<1>3. arr'[i] = 0 /\ \A f \in Frames \ {i} : arr'[f] = arr[f]
  BY <1>0 DEF SecondChance, TypeOK
<1>4. ASSUME NEW j \in 1 .. NFRAMES
      PROVE  arr'[Back(i', j)] = (IF j =< k + 1 THEN 0 ELSE 1)
  <2>1. CASE j = 1
    BY <1>0, <1>3, <2>1, BackTurn
  <2>2. CASE j # 1
    <3>1. j - 1 \in 1 .. NFRAMES /\ j \in 2 .. NFRAMES /\ j - 1 \in 1 .. NFRAMES - 1
      BY <1>0, <2>2
    <3>2. Back(i', j) = Back(i, j - 1) /\ Back(i, j - 1) \in Frames \ {i}
      BY <1>0, <3>1, BackTurn
    <3>3. arr'[Back(i', j)] = arr[Back(i, j - 1)]
      BY <1>3, <3>2
    <3>4. CASE k > 0
      <4>1. arr[Back(i, j - 1)] = (IF j - 1 =< k THEN 0 ELSE 1)
        BY <1>0, <3>1, <3>4 DEF Order, Unmarked
      <4> QED  BY <1>0, <3>3, <4>1
    <3>5. CASE k = 0
      <4>1. arr[Back(i, j - 1)] = 1
        BY <1>0, <3>1, <3>5, MarkedAt DEF Marked
      <4> QED  BY <2>2, <3>3, <3>5, <4>1
    <3> QED  BY <1>0, <3>4, <3>5
  <2> QED  BY <2>1, <2>2
<1>5. Unmarked(k)'
  BY <1>0, <1>4 DEF Unmarked
<1> QED  BY <1>0, <1>1, <1>2, <1>5 DEF Order

LEMMA SecondChanceReplaceOrder == ASSUME IInv, Order, SecondChanceReplace  PROVE Order'
<1>0. /\ TypeOK /\ FramesDistinct /\ Serving /\ mode = "custom" /\ arr[i] # 1 /\ i \in Frames
      /\ k \in Nat /\ UNCHANGED <<mode, page, k>> /\ Replace(i) /\ i' = (i + 1) % NFRAMES
      /\ NFRAMES \in Nat \ {0}
  BY PageTableAssumption DEF IInv, TypeOK, SecondChanceReplace
<1>1. /\ i' = Turn(i) /\ ~Serving'
      /\ Occupied = Frames => Occupied' = Frames
      /\ Occupied # Frames => Occupied' = 0 .. i /\ (i' = 0 => Occupied' = Frames)
      /\ Occupied' # Frames => Occupied' = 0 .. i' - 1 /\ i' = i + 1
  BY <1>0, FilledAt
<1>2. arr'[i] = 1 /\ \A f \in Frames \ {i} : arr'[f] = arr[f]
  BY <1>0 DEF SecondChanceReplace, TypeOK
<1>3. ASSUME NEW m \in 0 .. NFRAMES - 1,
             \A j \in 1 .. NFRAMES - 1 : arr[Back(i, j)] = (IF j =< m THEN 1 ELSE 0)
      PROVE  Marked(m + 1)'
  <2> SUFFICES ASSUME NEW j \in 1 .. NFRAMES
               PROVE  arr'[Back(i', j)] = (IF j =< m + 1 THEN 1 ELSE 0)
    BY DEF Marked
  <2>1. CASE j = 1
    BY <1>0, <1>1, <1>2, <2>1, BackTurn
  <2>2. CASE j # 1
    <3>1. j \in 2 .. NFRAMES /\ j - 1 \in 1 .. NFRAMES - 1
      BY <1>0, <2>2
    <3>2. Back(i', j) = Back(i, j - 1) /\ Back(i, j - 1) \in Frames \ {i}
      BY <1>0, <1>1, <3>1, BackTurn
    <3>3. arr'[Back(i', j)] = arr[Back(i, j - 1)]
      BY <1>2, <3>2
    <3>4. arr[Back(i, j - 1)] = (IF j - 1 =< m THEN 1 ELSE 0)
      BY <1>3, <3>1
    <3> QED  BY <3>3, <3>4
  <2> QED  BY <2>1, <2>2
<1>4. CASE k > 0
  <2>1. k >= NFRAMES /\ Occupied = Frames /\ Unmarked(k)
    BY <1>0, <1>4, MarkedAt DEF Order
  <2>2. Marked(0 + 1)'
    <3>1. \A j \in 1 .. NFRAMES - 1 : arr[Back(i, j)] = (IF j =< 0 THEN 1 ELSE 0)
      BY <1>0, <2>1 DEF Unmarked
    <3>2. 0 \in 0 .. NFRAMES - 1
      BY <1>0
    <3> QED  BY <1>3, <3>1, <3>2
  <2>3. 0 + 1 \in 0 .. NFRAMES
    BY <1>0
  <2> QED  BY <1>0, <1>1, <2>1, <2>2, <2>3 DEF Order
<1>5. CASE k = 0 /\ Occupied = Frames
  <2>1. PICK m \in 0 .. NFRAMES : Marked(m)
    BY <1>0, <1>5 DEF Order
  <2>2. m < NFRAMES
    <3>1. arr[i] = (IF NFRAMES =< m THEN 1 ELSE 0)
      BY <1>0, <2>1, BackTurn DEF Marked
    <3> QED  BY <1>0, <3>1
  <2>3. Marked(m + 1)' /\ m + 1 \in 0 .. NFRAMES
    BY <1>0, <1>3, <2>1, <2>2 DEF Marked
  <2> QED  BY <1>0, <1>1, <1>5, <2>3 DEF Order
<1>6. CASE k = 0 /\ Occupied # Frames
  <2>1. PICK m \in 0 .. NFRAMES - 1 : m = i /\ Marked(m)
    BY <1>0, <1>6 DEF Order, Frames
  <2>2. Marked(m + 1)' /\ m + 1 \in 0 .. NFRAMES
    BY <1>0, <1>3, <2>1 DEF Marked
  <2>3. CASE Occupied' = Frames
    BY <1>0, <1>1, <1>6, <2>2, <2>3 DEF Order
  <2>4. CASE Occupied' # Frames
    <3>1. i' = m + 1 /\ Occupied' = 0 .. i' - 1
      BY <1>1, <2>1, <2>4
    <3>2. Marked(i)'
      BY <2>2, <3>1 DEF Marked
    <3> QED  BY <1>0, <1>1, <1>6, <2>4, <3>1, <3>2 DEF Order
  <2> QED  BY <2>3, <2>4
<1> QED  BY <1>0, <1>4, <1>5, <1>6

LEMMA OrderNext == ASSUME IInv, Order, [Next]_vars  PROVE Order'
<1>0. TypeOK /\ FramesDistinct
  BY DEF IInv
<1>1. CASE (\E p \in Pages : Fault(p)) \/ Return \/ UNCHANGED vars
  <2>1. UNCHANGED <<mode, table, i, arr>>
    BY <1>1 DEF Fault, Return, vars, table
  <2>2. Occupied' = Occupied
    BY <2>1 DEF Occupied, Mapped, table
  <2>3. /\ mode # "custom" => k' = 0
        /\ Serving' /\ k' > 0 <=> Serving /\ k > 0
        /\ Serving /\ k > 0 => k' = k
    <3>1. CASE \E p \in Pages : Fault(p)
      BY <3>1 DEF Fault, Serving, Order
    <3>2. CASE Return
      <4>1. ~Serving
        <5>1. Serving => k =< NFRAMES /\ k \in Nat
          BY DEF IInv, Cleared, TypeOK
        <5>2. Serving => k < 2 * NFRAMES
          BY <5>1, PageTableAssumption
        <5> QED  BY <3>2, <5>2 DEF Return, Serving
      <4> QED  BY <3>2, <4>1 DEF Return, Serving, Order
    <3>3. CASE UNCHANGED vars
      BY <3>3 DEF vars, table, Serving, Order
    <3> QED  BY <1>1, <3>1, <3>2, <3>3
  <2> QED  BY <2>1, <2>2, <2>3 DEF Order, Marked, Unmarked
<1>2. CASE RandomReplace
  BY <1>2 DEF RandomReplace, Order
<1>3. CASE FIFOReplace
  <2>1. mode = "fifo" /\ k = 0 /\ UNCHANGED <<mode, k>>
    BY <1>3 DEF FIFOReplace, Order
  <2>2. Occupied' # Frames => Occupied' = 0 .. i' - 1
    BY <1>0, <1>3, <2>1, FilledAt DEF FIFOReplace
  <2> QED  BY <2>1, <2>2 DEF Order
<1> QED
  BY <1>1, <1>2, <1>3, SecondChanceOrder, SecondChanceReplaceOrder DEF Next

-----------------------------------------------------------------------------
(* The queue of the pages in memory *)

\* n frames after frame f.
Ahead(f, n) == IF f + n < NFRAMES THEN f + n ELSE f + n - NFRAMES

LEMMA ModFrames ==
    ASSUME NEW f \in Frames, NEW n \in 0 .. 2
    PROVE  (f + n * NFRAMES) % NFRAMES = f
<1>1. f \in 0 .. NFRAMES - 1 /\ NFRAMES \in Nat \ {0}
  BY PageTableAssumption DEF Frames
<1>2. CASE n = 0
  BY <1>1, <1>2
<1>3. CASE n = 1
  BY <1>1, <1>3
<1>4. CASE n = 2
  BY <1>1, <1>4
<1> QED  BY <1>2, <1>3, <1>4

LEMMA AheadIsMod ==
    ASSUME NEW f \in Frames, NEW n \in 1 .. NFRAMES
    PROVE  (f + n - 1) % NFRAMES = Ahead(f, n - 1) /\ Ahead(f, n - 1) \in Frames
<1>1. f \in 0 .. NFRAMES - 1 /\ NFRAMES \in Nat \ {0}
  BY PageTableAssumption DEF Frames
<1>2. Ahead(f, n - 1) \in Frames
  BY <1>1 DEF Ahead, Frames
<1>3. CASE f + (n - 1) < NFRAMES
  <2>1. f + n - 1 = Ahead(f, n - 1) + 0 * NFRAMES
    BY <1>1, <1>3 DEF Ahead
  <2> QED  BY <1>2, <2>1, ModFrames
<1>4. CASE ~(f + (n - 1) < NFRAMES)
  <2>1. f + n - 1 = Ahead(f, n - 1) + 1 * NFRAMES
    BY <1>1, <1>4 DEF Ahead
  <2> QED  BY <1>2, <2>1, ModFrames
<1> QED  BY <1>2, <1>3, <1>4

\* While the search goes on, the oldest frame is the one where it began.
OldestKnown ==
    /\ Oldest = (IF Occupied # Frames THEN 0
                 ELSE IF Serving /\ k > 0 THEN Back(i, k) ELSE i)
    /\ Oldest \in Frames

LEMMA OldestIs == IInv => OldestKnown
<1> SUFFICES ASSUME IInv
             PROVE  /\ Oldest = (IF Occupied # Frames THEN 0
                                 ELSE IF Serving /\ k > 0 THEN Back(i, k) ELSE i)
                    /\ Oldest \in Frames
  BY DEF OldestKnown
<1>1. TypeOK /\ i \in Frames /\ k \in Nat /\ (Serving => k =< NFRAMES)
      /\ NFRAMES \in Nat \ {0} /\ 0 \in Frames
  BY PageTableAssumption DEF IInv, Cleared, TypeOK, Frames
<1>2. CASE Occupied # Frames \/ ~Serving
  BY <1>1, <1>2 DEF Oldest
<1>3. CASE Occupied = Frames /\ Serving /\ k = 0
  <2>1. i + 2 * NFRAMES - k = i + 2 * NFRAMES
    BY <1>1, <1>3 DEF Frames
  <2> QED  BY <1>1, <1>3, <2>1, ModFrames DEF Oldest
<1>4. CASE Occupied = Frames /\ Serving /\ k > 0
  <2>1. k \in 1 .. NFRAMES /\ Back(i, k) \in Frames
    BY <1>1, <1>4, BackFrames
  <2>2. \E n \in 0 .. 2 : i + 2 * NFRAMES - k = Back(i, k) + n * NFRAMES
    <3>1. CASE i >= k
      <4>1. i + 2 * NFRAMES - k = Back(i, k) + 2 * NFRAMES
        BY <1>1, <2>1, <3>1 DEF Back, Frames
      <4> QED  BY <4>1
    <3>2. CASE ~(i >= k)
      <4>1. i + 2 * NFRAMES - k = Back(i, k) + 1 * NFRAMES
        BY <1>1, <2>1, <3>2 DEF Back, Frames
      <4> QED  BY <4>1
    <3> QED  BY <3>1, <3>2
  <2> QED  BY <1>4, <2>1, <2>2, ModFrames DEF Oldest
<1> QED  BY <1>1, <1>2, <1>3, <1>4

\* The queue holds as many pages as there are frames in use, and the page of the
\* n-th frame from the oldest on in its n-th place.
QueueKnown ==
    /\ Cardinality(Occupied) = (IF Occupied = Frames THEN NFRAMES ELSE i)
    /\ Cardinality(Occupied) \in 0 .. NFRAMES
    /\ Queue \in [1 .. Cardinality(Occupied) -> Pages]
    /\ \A n \in 1 .. Cardinality(Occupied) : Ahead(Oldest, n - 1) \in Frames
    /\ \A n \in 1 .. Cardinality(Occupied) : \A f \in Frames :
          f = Ahead(Oldest, n - 1) => Queue[n] = PageIn(f) /\ Queue[n] \in Mapped(f)

Ordered == IInv /\ Order /\ mode # "rand"

LEMMA QueueIs == Ordered => QueueKnown
<1> SUFFICES ASSUME IInv, Order, mode # "rand"
             PROVE  QueueKnown
  BY DEF Ordered
<1>0. OldestKnown
  BY OldestIs
<1>1. i \in 0 .. NFRAMES - 1 /\ NFRAMES \in Nat \ {0} /\ Oldest \in Frames
  BY <1>0, PageTableAssumption DEF OldestKnown, IInv, TypeOK, Frames
<1>2. /\ Cardinality(Occupied) = (IF Occupied = Frames THEN NFRAMES ELSE i)
      /\ Cardinality(Occupied) \in 0 .. NFRAMES
  <2>1. Cardinality(0 .. NFRAMES - 1) = NFRAMES /\ Cardinality(0 .. i - 1) = i
    BY <1>1, FS_Interval
  <2>2. CASE Occupied = Frames
    BY <1>1, <2>1, <2>2 DEF Frames
  <2>3. CASE Occupied # Frames
    BY <1>1, <2>1, <2>3 DEF Order
  <2> QED  BY <2>2, <2>3
<1>3. ASSUME NEW n \in 1 .. Cardinality(Occupied)
      PROVE  /\ Ahead(Oldest, n - 1) \in Frames
             /\ Queue[n] = PageIn(Ahead(Oldest, n - 1))
             /\ PageIn(Ahead(Oldest, n - 1)) \in Mapped(Ahead(Oldest, n - 1))
             /\ Queue[n] \in Pages
  <2>1. n \in 1 .. NFRAMES
    BY <1>1, <1>2
  <2>2. Ahead(Oldest, n - 1) \in Frames
        /\ (Oldest + n - 1) % NFRAMES = Ahead(Oldest, n - 1)
    BY <1>1, <2>1, AheadIsMod
  <2>3. Ahead(Oldest, n - 1) \in Occupied
    <3>1. CASE Occupied = Frames
      BY <2>2, <3>1
    <3>2. CASE Occupied # Frames
      <4>1. Oldest = 0 /\ Occupied = 0 .. i - 1 /\ n \in 1 .. i
        BY <1>0, <1>2, <3>2 DEF OldestKnown, Order
      <4> QED  BY <1>1, <4>1 DEF Ahead
    <3> QED  BY <3>1, <3>2
  <2>4. PageIn(Ahead(Oldest, n - 1)) \in Mapped(Ahead(Oldest, n - 1))
    BY <2>3 DEF Occupied, PageIn, Mapped
  <2>5. Queue[n] = PageIn(Ahead(Oldest, n - 1))
    BY <2>2 DEF Queue
  <2> QED  BY <2>2, <2>4, <2>5 DEF Mapped
<1>4. Queue \in [1 .. Cardinality(Occupied) -> Pages]
  BY <1>3 DEF Queue
<1> QED  BY <1>2, <1>3, <1>4 DEF QueueKnown

\* A sequence one longer than s that begins with it, and one as long that has lost
\* its head.
LEMMA Appended ==
    ASSUME NEW S, NEW n \in Nat, NEW s \in [1 .. n -> S], NEW t \in [1 .. n + 1 -> S],
           \A j \in 1 .. n : t[j] = s[j]
    PROVE  Len(s) = n /\ t = Append(s, t[n + 1])
<1>1. s \in Seq(S) /\ Len(s) = n /\ t \in Seq(S) /\ Len(t) = n + 1 /\ t[n + 1] \in S
  OBVIOUS
<1> DEFINE u == Append(s, t[n + 1])
<1>2. /\ u \in Seq(S) /\ Len(u) = n + 1 /\ u[n + 1] = t[n + 1]
      /\ \A j \in 1 .. n : u[j] = s[j]
  BY <1>1, AppendProperties
<1> HIDE DEF u
<1>3. \A j \in 1 .. Len(t) : t[j] = u[j]
  BY <1>1, <1>2
<1>4. t = u
  BY <1>1, <1>2, <1>3, SeqEqual
<1> QED  BY <1>1, <1>4 DEF u

LEMMA Shifted ==
    ASSUME NEW S, NEW n \in Nat \ {0}, NEW s \in [1 .. n -> S], NEW t \in [1 .. n -> S],
           \A j \in 1 .. n - 1 : t[j] = s[j + 1]
    PROVE  Len(s) = n /\ t = Append(Tail(s), t[n])
<1>1. s \in Seq(S) /\ Len(s) = n /\ s # <<>>
  BY EmptySeq
<1> DEFINE r == Tail(s)
<1>2. r \in Seq(S) /\ Len(r) = n - 1 /\ \A j \in 1 .. n - 1 : r[j] = s[j + 1]
  BY <1>1, HeadTailProperties
<1> HIDE DEF r
<1>3. r \in [1 .. n - 1 -> S] /\ n - 1 \in Nat /\ (n - 1) + 1 = n
  BY <1>2, LenProperties
<1>4. \A j \in 1 .. n - 1 : t[j] = r[j]
  BY <1>2
<1>5. t = Append(r, t[n])
  BY <1>3, <1>4, Appended
<1> QED  BY <1>1, <1>5 DEF r

\* A replacement is a step of the queue: the page that faulted comes to its end
\* and, when all frames were in use, the page at its head goes.
LEMMA ReplaceLoads ==
    ASSUME Ordered, Ordered', NEW f \in Frames, f = i, Serving, Replace(f), i' = (i + 1) % NFRAMES,
           mode = "custom" => arr[i] # 1, UNCHANGED <<mode, page>>
    PROVE  InMemory!Load(page)
<1>0. /\ TypeOK /\ FramesDistinct /\ Order /\ mode # "rand" /\ i \in Frames /\ page \in Pages
      /\ NFRAMES \in Nat \ {0} /\ i \in Nat /\ i < NFRAMES
      /\ k \in Nat /\ k =< NFRAMES
  BY PageTableAssumption DEF Ordered, IInv, Cleared, TypeOK, Frames
<1>1. /\ Mapped(f)' = {page} /\ ~Serving'
      /\ \A g \in Frames \ {f} : Mapped(g)' = Mapped(g)
  BY <1>0, ReplaceMoves
<1>2. /\ i' = Turn(i) /\ i' \in Frames
      /\ Occupied = Frames => Occupied' = Frames
      /\ Occupied # Frames => Occupied' = 0 .. i /\ (i' = 0 => Occupied' = Frames)
      /\ Occupied' # Frames => Occupied' = 0 .. i' - 1 /\ i' = i + 1
  BY <1>0, FilledAt
<1>3. QueueKnown /\ QueueKnown' /\ OldestKnown /\ OldestKnown'
  <2>1. Ordered' => QueueKnown'
    BY QueueIs, PTL
  <2>2. IInv' => OldestKnown'
    BY OldestIs, PTL
  <2> QED  BY <2>1, <2>2, QueueIs, OldestIs DEF Ordered
<1>4. Oldest = (IF Occupied = Frames THEN i ELSE 0)
  <2>1. CASE Occupied = Frames /\ k > 0
    <3>1. k = NFRAMES
      <4>1. mode = "custom"
        BY <1>0, <2>1 DEF Order
      <4>2. k >= NFRAMES
        BY <1>0, <2>1, <4>1, MarkedAt
      <4> QED  BY <1>0, <4>2
    <3>2. Back(i, k) = i
      BY <1>0, <3>1, BackTurn
    <3> QED  BY <1>3, <2>1, <3>2 DEF OldestKnown
  <2>2. CASE ~(Occupied = Frames /\ k > 0)
    BY <1>3, <2>2 DEF OldestKnown
  <2> QED  BY <2>1, <2>2
<1>5. Oldest' = (IF Occupied' = Frames THEN i' ELSE 0)
  BY <1>1, <1>3 DEF OldestKnown
<1>6. ASSUME NEW g \in Frames \ {f}  PROVE PageIn(g)' = PageIn(g)
  BY <1>1, <1>6 DEF PageIn
<1>7. PageIn(f)' = page
  BY <1>0, <1>1 DEF PageIn
<1>8. \A n \in 1 .. Cardinality(Occupied) : Queue[n] # page
  BY <1>3 DEF QueueKnown, Mapped, Serving
<1>9. CASE Occupied = Frames
  <2>1. Queue \in [1 .. NFRAMES -> Pages] /\ Queue' \in [1 .. NFRAMES -> Pages]
    BY <1>2, <1>3, <1>9 DEF QueueKnown
  <2>2. ASSUME NEW n \in 1 .. NFRAMES - 1  PROVE Queue'[n] = Queue[n + 1]
    <3>1. PICK g \in Frames \ {f} : g = Ahead(i', n - 1) /\ g = Ahead(i, n)
      <4>1. Ahead(i', n - 1) = Ahead(i, n) /\ Ahead(i, n) \in Frames \ {f}
        BY <1>0, <1>2, <2>2 DEF Ahead, Turn, Frames
      <4> QED  BY <4>1
    <3>2. Queue'[n] = PageIn(g)'
      <4>1. n \in 1 .. Cardinality(Occupied)' /\ g = Ahead(Oldest', n - 1)
        BY <1>0, <1>2, <1>3, <1>5, <1>9, <2>2, <3>1 DEF QueueKnown
      <4> QED  BY <1>3, <4>1 DEF QueueKnown, Ahead
    <3>3. Queue[n + 1] = PageIn(g)
      <4>1. n + 1 \in 1 .. Cardinality(Occupied) /\ g = Ahead(Oldest, (n + 1) - 1)
        BY <1>0, <1>3, <1>4, <1>9, <2>2, <3>1 DEF QueueKnown
      <4> QED  BY <1>3, <4>1 DEF QueueKnown
    <3> QED  BY <1>6, <3>2, <3>3
  <2>3. Queue'[NFRAMES] = page
    <3>1. f = Ahead(i', NFRAMES - 1)
      BY <1>0, <1>2 DEF Ahead, Turn, Frames
    <3>2. NFRAMES \in 1 .. Cardinality(Occupied)' /\ f = Ahead(Oldest', NFRAMES - 1)
      BY <1>0, <1>2, <1>3, <1>5, <1>9, <3>1 DEF QueueKnown
    <3> QED  BY <1>3, <1>7, <3>2 DEF QueueKnown, Ahead
  <2>4. Len(Queue) = NFRAMES /\ Queue' = Append(Tail(Queue), Queue'[NFRAMES])
    BY <1>0, <2>1, <2>2, Shifted
  <2>5. Cardinality(Occupied) = NFRAMES
    BY <1>3, <1>9 DEF QueueKnown
  <2> QED  BY <1>8, <2>3, <2>4, <2>5, <1>0 DEF InMemory!Load
<1>10. CASE Occupied # Frames
  <2>1. Cardinality(Occupied) = i /\ Cardinality(Occupied)' = i + 1 /\ Oldest = 0 /\ Oldest' = 0
    <3>1. Cardinality(Occupied) = i /\ Oldest = 0
      BY <1>3, <1>4, <1>10 DEF QueueKnown
    <3>2. CASE Occupied' = Frames
      <4>1. Occupied' = 0 .. i /\ i + 1 = NFRAMES
        BY <1>0, <1>2, <1>10, <3>2 DEF Frames
      <4>2. i' = 0
        BY <1>0, <1>2, <4>1 DEF Turn
      <4> QED  BY <1>3, <1>5, <3>1, <3>2, <4>1, <4>2 DEF QueueKnown
    <3>3. CASE Occupied' # Frames
      BY <1>2, <1>3, <1>5, <3>1, <3>3 DEF QueueKnown
    <3> QED  BY <3>2, <3>3
  <2>2. Queue \in [1 .. i -> Pages] /\ Queue' \in [1 .. i + 1 -> Pages]
    BY <1>3, <2>1 DEF QueueKnown
  <2>3. ASSUME NEW n \in 1 .. i + 1, NEW g \in Frames, g = n - 1
        PROVE  Queue'[n] = PageIn(g)'
    <3>1. n \in 1 .. Cardinality(Occupied)' /\ g = Ahead(Oldest', n - 1)
      BY <1>0, <2>1, <2>3 DEF Ahead
    <3> QED  BY <1>3, <3>1 DEF QueueKnown, Ahead
  <2>4. ASSUME NEW n \in 1 .. i  PROVE Queue'[n] = Queue[n]
    <3>1. PICK g \in Frames \ {f} : g = n - 1
      BY <1>0, <2>4 DEF Frames
    <3>2. n \in 1 .. i + 1 /\ n \in 1 .. Cardinality(Occupied) /\ g = Ahead(Oldest, n - 1)
      BY <1>0, <2>1, <2>4, <3>1 DEF Ahead
    <3>3. Queue[n] = PageIn(g)
      BY <1>3, <3>2 DEF QueueKnown
    <3> QED  BY <1>6, <2>3, <3>1, <3>2, <3>3
  <2>5. Queue'[i + 1] = page
    <3>1. i + 1 \in 1 .. i + 1 /\ f = (i + 1) - 1
      BY <1>0
    <3> QED  BY <1>7, <2>3, <3>1
  <2>6. Len(Queue) = i /\ Queue' = Append(Queue, Queue'[i + 1])
    BY <1>0, <2>2, <2>4, Appended
  <2> QED  BY <1>0, <1>8, <2>1, <2>5, <2>6 DEF InMemory!Load
<1> QED  BY <1>9, <1>10

\* The other steps leave the queue alone: when the search goes on, i and k do so
\* together.
LEMMA SameQueue ==
    ASSUME Ordered, Ordered', SecondChance \/ Return \/ (\E p \in Pages : Fault(p)) \/ UNCHANGED vars
    PROVE  Queue' = Queue
<1>0. IInv /\ Order /\ TypeOK /\ i \in Frames /\ k \in Nat
  BY DEF Ordered, IInv, TypeOK
<1>1. UNCHANGED table
  BY DEF SecondChance, Return, Fault, vars, table
<1>2. Occupied' = Occupied /\ \A f : Mapped(f)' = Mapped(f)
  BY <1>1 DEF Occupied, Mapped, table
<1>3. OldestKnown /\ OldestKnown'
  <2>1. IInv' => OldestKnown'
    BY OldestIs, PTL
  <2> QED  BY <2>1, OldestIs DEF Ordered
<1>4. Oldest' = Oldest
  <2>1. CASE SecondChance
    <3>1. /\ Serving /\ Serving' /\ k' = k + 1 /\ i' = Turn(i) /\ arr[i] = 1 /\ mode = "custom"
          /\ NFRAMES \in Nat \ {0} /\ k < 2 * NFRAMES
      BY <1>0, <2>1, NextFrame, PageTableAssumption DEF SecondChance, Serving, Turn, table
    <3>2. Occupied = Frames
      BY <1>0, <3>1, MarkedAt
    <3>3. Oldest' = Back(i', k + 1)
      BY <1>0, <1>2, <1>3, <3>1, <3>2 DEF OldestKnown
    <3>4. k < NFRAMES
      BY <1>0, <3>1, MarkedAt
    <3>5. CASE k = 0
      BY <1>0, <1>3, <3>1, <3>2, <3>3, <3>5, BackTurn DEF OldestKnown
    <3>6. CASE k > 0
      <4>1. k + 1 \in 2 .. NFRAMES /\ (k + 1) - 1 = k
        BY <1>0, <3>1, <3>4, <3>6
      <4>2. Back(i', k + 1) = Back(i, k)
        BY <1>0, <3>1, <4>1, BackTurn
      <4> QED  BY <1>3, <3>1, <3>2, <3>3, <3>6, <4>2 DEF OldestKnown
    <3> QED  BY <1>0, <3>5, <3>6
  <2>2. CASE Return
    <3>1. ~Serving
      <4>1. Serving => k =< NFRAMES
        BY <1>0 DEF IInv, Cleared
      <4>2. Serving => k < 2 * NFRAMES
        BY <1>0, <4>1, PageTableAssumption
      <4> QED  BY <2>2, <4>2 DEF Return, Serving
    <3>2. i' = i /\ ~Serving'
      BY <2>2 DEF Return, Serving
    <3> QED  BY <1>2, <1>3, <3>1, <3>2 DEF OldestKnown
  <2>3. CASE \E p \in Pages : Fault(p)
    <3>1. i' = i /\ k' = 0 /\ ~Serving
      BY <2>3 DEF Fault, Serving
    <3> QED  BY <1>2, <1>3, <3>1 DEF OldestKnown
  <2>4. CASE UNCHANGED vars
    BY <2>4 DEF vars, table, Oldest, Occupied, Mapped, Serving
  <2> QED  BY <2>1, <2>2, <2>3, <2>4
<1> QED  BY <1>2, <1>4 DEF Queue, PageIn

\* The page that fifo and custom replace (main.c page_fault_handler) is the one that
\* has been in memory longest, for every number of pages and frames: custom sets
\* the bit of a frame when a page comes in and never when the page is used, so its
\* second chances change nothing.
THEOREM OldestReplaced == Spec => ReplacesOldest
<1>1. Init => Order
  BY OrderInit
<1>2. IInv /\ Order /\ [Next]_vars => Order'
  BY OrderNext
<1>3. ASSUME IInv, IInv', Order, Order', [Next]_vars
      PROVE  [mode # "rand" => InMemory!Step]_vars
  <2> SUFFICES ASSUME Next, mode # "rand"
               PROVE  InMemory!Step
    BY <1>3
  <2>1. Ordered /\ Ordered'
    BY <1>3 DEF Ordered, Next, Fault, RandomReplace, FIFOReplace, SecondChance,
                SecondChanceReplace, Return
  <2>2. CASE FIFOReplace \/ SecondChanceReplace
    <3>1. InMemory!Load(page)
      <4>1. i \in Frames
        BY <1>3 DEF IInv, TypeOK
      <4> QED  BY <2>1, <2>2, <4>1, ReplaceLoads DEF FIFOReplace, SecondChanceReplace
    <3>2. page \in Pages
      BY <1>3 DEF IInv, TypeOK
    <3> QED  BY <3>1, <3>2 DEF InMemory!Step, InMemory!Next
  <2>3. CASE SecondChance \/ Return \/ \E p \in Pages : Fault(p)
    BY <2>1, <2>3, SameQueue DEF InMemory!Step
  <2> QED  BY <2>2, <2>3 DEF Next, RandomReplace
<1> QED  BY Invariant, <1>1, <1>2, <1>3, PTL DEF Spec, ReplacesOldest

=============================================================================
