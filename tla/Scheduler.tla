------------------------------- MODULE Scheduler -------------------------------
(***************************************************************************)
(* The CPU scheduling simulation of Assignment 3 (scheduler.c).  A process  *)
(* table is read from a file; a menu runs first come first served, round    *)
(* robin and shortest remaining burst first on it, in any order and as      *)
(* often as the user likes.  Each algorithm prints the chart of who runs    *)
(* when, fills in the turnaround and waiting times, and leaves the table    *)
(* sorted for the next one: the table is all that outlives a run.           *)
(*                                                                          *)
(* One step is one turn of an algorithm's main loop.  Arrays start at 1.    *)
(***************************************************************************)
EXTENDS Integers, Sequences, FiniteSets, Functions

CONSTANTS
    MaxN,       \* lines of the input file, at most
    Arrivals,   \* arrival times in the file
    Bursts,     \* burst times in the file
    Quanta      \* the time quanta that the user enters

\* What remains of a process that has not arrived, or has ended.
INT_MAX == 2147483647

ASSUME InputAssumption ==
    /\ MaxN \in 1 .. 9
    /\ Arrivals \subseteq Nat
    /\ Bursts \subseteq 1 .. INT_MAX - 1
    /\ Quanta \subseteq Nat \ {0}

VARIABLES
    table,   \* the processes: arrival, burst, turnaround and waiting time
    pc,      \* "menu", the algorithm that runs, "undefined" or "exit"
    alg,     \* the algorithm that the user chose last
    time,    \* the clock of the algorithm
    otime,   \* SRBF: when the running process got the CPU
    t,       \* RR, SRBF: what remains of each burst
    i, j,    \* the process that has its turn, and the next one to arrive
    q,       \* RR: the time quantum
    chart    \* the lines "[from - to] p running" of this run

vars == <<table, pc, alg, time, otime, t, i, j, q, chart>>

Table == [arr : Arrivals, burst : Bursts, tat : {0}, wait : {0}]

\* ReadProcessTable; the table is static, so its times start at zero.
Init ==
    /\ table \in UNION {[1 .. n -> Table] : n \in 1 .. MaxN}
    /\ pc = "menu" /\ alg = "none"
    /\ time = 0 /\ otime = 0
    /\ t = <<>>
    /\ i = 1 /\ j = 1 /\ q = 0
    /\ chart = <<>>

N     == Len(table)
Procs == 1 .. N
Lesser(a, b) == IF a < b THEN a ELSE b

\* The bubble sort that opens each algorithm; it keeps the order of equals.
Earlier(s, o, p) == s[o].arr < s[p].arr \/ (s[o].arr = s[p].arr /\ o =< p)

Place(s, p) == Cardinality({o \in DOMAIN s : Earlier(s, o, p)})

Sorted(s) == [n \in DOMAIN s |-> s[CHOOSE p \in DOMAIN s : Place(s, p) = n]]

-----------------------------------------------------------------------------
(* The menu *)

Start(a, t0) ==
    /\ pc = "menu"
    /\ pc' = a /\ alg' = a
    /\ table' = Sorted(table)
    /\ t' = [p \in Procs |-> t0]
    /\ time' = 0 /\ otime' = 0
    /\ i' = 1 /\ j' = 1
    /\ chart' = <<>>

StartFCFS == Start("FCFS", 0) /\ q' = 0
StartRR   == Start("RR", 0) /\ q' \in Quanta
StartSRBF == Start("SRBF", INT_MAX) /\ q' = 0

Exit ==
    /\ pc = "menu"
    /\ pc' = "exit"
    /\ UNCHANGED <<table, alg, time, otime, t, i, j, q, chart>>

Running(p, from, to) == Append(chart, [p |-> p, from |-> from, to |-> to])

\* Process p has ended at this time.
WithTat(p, end) ==
    [table EXCEPT ![p].tat = end - table[p].arr]

WithTatAndWait(p, end) ==
    [table EXCEPT ![p].tat = end - table[p].arr,
                  ![p].wait = end - table[p].arr - table[p].burst]

-----------------------------------------------------------------------------
(* First come first served: arrival times matter only for the order. *)

FCFSRun ==
    /\ pc = "FCFS" /\ i =< N
    /\ chart' = Running(i, time, time + table[i].burst)
    /\ time' = time + table[i].burst
    /\ table' = WithTatAndWait(i, time')
    /\ i' = i + 1
    /\ UNCHANGED <<pc, alg, otime, t, j, q>>

FCFSEnds ==
    /\ pc = "FCFS" /\ i > N
    /\ pc' = "menu"
    /\ UNCHANGED <<table, alg, time, otime, t, i, j, q, chart>>

-----------------------------------------------------------------------------
(* Round robin *)

Total == SumFunctionOnSet([p \in Procs |-> table[p].burst], Procs)

\* Slip: a process is admitted only after its arrival time.
AdmitsLate == j =< N /\ table[j].arr < time

\* At most one process is admitted in a turn, whoever's turn it is.
Admits == j =< N /\ table[j].arr =< time

Remaining == IF Admits THEN [t EXCEPT ![j] = table[j].burst] ELSE t

\* Slip: a process of the quantum's length keeps its old times.
RRSliceLate(rem, run) ==
    /\ chart' = Running(i, time, time + run)
    /\ time' = time + run
    /\ t' = [rem EXCEPT ![i] = @ - run]
    /\ table' = IF run < q THEN WithTatAndWait(i, time') ELSE table

\* Process i runs for a quantum, or for what it needs if that is less.
RRSlice(rem, run) ==
    /\ chart' = Running(i, time, time + run)
    /\ time' = time + run
    /\ t' = [rem EXCEPT ![i] = @ - run]
    /\ table' = IF rem[i] = run THEN WithTatAndWait(i, time') ELSE table

\* Slip: a process that was interrupted keeps its turn.
RRTurnKept ==
    /\ IF Remaining[i] = 0
       THEN t' = Remaining /\ UNCHANGED <<table, time, chart>>
       ELSE RRSlice(Remaining, Lesser(Remaining[i], q))
    /\ i' = IF t'[i] # 0 THEN i ELSE (i % N) + 1

RRTurn ==
    /\ IF Remaining[i] = 0
       THEN t' = Remaining /\ UNCHANGED <<table, time, chart>>
       ELSE RRSlice(Remaining, Lesser(Remaining[i], q))
    /\ i' = (i % N) + 1

RRStep ==
    /\ pc = "RR" /\ time # Total
    /\ RRTurn
    /\ j' = IF Admits THEN j + 1 ELSE j
    /\ UNCHANGED <<pc, alg, otime, q>>

\* j is not tested against N.  The cells of the table past the last process
\* are zero, so a process that is not there is admitted in every further turn
\* and t[j] = 0 is written past the end of t, onto the stack: into the padding,
\* and nothing happens (RRStep), or onto something in use.
RRBeyond ==
    /\ pc = "RR" /\ time # Total
    /\ j > N
    /\ pc' = "undefined"
    /\ UNCHANGED <<table, alg, time, otime, t, i, j, q, chart>>

RREnds ==
    /\ pc = "RR" /\ time = Total
    /\ pc' = "menu"
    /\ UNCHANGED <<table, alg, time, otime, t, i, j, q, chart>>

-----------------------------------------------------------------------------
(* Shortest remaining burst first: the clock goes one unit at a time. *)

SRBFAdmit ==
    /\ pc = "SRBF" /\ time # Total
    /\ j =< N /\ table[j].arr = time
    /\ t' = [t EXCEPT ![j] = table[j].burst]
    /\ j' = j + 1
    /\ UNCHANGED <<table, pc, alg, time, otime, i, q, chart>>

\* Slip: the running process is only left when it has ended.
ShortestNonPreemptive(rem) ==
    IF rem[i] # INT_MAX THEN i
    ELSE CHOOSE p \in Procs : \A o \in Procs : rem[p] < rem[o] \/ (rem[p] = rem[o] /\ p =< o)

\* The running process if nobody has less left, or the first that has least.
Shortest(rem) ==
    IF \A o \in Procs : rem[i] =< rem[o] THEN i
    ELSE CHOOSE p \in Procs : \A o \in Procs : rem[p] < rem[o] \/ (rem[p] = rem[o] /\ p =< o)

\* Slip: the time of the switch is not kept.
SwitchUndated(k) ==
    IF i = k THEN UNCHANGED <<chart, otime>>
    ELSE chart' = Running(i, otime, time) /\ UNCHANGED otime

\* The line of the process that was running is printed when another one runs.
Switch(k) ==
    IF i = k THEN UNCHANGED <<chart, otime>>
    ELSE chart' = Running(i, otime, time) /\ otime' = time

SRBFTick ==
    /\ pc = "SRBF" /\ time # Total
    /\ ~ (j =< N /\ table[j].arr = time)
    /\ LET rem == [t EXCEPT ![i] = IF @ = 0 THEN INT_MAX ELSE @]
           k   == Shortest(rem)
       IN  /\ Switch(k)
           /\ i' = k
           /\ t' = [rem EXCEPT ![k] = @ - 1]
           /\ time' = time + 1
           /\ table' = IF t'[k] = 0 THEN WithTat(k, time') ELSE table
    /\ UNCHANGED <<pc, alg, j, q>>

SRBFEnds ==
    /\ pc = "SRBF" /\ time = Total
    /\ chart' = Running(i, otime, time)
    /\ table' = [p \in Procs |-> [table[p] EXCEPT !.wait = table[p].tat - table[p].burst]]
    /\ pc' = "menu"
    /\ UNCHANGED <<alg, time, otime, t, i, j, q>>

-----------------------------------------------------------------------------

Step ==
    \/ FCFSRun \/ FCFSEnds
    \/ RRStep \/ RRBeyond \/ RREnds
    \/ SRBFAdmit \/ SRBFTick \/ SRBFEnds

Next == StartFCFS \/ StartRR \/ StartSRBF \/ Exit \/ Step

Spec == Init /\ [][Next]_vars

\* The program runs by itself; the user may stop at the menu.
FairSpec == Spec /\ WF_vars(Step)

-----------------------------------------------------------------------------
(* Properties *)

\* There is work at every moment until the last process ends: nobody arrives
\* after all the work that came before it is done.
Busy ==
    \A p \in Procs :
        LET before == {o \in Procs : table[o].arr < table[p].arr}
        IN  table[p].arr =< SumFunctionOnSet([o \in before |-> table[o].burst], before)

Finished == pc = "menu" /\ alg # "none"

Lines    == DOMAIN chart
Slice(l) == chart[l].to - chart[l].from

\* The time that process p gets in the lines ls of the chart.
TimeOf(p, ls) ==
    LET own == {l \in ls : chart[l].p = p}
    IN  SumFunctionOnSet([l \in own |-> Slice(l)], own)

LastOf(p) == CHOOSE l \in Lines : chart[l].p = p /\ Slice(l) > 0
                 /\ \A m \in Lines : m > l => chart[m].p # p \/ Slice(m) = 0

\* The chart is a schedule: from 0 on without gaps or overlaps, nobody runs
\* before it arrives or for longer than its burst, and in the end everybody had
\* all of it.
ChartIsSchedule ==
    (Busy /\ alg # "none") =>
        /\ \A l \in Lines : chart[l].from = (IF l = 1 THEN 0 ELSE chart[l - 1].to)
        /\ \A l \in Lines : Slice(l) > 0 => chart[l].from >= table[chart[l].p].arr
        /\ \A p \in Procs : TimeOf(p, Lines) =< table[p].burst
        /\ Finished => \A p \in Procs : TimeOf(p, Lines) = table[p].burst

\* The statistics are those of the chart, on every table with work at every
\* moment (Busy) and whatever ran on it before: a process turns around when its
\* last slice ends, and waits while it is there and others run.  Without Busy it
\* is not so: SRBF counts the idle time towards the sum of the bursts, stops at
\* time = tt with work left (scheduler.c:181), and a process that has not ended
\* keeps the turnaround time that an earlier run stored.
StatsMatchChart ==
    (Busy /\ Finished) =>
        \A p \in Procs :
            LET end == chart[LastOf(p)].to
            IN  /\ table[p].tat = end - table[p].arr
                /\ table[p].wait = (end - table[p].arr) - table[p].burst
                /\ table[p].wait >= 0

\* The least sum of turnaround times over all schedules, preemptive or not,
\* when rem remains of the bursts: every process that has arrived and not ended
\* adds a unit in every unit of time.
LeastTurnaround ==
    LET Rems == [Procs -> 0 .. Total]
        now(rem) == Total - SumFunctionOnSet(rem, Procs)
        ready(rem) == {p \in Procs : rem[p] > 0 /\ table[p].arr =< now(rem)}
        least[rem \in Rems] ==
            IF ready(rem) = {} THEN 0
            ELSE LET costs == {least[[rem EXCEPT ![p] = @ - 1]] : p \in ready(rem)}
                 IN  Cardinality(ready(rem)) + CHOOSE c \in costs : \A d \in costs : c =< d
    IN  least[[p \in Procs |-> table[p].burst]]

\* Shortest remaining burst first is optimal: no schedule of the same processes
\* has a smaller mean turnaround time.
SRBFIsBest ==
    (Busy /\ Finished /\ alg = "SRBF") =>
        SumFunctionOnSet([p \in Procs |-> table[p].tat], Procs) = LeastTurnaround

\* Round robin starves nobody: from the moment a process arrives to its first
\* slice, and from each of its slices to the next, every other process starts at
\* most one.
BypassedOnce ==
    (alg = "RR" /\ Busy) =>
        \A p, o \in Procs : \A b \in Lines :
            LET waited == {l \in 1 .. b : /\ chart[l].from >= table[p].arr
                                         /\ \A m \in l .. b : chart[m].p # p}
            IN  (p # o /\ TimeOf(p, 1 .. b) < table[p].burst) =>
                    Cardinality({l \in waited : chart[l].p = o}) =< 1

\* Every algorithm comes back to the menu.  Round robin does so only if there
\* is always work: before the first arrival, or in a gap, its clock stands still
\* for ever.
Ends ==
    (pc \in {"FCFS", "SRBF"} \/ (pc = "RR" /\ Busy)) ~> pc \in {"menu", "undefined"}
=============================================================================
