------------------------------- MODULE Pipeline -------------------------------
(***************************************************************************)
(* Processes joined by a pipe, as four programs of the lab set them up: the *)
(* shells of Assignment 2 (shell4.c, Ques1.c), which run what the user      *)
(* types, and the drivers of Assignment 1 (Ques4.c, Ques5.c), which run     *)
(* q2 | q3 (Ques2.c, Ques3.c) once, Ques5 under an alarm.                   *)
(*                                                                          *)
(* A pipe gives its reader the end of the file when no process holds its    *)
(* writing end, and its writer SIGPIPE when none holds its reading end; so  *)
(* what matters is who keeps an end open.  A command is what it does with   *)
(* its pipe: how much it writes, and whether it reads nothing, once or      *)
(* until the end.                                                           *)
(***************************************************************************)
EXTENDS Integers, Sequences, FiniteSets

CONSTANTS
    Programs,   \* the programs to look at
    CAP,        \* what fits in a pipe
    MaxOut,     \* what a command writes, at most
    MaxKids,    \* children that one run of a shell starts, at most
    MaxPipes    \* pipes that a process may have open (half of OPEN_MAX)

ASSUME PipeAssumption ==
    /\ Programs \subseteq {"shell4", "Ques1", "Ques4", "Ques5"}
    /\ CAP \in Nat \ {0} /\ MaxOut \in Nat /\ MaxKids \in Nat
    /\ MaxPipes \in Nat \ {0}

VARIABLES
    prog,       \* the program that runs
    tty,        \* its input is a terminal, where perhaps nobody types
    pc,         \* where it is
    line,       \* the jobs of the command line still to do, the current one first
    back,       \* the current job is run in the background
    held,       \* the pipes of which it holds both ends
    buf,        \* what is in each pipe
    kids,       \* its children, in the order of their creation
    waits,      \* the calls of wait still to make
    strays,     \* how many children it started and will not wait for
    timedout    \* the alarm went off

vars == <<prog, tty, pc, line, back, held, buf, kids, waits, strays, timedout>>

Shell == prog \in {"shell4", "Ques1"}
Pipes == DOMAIN buf
Kids  == DOMAIN kids

\* A job: one command, or two with a pipe from a writer of l to a reader.
Reads  == {"none", "once", "all"}
Single == [piped |-> FALSE, l |-> 0, r |-> "none"]
Job    == {Single} \cup [piped : {TRUE}, l : 0 .. MaxOut, r : Reads]

Init ==
    /\ prog \in Programs
    /\ tty \in (IF prog = "Ques5" THEN BOOLEAN ELSE {FALSE})
    /\ pc = IF Shell THEN "prompt" ELSE "run"
    /\ line \in IF Shell THEN {<<>>}
                ELSE {<<[piped |-> TRUE, l |-> n, r |-> "once"]>> : n \in 0 .. MaxOut}
    /\ back = FALSE
    /\ held = {} /\ buf = <<>> /\ kids = <<>>
    /\ waits = 0 /\ strays = 0
    /\ timedout = FALSE

-----------------------------------------------------------------------------
(* The system: processes, pipes and signals. *)

\* 0 is an input or output that is not one of the pipes; R and W are the ends
\* a child holds, those it only inherited too.
Kid(reads, left, in, out, R, W) ==
    [st |-> "run", reads |-> reads, left |-> left, in |-> in, out |-> out, R |-> R, W |-> W]

Ended(st) == [Kid("none", 0, 0, 0, {}, {}) EXCEPT !.st = st]

Alive(c)   == kids[c].st \in {"run", "dying"}
Unreaped   == {c \in Kids : kids[c].st # "reaped"}
HasReader(k) == k \in held \/ \E c \in Kids : k \in kids[c].R
HasWriter(k) == k \in held \/ \E c \in Kids : k \in kids[c].W

ByKid == UNCHANGED <<prog, tty, pc, line, back, held, waits, strays, timedout>>

Write(c) ==
    /\ Alive(c) /\ kids[c].left > 0
    /\ LET k == kids[c].out
       IN  /\ k # 0 => HasReader(k) /\ buf[k] < CAP
           /\ buf' = IF k = 0 THEN buf ELSE [buf EXCEPT ![k] = @ + 1]
    /\ kids' = [kids EXCEPT ![c].left = @ - 1]
    /\ ByKid

\* A write to a pipe that nobody can read kills the writer.
SigPipe(c) ==
    /\ Alive(c) /\ kids[c].left > 0
    /\ kids[c].out # 0 /\ ~ HasReader(kids[c].out)
    /\ kids' = [kids EXCEPT ![c] = Ended("zombie")]
    /\ UNCHANGED buf /\ ByKid

Read(c) ==
    /\ Alive(c) /\ kids[c].reads # "none"
    /\ LET k == kids[c].in
       IN  buf[k] > 0 /\ buf' = [buf EXCEPT ![k] = @ - 1]
    /\ kids' = [kids EXCEPT ![c].reads = IF @ = "once" THEN "none" ELSE @]
    /\ ByKid

\* The read that returns 0.
ReadsEnd(c) ==
    /\ Alive(c) /\ kids[c].reads # "none"
    /\ buf[kids[c].in] = 0 /\ ~ HasWriter(kids[c].in)
    /\ kids' = [kids EXCEPT ![c].reads = "none"]
    /\ UNCHANGED buf /\ ByKid

\* The command is done, or execvp could not find it and the child exits.
KidExits(c) ==
    /\ Alive(c) /\ kids[c].left = 0 /\ kids[c].reads = "none"
    /\ kids' = [kids EXCEPT ![c] = Ended("zombie")]
    /\ UNCHANGED buf /\ ByKid

KidStep(c) == Write(c) \/ SigPipe(c) \/ Read(c) \/ ReadsEnd(c) \/ KidExits(c)

\* wait(NULL) takes any child that has ended, whoever it was called for, and
\* returns at once when there is none at all.
Reap ==
    IF Unreaped = {} THEN UNCHANGED kids
    ELSE \E c \in Kids : kids[c].st = "zombie" /\ kids' = [kids EXCEPT ![c] = Ended("reaped")]

-----------------------------------------------------------------------------
(* The command line of a shell *)

Needs(s) == IF s.piped THEN 2 ELSE 1

\* shell4 takes two jobs with a semicolon between them, and starts the first
\* one without waiting if it is a single command.  A job of three or more
\* commands is not run by shell4 and cut to its first two by Ques1; commands of
\* the shell itself (cd, help, ...) start no process.  So the second job of
\* shell4 may be the only one to run.
ReadLine ==
    /\ Shell /\ pc = "prompt"
    /\ \E s1, s2 \in Job :
          /\ line' \in {<<s1>>} \cup (IF prog = "shell4" THEN {<<s1, s2>>} ELSE {})
          /\ Len(kids) + Needs(s1) + (IF Len(line') = 2 THEN Needs(s2) ELSE 0) =< MaxKids
    /\ \/ back' = TRUE /\ prog = "shell4"
       \/ back' = FALSE /\ (prog = "Ques1" \/ Len(line') = 1)
    /\ pc' = "run"
    /\ UNCHANGED <<prog, tty, held, buf, kids, waits, strays, timedout>>

\* exit, the end of the input, or the empty line that crashes shell4; the ends
\* it holds are closed.
Quit ==
    /\ Shell /\ pc = "prompt"
    /\ pc' = "exit"
    /\ held' = {}
    /\ UNCHANGED <<prog, tty, line, back, buf, kids, waits, strays, timedout>>

\* The function that runs a job returns.
Return ==
    /\ line' = Tail(line)
    /\ pc' = IF Len(line) > 1 THEN "run" ELSE "prompt"
    /\ back' = FALSE

-----------------------------------------------------------------------------
(* A single command *)

NewSingle == kids' = Append(kids, Kid("none", 0, 0, 0, held, held))

ForkBack ==
    /\ pc = "run" /\ ~ Head(line).piped /\ back
    /\ NewSingle
    /\ strays' = strays + 1
    /\ Return
    /\ UNCHANGED <<prog, tty, held, buf, waits, timedout>>

ForkSingle ==
    /\ pc = "run" /\ ~ Head(line).piped /\ ~ back
    /\ NewSingle
    /\ waits' = 1 /\ pc' = "wait"
    /\ UNCHANGED <<prog, tty, line, back, held, buf, strays, timedout>>

ForkSingleFails ==
    /\ pc = "run" /\ ~ Head(line).piped
    /\ Return
    /\ UNCHANGED <<prog, tty, held, buf, kids, waits, strays, timedout>>

-----------------------------------------------------------------------------
(* Two commands and a pipe *)

MakePipe ==
    /\ pc = "run" /\ Head(line).piped
    /\ Cardinality(held) < MaxPipes
    /\ buf' = Append(buf, 0)
    /\ held' = held \cup {Len(buf')}
    /\ pc' = "fork1"
    /\ UNCHANGED <<prog, tty, line, back, kids, waits, strays, timedout>>

\* The shells close none of the ends in the parent, so one day there are too many.
MakePipeFails ==
    /\ pc = "run" /\ Head(line).piped
    /\ Cardinality(held) = MaxPipes
    /\ Return
    /\ UNCHANGED <<prog, tty, held, buf, kids, waits, strays, timedout>>

\* Slip: the output of the first command stays where it was.
WriterToTerminal(k) == Kid("none", Head(line).l, 0, 0, held \ {k}, held \ {k})

\* The first command.  In the shells it closes the reading end; in the drivers
\* it does not, and q2 can never get SIGPIPE.
Writer(k) == Kid("none", Head(line).l, 0, k, IF Shell THEN held \ {k} ELSE held, held)

\* Slip: the second command keeps the writing end open.
ReaderKeepsEnd(k) == Kid(Head(line).r, 0, k, 0, held, held)

\* The second command closes the writing end.
Reader(k) == Kid(Head(line).r, 0, k, 0, held, held \ {k})

Fork1 ==
    /\ pc = "fork1"
    /\ kids' = Append(kids, Writer(Len(buf)))
    /\ pc' = "fork2"
    /\ UNCHANGED <<prog, tty, line, back, held, buf, waits, strays, timedout>>

\* The drivers do not test the result of fork.
Fork1Fails ==
    /\ pc = "fork1"
    /\ IF Shell THEN Return ELSE pc' = "fork2" /\ UNCHANGED <<line, back>>
    /\ UNCHANGED <<prog, tty, held, buf, kids, waits, strays, timedout>>

\* Slip: wait is called once for the two.
WaitForOne == waits' = 1

WaitForBoth == waits' = 2

Fork2 ==
    /\ pc = "fork2"
    /\ kids' = Append(kids, Reader(Len(buf)))
    /\ pc' = IF Shell THEN "wait" ELSE "close"
    /\ WaitForBoth
    /\ UNCHANGED <<prog, tty, line, back, held, buf, strays, timedout>>

\* A shell forgets the first command, which may be running.
Fork2Fails ==
    /\ pc = "fork2"
    /\ IF Shell THEN Return /\ strays' = strays + 1 /\ UNCHANGED waits
                ELSE pc' = "close" /\ WaitForBoth /\ UNCHANGED <<line, back, strays>>
    /\ UNCHANGED <<prog, tty, held, buf, kids, timedout>>

\* Slip: the driver closes as much as the shells do, nothing.
KeepEnds ==
    /\ pc = "close"
    /\ pc' = "wait"
    /\ UNCHANGED <<prog, tty, line, back, held, buf, kids, waits, strays, timedout>>

\* The drivers close both ends; Ques5 sets its alarm before.
CloseEnds ==
    /\ pc = "close"
    /\ held' = {}
    /\ pc' = "wait"
    /\ UNCHANGED <<prog, tty, line, back, buf, kids, waits, strays, timedout>>

Wait ==
    /\ pc = "wait" /\ waits > 0
    /\ Reap
    /\ waits' = waits - 1
    /\ UNCHANGED <<prog, tty, pc, line, back, held, buf, strays, timedout>>

WaitsDone ==
    /\ pc = "wait" /\ waits = 0
    /\ IF Shell THEN Return /\ UNCHANGED held
                ELSE pc' = "exit" /\ held' = {} /\ UNCHANGED <<line, back>>
    /\ UNCHANGED <<prog, tty, buf, kids, waits, strays, timedout>>

-----------------------------------------------------------------------------
(* The alarm of Ques5 *)

\* SIGTERM.  q3 exits at once.  q2 exits too, but its exit writes out the buffer
\* of stdio, which may hold something that is not in the pipe yet.
Terminated(c, unwritten) ==
    IF kids[c].st # "run" THEN kids[c]
    ELSE IF kids[c].out = 0 THEN Ended("zombie")
    ELSE [kids[c] EXCEPT !.st = "dying",
                         !.left = IF @ < unwritten THEN @ ELSE unwritten]

\* The handler jumps out of the wait, kills both children, whether they have
\* been waited for or not, and waits twice again.
Alarm ==
    /\ prog = "Ques5" /\ ~timedout
    /\ pc \in {"close", "wait"}
    /\ timedout' = TRUE
    /\ \E n \in {0, 1} : kids' = [c \in Kids |-> Terminated(c, n)]
    /\ pc' = "wait" /\ WaitForBoth
    /\ UNCHANGED <<prog, tty, line, back, held, buf, strays>>

-----------------------------------------------------------------------------

ParentStep ==
    \/ ForkBack \/ ForkSingle \/ ForkSingleFails
    \/ MakePipe \/ MakePipeFails \/ Fork1 \/ Fork1Fails \/ Fork2 \/ Fork2Fails
    \/ CloseEnds \/ Wait \/ WaitsDone

Next ==
    \/ ReadLine \/ Quit \/ ParentStep \/ Alarm
    \/ \E c \in Kids : KidStep(c)

Spec == Init /\ [][Next]_vars

\* q2 reads what somebody types.
Typed(c) == tty /\ kids[c].out # 0 /\ kids[c].st = "run"

\* Every process is scheduled and the alarm goes off if nobody cancels it; the
\* user need not type anything.
FairSpec ==
    /\ Spec
    /\ WF_vars(ParentStep) /\ WF_vars(Alarm)
    /\ \A c \in 1 .. MaxKids : WF_vars(c \in Kids /\ ~Typed(c) /\ KidStep(c))

-----------------------------------------------------------------------------
(* Properties *)

\* Children hold ends of pipes that exist, a command that reads has a pipe to
\* read from, and no pipe ever holds more than fits.
KidType == [st : {"run", "dying", "zombie", "reaped"}, reads : Reads, left : 0 .. MaxOut,
            in : {0} \cup Pipes, out : {0} \cup Pipes, R : SUBSET Pipes, W : SUBSET Pipes]

TypeOK ==
    /\ prog \in Programs
    /\ tty \in BOOLEAN
    /\ pc \in {"prompt", "run", "fork1", "fork2", "close", "wait", "exit"}
    /\ line \in Seq(Job)
    /\ back \in BOOLEAN
    /\ buf \in Seq(0 .. CAP)
    /\ held \subseteq Pipes
    /\ kids \in Seq(KidType)
    /\ \A c \in Kids : kids[c].reads # "none" => kids[c].in # 0
    /\ waits \in 0 .. 2
    /\ strays \in Nat
    /\ timedout \in BOOLEAN

\* Whoever is back at its prompt, or at its end, has as many children left, on
\* the run or as zombies, as it started without meaning to wait for them: the
\* background commands of shell4, and the first command of a pipeline whose
\* second one could not be started.  They need not be those themselves: wait
\* takes any child, so a stray that ends in time stands in for a command of the
\* pipeline, which is then left running.
OnlyStraysLeft ==
    pc \in {"prompt", "exit"} => Cardinality(Unreaped) = strays

\* A job that ends although the shell keeps both ends of its pipe open: the
\* second command does not read to the end, and finds what it reads; the output
\* of the first one fits.
Modest(s) ==
    s.piped =>
        \/ s.r = "none" /\ s.l =< CAP
        \/ s.r = "once" /\ s.l \in 1 .. CAP + 1

\* The shells come back to the prompt from every line of modest jobs, whatever
\* became of fork, of earlier lines and of the commands still running.
PromptReturns ==
    (Shell /\ pc = "run" /\ \A n \in DOMAIN line : Modest(line[n])) ~> pc = "prompt"

\* Once a shell has gone, every command it started ends, also those that waited
\* for an end of a pipe that only the shell held: a command inherits ends of
\* earlier pipes, never of later ones, so they free each other.
QuitFreesAll ==
    (Shell /\ pc = "exit") ~> \A c \in Kids : ~Alive(c)

\* A driver ends when the output of q2 fits in the pipe: Ques5 even if nobody
\* ever types anything, by its alarm.
DriverEnds ==
    (~Shell /\ pc = "run" /\ Head(line).l =< CAP) ~> pc = "exit"
=============================================================================
