# Verification of the CS232 operating systems lab programs

The repository holds the programs of seven assignments of an operating systems
laboratory: a file system with a shell, two thread pool web servers, two thread
synchronisation programs, a page fault handler, shells and drivers that join
processes by pipes, and a CPU scheduling simulator. The assignments share no
code. They are modelled here in TLA+, checked with TLC, and in part proved with
TLAPS.

## 1. Inventory

| Part | Source (under `src/`) | State | Operations | What is hard | Module |
|---|---|---|---|---|---|
| SimpleFS | `Assignment7/lab7/src/library/fs.cpp` | superblock, inode table, data and indirect blocks on the image; bitmap and counts in memory | format, mount, create, remove, stat, read, write, debug | several disk writes per command, full disk, the border between direct and indirect blocks, bitmap rebuilt from the inodes | `SimpleFS` |
| Disk emulator | `.../library/disk.cpp` | image file, size, mount count | open, read, write, bounds check | image opened with another size; an exception nobody catches | `SimpleFS` |
| File system shell | `.../shell/sfssh.cpp` | none of its own | one command per line; copyin and copyout loop over chunks | commands in any order, kill between two disk writes | `SimpleFS` |
| Thread pool server | `Assignment5/web_server/webserver_pool.c` | ring of 10 requests, two indices | accept, put, take, handle, delete | one condition variable for two kinds of waiters, ring full and empty, ownership of requests | `ThreadPool` |
| Second pool server | `Meg(Sanit).c` | linked list, its size | put or drop, remove in two modes, handle, delete | size read outside the mutex, a loop under it that never advances | `ListPool` |
| HTTP request | `request.c` | request with its connection | create, handle, delete | who closes a connection after a failure; an answer cut off half way | `ThreadPool`, `ListPool`, `Response` |
| TCP layer | `tcp.c` | socket, read buffer | listen, accept, read, readline, write, close | partial reads and writes, timeouts, bytes that one function leaves in the buffer for the next | `TcpBuffer` (reading), `Response` (writing), `Connection` (both) |
| Readers-writers lock | `Assignment4/ReaWri.c` | counters of readers, writers and waiting writers | readlock, writelock, readunlock, writeunlock | woken and arriving readers pass different tests, four signals in place of a broadcast | `RWLock` |
| Producer-consumer | `Assignment4/ProCon.c` | circular buffer, two positions | put, get | wrap-around, wakeups | `BoundedBuffer` |
| Page table and handler | `Assignment6/vm_assignment/page_table.c`, `main.c` | mapping and bits of every page, next frame, second chance bits | fault, set and get an entry, three policies | stale entries, the bounded search of the second chance | `PageTable` |
| Shells with pipes | `Assignment2/shell4.c`, `Ques1.c` | open pipe ends, children | fork, pipe, dup2, close, wait | ends of pipes left open, `wait` takes any child | `Pipeline` |
| Filters and drivers | `Assignment1/Ques2.c` to `Ques5.c` | the same, an alarm | run q2 &#124; q3, time out | a handler that jumps out of `wait` while the children end | `Pipeline` |
| Scheduling simulator | `Assignment3/scheduler.c` | process table that survives each run | FCFS, RR, SRBF from a menu, in any order | admission of one process per turn, idle time, preemption at the tick of an arrival | `Scheduler` |
| Thread per connection server | `webserver_dynamic.c` | array of thread identifiers | accept, start a thread | index of a fixed array never reset | not modelled |
| Single threaded server | `webserver.c` | none | one loop | nothing beyond `Connection` | not modelled |
| Programs of the virtual memory, virtual disk | `vm_assignment/program.c`, `disk.c` | - | touch pages; read and write blocks | `PageTable` takes the accesses in any order; the handler never uses the disk | not modelled |
| Small programs | `Assignment1/Ques1.c`, `Assignment4/hello.c` | - | - | no state and nothing to interact with | not modelled |

How they interact: the file system shell calls `FileSystem`, which calls `Disk`; the
main thread of a server and its workers share the ring or the list and a mutex, and
call `request.c`, which calls `tcp.c`; a shell or driver and its commands share the
ends of pipes and the table of processes; the virtual memory programs fault into
`internal_fault_handler`, which calls the handler, which changes the page table.
The assignments do not interact with each other, and each is a family of modules
of its own.

What makes each correct: the files are those that were stored (`FileStore`); a
request is answered once, in order, by somebody, over a connection that carries
the bytes in order; a writer is alone and nobody sleeps on work; the buffer is a
queue; a fault is served without two pages in one frame; a shell comes back to
its prompt and leaves behind only whom it meant to; a chart is a schedule, and
the best one where that is promised. `PROJECT.json` maps every definition to its source lines and
lists every hazard with the properties that watch it.

## 2. Modules

```
FileStore              abstract: numbered files, a write at a time, torn by a crash
SimpleFS               fs.cpp + disk.cpp + sfssh.cpp
SimpleFS_proofs        theorems, the refinement of SimpleFSStore to FileStore among them
SimpleFSStore          SimpleFS, a history variable, refinement to FileStore
MCSimpleFS             the files of the host, for TLC
MCSimpleFSStore        the same for SimpleFSStore

BoundedFIFO            abstract: bounded FIFO queue
ThreadPool             webserver_pool.c (FCFS), request.c, accept and close of tcp.c
ThreadPool_proofs      theorems, the refinement to BoundedFIFO among them
ListPool               Meg(Sanit).c, the same of request.c and tcp.c
ListPool_proofs        theorems, the refinement to BoundedFIFO among them
BoundedBuffer          ProCon.c
RWLock                 ReaWri.c
Assignment4_proofs     theorems about both, the refinement of BoundedBuffer to BoundedFIFO among them

TcpBuffer              the reading functions of tcp.c
Response               request_handle of request.c, tcp_printf and tcp_write
Connection             TcpBuffer and Response: a connection from both sides
Connection_proofs      theorems about TcpBuffer, Response and both together

FIFOReplacement        abstract: pages in memory in order of arrival
PageTable              page_table.c + page_fault_handler
PageTable_proofs       theorems

Pipeline               shell4.c, Assignment2/Ques1.c, Assignment1/Ques2-5.c
Pipeline_proofs        theorems

Scheduler              scheduler.c
Scheduler_proofs       theorems
```

Some definitions are called slips: each is a faulty variant of the definition
that follows it, and is used nowhere. They document a plausible mistake in the
code that the properties would notice, and `PROJECT.json` says which run notices.

### SimpleFS

*State.* `super`, `inodes` and `block` are the image: block 0, the inode blocks
`1 .. InodeBlocks`, and the rest. `nblocks` is `Disk::Blocks`; `mounted`,
`num_blocks`, `num_inodes` and `free_bitmap` are the memory of `Disk` and
`FileSystem` (the bitmap as the set of its free blocks). `w` holds the locals of
`copyin` and of `FileSystem::write`. The unit of data is a word of 4 bytes, so that a block is
exactly `POINTERS_PER_BLOCK` words, as in `fs.h`, whether it holds data or pointers.

*The union.* A block is a union (`fs.h:32`) and a word is any number, also in a host file. Once two files
share a block, words that were written as data are read as pointers: `remove` frees what they name, `mount` marks
it, `allocate_free_block` zeroes it, `write` and `read` follow it. The model does the same. `Words` is the block as
an array of pointers, and for a block of the inode table it is made of the members of the inodes
(`InodeWord`); `ClearBlock` zeroes a block of either kind. It stops where data or an indirect block is written over
the inode table (`OverwriteInodes`, `pc = "overwritten"`): from there on the inodes are whatever the words say, and
nothing is claimed.

*Steps.* A command is one step, except `format` and `copyin`, which write more
than one block. `format` writes the superblock and then one block per step.
`copyin` calls `write` for one chunk after the other, and `write` goes step by
step through its loop: `AllocateDirect`, `AllocateIndirect`, `ReadIndirect`,
`AllocateData`, `WriteData`, then `UpdateSize`, `SaveInode`, `SaveIndirect`.
Every disk write is a step of its own. `ReturnEarly` is the `return written` in
the middle of the loop. `Create` and `Remove` write one block, the inode's, so
they are one step each. `Stop` may come at any point (quit, end of input, a
kill), and `Open` starts the shell on the same image, with any size of `Sizes`.

*Errors.* A block number that `Disk::sanity_check` refuses throws an exception
that nobody catches: the actions named `...Aborts` end in `pc = "aborted"`.
Reading an uninitialised variable, using `FileSystem` before `mount`, or an index
outside of `free_bitmap` ends in `pc = "undefined"`, after which nothing is
claimed.

*Left out.* `stat` (no state), I/O errors of the host, parsing of the command
line, the printed text. A host file is filled with one word, which is enough to
tell old from new data; the words of the runs are block numbers, `1` (an inode block) among them. Numbers do not overflow in the model: the images of
the assignment have a few hundred blocks.

### FileStore and the refinement

`FileStore` is what a user of the shell is promised: numbered files that are
sequences of words. A write that returns has put a prefix of its words in the
file and touched nothing else. If the shell dies during a write, any part of
the words of that write may be there, and, behind the direct blocks only, words
that were never stored may read as 0: the inode is saved before the indirect
block, so a kill between the two leaves a size that covers pointers of 0. Such
a hole is confined to words the interrupted write was about to store. A later
write over a hole fills only the blocks it covers, so zeros can stay inside a
file for good.

`SimpleFSStore` maps the image to `files`. While a write is in progress the file it writes is what it
was when the write began (history variable `before`), since `FileStore` lets the
whole write happen when it returns or when the shell dies. A write has length 0 when its
file is as long as `MAX_FILE_SIZE` already: `write` is called and stores nothing.

### ThreadPool

Every thread has a program counter. The steps are cut at the mutex: taking it, the test
of the cell with what follows under the mutex, releasing it, and outside it the
handling and the deletion of a request. A
connection and its request share a name; `closes` counts the calls of `tcp_close` on
each connection. `pthread_*` is external and modelled as POSIX has it: a signal
wakes one waiter, a broadcast all, a wait may return without a signal, and a
thread that was woken competes for the mutex again. A client that sends garbage
is `RequestNotCreated`. `AcceptFails` is the time limit of 300 seconds, or an
error of `accept`: main returns and the process ends whatever its workers do.
The SFF branch names a variable that is not declared (`webserver_pool.c:89`), does
not compile, and is not modelled.

### ListPool

The threads are cut as in `ThreadPool`, but there is no condition variable: `Test` reads
`size` without the mutex and is a step of its own, so that by the time of `Lock` another worker may have
emptied the list (`RemoveNothing`). `me` is the mode of the command line, kept apart by
`remove_fcfs` and `remove_sff`. The loop of `remove_sff` looks at the second of three or
more nodes and never moves on, so it either removes that one (`RemoveSecond`), or
stays there for ever with the mutex (`Spins`, after which that thread has no step).
A connection that was closed comes again (`Accept` uses its name again, as the system does its descriptor), so a
stream of requests does not end. In that mode a stream of thumbnails passes the head of the list for ever, although no worker
is caught: TLC finds that behaviour when `EveryoneServed` does not except it (`Passed`). `Drop` is a list over
its limit or a failed `malloc`: the request and its connection are forgotten. The unlocked read
is one read of an aligned `int`. The Makefile builds the servers without optimisation, so every turn reads it
again; an optimising compiler could read it once, and a worker would then wait for ever.

### TcpBuffer

*State.* `buffer`, `buffer_start` and `buffer_length` are the members of `struct
tcp`; `op`, `data`, `count` and `chunk` are the locals of the call that is going on.
A byte is its position in what the peer sends, and `kind` says which are LF or CR,
so a lost, doubled or displaced byte shows. `arrived` and `taken` are the two ends of what the
kernel holds.

*Steps.* Every `read(2)`, every wait in `tcp_sleep`, every byte that `tcp_readline` copies and the
`memcpy` out of the buffer is a step. `read` delivers any number of bytes that have arrived. Between two
steps the peer may send, close or reset; after a reset what was not read is gone. Calls come in any
order with any array size of `Counts`, although the web server calls `tcp_readline` only:
the functions are an interface (`tcp.h`), and share the buffer.

*Left out.* A system call interrupted by a signal (the server handles none but ignores SIGPIPE); a
`stoptime` of 0, which means to wait for ever. A call can outlast its `stoptime`: each wait lasts at
least a second, and bytes that arrive start another. A peer that sends CRs and
nothing else keeps `tcp_readline` for as long as it does, since they take no room; with
`MaxBytes` it stops. `tcp.h:44` says that `tcp_readline` returns the number of bytes
read and less than 0 on error; it returns 1 or 0, and `request.c` takes it so.

### Response and Connection

*State.* An answer is a sequence of pieces: the lines of the header, one `tcp_printf` each, and
the blocks of the file, one `tcp_write` each. `piece` and `total` say how far it is, `wire` is
all that the socket took, a byte being the pair of its piece and its place in it; `queued` is what
the client has not drained from the socket.

*Steps.* Every `write(2)` of any part that fits, every `EAGAIN` that leads to `tcp_sleep`, and every
end of it. The client drains a byte or resets at any time. `request_handle` ignores what
`tcp_printf` returns but stops the file at the first block that was not written whole:
so the header may have holes and the file may not.

`Connection` is the composition: a thread reads a request through `TcpBuffer` and then writes an
answer through `Response`. The sides share only the socket, so a behaviour of `Connection`
looks at one of them, chosen at the start. *Left out*: the text of the lines, and the delay of every third answer.

### RWLock and BoundedBuffer

All shared fields are read and written under one mutex, which is held from the
entry of a function to its end or to `pthread_cond_wait`. So each such piece of
a function is one step, and `woken` is a thread that has to get the mutex again.
In `RWLock` the shared `data` is read and written outside of the mutex, in
steps of their own. Where both modules would have the same name, that of `RWLock` is
another (`LockInit`, `LockSpec`, `seen` for `d`), so that one module can extend both for the proofs. A `writelock` that does not have to wait counts itself as waiting and
not waiting in one step. `SIGNALS` is the number of signals in `writeunlock` (4); the
`delay` of the threads is any time between two steps. `deletelock` is never called.

### PageTable

A fault is `Fault`; the handler then takes one step per policy, or one step per turn of its
loop under the second chance, until `Return`. The access that faulted is tried
again by faulting or not faulting afterwards. `page_mapping` starts with
arbitrary frames because `malloc` does not clear it; what the entry of a page
without bits says is never used. `mode` is the policy that main takes from the
command line and never changes. The contents of the frames are not modelled: the handler
neither writes a page that it replaces to the disk nor reads the page that it
maps from there (`main.c:77` and the like), so a page that comes back has the
contents of another, although `LabReport.txt:40` speaks of bringing it from the
disk. There is nothing for a property to hold of.

### Pipeline

*State.* Four programs that do the same thing differently, so one module with `prog`: the two shells of
Assignment 2 and the two drivers of Assignment 1. `held` are the pipes of which the parent has both ends open, `buf` what
is in each pipe, `kids` its children with the ends that each inherited (`R`, `W`), what it still has to write (`left`)
and whether it reads nothing, once, or to the end. `line` is the command line still to be run, `back` whether its first job is
not waited for, and `strays` counts the children that the parent will never wait for.

*Steps.* Every `pipe`, `fork`, `wait` and closing of ends, each with its failure and the early return that
follows it: `MakePipeFails`, `Fork1Fails`, `Fork2Fails`, `ForkSingleFails`. The pipe is the operating system's: a reader gets the end of
the file when nobody holds a writing end, a writer SIGPIPE when nobody holds a reading end, and a full pipe
blocks. `Alarm` is the handler of `Ques5.c`, which jumps out of `wait`, kills both children and waits twice again;
a `q2` that is killed flushes its standard output first.

*Left out.* Words, paths and the commands that the shells do themselves, which start no process; `execute3` of
`shell4.c`, which is never reached, because `pipeParser` returns 0 for three commands; the letters the filters change.

### Scheduler

*State.* `table` is the process table, which outlives each run of an algorithm together with the order and the
figures the last one left in it; `t`, `i`, `j`, `time`, `otime` and `q` are the locals; `chart` is the lines "running"
that are printed.

*Steps.* One per turn of an algorithm's main loop, and one to start and to end it. The bubble sort at the
start is `Sorted`, the stable sort it amounts to. Round robin admits at most one process in a turn and never tests `j` against `N`; the
store past the end of `t` is `RRBeyond`, an undefined step that may or may not be noticed.
*Left out*: names, averages, the printed table.

## 3. Runs

| Run | Shows | Bounds |
|---|---|---|
| `fs_store` | with the shell killed at any disk write and started again: no block leaks, no file shows words that nobody wrote, copyout gives back what copyin stored, and `FileStore` is implemented | 2 inodes in 2 inode blocks, 15 blocks (12 for data, two more than both files need), lengths 3 (odd, direct) and 8 (two calls of write, all of the indirect block), one word, two starts |
| `fs_full` | a full disk: no block in two places, none that is pointed to is free, every copyin ends, and a write that stops short leaves what `FileStore` allows | 2 inodes, 7 blocks (5 for data), lengths 3, 5 and 8 of two words, one start |
| `fs_geometry` | types, and sizes backed by direct blocks, through truncated and extended images, files that share blocks, data read as pointers, aborts and undefined behaviour | 6 or 7 blocks, two starts, any inode number including one out of range, a file of words 5 (a data block) and one of words 1 (the inode block) |
| `pool` | no request lost, doubled, overtaken or slept on; every accepted connection is closed unless the server stops or main is still reading its request | 2 cells, 3 workers, 4 clients: the indices go around twice |
| `listpool` | no request answered twice although the size is read without the mutex; with FCFS the list is a bounded queue; who got in is served; in the second mode unless a worker is caught in the loop or thumbnails pass the head for ever | limit 2 (three in the list, the least for `remove_sff`), 2 workers, 4 names of connections that are used again once closed, of which 2 ask for thumbnails, both modes |
| `tcp` | callers get the stream as it was sent, `tcp_readline` ends at the LF, the client gets a prefix of the file, every call and every answer comes to its end | buffer of 2 bytes, 4 bytes of any kinds, arrays of 1 (a small read) and 3 (more than the buffer); 2 header lines, up to 2 blocks, of 1 or 2 bytes, a socket of 2 |
| `rw` | the writer is alone inside, nobody is left blocked, the five threads of the program finish | 4 readers, 1 writer writing 2 and 0, one spurious wakeup |
| `buffer` | a FIFO queue, no lost wakeup, both threads finish | 4 cells, 10 items: around the end more than twice |
| `vm` | frames distinct, the handler always maps the page, the oldest page goes | 5 pages, 3 frames, each policy |
| `pipes` | who is left behind at the prompt, that modest lines come back to it, that a shell that goes frees its commands, that the alarm ends a driver nobody types to | pipes of 1, commands that write up to 2 (more than fits), 4 children, 2 pipes open at once (the third is refused) |
| `sched` | on tables with work at every moment: the chart is a schedule, the figures are those of the chart, SRBF is optimal, RR starves nobody and ends; the other algorithms end on any table | up to 4 processes, arrivals 0, 1 and 4 (tie, preemption, gap), bursts 1 and 3, quanta 1 and 2, any sequence of algorithms |

The run that ends with a counterexample, `fs_remount`, is in section 4.

The block geometry of the file system runs is 2 direct pointers and 2 pointers in
the indirect block, so that a file of 4 blocks is the largest and every border
is met with few blocks. Two inodes are needed for crossed links. `CHUNK` is 6
words, three blocks: a multiple of the block size, as 4*BUFSIZ is, and long
enough to pass the direct blocks in one call. `fs_store` has one word for both
files to stay small over a restart; that a write replaces what was there
by its own word is what `fs_full` is for.

With `AnyInode = FALSE` the file system runs leave out the numbers that create
never returned. `fs_store` has a disk that cannot fill up, and `fs_full` is started
once: `NoLeak` and `WrittenIsStored` do not hold on a full
disk, and nothing holds over a restart after a disk was full, as `fs_remount`
shows. `CopyOutWhole` excludes the lengths that section 4 names for `fs.cpp:298`.

Why the bounds suffice: the interesting file system states are one file at the
border between direct and indirect, another that competes for its blocks, and
one restart; the pools' are a full queue, an empty one and their alternation
with more clients than room; a pipeline's are output that fits and output that does not, one earlier line whose
ends are inherited, and a stray that ends at the wrong moment; four processes are the least with two waiting behind one that
preempts another. What the bounds hide is covered by the theorems where there are any.

`CHECK_DEADLOCK FALSE` is set where the system really stops: the file system (the shell stops and is not
started again once `MaxOpens` is reached), the pools (main exits, and the
workers with it), `tcp` (the connection is closed), `pipes` (the program exits) and `sched` (the user leaves the menu).
`rw`, `buffer` and `vm` check for deadlock. With two writers the
lock could leave one of them waiting for ever, because `writeunlock` never
signals `writeOK`; the program has a single writer, and so has `rw`. That two
writers exclude each other is shown by the theorem.

Bounds on counters: `MaxOpens` (starts of the shell), `MaxSpurious` (wakeups
without a signal in `RWLock`), `MaxBytes` (what the peer sends), `Conns` (clients), `MaxKids` (children of one run of a shell)
and `MaxOut` (what a command writes). `MaxSpurious` also keeps a
writer from being woken and put back for ever, which nothing in the code prevents
and no scheduler does. `MaxPipes` is no bound of the model but the limit of the system on open files.

### Fairness

- `SimpleFS!FairSpec`: a command that was given goes on as long as the process
  runs. Nothing is assumed of the user.
- `ThreadPool!FairSpec`, `ListPool!FairSpec`: every thread is scheduled, and a thread that asks for the
  mutex gets it if it is free again and again. In `ThreadPool` strong fairness of `Lock` is needed
  only because spurious wakeups are not bounded there: with weak fairness alone,
  a thread that wakes up, takes the mutex and waits again for ever could starve
  another. In `ListPool` workers that find the list empty ask again and again. Nothing is assumed of the clients, nor of
  the 300 seconds: no client need connect, and `request_create` need not return. Its loop at `request.c:46` reads
  header lines until an empty one comes, and `tcp_sleep` grants every read another second, so a client that sends
  a line now and then keeps main there for ever. Therefore `MainStep` has no fairness at `"create"`, `EveryoneServed` of `ThreadPool`
  leaves out the connection that main is reading, and says that the others are served all the same.
  A worker that answers is fair: the answer is finite, and `ServerGoesOn` says that it ends whatever the client does.
- `Connection!ConnectionSpec`: the thread in the call is scheduled, and `select` comes back by the time
  limit at the latest. Nothing is assumed of the peer, which may be silent for ever.
- `RWLock!LockFairSpec`, `BoundedBuffer!FairSpec`: every thread is scheduled and gets
  the mutex in the end (weak fairness, as a critical section is one step).
- `Pipeline!FairSpec`: every process is scheduled and the alarm goes off unless it is cancelled. A `q2` that
  reads a terminal is not fair: nobody need type anything.
- `Scheduler!FairSpec`: the program runs; the user may stay at the menu.

## 4. Where the code differs from what is written about it

`fs_remount` is a run that TLC ends with a counterexample: a write that ran out of
blocks leaves an indirect pointer that the size does not cover; the next mount
calls that block free (lab7/README.md:48).

These were met while reading and modelling and have no run of their own:

- `write` does not test `Valid`: copyin to a number that was never created allocates
  blocks, and the next create of it forgets them (lab7/README.md:109).
- off by one at `fs.cpp:298`: a file that ends inside the first block behind the direct
  ones is read through an indirect block that was never filled (lab7/README.md:93).
- format rounds to the nearest number of inode blocks (`fs.cpp:85`), mount rounds up
  (`fs.cpp:127`): disks of 11 to 14 blocks, 21 to 24 and so on are formatted and never
  mount, against the check of the proportion that lab7/README.md:48 asks for.
- mount compares `Blocks < 0`, which an unsigned number never is, and not
  `Blocks` with the size of the disk (`fs.cpp:121`, against lab7/README.md:48).
- a write that allocates the indirect block, and then finds none for the data,
  does not save the inode unless its size grew (`fs.cpp:415`, lab7/README.md:109).
- `return written` at `fs.cpp:412` saves nothing, yet reports words as written;
  their blocks are lost until the next mount (lab7/README.md:109).
- in the second mode of `Meg(Sanit).c` a stream of thumbnails keeps a request at the head of the list waiting for ever, and in
  both servers a client that sends header lines without end keeps everybody else from being accepted (`request.c:46`).
- `request_create` closes the connection when it fails, and main of every server closes it
  again, after it was freed (`request.h:35`); the models count the two calls.
- the server ends "because idle too long" with requests in the ring: 300 seconds
  without a new client are enough, however many are queued (`webserver_pool.c:202`).
- the assignment of the web server forbids busy waiting, and the workers of `Meg(Sanit).c` do nothing
  else; its `remove_sff` can loop for ever with the mutex held.
- `ReadMe.txt:7` of the servers gives the threads of `webserver_dynamic.c` an upper limit of ten, but nothing
  tests it: the eleventh connection writes past the array (`webserver_dynamic.c:70`).
- `SRBF` counts the time in which nobody is there towards the sum of the bursts and stops at `time == tt`
  (`scheduler.c:181`): on `process4.txt`, where nobody is there at time 0, it ends with a unit of `P2` left, whose turnaround
  time is then 0 or what an earlier algorithm stored.
- `results.txt:41` reports figures of round robin for the fourth process list, whose first process
  arrives at 1; the code never gets past time 0 there (`scheduler.c:94`).
- the help of `shell4.c:25` allows two pipes, and a line with two is parsed into nothing.
- the shells keep every end of every pipe open in the parent, so a second command that reads to
  the end of its input, a filter like `sort`, never ends while the shell lives, and neither does the line; that is why `PromptReturns` speaks of
  modest lines. An empty line crashes `shell4`.
- the handler of `Ques5.c:179` kills the number that `fork` returned, also when that is -1 because it
  failed: the signal then goes to every process of the user.
- the fault handler never reads or writes the disk (`LabReport.txt:40`).

`vm` shows something that is no error: the second chance of `custom` sets a
frame's bit when a page comes in and never when it is used. It therefore
never changes which page goes: a fault that finds a bit set finds all of them set, spares every frame once
and is back at the oldest. Theorem `OldestReplaced` says so for any numbers of pages and frames; the lab report
finds that the two "seem to have similar results".

## 5. Theorems

All are checked by TLAPS for every value of the constants that satisfies the
named assumptions of the modules.

| Module | Theorem | States |
|---|---|---|
| `ThreadPool_proofs` | `TypeCorrect` | `TypeOK` |
| | `RingTests` | `OneCellTells` |
| | `WakeupsSuffice` | `NoLostWakeup` |
| | `RequestsHeldOnce` | `HeldOnce` |
| | `ImplementsBoundedFIFO` | `FirstComeFirstServed`: the ring refines `BoundedFIFO` |
| `ListPool_proofs` | `TypeCorrect`, `CounterIsLength` | `TypeOK`; the counter is the length of the list |
| | `RequestsHeldOnce` | `HeldOnce` |
| | `ImplementsBoundedFIFO` | `FirstComeFirstServed`: the list refines `BoundedFIFO` |
| `Connection_proofs` | `TypeCorrect` | `TypeOK` of `TcpBuffer` |
| | `OneLine`, `StreamInOrder` | `ReadsOneLine`, `DataIsStream` |
| | `FileWithoutHole` | `BodyIsPrefix` |
| | `BothSides` | the three and the types, of `Connection` |
| `Assignment4_proofs`, the lock | `LockTypeCorrect`, `Counters` | `LockTypeOK`; `CountersExact` |
| | `WritersAlone` | `Exclusion` |
| | `LockWakeupsSuffice` | `NobodyLeftBlocked`, for one writer and at most `SIGNALS` readers |
| the same, the buffer | `TypeCorrect`, `GetsInOrder` | `TypeOK`; `InOrder` |
| | `WakeupsSuffice` | `NoLostWakeup` |
| | `ImplementsBoundedFIFO` | `ImplementsFIFO`: the buffer refines `BoundedFIFO` |
| `PageTable_proofs` | `TypeCorrect`, `OneFramePerPage` | `TypeOK`; `FramesDistinct` |
| | `FaultsAreServed` | the action property `HandlerMapsPage` |
| | `OldestReplaced` | `ReplacesOldest`: `PageTable` refines `FIFOReplacement` unless `mode` is `rand` |
| `SimpleFS_proofs` | `TypeCorrect` | `TypeOK` |
| | `SizesAreBacked` | `SizeBacked` |
| | `FilesApart`, `NoPointedBlockFree` | `NoCrossLink`, `PointedNotFree`, while `opens = 1` |
| | `StepsOfFileStore` | every step while `opens = 1` is a step of `FileStore` or none |
| | `ImplementsStore` | `ImplementsFileStore`, for `MaxOpens` at most 1 |
| | `NoUnwrittenDataHolds`, `CopyOutGivesAll` | `NoUnwrittenData`, `CopyOutWhole`, while `opens = 1` |
| | `SavedWritesAreStored` | `WrittenIsStored` after `SaveIndirect`, while `opens = 1` |
| | `FilesApartWithRoom`, `NoBlockLost` | `NoCrossLink` and `PointedNotFree`; `NoLeak`: over any starts, under `HasRoom` |
| | `ImplementsStoreWithRoom` | `ImplementsFileStore`, over any starts, under `HasRoom` |
| | `NoUnwrittenDataWithRoom`, `CopyOutGivesAllWithRoom`, `WritesAreStored` | `NoUnwrittenData`; `CopyOutWhole`; `WrittenIsStored`, likewise |
| | `RoomyHasRoom`, `RoomyDisk` | `HasRoom` on every behavior of a `Roomy` disk; so all of these there, without hypothesis on the behavior |
| `Scheduler_proofs` | `TypeCorrect` | `Types` |
| | `ChartsAreSchedules`, `StatsFollowChart` | `ChartIsSchedule`; `StatsMatchChart` |
| | `NobodyStarves` | `BypassedOnce` |
| `Pipeline_proofs` | `TypeCorrect`, `ChildrenLeft` | `TypeOK`; `OnlyStraysLeft` |

Each follows from an inductive invariant, theorem `Invariant` of its module (in `ListPool_proofs`, lemma
`Inductive`; for the lock, `LockInvariant`; in `SimpleFS_proofs` one for each theorem, on top of the types; in `Connection_proofs` one for each side).

*ThreadPool.* That the cell at `r` is empty says something of the others only
because the taken cells are those from `r` up to `w`. The invariant says so
without counting, as a relation between a cell and the positions, and adds who
holds the mutex. `NoLostWakeup` needs it: put broadcasts, but take signals one
thread only, and that this thread is main whenever main waits follows from the
fact that main waits on a full ring and workers on an empty one, never both.
The queue needs the count as well (`RingQueue`): the taken cells are the
`Count` cells from `r` on, and put and take change the cardinality by one.

*ListPool.* `size` is read without the mutex but written under it, so it is the
length of the list; a worker trusts the list and not what it read. `HeldOnce` then follows from
what each step moves: from main's hand to the list, or from the list to one
worker's hand.

*Connection.* A byte is its place in the stream. The used part of the buffer is the
stretch of the stream that ends at `taken`, so what was handed out ends where the
buffer begins, and each step of a call moves that border (`DataInOrder`). On the other side,
the last byte on the wire is the one before the next to be written, once the file has begun
(`Joined`); that survives the change to the next block because `request_handle` goes on only after
a whole one, and it need not hold in the header, where nobody looks. `BothSides` puts the
theorems of the two modules together: a behaviour of `Connection` is one of either, by its definition.

*RWLock.* The counters are the cardinalities of the sets of threads inside and
waiting; a writer inside excludes the rest. The cardinalities are followed
through each step with the theorems on finite sets of the library. `LockWakeupsSuffice` has two hypotheses,
and both are needed: with as many readers as signals, the signals are a broadcast; with
one writer, nobody waits for the signal on `writeOK` that is missing.

*BoundedBuffer.* The buffer holds the items put and not yet got: as many as lie
between the positions, in order, with the positions modulo the size. Lemma
`CellIsMod` turns the modulus into a case distinction. The refinement needs
that put appends to the sequence of used cells and that get takes its head.

*PageTable.* While the second chance searches, the frames it has passed have lost
their bits. After `NFRAMES` turns all have, so the next turn replaces: the
search ends before `2 * NFRAMES`. For `OldestReplaced` the order of arrival has to be read off the frames
(`Order`): before memory is full they are taken from 0 up, and from then on the oldest page is at `i`. Under
`custom` a bit is set when its frame is filled, so a search that spares one frame began with all bits set;
it spares all, comes round to where it began, and the next faults, until the bits are all set
again, spare none. `Queue` is the frames from the oldest on, and a replacement drops its head
and appends the new page, which is a step of `FIFOReplacement`.

*SimpleFS.* Types first, with how far a copyin is (`Progress`): the last chunk is no longer than what is left
of the host file, and `write` cuts what would not fit in a file. `SizeBacked` needs what `write` knows
in the middle of its loop (`WriteBacked`): the blocks it has passed are allocated, and they are all that
hold what it has written, so the size that it saves is covered; the lemmas on `\div` say which block a byte
is in. `FilesApart` and `NoPointedBlockFree` rest on what is *held* rather than on what the disk says: while
`write` runs, its own inode and indirect block, in memory, stand for those on the disk, which lag
behind. What is held is held once and is not free; and the disk points to nothing that is not held. An
allocation adds a free block to what is held, a save makes the disk agree, and `remove` and a kill give
up what they should. Neither need hold after a second start: `fs_remount` is the counterexample, because `mount`
rebuilds the bitmap from sizes and not from pointers. Hence the hypothesis `opens = 1`, which is
about the image as it was made by `format`, with any number of commands, aborted ones among them.

What the files hold (`RInv`) follows from that, since a block that a write fills, clears or points to is no other
file's. In the blocks that `write` has in hand, the words that it wrote are in place and the rest is what
the file was when it began (`HandsWords`); its inode and its indirect block differ from the disk only when
they are marked as modified (`SavedInode`, `SavedTable`); and where the disk has no block for a word of
the old file, that word was 0 already, being in an old hole (`NoOldLost`). So at any moment the
disk shows of each word the old value, the new one, or 0 behind the direct blocks: what `FileStore` lets
a kill leave. When write returns, a prefix of its words is in the file (`StoredAPrefix`): all
that it reports after `SaveIndirect` (`SavedWritesAreStored`, also when a full disk broke the loop), and none of those
behind the old end when there was no block for the indirect block (`ReturnEarly`), where the inode is not saved.
`StepsOfFileStore` maps one action after the other on this. It needs `opens = 1`, and that the user
names no inode but those that `create` returned (`AnyInode = FALSE`): `write` does not ask whether an inode is
in use, so a copyin to another number writes to what is no file of `FileStore`. From the refinement follows
`NoUnwrittenData`: a step of `FileStore` puts nothing but data in front of the direct limit.

`CopyOutGivesAll` is about `read`. The one call that could use the pointers it never read ends inside the first
block behind the direct ones; since chunks are whole blocks, that is where the file ends (`ChunkEnds`).
That no block number is refused as too big rests on `OneDisk`: in the first session the disk has as many
blocks as its superblock says.

The theorems `...WithRoom` go on past the next start. What `mount` finds depends on an agreement between
sizes and pointers that no command by itself asks for, and `CInv` states it: the disk points to nothing behind the
last block of a file's size (`DiskCovered`), and what `write` holds will be covered by the size it is about to save, but for the
block and the indirect block it is just filling (`HandsCovered`; `AtHand` names those places). A kill drops what write held and
not what the disk points to, so `DiskCovered` survives it, and then `mount` marks every block of every file: `FInv` holds in the
next session. The other half, `AllKept`, is that each block is free or held, which is `NoLeak` at the prompt.
Both halves break where `write` finds no free block: with the indirect block allocated and no block for data, the inode
is saved pointing to a block its size does not cover; without a block for the indirect one, the inode is not saved and
what it had allocated is lost, as is what `write` reports. So the hypothesis is about that moment and no other: `HasRoom` says that
whenever the next step of `write` is an allocation, some block is free. `fs_remount` shows that the theorems need it, and
`fs_store` that behaviors with it reach kills at every disk write. `OneSize` says that an image is started with its own number of
blocks, as `mount` trusts the superblock (`fs_geometry` has images of two sizes, and files that share blocks; only `TypeOK` and `SizeBacked` hold there, up to a
write over the inode table).

`HasRoom` speaks of behaviors. `Roomy` is a condition on the disk alone, a data block for each place of each inode, and
`RoomyHasRoom` shows that it is enough: by `AllKept` a full disk would put each block in a place of its own, but the
place that write wants to fill is empty, and the others are too few. The disk of `fs_store` satisfies it (10 places, 12 blocks). For such disks
`RoomyDisk` leaves no hypothesis on what the user does or when the shell is killed.

*Pipeline.* The children that are not reaped are the strays and those the parent has still to wait for (`Left`). For a shell
this is an equation at every step: a child started adds one to the children and either one to `waits` or, when
a partner cannot be started, one to the strays, and each `wait` takes one of both. A driver waits twice whatever became of `fork`,
and twice again after an alarm, so for it there is only an upper bound until `wait` fails for lack of children. Since
any child may answer a `wait`, nothing could be said of which children are left. The proof found that
`Terminated` had been written as a `CASE` whose guards overlap, whose value TLA+ leaves open; it is an `IF` now.

*Scheduler.* `Sched` says what an algorithm has come to: the lines of the chart follow each other (`Joined`), up to the line that
`SRBF` prints only when the process gives way (`Unprinted`); what the chart gives a process is what is gone of its burst
(`Accounted`); nobody idles, so the clock is the sum of what was run (`Clock`); and a process has run since it came
(`Served`), so no waiting time is negative. The figures of whoever has ended are those of its last line
(`Figures`). What is particular to each algorithm is in `Queued`, as that `SRBF` lets no arrival
pass unnoticed, and that nothing but the process that has just ended has 0 left. Round robin and `SRBF` end when the
clock has reached the sum of the bursts, and by `Clock` and `Accounted` nothing is left of any burst then. All of it is about tables for which there is
work at every moment (`Busy`, as in the properties): in a gap the clock of round robin stands still, `FCFS` runs a process before it
arrives, and `SRBF` stops before everybody has ended, so that figures of an earlier run remain. `StatsFollowChart` says nothing of such tables.

The sums are those of the community modules, which are recursive functions of a set. They need no
induction over data: of the subsets for which a sum is wrong one would be least (`LeastBad`), and taking one index
out of it leaves a smaller one. So `SumSplits` and the lemmas after it hold of every function on a finite set. A run begins with whatever the
last one left in the table: only its arrivals and bursts are assumed, which is why the theorems hold of any sequence of runs on a `Busy` table.

`NobodyStarves` adds `Turns` for round robin: the turn does not overtake the admission unless nobody is there to admit
(`InTurn`), and whoever has run once while `p` waited is behind the turn, on the way round to `p` (`TurnComes`), so `p` comes
before it runs again (`NeverTwice`). That holds although at most one process is admitted in a turn, and
whatever the quantum.

Assumptions the proofs use: `ALENAssumption`, `NamesAssumption`, `ListAssumption`,
`SizesAssumption`, `AnswerAssumption`, `ThreadsAssumption`, `NumbersAssumption`, `BufferAssumption`,
`ItemsAssumption`, `PageTableAssumption`, `PipeAssumption`, `InputAssumption`, `ConstantsAssumption` and `InodeBlockAssumption`. They say that numbers are
numbers of the least size that makes sense, that sets of threads are finite (`RWLock`), that names are distinct,
that every answer has a header (`Response`), and that all disks the shell is started with have as many
inode blocks (`SimpleFS`; they may differ in size, and `fs_geometry` has such disks). `InodeBlockAssumption` says that the inodes of a block
are enough for all its words; in `fs.h` they fill it (128 inodes of 8 words). `InputAssumption` keeps bursts
below `INT_MAX`, which the code gives to a process that is not there. `MaxFileAssumption` compares the bound of
the loop of `write` with the number it would otherwise compute, and is only evaluated by the runs.

Only model-checked:

- of the file system, what a later start finds of a disk that was full (`ImplementsFileStore` in `fs_full`, one start): the
  properties of the bitmap are false there (`fs_remount`), so the theorems stop at `HasRoom`. The same goes for disks
  started with another size and for inodes that nobody created.
- `SRBFIsBest` of the scheduler: it compares with an optimum over all schedules that a recursive definition
  computes, checked for every table within the bounds of `sched`.
- all liveness, which under fairness is out of reach of the prover.

## 6. Plan

Done: all the parts of section 1 that have a module, with the theorems above. To come, in this order:

1. a disk that was full: which files `mount` then still gets right.
2. that `SRBF` is optimal, by exchanging two units of a schedule.

## 7. Not modelled, and why

- `webserver_dynamic.c`: its threads share nothing, and each is one `Connection`. Its one hazard, the
  index of the thread array, is a counter that nothing tests.
- `webserver.c`: one loop without shared state.
- `Assignment6/vm_assignment/program.c` and `disk.c`: the programs touch pages in some order, which `PageTable` allows in any; the
  disk is opened and never used.
- `Assignment1/Ques1.c` and `Assignment4/hello.c`: no state and nothing that interacts.
- the SFF branch of `webserver_pool.c`, which does not compile, and `execute3` of `shell4.c`, which is never
  called with work to do.
- `listen`, `connect`, socket options and address functions of `tcp.c`: calls of the system without state of their own.
- `page_table_delete`, `deletelock`, `Disk` unmounting: never called, or called once at the end.
